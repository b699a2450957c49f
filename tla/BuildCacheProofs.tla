-------------------------- MODULE BuildCacheProofs --------------------------
(***************************************************************************)
(* Proofs about BuildCache, for any processes, keys and builds, any age    *)
(* limits and budget, and any number of crashes and damaged files.         *)
(***************************************************************************)
EXTENDS BuildCache, FiniteSetTheorems, TLAPS

Listed == [name : Keys, kind : {"key", "lock"}, age : Int, size : Int]
Known == [key  : Keys \cup {None}, for : {"lookup", "locked", "check", "placed"},
          meta : Stamps \cup {None}, due : BOOLEAN, made : Stamps \cup {None},
          read : Stamps \cup {Bad, None}, stored : BOOLEAN,
          todo : SUBSET Listed, left : Int, total : Int]

(* A process at the place, with the memory m, is storing.                    *)
Holds(place, m) == place \in {"exists", "aside", "place", "unlock"}
                   \/ (place \in {"meta", "files", "touch"} /\ m.for # "lookup")

(* What a process knows at each place: the key from the start of a load to   *)
(* the end of the store, metadata that was valid when it was read, files     *)
(* that match it, and what it compiled.                                      *)
Sound(place, m) ==
  /\ place \in Pcs /\ m \in Known
  /\ place \notin {"idle", "hit", "evict", "remove"} => m.key \in Keys
  /\ place \in {"files", "touch", "hit"} => m.meta \in Stamps
  /\ place \in {"touch", "hit"} => m.read = m.meta
  /\ place = "lock" \/ Holds(place, m) => m.made \in Stamps

Shape ==
  /\ entry \in [Keys -> EntryRecord \cup {None}]
  /\ lock \in [Keys -> LockRecord \cup {None}]
  /\ pc \in [Procs -> Pcs] /\ at \in [Procs -> Known]
  /\ \A p \in Procs : Sound(pc[p], at[p])

(* Who stores has the lock file of its key, unless a cleanup removed it.     *)
Locked ==
  \A p \in Procs : Holds(pc[p], at[p]) /\ Key(p) \notin stolen =>
    lock[Key(p)] # None /\ lock[Key(p)].by = p

IInv == Shape /\ Locked

LEMMA FreshIsSound ==
  ASSUME BuildCacheAssumption
  PROVE  Fresh \in Known /\ \A place \in {"idle", "evict"} : Sound(place, Fresh) /\ ~Holds(place, Fresh)
<1>1. Fresh \in Known
  BY DEF BuildCacheAssumption, Fresh, Known
<1> QED
  BY <1>1 DEF Sound, Holds, Pcs

LEMMA Start0 == BuildCacheAssumption /\ Init => IInv
<1> SUFFICES ASSUME BuildCacheAssumption, Init PROVE IInv
  OBVIOUS
<1>1. Shape
  BY FreshIsSound DEF Init, Shape, Pcs, BuildCacheAssumption, OldAge
<1>2. Locked
  BY FreshIsSound DEF Init, Locked
<1> QED
  BY <1>1, <1>2 DEF IInv

(* A process that moves to a place with sound knowledge keeps the shape.     *)
LEMMA MoveKeepsShape ==
  ASSUME Shape, NEW p \in Procs, NEW place, NEW m, Go(p, place, m), Sound(place, m),
         entry' \in [Keys -> EntryRecord \cup {None}], lock' \in [Keys -> LockRecord \cup {None}]
  PROVE  Shape'
<1>1. pc' \in [Procs -> Pcs] /\ at' \in [Procs -> Known]
  BY DEF Shape, Go, Sound
<1>2. ASSUME NEW q \in Procs PROVE Sound(pc'[q], at'[q])
  <2>1. CASE q = p
    BY <2>1 DEF Shape, Go
  <2>2. CASE q # p
    <3>1. pc'[q] = pc[q] /\ at'[q] = at[q]
      BY <2>2 DEF Shape, Go
    <3> QED
      BY <3>1 DEF Shape
  <2> QED
    BY <2>1, <2>2
<1>3. (\A q \in Procs : Sound(pc[q], at[q]))' <=> \A q \in Procs : Sound(pc'[q], at'[q])
  BY DEF Sound, Holds
<1> QED
  BY <1>1, <1>2, <1>3 DEF Shape

(* ... and the ownership of the locks, when it stored before if it stores    *)
(* now, or does not store.                                                   *)
LEMMA MoveKeepsLocks ==
  ASSUME IInv, NEW p \in Procs, NEW place, NEW m, Go(p, place, m), UNCHANGED <<lock, stolen>>,
         Holds(place, m) => Holds(pc[p], at[p]) /\ m.key = Key(p)
  PROVE  Locked'
<1>1. ASSUME NEW q \in Procs, Holds(pc'[q], at'[q]), at'[q].key \notin stolen
      PROVE  lock[at'[q].key] # None /\ lock[at'[q].key].by = q
  <2>1. CASE q = p
    <3>1. pc'[q] = place /\ at'[q] = m
      BY <2>1 DEF IInv, Shape, Go
    <3> QED
      BY <1>1, <2>1, <3>1 DEF IInv, Locked, Key
  <2>2. CASE q # p
    <3>1. pc'[q] = pc[q] /\ at'[q] = at[q]
      BY <2>2 DEF IInv, Shape, Go
    <3> QED
      BY <1>1, <3>1 DEF IInv, Locked, Key
  <2> QED
    BY <2>1, <2>2
<1> QED
  BY <1>1 DEF Locked, Holds, Key

(* The outcome of a load: a lookup ends in a hit or a compilation, any other *)
(* load in the next step of its store.                                       *)
LEMMA LoadedMoves ==
  ASSUME NEW p, NEW m \in Known, NEW outcome, Loaded(p, m, outcome), m.key \in Keys,
         m.for # "lookup" => m.made \in Stamps,
         m.for = "lookup" /\ outcome = "hit" => m.meta \in Stamps /\ m.read = m.meta
  PROVE  \E place, n : /\ Go(p, place, n) /\ Sound(place, n) /\ n.key = m.key
                       /\ Holds(place, n) => m.for # "lookup"
<1> DEFINE f == Forget(m)
           g == [Forget(m) EXCEPT !.stored = outcome = "hit"]
<1>1. f \in Known /\ f.key = m.key /\ f.made = m.made
  BY DEF Forget, Known
<1>2. g \in Known /\ g.key = m.key /\ g.made = m.made
  BY <1>1 DEF Known
<1> HIDE DEF f, g
<1>3. CASE m.for = "lookup"
  <2>1. CASE outcome = "hit"
    <3>1. Go(p, "hit", m)
      BY <1>3, <2>1 DEF Loaded
    <3>2. Sound("hit", m) /\ ~Holds("hit", m)
      BY <1>3, <2>1 DEF Sound, Holds, Pcs
    <3> QED
      BY <3>1, <3>2
  <2>2. CASE outcome # "hit"
    <3>1. Go(p, "compile", f)
      BY <1>3, <2>2 DEF Loaded, f
    <3>2. Sound("compile", f) /\ ~Holds("compile", f)
      BY <1>1 DEF Sound, Holds, Pcs
    <3> QED
      BY <1>1, <3>1, <3>2
  <2> QED
    BY <2>1, <2>2
<1>4. CASE m.for # "lookup"
  <2>1. \A place \in {"exists", "unlock", "place", "aside"} : Sound(place, f) /\ Sound(place, g)
    BY <1>1, <1>2, <1>4 DEF Sound, Holds, Pcs
  <2>2. m.for \in {"locked", "check", "placed"}
    BY <1>4 DEF Known
  <2>3. CASE m.for = "placed"
    <3>1. Go(p, "unlock", g)
      BY <2>3 DEF Loaded, g
    <3> QED
      BY <1>2, <1>4, <2>1, <3>1
  <2>4. CASE m.for = "locked"
    <3>1. Go(p, IF outcome = "miss" THEN "exists" ELSE "unlock", f)
      BY <2>4 DEF Loaded, f
    <3> QED
      BY <1>1, <1>4, <2>1, <3>1
  <2>5. CASE m.for = "check"
    <3>1. \E place \in {"exists", "unlock", "place", "aside"} : Go(p, place, f)
      BY <2>5 DEF Loaded, f
    <3> QED
      BY <1>1, <1>4, <2>1, <3>1
  <2> QED
    BY <2>2, <2>3, <2>4, <2>5
<1> QED
  BY <1>3, <1>4

(* The steps of a load, which change no lock.                                *)
LEMMA LoadStep ==
  ASSUME BuildCacheAssumption, IInv, NEW p \in Procs,
         ReadMetadata(p) \/ ReadFiles(p) \/ Touch(p)
  PROVE  IInv'
<1> DEFINE e == entry[Key(p)]
<1>1. /\ pc[p] \in {"meta", "files", "touch"} /\ at[p] \in Known /\ Key(p) \in Keys
      /\ at[p].for # "lookup" => at[p].made \in Stamps
      /\ pc[p] \in {"files", "touch"} => at[p].meta \in Stamps
      /\ pc[p] = "touch" => at[p].read = at[p].meta
  BY DEF IInv, Shape, Sound, Holds, Key, ReadMetadata, ReadFiles, Touch
<1>2. UNCHANGED <<lock, stolen>>
  BY DEF ReadMetadata, ReadFiles, Touch, files
<1>3. entry' \in [Keys -> EntryRecord \cup {None}]
  <2>1. CASE entry' = entry
    BY <2>1 DEF IInv, Shape
  <2>2. CASE entry' # entry
    <3>1. pc[p] = "touch" /\ e # None
          /\ entry' = [entry EXCEPT ![Key(p)] = [@ EXCEPT !.meta = at[p].meta, !.age = 0]]
      BY <2>2 DEF ReadMetadata, ReadFiles, Touch, files
    <3>2. e \in EntryRecord /\ 0 \in Ages
      BY <1>1, <3>1 DEF IInv, Shape, Ages, OldAge, BuildCacheAssumption
    <3>3. [e EXCEPT !.meta = at[p].meta, !.age = 0] \in EntryRecord
      BY <1>1, <3>1, <3>2 DEF EntryRecord
    <3> QED
      BY <1>1, <3>1, <3>3 DEF IInv, Shape
  <2> QED
    BY <2>1, <2>2
<1>4. \E place, n : /\ Go(p, place, n) /\ Sound(place, n) /\ n.key = Key(p)
                    /\ Holds(place, n) => at[p].for # "lookup"
  <2>1. CASE ReadMetadata(p)
    <3>1. CASE e = None \/ e.meta = Bad
      <4>1. Loaded(p, at[p], "miss")
        BY <2>1, <3>1 DEF ReadMetadata
      <4> QED
        BY <1>1, <4>1, LoadedMoves DEF Key
    <3>2. CASE ~(e = None \/ e.meta = Bad)
      <4> DEFINE due == e.age >= TouchAge
                 n == [at[p] EXCEPT !.meta = e.meta, !.due = due]
      <4>1. Go(p, "files", n)
        BY <2>1, <3>2 DEF ReadMetadata
      <4>5. due \in BOOLEAN
        OBVIOUS
      <4> HIDE DEF due
      <4>2. e.meta \in Stamps
        BY <1>1, <3>2 DEF IInv, Shape, EntryRecord
      <4>3. n \in Known /\ n.key = Key(p) /\ n.for = at[p].for /\ n.made = at[p].made /\ n.meta = e.meta
        BY <1>1, <4>2, <4>5 DEF Known, Key
      <4> HIDE DEF n
      <4>4. Sound("files", n)
        BY <1>1, <4>2, <4>3 DEF Sound, Holds, Pcs
      <4> QED
        BY <4>1, <4>3, <4>4 DEF Holds
    <3> QED
      BY <3>1, <3>2
  <2>2. CASE ReadFiles(p)
    <3> DEFINE n == [at[p] EXCEPT !.read = e.art]
    <3>1. CASE e = None \/ e.art # at[p].meta
      <4>1. Loaded(p, at[p], "miss")
        BY <2>2, <3>1 DEF ReadFiles
      <4> QED
        BY <1>1, <4>1, LoadedMoves DEF Key
    <3>2. CASE ~(e = None \/ e.art # at[p].meta)
      <4>1. IF at[p].due THEN Go(p, "touch", n) ELSE Loaded(p, n, "hit")
        BY <2>2, <3>2 DEF ReadFiles
      <4>2. e.art = at[p].meta /\ at[p].meta \in Stamps
        BY <1>1, <2>2, <3>2 DEF ReadFiles
      <4>3. n \in Known /\ n.key = Key(p) /\ n.for = at[p].for /\ n.made = at[p].made
            /\ n.meta = at[p].meta /\ n.read = at[p].meta
        BY <1>1, <4>2 DEF Known, Key
      <4> HIDE DEF n
      <4>4. Sound("touch", n)
        BY <1>1, <4>2, <4>3 DEF Sound, Holds, Pcs
      <4>5. CASE at[p].due
        BY <4>1, <4>3, <4>4, <4>5 DEF Holds
      <4>6. CASE ~at[p].due
        <5>1. Loaded(p, n, "hit")
          BY <4>1, <4>6
        <5> QED
          BY <1>1, <4>2, <4>3, <5>1, LoadedMoves
      <4> QED
        BY <4>5, <4>6
    <3> QED
      BY <3>1, <3>2
  <2>3. CASE Touch(p)
    <3>1. \E outcome : Loaded(p, at[p], outcome)
      BY <2>3 DEF Touch
    <3>2. pc[p] = "touch"
      BY <2>3 DEF Touch
    <3> QED
      BY <1>1, <3>1, <3>2, LoadedMoves DEF Key
  <2> QED
    BY <2>1, <2>2, <2>3
<1>5. at[p].for # "lookup" => Holds(pc[p], at[p])
  BY <1>1 DEF Holds
<1>6. lock' \in [Keys -> LockRecord \cup {None}]
  BY <1>2 DEF IInv, Shape
<1> QED
  BY <1>2, <1>3, <1>4, <1>5, <1>6, MoveKeepsShape, MoveKeepsLocks DEF IInv

(* The steps of a process outside a load and before the rename of a store,   *)
(* which change neither locks nor entries.                                   *)
LEMMA PlainStep ==
  ASSUME BuildCacheAssumption, IInv, NEW p \in Procs,
         Restore(p) \/ Compile(p) \/ Exists(p) \/ Evict(p) \/ \E k \in Keys : Start(p, k)
  PROVE  IInv'
<1>1. UNCHANGED <<entry, lock, stolen>>
  BY DEF Restore, Compile, Exists, Evict, Start, files
<1>3. at[p] \in Known /\ Sound(pc[p], at[p])
  BY DEF IInv, Shape
<1>4. \E place, n : /\ Go(p, place, n) /\ Sound(place, n)
                    /\ Holds(place, n) => Holds(pc[p], at[p]) /\ n.key = Key(p)
  <2>1. CASE Restore(p)
    <3>1. \E place \in {"idle", "evict"} : Go(p, place, Fresh)
      BY <2>1 DEF Restore, Return
    <3> QED
      BY <3>1, FreshIsSound
  <2>2. CASE Compile(p)
    <3>1. PICK b \in Stamps : Go(p, "lock", [at[p] EXCEPT !.made = b])
      BY <2>2 DEF Compile
    <3> DEFINE n == [at[p] EXCEPT !.made = b]
    <3>2. n \in Known /\ n.key = at[p].key /\ n.made = b
      BY <1>3 DEF Known
    <3>3. at[p].key \in Keys
      BY <1>3, <2>2 DEF Sound, Compile
    <3>4. Go(p, "lock", n)
      BY <3>1
    <3> HIDE DEF n
    <3>5. Sound("lock", n) /\ ~Holds("lock", n)
      BY <3>2, <3>3 DEF Sound, Holds, Pcs
    <3> QED
      BY <3>4, <3>5
  <2>3. CASE Exists(p)
    <3> DEFINE n == [at[p] EXCEPT !.for = "check"]
    <3>1. Go(p, "place", at[p]) \/ Go(p, "meta", n)
      BY <2>3 DEF Exists, Load
    <3>2. n \in Known /\ n.key = at[p].key /\ n.made = at[p].made /\ n.for = "check"
      BY <1>3 DEF Known
    <3>3. at[p].key \in Keys /\ at[p].made \in Stamps /\ Holds(pc[p], at[p])
      BY <1>3, <2>3 DEF Sound, Holds, Exists
    <3> HIDE DEF n
    <3>4. Sound("place", at[p]) /\ Sound("meta", n)
      BY <1>3, <3>2, <3>3 DEF Sound, Holds, Pcs
    <3> QED
      BY <3>1, <3>2, <3>3, <3>4 DEF Key
  <2>4. CASE Evict(p)
    <3> DEFINE n == [at[p] EXCEPT !.todo = Listing, !.total = Total]
    <3>1. Go(p, "idle", Fresh) \/ Go(p, "remove", n)
      BY <2>4 DEF Evict, Return
    <3>2. Listing \subseteq Listed
      BY DEF Listing, Listed, Size, IInv, Shape, EntryRecord, LockRecord, Ages, OldAge,
             BuildCacheAssumption
    <3>3. Total \in Int
      <4>1. IsFiniteSet({k \in Keys : Size(entry[k]) = 1})
        BY FS_Subset DEF BuildCacheAssumption
      <4> QED
        BY <4>1, FS_CardinalityType DEF Total
    <3>4. n \in Known
      BY <1>3, <3>2, <3>3 DEF Known
    <3> HIDE DEF n
    <3>5. Sound("remove", n) /\ ~Holds("remove", n)
      BY <3>4 DEF Sound, Holds, Pcs
    <3> QED
      BY <3>1, <3>5, FreshIsSound
  <2>5. CASE \E k \in Keys : Start(p, k)
    <3>1. PICK k \in Keys : Go(p, "meta", [Fresh EXCEPT !.key = k])
      BY <2>5 DEF Start
    <3> DEFINE n == [Fresh EXCEPT !.key = k]
    <3>2. n \in Known /\ n.key = k /\ n.for = "lookup"
      BY FreshIsSound DEF Known, Fresh
    <3>3. Go(p, "meta", n)
      BY <3>1
    <3> HIDE DEF n
    <3>4. Sound("meta", n) /\ ~Holds("meta", n)
      BY <3>2 DEF Sound, Holds, Pcs
    <3> QED
      BY <3>3, <3>4
  <2> QED
    BY <2>1, <2>2, <2>3, <2>4, <2>5
<1>5. entry' \in [Keys -> EntryRecord \cup {None}] /\ lock' \in [Keys -> LockRecord \cup {None}]
  BY <1>1 DEF IInv, Shape
<1> QED
  BY <1>1, <1>4, <1>5, MoveKeepsShape, MoveKeepsLocks DEF IInv

(* The steps of a store that replace the entry.                              *)
LEMMA EntryStep ==
  ASSUME BuildCacheAssumption, IInv, NEW p \in Procs, Aside(p) \/ Place(p)
  PROVE  IInv'
<1>1. UNCHANGED <<lock, stolen>>
  BY DEF Aside, Place
<1>2. at[p] \in Known /\ Key(p) \in Keys /\ at[p].made \in Stamps /\ Holds(pc[p], at[p])
  BY DEF IInv, Shape, Sound, Holds, Key, Aside, Place
<1>3. entry' \in [Keys -> EntryRecord \cup {None}]
  <2>1. [art |-> at[p].made, meta |-> at[p].made, age |-> 0] \in EntryRecord
    BY <1>2 DEF EntryRecord, Ages, OldAge, BuildCacheAssumption
  <2> QED
    BY <1>2, <2>1 DEF IInv, Shape, Aside, Place
<1>4. \E place, n : Go(p, place, n) /\ Sound(place, n) /\ n.key = Key(p)
  <2> DEFINE n == [at[p] EXCEPT !.stored = TRUE]
             o == [at[p] EXCEPT !.for = "placed"]
  <2>1. Go(p, "place", at[p]) \/ Go(p, "unlock", n) \/ Go(p, "meta", o)
    BY DEF Aside, Place, Load
  <2>2. /\ n \in Known /\ n.key = at[p].key /\ n.made = at[p].made
        /\ o \in Known /\ o.key = at[p].key /\ o.made = at[p].made
    BY <1>2 DEF Known
  <2> HIDE DEF n, o
  <2>3. Sound("place", at[p]) /\ Sound("unlock", n) /\ Sound("meta", o)
    BY <1>2, <2>2 DEF Sound, Pcs, Key
  <2> QED
    BY <2>1, <2>2, <2>3 DEF Key
<1>5. lock' \in [Keys -> LockRecord \cup {None}]
  BY <1>1 DEF IInv, Shape
<1> QED
  BY <1>1, <1>2, <1>3, <1>4, <1>5, MoveKeepsShape, MoveKeepsLocks DEF IInv

(* The lock file is made only where there is none, so that it is nobody      *)
(* else's.                                                                   *)
LEMMA TakeLockStep ==
  ASSUME BuildCacheAssumption, IInv, NEW p \in Procs, TakeLock(p)
  PROVE  IInv'
<1>1. CASE lock[Key(p)] # None
  <2>1. Go(p, "idle", Fresh) /\ UNCHANGED <<entry, lock, stolen>>
    BY <1>1 DEF TakeLock, Return
  <2>2. entry' \in [Keys -> EntryRecord \cup {None}] /\ lock' \in [Keys -> LockRecord \cup {None}]
    BY <2>1 DEF IInv, Shape
  <2> QED
    BY <2>1, <2>2, FreshIsSound, MoveKeepsShape, MoveKeepsLocks DEF IInv
<1>2. CASE lock[Key(p)] = None
  <2> DEFINE n == [at[p] EXCEPT !.for = "locked"]
             mine == [by |-> p, age |-> 0]
  <2>1. Go(p, "meta", n) /\ lock' = [lock EXCEPT ![Key(p)] = mine] /\ UNCHANGED <<entry, stolen>>
    BY <1>2 DEF TakeLock, Load
  <2>2. at[p] \in Known /\ Key(p) \in Keys /\ at[p].made \in Stamps
    BY DEF IInv, Shape, Sound, Key, TakeLock
  <2>3. n \in Known /\ n.key = Key(p) /\ n.made = at[p].made
    BY <2>2 DEF Known, Key
  <2>4. mine \in LockRecord /\ mine # None /\ mine.by = p
    BY DEF LockRecord, Ages, OldAge, BuildCacheAssumption
  <2> HIDE DEF n, mine
  <2>5. Sound("meta", n)
    BY <2>2, <2>3 DEF Sound, Pcs
  <2>6. entry' \in [Keys -> EntryRecord \cup {None}] /\ lock' \in [Keys -> LockRecord \cup {None}]
    BY <2>1, <2>2, <2>4 DEF IInv, Shape
  <2>7. Shape'
    BY <2>1, <2>5, <2>6, MoveKeepsShape DEF IInv
  <2>8. ASSUME NEW q \in Procs, Holds(pc'[q], at'[q]), at'[q].key \notin stolen
        PROVE  lock'[at'[q].key] # None /\ lock'[at'[q].key].by = q
    <3>1. CASE q = p
      <4>1. at'[q] = n
        BY <2>1, <3>1 DEF Go, IInv, Shape
      <4> QED
        BY <2>1, <2>2, <2>3, <2>4, <3>1, <4>1 DEF IInv, Shape
    <3>2. CASE q # p
      <4>1. pc'[q] = pc[q] /\ at'[q] = at[q]
        BY <2>1, <3>2 DEF Go, IInv, Shape
      <4>2. lock[at[q].key] # None /\ lock[at[q].key].by = q /\ at[q].key \in Keys
        BY <2>8, <4>1 DEF IInv, Shape, Sound, Holds, Locked, Key
      <4>3. at[q].key # Key(p)
        BY <1>2, <4>2
      <4> QED
        BY <2>1, <4>1, <4>2, <4>3 DEF IInv, Shape
    <3> QED
      BY <3>1, <3>2
  <2>9. Locked'
    BY <2>1, <2>8 DEF Locked, Holds, Key
  <2> QED
    BY <2>7, <2>9 DEF IInv
<1> QED
  BY <1>1, <1>2

(* A lock file that is removed by name was one's own, unless it was stolen.  *)
LEMMA UnlockStep ==
  ASSUME BuildCacheAssumption, IInv, NEW p \in Procs, Unlock(p)
  PROVE  IInv'
<1>1. PICK place \in {"idle", "evict"} : Go(p, place, Fresh)
  BY DEF Unlock, Return
<1>2. lock' = [lock EXCEPT ![Key(p)] = None] /\ UNCHANGED <<entry, stolen>>
  BY DEF Unlock
<1>3. Holds(pc[p], at[p]) /\ Key(p) \in Keys
  BY DEF Unlock, IInv, Shape, Sound, Holds, Key
<1>4. entry' \in [Keys -> EntryRecord \cup {None}] /\ lock' \in [Keys -> LockRecord \cup {None}]
  BY <1>2, <1>3 DEF IInv, Shape
<1>5. Shape'
  BY <1>1, <1>4, FreshIsSound, MoveKeepsShape DEF IInv
<1>6. ASSUME NEW q \in Procs, Holds(pc'[q], at'[q]), at'[q].key \notin stolen
      PROVE  lock'[at'[q].key] # None /\ lock'[at'[q].key].by = q
  <2>1. q # p
    BY <1>1, <1>6, FreshIsSound DEF Go, IInv, Shape
  <2>2. pc'[q] = pc[q] /\ at'[q] = at[q]
    BY <1>1, <2>1 DEF Go, IInv, Shape
  <2>3. lock[at[q].key] # None /\ lock[at[q].key].by = q /\ at[q].key \in Keys
    BY <1>6, <2>2 DEF IInv, Shape, Sound, Holds, Locked, Key
  <2>4. at[q].key # Key(p)
    BY <1>3, <1>6, <2>1, <2>2, <2>3 DEF IInv, Locked
  <2> QED
    BY <1>2, <2>2, <2>3, <2>4 DEF IInv, Shape
<1>7. Locked'
  BY <1>2, <1>6 DEF Locked, Holds, Key
<1> QED
  BY <1>5, <1>7 DEF IInv

(* A cleanup that removes the lock file of a living process steals it.       *)
LEMMA RemoveStep ==
  ASSUME BuildCacheAssumption, IInv, NEW p \in Procs, RemoveOldest(p)
  PROVE  IInv'
<1> DEFINE rest(i) == [at[p] EXCEPT !.todo = @ \ {i}, !.left = @ - 1]
           fewer(i) == [rest(i) EXCEPT !.total = IF entry[i.name] = None THEN @ ELSE @ - i.size]
<1>1. at[p] \in Known
  BY DEF IInv, Shape
<1>2. ASSUME NEW i \in Listed
      PROVE  rest(i) \in Known /\ fewer(i) \in Known
  <2>1. at[p].todo \ {i} \in SUBSET Listed /\ at[p].left - 1 \in Int
    BY <1>1 DEF Known
  <2>2. rest(i) \in Known
    BY <1>1, <2>1 DEF Known
  <2> HIDE DEF rest
  <2>3. rest(i).total - i.size \in Int
    BY <2>2 DEF Known, Listed
  <2>4. fewer(i) \in Known
    BY <2>2, <2>3 DEF Known
  <2> QED
    BY <2>2, <2>4
<1>3. ASSUME NEW n \in Known PROVE Sound("remove", n) /\ ~Holds("remove", n)
  BY DEF Sound, Holds, Pcs
<1>4. \E place, n : Go(p, place, n) /\ Sound(place, n) /\ ~Holds(place, n)
  <2>1. \/ Go(p, "idle", Fresh)
        \/ \E i \in at[p].todo : Go(p, "remove", rest(i)) \/ Go(p, "remove", fewer(i))
    BY DEF RemoveOldest, RemoveOldestWithin, Return
  <2>2. at[p].todo \subseteq Listed
    BY <1>1 DEF Known
  <2> HIDE DEF rest, fewer
  <2> QED
    BY <1>2, <1>3, <2>1, <2>2, FreshIsSound
<1>5. PICK place, n : Go(p, place, n) /\ Sound(place, n) /\ ~Holds(place, n)
  BY <1>4
<1>6. \/ UNCHANGED <<entry, lock, stolen>>
      \/ \E k \in Keys : entry' = [entry EXCEPT ![k] = None] /\ UNCHANGED <<lock, stolen>>
      \/ \E k \in Keys : /\ lock' = [lock EXCEPT ![k] = None]
                         /\ stolen' = IF lock[k] # None /\ lock[k].by # Dead
                                      THEN stolen \cup {k} ELSE stolen
                         /\ UNCHANGED entry
  <2>1. \A i \in at[p].todo : i.name \in Keys
    BY <1>1 DEF Known, Listed
  <2> QED
    BY <2>1 DEF RemoveOldest, RemoveOldestWithin, files
<1>7. entry' \in [Keys -> EntryRecord \cup {None}] /\ lock' \in [Keys -> LockRecord \cup {None}]
  BY <1>6 DEF IInv, Shape
<1>8. Shape'
  BY <1>5, <1>7, MoveKeepsShape DEF IInv
<1>9. CASE UNCHANGED <<lock, stolen>>
  BY <1>5, <1>8, <1>9, MoveKeepsLocks DEF IInv
<1>10. ASSUME NEW k \in Keys, lock' = [lock EXCEPT ![k] = None],
              stolen' = IF lock[k] # None /\ lock[k].by # Dead THEN stolen \cup {k} ELSE stolen
       PROVE  IInv'
  <2>1. ASSUME NEW q \in Procs, Holds(pc'[q], at'[q]), at'[q].key \notin stolen'
        PROVE  lock'[at'[q].key] # None /\ lock'[at'[q].key].by = q
    <3>1. q # p
      BY <1>5, <2>1 DEF Go, IInv, Shape
    <3>2. pc'[q] = pc[q] /\ at'[q] = at[q]
      BY <1>5, <3>1 DEF Go, IInv, Shape
    <3>3. at[q].key \notin stolen
      BY <1>10, <2>1, <3>2
    <3>4. lock[at[q].key] # None /\ lock[at[q].key].by = q /\ at[q].key \in Keys
      BY <2>1, <3>2, <3>3 DEF IInv, Shape, Sound, Holds, Locked, Key
    <3>5. at[q].key # k
      BY <1>10, <2>1, <3>2, <3>4 DEF BuildCacheAssumption
    <3> QED
      BY <1>10, <3>2, <3>4, <3>5 DEF IInv, Shape
  <2>2. Locked'
    BY <2>1 DEF Locked, Holds, Key
  <2> QED
    BY <1>8, <2>2 DEF IInv
<1> QED
  BY <1>6, <1>9, <1>10

(* A crash leaves the lock file to nobody.                                   *)
LEMMA CrashStep ==
  ASSUME BuildCacheAssumption, IInv, NEW p \in Procs, Crash(p)
  PROVE  IInv'
<1>1. Go(p, "idle", Fresh) /\ UNCHANGED <<entry, stolen>>
  BY DEF Crash, Return
<1>2. ASSUME NEW k \in Keys
      PROVE  /\ lock'[k] \in LockRecord \cup {None}
             /\ lock[k] # None /\ lock[k].by # p => lock'[k] = lock[k]
  <2>1. lock'[k] = IF lock[k] # None /\ lock[k].by = p THEN [lock[k] EXCEPT !.by = Dead] ELSE lock[k]
    BY DEF Crash
  <2>2. lock[k] # None => [lock[k] EXCEPT !.by = Dead] \in LockRecord
    BY DEF IInv, Shape, LockRecord
  <2>3. lock[k] \in LockRecord \cup {None}
    BY DEF IInv, Shape
  <2> QED
    BY <2>1, <2>2, <2>3
<1>3. lock' = [k \in Keys |-> lock'[k]]
  BY DEF Crash
<1>4. entry' \in [Keys -> EntryRecord \cup {None}] /\ lock' \in [Keys -> LockRecord \cup {None}]
  BY <1>1, <1>2, <1>3 DEF IInv, Shape
<1>5. Shape'
  BY <1>1, <1>4, FreshIsSound, MoveKeepsShape DEF IInv
<1>6. ASSUME NEW q \in Procs, Holds(pc'[q], at'[q]), at'[q].key \notin stolen
      PROVE  lock'[at'[q].key] # None /\ lock'[at'[q].key].by = q
  <2>1. q # p
    BY <1>1, <1>6, FreshIsSound DEF Go, IInv, Shape
  <2>2. pc'[q] = pc[q] /\ at'[q] = at[q]
    BY <1>1, <2>1 DEF Go, IInv, Shape
  <2>3. lock[at[q].key] # None /\ lock[at[q].key].by = q /\ at[q].key \in Keys
    BY <1>6, <2>2 DEF IInv, Shape, Sound, Holds, Locked, Key
  <2> QED
    BY <1>2, <2>1, <2>2, <2>3
<1>7. Locked'
  BY <1>1, <1>6 DEF Locked, Holds, Key
<1> QED
  BY <1>5, <1>7 DEF IInv

(* Time and damage change neither who has a lock nor where a process is.     *)
LEMMA OutsideStep ==
  ASSUME BuildCacheAssumption, IInv, Tick \/ \E k \in Keys : Damage(k)
  PROVE  IInv'
<1>1. UNCHANGED <<pc, at, stolen>>
  BY DEF Tick, Damage
<1>2. ASSUME NEW a \in Ages PROVE Older(a) \in Ages
  BY DEF Older, Ages, OldAge, BuildCacheAssumption
<1>3. CASE Tick
  <2>1. ASSUME NEW k \in Keys
        PROVE  /\ entry'[k] \in EntryRecord \cup {None} /\ lock'[k] \in LockRecord \cup {None}
               /\ lock[k] # None => lock'[k] # None /\ lock'[k].by = lock[k].by
    <3>1. /\ entry'[k] = IF entry[k] = None THEN None ELSE [entry[k] EXCEPT !.age = Older(@)]
          /\ lock'[k] = IF lock[k] = None THEN None ELSE [lock[k] EXCEPT !.age = Older(@)]
      BY <1>3 DEF Tick
    <3>2. ASSUME entry[k] # None PROVE [entry[k] EXCEPT !.age = Older(@)] \in EntryRecord
      <4>1. entry[k] \in EntryRecord /\ Older(entry[k].age) \in Ages
        BY <1>2, <3>2 DEF IInv, Shape, EntryRecord
      <4> QED
        BY <4>1 DEF EntryRecord
    <3>3. ASSUME lock[k] # None
          PROVE  /\ [lock[k] EXCEPT !.age = Older(@)] \in LockRecord
                 /\ [lock[k] EXCEPT !.age = Older(@)].by = lock[k].by
      <4>1. lock[k] \in LockRecord /\ Older(lock[k].age) \in Ages
        BY <1>2, <3>3 DEF IInv, Shape, LockRecord
      <4> QED
        BY <4>1 DEF LockRecord
    <3>4. None \notin LockRecord
      BY DEF BuildCacheAssumption
    <3>5. CASE lock[k] = None
      BY <3>1, <3>2, <3>5
    <3>6. CASE lock[k] # None
      <4>1. lock'[k] = [lock[k] EXCEPT !.age = Older(@)]
        BY <3>1, <3>6
      <4> QED
        BY <3>1, <3>2, <3>3, <3>4, <3>6, <4>1
    <3> QED
      BY <3>5, <3>6
  <2>2. entry' = [k \in Keys |-> entry'[k]] /\ lock' = [k \in Keys |-> lock'[k]]
    BY <1>3 DEF Tick
  <2>3. entry' \in [Keys -> EntryRecord \cup {None}] /\ lock' \in [Keys -> LockRecord \cup {None}]
    BY <2>1, <2>2
  <2>4. Shape'
    BY <1>1, <2>3 DEF IInv, Shape, Sound, Holds
  <2>5. ASSUME NEW q \in Procs, Holds(pc[q], at[q]), at[q].key \notin stolen
        PROVE  lock'[at[q].key] # None /\ lock'[at[q].key].by = q
    BY <2>1, <2>5 DEF IInv, Shape, Sound, Holds, Locked, Key
  <2>6. Locked'
    BY <1>1, <2>5 DEF Locked, Holds, Key
  <2> QED
    BY <2>4, <2>6 DEF IInv
<1>4. CASE \E k \in Keys : Damage(k)
  <2>1. PICK k \in Keys : Damage(k)
    BY <1>4
  <2>2. entry[k] \in EntryRecord /\ UNCHANGED lock
    BY <2>1 DEF Damage, IInv, Shape
  <2>3. [entry[k] EXCEPT !.art = Bad] \in EntryRecord /\ [entry[k] EXCEPT !.meta = Bad] \in EntryRecord
    BY <2>2 DEF EntryRecord
  <2>4. \/ entry' = [entry EXCEPT ![k] = [entry[k] EXCEPT !.art = Bad]]
        \/ entry' = [entry EXCEPT ![k] = [entry[k] EXCEPT !.meta = Bad]]
    BY <2>1 DEF Damage
  <2>5. entry' \in [Keys -> EntryRecord \cup {None}]
    BY <2>3, <2>4 DEF IInv, Shape
  <2>6. Shape'
    BY <1>1, <2>2, <2>5 DEF IInv, Shape, Sound, Holds
  <2>7. Locked'
    BY <1>1, <2>2 DEF IInv, Locked, Holds, Key
  <2> QED
    BY <2>6, <2>7 DEF IInv
<1> QED
  BY <1>3, <1>4

LEMMA Inductive == BuildCacheAssumption /\ IInv /\ [Next]_vars => IInv'
<1> SUFFICES ASSUME BuildCacheAssumption, IInv, [Next]_vars PROVE IInv'
  OBVIOUS
<1>1. CASE UNCHANGED vars
  BY <1>1 DEF vars, IInv, Shape, Locked, Sound, Holds, Key
<1>2. ASSUME NEW p \in Procs, Step(p) \/ Crash(p) \/ \E k \in Keys : Start(p, k)
      PROVE  IInv'
  BY <1>2, LoadStep, PlainStep, EntryStep, TakeLockStep, UnlockStep, RemoveStep, CrashStep DEF Step
<1>3. CASE Tick \/ \E k \in Keys : Damage(k)
  BY <1>3, OutsideStep
<1> QED
  BY <1>1, <1>2, <1>3 DEF Next

LEMMA Safe == BuildCacheAssumption /\ IInv => ServedIsWhole /\ OneStorer
<1> SUFFICES ASSUME BuildCacheAssumption, IInv PROVE ServedIsWhole /\ OneStorer
  OBVIOUS
<1>1. ServedIsWhole
  BY DEF IInv, Shape, Sound, ServedIsWhole, BuildCacheAssumption
<1>2. \A p \in Procs : Storing(p) <=> Holds(pc[p], at[p])
  BY DEF Storing, Holds
<1>3. OneStorer
  BY <1>2 DEF IInv, Locked, OneStorer
<1> QED
  BY <1>1, <1>3

LEMMA Invariance == ASSUME BuildCacheAssumption PROVE Spec => []IInv
<1>1. Init => IInv
  BY Start0
<1>2. IInv /\ [Next]_vars => IInv'
  BY Inductive
<1> QED
  BY <1>1, <1>2, PTL DEF Spec

(* What a build takes from the cache is undamaged and of one build: the load *)
(* compares the files with the digests of the metadata it has read           *)
(* (BuildCache::load).                                                       *)
THEOREM Whole == ASSUME BuildCacheAssumption PROVE Spec => []ServedIsWhole
<1>1. IInv => ServedIsWhole
  BY Safe
<1> QED
  BY <1>1, Invariance, PTL

(* Two processes store under one key at once only after a cleanup removed    *)
(* the lock file of a living one (store_files, CacheLock::drop, evict).     *)
THEOREM Exclusive == ASSUME BuildCacheAssumption PROVE Spec => []OneStorer
<1>1. IInv => OneStorer
  BY Safe
<1> QED
  BY <1>1, Invariance, PTL
=============================================================================
