----------------------------- MODULE BuildCache -----------------------------
(***************************************************************************)
(* The build cache of src/cache.rs: artifacts in directories named by      *)
(* their key, shared by processes that do not know of each other, and the  *)
(* three callers of it in src/driver.rs and src/driver/units.rs.           *)
(*                                                                         *)
(* One access to the file system is one step.  The bytes of an artifact    *)
(* are a build's "stamp" (two builds of one key may differ); the metadata  *)
(* file is represented by the stamp whose digests it holds, so the digest  *)
(* check of a read compares two stamps.  Bad stands for damaged bytes.     *)
(* Time is the age of a file, which Tick increases up to OldAge.           *)
(***************************************************************************)
EXTENDS Integers, FiniteSets

CONSTANTS Keys, Procs,
          Stamps,      \* what a compilation may produce
          MaxAge,      \* max_age_ms
          MaxBytes,    \* max_bytes; every artifact has size 1
          RemoveMax,   \* remove_entries
          TouchAge,    \* touch_ms
          EvictEvery,  \* the interval of evict_if_due, 0 for the callers of evict
          Caller,      \* "build", "runtime" or "units": who uses the cache
          MaxFaults,   \* how often a process dies or a file is damaged
          None, Bad, Dead

OldAge == MaxAge + 1

VARIABLES
  entry,    \* root/<key>: None, or the artifact, its metadata and the age of its last use
  lock,     \* root/.lock-<key>: None, or who made it and its age
  evicted,  \* age of root/.evicted
  pc,       \* where a process is
  at,       \* what it knows
  faults,
  stolen    \* keys whose lock was removed by a cleanup while its maker lived

vars == <<entry, lock, evicted, pc, at, faults, stolen>>

Ages == 0..OldAge
EntryRecord == [art : Stamps \cup {Bad}, meta : Stamps \cup {Bad}, age : Ages]
LockRecord == [by : Procs \cup {Dead}, age : Ages]

\* What the constants are.
BuildCacheAssumption ==
  /\ MaxAge \in Nat /\ MaxBytes \in Nat /\ RemoveMax \in Nat \ {0}
  /\ TouchAge \in 0..(MaxAge + 1) /\ EvictEvery \in 0..(MaxAge + 1)
  /\ Caller \in {"build", "runtime", "units"} /\ MaxFaults \in Nat
  /\ {None, Bad} \cap Stamps = {} /\ Dead \notin Procs /\ IsFiniteSet(Keys)
  /\ None \notin LockRecord \cup EntryRecord

Item == [name : Keys, kind : {"key", "lock"}, age : Ages, size : {0, 1}]
Memory == [key  : Keys \cup {None},
           for  : {"lookup", "locked", "check", "placed"},  \* what the load is for
           meta : Stamps \cup {None},                        \* metadata it has read
           due  : BOOLEAN,                                   \* whether the use is to be written
           made : Stamps \cup {None},                        \* what it compiled
           read : Stamps \cup {Bad, None},                   \* files it has read
           stored : BOOLEAN,
           todo : SUBSET Item, left : 0..RemoveMax, total : 0..Cardinality(Keys)]

Fresh == [key |-> None, for |-> "lookup", meta |-> None, due |-> FALSE, made |-> None,
          read |-> None, stored |-> FALSE, todo |-> {}, left |-> RemoveMax, total |-> 0]

Pcs == {"idle", "meta", "files", "touch", "hit", "compile", "lock", "exists", "aside",
        "place", "unlock", "evict", "remove"}

Init ==
  /\ entry = [k \in Keys |-> None]
  /\ lock = [k \in Keys |-> None]
  /\ evicted = OldAge
  /\ pc = [p \in Procs |-> "idle"]
  /\ at = [p \in Procs |-> Fresh]
  /\ faults = 0
  /\ stolen = {}

Key(p) == at[p].key
Go(p, place, memory) == pc' = [pc EXCEPT ![p] = place] /\ at' = [at EXCEPT ![p] = memory]
Return(p) == Go(p, "idle", Fresh)
Forget(memory) == [memory EXCEPT !.meta = None, !.read = None, !.due = FALSE]
files == <<entry, lock, evicted, faults, stolen>>
-----------------------------------------------------------------------------
(* Loading an entry, BuildCache::load.  The store calls it too. *)

Load(p, memory, purpose) == Go(p, "meta", [memory EXCEPT !.for = purpose])

\* What the caller does with the outcome of a load: "hit", "miss" or "error".
Loaded(p, memory, outcome) ==
  LET next(place) == Go(p, place, Forget(memory)) IN
  \/ memory.for = "lookup" /\ outcome = "hit" /\ Go(p, "hit", memory)
  \/ memory.for = "lookup" /\ outcome # "hit" /\ next("compile")
  \/ memory.for = "locked" /\ next(IF outcome = "miss" THEN "exists" ELSE "unlock")
  \/ memory.for = "check" /\ outcome = "hit" /\ next("place")
  \/ memory.for = "check" /\ outcome = "miss" /\ next("aside")
  \/ memory.for = "check" /\ outcome = "error" /\ next("unlock")
  \/ memory.for = "placed" /\ Go(p, "unlock", [Forget(memory) EXCEPT !.stored = outcome = "hit"])

\* A build asks for the artifact of its key.
Start(p, k) ==
  /\ pc[p] = "idle"
  /\ Go(p, "meta", [Fresh EXCEPT !.key = k])
  /\ UNCHANGED files

\* The metadata file: a missing or invalid one is a miss.
ReadMetadata(p) ==
  /\ pc[p] = "meta"
  /\ LET e == entry[Key(p)] IN
     IF e = None \/ e.meta = Bad
     THEN Loaded(p, at[p], "miss")
     ELSE Go(p, "files", [at[p] EXCEPT !.meta = e.meta, !.due = e.age >= TouchAge])
  /\ UNCHANGED files

\* Variant with a bug: the digests are not compared.
ReadFilesUnchecked(p) ==
  /\ pc[p] = "files"
  /\ LET e == entry[Key(p)] IN
     LET memory == [at[p] EXCEPT !.read = e.art] IN
     IF e = None THEN Loaded(p, at[p], "miss")
     ELSE IF at[p].due THEN Go(p, "touch", memory) ELSE Loaded(p, memory, "hit")
  /\ UNCHANGED files

\* The files, checked against the digests that the metadata had when it was read.
ReadFiles(p) ==
  /\ pc[p] = "files"
  /\ LET e == entry[Key(p)] IN
     LET memory == [at[p] EXCEPT !.read = e.art] IN
     IF e = None \/ e.art # at[p].meta THEN Loaded(p, at[p], "miss")
     ELSE IF at[p].due THEN Go(p, "touch", memory) ELSE Loaded(p, memory, "hit")
  /\ UNCHANGED files

\* The metadata is written back with the time of use, by a rename into the directory that
\* has the name now.  Without one the load fails, which a caller for units ignores.
Touch(p) ==
  /\ pc[p] = "touch"
  /\ LET k == Key(p) IN
     IF entry[k] = None
     THEN /\ Loaded(p, at[p], IF Caller = "units" /\ at[p].for = "lookup" THEN "hit" ELSE "error")
          /\ UNCHANGED files
     ELSE /\ entry' = [entry EXCEPT ![k].meta = at[p].meta, ![k].age = 0]
          /\ Loaded(p, at[p], "hit")
          /\ UNCHANGED <<lock, evicted, faults, stolen>>
\* The build uses what it loaded; the whole-build cache then cleans up.
Restore(p) ==
  /\ pc[p] = "hit"
  /\ IF Caller = "build" THEN Go(p, "evict", Fresh) ELSE Return(p)
  /\ UNCHANGED files
-----------------------------------------------------------------------------
(* Storing an entry, store_files. *)

Compile(p) ==
  /\ pc[p] = "compile"
  /\ \E s \in Stamps : Go(p, "lock", [at[p] EXCEPT !.made = s])
  /\ UNCHANGED files

\* Variant with a bug: an existing lock file is taken for one's own.
TakeLockAnyway(p) ==
  /\ pc[p] = "lock"
  /\ lock' = [lock EXCEPT ![Key(p)] = [by |-> p, age |-> 0]]
  /\ Load(p, at[p], "locked")
  /\ UNCHANGED <<entry, evicted, faults, stolen>>

\* The lock file is created, or another process has it and nothing is stored.
TakeLock(p) ==
  /\ pc[p] = "lock"
  /\ IF lock[Key(p)] # None
     THEN Return(p) /\ UNCHANGED lock
     ELSE /\ lock' = [lock EXCEPT ![Key(p)] = [by |-> p, age |-> 0]]
          /\ Load(p, at[p], "locked")
  /\ UNCHANGED <<entry, evicted, faults, stolen>>

\* The entry is staged; what is in its place, if anything, is looked at again.
Exists(p) ==
  /\ pc[p] = "exists"
  /\ IF entry[Key(p)] = None THEN Go(p, "place", at[p]) ELSE Load(p, at[p], "check")
  /\ UNCHANGED files

\* An entry that does not load is moved away.
Aside(p) ==
  /\ pc[p] = "aside"
  /\ entry' = [entry EXCEPT ![Key(p)] = None]
  /\ Go(p, "place", at[p])
  /\ UNCHANGED <<lock, evicted, faults, stolen>>

\* Variant with a bug: an entry that is in the way is left there, and nothing looks at it.
PlaceBlind(p) ==
  /\ pc[p] = "place"
  /\ IF entry[Key(p)] = None
     THEN entry' = [entry EXCEPT ![Key(p)] = [art |-> at[p].made, meta |-> at[p].made, age |-> 0]]
     ELSE UNCHANGED entry
  /\ Go(p, "unlock", [at[p] EXCEPT !.stored = TRUE])
  /\ UNCHANGED <<lock, evicted, faults, stolen>>

\* The staged directory is renamed to its place, which fails when there is an entry.
Place(p) ==
  /\ pc[p] = "place"
  /\ LET k == Key(p) IN
     IF entry[k] = None
     THEN /\ entry' = [entry EXCEPT ![k] = [art |-> at[p].made, meta |-> at[p].made, age |-> 0]]
          /\ Go(p, "unlock", [at[p] EXCEPT !.stored = TRUE])
     ELSE Load(p, at[p], "placed") /\ UNCHANGED entry
  /\ UNCHANGED <<lock, evicted, faults, stolen>>

\* CacheLock::drop removes the file of that name, whoever made it.
Unlock(p) ==
  /\ pc[p] = "unlock"
  /\ lock' = [lock EXCEPT ![Key(p)] = None]
  /\ IF at[p].stored THEN Go(p, "evict", Fresh) ELSE Return(p)
  /\ UNCHANGED <<entry, evicted, faults, stolen>>
-----------------------------------------------------------------------------
(* Cleaning up, evict and evict_if_due. *)

Size(e) == IF e = None \/ (e.meta = Bad /\ Caller # "units") THEN 0 ELSE 1
Total == Cardinality({k \in Keys : Size(entry[k]) = 1})

\* What a listing of the directory holds: entries and lock files.
Listing ==
  {[name |-> k, kind |-> "key", age |-> entry[k].age, size |-> Size(entry[k])] :
     k \in {k \in Keys : entry[k] # None}}
  \cup
  {[name |-> k, kind |-> "lock", age |-> lock[k].age, size |-> 0] :
     k \in {k \in Keys : lock[k] # None}}

\* Variant with a bug: lock files are not listed.
EvictKeys(p) ==
  /\ pc[p] = "evict"
  /\ Go(p, "remove", [at[p] EXCEPT !.todo = {i \in Listing : i.kind = "key"}, !.total = Total])
  /\ evicted' = IF Caller = "units" THEN 0 ELSE evicted
  /\ UNCHANGED <<entry, lock, faults, stolen>>

\* The directory is listed, unless a cleanup ran a short while ago.
Evict(p) ==
  /\ pc[p] = "evict"
  /\ IF Caller = "units" /\ evicted < EvictEvery
     THEN Return(p) /\ UNCHANGED evicted
     ELSE /\ Go(p, "remove", [at[p] EXCEPT !.todo = Listing, !.total = Total])
          /\ evicted' = IF Caller = "units" THEN 0 ELSE evicted
  /\ UNCHANGED <<entry, lock, faults, stolen>>

\* The oldest listed file is removed when it is too old or the cache too large; the name may
\* have vanished, or be another file's, since the listing.
RemoveOldestWithin(p, limit) ==
  LET rest(i) == [at[p] EXCEPT !.todo = @ \ {i}, !.left = @ - 1] IN
  /\ pc[p] = "remove"
  /\ \/ /\ at[p].todo = {} \/ at[p].left = 0
        /\ Return(p)
        /\ UNCHANGED files
     \/ \E i \in at[p].todo :
          /\ at[p].left > 0
          /\ \A j \in at[p].todo : j.age <= i.age
          /\ \/ /\ at[p].total <= limit /\ i.age <= MaxAge
                /\ Return(p)
                /\ UNCHANGED <<entry, lock, stolen>>
             \/ /\ at[p].total > limit /\ i.kind = "lock" /\ i.age <= MaxAge
                /\ Go(p, "remove", rest(i))
                /\ UNCHANGED <<entry, lock, stolen>>
             \/ /\ i.kind = "lock" /\ i.age > MaxAge
                /\ lock' = [lock EXCEPT ![i.name] = None]
                /\ stolen' = IF lock[i.name] # None /\ lock[i.name].by # Dead
                             THEN stolen \cup {i.name} ELSE stolen
                /\ Go(p, "remove", rest(i))
                /\ UNCHANGED entry
             \/ /\ i.kind = "key" /\ (at[p].total > limit \/ i.age > MaxAge)
                /\ entry' = [entry EXCEPT ![i.name] = None]
                /\ Go(p, "remove",
                      [rest(i) EXCEPT !.total = IF entry[i.name] = None THEN @ ELSE @ - i.size])
                /\ UNCHANGED <<lock, stolen>>
          /\ UNCHANGED <<evicted, faults>>


RemoveOldest(p) == RemoveOldestWithin(p, MaxBytes)
-----------------------------------------------------------------------------
(* The environment. *)

Older(age) == IF age < OldAge THEN age + 1 ELSE OldAge

Tick ==
  /\ entry' = [k \in Keys |-> IF entry[k] = None THEN None ELSE [entry[k] EXCEPT !.age = Older(@)]]
  /\ lock' = [k \in Keys |-> IF lock[k] = None THEN None ELSE [lock[k] EXCEPT !.age = Older(@)]]
  /\ evicted' = Older(evicted)
  /\ UNCHANGED <<pc, at, faults, stolen>>

\* A process dies and another takes its place; its lock file stays.
Crash(p) ==
  /\ pc[p] # "idle" /\ faults < MaxFaults
  /\ Return(p)
  /\ lock' = [k \in Keys |-> IF lock[k] # None /\ lock[k].by = p
                             THEN [lock[k] EXCEPT !.by = Dead] ELSE lock[k]]
  /\ faults' = faults + 1
  /\ UNCHANGED <<entry, evicted, stolen>>

\* The disk loses a file's bytes.
Damage(k) ==
  /\ entry[k] # None /\ faults < MaxFaults
  /\ \/ entry' = [entry EXCEPT ![k].art = Bad]
     \/ entry' = [entry EXCEPT ![k].meta = Bad]
  /\ faults' = faults + 1
  /\ UNCHANGED <<lock, evicted, pc, at, stolen>>

Step(p) ==
  \/ ReadMetadata(p) \/ ReadFiles(p) \/ Touch(p) \/ Restore(p)
  \/ Compile(p) \/ TakeLock(p) \/ Exists(p) \/ Aside(p) \/ Place(p) \/ Unlock(p)
  \/ Evict(p) \/ RemoveOldest(p)

Next ==
  \/ \E p \in Procs : Step(p) \/ Crash(p) \/ \E k \in Keys : Start(p, k)
  \/ \E k \in Keys : Damage(k)
  \/ Tick

Spec == Init /\ [][Next]_vars
\* Processes that run go on and time passes; nothing says that a build is ever started.
FairSpec == Spec /\ WF_vars(Tick) /\ \A p \in Procs : WF_vars(Step(p))
-----------------------------------------------------------------------------
TypeOK ==
  /\ entry \in [Keys -> EntryRecord \cup {None}]
  /\ lock \in [Keys -> LockRecord \cup {None}]
  /\ evicted \in Ages
  /\ pc \in [Procs -> Pcs]
  /\ at \in [Procs -> Memory]
  /\ faults \in 0..MaxFaults
  /\ stolen \subseteq Keys

\* A build takes from the cache only undamaged files of one build, with the messages and modes
\* of that same build (the metadata), although entries are replaced, evicted, damaged and
\* touched between the reads of a load.
ServedIsWhole ==
  \A p \in Procs : pc[p] = "hit" => at[p].read # Bad /\ at[p].read = at[p].meta

Storing(p) == pc[p] \in {"exists", "aside", "place", "unlock"}
              \/ (pc[p] \in {"meta", "files", "touch"} /\ at[p].for # "lookup")

\* Two processes store under one key at once only after a cleanup took a lock file for a
\* forgotten one: a store that outlives the age limit (evict, and CacheLock::drop, which then
\* removes the lock of somebody else).
OneStorer ==
  \A p, q \in Procs :
    p # q /\ Storing(p) /\ Storing(q) /\ Key(p) = Key(q) => Key(p) \in stolen

\* When all builds are over, the cache is within its budget: each store is followed by a
\* cleanup that lists what was stored (store, and the hit path of the driver), whatever other
\* cleanups remove meanwhile.
WithinBudget ==
  Caller = "build" /\ faults = 0 /\ (\A p \in Procs : pc[p] = "idle") => Total <= MaxBytes

Cleaning == \E p \in Procs : pc[p] = "remove"
LeftLock(k) == lock[k] # None /\ lock[k].by = Dead

\* A lock file that a dead process left does not stay as long as cleanups go on (evict lists
\* lock files by their age).
LeftLockGoes ==
  \A k \in Keys : []<>Cleaning => []<>~LeftLock(k)

StoreLeaves(p) ==
  (~at[p].stored /\ at'[p].stored) =>
    LET e == entry'[Key(p)] IN
    \/ e # None /\ e.art = e.meta /\ e.art # Bad
    \/ at[p].for = "placed"

\* A damaged entry does not keep a finished store from leaving a good one: when a store
\* reports success, an intact entry was in its place at that moment.
StoredIsThere == [][\A p \in Procs : StoreLeaves(p)]_vars
=============================================================================
