---------------------------- MODULE MutexProofs ----------------------------
(* Proofs about Mutex, for any set of processes and of mutexes.              *)
EXTENDS Mutex, TLAPS, WellFoundedInduction

-----------------------------------------------------------------------------
(* The waiters of a bucket.                                                  *)

(* A bucket without one of its waiters (tzr_bucket_unlink, tzr_addr_wake).   *)
LEMMA WithoutType ==
    ASSUME NEW S, NEW q \in Seq(S), NEW i \in 1..Len(q)
    PROVE  /\ Without(q, i) \in Seq(S)
           /\ Len(Without(q, i)) = Len(q) - 1
           /\ \A j \in 1..Len(q) - 1 : Without(q, i)[j] = IF j < i THEN q[j] ELSE q[j + 1]
<1> DEFINE w == [j \in 1..Len(q) - 1 |-> IF j < i THEN q[j] ELSE q[j + 1]]
<1>1. Len(q) \in Nat /\ Len(q) - 1 \in Nat
  OBVIOUS
<1>2. \A j \in 1..Len(q) : q[j] \in S
  OBVIOUS
<1>3. \A j \in 1..Len(q) - 1 : w[j] \in S
  BY <1>1, <1>2
<1>4. w \in Seq(S)
  BY <1>1, <1>3
<1>5. Len(w) = Len(q) - 1
  BY <1>1
<1> QED
  BY <1>4, <1>5 DEF Without

(* The first waiter of an address exists whenever the address has one        *)
(* (the scan of tzr_addr_wake).                                              *)
LEMMA FirstExists ==
    ASSUME LotTypeOK, NEW a \in Addrs, \E i \in DOMAIN bucket : bucket[i][2] = a
    PROVE  /\ FirstOf(a) \in DOMAIN bucket
           /\ bucket[FirstOf(a)][2] = a
<1> DEFINE I == {i \in DOMAIN bucket : bucket[i][2] = a}
<1>1. I \subseteq Nat /\ I # {}
  BY DEF LotTypeOK
<1>2. PICK i \in I : \A j \in I : ~(<<j, i>> \in OpToRel(<, Nat))
  <2> HIDE DEF I
  <2> QED
    BY <1>1, NatLessThanWellFounded, WFMin
<1>3. ASSUME NEW j \in I PROVE i <= j
  <2> HIDE DEF I
  <2>1. i \in Nat /\ j \in Nat
    BY <1>1
  <2>2. ~(j < i)
    BY <1>2, <2>1 DEF OpToRel
  <2> QED
    BY <2>1, <2>2
<1> QED
  BY <1>3 DEF FirstOf

-----------------------------------------------------------------------------
(* Type correctness.                                                         *)

LEMMA InitType == Init => TypeOK
<1> SUFFICES ASSUME Init PROVE TypeOK
  OBVIOUS
<1>1. (CHOOSE a \in Addrs : TRUE) \in Addrs
  BY MutexAssumption
<1>2. arg \in [Procs -> Addrs]
  BY <1>1 DEF Init
<1>3. \A S : <<>> \in Seq(S)
  OBVIOUS
<1>4. LotTypeOK
  BY <1>3 DEF Init, LotInit, LotTypeOK
<1>5. held \in [Procs -> Seq(Addrs)]
  BY <1>3 DEF Init
<1> QED
  BY <1>2, <1>4, <1>5 DEF Init, TypeOK

(* The steps of the parking lot keep its types.                              *)
LEMMA ParkType ==
    ASSUME LotTypeOK, NEW p \in Procs, NEW a \in Addrs, Park(p, a)
    PROVE  LotTypeOK'
<1>1. bucket' \in Seq(Waiters)
  BY <<p, a>> \in Waiters DEF LotTypeOK, Park, Waiters
<1> QED
  BY <1>1 DEF LotTypeOK, Park

LEMMA WakeOneType ==
    ASSUME LotTypeOK, NEW a \in Addrs, WakeOne(a)
    PROVE  LotTypeOK'
<1>1. CASE ~\E i \in DOMAIN bucket : bucket[i][2] = a
  BY <1>1 DEF LotTypeOK, WakeOne
<1>2. CASE \E i \in DOMAIN bucket : bucket[i][2] = a
  <2>1. FirstOf(a) \in 1..Len(bucket)
    BY <1>2, FirstExists DEF LotTypeOK
  <2>2. bucket' \in Seq(Waiters)
    BY <1>2, <2>1, WithoutType DEF LotTypeOK, WakeOne
  <2> QED
    BY <1>2, <2>2 DEF LotTypeOK, WakeOne, Readied
<1> QED
  BY <1>1, <1>2

LEMMA UnparkType ==
    ASSUME LotTypeOK, NEW p \in Procs, Unpark(p)
    PROVE  LotTypeOK'
<1>1. bucket' \in Seq(Waiters)
  <2>1. CASE Cancelled(p)
    <3>1. PlaceOf(p) \in 1..Len(bucket)
      BY <2>1 DEF Cancelled, InBucket, PlaceOf, LotTypeOK
    <3> QED
      BY <2>1, <3>1, WithoutType DEF LotTypeOK, Unpark
  <2>2. CASE ~Cancelled(p)
    BY <2>2 DEF LotTypeOK, Unpark
  <2> QED
    BY <2>1, <2>2
<1> QED
  BY <1>1 DEF LotTypeOK, Unpark

LEMMA CheckDeadType == LotTypeOK /\ CheckDead => LotTypeOK'
<1> SUFFICES ASSUME LotTypeOK, CheckDead PROVE LotTypeOK'
  OBVIOUS
<1>1. trapped' \in BOOLEAN
  BY DEF CheckDead
<1>2. doomed' \in [Procs -> BOOLEAN]
  BY DEF CheckDead, LotTypeOK
<1>3. status' \in [Procs -> {"running", "waiting", "dead"}]
  BY DEF CheckDead, LotTypeOK
<1> QED
  BY <1>1, <1>2, <1>3 DEF CheckDead, LotTypeOK

(* Taking a lock and giving the last one back keep the held lists typed.     *)
LEMMA AcquiredType ==
    ASSUME TypeOK, NEW p \in Procs, Acquired(p)
    PROVE  /\ held' \in [Procs -> Seq(Addrs)]
           /\ result' \in [Procs -> {"none", "ok", "held", "deadlock"}]
           /\ pc' = [pc EXCEPT ![p] = "idle"]
<1>1. Append(held[p], arg[p]) \in Seq(Addrs)
  BY DEF TypeOK
<1> QED
  BY <1>1 DEF TypeOK, Acquired, Goto

LEMMA ReleaseType ==
    ASSUME TypeOK, NEW p \in Procs, NEW wake \in {"wake", "rewake"}, NEW next \in {"idle", "restore"},
           Release(p, wake, next)
    PROVE  TypeOK'
<1> DEFINE n == Len(held[p])
           a == held[p][n]
<1>1. held[p] \in Seq(Addrs) /\ n \in Nat \ {0}
  BY DEF TypeOK, Release
<1>2. a \in Addrs
  BY <1>1
<1>3. SubSeq(held[p], 1, n - 1) \in Seq(Addrs)
  BY <1>1
<1>4. held' \in [Procs -> Seq(Addrs)]
  BY <1>3 DEF TypeOK, Release
<1> QED
  BY <1>2, <1>4 DEF TypeOK, LotTypeOK, Release, SetWord, Goto, lotVars

LEMMA NextType == TypeOK /\ [Next]_vars => TypeOK'
<1> SUFFICES ASSUME TypeOK, [Next]_vars PROVE TypeOK'
  OBVIOUS
<1>1. ASSUME NEW p \in Procs, NEW a \in Addrs, Lock(p, a) PROVE TypeOK'
  <2>1. LotTypeOK' /\ word' = word /\ held' = held
    BY <1>1 DEF TypeOK, LotTypeOK, Lock, Enter, lotVars
  <2>2. nops' \in [Procs -> Nat]
    BY <1>1 DEF TypeOK, Lock
  <2> QED
    BY <1>1, <2>1, <2>2 DEF TypeOK, Lock, Enter, Goto
<1>2. ASSUME NEW p \in Procs, Try(p) PROVE TypeOK'
  <2>1. LotTypeOK' /\ arg' = arg /\ nops' = nops
    BY <1>2 DEF TypeOK, LotTypeOK, Try, lotVars
  <2>2. word' \in [Addrs -> 0..2]
    <3>1. word' = word \/ word' = [word EXCEPT ![arg[p]] = 1]
      BY <1>2 DEF Try, SetWord
    <3>2. word \in [Addrs -> 0..2]
      BY DEF TypeOK
    <3> QED
      BY <3>1, <3>2
  <2>3. CASE word[arg[p]] = 0
    <3>1. Acquired(p)
      BY <1>2, <2>3 DEF Try
    <3> QED
      BY <2>1, <2>2, <3>1, AcquiredType DEF TypeOK
  <2>4. CASE word[arg[p]] # 0
    BY <1>2, <2>1, <2>2, <2>4 DEF TypeOK, Try, Goto
  <2> QED
    BY <2>3, <2>4
<1>3. ASSUME NEW p \in Procs, EndSpin(p) PROVE TypeOK'
  BY <1>3 DEF TypeOK, LotTypeOK, EndSpin, Goto, lotVars
<1>4. ASSUME NEW p \in Procs, Swap(p) PROVE TypeOK'
  <2>1. LotTypeOK' /\ arg' = arg /\ nops' = nops
    BY <1>4 DEF TypeOK, LotTypeOK, Swap, lotVars
  <2>2. word' \in [Addrs -> 0..2]
    BY <1>4 DEF TypeOK, Swap, SetWord
  <2>3. CASE word[arg[p]] = 0
    <3>1. Acquired(p)
      BY <1>4, <2>3 DEF Swap
    <3> QED
      BY <2>1, <2>2, <3>1, AcquiredType DEF TypeOK
  <2>4. CASE word[arg[p]] # 0
    BY <1>4, <2>1, <2>2, <2>4 DEF TypeOK, Swap, Goto
  <2> QED
    BY <2>3, <2>4
<1>5. ASSUME NEW p \in Procs, Wait(p) PROVE TypeOK'
  <2>1. LotTypeOK'
    BY <1>5, ParkType DEF TypeOK, LotTypeOK, Wait, lotVars
  <2> QED
    BY <1>5, <2>1 DEF TypeOK, Wait, Goto
<1>6. ASSUME NEW p \in Procs, Wakeup(p) PROVE TypeOK'
  BY <1>6, UnparkType DEF TypeOK, Wakeup, Goto
<1>7. ASSUME NEW p \in Procs, Unlock(p) PROVE TypeOK'
  BY <1>7, ReleaseType DEF Unlock
<1>8. ASSUME NEW p \in Procs, Wake(p) PROVE TypeOK'
  BY <1>8, WakeOneType DEF TypeOK, Wake, Goto
<1>9. ASSUME NEW p \in Procs, Trap(p) PROVE TypeOK'
  BY <1>9 DEF TypeOK, LotTypeOK, Trap, Goto, lotVars
<1>10. ASSUME NEW p \in Procs, Restore(p) PROVE TypeOK'
  BY <1>10, ReleaseType DEF TypeOK, LotTypeOK, Restore, Goto, lotVars
<1>11. ASSUME NEW p \in Procs, Exit(p) PROVE TypeOK'
  BY <1>11 DEF TypeOK, LotTypeOK, Exit, Die, Goto
<1>12. CASE Detect
  BY <1>12, CheckDeadType DEF TypeOK, Detect, mutexVars
<1>13. CASE UNCHANGED vars
  BY <1>13 DEF TypeOK, LotTypeOK, vars, lotVars, mutexVars
<1> QED
  BY <1>1, <1>2, <1>3, <1>4, <1>5, <1>6, <1>7, <1>8, <1>9, <1>10, <1>11, <1>12, <1>13
     DEF Next, Step, Over

(* The lock words, the held lists and the call states of mutex32_lock and    *)
(* mutex32_unlock keep their types, whatever the processes and mutexes.      *)
THEOREM TypeCorrect == Spec => []TypeOK
BY InitType, NextType, PTL DEF Spec

-----------------------------------------------------------------------------
(* Mutual exclusion.  The held lists say who is inside; that a mutex is in   *)
(* one list at most, and there once, makes a release empty the word only     *)
(* when its last holder left.                                                *)

(* A held list names a mutex once.                                           *)
HeldOnce ==
    \A p \in Procs : \A i, j \in DOMAIN held[p] : held[p][i] = held[p][j] => i = j

LEMMA AcquiredHolds ==
    ASSUME TypeOK, NEW p \in Procs, Acquired(p)
    PROVE  \A q \in Procs : \A b \in Addrs :
               Holds(q, b)' <=> Holds(q, b) \/ (q = p /\ b = arg[p])
<1> SUFFICES ASSUME NEW q \in Procs, NEW b \in Addrs
             PROVE  Holds(q, b)' <=> Holds(q, b) \/ (q = p /\ b = arg[p])
  OBVIOUS
<1>1. held[q] \in Seq(Addrs) /\ held[p] \in Seq(Addrs) /\ arg[p] \in Addrs
  BY DEF TypeOK
<1>2. CASE q # p
  <2>1. held'[q] = held[q]
    BY <1>2 DEF TypeOK, Acquired
  <2> QED
    BY <1>2, <2>1 DEF Holds
<1>3. CASE q = p
  <2> DEFINE h == held[p]
  <2>1. held'[p] = Append(h, arg[p])
    BY DEF TypeOK, Acquired
  <2>2. /\ DOMAIN Append(h, arg[p]) = 1..Len(h) + 1
        /\ \A i \in 1..Len(h) : Append(h, arg[p])[i] = h[i]
        /\ Append(h, arg[p])[Len(h) + 1] = arg[p]
        /\ DOMAIN h = 1..Len(h)
        /\ Len(h) \in Nat
    BY <1>1
  <2>3. \A i \in 1..Len(h) + 1 : i \in 1..Len(h) \/ i = Len(h) + 1
    BY <2>2
  <2>4. Len(h) + 1 \in 1..Len(h) + 1 /\ 1..Len(h) \subseteq 1..Len(h) + 1
    BY <2>2
  <2> HIDE DEF h
  <2>5. Holds(p, b) <=> \E i \in 1..Len(h) : h[i] = b
    BY <2>2 DEF Holds, h
  <2>6. Holds(p, b)' <=> \E i \in 1..Len(h) + 1 : Append(h, arg[p])[i] = b
    BY <2>1, <2>2 DEF Holds
  <2> QED
    BY <1>3, <2>2, <2>3, <2>4, <2>5, <2>6
<1> QED
  BY <1>2, <1>3

(* A mutex that is in no list is taken: the lists have no double entry.      *)
LEMMA AcquiredOnce ==
    ASSUME TypeOK, HeldOnce, NEW p \in Procs, Acquired(p), ~Holds(p, arg[p])
    PROVE  HeldOnce'
<1> SUFFICES ASSUME NEW q \in Procs, NEW i \in DOMAIN held'[q], NEW j \in DOMAIN held'[q],
                    held'[q][i] = held'[q][j]
             PROVE  i = j
  BY DEF HeldOnce
<1>1. held[q] \in Seq(Addrs) /\ held[p] \in Seq(Addrs) /\ arg[p] \in Addrs
  BY DEF TypeOK
<1>2. CASE q # p
  <2>1. held'[q] = held[q]
    BY <1>2 DEF TypeOK, Acquired
  <2> QED
    BY <1>2, <2>1 DEF HeldOnce
<1>3. CASE q = p
  <2> DEFINE h == held[p]
  <2>1. held'[p] = Append(h, arg[p])
    BY DEF TypeOK, Acquired
  <2>2. \A k \in DOMAIN h : h[k] # arg[p]
    BY DEF Holds
  <2>3. \A k, l \in DOMAIN h : h[k] = h[l] => k = l
    BY DEF HeldOnce
  <2> HIDE DEF h
  <2>4. h \in Seq(Addrs)
    BY <1>1 DEF h
  <2> QED
    BY <1>1, <1>3, <2>1, <2>2, <2>3, <2>4
<1> QED
  BY <1>2, <1>3

LEMMA ReleaseHolds ==
    ASSUME TypeOK, HeldOnce, NEW p \in Procs, NEW wake, NEW next, Release(p, wake, next)
    PROVE  LET a == held[p][Len(held[p])]
           IN  /\ a \in Addrs
               /\ Holds(p, a)
               /\ word' = [word EXCEPT ![a] = 0]
               /\ \A q \in Procs : \A b \in Addrs :
                      Holds(q, b)' <=> Holds(q, b) /\ ~(q = p /\ b = a)
               /\ HeldOnce'
<1> DEFINE h == held[p]
           n == Len(h)
           a == h[n]
<1>1. h \in Seq(Addrs) /\ n \in Nat /\ n > 0 /\ DOMAIN h = 1..n
  BY DEF TypeOK, Release
<1>2. a \in Addrs /\ n \in DOMAIN h
  BY <1>1
<1>3. Holds(p, a)
  BY <1>2 DEF Holds
<1>4. word' = [word EXCEPT ![a] = 0]
  BY DEF Release, SetWord
<1>5. /\ held'[p] = SubSeq(h, 1, n - 1)
      /\ \A q \in Procs \ {p} : held'[q] = held[q]
  BY DEF TypeOK, Release
<1>6. /\ DOMAIN held'[p] = 1..n - 1
      /\ \A i \in 1..n - 1 : held'[p][i] = h[i]
  BY <1>1, <1>5
<1>7. \A i, j \in 1..n : h[i] = h[j] => i = j
  BY <1>1 DEF HeldOnce
<1>8. ASSUME NEW q \in Procs, NEW b \in Addrs
      PROVE  Holds(q, b)' <=> Holds(q, b) /\ ~(q = p /\ b = a)
  <2>1. CASE q # p
    BY <1>5, <2>1 DEF Holds
  <2>2. CASE q = p
    <3>1. Holds(p, b)' <=> \E i \in 1..n - 1 : h[i] = b
      BY <1>6 DEF Holds
    <3>2. Holds(p, b) <=> \E i \in 1..n : h[i] = b
      BY <1>1 DEF Holds
    <3> HIDE DEF h
    <3> QED
      BY <1>1, <1>7, <2>2, <3>1, <3>2
  <2> QED
    BY <2>1, <2>2
<1>9. HeldOnce'
  <2> SUFFICES ASSUME NEW q \in Procs, NEW i \in DOMAIN held'[q], NEW j \in DOMAIN held'[q],
                      held'[q][i] = held'[q][j]
               PROVE  i = j
    BY DEF HeldOnce
  <2>1. CASE q # p
    BY <1>5, <2>1 DEF HeldOnce
  <2>2. CASE q = p
    <3> HIDE DEF h
    <3> QED
      BY <1>1, <1>6, <1>7, <2>2
  <2> QED
    BY <2>1, <2>2
<1> QED
  BY <1>2, <1>3, <1>4, <1>8, <1>9

LockSafe == TypeOK /\ MutualExclusion /\ HeldOnce

(* A free mutex has no holder: taking it keeps the exclusion.                *)
LEMMA AcquiredSafe ==
    ASSUME LockSafe, NEW p \in Procs, Acquired(p), word[arg[p]] = 0, NEW v \in {1, 2},
           word' = [word EXCEPT ![arg[p]] = v]
    PROVE  MutualExclusion' /\ HeldOnce'
<1> DEFINE a == arg[p]
<1>1. a \in Addrs /\ word \in [Addrs -> 0..2]
  BY DEF LockSafe, TypeOK
<1>2. \A q \in Procs : ~Holds(q, a)
  BY <1>1 DEF LockSafe, MutualExclusion
<1>3. \A q \in Procs : \A b \in Addrs : Holds(q, b)' <=> Holds(q, b) \/ (q = p /\ b = a)
  BY AcquiredHolds DEF LockSafe
<1>4. word'[a] # 0 /\ \A b \in Addrs \ {a} : word'[b] = word[b]
  BY <1>1
<1>5. HeldOnce'
  BY <1>2, AcquiredOnce DEF LockSafe
<1>6. ASSUME NEW b \in Addrs
      PROVE  /\ \A q, r \in Procs : Holds(q, b)' /\ Holds(r, b)' => q = r
             /\ word'[b] = 0 <=> \A q \in Procs : ~Holds(q, b)'
  <2> HIDE DEF a
  <2>1. CASE b = a
    BY <1>2, <1>3, <1>4, <2>1
  <2>2. CASE b # a
    BY <1>3, <1>4, <2>2 DEF LockSafe, MutualExclusion
  <2> QED
    BY <2>1, <2>2
<1> QED
  BY <1>5, <1>6 DEF MutualExclusion

LEMMA ReleaseSafe ==
    ASSUME LockSafe, NEW p \in Procs, NEW wake, NEW next, Release(p, wake, next)
    PROVE  MutualExclusion' /\ HeldOnce'
<1> DEFINE a == held[p][Len(held[p])]
<1>1. /\ a \in Addrs /\ Holds(p, a)
      /\ word' = [word EXCEPT ![a] = 0]
      /\ \A q \in Procs : \A b \in Addrs : Holds(q, b)' <=> Holds(q, b) /\ ~(q = p /\ b = a)
      /\ HeldOnce'
  BY ReleaseHolds DEF LockSafe
<1> HIDE DEF a
<1>2. word'[a] = 0 /\ \A b \in Addrs \ {a} : word'[b] = word[b]
  BY <1>1 DEF LockSafe, TypeOK
<1>3. ASSUME NEW b \in Addrs
      PROVE  /\ \A q, r \in Procs : Holds(q, b)' /\ Holds(r, b)' => q = r
             /\ word'[b] = 0 <=> \A q \in Procs : ~Holds(q, b)'
  <2>1. CASE b = a
    BY <1>1, <1>2, <2>1 DEF LockSafe, MutualExclusion
  <2>2. CASE b # a
    BY <1>1, <1>2, <2>2 DEF LockSafe, MutualExclusion
  <2> QED
    BY <2>1, <2>2
<1> QED
  BY <1>1, <1>3 DEF MutualExclusion

LEMMA NextSafe == LockSafe /\ [Next]_vars => LockSafe'
<1> SUFFICES ASSUME LockSafe, [Next]_vars PROVE MutualExclusion' /\ HeldOnce'
  BY NextType DEF LockSafe
<1>1. CASE UNCHANGED <<word, held>>
  BY <1>1 DEF LockSafe, MutualExclusion, HeldOnce, Holds
<1>2. ASSUME NEW p \in Procs, Try(p), ~UNCHANGED <<word, held>> PROVE MutualExclusion' /\ HeldOnce'
  <2>1. word[arg[p]] = 0 /\ Acquired(p) /\ word' = [word EXCEPT ![arg[p]] = 1]
    BY <1>2 DEF Try, SetWord
  <2> QED
    BY <2>1, AcquiredSafe
<1>3. ASSUME NEW p \in Procs, Swap(p) PROVE MutualExclusion' /\ HeldOnce'
  <2>1. word' = [word EXCEPT ![arg[p]] = 2]
    BY <1>3 DEF Swap, SetWord
  <2>2. CASE word[arg[p]] = 0
    <3>1. Acquired(p)
      BY <1>3, <2>2 DEF Swap
    <3> QED
      BY <2>1, <2>2, <3>1, AcquiredSafe
  <2>3. CASE word[arg[p]] # 0
    <3>1. held' = held
      BY <1>3, <2>3 DEF Swap
    <3>2. arg[p] \in Addrs /\ word \in [Addrs -> 0..2]
      BY DEF LockSafe, TypeOK
    <3>3. \A b \in Addrs : word'[b] = 0 <=> word[b] = 0
      BY <2>1, <2>3, <3>2
    <3> QED
      BY <3>1, <3>3 DEF LockSafe, MutualExclusion, HeldOnce, Holds
  <2> QED
    BY <2>2, <2>3
<1>4. ASSUME NEW p \in Procs, Unlock(p) PROVE MutualExclusion' /\ HeldOnce'
  BY <1>4, ReleaseSafe DEF Unlock
<1>5. ASSUME NEW p \in Procs, Restore(p), ~UNCHANGED <<word, held>> PROVE MutualExclusion' /\ HeldOnce'
  BY <1>5, ReleaseSafe DEF Restore
<1>6. ASSUME NEW p \in Procs, Step(p) PROVE MutualExclusion' /\ HeldOnce'
  <2>1. CASE Try(p) \/ Swap(p) \/ Unlock(p) \/ Restore(p)
    BY <1>1, <1>2, <1>3, <1>4, <1>5, <2>1
  <2>2. CASE ~(Try(p) \/ Swap(p) \/ Unlock(p) \/ Restore(p))
    <3>1. UNCHANGED <<word, held>>
      BY <1>6, <2>2 DEF Step, Lock, Enter, EndSpin, Wait, Wakeup, Wake, Trap, Exit
    <3> QED
      BY <1>1, <3>1
  <2> QED
    BY <2>1, <2>2
<1>7. CASE Detect \/ UNCHANGED vars
  BY <1>1, <1>7 DEF Detect, vars, mutexVars
<1> QED
  BY <1>6, <1>7 DEF Next, Over

LEMMA NextNoSelfWait == TypeOK /\ NoSelfWait /\ [Next]_vars => NoSelfWait'
<1> SUFFICES ASSUME TypeOK, NoSelfWait, [Next]_vars PROVE NoSelfWait'
  OBVIOUS
<1>1. ASSUME NEW p \in Procs, pc'[p] \in Locking => ~Holds(p, arg[p])',
             \A q \in Procs \ {p} : pc'[q] = pc[q] /\ arg'[q] = arg[q] /\ held'[q] = held[q]
      PROVE  NoSelfWait'
  BY <1>1 DEF NoSelfWait, Holds
<1>2. ASSUME NEW p \in Procs, NEW a \in Addrs, Lock(p, a) PROVE NoSelfWait'
  BY <1>1, <1>2 DEF Lock, Enter, Goto, TypeOK, Locking, Holds
<1>3. ASSUME NEW p \in Procs, Try(p) \/ Swap(p) PROVE NoSelfWait'
  <2>1. /\ pc'[p] \in Locking => pc[p] \in Locking /\ held' = held
        /\ arg' = arg
        /\ \A q \in Procs \ {p} : pc'[q] = pc[q] /\ held'[q] = held[q]
    BY <1>3 DEF Try, Swap, Acquired, Goto, TypeOK, Locking
  <2> QED
    BY <1>1, <2>1 DEF NoSelfWait, Holds
<1>4. ASSUME NEW p \in Procs, EndSpin(p) \/ Wait(p) \/ Wakeup(p) \/ Wake(p) \/ Trap(p) \/ Exit(p)
      PROVE  NoSelfWait'
  <2>1. /\ pc'[p] \in Locking => pc[p] \in Locking
        /\ arg' = arg /\ held' = held
        /\ \A q \in Procs \ {p} : pc'[q] = pc[q]
    BY <1>4 DEF EndSpin, Wait, Wakeup, Wake, Trap, Exit, Goto, TypeOK, Locking
  <2> QED
    BY <1>1, <2>1 DEF NoSelfWait, Holds
<1>5. ASSUME NEW p \in Procs, Unlock(p) \/ Restore(p) PROVE NoSelfWait'
  <2>1. /\ pc'[p] \notin Locking
        /\ \A q \in Procs \ {p} : pc'[q] = pc[q] /\ arg'[q] = arg[q] /\ held'[q] = held[q]
    BY <1>5 DEF Unlock, Restore, Release, Goto, TypeOK, Locking
  <2> QED
    BY <1>1, <2>1
<1>6. CASE Detect \/ UNCHANGED vars
  BY <1>6 DEF Detect, vars, mutexVars, NoSelfWait, Holds
<1> QED
  BY <1>2, <1>3, <1>4, <1>5, <1>6 DEF Next, Step, Over

(* Two processes are never inside the critical section of one mutex, the     *)
(* lock word is 0 exactly when nobody is, and nobody waits for a mutex they  *)
(* hold: mutex32_lock, mutex32_unlock and the release after a trap, for any  *)
(* number of processes and mutexes.                                          *)
THEOREM Exclusion == Spec => []LocksAreExclusive
<1>1. Init => LockSafe /\ NoSelfWait
  <2> SUFFICES ASSUME Init PROVE MutualExclusion /\ HeldOnce /\ NoSelfWait
    BY InitType DEF LockSafe
  <2>1. \A p \in Procs : held[p] = <<>> /\ DOMAIN held[p] = {} /\ pc[p] = "idle"
    BY DEF Init
  <2>2. \A a \in Addrs : word[a] = 0
    BY DEF Init
  <2> QED
    BY <2>1, <2>2 DEF MutualExclusion, HeldOnce, NoSelfWait, Holds
<1>2. LockSafe => TypeOK /\ MutualExclusion
  BY DEF LockSafe
<1>3. MutualExclusion /\ NoSelfWait => LocksAreExclusive
  BY DEF LocksAreExclusive
<1> QED
  BY <1>1, <1>2, <1>3, NextSafe, NextNoSelfWait, PTL DEF Spec

-----------------------------------------------------------------------------
(* Waiting.  A waiter in the bucket is inside of its wait; and while there   *)
(* is one, its wake is on the way.                                           *)

WaitSafe == TypeOK /\ NoDanglingWaiter /\ NoLostWakeup

Sleeper(a) == \E i \in DOMAIN bucket : bucket[i][2] = a

Brought(a) ==
    \/ word[a] = 2
    \/ \E p \in Procs : pc[p] \in {"wake", "rewake"} /\ arg[p] = a
    \/ \E p \in Procs : Contender(p, a)

LEMMA WokenIsBrought == NoLostWakeup <=> \A a \in Addrs : Sleeper(a) => Brought(a)
BY DEF NoLostWakeup, Sleeper, Brought

(* The bucket after one of its waiters was unlinked: the others are left, as *)
(* they were.                                                                *)
LEMMA UnlinkedBucket ==
    ASSUME LotTypeOK, NEW k \in DOMAIN bucket, bucket' = Without(bucket, k),
           \A i, j \in DOMAIN bucket : bucket[i][1] = bucket[j][1] => i = j
    PROVE  /\ \A i \in DOMAIN bucket' : \E j \in DOMAIN bucket \ {k} : bucket'[i] = bucket[j]
           /\ \A i, j \in DOMAIN bucket' : bucket'[i][1] = bucket'[j][1] => i = j
           /\ \A p \in Procs : p = bucket[k][1] => ~InBucket(p)'
           /\ \A p \in Procs : p # bucket[k][1] => (InBucket(p)' <=> InBucket(p))
<1> DEFINE n == Len(bucket)
<1>1. bucket \in Seq(Waiters) /\ n \in Nat /\ DOMAIN bucket = 1..n /\ k \in 1..n
  BY DEF LotTypeOK
<1>2. /\ DOMAIN bucket' = 1..n - 1
      /\ \A j \in 1..n - 1 : bucket'[j] = IF j < k THEN bucket[j] ELSE bucket[j + 1]
  BY <1>1, WithoutType
<1> HIDE DEF n
<1>3. \A i \in 1..n - 1 : \E j \in 1..n : j # k /\ j = (IF i < k THEN i ELSE i + 1) /\ bucket'[i] = bucket[j]
  BY <1>1, <1>2
<1>4. \A j \in 1..n : j # k => \E i \in 1..n - 1 : bucket'[i] = bucket[j]
  <2> SUFFICES ASSUME NEW j \in 1..n, j # k PROVE \E i \in 1..n - 1 : bucket'[i] = bucket[j]
    OBVIOUS
  <2>1. CASE j < k
    <3>1. j \in 1..n - 1 /\ bucket'[j] = bucket[j]
      BY <1>1, <1>2, <2>1
    <3> QED
      BY <3>1
  <2>2. CASE j > k
    <3>1. j - 1 \in 1..n - 1 /\ ~(j - 1 < k) /\ (j - 1) + 1 = j
      BY <1>1, <2>2
    <3>2. bucket'[j - 1] = bucket[j]
      BY <1>2, <3>1
    <3> QED
      BY <3>1, <3>2
  <2> QED
    BY <1>1, <2>1, <2>2
<1>5. \A p \in Procs : p = bucket[k][1] => ~InBucket(p)'
  BY <1>1, <1>2, <1>3 DEF InBucket
<1>6. ASSUME NEW p \in Procs, p # bucket[k][1] PROVE InBucket(p)' <=> InBucket(p)
  <2>1. InBucket(p) <=> \E j \in 1..n : bucket[j][1] = p
    BY <1>1 DEF InBucket
  <2>2. InBucket(p)' <=> \E j \in 1..n - 1 : bucket'[j][1] = p
    BY <1>2 DEF InBucket
  <2> QED
    BY <1>3, <1>4, <1>6, <2>1, <2>2
<1>7. ASSUME NEW i \in 1..n - 1, NEW j \in 1..n - 1, bucket'[i][1] = bucket'[j][1] PROVE i = j
  <2>1. (IF i < k THEN i ELSE i + 1) = (IF j < k THEN j ELSE j + 1)
    BY <1>1, <1>3, <1>7
  <2> QED
    BY <1>1, <2>1
<1> QED
  BY <1>1, <1>2, <1>3, <1>5, <1>6, <1>7

(* A step that leaves the parking lot alone, by a process that is in no      *)
(* wait: nobody in the bucket notices.                                       *)
LEMMA AwayFromBucket ==
    ASSUME WaitSafe, NEW p \in Procs, pc[p] # "parked", UNCHANGED lotVars,
           \A q \in Procs \ {p} : pc'[q] = pc[q] /\ arg'[q] = arg[q]
    PROVE  NoDanglingWaiter'
<1>1. \A i \in DOMAIN bucket : bucket[i][1] \in Procs \ {p}
  BY DEF WaitSafe, NoDanglingWaiter, TypeOK, LotTypeOK, Waiters
<1> QED
  BY <1>1 DEF WaitSafe, NoDanglingWaiter, lotVars

(* Such a step keeps the wakes on their way if the process was not one of    *)
(* those who bring them, and no word loses its mark.                         *)
LEMMA StillWoken ==
    ASSUME WaitSafe, NEW p \in Procs, UNCHANGED lotVars,
           pc[p] \notin {"swap", "wait", "parked", "wake", "rewake"},
           \A q \in Procs \ {p} : pc'[q] = pc[q] /\ arg'[q] = arg[q],
           NEW a \in Addrs, Sleeper(a)', word[a] = 2 => word'[a] = 2
    PROVE  Brought(a)'
<1>1. Sleeper(a)
  BY DEF Sleeper, lotVars
<1>2. \A q \in Procs : InBucket(q)' <=> InBucket(q)
  BY DEF InBucket, lotVars
<1>3. CASE word[a] = 2
  BY <1>3 DEF Brought
<1>4. CASE \E q \in Procs : pc[q] \in {"wake", "rewake"} /\ arg[q] = a
  BY <1>4 DEF Brought
<1>5. CASE \E q \in Procs : Contender(q, a)
  <2>1. PICK q \in Procs : Contender(q, a)
    BY <1>5
  <2>2. q # p
    BY <2>1 DEF Contender
  <2> QED
    BY <1>2, <2>1, <2>2 DEF Contender, Brought
<1> QED
  BY <1>1, <1>3, <1>4, <1>5, WokenIsBrought DEF WaitSafe, Brought

(* The lock calls that neither wait nor wake.                                *)
LEMMA QuietStep ==
    ASSUME WaitSafe, NEW p \in Procs, UNCHANGED lotVars,
           pc[p] \notin {"swap", "wait", "parked", "wake", "rewake"},
           \A q \in Procs \ {p} : pc'[q] = pc[q] /\ arg'[q] = arg[q],
           \A a \in Addrs : word[a] = 2 => word'[a] = 2
    PROVE  NoDanglingWaiter' /\ NoLostWakeup'
<1>1. NoDanglingWaiter'
  BY AwayFromBucket
<1>2. \A a \in Addrs : Sleeper(a)' => Brought(a)'
  BY StillWoken
<1> QED
  BY <1>1, <1>2 DEF NoLostWakeup, Sleeper, Brought

LEMMA ReleaseWaits ==
    ASSUME WaitSafe, NEW p \in Procs, pc[p] \in {"idle", "restore"}, NEW wake \in {"wake", "rewake"}, NEW next,
           Release(p, wake, next)
    PROVE  NoDanglingWaiter' /\ NoLostWakeup'
<1> DEFINE a == held[p][Len(held[p])]
<1>1. /\ UNCHANGED lotVars
      /\ word' = [word EXCEPT ![a] = 0]
      /\ pc' = [pc EXCEPT ![p] = IF word[a] = 2 THEN wake ELSE next]
      /\ arg' = [arg EXCEPT ![p] = a]
  BY DEF Release, SetWord, Goto
<1> HIDE DEF a
<1>2. \A q \in Procs \ {p} : pc'[q] = pc[q] /\ arg'[q] = arg[q]
  BY <1>1 DEF WaitSafe, TypeOK
<1>3. NoDanglingWaiter'
  BY <1>1, <1>2, AwayFromBucket
<1>4. ASSUME NEW b \in Addrs, Sleeper(b)' PROVE Brought(b)'
  <2>1. CASE b = a /\ word[a] = 2
    <3>1. pc'[p] = wake /\ arg'[p] = a
      BY <1>1, <2>1 DEF WaitSafe, TypeOK
    <3> QED
      BY <2>1, <3>1 DEF Brought
  <2>2. CASE b # a \/ word[a] # 2
    <3>1. word[b] = 2 => word'[b] = 2
      BY <1>1, <2>2 DEF WaitSafe, TypeOK
    <3> QED
      BY <1>1, <1>2, <1>4, <3>1, StillWoken
  <2> QED
    BY <2>1, <2>2
<1> QED
  BY <1>3, <1>4 DEF NoLostWakeup, Sleeper, Brought

(* The exchange with 2 marks the word for every sleeper of that mutex.       *)
LEMMA SwapWaits ==
    ASSUME WaitSafe, NEW p \in Procs, Swap(p)
    PROVE  NoDanglingWaiter' /\ NoLostWakeup'
<1>1. /\ UNCHANGED lotVars /\ arg' = arg
      /\ word' = [word EXCEPT ![arg[p]] = 2]
      /\ \A q \in Procs \ {p} : pc'[q] = pc[q]
  BY DEF Swap, SetWord, Acquired, Goto, WaitSafe, TypeOK
<1>2. NoDanglingWaiter'
  BY <1>1, AwayFromBucket DEF Swap
<1>3. ASSUME NEW b \in Addrs, Sleeper(b)' PROVE Brought(b)'
  <2>1. word'[b] = IF b = arg[p] THEN 2 ELSE word[b]
    BY <1>1 DEF WaitSafe, TypeOK
  <2>2. CASE b = arg[p]
    BY <2>1, <2>2 DEF Brought
  <2>3. CASE b # arg[p]
    <3>1. Sleeper(b) /\ \A q \in Procs : InBucket(q)' <=> InBucket(q)
      BY <1>1, <1>3 DEF Sleeper, InBucket, lotVars
    <3>2. Brought(b)
      BY <3>1, WokenIsBrought DEF WaitSafe
    <3> QED
      BY <1>1, <2>1, <2>3, <3>1, <3>2 DEF Brought, Contender
  <2> QED
    BY <2>2, <2>3
<1> QED
  BY <1>2, <1>3 DEF NoLostWakeup, Sleeper, Brought

(* The wait: the comparison under the bucket lock finds the mark, or the     *)
(* process goes back to the exchange.                                        *)
LEMMA WaitWaits ==
    ASSUME WaitSafe, NEW p \in Procs, Wait(p)
    PROVE  NoDanglingWaiter' /\ NoLostWakeup'
<1>1. /\ word' = word /\ arg' = arg
      /\ \A q \in Procs \ {p} : pc'[q] = pc[q]
      /\ pc[p] = "wait" /\ arg[p] \in Addrs
  BY DEF Wait, Goto, WaitSafe, TypeOK
<1>2. CASE word[arg[p]] # 2
  <2>1. UNCHANGED lotVars /\ pc'[p] = "swap"
    BY <1>2 DEF Wait, Goto, WaitSafe, TypeOK
  <2>2. NoDanglingWaiter'
    BY <1>1, <2>1, AwayFromBucket
  <2>3. ASSUME NEW b \in Addrs, Sleeper(b)' PROVE Brought(b)'
    <3>1. Sleeper(b) /\ \A q \in Procs : InBucket(q)' <=> InBucket(q)
      BY <2>1, <2>3 DEF Sleeper, InBucket, lotVars
    <3>2. Brought(b)
      BY <3>1, WokenIsBrought DEF WaitSafe
    <3> QED
      BY <1>1, <2>1, <3>1, <3>2 DEF Brought, Contender
  <2> QED
    BY <2>2, <2>3 DEF NoLostWakeup, Sleeper, Brought
<1>3. CASE word[arg[p]] = 2
  <2> DEFINE n == Len(bucket)
  <2>1. /\ bucket \in Seq(Waiters) /\ n \in Nat /\ DOMAIN bucket = 1..n
        /\ bucket' = Append(bucket, <<p, arg[p]>>)
        /\ doomed' = doomed
        /\ status' = [status EXCEPT ![p] = "waiting"]
        /\ pc'[p] = "parked"
        /\ <<p, arg[p]>> \in Waiters
    BY <1>1, <1>3 DEF Wait, Park, Goto, WaitSafe, TypeOK, LotTypeOK, Waiters
  <2>2. /\ DOMAIN bucket' = 1..n + 1
        /\ \A i \in 1..n : bucket'[i] = bucket[i]
        /\ bucket'[n + 1] = <<p, arg[p]>>
    BY <2>1
  <2>3. \A i \in 1..n : bucket[i][1] \in Procs \ {p}
    <3>1. \A i \in 1..n : bucket[i] \in Waiters
      BY <2>1
    <3>2. \A i \in 1..n : pc[bucket[i][1]] = "parked"
      BY <2>1 DEF WaitSafe, NoDanglingWaiter
    <3> QED
      BY <1>1, <3>1, <3>2 DEF Waiters
  <2>4. status'[p] = "waiting" /\ \A q \in Procs \ {p} : status'[q] = status[q]
    BY <2>1 DEF WaitSafe, TypeOK, LotTypeOK
  <2> HIDE DEF n
  <2>5. \A i \in 1..n + 1 : i \in 1..n \/ i = n + 1
    BY <2>1
  <2>6. NoDanglingWaiter'
    <3>1. ASSUME NEW i \in 1..n + 1
          PROVE  /\ pc'[bucket'[i][1]] = "parked" /\ arg'[bucket'[i][1]] = bucket'[i][2]
                 /\ status'[bucket'[i][1]] = "running" => doomed'[bucket'[i][1]]
      <4>1. CASE i = n + 1
        BY <1>1, <2>1, <2>2, <2>4, <4>1
      <4>2. CASE i \in 1..n
        BY <1>1, <2>1, <2>2, <2>3, <2>4, <4>2 DEF WaitSafe, NoDanglingWaiter
      <4> QED
        BY <2>5, <4>1, <4>2
    <3>2. ASSUME NEW i \in 1..n + 1, NEW j \in 1..n + 1, bucket'[i][1] = bucket'[j][1] PROVE i = j
      <4>1. \A k, l \in 1..n : bucket[k][1] = bucket[l][1] => k = l
        BY <2>1 DEF WaitSafe, NoDanglingWaiter
      <4> QED
        BY <2>2, <2>3, <2>5, <3>2, <4>1
    <3> QED
      BY <2>2, <3>1, <3>2 DEF NoDanglingWaiter
  <2>7. ASSUME NEW b \in Addrs, Sleeper(b)' PROVE Brought(b)'
    <3>1. CASE b = arg[p]
      BY <1>1, <1>3, <3>1 DEF Brought
    <3>2. CASE b # arg[p]
      <4>1. Sleeper(b)
        BY <2>1, <2>2, <2>5, <2>7, <3>2 DEF Sleeper
      <4>2. Brought(b)
        BY <4>1, WokenIsBrought DEF WaitSafe
      <4>3. \A q \in Procs \ {p} : InBucket(q)' <=> InBucket(q)
        BY <2>1, <2>2, <2>5 DEF InBucket
      <4> QED
        BY <1>1, <3>2, <4>2, <4>3 DEF Brought, Contender
    <3> QED
      BY <3>1, <3>2
  <2> QED
    BY <2>6, <2>7 DEF NoLostWakeup, Sleeper, Brought
<1> QED
  BY <1>2, <1>3

(* A wait ends: its process was unlinked by a waker, or unlinks itself.      *)
LEMMA WakeupWaits ==
    ASSUME WaitSafe, NEW p \in Procs, Wakeup(p)
    PROVE  NoDanglingWaiter' /\ NoLostWakeup'
<1>1. /\ word' = word /\ arg' = arg /\ status' = status
      /\ pc[p] = "parked" /\ status[p] = "running" /\ arg[p] \in Addrs
      /\ pc'[p] = IF Cancelled(p) THEN "idle" ELSE "swap"
      /\ \A q \in Procs \ {p} : pc'[q] = pc[q] /\ doomed'[q] = doomed[q]
  BY DEF Wakeup, Unpark, Runs, Goto, WaitSafe, TypeOK, LotTypeOK
<1>2. InBucket(p) => Cancelled(p)
  BY <1>1 DEF WaitSafe, NoDanglingWaiter, InBucket, Cancelled
<1>3. /\ \A i \in DOMAIN bucket' : \E j \in DOMAIN bucket : bucket'[i] = bucket[j]
      /\ \A i, j \in DOMAIN bucket' : bucket'[i][1] = bucket'[j][1] => i = j
      /\ ~InBucket(p)'
      /\ \A q \in Procs \ {p} : InBucket(q)' <=> InBucket(q)
  <2>1. CASE Cancelled(p)
    <3>1. PICK k \in DOMAIN bucket : k = PlaceOf(p) /\ bucket[k][1] = p
      BY <2>1 DEF Cancelled, InBucket, PlaceOf
    <3>2. bucket' = Without(bucket, k)
      BY <2>1, <3>1 DEF Wakeup, Unpark
    <3>3. /\ \A i \in DOMAIN bucket' : \E j \in DOMAIN bucket \ {k} : bucket'[i] = bucket[j]
          /\ \A i, j \in DOMAIN bucket' : bucket'[i][1] = bucket'[j][1] => i = j
          /\ \A q \in Procs : q = bucket[k][1] => ~InBucket(q)'
          /\ \A q \in Procs : q # bucket[k][1] => (InBucket(q)' <=> InBucket(q))
      BY <3>2, UnlinkedBucket DEF WaitSafe, NoDanglingWaiter, TypeOK
    <3> QED
      BY <3>1, <3>3
  <2>2. CASE ~Cancelled(p)
    <3>1. bucket' = bucket
      BY <2>2 DEF Wakeup, Unpark
    <3> QED
      BY <1>2, <2>2, <3>1 DEF WaitSafe, NoDanglingWaiter, InBucket
  <2> QED
    BY <2>1, <2>2
<1>4. \A i \in DOMAIN bucket' : bucket'[i][1] \in Procs \ {p}
  <2>1. \A i \in DOMAIN bucket : bucket[i] \in Waiters
    BY DEF WaitSafe, TypeOK, LotTypeOK
  <2> QED
    BY <1>3, <2>1 DEF InBucket, Waiters
<1>5. NoDanglingWaiter'
  <2>1. ASSUME NEW i \in DOMAIN bucket'
        PROVE  /\ pc'[bucket'[i][1]] = "parked" /\ arg'[bucket'[i][1]] = bucket'[i][2]
               /\ status'[bucket'[i][1]] = "running" => doomed'[bucket'[i][1]]
    <3>1. PICK j \in DOMAIN bucket : bucket'[i] = bucket[j]
      BY <1>3
    <3>2. /\ pc[bucket[j][1]] = "parked" /\ arg[bucket[j][1]] = bucket[j][2]
          /\ status[bucket[j][1]] = "running" => doomed[bucket[j][1]]
      BY DEF WaitSafe, NoDanglingWaiter
    <3> QED
      BY <1>1, <1>4, <3>1, <3>2
  <2> QED
    BY <1>3, <2>1 DEF NoDanglingWaiter
<1>6. ASSUME NEW b \in Addrs, Sleeper(b)' PROVE Brought(b)'
  <2>1. Sleeper(b)
    BY <1>3, <1>6 DEF Sleeper
  <2>2. Brought(b)
    BY <2>1, WokenIsBrought DEF WaitSafe
  <2>3. CASE word[b] = 2
    BY <1>1, <2>3 DEF Brought
  <2>4. CASE \E q \in Procs : pc[q] \in {"wake", "rewake"} /\ arg[q] = b
    <3>1. PICK q \in Procs : pc[q] \in {"wake", "rewake"} /\ arg[q] = b
      BY <2>4
    <3>2. pc'[q] = pc[q] /\ arg'[q] = arg[q]
      BY <1>1, <3>1
    <3> QED
      BY <3>1, <3>2 DEF Brought
  <2>5. CASE \E q \in Procs : Contender(q, b)
    <3>1. PICK q \in Procs : Contender(q, b)
      BY <2>5
    <3>2. CASE q = p
      <4>1. ~Cancelled(p)
        BY <1>1, <3>1, <3>2 DEF Contender, Cancelled
      <4>2. pc'[p] = "swap" /\ arg'[p] = b
        BY <1>1, <3>1, <3>2, <4>1 DEF Contender
      <4> QED
        BY <4>2 DEF Brought, Contender
    <3>3. CASE q # p
      <4>1. Contender(q, b)'
        BY <1>1, <1>3, <3>1, <3>3 DEF Contender
      <4> QED
        BY <4>1 DEF Brought
    <3> QED
      BY <3>2, <3>3
  <2> QED
    BY <2>2, <2>3, <2>4, <2>5 DEF Brought
<1> QED
  BY <1>5, <1>6 DEF NoLostWakeup, Sleeper, Brought

(* A wake: the waiter that leaves the bucket contends for the mutex and will *)
(* mark it for the ones that stay.                                           *)
LEMMA WakeWaits ==
    ASSUME WaitSafe, NEW p \in Procs, Wake(p)
    PROVE  NoDanglingWaiter' /\ NoLostWakeup'
<1> DEFINE a == arg[p]
<1>1. /\ word' = word /\ arg' = arg /\ doomed' = doomed
      /\ pc[p] \in {"wake", "rewake"} /\ a \in Addrs
      /\ pc'[p] \in {"idle", "restore"}
      /\ \A q \in Procs \ {p} : pc'[q] = pc[q]
  BY DEF Wake, WakeOne, Goto, WaitSafe, TypeOK, LotTypeOK
<1>2. \A i \in DOMAIN bucket : bucket[i][1] \in Procs \ {p}
  <2>1. \A i \in DOMAIN bucket : bucket[i] \in Waiters /\ pc[bucket[i][1]] = "parked"
    BY DEF WaitSafe, TypeOK, LotTypeOK, NoDanglingWaiter
  <2> QED
    BY <1>1, <2>1 DEF Waiters
<1>3. CASE ~Sleeper(a)
  <2>1. bucket' = bucket /\ status' = status
    BY <1>3 DEF Wake, WakeOne, Sleeper
  <2>2. NoDanglingWaiter'
    BY <1>1, <1>2, <2>1 DEF WaitSafe, NoDanglingWaiter
  <2>3. ASSUME NEW b \in Addrs, Sleeper(b)' PROVE Brought(b)'
    <3>1. Sleeper(b) /\ b # a /\ \A q \in Procs : InBucket(q)' <=> InBucket(q)
      BY <1>3, <2>1, <2>3 DEF Sleeper, InBucket
    <3>2. Brought(b)
      BY <3>1, WokenIsBrought DEF WaitSafe
    <3> QED
      BY <1>1, <3>1, <3>2 DEF Brought, Contender
  <2> QED
    BY <2>2, <2>3 DEF NoLostWakeup, Sleeper, Brought
<1>4. CASE Sleeper(a)
  <2>1. PICK k \in DOMAIN bucket : k = FirstOf(a) /\ bucket[k][2] = a
    BY <1>1, <1>4, FirstExists DEF Sleeper, WaitSafe, TypeOK
  <2>10. PICK r \in Procs \ {p} : r = bucket[k][1]
    BY <1>2
  <2>2. bucket' = Without(bucket, k) /\ status' = Readied({r})
    BY <1>4, <2>1, <2>10 DEF Wake, WakeOne, Sleeper
  <2>3. /\ \A i \in DOMAIN bucket' : \E j \in DOMAIN bucket \ {k} : bucket'[i] = bucket[j]
        /\ \A i, j \in DOMAIN bucket' : bucket'[i][1] = bucket'[j][1] => i = j
        /\ \A q \in Procs : q = r => ~InBucket(q)'
        /\ \A q \in Procs : q # r => (InBucket(q)' <=> InBucket(q))
    BY <2>10, <2>2, UnlinkedBucket DEF WaitSafe, NoDanglingWaiter, TypeOK
  <2>4. pc[r] = "parked" /\ arg[r] = a
    BY <2>1, <2>10 DEF WaitSafe, NoDanglingWaiter
  <2>5. \A q \in Procs : q # r => status'[q] = status[q]
    BY <2>2 DEF Readied
  <2>6. NoDanglingWaiter'
    <3>1. ASSUME NEW i \in DOMAIN bucket'
          PROVE  /\ pc'[bucket'[i][1]] = "parked" /\ arg'[bucket'[i][1]] = bucket'[i][2]
                 /\ status'[bucket'[i][1]] = "running" => doomed'[bucket'[i][1]]
      <4>1. PICK j \in DOMAIN bucket \ {k} : bucket'[i] = bucket[j]
        BY <2>3
      <4>2. /\ pc[bucket[j][1]] = "parked" /\ arg[bucket[j][1]] = bucket[j][2]
            /\ status[bucket[j][1]] = "running" => doomed[bucket[j][1]]
            /\ bucket[j][1] # r
        BY <2>10, <4>1 DEF WaitSafe, NoDanglingWaiter
      <4>3. bucket[j][1] \in Procs \ {p}
        BY <1>2, <4>1
      <4> QED
        BY <1>1, <2>5, <4>1, <4>2, <4>3
    <3> QED
      BY <2>3, <3>1 DEF NoDanglingWaiter
  <2>7. ASSUME NEW b \in Addrs, Sleeper(b)' PROVE Brought(b)'
    <3>1. CASE b = a
      <4>1. Contender(r, b)'
        BY <1>1, <2>3, <2>4, <3>1 DEF Contender
      <4> QED
        BY <4>1 DEF Brought
    <3>2. CASE b # a
      <4>1. Sleeper(b)
        BY <2>3, <2>7 DEF Sleeper
      <4>2. Brought(b)
        BY <4>1, WokenIsBrought DEF WaitSafe
      <4>3. \A q \in Procs : InBucket(q)' => InBucket(q)
        BY <2>3, <2>10 DEF InBucket
      <4> QED
        BY <1>1, <3>2, <4>2, <4>3 DEF Brought, Contender
    <3> QED
      BY <3>1, <3>2
  <2> QED
    BY <2>6, <2>7 DEF NoLostWakeup, Sleeper, Brought
<1> QED
  BY <1>3, <1>4

LEMMA NextWaits == WaitSafe /\ [Next]_vars => WaitSafe'
<1> SUFFICES ASSUME WaitSafe, [Next]_vars PROVE NoDanglingWaiter' /\ NoLostWakeup'
  BY NextType DEF WaitSafe
<1>1. ASSUME NEW p \in Procs, (\E a \in Addrs : Lock(p, a)) \/ EndSpin(p) \/ Trap(p)
      PROVE  NoDanglingWaiter' /\ NoLostWakeup'
  <2>1. /\ UNCHANGED lotVars /\ word' = word
        /\ pc[p] \in {"idle", "spin"}
        /\ \A q \in Procs \ {p} : pc'[q] = pc[q] /\ arg'[q] = arg[q]
    BY <1>1 DEF Lock, Enter, EndSpin, Trap, Goto, WaitSafe, TypeOK
  <2> QED
    BY <2>1, QuietStep
<1>2. ASSUME NEW p \in Procs, Try(p) PROVE NoDanglingWaiter' /\ NoLostWakeup'
  <2>1. /\ UNCHANGED lotVars /\ arg' = arg
        /\ pc[p] \in {"try", "spin"}
        /\ \A q \in Procs \ {p} : pc'[q] = pc[q]
    BY <1>2 DEF Try, Acquired, Goto, WaitSafe, TypeOK
  <2>2. \A a \in Addrs : word[a] = 2 => word'[a] = 2
    BY <1>2 DEF Try, SetWord, WaitSafe, TypeOK
  <2> QED
    BY <2>1, <2>2, QuietStep
<1>3. ASSUME NEW p \in Procs, Unlock(p) \/ Restore(p) PROVE NoDanglingWaiter' /\ NoLostWakeup'
  <2>1. CASE Unlock(p)
    BY <2>1, ReleaseWaits DEF Unlock
  <2>2. CASE Restore(p) /\ Release(p, "rewake", "restore")
    BY <2>2, ReleaseWaits DEF Restore
  <2>3. CASE Restore(p) /\ ~Release(p, "rewake", "restore")
    <3>1. /\ UNCHANGED lotVars /\ word' = word /\ arg' = arg
          /\ pc[p] = "restore"
          /\ \A q \in Procs \ {p} : pc'[q] = pc[q]
      BY <2>3 DEF Restore, Goto, WaitSafe, TypeOK
    <3> QED
      BY <3>1, QuietStep
  <2> QED
    BY <1>3, <2>1, <2>2, <2>3
<1>4. ASSUME NEW p \in Procs, Exit(p) PROVE NoDanglingWaiter' /\ NoLostWakeup'
  <2>1. /\ bucket' = bucket /\ doomed' = doomed /\ word' = word /\ arg' = arg
        /\ pc[p] = "idle"
        /\ \A q \in Procs \ {p} : pc'[q] = pc[q] /\ status'[q] = status[q]
    BY <1>4 DEF Exit, Die, Goto, WaitSafe, TypeOK, LotTypeOK
  <2>2. \A i \in DOMAIN bucket : bucket[i][1] \in Procs \ {p}
    <3>1. \A i \in DOMAIN bucket : bucket[i] \in Waiters /\ pc[bucket[i][1]] = "parked"
      BY DEF WaitSafe, TypeOK, LotTypeOK, NoDanglingWaiter
    <3> QED
      BY <2>1, <3>1 DEF Waiters
  <2>3. NoDanglingWaiter'
    BY <2>1, <2>2 DEF WaitSafe, NoDanglingWaiter
  <2>4. ASSUME NEW b \in Addrs, Sleeper(b)' PROVE Brought(b)'
    <3>1. Sleeper(b) /\ \A q \in Procs : InBucket(q)' <=> InBucket(q)
      BY <2>1, <2>4 DEF Sleeper, InBucket
    <3>2. Brought(b)
      BY <3>1, WokenIsBrought DEF WaitSafe
    <3> QED
      BY <2>1, <3>1, <3>2 DEF Brought, Contender
  <2> QED
    BY <2>3, <2>4 DEF NoLostWakeup, Sleeper, Brought
<1>5. CASE Detect
  <2>1. bucket' = bucket /\ word' = word /\ arg' = arg /\ pc' = pc
    BY <1>5 DEF Detect, CheckDead, mutexVars
  <2>2. \A q \in Procs : (status'[q] = "running" => doomed'[q] \/ status[q] = "running") /\ (doomed[q] => doomed'[q])
    BY <1>5 DEF Detect, CheckDead
  <2>3. \A i \in DOMAIN bucket : bucket[i][1] \in Procs
    <3>1. \A i \in DOMAIN bucket : bucket[i] \in Waiters
      BY DEF WaitSafe, TypeOK, LotTypeOK
    <3> QED
      BY <3>1 DEF Waiters
  <2>4. NoDanglingWaiter'
    BY <2>1, <2>2, <2>3 DEF WaitSafe, NoDanglingWaiter
  <2>5. NoLostWakeup'
    BY <2>1 DEF WaitSafe, NoLostWakeup, Contender, InBucket
  <2> QED
    BY <2>4, <2>5
<1>6. CASE UNCHANGED vars
  BY <1>6 DEF WaitSafe, NoDanglingWaiter, NoLostWakeup, Contender, InBucket, vars, lotVars, mutexVars
<1>7. ASSUME NEW p \in Procs, Step(p) PROVE NoDanglingWaiter' /\ NoLostWakeup'
  BY <1>1, <1>2, <1>3, <1>4, <1>7, SwapWaits, WaitWaits, WakeupWaits, WakeWaits DEF Step
<1> QED
  BY <1>5, <1>6, <1>7 DEF Next, Over

(* No wakeup of a mutex is lost: while a process sleeps on it, the word is   *)
(* marked, or a wake is on its way, or a contender will mark it again; and   *)
(* what is linked in the bucket is a process inside of its wait (addr_wait,  *)
(* addr_wake and the three states of the lock word), for any number of       *)
(* processes and mutexes that share the bucket.                              *)
THEOREM Wakeups == Spec => []SleepersAreWoken
<1>1. Init => WaitSafe
  <2> SUFFICES ASSUME Init PROVE NoDanglingWaiter /\ NoLostWakeup
    BY InitType DEF WaitSafe
  <2>1. DOMAIN bucket = {}
    BY DEF Init, LotInit
  <2> QED
    BY <2>1 DEF NoDanglingWaiter, NoLostWakeup
<1>2. WaitSafe => SleepersAreWoken
  BY DEF WaitSafe, SleepersAreWoken
<1> QED
  BY <1>1, <1>2, NextWaits, PTL DEF Spec

=============================================================================
