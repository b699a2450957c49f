-------------------------------- MODULE Cond --------------------------------
(* Cond.wait_with, Cond.signal and Cond.broadcast over a Mutex               *)
(* (tsuzuri_tz_cond_wait and tsuzuri_tz_cond_wake in runtime/tzroutine.c,    *)
(* and the loop that cond_wait_with of llvm_wait.rs generates around them).  *)
(*                                                                           *)
(* The locked value is a count of items.  A consumer waits until there is an *)
(* item and takes it; a producer adds one under the lock and signals after   *)
(* it released the lock.  Nobody waits for another lock inside, so that the  *)
(* lock call itself never reports a deadlock here.                           *)
EXTENDS Mutex

CONSTANTS
    Cell,        \* the mutex
    Sequence,    \* the condition's sequence number
    Producers,
    Consumers

(* What the constants are.                                                   *)
CondAssumption ==
    /\ Addrs = {Cell, Sequence} /\ Cell # Sequence
    /\ Producers \cup Consumers \subseteq Procs

VARIABLES
    seq,       \* the sequence number
    items,     \* the locked value
    stage,     \* where p is in wait_with, or in the producer's calls
    observed,  \* the sequence number that p's wait_with loaded
    ended      \* doomed of cond_wait: the detector ended the wait

condVars == <<seq, items, stage, observed, ended>>
allVars == <<vars, condVars>>

At(p, s) == Runs(p) /\ pc[p] = "idle" /\ stage[p] = s
Enters(p, s) == stage' = [stage EXCEPT ![p] = s]

(* The inside of mutex32_lock and mutex32_unlock, from wherever they were    *)
(* called.                                                                   *)
InMutex(p) ==
    /\ Try(p) \/ EndSpin(p) \/ Swap(p) \/ Wait(p) \/ Wakeup(p) \/ Wake(p)
    /\ UNCHANGED condVars

(* wait_with and a producer's with_lock start with the lock.                 *)
Start(p, s) ==
    /\ At(p, "out")
    /\ Lock(p, Cell)
    /\ Enters(p, s)
    /\ UNCHANGED <<seq, items, observed, ended>>

StartWaitWith(p) == p \in Consumers /\ Start(p, "check")
StartProduce(p) == p \in Producers /\ Start(p, "produce")

(* check: the sequence number is loaded before the predicate is asked.       *)
Observe(p) ==
    /\ At(p, "check") /\ ~ended[p]
    /\ observed' = [observed EXCEPT ![p] = seq]
    /\ Enters(p, "predicate")
    /\ UNCHANGED <<vars, seq, items, ended>>

(* The predicate holds: the body takes an item, and the lock is released.    *)
Body(p) ==
    /\ At(p, "predicate") /\ items > 0
    /\ items' = items - 1
    /\ Release(p, "wake", "idle")
    /\ Enters(p, "out")
    /\ UNCHANGED <<seq, observed, ended>>

(* It does not: cond_wait releases the lock ...                              *)
CondWait(p) ==
    /\ At(p, "predicate") /\ items = 0
    /\ Release(p, "wake", "idle")
    /\ Enters(p, "wait")
    /\ UNCHANGED <<seq, items, observed, ended>>

(* Variant with a bug: the number is not compared.                           *)
CondParkStale(p) ==
    /\ At(p, "wait")
    /\ Park(p, Sequence) /\ Enters(p, "asleep")
    /\ UNCHANGED <<mutexVars, seq, items, observed, ended>>

(* Variant with a bug: a number that changed returns without the lock.       *)
CondParkUnlocked(p) ==
    /\ At(p, "wait")
    /\ IF seq = observed[p]
       THEN Park(p, Sequence) /\ Enters(p, "asleep")
       ELSE Enters(p, "check") /\ UNCHANGED lotVars
    /\ UNCHANGED <<mutexVars, seq, items, observed, ended>>

(* ... waits while the number is what was observed ...                       *)
CondPark(p) ==
    /\ At(p, "wait")
    /\ IF seq = observed[p]
       THEN Park(p, Sequence) /\ Enters(p, "asleep")
       ELSE Enters(p, "relock") /\ UNCHANGED lotVars
    /\ UNCHANGED <<mutexVars, seq, items, observed, ended>>

CondWakeup(p) ==
    /\ At(p, "asleep")
    /\ Unpark(p)
    /\ ended' = [ended EXCEPT ![p] = Cancelled(p)]
    /\ Enters(p, "relock")
    /\ UNCHANGED <<mutexVars, seq, items, observed>>

(* ... and takes the lock again.                                             *)
Relock(p) ==
    /\ At(p, "relock")
    /\ Enter(p, Cell) /\ UNCHANGED nops
    /\ Enters(p, "check")
    /\ UNCHANGED <<seq, items, observed, ended>>

(* The wait was ended by the detector: the caller traps with the lock taken, *)
(* which the restore of its boundary releases.                               *)
CondTrap(p) ==
    /\ At(p, "check") /\ ended[p]
    /\ Release(p, "wake", "idle")
    /\ ended' = [ended EXCEPT ![p] = FALSE]
    /\ Enters(p, "out")
    /\ UNCHANGED <<seq, items, observed>>

Produce(p) ==
    /\ At(p, "produce")
    /\ items' = items + 1
    /\ Release(p, "wake", "idle")
    /\ Enters(p, "signal")
    /\ UNCHANGED <<seq, observed, ended>>

(* cond_wake: the number first, then the wake of one or of all.              *)
Signal(p) ==
    /\ At(p, "signal")
    /\ seq' = seq + 1
    /\ Enters(p, "wakeup")
    /\ UNCHANGED <<vars, items, observed, ended>>

CondWake(p) ==
    /\ At(p, "wakeup")
    /\ WakeOne(Sequence) \/ WakeAll(Sequence)
    /\ Enters(p, "out")
    /\ UNCHANGED <<mutexVars, seq, items, observed, ended>>

CondExit(p) == At(p, "out") /\ Exit(p) /\ UNCHANGED condVars

CondDetect == Detect /\ UNCHANGED condVars

CondOver == Over /\ UNCHANGED condVars

Inside(p) ==
    \/ InMutex(p) \/ Observe(p) \/ Body(p) \/ CondWait(p) \/ CondPark(p) \/ CondWakeup(p)
    \/ Relock(p) \/ CondTrap(p) \/ Produce(p) \/ Signal(p) \/ CondWake(p)

CondNext ==
    \/ \E p \in Procs : StartWaitWith(p) \/ StartProduce(p) \/ Inside(p) \/ CondExit(p)
    \/ CondDetect
    \/ CondOver

CondInit ==
    /\ Init
    /\ seq = 0
    /\ items = 0
    /\ stage = [p \in Procs |-> "out"]
    /\ observed = [p \in Procs |-> 0]
    /\ ended = [p \in Procs |-> FALSE]

CondSpec == CondInit /\ [][CondNext]_allVars

-----------------------------------------------------------------------------
(* Properties.                                                               *)

(* The calls that will look at the predicate again, or that will signal.     *)
Awake == {p \in Procs : /\ stage[p] \in {"check", "predicate", "wait", "relock", "asleep"}
                        /\ ~(stage[p] = "asleep" /\ InBucket(p))
                        /\ ~ended[p]}
Signalling == {p \in Procs : stage[p] \in {"signal", "wakeup"}}

(* No signal is lost: while a consumer sleeps, every item has a consumer     *)
(* that is awake in wait_with, or a producer that has not signalled yet.     *)
(* This is what the sequence number, loaded under the lock and compared with *)
(* the bucket locked, is for; it also holds after the detector ended a wait  *)
(* that a signal took at the same time.                                      *)
NoLostSignal ==
    (\E i \in DOMAIN bucket : bucket[i][2] = Sequence /\ ~doomed[bucket[i][1]]) =>
        items <= Cardinality(Awake) + Cardinality(Signalling)

(* The locked value is only touched by the holder of the lock, which a       *)
(* waiter holds again whenever it looks at the predicate (cond_wait returns  *)
(* with the mutex taken, also after a deadlock).                             *)
PredicateUnderLock ==
    \A p \in Procs : stage[p] = "predicate" =>
        /\ Holds(p, Cell)
        /\ \A q \in Procs \ {p} : stage[q] # "predicate"
=============================================================================
