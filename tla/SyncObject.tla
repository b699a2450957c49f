----------------------------- MODULE SyncObject -----------------------------
(* Once (and OnceValue), WaitGroup and Semaphore of the tzroutine runtime    *)
(* (tsuzuri_tz_once_*, tsuzuri_tz_waitgroup_* and tsuzuri_tz_sem_* in        *)
(* runtime/tzroutine.c): one word, which the calls change with an atomic     *)
(* operation and wait on with tzr_addr_wait.  The word is                    *)
(*   once       0 not run, 1 running, 2 done;                                *)
(*   group      the counter, an unsigned word of which the lower half are    *)
(*              legal counts; a delta is a signed word;                      *)
(*   semaphore  the free weight; the generated code checks a weight against  *)
(*              the capacity first.                                          *)
EXTENDS ParkingLot

CONSTANTS
    Cell,      \* the address of the word
    Half,      \* 2^63: half of the values of a word
    Deltas,    \* what the program adds to a WaitGroup
    Capacity,  \* the capacity of the Semaphore
    MaxCalls   \* bound: the calls that a process makes, for each kind of object

Kinds == {"once", "group", "semaphore"}
Modulus == 2 * Half
Weights == 1..Capacity

(* What the constants are.                                                   *)
SyncObjectAssumption ==
    /\ Addrs = {Cell}
    /\ Half \in Nat /\ Half > 1
    /\ Deltas \subseteq -Half..Half - 1
    /\ Capacity \in 1..Modulus - 1
    /\ MaxCalls \in [Kinds -> [Procs -> Nat]]

VARIABLES
    kind,     \* the object that the program uses
    word,
    pc,       \* where p is in a call, or in the function of a Once
    seen,     \* the word that p's call loaded
    weight,   \* the weight of p's call
    block,    \* acquire waits, try_acquire does not
    result,   \* what p's last call of once_begin returned
    inside,   \* the processes inside of the Once's function
    tally,    \* history: the starts of the function, the sum of what was added
              \* without wrapping, or the weight taken and not given back
    faulted,  \* history: an add was told that the counter left its range
    ncalls

objectVars == <<kind, word, pc, seen, weight, block, result, inside, tally, faulted, ncalls>>
vars == <<lotVars, objectVars>>

Goto(p, l) == pc' = [pc EXCEPT ![p] = l]
Runs(p) == ~trapped /\ status[p] = "running"
At(p, k, l) == kind = k /\ Runs(p) /\ pc[p] = l

(* p starts a call on an object of kind k.                                   *)
Starts(p, k, from) ==
    /\ kind = k /\ Runs(p) /\ pc[p] \in from
    /\ ncalls[p] < MaxCalls[k][p]
    /\ ncalls' = [ncalls EXCEPT ![p] = @ + 1]

-----------------------------------------------------------------------------
(* tsuzuri_tz_once_begin, called from outside or from inside of the          *)
(* function.                                                                 *)
OnceBegin(p) ==
    /\ Starts(p, "once", {"idle", "function"})
    /\ Goto(p, "load")
    /\ UNCHANGED <<lotVars, kind, word, seen, weight, block, result, inside, tally, faulted>>

OnceLoad(p) ==
    /\ At(p, "once", "load")
    /\ seen' = [seen EXCEPT ![p] = word]
    /\ \/ word = 2 /\ Goto(p, "idle") /\ result' = [result EXCEPT ![p] = "done"]
       \/ word = 0 /\ Goto(p, "take") /\ UNCHANGED result
       \/ word = 1 /\ Goto(p, "wait") /\ UNCHANGED result
    /\ UNCHANGED <<lotVars, kind, word, weight, block, inside, tally, faulted, ncalls>>

(* Variant with a bug: two callers may claim.                                *)
OnceClaimStale(p) ==
    /\ At(p, "once", "take")
    /\ word' = 1 /\ inside' = inside \cup {p} /\ tally' = tally + 1
    /\ result' = [result EXCEPT ![p] = "run"]
    /\ Goto(p, "function")
    /\ UNCHANGED <<lotVars, kind, seen, weight, block, faulted, ncalls>>

OnceClaim(p) ==
    /\ At(p, "once", "take")
    /\ IF word = 0
       THEN /\ word' = 1 /\ inside' = inside \cup {p} /\ tally' = tally + 1
            /\ result' = [result EXCEPT ![p] = "run"]
            /\ Goto(p, "function")
       ELSE Goto(p, "load") /\ UNCHANGED <<word, inside, tally, result>>
    /\ UNCHANGED <<lotVars, kind, seen, weight, block, faulted, ncalls>>

(* Variant with a bug: the word is counted up twice from running.            *)
(* tsuzuri_tz_once_end: the store, then the wake of every waiter.            *)
OnceEnd(p) ==
    /\ At(p, "once", "function")
    /\ word' = 2
    /\ inside' = inside \ {p}
    /\ Goto(p, "wake")
    /\ UNCHANGED <<lotVars, kind, seen, weight, block, result, tally, faulted, ncalls>>

-----------------------------------------------------------------------------
(* tsuzuri_tz_waitgroup_add: the value after the fetch-and-add, and whether  *)
(* it is outside of [0, INT64_MAX] (the generated code traps).               *)
Added(d) == (word + d) % Modulus

(* Variant with a bug: the first count past the range is let through.        *)
NegativeLate(v) == v > Half

Negative(v) == v > Half - 1

GroupAdd(p) ==
    /\ Starts(p, "group", {"idle"})
    /\ \E d \in Deltas :
          /\ word' = Added(d)
          /\ tally' = tally + d
          /\ faulted' = (faulted \/ Negative(Added(d)))
          /\ Goto(p, IF Added(d) = 0 THEN "wake" ELSE "idle")
    /\ UNCHANGED <<lotVars, kind, seen, weight, block, result, inside>>

(* tsuzuri_tz_waitgroup_wait.                                                *)
GroupWait(p) ==
    /\ Starts(p, "group", {"idle"})
    /\ Goto(p, "load")
    /\ UNCHANGED <<lotVars, kind, word, seen, weight, block, result, inside, tally, faulted>>

GroupLoad(p) ==
    /\ At(p, "group", "load")
    /\ seen' = [seen EXCEPT ![p] = word]
    /\ Goto(p, IF word = 0 THEN "idle" ELSE "wait")
    /\ UNCHANGED <<lotVars, kind, word, weight, block, result, inside, tally, faulted, ncalls>>

-----------------------------------------------------------------------------
(* tsuzuri_tz_sem_acquire (block: acquire, otherwise try_acquire) and        *)
(* tsuzuri_tz_sem_release.                                                   *)
SemCall(p, l, b) ==
    /\ Starts(p, "semaphore", {"idle"})
    /\ \E w \in Weights : weight' = [weight EXCEPT ![p] = w]
    /\ block' = [block EXCEPT ![p] = b]
    /\ Goto(p, l)
    /\ UNCHANGED <<lotVars, kind, word, seen, result, inside, tally, faulted>>

SemAcquire(p) == \E b \in BOOLEAN : SemCall(p, "load", b)
SemRelease(p) == SemCall(p, "rload", FALSE)

SemLoad(p) ==
    /\ At(p, "semaphore", "load")
    /\ seen' = [seen EXCEPT ![p] = word]
    /\ Goto(p, IF word >= weight[p] THEN "take" ELSE IF block[p] THEN "wait" ELSE "idle")
    /\ UNCHANGED <<lotVars, kind, word, weight, block, result, inside, tally, faulted, ncalls>>

(* Variant with a bug: the free weight may have changed since the load.      *)
SemTakeStale(p) ==
    /\ At(p, "semaphore", "take")
    /\ word' = seen[p] - weight[p] /\ tally' = tally + weight[p] /\ Goto(p, "idle")
    /\ UNCHANGED <<lotVars, kind, seen, weight, block, result, inside, faulted, ncalls>>

SemTake(p) ==
    /\ At(p, "semaphore", "take")
    /\ IF word = seen[p]
       THEN word' = word - weight[p] /\ tally' = tally + weight[p] /\ Goto(p, "idle")
       ELSE Goto(p, "load") /\ UNCHANGED <<word, tally>>
    /\ UNCHANGED <<lotVars, kind, seen, weight, block, result, inside, faulted, ncalls>>

(* The load of a release; a failed compare-and-swap loads again.             *)
SemReleaseLoad(p) ==
    /\ At(p, "semaphore", "rload")
    /\ seen' = [seen EXCEPT ![p] = word]
    /\ Goto(p, IF weight[p] > Capacity - word THEN "idle" ELSE "give")
    /\ UNCHANGED <<lotVars, kind, word, weight, block, result, inside, tally, faulted, ncalls>>

(* Variant with a bug: a release wakes only when nothing was free.           *)
SemGiveFromZero(p) ==
    /\ At(p, "semaphore", "give")
    /\ IF word = seen[p]
       THEN /\ word' = word + weight[p] /\ tally' = tally - weight[p]
            /\ Goto(p, IF word = 0 THEN "wake" ELSE "idle")
       ELSE Goto(p, "rload") /\ UNCHANGED <<word, tally>>
    /\ UNCHANGED <<lotVars, kind, seen, weight, block, result, inside, faulted, ncalls>>

SemGive(p) ==
    /\ At(p, "semaphore", "give")
    /\ IF word = seen[p]
       THEN word' = word + weight[p] /\ tally' = tally - weight[p] /\ Goto(p, "wake")
       ELSE Goto(p, "rload") /\ UNCHANGED <<word, tally>>
    /\ UNCHANGED <<lotVars, kind, seen, weight, block, result, inside, faulted, ncalls>>

-----------------------------------------------------------------------------
(* tzr_addr_wait: p parks while the word is what it loaded.                  *)
Wait(p) ==
    /\ Runs(p) /\ pc[p] = "wait"
    /\ IF word = seen[p]
       THEN Park(p, Cell) /\ Goto(p, "parked")
       ELSE Goto(p, "load") /\ UNCHANGED lotVars
    /\ UNCHANGED <<kind, word, seen, weight, block, result, inside, tally, faulted, ncalls>>

(* The wait ends.  A deadlock leaves the call, and the function too when it  *)
(* was the function that called its own Once.                                *)
Wakeup(p) ==
    /\ Runs(p) /\ pc[p] = "parked"
    /\ Unpark(p)
    /\ IF Cancelled(p)
       THEN Goto(p, "idle") /\ inside' = inside \ {p}
       ELSE Goto(p, "load") /\ UNCHANGED inside
    /\ UNCHANGED <<kind, word, seen, weight, block, result, tally, faulted, ncalls>>

(* Variant with a bug: one waiter is woken, not all.                         *)
WakeFirst(p) ==
    /\ Runs(p) /\ pc[p] = "wake"
    /\ WakeOne(Cell)
    /\ Goto(p, "idle")
    /\ UNCHANGED <<kind, word, seen, weight, block, result, inside, tally, faulted, ncalls>>

(* tzr_addr_wake(word, -1), at the end of once_end, of an add that reached   *)
(* zero and of a release.                                                    *)
Wake(p) ==
    /\ Runs(p) /\ pc[p] = "wake"
    /\ WakeAll(Cell)
    /\ Goto(p, "idle")
    /\ UNCHANGED <<kind, word, seen, weight, block, result, inside, tally, faulted, ncalls>>

Exit(p) ==
    /\ Runs(p) /\ pc[p] = "idle"
    /\ Goto(p, "exited")
    /\ Die(p)
    /\ UNCHANGED <<kind, word, seen, weight, block, result, inside, tally, faulted, ncalls>>

Detect == CheckDead /\ UNCHANGED objectVars

Over == (trapped \/ \A p \in Procs : pc[p] = "exited") /\ UNCHANGED vars

Call(p) == OnceBegin(p) \/ GroupAdd(p) \/ GroupWait(p) \/ SemAcquire(p) \/ SemRelease(p)

Progress(p) ==
    \/ OnceLoad(p) \/ OnceClaim(p) \/ OnceEnd(p)
    \/ GroupLoad(p)
    \/ SemLoad(p) \/ SemTake(p) \/ SemReleaseLoad(p) \/ SemGive(p)
    \/ Wait(p) \/ Wakeup(p) \/ Wake(p)

Next == (\E p \in Procs : Call(p) \/ Progress(p) \/ Exit(p)) \/ Detect \/ Over

Init ==
    /\ LotInit
    /\ kind \in Kinds
    /\ word = IF kind = "semaphore" THEN Capacity ELSE 0
    /\ pc = [p \in Procs |-> "idle"]
    /\ seen = [p \in Procs |-> 0]
    /\ weight = [p \in Procs |-> 1]
    /\ block = [p \in Procs |-> FALSE]
    /\ result = [p \in Procs |-> "none"]
    /\ inside = {}
    /\ tally = 0
    /\ faulted = FALSE
    /\ ncalls = [p \in Procs |-> 0]

(* A process goes on inside of a call, and the function of a Once returns.   *)
Fairness == (\A p \in Procs : WF_vars(Progress(p))) /\ WF_vars(Detect)

Spec == Init /\ [][Next]_vars
FairSpec == Spec /\ Fairness

-----------------------------------------------------------------------------
(* Properties.                                                               *)

WordRange ==
    IF kind = "once" THEN 0..2 ELSE IF kind = "group" THEN 0..Modulus - 1 ELSE 0..Capacity

(* The word and the call states keep their types: a Once is in one of its    *)
(* three states, a counter stays a word, and the free weight never leaves    *)
(* 0..Capacity, whatever is released.                                        *)
TypeOK ==
    /\ LotTypeOK
    /\ kind \in Kinds
    /\ word \in WordRange
    /\ pc \in [Procs -> {"idle", "load", "take", "wait", "parked", "function", "rload", "give",
                         "wake", "exited"}]
    /\ seen \in [Procs -> 0..Modulus - 1]
    /\ weight \in [Procs -> Weights]
    /\ block \in [Procs -> BOOLEAN]
    /\ result \in [Procs -> {"none", "run", "done"}]
    /\ inside \subseteq Procs
    /\ tally \in Int
    /\ faulted \in BOOLEAN
    /\ ncalls \in [Procs -> Nat]

(* The function of a Once is started once, and a call reports that it is     *)
(* done only after it returned (the compare-and-swap of once_begin, the      *)
(* store of once_end).                                                       *)
RunsOnceBeforeDone ==
    kind = "once" =>
        /\ tally <= 1
        /\ \A p \in Procs : result[p] = "done" => word = 2 /\ inside = {}

(* As long as no add was told of an error, the counter of a WaitGroup is the *)
(* true sum, and a legal one: the unsigned arithmetic of waitgroup_add       *)
(* reports every add, of any signed word, that leaves the range.             *)
CounterIsTrue ==
    kind = "group" /\ ~faulted => word = tally /\ tally \in 0..Half - 1

(* No weight of a Semaphore is lost or made up by racing calls: what is free *)
(* and what the calls took and did not give back is the capacity             *)
(* (sem_acquire, sem_release).                                               *)
WeightIsConserved == kind = "semaphore" => word + tally = Capacity

(* What p waits for is there.                                                *)
Served(p) ==
    \/ kind = "once" /\ word # 1
    \/ kind = "group" /\ word = 0
    \/ kind = "semaphore" /\ word >= weight[p]

(* Nobody sleeps on an object that would serve them unless a wake of all is  *)
(* coming: the calls change the word before they wake, and a wait compares   *)
(* the word again with the bucket locked.                                    *)
ServedAreWoken ==
    \A p \in Procs : InBucket(p) /\ Served(p) => \E q \in Procs : pc[q] = "wake"

(* The function never returns: a deadlock trapped it, or it waits for itself.*)
Abandoned == kind = "once" /\ word = 1 /\ \A p \in inside : pc[p] = "parked"

WaitsServed(p) == pc[p] = "parked" /\ (kind = "once" \/ Served(p)) /\ ~trapped /\ ~Abandoned

(* Every wait for a Once ends when the function returns, whatever the        *)
(* callers do meanwhile (only a function that calls its own Once leaves      *)
(* waiters behind), and a waiter of a group or of a semaphore does not sleep  *)
(* on while it would be served (of those that only would have been for a     *)
(* moment, ServedAreWoken says that a wake is coming).                       *)
WaitReturns == \A p \in Procs : []<>~WaitsServed(p)
=============================================================================
