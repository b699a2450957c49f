------------------------------- MODULE Mutex -------------------------------
(* Mutex.with_lock of a program that uses the tzroutine runtime: the         *)
(* three-state lock word, the list of the locks that a process holds, and    *)
(* the release of that list when a trap leaves critical sections behind      *)
(* (tsuzuri_tz_mutex32_lock, tsuzuri_tz_mutex32_unlock,                      *)
(* tsuzuri_tz_held_restore in runtime/tzroutine.c).                          *)
EXTENDS ParkingLot

CONSTANT MaxOps   \* bound: the lock calls that each process makes

ASSUME MutexAssumption == MaxOps \in [Procs -> Nat] /\ Addrs # {}

VARIABLES
    word,    \* 0 free, 1 held, 2 held with waiters
    pc,      \* where p is in lock or unlock
    arg,     \* the mutex that p's call is about
    held,    \* g->held: the mutexes that p holds, in the order taken
    result,  \* what p's last lock call returned
    nops

mutexVars == <<word, pc, arg, held, result, nops>>
vars == <<lotVars, mutexVars>>

Holds(p, a) == \E i \in DOMAIN held[p] : held[p][i] = a

Goto(p, l) == pc' = [pc EXCEPT ![p] = l]
SetWord(a, v) == word' = [word EXCEPT ![a] = v]
Runs(p) == ~trapped /\ status[p] = "running"

-----------------------------------------------------------------------------
(* tsuzuri_tz_mutex32_lock.                                                  *)

(* Variant with a bug: a lock that the caller holds is not noticed.          *)
EnterBlindly(p, a) ==
    /\ Runs(p) /\ pc[p] = "idle"
    /\ Goto(p, "try") /\ arg' = [arg EXCEPT ![p] = a]
    /\ UNCHANGED <<lotVars, word, held, result>>

(* Its entry: a mutex that the caller holds already is reported.             *)
Enter(p, a) ==
    /\ Runs(p) /\ pc[p] = "idle"
    /\ IF Holds(p, a)
       THEN result' = [result EXCEPT ![p] = "held"] /\ UNCHANGED <<pc, arg>>
       ELSE Goto(p, "try") /\ arg' = [arg EXCEPT ![p] = a] /\ UNCHANGED result
    /\ UNCHANGED <<lotVars, word, held>>

Lock(p, a) ==
    /\ nops[p] < MaxOps[p]
    /\ nops' = [nops EXCEPT ![p] = @ + 1]
    /\ Enter(p, a)

(* The lock is p's: tzr_held_push.                                           *)
Acquired(p) ==
    /\ held' = [held EXCEPT ![p] = Append(@, arg[p])]
    /\ result' = [result EXCEPT ![p] = "ok"]
    /\ Goto(p, "idle")

(* Variant with a bug: the fast path does not look at the word.              *)
TryBlindly(p) ==
    /\ Runs(p) /\ pc[p] \in {"try", "spin"}
    /\ SetWord(arg[p], 1) /\ Acquired(p)
    /\ UNCHANGED <<lotVars, arg, nops>>

(* The first compare-and-swap, from free to held, and those of the spin.     *)
Try(p) ==
    /\ Runs(p) /\ pc[p] \in {"try", "spin"}
    /\ IF word[arg[p]] = 0
       THEN SetWord(arg[p], 1) /\ Acquired(p)
       ELSE Goto(p, "spin") /\ UNCHANGED <<word, held, result>>
    /\ UNCHANGED <<lotVars, arg, nops>>

(* The spin found no free lock.                                              *)
EndSpin(p) ==
    /\ Runs(p) /\ pc[p] = "spin"
    /\ Goto(p, "swap")
    /\ UNCHANGED <<lotVars, word, arg, held, result, nops>>

(* Variant with a bug: a fetch-and-add of 2 for the exchange.                *)
SwapAdds(p) ==
    /\ Runs(p) /\ pc[p] = "swap"
    /\ SetWord(arg[p], word[arg[p]] + 2)
    /\ IF word[arg[p]] = 0
       THEN Acquired(p)
       ELSE Goto(p, "wait") /\ UNCHANGED <<held, result>>
    /\ UNCHANGED <<lotVars, arg, nops>>

(* Variant with a bug: a lock taken after a wait is not marked as waited     *)
(* for.                                                                      *)
SwapUnmarked(p) ==
    /\ Runs(p) /\ pc[p] = "swap"
    /\ SetWord(arg[p], IF word[arg[p]] = 0 THEN 1 ELSE 2)
    /\ IF word[arg[p]] = 0
       THEN Acquired(p)
       ELSE Goto(p, "wait") /\ UNCHANGED <<held, result>>
    /\ UNCHANGED <<lotVars, arg, nops>>

(* The exchange with 2: it takes a free lock, and marks a held one.          *)
Swap(p) ==
    /\ Runs(p) /\ pc[p] = "swap"
    /\ SetWord(arg[p], 2)
    /\ IF word[arg[p]] = 0
       THEN Acquired(p)
       ELSE Goto(p, "wait") /\ UNCHANGED <<held, result>>
    /\ UNCHANGED <<lotVars, arg, nops>>

(* tzr_addr_wait: p parks while the word is 2.                               *)
Wait(p) ==
    /\ Runs(p) /\ pc[p] = "wait"
    /\ IF word[arg[p]] = 2
       THEN Park(p, arg[p]) /\ Goto(p, "parked")
       ELSE Goto(p, "swap") /\ UNCHANGED lotVars
    /\ UNCHANGED <<word, arg, held, result, nops>>

(* Variant with a bug: the outcome of the wait is not looked at.             *)
WakeupRetries(p) ==
    /\ Runs(p) /\ pc[p] = "parked"
    /\ Unpark(p)
    /\ Goto(p, "swap")
    /\ UNCHANGED <<word, arg, held, result, nops>>

(* Variant with a bug: whoever the detector woke leaves its record linked.   *)
WakeupLinked(p) ==
    /\ Runs(p) /\ pc[p] = "parked"
    /\ doomed' = [doomed EXCEPT ![p] = FALSE]
    /\ IF Cancelled(p)
       THEN Goto(p, "idle") /\ result' = [result EXCEPT ![p] = "deadlock"]
       ELSE Goto(p, "swap") /\ UNCHANGED result
    /\ UNCHANGED <<bucket, status, trapped, word, arg, held, nops>>

(* The wait ends: a deadlock, or another look at the lock.                   *)
Wakeup(p) ==
    /\ Runs(p) /\ pc[p] = "parked"
    /\ Unpark(p)
    /\ IF Cancelled(p)
       THEN Goto(p, "idle") /\ result' = [result EXCEPT ![p] = "deadlock"]
       ELSE Goto(p, "swap") /\ UNCHANGED result
    /\ UNCHANGED <<word, arg, held, nops>>

-----------------------------------------------------------------------------
(* tsuzuri_tz_mutex32_unlock of the mutex that p took last (critical         *)
(* sections nest): tzr_held_pop and the exchange, then the wake.  `next` is  *)
(* where p goes when there is nobody to wake.                                *)
Release(p, wake, next) ==
    LET n == Len(held[p])
        a == held[p][n]
    IN  /\ n > 0
        /\ held' = [held EXCEPT ![p] = SubSeq(@, 1, n - 1)]
        /\ SetWord(a, 0)
        /\ arg' = [arg EXCEPT ![p] = a]
        /\ Goto(p, IF word[a] = 2 THEN wake ELSE next)
        /\ UNCHANGED <<lotVars, result, nops>>

Unlock(p) ==
    /\ Runs(p) /\ pc[p] = "idle"
    /\ Release(p, "wake", "idle")

Wake(p) ==
    /\ Runs(p) /\ pc[p] \in {"wake", "rewake"}
    /\ WakeOne(arg[p])
    /\ Goto(p, IF pc[p] = "wake" THEN "idle" ELSE "restore")
    /\ UNCHANGED <<word, arg, held, result, nops>>

(* A trap that a failure domain or a trap boundary caught, with locks left   *)
(* held: tsuzuri_tz_held_restore(0) releases them, the last one first.       *)
Trap(p) ==
    /\ Runs(p) /\ pc[p] = "idle" /\ held[p] # <<>>
    /\ Goto(p, "restore")
    /\ UNCHANGED <<lotVars, word, arg, held, result, nops>>

Restore(p) ==
    /\ Runs(p) /\ pc[p] = "restore"
    /\ \/ Release(p, "rewake", "restore")
       \/ /\ held[p] = <<>>
          /\ Goto(p, "idle")
          /\ UNCHANGED <<lotVars, word, arg, held, result, nops>>

(* A process ends outside of every critical section.                         *)
Exit(p) ==
    /\ Runs(p) /\ pc[p] = "idle" /\ held[p] = <<>>
    /\ Goto(p, "exited")
    /\ Die(p)
    /\ UNCHANGED <<word, arg, held, result, nops>>

Detect == CheckDead /\ UNCHANGED mutexVars

Over == (trapped \/ \A p \in Procs : pc[p] = "exited") /\ UNCHANGED vars

Step(p) ==
    \/ \E a \in Addrs : Lock(p, a)
    \/ Try(p) \/ EndSpin(p) \/ Swap(p) \/ Wait(p) \/ Wakeup(p)
    \/ Unlock(p) \/ Wake(p) \/ Trap(p) \/ Restore(p) \/ Exit(p)

Next == (\E p \in Procs : Step(p)) \/ Detect \/ Over

Init ==
    /\ LotInit
    /\ word = [a \in Addrs |-> 0]
    /\ pc = [p \in Procs |-> "idle"]
    /\ arg = [p \in Procs |-> CHOOSE a \in Addrs : TRUE]
    /\ held = [p \in Procs |-> <<>>]
    /\ result = [p \in Procs |-> "none"]
    /\ nops = [p \in Procs |-> 0]

(* A process inside lock, unlock or a restore goes on, and a critical        *)
(* section ends (its process unlocks, or traps and is unwound).              *)
Progress(p) ==
    Try(p) \/ EndSpin(p) \/ Swap(p) \/ Wait(p) \/ Wakeup(p) \/ Unlock(p) \/ Wake(p) \/ Trap(p) \/ Restore(p)

Fairness == (\A p \in Procs : WF_vars(Progress(p))) /\ WF_vars(Detect)

Spec == Init /\ [][Next]_vars
FairSpec == Spec /\ Fairness

-----------------------------------------------------------------------------
(* Properties.                                                               *)

(* The lock words, the held lists and the call states keep their types.      *)
TypeOK ==
    /\ LotTypeOK
    /\ word \in [Addrs -> 0..2]
    /\ pc \in [Procs -> {"idle", "try", "spin", "swap", "wait", "parked", "wake", "rewake", "restore", "exited"}]
    /\ arg \in [Procs -> Addrs]
    /\ held \in [Procs -> Seq(Addrs)]
    /\ result \in [Procs -> {"none", "ok", "held", "deadlock"}]
    /\ nops \in [Procs -> Nat]

(* Two processes never hold one mutex, and a lock word is free exactly when  *)
(* nobody holds it: the exchanges of lock, unlock and of the release after a *)
(* trap agree with the held lists (mutex32_lock, mutex32_unlock,             *)
(* held_restore).                                                            *)
MutualExclusion ==
    \A a \in Addrs :
        /\ \A p, q \in Procs : Holds(p, a) /\ Holds(q, a) => p = q
        /\ word[a] = 0 <=> \A p \in Procs : ~Holds(p, a)

(* Nobody waits for themselves: a process inside of a lock call does not     *)
(* hold that mutex (tzr_held_has; what is held twice would never be free).   *)
Locking == {"try", "spin", "swap", "wait", "parked"}
NoSelfWait == \A p \in Procs : pc[p] \in Locking => ~Holds(p, arg[p])

(* A mutex has one holder, and nobody waits for one they hold, whatever the  *)
(* interleaving of lock, unlock and the release after a trap.                *)
LocksAreExclusive == MutualExclusion /\ NoSelfWait

(* A waiter is on the stack of the call that waits: whoever is linked in the *)
(* bucket is still inside of that call, once, and is asleep unless the       *)
(* detector woke it (addr_wait unlinks itself before it returns).            *)
NoDanglingWaiter ==
    /\ \A i \in DOMAIN bucket :
           LET p == bucket[i][1]
           IN  pc[p] = "parked" /\ arg[p] = bucket[i][2] /\ (status[p] = "running" => doomed[p])
    /\ \A i, j \in DOMAIN bucket : bucket[i][1] = bucket[j][1] => i = j

(* Somebody awake that will mark the lock again before it parks.             *)
Contender(p, a) ==
    /\ arg[p] = a
    /\ \/ pc[p] \in {"swap", "wait"}
       \/ pc[p] = "parked" /\ ~InBucket(p)

(* While somebody sleeps on a mutex, its release will wake one: the word     *)
(* says so, or a release is about to wake, or a woken contender will set the *)
(* word back (the third state of the lock, the wake after the exchange).     *)
NoLostWakeup ==
    \A a \in Addrs :
        (\E i \in DOMAIN bucket : bucket[i][2] = a) =>
            \/ word[a] = 2
            \/ \E p \in Procs : pc[p] \in {"wake", "rewake"} /\ arg[p] = a
            \/ \E p \in Procs : Contender(p, a)

(* Whoever sleeps on a mutex is found by a release: the bucket links only    *)
(* those inside of their wait, and a wake for them is on its way or comes    *)
(* with the release (addr_wait, addr_wake, mutex32_lock, mutex32_unlock).    *)
SleepersAreWoken == NoDanglingWaiter /\ NoLostWakeup

(* The processes of S wait for each other's mutexes, and somebody else still *)
(* runs: the detector, which waits until nothing runs, leaves them alone.    *)
Cycle(S) ==
    /\ \A q \in S : pc[q] = "parked" /\ \E r \in S : Holds(r, arg[q])
    /\ \E r \in Procs \ S : status[r] = "running"

Waits(p) == pc[p] \in {"wait", "parked", "swap"} /\ ~trapped /\ ~\E S \in SUBSET Procs : p \in S /\ Cycle(S)

(* A lock call returns, with the lock or with the deadlock status, as long   *)
(* as critical sections end: also after the detector broke a cycle of        *)
(* waiting processes and the trap's restore released what they held.         *)
LockReturns == \A p \in Procs : []<>~Waits(p)
=============================================================================
