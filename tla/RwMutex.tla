------------------------------ MODULE RwMutex ------------------------------
(* RwMutex of the tzroutine runtime (tsuzuri_tz_rw_* in                      *)
(* runtime/tzroutine.c): one word counts the readers, the writers that wait  *)
(* and says whether a writer holds it.  Every load, compare-and-swap and     *)
(* fetch of the word is a step of its own.  Processes lock and unlock        *)
(* forever: nothing needs a bound.                                           *)
EXTENDS ParkingLot

CONSTANTS
    Readers,   \* the processes that take the lock to read
    Writers,   \* ... and to write
    Blockers,  \* ... and that may wait for something else, with the lock or without
    Cell       \* the address of the word

(* What the constants are.                                                   *)
RwMutexAssumption ==
    Addrs = {Cell} /\ Readers \cup Writers \cup Blockers \subseteq Procs /\ IsFiniteSet(Procs)

VARIABLES
    word,      \* [readers, waiters, writer]
    pc,        \* where p is in a lock or unlock call
    seen,      \* s: the word that p loaded last
    counted,   \* the writer p counts in word.waiters
    mode,      \* how p holds the lock (its entry of g->held)
    gaveUp     \* the processes whose last lock call ended with a deadlock

rwVars == <<word, pc, seen, counted, mode, gaveUp>>
vars == <<lotVars, rwVars>>

Words == [readers : Nat, waiters : Nat, writer : BOOLEAN]
Free == [readers |-> 0, waiters |-> 0, writer |-> FALSE]

Goto(p, l) == pc' = [pc EXCEPT ![p] = l]
Runs(p) == ~trapped /\ status[p] = "running"
Returns(p) == Goto(p, "idle") /\ gaveUp' = gaveUp \ {p}
GivesUp(p) == Goto(p, "idle") /\ gaveUp' = gaveUp \cup {p}

(* Variant with a bug: readers pass the writers that wait.                   *)
ReaderPasses(w) == ~w.writer

ReaderMayEnter(w) == ~w.writer /\ w.waiters = 0

WriterMayEnter(w) == ~w.writer /\ w.readers = 0

-----------------------------------------------------------------------------
(* tsuzuri_tz_rw_read_lock and tsuzuri_tz_rw_write_lock: their entry.        *)
Enter(p, l) ==
    /\ Runs(p) /\ pc[p] = "idle"
    /\ IF mode[p] = "none" THEN Goto(p, l) /\ UNCHANGED gaveUp ELSE Returns(p)
    /\ UNCHANGED <<lotVars, word, seen, counted, mode>>

ReadLock(p) == p \in Readers /\ Enter(p, "rload")
WriteLock(p) == p \in Writers /\ Enter(p, "wload")

ReadLoad(p) ==
    /\ Runs(p) /\ pc[p] = "rload"
    /\ seen' = [seen EXCEPT ![p] = word]
    /\ Goto(p, IF ReaderMayEnter(word) THEN "rtake" ELSE "rwait")
    /\ UNCHANGED <<lotVars, word, counted, mode, gaveUp>>

ReadTake(p) ==
    /\ Runs(p) /\ pc[p] = "rtake"
    /\ IF word = seen[p]
       THEN /\ word' = [word EXCEPT !.readers = @ + 1]
            /\ mode' = [mode EXCEPT ![p] = "read"]
            /\ Returns(p)
       ELSE Goto(p, "rload") /\ UNCHANGED <<word, mode, gaveUp>>
    /\ UNCHANGED <<lotVars, seen, counted>>

WriteLoad(p) ==
    /\ Runs(p) /\ pc[p] = "wload"
    /\ seen' = [seen EXCEPT ![p] = word]
    /\ Goto(p, IF WriterMayEnter(word) THEN "wtake" ELSE IF counted[p] THEN "wwait" ELSE "wcount")
    /\ UNCHANGED <<lotVars, word, counted, mode, gaveUp>>

(* Variant with a bug: a writer that never counted itself is taken off.      *)
WriteTake(p) ==
    /\ Runs(p) /\ pc[p] = "wtake"
    /\ IF word = seen[p]
       THEN /\ word' = [word EXCEPT !.writer = TRUE, !.waiters = IF counted[p] THEN @ - 1 ELSE @]
            /\ counted' = [counted EXCEPT ![p] = FALSE]
            /\ mode' = [mode EXCEPT ![p] = "write"]
            /\ Returns(p)
       ELSE Goto(p, "wload") /\ UNCHANGED <<word, counted, mode, gaveUp>>
    /\ UNCHANGED <<lotVars, seen>>

WriteCount(p) ==
    /\ Runs(p) /\ pc[p] = "wcount"
    /\ IF word = seen[p]
       THEN /\ word' = [word EXCEPT !.waiters = @ + 1]
            /\ seen' = [seen EXCEPT ![p] = word']
            /\ counted' = [counted EXCEPT ![p] = TRUE]
            /\ Goto(p, "wwait")
       ELSE Goto(p, "wload") /\ UNCHANGED <<word, seen, counted>>
    /\ UNCHANGED <<lotVars, mode, gaveUp>>

(* tzr_addr_wait on the word that was seen.                                  *)
Wait(p) ==
    /\ Runs(p) /\ pc[p] \in {"rwait", "wwait"}
    /\ IF word = seen[p]
       THEN Park(p, Cell) /\ Goto(p, IF pc[p] = "rwait" THEN "rparked" ELSE "wparked")
       ELSE Goto(p, IF pc[p] = "rwait" THEN "rload" ELSE "wload") /\ UNCHANGED lotVars
    /\ UNCHANGED <<word, seen, counted, mode, gaveUp>>

(* The wait ends; a deadlock leaves the call, a writer by way of WriteGiveUp.*)
ReadWakeup(p) ==
    /\ Runs(p) /\ pc[p] = "rparked"
    /\ Unpark(p)
    /\ IF Cancelled(p) THEN GivesUp(p) ELSE Goto(p, "rload") /\ UNCHANGED gaveUp
    /\ UNCHANGED <<word, seen, counted, mode>>

WriteWakeup(p) ==
    /\ Runs(p) /\ pc[p] = "wparked"
    /\ Unpark(p)
    /\ Goto(p, IF Cancelled(p) THEN "wgiveup" ELSE "wload")
    /\ UNCHANGED <<word, seen, counted, mode, gaveUp>>

(* Variant with a bug: the writer stays counted.                             *)
WriteGiveUpCounted(p) ==
    /\ Runs(p) /\ pc[p] = "wgiveup"
    /\ counted' = [counted EXCEPT ![p] = FALSE]
    /\ GivesUp(p)
    /\ UNCHANGED <<lotVars, word, seen, mode>>

(* The waiting writer takes itself off the count, and nothing more.          *)
WriteGiveUp(p) ==
    /\ Runs(p) /\ pc[p] = "wgiveup"
    /\ word' = [word EXCEPT !.waiters = @ - 1]
    /\ counted' = [counted EXCEPT ![p] = FALSE]
    /\ GivesUp(p)
    /\ UNCHANGED <<lotVars, seen, mode>>

-----------------------------------------------------------------------------
(* Variant with a bug: the last reader wakes nobody.                         *)
ReadUnlockSilent(p) ==
    /\ Runs(p) /\ pc[p] = "idle" /\ mode[p] = "read"
    /\ word' = [word EXCEPT !.readers = @ - 1]
    /\ mode' = [mode EXCEPT ![p] = "none"]
    /\ UNCHANGED <<lotVars, pc, seen, counted, gaveUp>>

(* tsuzuri_tz_rw_read_unlock and tsuzuri_tz_rw_write_unlock.                 *)
ReadUnlock(p) ==
    /\ Runs(p) /\ pc[p] = "idle" /\ mode[p] = "read"
    /\ word' = [word EXCEPT !.readers = @ - 1]
    /\ mode' = [mode EXCEPT ![p] = "none"]
    /\ Goto(p, IF word'.readers = 0 /\ word'.waiters > 0 THEN "wake" ELSE "idle")
    /\ UNCHANGED <<lotVars, seen, counted, gaveUp>>

WriteUnlock(p) ==
    /\ Runs(p) /\ pc[p] = "idle" /\ mode[p] = "write"
    /\ word' = [word EXCEPT !.writer = FALSE]
    /\ mode' = [mode EXCEPT ![p] = "none"]
    /\ Goto(p, "wake")
    /\ UNCHANGED <<lotVars, seen, counted, gaveUp>>

Wake(p) ==
    /\ Runs(p) /\ pc[p] = "wake"
    /\ WakeAll(Cell)
    /\ Goto(p, "idle")
    /\ UNCHANGED <<word, seen, counted, mode, gaveUp>>

(* p waits for something else, a channel say, until another process comes    *)
(* by or the detector wakes it.                                              *)
Block(p) ==
    /\ Runs(p) /\ pc[p] = "idle" /\ p \in Blockers
    /\ status' = [status EXCEPT ![p] = "waiting"]
    /\ Goto(p, "elsewhere")
    /\ UNCHANGED <<bucket, doomed, trapped, word, seen, counted, mode, gaveUp>>

Unblock(p) ==
    /\ Runs(p) /\ pc[p] = "idle"
    /\ \E q \in Procs : pc[q] = "elsewhere" /\ status[q] = "waiting" /\ status' = Readied({q})
    /\ UNCHANGED <<bucket, doomed, trapped, rwVars>>

Unblocked(p) ==
    /\ Runs(p) /\ pc[p] = "elsewhere"
    /\ doomed' = [doomed EXCEPT ![p] = FALSE]
    /\ Goto(p, "idle")
    /\ UNCHANGED <<bucket, status, trapped, word, seen, counted, mode, gaveUp>>

Exit(p) ==
    /\ Runs(p) /\ pc[p] = "idle" /\ mode[p] = "none"
    /\ Goto(p, "exited")
    /\ Die(p)
    /\ UNCHANGED <<word, seen, counted, mode, gaveUp>>

Detect == CheckDead /\ UNCHANGED rwVars

Over == (trapped \/ \A p \in Procs : pc[p] = "exited") /\ UNCHANGED vars

Call(p) == ReadLock(p) \/ WriteLock(p) \/ Block(p) \/ Unblock(p)

Progress(p) ==
    \/ ReadLoad(p) \/ ReadTake(p) \/ ReadWakeup(p) \/ ReadUnlock(p)
    \/ WriteLoad(p) \/ WriteTake(p) \/ WriteCount(p) \/ WriteWakeup(p) \/ WriteGiveUp(p) \/ WriteUnlock(p)
    \/ Wait(p) \/ Wake(p) \/ Unblocked(p)

Next == (\E p \in Procs : Call(p) \/ Progress(p) \/ Exit(p)) \/ Detect \/ Over

Init ==
    /\ LotInit
    /\ word = Free
    /\ pc = [p \in Procs |-> "idle"]
    /\ seen = [p \in Procs |-> Free]
    /\ counted = [p \in Procs |-> FALSE]
    /\ mode = [p \in Procs |-> "none"]
    /\ gaveUp = {}

(* A process goes on inside a call, and a critical section ends.             *)
Fairness == (\A p \in Procs : WF_vars(Progress(p))) /\ WF_vars(Detect)

Spec == Init /\ [][Next]_vars
FairSpec == Spec /\ Fairness

-----------------------------------------------------------------------------
(* Properties.                                                               *)

(* The fields of the word and the call states keep their types.              *)
TypeOK ==
    /\ LotTypeOK
    /\ word \in Words
    /\ pc \in [Procs -> {"idle", "rload", "rtake", "rwait", "rparked", "wload", "wtake", "wcount",
                         "wwait", "wparked", "wgiveup", "wake", "elsewhere", "exited"}]
    /\ seen \in [Procs -> Words]
    /\ counted \in [Procs -> BOOLEAN]
    /\ mode \in [Procs -> {"none", "read", "write"}]
    /\ gaveUp \subseteq Procs

InMode(m) == {p \in Procs : mode[p] = m}

(* A writer excludes everybody, and the word counts exactly the readers that *)
(* hold the lock, the writers that wait for it and the writer that holds it, *)
(* whatever races the compare-and-swaps lose (rw_read_lock to                *)
(* rw_write_unlock).                                                         *)
WordCountsHolders ==
    /\ word.readers = Cardinality(InMode("read"))
    /\ word.writer <=> InMode("write") # {}
    /\ word.waiters = Cardinality({p \in Procs : counted[p]})
    /\ Cardinality(InMode("write")) <= 1
    /\ InMode("write") # {} => InMode("read") = {}

(* The word would let in a process that sleeps on it.                        *)
Admitted(p) ==
    /\ InBucket(p) /\ status[p] = "waiting"
    /\ IF pc[p] = "rparked" THEN ReaderMayEnter(word) ELSE WriterMayEnter(word)

(* "Every change that can let a waiter in wakes them all": when the word     *)
(* would let in a process that sleeps on it, somebody is about to wake all   *)
(* the sleepers.                                                             *)
AdmittedWaitersAreWoken == (\E p \in Procs : Admitted(p)) => \E q \in Procs : pc[q] = "wake"

(* The releases do so: a sleeper that may enter and that nobody is about to  *)
(* wake was let in by a writer that gave its wait up (the last reader's and  *)
(* the writer's release wake after they changed the word, a wait compares    *)
(* the word again with the bucket locked).                                   *)
ReleasesWakeAdmitted ==
    gaveUp \cap Writers = {} => AdmittedWaitersAreWoken

KeptOut(p) ==
    /\ counted[p] /\ InMode("write") = {} /\ p \notin gaveUp /\ ~trapped
    /\ \A q \in Procs : pc[q] = "elsewhere" => mode[q] = "none"

(* Readers that come and go forever cannot keep the writers out: once one    *)
(* has counted itself a writer enters (new readers stay out while            *)
(* word.waiters > 0), unless a holder waits for something else.              *)
WaitingWriterEnters == \A p \in Procs : []<>~KeptOut(p)
=============================================================================
