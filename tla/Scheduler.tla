------------------------------ MODULE Scheduler ------------------------------
(* The M:N scheduler of runtime/tzroutine.c: Ms (threads) run Gs             *)
(* (tzroutines) while they hold a P (a run queue).  Idle Ps and Ms, spinning *)
(* Ms and the wake-ups of tzr_wakep, blocking calls whose P sysmon retakes,  *)
(* Gs locked to their M, and the deadlock detector.                          *)
(*                                                                           *)
(* A critical section of tzr_sched.lock is one step, and so is one access to *)
(* an atomic counter (npidle, nmspinning, npwait, runq_size) or to a run     *)
(* queue.  Time is left out: whatever waits for a deadline may happen.       *)
EXTENDS Integers, Sequences, FiniteSets

CONSTANTS
    Gs,         \* tzroutines
    Ms,         \* scheduler threads, those not started yet included
    Ps,
    Threads,    \* host threads (pseudo-Gs)
    Callers,    \* the Gs that make blocking calls
    Lockers,    \* the Gs that lock themselves to their M
    RingSize,   \* TZR_RUNQ
    MaxOps,     \* bound: the spawns, readies, parks, yields and calls of the program
    Sysmon,     \* the monitor thread
    None

ASSUME SchedulerAssumption ==
    /\ Ps # {} /\ IsFiniteSet(Ps)
    /\ RingSize \in Nat \ {0, 1}
    /\ MaxOps \in Nat
    /\ Callers \cup Lockers \subseteq Gs

Actors == Ms \cup Threads \cup {Sysmon}

VARIABLES
    gst,         \* g->status: new, runnable, running, waiting or dead
    locked,      \* the Gs that are locked to the M that runs them
    ring,        \* p->runq
    next,        \* p->runnext
    globq,       \* the global run queue
    pstat,       \* p->status
    runm,        \* p->runm: the M that runs a G on p
    pidle,       \* the idle Ps, the next one first
    midle,       \* the idle Ms, the next one first
    pwait,       \* the Ms that wait for a P, first come first
    nmspinning,
    nmlocked,
    m,           \* of each M: p, nextp, oldp, curg, spinning, and the Ps it still has to look at
    tst,         \* a host thread: running, waiting, or doomed (woken by the detector)
    pc, ret,     \* where an actor is, and where it goes on after wakep, startm or handoffp
    hand,        \* the P that an actor passes to startm or handoffp
    trapped,     \* the detector found a deadlock and no thread to tell
    falseAlarm,  \* history: the detector fired while something ran or could run
    nops

queueVars == <<ring, next, globq>>
idleVars == <<pidle, midle, pwait>>
countVars == <<nmspinning, nmlocked>>
worldVars == <<tst, trapped, falseAlarm, nops>>
vars == <<gst, locked, queueVars, pstat, runm, idleVars, countVars, m, pc, ret, hand, worldVars>>

NewM == [p |-> None, nextp |-> None, oldp |-> None, curg |-> None, spinning |-> FALSE, look |-> {}]

At(a, l) == ~trapped /\ pc[a] = l
Goto(a, l) == pc' = [pc EXCEPT ![a] = l]
Call(a, l, back) == /\ pc' = [pc EXCEPT ![a] = l]
                    /\ ret' = [ret EXCEPT ![a] = back]
Return(a) == /\ pc' = [pc EXCEPT ![a] = ret[a]]
             /\ ret' = [ret EXCEPT ![a] = "idle"]

Smaller(i, j) == IF i < j THEN i ELSE j

(* tzr_runq_empty.                                                           *)
Empty(p) == ring[p] = <<>> /\ next[p] = None

-----------------------------------------------------------------------------
(* Run queues, on their owner's side.                                        *)

(* Variant with a bug: the ring is taken to be full one too late.            *)
PutNextLate(p, g) ==
    LET old == next[p]
    IN  /\ next' = [next EXCEPT ![p] = g]
        /\ \/ old = None /\ UNCHANGED ring
           \/ /\ old # None /\ Len(ring[p]) <= RingSize
              /\ ring' = [ring EXCEPT ![p] = Append(@, old)]
        /\ UNCHANGED globq

(* tzr_runqput(p, g, 1): g is next; the one it displaces goes to the ring,   *)
(* or to the global queue with half of a full ring.                          *)
PutNext(p, g) ==
    LET old == next[p]
        half == RingSize \div 2
    IN  /\ next' = [next EXCEPT ![p] = g]
        /\ \/ old = None /\ UNCHANGED <<ring, globq>>
           \/ /\ old # None /\ Len(ring[p]) < RingSize
              /\ ring' = [ring EXCEPT ![p] = Append(@, old)]
              /\ UNCHANGED globq
           \/ /\ old # None /\ Len(ring[p]) = RingSize
              /\ ring' = [ring EXCEPT ![p] = SubSeq(@, half + 1, RingSize)]
              /\ globq' = globq \o SubSeq(ring[p], 1, half) \o <<old>>

(* tzr_globrunqget(p, max): how many it takes, the first to run and the      *)
(* others into the ring.                                                     *)
Share(max) == Smaller(Smaller(Len(globq) \div Cardinality(Ps) + 1, Len(globq)),
                      Smaller(max, RingSize \div 2))

TakeGlobal(x, max) ==
    LET n == Share(max)
        p == m[x].p
    IN  /\ m' = [m EXCEPT ![x].curg = Head(globq)]
        /\ ring' = [ring EXCEPT ![p] = @ \o SubSeq(globq, 2, n)]
        /\ globq' = SubSeq(globq, n + 1, Len(globq))
        /\ UNCHANGED next

-----------------------------------------------------------------------------
(* Starting Ms.                                                              *)

(* tzr_wakep: nothing when no P is idle or an M spins already.               *)
Wakep(a) ==
    /\ At(a, "wakep")
    /\ IF pidle = <<>> THEN Return(a) ELSE Goto(a, "claim") /\ UNCHANGED ret
    /\ UNCHANGED <<gst, locked, queueVars, pstat, runm, idleVars, countVars, m, hand, worldVars>>

Claim(a) ==
    /\ At(a, "claim")
    /\ IF nmspinning # 0
       THEN Return(a) /\ UNCHANGED <<nmspinning, hand>>
       ELSE /\ nmspinning' = 1
            /\ hand' = [hand EXCEPT ![a] = None]
            /\ Goto(a, "startm") /\ UNCHANGED ret
    /\ UNCHANGED <<gst, locked, queueVars, pstat, runm, idleVars, nmlocked, m, worldVars>>

(* tzr_startm(p, spinning): an idle M, or else a new one, gets p, or for     *)
(* tzr_wakep an idle P, if there still is one.                               *)
Unborn == {x \in Ms : pc[x] = "unborn"}

Launch(a, p, spinning) ==
    \E x \in IF midle # <<>> THEN {Head(midle)} ELSE Unborn :
        /\ midle' = IF midle # <<>> THEN Tail(midle) ELSE midle
        /\ m' = [m EXCEPT ![x].nextp = p, ![x].spinning = spinning]
        /\ pc' = [pc EXCEPT ![a] = ret[a], ![x] = IF midle # <<>> THEN @ ELSE "newborn"]
        /\ ret' = [ret EXCEPT ![a] = "idle"]

StartM(a) ==
    /\ At(a, "startm")
    /\ \/ /\ hand[a] # None
          /\ Launch(a, hand[a], FALSE)
          /\ hand' = [hand EXCEPT ![a] = None]
          /\ UNCHANGED <<pidle, nmspinning>>
       \/ /\ hand[a] = None /\ pidle # <<>>
          /\ Launch(a, Head(pidle), TRUE)
          /\ pidle' = Tail(pidle)
          /\ UNCHANGED <<nmspinning, hand>>
       \/ /\ hand[a] = None /\ pidle = <<>>
          /\ nmspinning' = nmspinning - 1
          /\ Return(a)
          /\ UNCHANGED <<pidle, midle, m, hand>>
    /\ UNCHANGED <<gst, locked, queueVars, pstat, runm, pwait, nmlocked, worldVars>>

(* tzr_wirep, of an M that startm started or woke.                           *)
Wired(x, p) ==
    /\ pstat' = [pstat EXCEPT ![p] = "running"]
    /\ runm' = [runm EXCEPT ![p] = None]

Resume(x) ==
    LET p == m[x].nextp
    IN  /\ ~trapped /\ pc[x] \in {"parked", "newborn"} /\ p # None
        /\ m' = [m EXCEPT ![x].p = p, ![x].nextp = None]
        /\ Wired(x, p)
        /\ Goto(x, IF pc[x] = "newborn" THEN "top" ELSE "find")
        /\ UNCHANGED <<gst, locked, queueVars, idleVars, countVars, ret, hand, worldVars>>

(* tzr_pidleput: an M that waits for a P gets it, or it becomes idle.  The   *)
(* caller gives the value of m that the M's new P is added to.               *)
PutIdle(p, mnew) ==
    /\ pstat' = [pstat EXCEPT ![p] = "idle"]
    /\ IF pwait # <<>>
       THEN /\ m' = [mnew EXCEPT ![Head(pwait)].nextp = p]
            /\ pwait' = Tail(pwait)
            /\ UNCHANGED pidle
       ELSE /\ m' = mnew
            /\ pidle' = <<p>> \o pidle
            /\ UNCHANGED pwait

-----------------------------------------------------------------------------
(* The deadlock detector.                                                    *)

Parked == {t \in Threads : tst[t] = "waiting"}
Live == {g \in Gs : gst[g] \in {"runnable", "running", "waiting"}}

(* Variant with a bug: an M in a blocking call counts as idle.               *)
CountedBusy(idle, asleep, parked) ==
    Cardinality({x \in Ms \ Unborn : pc[x] # "syscall"}) - Len(idle) - asleep + Cardinality(Threads \ parked)

(* What tzr_checkdead counts: the Ms that are started and not idle or asleep *)
(* with a locked G (`idle` and `asleep` after the caller's own change), and  *)
(* the threads that run.                                                     *)
Counted(idle, asleep, parked) ==
    Cardinality(Ms \ Unborn) - Len(idle) - asleep + Cardinality(Threads \ parked)

(* tzr_checkdead, in a step that leaves midle, nmlocked and the parked       *)
(* threads as given.                                                         *)
CheckDead(idle, asleep, parked) ==
    LET dead == /\ Counted(idle, asleep, parked) <= 0
                /\ globq = <<>> /\ \A p \in Ps : Empty(p)
                /\ Live # {} \/ parked # {}
    IN  /\ trapped' = (trapped \/ (dead /\ parked = {}))
        /\ tst' = [t \in Threads |-> IF t \in parked THEN (IF dead THEN "doomed" ELSE "waiting")
                                     ELSE tst[t]]
        /\ falseAlarm' = (falseAlarm \/ (dead /\ \E g \in Gs : gst[g] \in {"runnable", "running"}))

-----------------------------------------------------------------------------
(* tzr_schedule and tzr_findrunnable.                                        *)

(* Variant with a bug: the M sleeps without a look for a deadlock.           *)
StopSilent(x) ==
    /\ At(x, "stop")
    /\ midle' = <<x>> \o midle
    /\ Goto(x, "parked")
    /\ UNCHANGED <<gst, locked, queueVars, pstat, runm, pidle, pwait, countVars, m, ret, hand, worldVars>>

(* tzr_stopm: idle, and a look for a deadlock in the same critical section.  *)
Stop(x) ==
    /\ At(x, "stop")
    /\ midle' = <<x>> \o midle
    /\ CheckDead(midle', nmlocked, Parked)
    /\ Goto(x, "parked")
    /\ UNCHANGED <<gst, locked, queueVars, pstat, runm, pidle, pwait, countVars, m, ret, hand, nops>>

(* tzr_serve_pwait: the P goes to an M that waits for one.  The last spinner *)
(* wakes another before it stops.                                            *)
ServePwait(x) ==
    /\ At(x, "top") /\ pwait # <<>>
    /\ m' = [m EXCEPT ![x].p = None, ![x].spinning = FALSE, ![Head(pwait)].nextp = m[x].p]
    /\ pwait' = Tail(pwait)
    /\ nmspinning' = IF m[x].spinning THEN nmspinning - 1 ELSE nmspinning
    /\ IF m[x].spinning /\ nmspinning = 1
       THEN Call(x, "wakep", "stop") /\ UNCHANGED <<midle, tst, trapped, falseAlarm>>
       ELSE /\ midle' = <<x>> \o midle
            /\ CheckDead(midle', nmlocked, Parked)
            /\ Goto(x, "parked") /\ UNCHANGED ret
    /\ UNCHANGED <<gst, locked, queueVars, pstat, runm, pidle, nmlocked, hand, nops>>

SkipPwait(x) ==
    /\ At(x, "top") /\ pwait = <<>>
    /\ Goto(x, "find")
    /\ UNCHANGED <<gst, locked, queueVars, pstat, runm, idleVars, countVars, m, ret, hand, worldVars>>

(* The local queue, runnext or the ring's head (the turns of the two are     *)
(* left open); now and then the global queue goes first.                     *)
GetLocal(x) ==
    LET p == m[x].p
    IN  /\ At(x, "find")
        /\ \/ /\ next[p] # None
              /\ m' = [m EXCEPT ![x].curg = next[p]]
              /\ next' = [next EXCEPT ![p] = None]
              /\ Goto(x, "found") /\ UNCHANGED <<ring, globq>>
           \/ /\ ring[p] # <<>>
              /\ m' = [m EXCEPT ![x].curg = Head(ring[p])]
              /\ ring' = [ring EXCEPT ![p] = Tail(@)]
              /\ Goto(x, "found") /\ UNCHANGED <<next, globq>>
           \/ /\ globq # <<>>
              /\ TakeGlobal(x, 1)
              /\ Goto(x, "found")
           \/ /\ Empty(p)
              /\ Goto(x, "global")
              /\ UNCHANGED <<queueVars, m>>
        /\ UNCHANGED <<gst, locked, pstat, runm, idleVars, countVars, ret, hand, worldVars>>

GetGlobal(x) ==
    /\ At(x, "global")
    /\ IF globq # <<>>
       THEN TakeGlobal(x, RingSize) /\ Goto(x, "found")
       ELSE Goto(x, "spin") /\ UNCHANGED <<queueVars, m>>
    /\ UNCHANGED <<gst, locked, pstat, runm, idleVars, countVars, ret, hand, worldVars>>

(* Enough Ms spin already, or x spins and steals.                            *)
MaySpin(x) == m[x].spinning \/ 2 * nmspinning < Cardinality(Ps) - Len(pidle)

(* There is a P to steal from.                                               *)
Victims == IF Cardinality(Ps) > 1 THEN "steal" ELSE "giveup"

Spin(x) ==
    /\ At(x, "spin")
    /\ IF MaySpin(x)
       THEN /\ m' = [m EXCEPT ![x].look = Ps \ {m[x].p}]
            /\ Goto(x, IF m[x].spinning THEN Victims ELSE "spinup")
       ELSE Goto(x, "giveup") /\ UNCHANGED m
    /\ UNCHANGED <<gst, locked, queueVars, pstat, runm, idleVars, countVars, ret, hand, worldVars>>

SpinUp(x) ==
    /\ At(x, "spinup")
    /\ m' = [m EXCEPT ![x].spinning = TRUE]
    /\ nmspinning' = nmspinning + 1
    /\ Goto(x, Victims)
    /\ UNCHANGED <<gst, locked, queueVars, pstat, runm, idleVars, nmlocked, ret, hand, worldVars>>

(* Variant with a bug: a stolen runnext stays with the victim.               *)
StealKept(x, v) ==
    LET n == Len(ring[v]) - Len(ring[v]) \div 2
        p == m[x].p
    IN  /\ At(x, "steal") /\ v \in m[x].look
        /\ \/ /\ n > 0
              /\ m' = [m EXCEPT ![x].curg = ring[v][n]]
              /\ ring' = [ring EXCEPT ![v] = SubSeq(@, n + 1, Len(@)),
                                      ![p] = @ \o SubSeq(ring[v], 1, n - 1)]
              /\ Goto(x, "found") /\ UNCHANGED next
           \/ /\ n = 0 /\ next[v] # None
              /\ m' = [m EXCEPT ![x].curg = next[v]]
              /\ next' = next
              /\ Goto(x, "found") /\ UNCHANGED ring
           \/ /\ Empty(v)
              /\ m' = [m EXCEPT ![x].look = @ \ {v}]
              /\ Goto(x, IF m[x].look = {v} THEN "giveup" ELSE "steal")
              /\ UNCHANGED <<ring, next>>
        /\ UNCHANGED <<gst, locked, globq, pstat, runm, idleVars, countVars, ret, hand, worldVars>>

(* tzr_runqsteal, in its last round: half of a victim's ring, one of them to *)
(* run, or else the victim's runnext.                                        *)
Steal(x, v) ==
    LET n == Len(ring[v]) - Len(ring[v]) \div 2
        p == m[x].p
    IN  /\ At(x, "steal") /\ v \in m[x].look
        /\ \/ /\ n > 0
              /\ m' = [m EXCEPT ![x].curg = ring[v][n]]
              /\ ring' = [ring EXCEPT ![v] = SubSeq(@, n + 1, Len(@)),
                                      ![p] = @ \o SubSeq(ring[v], 1, n - 1)]
              /\ Goto(x, "found") /\ UNCHANGED next
           \/ /\ n = 0 /\ next[v] # None
              /\ m' = [m EXCEPT ![x].curg = next[v]]
              /\ next' = [next EXCEPT ![v] = None]
              /\ Goto(x, "found") /\ UNCHANGED ring
           \/ /\ Empty(v)
              /\ m' = [m EXCEPT ![x].look = @ \ {v}]
              /\ Goto(x, IF m[x].look = {v} THEN "giveup" ELSE "steal")
              /\ UNCHANGED <<ring, next>>
        /\ UNCHANGED <<gst, locked, globq, pstat, runm, idleVars, countVars, ret, hand, worldVars>>

(* Variant with a bug: no last look at the queues.                           *)
GiveUpAtOnce(x) ==
    /\ At(x, "giveup")
    /\ IF globq # <<>>
       THEN /\ TakeGlobal(x, RingSize)
            /\ Goto(x, "found")
            /\ UNCHANGED <<pstat, pidle, pwait, nmspinning>>
       ELSE /\ PutIdle(m[x].p, [m EXCEPT ![x].p = None, ![x].spinning = FALSE, ![x].look = {}])
            /\ nmspinning' = IF m[x].spinning THEN nmspinning - 1 ELSE nmspinning
            /\ Goto(x, "stop")
            /\ UNCHANGED queueVars
    /\ UNCHANGED <<gst, locked, runm, midle, nmlocked, ret, hand, worldVars>>

(* The P is given back and the spinning ends, in one critical section.       *)
GiveUp(x) ==
    /\ At(x, "giveup")
    /\ IF globq # <<>>
       THEN /\ TakeGlobal(x, RingSize)
            /\ Goto(x, "found")
            /\ UNCHANGED <<pstat, pidle, pwait, nmspinning>>
       ELSE /\ PutIdle(m[x].p, [m EXCEPT ![x].p = None, ![x].spinning = FALSE, ![x].look = Ps])
            /\ nmspinning' = IF m[x].spinning THEN nmspinning - 1 ELSE nmspinning
            /\ Goto(x, "recheck")
            /\ UNCHANGED queueVars
    /\ UNCHANGED <<gst, locked, runm, midle, nmlocked, ret, hand, worldVars>>

(* The last look, at one P after the other, before the M sleeps.             *)
Recheck(x, v) ==
    /\ At(x, "recheck") /\ v \in m[x].look
    /\ IF ~Empty(v) \/ globq # <<>>
       THEN Goto(x, "again") /\ UNCHANGED m
       ELSE /\ m' = [m EXCEPT ![x].look = @ \ {v}]
            /\ Goto(x, IF m[x].look = {v} THEN "stop" ELSE "recheck")
    /\ UNCHANGED <<gst, locked, queueVars, pstat, runm, idleVars, countVars, ret, hand, worldVars>>

Again(x) ==
    /\ At(x, "again")
    /\ IF pidle # <<>>
       THEN /\ m' = [m EXCEPT ![x].p = Head(pidle), ![x].look = {}]
            /\ pidle' = Tail(pidle)
            /\ Wired(x, Head(pidle))
            /\ Goto(x, "respin")
       ELSE /\ m' = [m EXCEPT ![x].look = {}]
            /\ Goto(x, "stop")
            /\ UNCHANGED <<pidle, pstat, runm>>
    /\ UNCHANGED <<gst, locked, queueVars, midle, pwait, countVars, ret, hand, worldVars>>

(* Variant with a bug: the M spins without being counted.                    *)
RespinUncounted(x) ==
    /\ At(x, "respin")
    /\ m' = [m EXCEPT ![x].spinning = TRUE]
    /\ Goto(x, "find")
    /\ UNCHANGED <<gst, locked, queueVars, pstat, runm, idleVars, countVars, ret, hand, worldVars>>

Respin(x) ==
    /\ At(x, "respin")
    /\ m' = [m EXCEPT ![x].spinning = TRUE]
    /\ nmspinning' = nmspinning + 1
    /\ Goto(x, "find")
    /\ UNCHANGED <<gst, locked, queueVars, pstat, runm, idleVars, nmlocked, ret, hand, worldVars>>

(* tzr_schedule with a G: the last spinner wakes another, and the G runs.    *)
Switch(x) ==
    /\ gst' = [gst EXCEPT ![m[x].curg] = "running"]
    /\ runm' = [runm EXCEPT ![m[x].p] = x]
    /\ Goto(x, "running")

(* Variant with a bug: an M that did not spin is taken off the count.        *)
Found(x) ==
    /\ At(x, "found")
    /\ m' = [m EXCEPT ![x].spinning = FALSE, ![x].look = {}]
    /\ nmspinning' = IF m[x].spinning THEN nmspinning - 1 ELSE nmspinning
    /\ IF m[x].spinning /\ nmspinning = 1
       THEN Call(x, "wakep", "execute") /\ UNCHANGED <<gst, runm>>
       ELSE Switch(x) /\ UNCHANGED ret
    /\ UNCHANGED <<locked, queueVars, pstat, idleVars, nmlocked, hand, worldVars>>

Execute(x) ==
    /\ At(x, "execute")
    /\ Switch(x)
    /\ UNCHANGED <<locked, queueVars, pstat, idleVars, countVars, m, ret, hand, worldVars>>

-----------------------------------------------------------------------------
(* What the G on an M does.                                                  *)

Running(x) == At(x, "running")
Op == nops < MaxOps /\ nops' = nops + 1
Free(x) == m[x].curg \notin locked

(* The G leaves the M: back in tzr_execute, on g0.                           *)
SwitchOut(x, status) ==
    /\ gst' = [gst EXCEPT ![m[x].curg] = status]
    /\ m' = [m EXCEPT ![x].curg = None]
    /\ runm' = [runm EXCEPT ![m[x].p] = None]
    /\ Goto(x, "top")

Park(x) ==
    /\ Running(x) /\ Free(x) /\ Op
    /\ SwitchOut(x, "waiting")
    /\ UNCHANGED <<locked, queueVars, pstat, idleVars, countVars, ret, hand, tst, trapped, falseAlarm>>

Exit(x) ==
    /\ Running(x) /\ Free(x)
    /\ SwitchOut(x, "dead")
    /\ UNCHANGED <<locked, queueVars, pstat, idleVars, countVars, ret, hand, worldVars>>

(* tsuzuri_tz_yield and tzr_after_yield: to the end of the global queue.     *)
YieldFree(x) ==
    /\ Running(x) /\ Free(x)
    /\ globq' = Append(globq, m[x].curg)
    /\ SwitchOut(x, "runnable")
    /\ UNCHANGED <<locked, ring, next, pstat, idleVars, countVars, ret, hand, tst, trapped, falseAlarm>>

(* tzr_yield_locked: the P to what is queued, or to an M that waits for one. *)
YieldLocked(x) ==
    LET p == m[x].p
    IN  /\ Running(x) /\ ~Free(x)
        /\ \/ /\ ~Empty(p) \/ globq # <<>>
              /\ m' = [m EXCEPT ![x].p = None]
              /\ hand' = [hand EXCEPT ![x] = p]
              /\ Call(x, "startm", "acquire")
              /\ UNCHANGED pwait
           \/ /\ Empty(p) /\ globq = <<>> /\ pwait # <<>>
              /\ m' = [m EXCEPT ![x].p = None, ![Head(pwait)].nextp = p]
              /\ pwait' = Tail(pwait)
              /\ Goto(x, "acquire")
              /\ UNCHANGED <<hand, ret>>
        /\ UNCHANGED <<gst, locked, queueVars, pstat, runm, pidle, midle, countVars, tst, trapped, falseAlarm>>

Yield(x) == Op /\ (YieldFree(x) \/ YieldLocked(x))

(* Variant with a bug: nobody asks for the Ms that wait for a P.             *)
WantedLocally(p) == ~Empty(p) \/ (globq # <<>> /\ pidle = <<>>)

(* tzr_preempt_scan: work waits for this P.  Sysmon asks its G, which yields *)
(* at its next check (the signal for a G without checks is left out).        *)
Wanted(p) == ~Empty(p) \/ pwait # <<>> \/ (globq # <<>> /\ pidle = <<>>)

Preempt(x) ==
    /\ Running(x) /\ Wanted(m[x].p) /\ runm[m[x].p] # None
    /\ YieldFree(x) \/ YieldLocked(x)
    /\ UNCHANGED nops

(* tzr_ready and tzr_spawn of a G on an M with a P.  A locked G goes on on   *)
(* its own M.                                                                *)
Ready(x, g) ==
    /\ Running(x) /\ gst[g] \in {"new", "waiting"} /\ Op
    /\ IF g \in locked
       THEN /\ gst' = [gst EXCEPT ![g] = "running"]
            /\ nmlocked' = nmlocked - 1
            /\ UNCHANGED <<queueVars, pc, ret>>
       ELSE /\ gst' = [gst EXCEPT ![g] = "runnable"]
            /\ PutNext(m[x].p, g)
            /\ Call(x, "wakep", "running")
            /\ UNCHANGED nmlocked
    /\ UNCHANGED <<locked, pstat, runm, idleVars, nmspinning, m, hand, tst, trapped, falseAlarm>>

(* tzr_ready of a host thread.                                               *)
ReadyThread(x, t) ==
    /\ Running(x) /\ tst[t] = "waiting" /\ Op
    /\ tst' = [tst EXCEPT ![t] = "running"]
    /\ UNCHANGED <<gst, locked, queueVars, pstat, runm, idleVars, countVars, m, pc, ret, hand, trapped, falseAlarm>>

LockThread(x) ==
    /\ Running(x) /\ Free(x) /\ m[x].curg \in Lockers /\ Op
    /\ locked' = locked \cup {m[x].curg}
    /\ UNCHANGED <<gst, queueVars, pstat, runm, idleVars, countVars, m, pc, ret, hand, tst, trapped, falseAlarm>>

UnlockThread(x) ==
    /\ Running(x) /\ ~Free(x)
    /\ locked' = locked \ {m[x].curg}
    /\ UNCHANGED <<gst, queueVars, pstat, runm, idleVars, countVars, m, pc, ret, hand, worldVars>>

-----------------------------------------------------------------------------
(* Blocking calls, and the wait of a locked G.                               *)

EnterSyscall(x) ==
    LET p == m[x].p
    IN  /\ Running(x) /\ m[x].curg \in Callers /\ Op
        /\ m' = [m EXCEPT ![x].oldp = p, ![x].p = None]
        /\ pstat' = [pstat EXCEPT ![p] = "syscall"]
        /\ Goto(x, "syscall")
        /\ UNCHANGED <<gst, locked, queueVars, runm, idleVars, countVars, ret, hand, tst, trapped, falseAlarm>>

(* Variant with a bug: the M takes its P back although sysmon has it.        *)
ExitSyscallBlindly(x) ==
    LET p == m[x].oldp
    IN  /\ At(x, "syscall")
        /\ pstat' = [pstat EXCEPT ![p] = "running"]
        /\ m' = [m EXCEPT ![x].oldp = None, ![x].p = p]
        /\ Goto(x, "running")
        /\ UNCHANGED <<gst, locked, queueVars, runm, idleVars, countVars, ret, hand, worldVars>>

(* The M takes its P again unless sysmon took it.                            *)
ExitSyscall(x) ==
    LET p == m[x].oldp
    IN  /\ At(x, "syscall")
        /\ IF pstat[p] = "syscall"
           THEN /\ pstat' = [pstat EXCEPT ![p] = "running"]
                /\ m' = [m EXCEPT ![x].oldp = None, ![x].p = p]
                /\ Goto(x, "running")
           ELSE /\ m' = [m EXCEPT ![x].oldp = None]
                /\ Goto(x, "acquire")
                /\ UNCHANGED pstat
        /\ UNCHANGED <<gst, locked, queueVars, runm, idleVars, countVars, ret, hand, worldVars>>

(* tzr_acquirep: an idle P, or a place in the queue of those that wait.      *)
Rewired(x, p) ==
    /\ pstat' = [pstat EXCEPT ![p] = "running"]
    /\ runm' = [runm EXCEPT ![p] = x]
    /\ Goto(x, "running")

Acquire(x) ==
    /\ At(x, "acquire")
    /\ IF pidle # <<>>
       THEN /\ m' = [m EXCEPT ![x].p = Head(pidle)]
            /\ pidle' = Tail(pidle)
            /\ Rewired(x, Head(pidle))
            /\ UNCHANGED pwait
       ELSE /\ pwait' = Append(pwait, x)
            /\ Goto(x, "pwait")
            /\ UNCHANGED <<m, pidle, pstat, runm>>
    /\ UNCHANGED <<gst, locked, queueVars, midle, countVars, ret, hand, worldVars>>

Acquired(x) ==
    /\ At(x, "pwait") /\ m[x].nextp # None
    /\ m' = [m EXCEPT ![x].p = m[x].nextp, ![x].nextp = None]
    /\ Rewired(x, m[x].nextp)
    /\ UNCHANGED <<gst, locked, queueVars, idleVars, countVars, ret, hand, worldVars>>

(* tzr_handoffp: to an M that runs what is queued, or to the idle list.      *)
Handoff(a) ==
    /\ At(a, "handoff")
    /\ Goto(a, IF ~Empty(hand[a]) \/ globq # <<>> THEN "startm" ELSE "putidle")
    /\ UNCHANGED <<gst, locked, queueVars, pstat, runm, idleVars, countVars, m, ret, hand, worldVars>>

HandIdle(a) ==
    /\ At(a, "putidle")
    /\ PutIdle(hand[a], m)
    /\ hand' = [hand EXCEPT ![a] = None]
    /\ Goto(a, "handcheck")
    /\ UNCHANGED <<gst, locked, queueVars, runm, midle, countVars, ret, worldVars>>

(* Variant with a bug: no second look at the global queue.                   *)
HandCheckSilent(a) ==
    /\ At(a, "handcheck")
    /\ Return(a)
    /\ UNCHANGED <<gst, locked, queueVars, pstat, runm, idleVars, countVars, m, hand, worldVars>>

HandCheck(a) ==
    /\ At(a, "handcheck")
    /\ IF globq # <<>> THEN Goto(a, "wakep") /\ UNCHANGED ret ELSE Return(a)
    /\ UNCHANGED <<gst, locked, queueVars, pstat, runm, idleVars, countVars, m, hand, worldVars>>

(* tzr_retake by sysmon.                                                     *)
Retake(p) ==
    /\ At(Sysmon, "idle") /\ pstat[p] = "syscall"
    /\ pstat' = [pstat EXCEPT ![p] = "idle"]
    /\ hand' = [hand EXCEPT ![Sysmon] = p]
    /\ Call(Sysmon, "handoff", "idle")
    /\ UNCHANGED <<gst, locked, queueVars, runm, idleVars, countVars, m, worldVars>>

(* tzr_park_locked: the G waits on its M, which hands its P off.             *)
ParkLocked(x) ==
    /\ Running(x) /\ ~Free(x) /\ Op
    /\ gst' = [gst EXCEPT ![m[x].curg] = "waiting"]
    /\ nmlocked' = nmlocked + 1
    /\ hand' = [hand EXCEPT ![x] = m[x].p]
    /\ m' = [m EXCEPT ![x].p = None]
    /\ Call(x, "handoff", "lockcheck")
    /\ UNCHANGED <<locked, queueVars, pstat, runm, idleVars, nmspinning, tst, trapped, falseAlarm>>

(* Variant with a bug: the M sleeps without a look for a deadlock.           *)
LockCheck(x) ==
    /\ At(x, "lockcheck")
    /\ CheckDead(midle, nmlocked, Parked)
    /\ Goto(x, "asleep")
    /\ UNCHANGED <<gst, locked, queueVars, pstat, runm, idleVars, countVars, m, ret, hand, nops>>

WakeLocked(x) ==
    /\ At(x, "asleep") /\ gst[m[x].curg] = "running"
    /\ Goto(x, "acquire")
    /\ UNCHANGED <<gst, locked, queueVars, pstat, runm, idleVars, countVars, m, ret, hand, worldVars>>

-----------------------------------------------------------------------------
(* Host threads, which hold no P.                                            *)

ThreadReady(t, g) ==
    /\ At(t, "host") /\ gst[g] \in {"new", "waiting"} /\ g \notin locked /\ Op
    /\ gst' = [gst EXCEPT ![g] = "runnable"]
    /\ globq' = Append(globq, g)
    /\ Call(t, "wakep", "host")
    /\ UNCHANGED <<locked, ring, next, pstat, runm, idleVars, countVars, m, hand, tst, trapped, falseAlarm>>

ThreadPark(t) ==
    /\ At(t, "host")
    /\ tst' = [tst EXCEPT ![t] = "waiting"]
    /\ Goto(t, "hostcheck")
    /\ UNCHANGED <<gst, locked, queueVars, pstat, runm, idleVars, countVars, m, ret, hand, trapped, falseAlarm, nops>>

ThreadCheck(t) ==
    /\ At(t, "hostcheck")
    /\ CheckDead(midle, nmlocked, Parked)
    /\ Goto(t, "hostsleep")
    /\ UNCHANGED <<gst, locked, queueVars, pstat, runm, idleVars, countVars, m, ret, hand, nops>>

(* The wait ends; a thread that the detector woke goes on with an error.     *)
ThreadWake(t) ==
    /\ At(t, "hostsleep") /\ tst[t] # "waiting"
    /\ tst' = [tst EXCEPT ![t] = "running"]
    /\ Goto(t, IF tst[t] = "doomed" THEN "hostend" ELSE "host")
    /\ UNCHANGED <<gst, locked, queueVars, pstat, runm, idleVars, countVars, m, ret, hand, trapped, falseAlarm, nops>>

Ended == /\ \A x \in Ms : pc[x] \in {"unborn", "parked", "asleep"} /\ m[x].nextp = None
         /\ \A t \in Threads : pc[t] = "hostend"

Over == (trapped \/ Ended) /\ UNCHANGED vars

(* The steps of the runtime itself.                                          *)
Engine(a) ==
    \/ Wakep(a) \/ Claim(a) \/ StartM(a) \/ Handoff(a) \/ HandIdle(a) \/ HandCheck(a)
    \/ /\ a \in Ms
       /\ \/ Resume(a) \/ Stop(a) \/ ServePwait(a) \/ SkipPwait(a) \/ GetLocal(a) \/ GetGlobal(a)
          \/ Spin(a) \/ SpinUp(a) \/ GiveUp(a)
          \/ Again(a) \/ Respin(a) \/ Found(a) \/ Execute(a)
          \/ Acquire(a) \/ Acquired(a) \/ LockCheck(a) \/ WakeLocked(a)
          \/ \E v \in Ps : Steal(a, v) \/ Recheck(a, v)
    \/ a \in Threads /\ (ThreadCheck(a) \/ ThreadWake(a))

(* What the program does, in its Gs and its threads.                         *)
Program ==
    \/ \E x \in Ms :
           \/ Park(x) \/ Exit(x) \/ Yield(x) \/ LockThread(x) \/ UnlockThread(x) \/ ParkLocked(x)
           \/ EnterSyscall(x) \/ ExitSyscall(x)
           \/ \E g \in Gs : Ready(x, g)
           \/ \E t \in Threads : ReadyThread(x, t)
    \/ \E t \in Threads : ThreadPark(t) \/ \E g \in Gs : ThreadReady(t, g)

Next ==
    \/ \E a \in Actors : Engine(a)
    \/ \E p \in Ps : Retake(p)
    \/ \E x \in Ms : Preempt(x)
    \/ Program
    \/ Over

Init ==
    /\ gst = [g \in Gs |-> "new"]
    /\ locked = {}
    /\ ring = [p \in Ps |-> <<>>]
    /\ next = [p \in Ps |-> None]
    /\ globq = <<>>
    /\ pstat = [p \in Ps |-> "idle"]
    /\ runm = [p \in Ps |-> None]
    /\ pidle \in {s \in [1..Cardinality(Ps) -> Ps] : \A i, j \in DOMAIN s : s[i] = s[j] => i = j}
    /\ midle = <<>>
    /\ pwait = <<>>
    /\ nmspinning = 0
    /\ nmlocked = 0
    /\ m = [x \in Ms |-> NewM]
    /\ tst = [t \in Threads |-> "running"]
    /\ pc = [a \in Actors |-> IF a \in Ms THEN "unborn" ELSE IF a \in Threads THEN "host" ELSE "idle"]
    /\ ret = [a \in Actors |-> "idle"]
    /\ hand = [a \in Actors |-> None]
    /\ trapped = FALSE
    /\ falseAlarm = FALSE
    /\ nops = 0

(* The threads of the runtime go on, sysmon takes the P of a call that lasts *)
(* and preempts a G that keeps its P from others.                            *)
Fairness ==
    /\ \A a \in Actors : WF_vars(Engine(a))
    /\ \A p \in Ps : WF_vars(Retake(p))
    /\ \A x \in Ms : WF_vars(Preempt(x))

Spec == Init /\ [][Next]_vars
FairSpec == Spec /\ Fairness

-----------------------------------------------------------------------------
(* Properties.                                                               *)

Holders(p) == {x \in Ms : m[x].p = p} \cup {x \in Ms : m[x].nextp = p} \cup {a \in Actors : hand[a] = p}
Queued == {g \in Gs : \/ \E p \in Ps : next[p] = g \/ \E i \in DOMAIN ring[p] : ring[p][i] = g
                      \/ \E i \in DOMAIN globq : globq[i] = g}

(* Where an actor does not look at the queues.                               *)
Resting == {"unborn", "parked", "asleep", "syscall", "pwait",
            "host", "hostsleep", "hostcheck", "hostend", "idle"}

(* The scheduler's lists, counters and states keep their types.              *)
TypeOK ==
    /\ gst \in [Gs -> {"new", "runnable", "running", "waiting", "dead"}]
    /\ locked \subseteq Lockers
    /\ next \in [Ps -> Gs \cup {None}]
    /\ pstat \in [Ps -> {"running", "syscall", "idle"}]
    /\ runm \in [Ps -> Ms \cup {None}]
    /\ nmspinning \in 0..Cardinality(Actors)
    /\ nmlocked \in 0..Cardinality(Ms)
    /\ tst \in [Threads -> {"running", "waiting", "doomed"}]
    /\ \A p \in Ps : Len(ring[p]) <= RingSize

(* A P belongs to one: it is idle, or in the hands of one M, one startm, one *)
(* wake-up or one handoff, or it is in the SYSCALL state, where only a       *)
(* compare-and-swap of its status takes it (pidleget, pidleput, startm,      *)
(* exitsyscall, retake, serve_pwait).                                        *)
OneOwner ==
    \A p \in Ps :
        LET idle == \E i \in DOMAIN pidle : pidle[i] = p
        IN  CASE pstat[p] = "syscall" -> Holders(p) = {} /\ ~idle
              [] OTHER -> Cardinality(Holders(p)) = (IF idle THEN 0 ELSE 1)

(* No G is lost or run twice: a runnable one is in one queue or with the M   *)
(* that is about to run it, a running one is on one M, the others are        *)
(* nowhere.                                                                  *)
EachGOnce ==
    \A g \in Gs :
        LET on == {x \in Ms : m[x].curg = g}
        IN  CASE gst[g] = "runnable" -> IF g \in Queued THEN on = {} ELSE Cardinality(on) = 1
              [] gst[g] = "running" -> g \notin Queued /\ Cardinality(on) = 1
              [] OTHER -> g \notin Queued /\ (on # {} => g \in locked)

(* nmspinning counts the Ms that spin and the one that tzr_wakep is about to *)
(* start.                                                                    *)
SpinningIsCounted ==
    nmspinning = Cardinality({x \in Ms : m[x].spinning})
                 + Cardinality({a \in Actors : pc[a] = "startm" /\ hand[a] = None})

(* The detector fires only when no G runs or can run (tzr_checkdead counts   *)
(* Ms in blocking calls and Ms that wait for a P as running).                *)
NoFalseAlarm == ~falseAlarm

(* The detector misses no deadlock: when every M is idle or asleep with a    *)
(* locked G and every thread waits, it has fired (it looks each time an M    *)
(* stops, a thread parks or a locked G sleeps).                              *)
DeadlockIsFound ==
    ~trapped /\ Live # {} =>
        \/ \E x \in Ms : pc[x] \notin {"unborn", "parked", "asleep"} \/ m[x].nextp # None
        \/ \E x \in Ms : pc[x] = "asleep" /\ gst[m[x].curg] = "running"
        \/ \E t \in Threads : pc[t] # "hostsleep" \/ tst[t] # "waiting"
        \/ pc[Sysmon] # "idle"

(* Work that is queued is not slept on: while a G is queued, some thread of  *)
(* the runtime is awake that will look at the queues, or sysmon watches a P  *)
(* in a blocking call (findrunnable looks again after it gave its P up).     *)
NobodySleepsOnWork ==
    ~trapped /\ Queued # {} =>
        \/ \E a \in Actors : pc[a] \notin Resting
        \/ \E x \in Ms : m[x].nextp # None
        \/ \E p \in Ps : pstat[p] = "syscall"

WaitsForP(x) == pc[x] = "pwait" /\ ~trapped

(* An M that is back from a blocking call gets a P again, whatever the other *)
(* Gs do: an M hands its P over between two Gs and sysmon preempts a G that  *)
(* does not give up its P (tzr_serve_pwait, tzr_preempt_scan).               *)
WaitingMIsServed == \A x \in Ms : []<>~WaitsForP(x)

(* What p->runm says: the M that runs a G on p now, or nobody.               *)
RunmIsTrue == \A p \in Ps : pstat[p] = "running" /\ runm[p] # None => m[runm[p]].p = p

(* Some thread of the runtime looks at the queues or is about to, and not    *)
(* only one that runs a G for as long as that likes.                         *)
Searching == \/ \E a \in Actors : pc[a] \notin Resting \cup {"running"}
             \/ \E x \in Ms : m[x].nextp # None

(* While a P is idle, whatever is queued is on its way to a thread (wakep    *)
(* after every put, the last spinner's wakep, the second look of             *)
(* findrunnable), as long as no P is handed off.                             *)
QueuedWorkIsSought == ~trapped /\ Queued # {} /\ pidle # <<>> => Searching

(* "An idle P takes those" (tzr_preempt_scan, which asks nobody to yield to  *)
(* the global queue while a P is idle): the same of the global queue, with   *)
(* blocking calls and the handoff of their Ps.                               *)
IdlePTakesQueue == ~trapped /\ globq # <<>> /\ pidle # <<>> => Searching
=============================================================================
