-------------------- MODULE MCRuntimeLive --------------------
(* What the runtime does eventually: an M that waits for a P, a lock, a channel, a timer, a     *)
(* socket or the end of a signal is served, in instances smaller than those of MCRuntime and    *)
(* MCSync. A behaviour is one of a single component, and the components take turns to use the   *)
(* variables: `part` says whose they are.                                                       *)
EXTENDS Integers, Sequences, TLC

CONSTANTS
  Parts,   \* the components whose behaviours are looked at
  None, Sysmon, g1, g2, m1, m2, p1, t1, t2, tm1, w1, w2, c0, c1

VARIABLES
  part,    \* the component of this behaviour
  x1, x2, x3, x4, x5, x6, x7, x8, x9, x10, x11, x12, x13, x14, x15, x16, x17, x18, x19, x20

MutexOps == [p \in {g1, t1} |-> 2]
Room == c0 :> 0 @@ c1 :> 1
SelectOps == g1 :> 1 @@ t1 :> 1 @@ t2 :> 1
Sends(c) == [chan |-> c, send |-> TRUE]
Receives(c) == [chan |-> c, send |-> FALSE]
Shapes == {<<Receives(c0), Receives(c1)>>, <<Sends(c0), Receives(c1)>>}
Calls ==
  [once      |-> [p \in {g1, g2, t1} |-> IF p = t1 THEN 2 ELSE 1],
   group     |-> [p \in {g1, g2, t1} |-> 1],
   semaphore |-> [p \in {g1, g2, t1} |-> 1]]
TimerKind == tm1 :> "send"
WaitDir == g1 :> "read" @@ g2 :> "write"

-----------------------------------------------------------------------------
Sched ==
  INSTANCE Scheduler WITH Gs <- {g1, g2}, Ms <- {m1, m2}, Ps <- {p1}, Threads <- {t1},
    Callers <- {g1, g2}, Lockers <- {}, RingSize <- 2, MaxOps <- 3, gst <- x1, locked <- x2,
    ring <- x3, next <- x4, globq <- x5, pstat <- x6, runm <- x7, pidle <- x8, midle <- x9,
    pwait <- x10, nmspinning <- x11, nmlocked <- x12, m <- x13, tst <- x14, pc <- x15, ret <- x16,
    hand <- x17, trapped <- x18, falseAlarm <- x19, nops <- x20

Sel ==
  INSTANCE Channel WITH Gs <- {g1}, Threads <- {t1, t2}, Chans <- {c0, c1}, Capacity <- Room,
    SelectShapes <- Shapes, MaxOps <- SelectOps, chan <- x1, g <- x2, hist <- x3, trapped <- x4

Mutex ==
  INSTANCE Mutex WITH Gs <- {g1}, Threads <- {t1}, Addrs <- {w1, w2}, MaxOps <- MutexOps,
    bucket <- x1, status <- x2, doomed <- x3, trapped <- x4, word <- x5, pc <- x6, arg <- x7,
    held <- x8, result <- x9, nops <- x10

\* Readers and writers come back forever.
Rw ==
  INSTANCE RwMutex WITH Gs <- {g1, g2}, Threads <- {t1}, Addrs <- {w1}, Cell <- w1,
    Readers <- {g1, g2}, Writers <- {t1}, Blockers <- {g1}, bucket <- x1, status <- x2,
    doomed <- x3, trapped <- x4, word <- x5, pc <- x6, seen <- x7, counted <- x8, mode <- x9,
    gaveUp <- x10

Obj ==
  INSTANCE SyncObject WITH Gs <- {g1, g2}, Threads <- {t1}, Addrs <- {w1}, Cell <- w1, Half <- 4,
    Deltas <- {-4, -1, 1, 3}, Capacity <- 2, MaxCalls <- Calls, bucket <- x1, status <- x2,
    doomed <- x3, trapped <- x4, kind <- x5, word <- x6, pc <- x7, seen <- x8, weight <- x9,
    block <- x10, result <- x11, inside <- x12, tally <- x13, faulted <- x14, ncalls <- x15

Tmr ==
  INSTANCE Timers WITH Main <- g1, Inside <- {}, Outside <- {g2}, Timers <- {tm1},
    Kind <- TimerKind, Handles <- {tm1}, Callers <- {g1, g2}, Naps <- {g2}, Waits <- {1},
    MaxNow <- 2, MaxOps <- 2, now <- x1, tm <- x2, refs <- x3, chan <- x4, stops <- x5,
    held <- x6, thread <- x7, kicked <- x8, ntimers <- x9, gs <- x10, live <- x11, waiter <- x12,
    fate <- x13, dead <- x14, falseAlarm <- x15, nops <- x16

Poll ==
  INSTANCE Netpoll WITH Gs <- {g1, g2}, Dir <- WaitDir, MaxSockets <- 1, MaxWaits <- 2,
    MaxRefused <- 0, gen <- x1, stage <- x2, ready <- x3, reg <- x4, event <- x5, pd <- x6,
    w <- x7, nwaits <- x8, nrefused <- x9

Kick ==
  INSTANCE Preempt WITH Ps <- {p1}, Ms <- {m1}, MaxKicks <- 1, MaxStopped <- 1, MaxOther <- 1,
    MaxMasks <- 1, preempt <- x1, armed <- x2, runm <- x3, status <- x4, seen <- x5,
    pending <- x6, parked <- x7, at <- x8, has <- x9, kicks <- x10, gate <- x11, ready <- x12,
    sig <- x13, masked <- x14, owes <- x15, mon <- x16, stopped <- x17, others <- x18, cut <- x19

-----------------------------------------------------------------------------
\* The variables that a component with so many of its own leaves alone.
rest4 == <<part, x5, x6, x7, x8, x9, x10, x11, x12, x13, x14, x15, x16, x17, x18, x19, x20>>
rest9 == <<part, x10, x11, x12, x13, x14, x15, x16, x17, x18, x19, x20>>
rest10 == <<part, x11, x12, x13, x14, x15, x16, x17, x18, x19, x20>>
rest15 == <<part, x16, x17, x18, x19, x20>>
rest16 == <<part, x17, x18, x19, x20>>
rest19 == <<part, x20>>
rest20 == <<part>>
all == <<part, x1, x2, x3, x4, x5, x6, x7, x8, x9, x10, x11, x12, x13, x14, x15, x16, x17, x18,
      x19, x20>>

SumInit ==
  /\ part \in Parts
  /\ \/ part = "scheduler" /\ Sched!Init
     \/ part = "select" /\ Sel!Init /\ x5 = None /\ x6 = None /\ x7 = None /\ x8 = None
        /\ x9 = None /\ x10 = None /\ x11 = None /\ x12 = None /\ x13 = None /\ x14 = None
        /\ x15 = None /\ x16 = None /\ x17 = None /\ x18 = None /\ x19 = None /\ x20 = None
     \/ part = "mutex" /\ Mutex!Init /\ x11 = None /\ x12 = None /\ x13 = None /\ x14 = None
        /\ x15 = None /\ x16 = None /\ x17 = None /\ x18 = None /\ x19 = None /\ x20 = None
     \/ part = "rwmutex" /\ Rw!Init /\ x11 = None /\ x12 = None /\ x13 = None /\ x14 = None
        /\ x15 = None /\ x16 = None /\ x17 = None /\ x18 = None /\ x19 = None /\ x20 = None
     \/ part = "object" /\ Obj!Init /\ x16 = None /\ x17 = None /\ x18 = None /\ x19 = None
        /\ x20 = None
     \/ part = "timers" /\ Tmr!Init /\ x17 = None /\ x18 = None /\ x19 = None /\ x20 = None
     \/ part = "netpoll" /\ Poll!Init /\ x10 = None /\ x11 = None /\ x12 = None /\ x13 = None
        /\ x14 = None /\ x15 = None /\ x16 = None /\ x17 = None /\ x18 = None /\ x19 = None
        /\ x20 = None
     \/ part = "preempt" /\ Kick!Init /\ x20 = None

SumNext ==
  \/ part = "scheduler" /\ Sched!Next /\ UNCHANGED rest20
  \/ part = "select" /\ Sel!Next /\ UNCHANGED rest4
  \/ part = "mutex" /\ Mutex!Next /\ UNCHANGED rest10
  \/ part = "rwmutex" /\ Rw!Next /\ UNCHANGED rest10
  \/ part = "object" /\ Obj!Next /\ UNCHANGED rest15
  \/ part = "timers" /\ Tmr!Next /\ UNCHANGED rest16
  \/ part = "netpoll" /\ Poll!Next /\ UNCHANGED rest9
  \/ part = "preempt" /\ Kick!Next /\ UNCHANGED rest19
  \/ part \in {"timers", "netpoll", "preempt"} /\ UNCHANGED all   \* these may come to rest

\* The fairness of each component. Only one of them runs in a behaviour, so that the fairness of
\* an action of one and of an action of another is that of their disjunction.
Fair1 ==
  \/ part = "scheduler" /\ Sched!Engine(m1) /\ UNCHANGED rest20
  \/ part = "select" /\ Sel!Ready(g1) /\ UNCHANGED rest4
  \/ part = "mutex" /\ Mutex!Progress(g1) /\ UNCHANGED rest10
  \/ part = "rwmutex" /\ Rw!Progress(g1) /\ UNCHANGED rest10
  \/ part = "object" /\ Obj!Progress(g1) /\ UNCHANGED rest15
  \/ part = "timers" /\ Tmr!Tick /\ UNCHANGED rest16
  \/ part = "netpoll" /\ Poll!WaitStep(g1) /\ UNCHANGED rest9
  \/ part = "preempt" /\ Kick!MonStep /\ UNCHANGED rest19

Fair2 ==
  \/ part = "scheduler" /\ Sched!Engine(m2) /\ UNCHANGED rest20
  \/ part = "select" /\ Sel!Resume(g1) /\ UNCHANGED rest4
  \/ part = "mutex" /\ Mutex!Progress(t1) /\ UNCHANGED rest10
  \/ part = "rwmutex" /\ Rw!Progress(g2) /\ UNCHANGED rest10
  \/ part = "object" /\ Obj!Progress(g2) /\ UNCHANGED rest15
  \/ part = "timers" /\ Tmr!ThreadStep /\ UNCHANGED rest16
  \/ part = "netpoll" /\ Poll!WaitStep(g2) /\ UNCHANGED rest9
  \/ part = "preempt" /\ Kick!Wake /\ UNCHANGED rest19

Fair3 ==
  \/ part = "scheduler" /\ Sched!Engine(t1) /\ UNCHANGED rest20
  \/ part = "select" /\ Sel!ResumeSelect(g1) /\ UNCHANGED rest4
  \/ part = "mutex" /\ Mutex!Detect /\ UNCHANGED rest10
  \/ part = "rwmutex" /\ Rw!Progress(t1) /\ UNCHANGED rest10
  \/ part = "object" /\ Obj!Progress(t1) /\ UNCHANGED rest15
  \/ part = "timers" /\ Tmr!EndStep /\ UNCHANGED rest16
  \/ part = "netpoll" /\ Poll!TimeOut(g1) /\ UNCHANGED rest9
  \/ part = "preempt" /\ Kick!Settle(Sysmon) /\ UNCHANGED rest19

Fair4 ==
  \/ part = "scheduler" /\ Sched!Engine(Sysmon) /\ UNCHANGED rest20
  \/ part = "select" /\ Sel!Pass3(g1) /\ UNCHANGED rest4
  \/ part = "rwmutex" /\ Rw!Detect /\ UNCHANGED rest10
  \/ part = "object" /\ Obj!Detect /\ UNCHANGED rest15
  \/ part = "timers" /\ Tmr!Run(g1) /\ UNCHANGED rest16
  \/ part = "netpoll" /\ Poll!TimeOut(g2) /\ UNCHANGED rest9
  \/ part = "preempt" /\ Kick!Deliver(m1) /\ UNCHANGED rest19

Fair5 ==
  \/ part = "scheduler" /\ Sched!Retake(p1) /\ UNCHANGED rest20
  \/ part = "select" /\ Sel!Ready(t1) /\ UNCHANGED rest4
  \/ part = "timers" /\ Tmr!Run(g2) /\ UNCHANGED rest16
  \/ part = "netpoll" /\ Poll!PollerStep /\ UNCHANGED rest9
  \/ part = "preempt" /\ Kick!GiveUp(m1) /\ UNCHANGED rest19

Fair6 ==
  \/ part = "scheduler" /\ Sched!Preempt(m1) /\ UNCHANGED rest20
  \/ part = "select" /\ Sel!Resume(t1) /\ UNCHANGED rest4
  \/ part = "timers" /\ Tmr!GoIdle(g1) /\ UNCHANGED rest16
  \/ part = "netpoll" /\ Poll!CloseStep /\ UNCHANGED rest9

Fair7 ==
  \/ part = "scheduler" /\ Sched!Preempt(m2) /\ UNCHANGED rest20
  \/ part = "select" /\ Sel!ResumeSelect(t1) /\ UNCHANGED rest4
  \/ part = "timers" /\ Tmr!GoIdle(g2) /\ UNCHANGED rest16

Fair8 ==
  \/ part = "select" /\ Sel!Pass3(t1) /\ UNCHANGED rest4

Fair9 ==
  \/ part = "select" /\ Sel!Ready(t2) /\ UNCHANGED rest4

Fair10 ==
  \/ part = "select" /\ Sel!Resume(t2) /\ UNCHANGED rest4

Fair11 ==
  \/ part = "select" /\ Sel!ResumeSelect(t2) /\ UNCHANGED rest4

Fair12 ==
  \/ part = "select" /\ Sel!Pass3(t2) /\ UNCHANGED rest4

Fair13 ==
  \/ part = "select" /\ Sel!CheckDead /\ UNCHANGED rest4

Fair14 ==
  \/ part = "preempt" /\ Kick!EnterCall(m1) /\ UNCHANGED rest19

SumSpec ==
  /\ SumInit /\ [][SumNext]_all
  /\ WF_all(Fair1) /\ WF_all(Fair2) /\ WF_all(Fair3) /\ WF_all(Fair4) /\ WF_all(Fair5)
  /\ WF_all(Fair6) /\ WF_all(Fair7) /\ WF_all(Fair8) /\ WF_all(Fair9) /\ WF_all(Fair10)
  /\ WF_all(Fair11) /\ WF_all(Fair12) /\ WF_all(Fair13) /\ SF_all(Fair14)

-----------------------------------------------------------------------------
\* An M that is back from a blocking call gets a P again, whatever the other Gs do: an M hands its
\* P over between two Gs and sysmon preempts a G that does not give it up (tzr_serve_pwait,
\* tzr_preempt_scan).
WaitingMIsServed == \A x \in {m1, m2} : []<>~(part = "scheduler" /\ Sched!WaitsForP(x))

\* A channel operation that a partner or a close completed returns, and when everything sleeps the
\* detector answers. A lock call returns, with the lock or the deadlock status, as long as
\* critical sections end. Readers that come and go forever cannot keep the writers out. A wait for
\* a Once ends when the function returns, and nobody sleeps on while a group or a semaphore would
\* serve them (tzr_ready, tzr_checkdead, mutex_lock, rw_write_lock, once_begin, sem_acquire).
WaitsReturn ==
  /\ \A p \in {g1, t1, t2} : []<>~(part = "select" /\ Sel!Completed(p))
  /\ []<>~(part = "select" /\ Sel!Unreported)
  /\ \A p \in {g1, t1} : []<>~(part = "mutex" /\ Mutex!Waits(p))
  /\ []<>~(part = "rwmutex" /\ Rw!KeptOut(t1))
  /\ \A p \in {g1, g2, t1} : []<>~(part = "object" /\ Obj!WaitsServed(p))

\* A timer that is due is fired, stopped or put off: no wake-up of the timer thread is lost
\* between reading the heap and waiting. A parked G whose socket stays ready, or was closed, goes
\* on, whatever order the event, the deadline and the park came in. An M that closed its gate gets
\* into its call (tzr_timerproc, tzr_netpoll_wait, the loop of tzr_entersyscall).
EventsAreServed ==
  /\ \A t \in {tm1, Tmr!Nap(g2)} : []<>~(part = "timers" /\ Tmr!Overdue(t))
  /\ \A g \in {g1, g2} : /\ []<>~(part = "netpoll" /\ Poll!ParkedReady(g))
                         /\ []<>~(part = "netpoll" /\ Poll!ParkedClosed(g))
  /\ []<>~(part = "preempt" /\ Kick!Enters(m1))
=============================================================================
