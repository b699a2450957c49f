-------------------- MODULE MCRuntime --------------------
(* The parts of the runtime around the scheduler, each in a small instance: timers, contexts,   *)
(* the netpoller, preemption, the timer heap, the pool of WebAssembly threads and the small-    *)
(* object heap. A behaviour is one of a single component, and the components take turns to use  *)
(* the variables: `part` says whose they are.                                                   *)
EXTENDS Integers, Sequences, TLC

CONSTANTS
  Parts,   \* the components whose behaviours are looked at
  None, Sysmon, g1, g2, m1, m2, p1, t1, t2, t3, fn, tk, tm1, cx0, cx1, cx2

VARIABLES
  part,    \* the component of this behaviour
  x1, x2, x3, x4, x5, x6, x7, x8, x9, x10, x11, x12, x13, x14, x15, x16, x17, x18, x19

TimerKind == fn :> "func" @@ tk :> "tick" @@ tm1 :> "send"
ContextParent == cx0 :> None @@ cx1 :> cx0 @@ cx2 :> cx1
ContextOn == fn :> cx1
WaitDir == g1 :> "read" @@ g2 :> "write"
HeapWhen == [t \in 1..7 |-> (t + 1) \div 2]

\* What the items of a WebAssembly group do, and those of the group that one of them submits.
WasmPrograms ==
  {cx1 :> outer @@ cx2 :> inner :
     outer \in {<<"fork", "recv", "fail">>, <<"recv", "fork", "plain">>, <<"lock", "fork", "lock">>,
               <<"plain", "fail", "fail", "plain">>, <<"recv", "recv", "recv", "send">>},
     inner \in {<<"recv", "send">>, <<"lock", "fail">>}}

-----------------------------------------------------------------------------
\* A timer, a ticker and a function, and the sleep of g2, which is not counted in the boundary
\* that g1 ends.
Tmr ==
  INSTANCE Timers WITH Main <- g1, Inside <- {}, Outside <- {g2}, Timers <- {fn, tk, tm1},
    Kind <- TimerKind, Handles <- {fn, tm1}, Callers <- {g1, g2}, Naps <- {g2}, Waits <- {1},
    MaxNow <- 2, MaxOps <- 2, now <- x1, tm <- x2, refs <- x3, chan <- x4, stops <- x5,
    held <- x6, thread <- x7, kicked <- x8, ntimers <- x9, gs <- x10, live <- x11, waiter <- x12,
    fate <- x13, dead <- x14, falseAlarm <- x15, nops <- x16

\* One timer, and a call more.
One ==
  INSTANCE Timers WITH Main <- g1, Inside <- {}, Outside <- {g2}, Timers <- {tm1},
    Kind <- TimerKind, Handles <- {tm1}, Callers <- {g1, g2}, Naps <- {g2}, Waits <- {1},
    MaxNow <- 1, MaxOps <- 3, now <- x1, tm <- x2, refs <- x3, chan <- x4, stops <- x5,
    held <- x6, thread <- x7, kicked <- x8, ntimers <- x9, gs <- x10, live <- x11, waiter <- x12,
    fate <- x13, dead <- x14, falseAlarm <- x15, nops <- x16

\* A chain of three contexts, the last two with a deadline, and a function after the second.
Ctx ==
  INSTANCE Contexts WITH Ctxs <- {cx0, cx1, cx2}, Parent <- ContextParent, Timed <- {cx1, cx2},
    Afters <- {fn}, On <- ContextOn, Gs <- {g1, g2}, Inside <- {g1}, MaxOps <- 5, Thread <- t1,
    Boundary <- t2, ctx <- x1, after <- x2, own <- x3, todo <- x4, hold <- x5, ended <- x6,
    ran <- x7, dropped <- x8, nops <- x9

\* A reader and a writer on a descriptor that two sockets have, one after the other.
Poll ==
  INSTANCE Netpoll WITH Gs <- {g1, g2}, Dir <- WaitDir, MaxSockets <- 2, MaxWaits <- 2,
    MaxRefused <- 1, gen <- x1, stage <- x2, ready <- x3, reg <- x4, event <- x5, pd <- x6,
    w <- x7, nwaits <- x8, nrefused <- x9

Kick ==
  INSTANCE Preempt WITH Ps <- {p1}, Ms <- {m1, m2}, MaxKicks <- 2, MaxStopped <- 1, MaxOther <- 0,
    MaxMasks <- 0, preempt <- x1, armed <- x2, runm <- x3, status <- x4, seen <- x5,
    pending <- x6, parked <- x7, at <- x8, has <- x9, kicks <- x10, gate <- x11, ready <- x12,
    sig <- x13, masked <- x14, owes <- x15, mon <- x16, stopped <- x17, others <- x18, cut <- x19

\* Seven timers, some of them due at the same time.
Heap ==
  INSTANCE TimerHeap WITH Timers <- 1..7, When <- HeapWhen, heap <- x1, index <- x2

Wasm ==
  INSTANCE WasmPool WITH Main <- t1, Workers <- {t2, t3}, Programs <- WasmPrograms, Root <- cx1,
    Sub <- cx2, Capacity <- 1, HelpDepth <- 2, items <- x1, group <- x2, queue <- x3, stack <- x4,
    epoch <- x5, blocked <- x6, chanWaiters <- x7, verdicts <- x8, idle <- x9, cell <- x10,
    count <- x11, ran <- x12, trapped <- x13

\* Two threads and the blocks of three chains.
Small ==
  INSTANCE SmallHeap WITH Threads <- {t1, t2}, Batch <- 2, MaxBlocks <- 6, word0 <- x1,
    word1 <- x2, head <- x3, count <- x4, cache <- x5, lock <- x6, chains <- x7, chainCount <- x8,
    bump <- x9, at <- x10, arg <- x11, used <- x12, leaked <- x13

-----------------------------------------------------------------------------
\* The variables that a component with so many of its own leaves alone.
rest2 == <<part, x3, x4, x5, x6, x7, x8, x9, x10, x11, x12, x13, x14, x15, x16, x17, x18, x19>>
rest9 == <<part, x10, x11, x12, x13, x14, x15, x16, x17, x18, x19>>
rest13 == <<part, x14, x15, x16, x17, x18, x19>>
rest16 == <<part, x17, x18, x19>>
rest19 == <<part>>
all == <<part, x1, x2, x3, x4, x5, x6, x7, x8, x9, x10, x11, x12, x13, x14, x15, x16, x17, x18,
      x19>>

SumInit ==
  /\ part \in Parts
  /\ \/ part = "timers" /\ Tmr!Init /\ x17 = None /\ x18 = None /\ x19 = None
     \/ part = "timer" /\ One!Init /\ x17 = None /\ x18 = None /\ x19 = None
     \/ part = "contexts" /\ Ctx!Init /\ x10 = None /\ x11 = None /\ x12 = None /\ x13 = None
        /\ x14 = None /\ x15 = None /\ x16 = None /\ x17 = None /\ x18 = None /\ x19 = None
     \/ part = "netpoll" /\ Poll!Init /\ x10 = None /\ x11 = None /\ x12 = None /\ x13 = None
        /\ x14 = None /\ x15 = None /\ x16 = None /\ x17 = None /\ x18 = None /\ x19 = None
     \/ part = "preempt" /\ Kick!Init
     \/ part = "heap" /\ Heap!Init /\ x3 = None /\ x4 = None /\ x5 = None /\ x6 = None
        /\ x7 = None /\ x8 = None /\ x9 = None /\ x10 = None /\ x11 = None /\ x12 = None
        /\ x13 = None /\ x14 = None /\ x15 = None /\ x16 = None /\ x17 = None /\ x18 = None
        /\ x19 = None
     \/ part = "wasm" /\ Wasm!Init /\ x14 = None /\ x15 = None /\ x16 = None /\ x17 = None
        /\ x18 = None /\ x19 = None
     \/ part = "small" /\ Small!Init /\ x14 = None /\ x15 = None /\ x16 = None /\ x17 = None
        /\ x18 = None /\ x19 = None

SumNext ==
  \/ part = "timers" /\ Tmr!Next /\ UNCHANGED rest16
  \/ part = "timer" /\ One!Next /\ UNCHANGED rest16
  \/ part = "contexts" /\ Ctx!Next /\ UNCHANGED rest9
  \/ part = "netpoll" /\ Poll!Next /\ UNCHANGED rest9
  \/ part = "preempt" /\ Kick!Next /\ UNCHANGED rest19
  \/ part = "heap" /\ Heap!Next /\ UNCHANGED rest2
  \/ part = "wasm" /\ Wasm!Next /\ UNCHANGED rest13
  \/ part = "small" /\ Small!Next /\ UNCHANGED rest13
  \/ part \in {"timers", "timer", "contexts", "netpoll", "preempt", "wasm"} /\ UNCHANGED all   \* these may come to rest

SumSpec == SumInit /\ [][SumNext]_all

-----------------------------------------------------------------------------
\* The variables of each component keep their types.
SumTypeOK ==
  /\ part = "timers" => Tmr!TypeOK
  /\ part = "timer" => One!TypeOK
  /\ part = "contexts" => Ctx!TypeOK
  /\ part = "netpoll" => Poll!TypeOK
  /\ part = "preempt" => Kick!TypeOK
  /\ part = "wasm" => Wasm!TypeOK

\* tzr_sched.ntimers counts the timers that pend and those whose firing is not accounted for yet,
\* whatever stop, reset and free raced with it. So the detector never reports while a timer pends
\* or a function that fired is not started yet (tzr_timers_run counts down after tzr_spawn), and
\* when every G is parked and no timer is left it has reported (tzr_timers_gone looks again).
TimersKeepTheVerdict ==
  /\ part = "timers" => Tmr!PendingIsCounted /\ Tmr!NoFalseAlarm /\ Tmr!NoSilentDeadlock
  /\ part = "timer" => One!PendingIsCounted /\ One!NoFalseAlarm /\ One!NoSilentDeadlock

\* A function given to Time.after_func is run once or dropped once or still kept, though a firing,
\* a stop, a reset, the drop of the handle and the end of the boundary compete for it; after a
\* stop or reset has returned the channel holds no time that was sent before; and when
\* tsuzuri_tz_boundary_leave has freed a scope nothing counted in it runs or will, while its wait
\* lasts only as long as something is.
TimersFireOnce ==
  /\ part = "timers" => /\ Tmr!FunctionOnce /\ Tmr!StoppedIsSilent
                        /\ Tmr!WaiterHasWork /\ Tmr!BoundaryIsQuiet
  /\ part = "timer" => One!StoppedIsSilent

\* refs of a context is the number of the things that the comment of tzr_ctx lists and of the
\* references that calls under way still let go, so that nothing touches a context or an AfterFunc
\* that is freed, none is freed twice and none is leaked.
ContextsAreFreedOnce == part = "contexts" => Ctx!RefsAreCounted /\ Ctx!NoUseAfterFree

\* Every linked context below a cancelled one is cancelled; once the calls have returned, a
\* cancelled context has no timer in the heap and its functions were started unless they were
\* stopped; a function is run or dropped once, not both (tzr_ctx_cancel against
\* tsuzuri_tz_ctx_new, _after, _release and the deadline).
CancelReachesAll ==
  part = "contexts" =>
    /\ Ctx!CancelReachesAll /\ Ctx!DeadlineIsStopped
    /\ Ctx!CancelStartsAfter /\ Ctx!FunctionOnce

\* A linked waiter is covered by the kernel's registration, or by an event that the netpoller
\* holds and after which it registers again; nothing waits on a socket whose close has passed; an
\* event is never taken for one of the socket that has the descriptor now; a wait's record on its
\* G's stack outlives its links; and a G that parked is woken once (tzr_netpoll_*).
NetWaitsAreServed ==
  part = "netpoll" =>
    /\ Poll!WaiterIsCovered /\ Poll!NoWaitOnClosed /\ Poll!EventIsOfThisSocket
    /\ Poll!RecordIsLive /\ Poll!WokenOnce

\* The count of preemption requests is never below the requests that wait and comes back to them;
\* while sysmon sleeps no request is left that only it would take back and every P is idle, or
\* someone is about to wake it; a kick that no handler took has a signal on its way, or later
\* kicks would wait for one that never comes (tzr_preempt_ask, tzr_sysmon, tzr_async_kick).
PreemptionIsAccounted ==
  part = "preempt" =>
    /\ Kick!CountIsOfRequests /\ Kick!SleepsWithoutRequests
    /\ Kick!SleepsWhileIdle /\ Kick!KickHasSignal

\* The first timer is the earliest, the rest are in heap order and each is where its index says,
\* after any sequence of pushes and removals from the middle (tzr_heap_remove trusts t->index).
HeapIsOrdered == part = "heap" => Heap!EarliestIsFirst /\ Heap!IndexIsTrue

\* `blocked` counts the threads that sleep on this very epoch, each once, and who sleeps on it has
\* nothing to do: a verdict of deadlock is neither false nor missed. A group on its joiner's stack
\* outlives its last use, and of a group that is over every item ran once, or at least those
\* before the failure that is reported (register_blocked, progress, join_one, release).
WasmPoolIsSound ==
  part = "wasm" =>
    /\ Wasm!BlockedIsExact /\ Wasm!SleeperHasNothing
    /\ Wasm!GroupOutlivesItsUse /\ Wasm!ItemsRunOnce

\* Every block that was cut from a region is in one place, in use, in one cache or in one chain,
\* or lost to a thread that could make no cache, whoever frees it and whoever holds the lock; and
\* the counts that a flush and a refill go by are true (tz_small_flush, tz_small_take).
BlockIsOnce == part = "small" => Small!BlockIsOnce /\ Small!CountsAreTrue
=============================================================================
