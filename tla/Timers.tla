------------------------------- MODULE Timers -------------------------------
(* The timers of runtime/tzroutine.c (TZ05): one heap under tzr_timers.lock, *)
(* the thread that fires what is due, the handles that stop, reset and free  *)
(* a timer, Time.sleep, and the end of a boundary, which stops the timers    *)
(* made in it.  The deadlock detector counts pending timers (ntimers), so    *)
(* the order in which a firing wakes, spawns and counts down matters.        *)
(*                                                                           *)
(* A critical section of tzr_timers.lock is one step, except that the timer  *)
(* thread fires a batch timer by timer while it holds the lock.  The heap is *)
(* the set of pending timers: its array is the subject of TimerHeap.  A G    *)
(* has an M of its own, which goes idle (and looks for a deadlock) some time *)
(* after the G parks.                                                        *)
EXTENDS Integers, FiniteSets

CONSTANTS
    Main,       \* the G whose boundary it is
    Inside,     \* tzroutines counted in the boundary
    Outside,    \* tzroutines that are not
    Timers,     \* the records that the program may make
    Kind,       \* of each: "send", "tick" or "func"
    Handles,    \* the records that a Timer or Ticker handle owns
    Callers,    \* the Gs that use timers
    Naps,       \* the Gs that call Time.sleep
    Waits,      \* the durations a program asks for
    MaxNow,     \* bound: the clock stops here
    MaxOps,     \* bound: the calls of the program
    None

Funcs == {t \in Timers : Kind[t] = "func"}
Gs == {Main} \cup Inside \cup Outside \cup Funcs  \* a function's tzroutine has its timer's name
Nap(g) == <<g>>                                   \* the WAKE timer on g's stack
Records == Timers \cup {Nap(g) : g \in Naps}

VARIABLES
    now,
    tm,          \* state, when, scope and box of each record
    refs,        \* the references to each record's channel
    chan,        \* the time in its buffer of one: how often the timer was stopped when it was sent
    stops,       \* history: how often the timer was stopped or reset
    held,        \* the timer thread holds tzr_timers.lock
    thread,      \* the timer thread
    kicked,
    ntimers,
    gs,          \* at, back, scope, up (its M is not idle) and on (what it waits for or lets go)
    live,        \* scope->live of the boundary
    waiter,      \* scope->waiter is set
    fate,        \* history: how often each function was run and dropped
    dead,        \* the detector reported a deadlock and trapped
    falseAlarm,  \* history: ... while the timer thread was about to wake somebody
    nops

chanVars == <<refs, chan, stops>>
threadVars == <<held, thread, kicked>>
scopeVars == <<live, waiter>>
endVars == <<fate, dead, falseAlarm>>
vars == <<now, tm, chanVars, threadVars, ntimers, gs, scopeVars, endVars, nops>>

Heap == {t \in Records : tm[t].state = "pending"}
Earliest(heap) == {t \in heap : \A u \in heap : tm[t].when <= tm[u].when}

KindOf(t) == IF t \in Timers THEN Kind[t] ELSE "wake"
Owned(t) == t \in Handles

(* tzr_deadline: `ns` from now.                                              *)
Deadline(ns) == now + ns

-----------------------------------------------------------------------------
(* The pieces of the operations below.                                       *)

(* tzr_heap_push under the lock, of a record that becomes r: the thread is   *)
(* kicked when t is the earliest of all.                                     *)
Push(t, r) ==
    /\ tm' = [tm EXCEPT ![t] = [r EXCEPT !.state = "pending"]]
    /\ kicked' = (kicked \/ \A u \in Heap \ {t} : r.when < tm[u].when)

Pends(t) == tm[t].state = "pending"

(* tzr_timer_take: what it leaves of the record.                             *)
Taken(t) ==
    [tm[t] EXCEPT !.state = IF Pends(t) THEN "stopped" ELSE @,
                  !.scope = IF Pends(t) /\ KindOf(t) # "func" THEN None ELSE @]

(* tzr_ready.                                                                *)
Readied(state) == [state EXCEPT !.at = "runnable", !.on = None]

Receivers(t) == {g \in Gs : gs[g].at = "parked" /\ gs[g].on = t}

(* tzr_timer_offer: a waiting receiver takes the time, or the buffer keeps   *)
(* it, or it is dropped.                                                     *)
Offer(t) ==
    \/ /\ Receivers(t) = {}
       /\ chan' = [chan EXCEPT ![t] = IF @ = None THEN stops[t] ELSE @]
       /\ UNCHANGED gs
    \/ /\ \E g \in Receivers(t) : gs' = [gs EXCEPT ![g] = Readied(@)]
       /\ UNCHANGED chan

(* tzr_checkdead, of what concerns timers.                                   *)
Stuck(states) ==
    /\ \A g \in Gs : ~states[g].up /\ states[g].at # "runnable"
    /\ \E g \in Gs : states[g].at = "parked"
    /\ ntimers = 0
InFlight == thread.at = "spawn" \/ Heap # {}
CheckDead(states) ==
    /\ dead' = Stuck(states)
    /\ falseAlarm' = (falseAlarm \/ (Stuck(states) /\ InFlight))

Init ==
    /\ now = 0
    /\ tm = [t \in Records |-> [state |-> "new", when |-> 0, scope |-> None,
                                box |-> KindOf(t) = "func"]]
    /\ refs = [t \in Timers |-> IF Owned(t) THEN 1 ELSE 2]
    /\ chan = [t \in Timers |-> None]
    /\ stops = [t \in Timers |-> 0]
    /\ held = FALSE
    /\ thread = [at |-> "run", gone |-> 0, fn |-> None, next |-> None]
    /\ kicked = FALSE
    /\ ntimers = 0
    /\ gs = [g \in Gs |->
                [at |-> IF g \in Funcs THEN "none" ELSE "body", back |-> "body",
                 scope |-> IF g \in Outside THEN "root" ELSE "inner",
                 up |-> g \notin Funcs, on |-> None]]
    /\ live = Cardinality(Inside)
    /\ waiter = FALSE
    /\ fate = [t \in Funcs |-> [ran |-> 0, dropped |-> 0]]
    /\ dead = FALSE
    /\ falseAlarm = FALSE
    /\ nops = 0

-----------------------------------------------------------------------------
(* The calls of the program, by a G that runs its own code (`drop` is the    *)
(* code of a function's drop, which the end of the boundary runs).           *)

Running(g) == ~dead /\ gs[g].at \in {"body", "drop"}
Call(g) == /\ Running(g)
           /\ ~held
           /\ nops < MaxOps
           /\ nops' = nops + 1

(* tsuzuri_tz_timer_new: listed in the caller's boundary and armed.          *)
New(g, t, ns) ==
    /\ Call(g)
    /\ tm[t].state = "new"
    /\ Push(t, [tm[t] EXCEPT !.when = Deadline(ns), !.scope = gs[g].scope])
    /\ ntimers' = ntimers + 1
    /\ UNCHANGED <<now, chanVars, held, thread, gs, scopeVars, endVars>>

(* After a call took a pending timer out, tzr_timers_gone(1).  The caller    *)
(* runs, so its look at the deadlock detector finds nothing.                 *)
CountDownAlways(t) == ntimers' = ntimers - 1
CountDown(t) == ntimers' = IF Pends(t) THEN ntimers - 1 ELSE ntimers

Usable(t) == Owned(t) /\ tm[t].state \notin {"new", "freed"}

(* tsuzuri_tz_timer_stop with tzr_timer_discard (`left` is what it leaves).  *)
StopWith(g, t, left) ==
    /\ Call(g)
    /\ Usable(t)
    /\ tm' = [tm EXCEPT ![t] = Taken(t)]
    /\ chan' = [chan EXCEPT ![t] = left]
    /\ stops' = [stops EXCEPT ![t] = @ + 1]
    /\ CountDown(t)
    /\ UNCHANGED <<now, refs, threadVars, gs, scopeVars, endVars>>
StopKeepsTime(g, t) == StopWith(g, t, chan[t])
Stop(g, t) == StopWith(g, t, None)

(* tsuzuri_tz_timer_reset: a function that has run or was dropped has        *)
(* nothing to start; a timer that still pends is counted already.            *)
ResetWith(g, t, ns, more) ==
    /\ Call(g)
    /\ Usable(t)
    /\ KindOf(t) = "func" => tm[t].box
    /\ Push(t, [Taken(t) EXCEPT !.when = Deadline(ns), !.scope = gs[g].scope])
    /\ chan' = [chan EXCEPT ![t] = None]
    /\ stops' = [stops EXCEPT ![t] = @ + 1]
    /\ ntimers' = ntimers + more
    /\ UNCHANGED <<now, refs, held, thread, gs, scopeVars, endVars>>
ResetCountsAgain(g, t, ns) == ResetWith(g, t, ns, 1)
Reset(g, t, ns) == ResetWith(g, t, ns, IF Pends(t) THEN 0 ELSE 1)

(* What drops a function that has not run.                                   *)
Drop(t) == fate' = IF tm[t].box THEN [fate EXCEPT ![t].dropped = @ + 1] ELSE fate

(* tsuzuri_tz_timer_free, the drop of a handle.                              *)
Free(g, t) ==
    /\ Call(g)
    /\ Usable(t)
    /\ Receivers(t) = {}
    /\ tm' = [tm EXCEPT ![t] = [Taken(t) EXCEPT !.state = "freed", !.scope = None, !.box = FALSE]]
    /\ refs' = [refs EXCEPT ![t] = @ - 1]
    /\ CountDown(t)
    /\ Drop(t)
    /\ UNCHANGED <<now, chan, stops, threadVars, gs, scopeVars, dead, falseAlarm>>

(* The program drops its handle of the channel of a Time.after or Time.tick. *)
DropChannel(g, t) ==
    /\ Call(g)
    /\ ~Owned(t) /\ tm[t].state # "new" /\ refs[t] \in {1, 2} /\ Receivers(t) = {}
    /\ tm[t].state = "freed" => refs[t] = 1
    /\ tm[t].state # "freed" => refs[t] = 2
    /\ refs' = [refs EXCEPT ![t] = @ - 1]
    /\ UNCHANGED <<now, tm, chan, stops, threadVars, ntimers, gs, scopeVars, endVars>>

Readable(t) == /\ KindOf(t) # "func" /\ tm[t].state # "new"
               /\ refs[t] = IF tm[t].state = "freed" \/ Owned(t) THEN 1 ELSE 2

(* A receive from a timer's channel: the time in the buffer, or a wait.      *)
Receive(g, t) ==
    /\ Call(g)
    /\ Readable(t)
    /\ IF chan[t] # None
         THEN chan' = [chan EXCEPT ![t] = None] /\ UNCHANGED gs
         ELSE gs' = [gs EXCEPT ![g] = [@ EXCEPT !.at = "parked", !.on = t, !.back = gs[g].at]]
              /\ UNCHANGED chan
    /\ UNCHANGED <<now, tm, refs, stops, threadVars, ntimers, scopeVars, endVars>>

(* tsuzuri_tz_sleep: the timer is counted before tzr_park lets the lock go.  *)
Sleep(g, ns) ==
    /\ Call(g)
    /\ Push(Nap(g), [tm[Nap(g)] EXCEPT !.when = Deadline(ns)])
    /\ ntimers' = ntimers + 1
    /\ gs' = [gs EXCEPT ![g] = [@ EXCEPT !.at = "parked", !.on = Nap(g), !.back = gs[g].at]]
    /\ UNCHANGED <<now, chanVars, held, thread, scopeVars, endVars>>

-----------------------------------------------------------------------------
(* Scheduling, of which Scheduler is the model: a readied G runs, and the M  *)
(* of a parked one goes idle.                                                *)

Run(g) ==
    /\ ~dead /\ gs[g].at = "runnable"
    /\ gs' = [gs EXCEPT ![g] = [@ EXCEPT !.at = gs[g].back, !.up = TRUE]]
    /\ UNCHANGED <<now, tm, chanVars, threadVars, ntimers, scopeVars, endVars, nops>>

GoIdle(g) ==
    /\ ~dead /\ gs[g].up /\ gs[g].at \in {"parked", "over", "left"}
    /\ gs' = [gs EXCEPT ![g].up = FALSE]
    /\ CheckDead([gs EXCEPT ![g].up = FALSE])
    /\ UNCHANGED <<now, tm, chanVars, threadVars, ntimers, scopeVars, fate, nops>>

(* One more or one less of what the end of the boundary waits for; the last  *)
(* one wakes it (tzr_after_exit, tzr_spawn_reserve).                         *)
LeaveWhen(g, count) ==
    LET last == gs[g].scope = "inner" /\ live = count /\ waiter
        over == [gs EXCEPT ![g].at = "over"]
    IN  /\ live' = IF gs[g].scope = "inner" THEN live - 1 ELSE live
        /\ waiter' = (waiter /\ ~last)
        /\ gs' = IF last THEN [over EXCEPT ![Main] = Readied(@)] ELSE over

(* Variant with a bug: the count is compared before it falls.                *)
LeaveLate(g) == LeaveWhen(g, 0)
Leave(g) == LeaveWhen(g, 1)

(* A tzroutine ends.                                                         *)
Exit(g) ==
    /\ ~dead /\ g # Main /\ gs[g].at = "body"
    /\ Leave(g)
    /\ UNCHANGED <<now, tm, chanVars, threadVars, ntimers, endVars, nops>>

(* Time passes.                                                              *)
Tick ==
    /\ ~dead /\ now < MaxNow
    /\ now' = now + 1
    /\ UNCHANGED <<tm, chanVars, threadVars, ntimers, gs, scopeVars, endVars, nops>>

-----------------------------------------------------------------------------
(* The end of the boundary: tsuzuri_tz_boundary_leave.                       *)

EndBody ==
    /\ ~dead /\ gs[Main].at = "body"
    /\ gs' = [gs EXCEPT ![Main].at = "wait"]
    /\ UNCHANGED <<now, tm, chanVars, threadVars, ntimers, scopeVars, endVars, nops>>

(* tzr_scope_wait.                                                           *)
ScopeWait ==
    /\ ~dead /\ gs[Main].at = "wait"
    /\ IF live = 0
         THEN gs' = [gs EXCEPT ![Main].at = "settle"] /\ UNCHANGED waiter
         ELSE /\ gs' = [gs EXCEPT ![Main] = [@ EXCEPT !.at = "parked", !.back = "wait", !.on = Main]]
              /\ waiter' = TRUE
    /\ UNCHANGED <<now, tm, chanVars, threadVars, ntimers, live, endVars, nops>>

Listed == {t \in Timers : tm[t].scope = "inner"}

(* tzr_boundary_settle takes one timer t that it lists: a handle keeps the   *)
(* stopped record, another's is freed with its reference to the channel; a   *)
(* function is dropped.                                                      *)
SettleOne(t) ==
    /\ tm' = [tm EXCEPT ![t] = [Taken(t) EXCEPT !.scope = None, !.box = FALSE,
                                                 !.state = IF Owned(t) THEN @ ELSE "freed"]]
    /\ refs' = IF Owned(t) THEN refs ELSE [refs EXCEPT ![t] = @ - 1]
    /\ CountDown(t)
    /\ Drop(t)
    /\ gs' = IF tm[t].box THEN [gs EXCEPT ![Main].at = "drop"] ELSE gs

SettleWhen(live0) ==
    /\ ~dead /\ gs[Main].at = "settle" /\ ~held
    /\ \/ /\ ~live0
          /\ gs' = [gs EXCEPT ![Main].at = "wait"]
          /\ UNCHANGED <<tm, refs, ntimers, fate>>
       \/ /\ live0 /\ Listed = {}
          /\ gs' = [gs EXCEPT ![Main].at = "left"]
          /\ UNCHANGED <<tm, refs, ntimers, fate>>
       \/ /\ live0
          /\ \E t \in Listed : SettleOne(t)
    /\ UNCHANGED <<now, chan, stops, threadVars, scopeVars, dead, falseAlarm, nops>>
SettleBlind == SettleWhen(TRUE)
Settle == SettleWhen(live = 0)

(* The drop of the function returns.                                         *)
EndDrop ==
    /\ ~dead /\ gs[Main].at = "drop"
    /\ gs' = [gs EXCEPT ![Main].at = "settle"]
    /\ UNCHANGED <<now, tm, chanVars, threadVars, ntimers, scopeVars, endVars, nops>>

-----------------------------------------------------------------------------
(* The timer thread: tzr_timerproc and tzr_timers_run.                       *)

At(l) == ~dead /\ thread.at = l

Due == IF thread.fn # None THEN {} ELSE {t \in Earliest(Heap) : tm[t].when <= now}
Pop(t, r) == tm' = [tm EXCEPT ![t] = r]
Fired(t) == [tm[t] EXCEPT !.state = "fired"]
OneGone == thread' = [thread EXCEPT !.gone = @ + 1]

FireWake(t) ==
    /\ KindOf(t) = "wake"
    /\ Pop(t, Fired(t))
    /\ OneGone
    /\ gs' = [g \in Gs |-> IF gs[g].at = "parked" /\ gs[g].on = t THEN Readied(gs[g]) ELSE gs[g]]
    /\ UNCHANGED <<chanVars, kicked, live, fate>>

FireSend(t) ==
    /\ KindOf(t) = "send"
    /\ Offer(t)
    /\ OneGone
    /\ Pop(t, [Fired(t) EXCEPT !.scope = None, !.state = IF Owned(t) THEN @ ELSE "freed"])
    /\ refs' = IF Owned(t) THEN refs ELSE [refs EXCEPT ![t] = @ - 1]
    /\ UNCHANGED <<stops, kicked, live, fate>>

(* A ticker goes back into the heap, a period later; one whose channel       *)
(* nobody else holds goes.                                                   *)
FireTick(t, period) ==
    /\ KindOf(t) = "tick"
    /\ IF ~Owned(t) /\ refs[t] = 1
         THEN /\ Pop(t, [Fired(t) EXCEPT !.scope = None, !.state = "freed"])
              /\ refs' = [refs EXCEPT ![t] = 0]
              /\ OneGone
              /\ UNCHANGED <<chan, gs, kicked>>
         ELSE /\ Offer(t)
              /\ Push(t, [tm[t] EXCEPT !.when = IF @ + period <= now THEN Deadline(period)
                                                                     ELSE @ + period])
              /\ UNCHANGED <<refs, thread>>
    /\ UNCHANGED <<stops, live, fate>>

(* The function is counted in its boundary before the lock goes.             *)
FireFuncWith(t, box) ==
    /\ KindOf(t) = "func"
    /\ Pop(t, [Fired(t) EXCEPT !.scope = None, !.box = box])
    /\ gs' = [gs EXCEPT ![t].scope = IF tm[t].scope = None THEN "root" ELSE tm[t].scope]
    /\ thread' = [thread EXCEPT !.gone = @ + 1, !.fn = t]
    /\ live' = IF tm[t].scope = "inner" THEN live + 1 ELSE live
    /\ fate' = [fate EXCEPT ![t].ran = @ + 1]
    /\ UNCHANGED <<chanVars, kicked>>
FireFuncKeepsBox(t) == FireFuncWith(t, TRUE)
FireFunc(t) == FireFuncWith(t, FALSE)

Fire ==
    /\ At("run")
    /\ held' = TRUE
    /\ \E t \in Due : \/ FireWake(t)
                      \/ FireSend(t)
                      \/ \E period \in Waits : FireTick(t, period)
                      \/ FireFunc(t)
    /\ UNCHANGED <<now, ntimers, waiter, dead, falseAlarm, nops>>

(* Nothing more is due, or a function is to be started.                      *)
NextDeadline == IF Heap = {} THEN None ELSE tm[CHOOSE t \in Earliest(Heap) : TRUE].when
ReleaseWith(gone) ==
    /\ At("run") /\ Due = {}
    /\ held' = FALSE
    /\ thread' = [thread EXCEPT !.at = IF thread.fn # None THEN "spawn" ELSE "gone",
                                !.next = NextDeadline, !.gone = gone]
    /\ ntimers' = ntimers - (thread.gone - gone)
    /\ UNCHANGED <<now, tm, chanVars, kicked, gs, scopeVars, endVars, nops>>
ReleaseCountsFirst == ReleaseWith(0)
Release == ReleaseWith(thread.gone)

(* tzr_spawn, reserved.                                                      *)
Spawn ==
    /\ At("spawn")
    /\ gs' = [gs EXCEPT ![thread.fn].at = "runnable"]
    /\ thread' = [thread EXCEPT !.at = "gone"]
    /\ UNCHANGED <<now, tm, chanVars, held, kicked, ntimers, scopeVars, endVars, nops>>

(* tzr_timers_gone: with none left, the detector looks again.                *)
AfterGone == IF thread.fn # None THEN "run" ELSE "decide"
GoneThen(look) ==
    /\ At("gone")
    /\ ntimers' = ntimers - thread.gone
    /\ thread' = [thread EXCEPT !.at = IF look THEN "look" ELSE AfterGone, !.gone = 0,
                                !.fn = IF look THEN @ ELSE None]
    /\ UNCHANGED <<now, tm, chanVars, held, kicked, gs, scopeVars, endVars, nops>>
GoneQuietly == GoneThen(FALSE)
Gone == GoneThen(thread.gone > 0 /\ ntimers = thread.gone)

Look ==
    /\ At("look")
    /\ CheckDead(gs)
    /\ thread' = [thread EXCEPT !.at = AfterGone, !.fn = None]
    /\ UNCHANGED <<now, tm, chanVars, held, kicked, ntimers, gs, scopeVars, fate, nops>>

(* Under wake_mutex: no wait when a push kicked since the heap was read or   *)
(* when the deadline has come.                                               *)
Again == thread.next # None /\ thread.next <= now
DecideWith(again) ==
    /\ At("decide")
    /\ thread' = [thread EXCEPT !.at = IF again THEN "run" ELSE "wait"]
    /\ kicked' = FALSE
    /\ UNCHANGED <<now, tm, chanVars, held, ntimers, gs, scopeVars, endVars, nops>>
DecideKickless == DecideWith(Again)
Decide == DecideWith(kicked \/ Again)

Wake ==
    /\ At("wait")
    /\ kicked \/ Again
    /\ thread' = [thread EXCEPT !.at = "run"]
    /\ kicked' = FALSE
    /\ UNCHANGED <<now, tm, chanVars, held, ntimers, gs, scopeVars, endVars, nops>>

-----------------------------------------------------------------------------
ThreadStep == \/ Fire \/ Release \/ Spawn \/ Gone \/ Look \/ Decide \/ Wake
EndStep == ScopeWait \/ Settle \/ EndDrop

Calls(g) ==
    \E t \in Timers :
        \/ \E ns \in Waits : New(g, t, ns) \/ Reset(g, t, ns)
        \/ Stop(g, t) \/ Free(g, t) \/ DropChannel(g, t) \/ Receive(g, t)

Next ==
    \/ \E g \in Callers : Calls(g)
    \/ \E g \in Gs : Run(g) \/ GoIdle(g) \/ Exit(g)
    \/ \E g \in Naps, ns \in Waits : Sleep(g, ns)
    \/ EndBody \/ EndStep
    \/ Tick
    \/ ThreadStep

Spec == Init /\ [][Next]_vars

(* Time goes on, the timer thread is scheduled, and so is every G that can   *)
(* run and the end of the boundary once it was reached.                      *)
FairSpec ==
    /\ Spec
    /\ WF_vars(Tick)
    /\ WF_vars(ThreadStep)
    /\ WF_vars(EndStep)
    /\ \A g \in Gs : WF_vars(Run(g)) /\ WF_vars(GoIdle(g))

-----------------------------------------------------------------------------
(* The types of the variables.                                               *)
TypeOK ==
    /\ now \in 0..MaxNow
    /\ \A t \in Records : /\ tm[t].state \in {"new", "pending", "fired", "stopped", "freed"}
                          /\ tm[t].scope \in {None, "inner", "root"}
    /\ \A t \in Timers : refs[t] \in 0..2
    /\ ntimers \in 0..2 * Cardinality(Records)
    /\ live \in 0..Cardinality(Inside \cup Funcs)
    /\ thread.at \in {"run", "spawn", "gone", "look", "decide", "wait"}

(* tzr_sched.ntimers counts the timers that pend and those whose firing is   *)
(* not accounted for yet, whatever stop, reset and free raced with it: too   *)
(* high and a deadlock is never reported, too low and it is reported while a *)
(* timer would wake a G.                                                     *)
PendingIsCounted == ntimers = Cardinality(Heap) + thread.gone

(* The detector never reports while a timer pends or a function that fired   *)
(* is not started yet: tzr_timers_run counts down only after tzr_spawn.      *)
NoFalseAlarm == ~falseAlarm

(* When every G is parked, no timer pends and the timer thread has nothing   *)
(* left to do, the deadlock was reported: tzr_timers_gone looks again, since *)
(* the G that the last timer woke may have parked before the count fell.     *)
NoSilentDeadlock ==
    (Stuck(gs) /\ Heap = {} /\ thread.at \in {"run", "decide", "wait"} /\ thread.fn = None)
        => dead

(* A function given to Time.after_func is run once or dropped once or still  *)
(* kept, never two of these, though a firing, a stop, a reset, the drop of   *)
(* the handle and the end of the boundary compete for it.                    *)
FunctionOnce ==
    \A t \in Funcs : fate[t].ran + fate[t].dropped = IF tm[t].box THEN 0 ELSE 1

(* Once tsuzuri_tz_timer_stop or _reset has returned, the channel holds no   *)
(* time that was sent before (the Go 1.23 rule the comment names).           *)
StoppedIsSilent == \A t \in Timers : chan[t] # None => chan[t] = stops[t]

(* When tsuzuri_tz_boundary_leave has returned, and freed the scope, no      *)
(* timer is listed in the scope and nothing counted in it runs or is about   *)
(* to run: a function that fires is counted before the timers' lock goes.    *)
BoundaryIsQuiet ==
    gs[Main].at = "left" =>
        /\ \A t \in Timers : tm[t].scope # "inner"
        /\ \A g \in Gs \ {Main} : gs[g].scope = "inner" => gs[g].at \in {"none", "over"}
        /\ thread.fn # None => gs[thread.fn].scope # "inner" \/ gs[thread.fn].at = "over"

(* The end of a scope waits only while something counted in it is left: the  *)
(* last one to end wakes it, however it ended (tzr_after_exit), and the wait *)
(* looks again, since a function that fires counts itself in meanwhile.      *)
WaiterHasWork == waiter => live > 0

Overdue(t) == Pends(t) /\ tm[t].when <= now

(* A timer that is due is fired, stopped or put off: no wake-up of the timer *)
(* thread is lost between reading the heap and waiting (`kicked`).           *)
DueFires == \A t \in Records : []<>~Overdue(t)
=============================================================================
