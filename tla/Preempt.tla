------------------------------ MODULE Preempt -------------------------------
(***************************************************************************)
(* Sysmon's side of the scheduler: the requests that it makes of the Ps     *)
(* (tsuzuri_tz_preempt_pending and p->preempt), the signals with which it   *)
(* stops a G that does not answer (SIGURG: async_kicks, async_gate), the Ps *)
(* that it takes from blocking calls, and how it sleeps while no P runs.    *)
(* src/runtime/tzroutine.c, 955-970 and 1140-1200, 1950-2045, 2340-2770.    *)
(*                                                                         *)
(* Left out: what the handler saves and restores (a G stops in generated    *)
(* code and goes on there), the run queues, and the clock: a P whose G has  *)
(* been seen in two rounds may or may not be asked, as if the 10 ms had     *)
(* passed and work waited.  Scheduler models the queues and the Ms.         *)
(***************************************************************************)
EXTENDS Naturals, FiniteSets

CONSTANTS
  Ps,          \* the processors
  Ms,          \* the threads that run Gs
  Sysmon,      \* the thread of tzr_sysmon
  None,
  MaxKicks,    \* bound on the kicks counted for one M
  MaxStopped,  \* bound on the Gs stopped by a signal at a time
  MaxOther,    \* how often the program raises SIGURG itself
  MaxMasks     \* how many Ms' threads the program blocks SIGURG on

VARIABLES
  preempt, armed, runm, status, seen,     \* of each P; seen: schedtick = seen_tick
  pending, parked,                        \* the two global words
  at, has, kicks, gate, ready, sig, masked,  \* of each M
  owes,      \* who took a request and has not yet counted it down
  mon,       \* where sysmon is: its step, the P and the M it looks at, `before`
  stopped,   \* Gs that a signal stopped and that wait to run again
  others, cut    \* signals of the program's own; a signal of sysmon hit a blocking call

pvars == <<preempt, armed, runm, status, seen>>
mvars == <<at, has, kicks, gate, ready, sig, masked>>
vars == <<pvars, mvars, pending, parked, owes, mon, stopped, others, cut>>

\* Where an M is.  "gen" is generated code and "rt" the runtime or the C library under a G;
\* "find" is the scheduler with a P and no G; "enter" waits for its kicks, gate closed; "acq" and
\* "wait" are back from a call whose P sysmon took; "entry" to "resume" are tzr_async_entry.
Places == {"idle", "kicking", "rekick", "find", "exec", "gen", "rt", "yield", "enter", "call",
           "acq", "wait", "entry", "ystop", "publish", "resume", "lost"}
Steps == {"round", "sweep", "parking", "asleep", "ask", "failed", "kick", "arm", "count", "gate",
          "back", "send"}

TypeOK ==
  /\ preempt \in [Ps -> BOOLEAN] /\ armed \in [Ps -> BOOLEAN] /\ seen \in [Ps -> BOOLEAN]
  /\ runm \in [Ps -> Ms \union {None}] /\ status \in [Ps -> {"run", "call", "idle"}]
  /\ pending \in 0..Cardinality(Ps) + Cardinality(Ms) + 2 /\ parked \in BOOLEAN
  /\ at \in [Ms -> Places] /\ has \in [Ms -> Ps \union {None}]
  /\ kicks \in [Ms -> 0..MaxKicks] /\ gate \in [Ms -> BOOLEAN] /\ ready \in [Ms -> BOOLEAN]
  /\ sig \in [Ms -> SUBSET {"sysmon", "self", "other"}] /\ masked \in [Ms -> BOOLEAN]
  /\ owes \subseteq Ms \union {Sysmon}
  /\ mon \in [at: Steps, p: Ps \union {None}, m: Ms \union {None}, before: 0..MaxKicks]
  /\ stopped \in 0..MaxStopped /\ others \in 0..MaxOther /\ cut \in BOOLEAN

AtRound == [at |-> "round", p |-> None, m |-> None, before |-> 0]

\* Every P is idle and every M asleep; sysmon has just been started.
Init ==
  /\ preempt = [p \in Ps |-> FALSE] /\ armed = [p \in Ps |-> FALSE]
  /\ seen = [p \in Ps |-> FALSE] /\ runm = [p \in Ps |-> None]
  /\ status = [p \in Ps |-> "idle"] /\ pending = 0 /\ parked = FALSE
  /\ at = [m \in Ms |-> "idle"] /\ has = [m \in Ms |-> None] /\ kicks = [m \in Ms |-> 0]
  /\ gate = [m \in Ms |-> FALSE] /\ ready = [m \in Ms |-> TRUE] /\ sig = [m \in Ms |-> {}]
  /\ masked = [m \in Ms |-> FALSE] /\ owes = {} /\ mon = AtRound /\ stopped = 0
  /\ others = 0 /\ cut = FALSE

AllIdle == \A p \in Ps : status[p] = "idle"

-----------------------------------------------------------------------------
(* The requests.                                                           *)

\* tzr_preempt_clear by `who`: the flag is taken with an exchange, and counted down after it.
ClearFlag(who, p) ==
  /\ preempt' = [preempt EXCEPT ![p] = FALSE]
  /\ owes' = IF preempt[p] THEN owes \union {who} ELSE owes

Settle(who) ==
  /\ who \in owes
  /\ pending' = pending - 1
  /\ owes' = owes \ {who}
  /\ UNCHANGED <<pvars, mvars, parked, mon, stopped, others, cut>>

\* The flag forgotten and not counted down.
ClearForgets(who, p) ==
  /\ preempt' = [preempt EXCEPT ![p] = FALSE]
  /\ UNCHANGED owes

Clear(who, p) == ClearFlag(who, p)

\* tzr_p_running: what runs on p.  A request to stop the G before it is withdrawn.
Running(p, m) ==
  /\ armed' = [armed EXCEPT ![p] = FALSE]
  /\ runm' = [runm EXCEPT ![p] = m]

-----------------------------------------------------------------------------
(* The Ms.                                                                  *)

Go(m, place) == at' = [at EXCEPT ![m] = place]
Only(mv) == UNCHANGED <<pending, parked, mon, stopped, others, cut, mv>>

\* tzr_pidleget and tzr_wirep: the P is off the idle list before `parked` is read.
TakeP(m, p) ==
  /\ at[m] \in {"idle", "acq"} /\ status[p] = "idle"
  /\ status' = [status EXCEPT ![p] = "run"]
  /\ has' = [has EXCEPT ![m] = p]
  /\ Go(m, IF at[m] = "idle" THEN "kicking" ELSE "rekick")
  /\ Only(<<preempt, armed, runm, seen, kicks, gate, ready, sig, masked, owes>>)

\* tzr_acquirep with no idle P: the M waits in tzr_sched.pwait.
AwaitP(m) ==
  /\ at[m] = "acq" /\ \A p \in Ps : status[p] # "idle"
  /\ Go(m, "wait")
  /\ Only(<<pvars, has, kicks, gate, ready, sig, masked, owes>>)

\* tzr_sysmon_kick: with the lock that sysmon gives up only to wait.
KickMon(m) ==
  /\ at[m] \in {"kicking", "rekick"}
  /\ parked => mon.at = "asleep"
  /\ parked' = FALSE
  /\ IF at[m] = "kicking" THEN Go(m, "find") /\ UNCHANGED <<armed, runm>>
                          ELSE Go(m, "rt") /\ Running(has[m], m)
  /\ UNCHANGED <<preempt, status, seen, has, kicks, gate, ready, sig, masked, pending, owes, mon,
                 stopped, others, cut>>

\* tzr_execute: a new tick, the request of the G before taken back ...
Execute(m) ==
  /\ at[m] = "find"
  /\ seen' = [seen EXCEPT ![has[m]] = FALSE]
  /\ Clear(m, has[m])
  /\ Go(m, "exec")
  /\ Only(<<armed, runm, status, has, kicks, gate, ready, sig, masked>>)

\* ... and the G runs: generated code, or the rest of tzr_async_entry of one that was stopped.
Run(m) ==
  /\ at[m] = "exec" /\ m \notin owes
  /\ Running(has[m], m)
  /\ \/ Go(m, "gen") /\ UNCHANGED stopped
     \/ stopped > 0 /\ stopped' = stopped - 1 /\ Go(m, "publish")
  /\ UNCHANGED <<preempt, status, seen, has, kicks, gate, ready, sig, masked, pending, parked,
                 owes, mon, others, cut>>

\* The G parks, ends or yields: back on g0.
SwitchOut(m) ==
  /\ at[m] \in {"gen", "rt", "yield", "ystop"} /\ m \notin owes
  /\ at[m] = "ystop" => stopped < MaxStopped
  /\ stopped' = IF at[m] = "ystop" THEN stopped + 1 ELSE stopped
  /\ Running(has[m], None)
  /\ Go(m, "find")
  /\ UNCHANGED <<preempt, status, seen, has, kicks, gate, ready, sig, masked, pending, parked,
                 owes, mon, others, cut>>

\* Where a P goes that nobody runs (tzr_pidleput): to an M that waits for one, which publishes
\* what it runs there, or to the idle list.  `places` is `at` with the giver's own move.
PutP(p, places) ==
  IF \E w \in Ms : places[w] = "wait"
  THEN \E w \in Ms :
         /\ places[w] = "wait"
         /\ at' = [places EXCEPT ![w] = "rt"]
         /\ has' = [m \in Ms |-> IF m = w THEN p
                                 ELSE IF places[m] = "idle" THEN None ELSE has[m]]
         /\ status' = [status EXCEPT ![p] = "run"]
         /\ Running(p, w)
  ELSE /\ at' = places
       /\ has' = [m \in Ms |-> IF places[m] = "idle" THEN None ELSE has[m]]
       /\ status' = [status EXCEPT ![p] = "idle"]
       /\ UNCHANGED <<armed, runm>>

\* The M finds nothing to run.
GoIdle(m) ==
  /\ at[m] = "find"
  /\ PutP(has[m], [at EXCEPT ![m] = "idle"])
  /\ Only(<<preempt, seen, kicks, gate, ready, sig, masked, owes>>)

\* Into the runtime or the C library and back.
Call(m) ==
  /\ at[m] \in {"gen", "rt"} /\ m \notin owes
  /\ Go(m, IF at[m] = "gen" THEN "rt" ELSE "gen")
  /\ Only(<<pvars, has, kicks, gate, ready, sig, masked, owes>>)

\* tsuzuri_tz_preempt_check: taken back inside a trap boundary, else the G yields.
Check(m) ==
  /\ at[m] = "gen" /\ m \notin owes
  /\ pending # 0 /\ preempt[has[m]]
  /\ Clear(m, has[m])
  /\ \E to \in {"gen", "yield"} : Go(m, to)
  /\ Only(<<armed, runm, status, seen, has, kicks, gate, ready, sig, masked>>)

-----------------------------------------------------------------------------
(* Blocking calls.                                                         *)

\* tzr_entersyscall: the gate ...
CloseGate(m) ==
  /\ at[m] = "rt"
  /\ gate' = [gate EXCEPT ![m] = TRUE]
  /\ Go(m, "enter")
  /\ Only(<<pvars, has, kicks, ready, sig, masked, owes>>)

\* ... then the kicks that wait for their signal ...
EnterCall(m) ==
  /\ at[m] = "enter" /\ kicks[m] = 0
  /\ status' = [status EXCEPT ![has[m]] = "call"]
  /\ Go(m, "call")
  /\ Only(<<preempt, armed, runm, seen, has, kicks, gate, ready, sig, masked, owes>>)

\* ... which this M gives up when no signal reaches the handler here (tzr_async_deliverable).
GiveUp(m) ==
  /\ at[m] = "enter" /\ kicks[m] # 0 /\ masked[m]
  /\ ready' = [ready EXCEPT ![m] = FALSE]
  /\ kicks' = [kicks EXCEPT ![m] = 0]
  /\ status' = [status EXCEPT ![has[m]] = "call"]
  /\ Go(m, "call")
  /\ Only(<<preempt, armed, runm, seen, has, gate, sig, masked, owes>>)

\* tzr_exitsyscall: its old P by compare-exchange, or another one.
ExitCall(m) ==
  /\ at[m] = "call"
  /\ gate' = [gate EXCEPT ![m] = FALSE]
  /\ IF status[has[m]] = "call"
     THEN status' = [status EXCEPT ![has[m]] = "run"] /\ Go(m, "rt")
     ELSE UNCHANGED status /\ Go(m, "acq")
  /\ Only(<<preempt, armed, runm, seen, has, kicks, ready, sig, masked, owes>>)

-----------------------------------------------------------------------------
(* Signals at an M.                                                        *)

\* C code of the program's own, in a call, blocks SIGURG on its thread.
Mask(m) ==
  /\ at[m] = "call" /\ ~masked[m]
  /\ Cardinality({n \in Ms : masked[n]}) < MaxMasks
  /\ masked' = [masked EXCEPT ![m] = TRUE]
  /\ Only(<<pvars, at, has, kicks, gate, ready, sig, owes>>)

\* The program raises SIGURG: signals of a kind that wait are one.
Other(m) ==
  /\ others < MaxOther
  /\ others' = others + 1
  /\ sig' = [sig EXCEPT ![m] = @ \union {"other"}]
  /\ UNCHANGED <<pvars, at, has, kicks, gate, ready, masked, pending, parked, owes, mon, stopped,
                 cut>>

\* tzr_async_handler.  In tzr_async_entry any signal resumes the stopped G (tzr_async_resume),
\* and it takes the kicks too when `also`; else a kick stops a G in generated code on a P that
\* is armed, unless its context is refused (tzr_async_kicked, tzr_async_stop).
DeliverWith(m, also) ==
  /\ sig[m] # {} /\ ~masked[m]
  /\ sig' = [sig EXCEPT ![m] = {}]
  /\ cut' = (cut \/ (at[m] = "call" /\ "sysmon" \in sig[m]))
  /\ kicks' = IF at[m] = "resume" /\ ~also THEN kicks ELSE [kicks EXCEPT ![m] = 0]
  /\ IF at[m] = "resume" THEN Go(m, "gen") /\ UNCHANGED armed
     ELSE IF at[m] = "gen" /\ kicks[m] > 0 /\ \E p \in Ps : armed[p] /\ runm[p] = m
     THEN \E p \in Ps :
            /\ armed[p] /\ runm[p] = m
            /\ armed' = [armed EXCEPT ![p] = FALSE]
            /\ \E to \in {"gen", "entry"} : Go(m, to)
     ELSE UNCHANGED <<at, armed>>
  /\ UNCHANGED <<preempt, runm, status, seen, has, gate, ready, masked, pending, parked, owes,
                 mon, stopped, others>>

\* The resume leaves the kicks that its signal brought.
DeliverResumeOnly(m) == DeliverWith(m, FALSE)
Deliver(m) == DeliverWith(m, TRUE)

\* tzr_async_entry: a yield, or none inside a trap boundary ...
AsyncEntry(m) ==
  /\ at[m] = "entry" /\ m \notin owes
  /\ \/ Clear(m, has[m]) /\ Go(m, "ystop")
     \/ Go(m, "publish") /\ UNCHANGED <<preempt, owes>>
  /\ Only(<<armed, runm, status, seen, has, kicks, gate, ready, sig, masked>>)

\* ... then the frame is published and `async_self` set ...
Publish(m) ==
  /\ at[m] = "publish" /\ Go(m, "resume")
  /\ Only(<<pvars, has, kicks, gate, ready, sig, masked, owes>>)

\* ... and the signal sent that resumes it.
SendSelf(m) ==
  /\ at[m] = "resume" /\ "self" \notin sig[m]
  /\ sig' = [sig EXCEPT ![m] = @ \union {"self"}]
  /\ Only(<<pvars, at, has, kicks, gate, ready, masked, owes>>)

\* tzr_async_lost: on a thread that blocks SIGURG the process ends.
Lost(m) ==
  /\ at[m] = "resume" /\ "self" \in sig[m] /\ masked[m]
  /\ Go(m, "lost")
  /\ Only(<<pvars, has, kicks, gate, ready, sig, masked, owes>>)

-----------------------------------------------------------------------------
(* Sysmon.                                                                 *)

Mon(step) == mon' = [mon EXCEPT !.at = step]
Quiet == Sysmon \notin owes /\ UNCHANGED <<others, cut>>

\* tzr_preempt_scan: nothing runs on p to answer.
ScanIdle(p) ==
  /\ mon.at = "round" /\ Quiet
  /\ status[p] # "run" \/ runm[p] = None
  /\ Clear(Sysmon, p)
  /\ seen' = [seen EXCEPT ![p] = TRUE]
  /\ UNCHANGED <<armed, runm, status, mvars, pending, parked, mon, stopped>>

\* A new tick since the last round.
ScanNew(p) ==
  /\ mon.at = "round" /\ Quiet
  /\ status[p] = "run" /\ runm[p] # None /\ ~seen[p]
  /\ seen' = [seen EXCEPT ![p] = TRUE]
  /\ UNCHANGED <<preempt, armed, runm, status, mvars, pending, parked, owes, mon, stopped>>

\* The same tick for 10 ms: tzr_preempt_ask counts, then publishes ...
Ask(p) ==
  /\ mon.at = "round" /\ Quiet
  /\ status[p] = "run" /\ runm[p] # None /\ seen[p]
  /\ pending' = pending + 1
  /\ mon' = [mon EXCEPT !.at = "ask", !.p = p]
  /\ UNCHANGED <<pvars, mvars, parked, owes, stopped>>

PublishAsk ==
  /\ mon.at = "ask" /\ Quiet
  /\ IF preempt[mon.p] THEN Mon("failed") /\ UNCHANGED preempt
     ELSE mon' = AtRound /\ preempt' = [preempt EXCEPT ![mon.p] = TRUE]
  /\ UNCHANGED <<armed, runm, status, seen, mvars, pending, parked, owes, stopped>>

\* ... or takes its count back: asked before, and no check answered.
AskedAlready ==
  /\ mon.at = "failed" /\ Quiet
  /\ pending' = pending - 1
  /\ Mon("kick")
  /\ UNCHANGED <<pvars, mvars, parked, owes, stopped>>

\* tzr_async_kick: the M that runs p, if it takes signals ...
KickLook ==
  /\ mon.at = "kick" /\ Quiet
  /\ LET m == runm[mon.p]
     IN mon' = IF m = None \/ (m # None /\ ~ready[m]) THEN AtRound
               ELSE [mon EXCEPT !.at = "arm", !.m = m]
  /\ UNCHANGED <<pvars, mvars, pending, parked, owes, stopped>>

KickArm ==
  /\ mon.at = "arm" /\ Quiet
  /\ IF runm[mon.p] = None THEN mon' = AtRound /\ UNCHANGED armed
     ELSE Mon("count") /\ armed' = [armed EXCEPT ![mon.p] = TRUE]
  /\ UNCHANGED <<preempt, runm, status, seen, mvars, pending, parked, owes, stopped>>

\* ... the kick counted ...
KickCount ==
  /\ mon.at = "count" /\ Quiet
  /\ kicks[mon.m] < MaxKicks
  /\ kicks' = [kicks EXCEPT ![mon.m] = @ + 1]
  /\ mon' = [mon EXCEPT !.at = "gate", !.before = kicks[mon.m]]
  /\ UNCHANGED <<pvars, at, has, gate, ready, sig, masked, pending, parked, owes, stopped>>

\* ... before the gate is read.  One signal stands for the kicks that no handler took.
KickGate ==
  /\ mon.at = "gate" /\ Quiet
  /\ IF gate[mon.m] THEN Mon("back")
     ELSE IF mon.before # 0 THEN mon' = AtRound
     ELSE Mon("send")
  /\ UNCHANGED <<pvars, mvars, pending, parked, owes, stopped>>

\* Variant with a bug: the kick of a call that gets no signal stays counted.
KickBackNever ==
  /\ mon.at = "back" /\ Quiet
  /\ mon' = AtRound
  /\ UNCHANGED <<pvars, mvars, pending, parked, owes, stopped>>

KickBack ==
  /\ mon.at = "back" /\ Quiet
  /\ kicks' = [kicks EXCEPT ![mon.m] = IF @ > 0 THEN @ - 1 ELSE 0]
  /\ mon' = AtRound
  /\ UNCHANGED <<pvars, at, has, gate, ready, sig, masked, pending, parked, owes, stopped>>

KickSend ==
  /\ mon.at = "send" /\ Quiet
  /\ sig' = [sig EXCEPT ![mon.m] = @ \union {"sysmon"}]
  /\ mon' = AtRound
  /\ UNCHANGED <<pvars, at, has, kicks, gate, ready, masked, pending, parked, owes, stopped>>

\* tzr_retake and tzr_handoffp: to an idle M for what is queued, or given back.
Retake(p) ==
  /\ mon.at = "round" /\ Quiet
  /\ status[p] = "call"
  /\ \/ \E m \in Ms :
          /\ at[m] = "idle"
          /\ Go(m, "find")
          /\ has' = [has EXCEPT ![m] = p]
          /\ status' = [status EXCEPT ![p] = "run"]
          /\ UNCHANGED <<armed, runm>>
     \/ PutP(p, at)
  /\ UNCHANGED <<preempt, seen, kicks, gate, ready, sig, masked, pending, parked, owes, mon,
                 stopped>>

\* tzr_sysmon with every P idle: the requests that are left ...
Sweep ==
  /\ mon.at \in {"round", "sweep"} /\ Quiet
  /\ mon.at = "round" => AllIdle
  /\ \E p \in Ps : preempt[p] /\ Clear(Sysmon, p)
  /\ Mon("sweep")
  /\ UNCHANGED <<armed, runm, status, seen, mvars, pending, parked, stopped>>

\* The sleep begun without a look at the requests.
ParkUnswept ==
  /\ mon.at \in {"round", "sweep"} /\ Quiet
  /\ mon.at = "round" => AllIdle
  /\ parked' = TRUE
  /\ Mon("parking")
  /\ UNCHANGED <<pvars, mvars, pending, owes, stopped>>

\* ... then `parked` ...
Park ==
  /\ mon.at \in {"round", "sweep"} /\ Quiet
  /\ mon.at = "round" => AllIdle
  /\ \A p \in Ps : ~preempt[p]
  /\ parked' = TRUE
  /\ Mon("parking")
  /\ UNCHANGED <<pvars, mvars, pending, owes, stopped>>

\* The sleep that trusts the look of before.
RecheckNot ==
  /\ mon.at = "parking" /\ Quiet
  /\ Mon("asleep")
  /\ UNCHANGED <<pvars, mvars, pending, parked, owes, stopped>>

\* ... and another look at the Ps before the sleep.
Recheck ==
  /\ mon.at = "parking" /\ Quiet
  /\ IF AllIdle THEN Mon("asleep") /\ UNCHANGED parked
     ELSE mon' = AtRound /\ parked' = FALSE
  /\ UNCHANGED <<pvars, mvars, pending, owes, stopped>>

Wake ==
  /\ mon.at = "asleep" /\ Quiet
  /\ ~parked
  /\ mon' = AtRound
  /\ UNCHANGED <<pvars, mvars, pending, parked, owes, stopped>>

MStep(m) ==
  \/ \E p \in Ps : TakeP(m, p)
  \/ AwaitP(m) \/ KickMon(m) \/ Execute(m) \/ Run(m) \/ SwitchOut(m) \/ GoIdle(m) \/ Call(m)
  \/ Check(m) \/ CloseGate(m) \/ EnterCall(m) \/ GiveUp(m) \/ ExitCall(m) \/ Mask(m) \/ Other(m)
  \/ Deliver(m) \/ AsyncEntry(m) \/ Publish(m) \/ SendSelf(m) \/ Lost(m)

\* A kick or a request that sysmon has begun.
MonStep == PublishAsk \/ AskedAlready \/ KickLook \/ KickArm \/ KickCount \/ KickGate \/ KickBack
           \/ KickSend

Next ==
  \/ \E m \in Ms : at[m] # "lost" /\ MStep(m)
  \/ \E p \in Ps : ScanIdle(p) \/ ScanNew(p) \/ Ask(p) \/ Retake(p)
  \/ MonStep \/ Sweep \/ Park \/ Recheck \/ Wake
  \/ \E who \in Ms \union {Sysmon} : Settle(who)

Spec == Init /\ [][Next]_vars

\* Sysmon goes on with what it began and is woken, a signal that waits is delivered, and a loop
\* that reads the kicks again and again sees the moments without any: sysmon makes one kick in a
\* round, and the rounds are at least 20 us apart.
Fairness ==
  /\ WF_vars(MonStep) /\ WF_vars(Wake) /\ WF_vars(Settle(Sysmon))
  /\ \A m \in Ms : WF_vars(Deliver(m)) /\ SF_vars(EnterCall(m)) /\ WF_vars(GiveUp(m))

FairSpec == Spec /\ Fairness

-----------------------------------------------------------------------------
(* Properties.                                                             *)

\* The count is never below the requests that wait (the comment of tzr_preempt_ask), and it comes
\* back to them: what it has above them is what someone is about to take off.  A count that stays
\* up would send every check of the program down its slow path for good.
CountIsOfRequests ==
  pending = Cardinality({p \in Ps : preempt[p]}) + Cardinality(owes)
            + (IF mon.at \in {"ask", "failed"} THEN 1 ELSE 0)

\* While sysmon sleeps no request is left that only it would take back (tzr_sysmon).
SleepsWithoutRequests == mon.at = "asleep" => pending = 0

\* Sysmon sleeps only while every P is idle, or someone who took a P is about to wake it: the two
\* words of the Dekker of tzr_sysmon and tzr_pidleget.
SleepsWhileIdle ==
  (mon.at = "asleep" /\ parked /\ ~AllIdle) => \E m \in Ms : at[m] \in {"kicking", "rekick"}

\* A kick that no handler took has a signal on its way, or sysmon is about to send it or to take
\* the kick back: without one, later kicks would wait for a signal that never comes
\* (tzr_async_kick sends none while the count is not 0).
KickHasSignal ==
  \A m \in Ms : kicks[m] > 0 =>
    \/ "sysmon" \in sig[m]
    \/ mon.m = m /\ mon.at \in {"gate", "back", "send"}

Enters(m) == at[m] = "enter"

\* An M that closed its gate gets into its call (the loop of tzr_entersyscall ends).
EntersItsCall == \A m \in Ms : []<>~Enters(m)

\* No SIGURG of sysmon interrupts a blocking call (the comment of tzr_entersyscall).
NoSignalInCall == ~cut
=============================================================================
