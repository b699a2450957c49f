------------------------------ MODULE Netpoll -------------------------------
(* Net's waits on a tzroutine (TZ08): tzr_netpoll_wait registers a socket    *)
(* with epoll and parks the G; the netpoller thread, the timer of the        *)
(* deadline and a close of the socket compete to settle the wait.  One       *)
(* descriptor is modelled: sockets take it one after the other, and a record *)
(* (tzr_pd) of it that is never freed serves them all.  A reader and a       *)
(* writer may wait at a time.                                                *)
(*                                                                           *)
(* A critical section of the descriptor's lock or of tzr_timers.lock is one  *)
(* step; the posting of an outcome is a compare-and-swap within it.          *)
EXTENDS Integers, FiniteSets

CONSTANTS
    Gs,          \* the tzroutines that wait
    Dir,         \* of each, what it waits for: "read" or "write"
    MaxSockets,  \* bound: the sockets that take the descriptor, one after the other
    MaxWaits,    \* bound: the waits that are started
    MaxRefused,  \* bound: the registrations that the kernel refuses
    None

Dirs == {"read", "write"}

VARIABLES
    gen,         \* the number of the socket that has the descriptor
    stage,       \* of that socket: open, forgotten (tz_net_forget), hooked, closed
    ready,       \* what the socket can do now
    reg,         \* the kernel's registration: seq, dirs, on (one shot, not spent); or None
    event,       \* the event that the netpoller has taken: seq, ready, and (history) gen; or None
    pd,          \* seq, registered, waiter
    w,           \* of each G: at, st (w.state), timer, gen (its handle), wakes (history)
    nwaits, nrefused

kernelVars == <<gen, stage, ready, reg, event>>
vars == <<kernelVars, pd, w, nwaits, nrefused>>

Init ==
    /\ gen = 1 /\ stage = "open" /\ ready = {}
    /\ reg = None /\ event = None
    /\ pd = [seq |-> 0, registered |-> FALSE, waiter |-> [d \in Dirs |-> None]]
    /\ w = [g \in Gs |-> [at |-> "idle", st |-> "armed", timer |-> "off", gen |-> 1, wakes |-> 0]]
    /\ nwaits = 0 /\ nrefused = 0

-----------------------------------------------------------------------------
(* The socket, of which the environment decides.                             *)

BecomeReady(d) ==
    /\ stage # "closed" /\ d \notin ready
    /\ ready' = ready \cup {d}
    /\ UNCHANGED <<gen, stage, reg, event, pd, w, nwaits, nrefused>>

(* What was there is taken by a read or a write: the next call would block.  *)
Drain(d) ==
    /\ d \in ready
    /\ ready' = ready \ {d}
    /\ UNCHANGED <<gen, stage, reg, event, pd, w, nwaits, nrefused>>

(* epoll_wait returns an event of the registration, which is spent.          *)
TakeEvent ==
    /\ event = None /\ reg # None /\ reg.on /\ reg.dirs \cap ready # {}
    /\ event' = [seq |-> reg.seq, ready |-> reg.dirs \cap ready, gen |-> gen]
    /\ reg' = [reg EXCEPT !.on = FALSE]
    /\ UNCHANGED <<gen, stage, ready, pd, w, nwaits, nrefused>>

(* tzr_netpoll_rearm: the kernel takes the registration of `waiters` under a *)
(* new number, or refuses it and the earlier one stays.                      *)
Waited(waiters) == {d \in Dirs : waiters[d] # None}
RearmAs(waiters, seq) ==
    /\ reg' = [seq |-> seq, dirs |-> Waited(waiters), on |-> TRUE]
    /\ pd' = [seq |-> seq, registered |-> TRUE, waiter |-> waiters]
    /\ UNCHANGED nrefused
RearmSameNumber(waiters) == RearmAs(waiters, IF pd.registered THEN pd.seq ELSE 1)
Rearm(waiters) == RearmAs(waiters, pd.seq + 1)
Refuse == nrefused < MaxRefused /\ nrefused' = nrefused + 1

-----------------------------------------------------------------------------
(* tzr_netpoll_wait.                                                         *)

InWait(g) == w[g].at # "idle"
At(g, l) == w[g].at = l
Goto(g, l) == w' = [w EXCEPT ![g].at = l]

(* tz_net_wait, of a handle that was open when the call looked it up.        *)
Start(g) ==
    /\ At(g, "idle") /\ nwaits < MaxWaits
    /\ stage = "open"
    /\ nwaits' = nwaits + 1
    /\ w' = [w EXCEPT ![g] = [at |-> "arm", st |-> "armed", timer |-> "off", gen |-> gen, wakes |-> 0]]
    /\ UNCHANGED <<kernelVars, pd, nrefused>>

(* tz_net_still_open, asked under the descriptor's lock.                     *)
StillOpen(g) == stage = "open" /\ gen = w[g].gen

(* The descriptor's critical section: another waiter of the kind or a        *)
(* refusal leaves the wait to poll; a closed handle is ready at once.        *)
ArmWhen(g, open) ==
    LET linked == [pd.waiter EXCEPT ![Dir[g]] = g]
    IN  /\ At(g, "arm")
        /\ \/ /\ pd.waiter[Dir[g]] # None \/ ~open
              /\ Goto(g, "idle")
              /\ UNCHANGED <<kernelVars, pd, nrefused>>
           \/ /\ pd.waiter[Dir[g]] = None /\ open /\ stage # "closed"
              /\ Rearm(linked)
              /\ Goto(g, "timer")
              /\ UNCHANGED <<gen, stage, ready, event>>
           \/ /\ pd.waiter[Dir[g]] = None /\ open
              /\ Refuse
              /\ Goto(g, "idle")
              /\ UNCHANGED <<kernelVars, pd>>
        /\ UNCHANGED nwaits
ArmUnasked(g) == ArmWhen(g, TRUE)
Arm(g) == ArmWhen(g, StillOpen(g))

(* The deadline, if there is one, and the switch off the G's stack.          *)
PushTimer(g, timed) ==
    /\ At(g, "timer")
    /\ w' = [w EXCEPT ![g] = [@ EXCEPT !.at = "park", !.timer = IF timed THEN "pending" ELSE "off"]]
    /\ UNCHANGED <<kernelVars, pd, nwaits, nrefused>>

(* tzr_netwait_commit: a wait that was settled meanwhile wakes the G.        *)
Woken(r) == [r EXCEPT !.at = "take", !.wakes = @ + 1]
CommitBlind(g) ==
    /\ At(g, "park")
    /\ w' = [w EXCEPT ![g] = [@ EXCEPT !.at = "parked", !.st = IF @ = "armed" THEN "parked" ELSE @]]
    /\ UNCHANGED <<kernelVars, pd, nwaits, nrefused>>

Commit(g) ==
    /\ At(g, "park")
    /\ w' = [w EXCEPT ![g] = IF @.st = "armed" THEN [@ EXCEPT !.at = "parked", !.st = "parked"]
                                                ELSE Woken(@)]
    /\ UNCHANGED <<kernelVars, pd, nwaits, nrefused>>

(* tzr_netwait_post.                                                         *)
PostedAlways(r, outcome) ==
    IF r.st = "armed" THEN [r EXCEPT !.st = outcome, !.wakes = @ + 1]
    ELSE IF r.st = "parked" THEN [Woken(r) EXCEPT !.st = outcome]
    ELSE r

Posted(r, outcome) ==
    IF r.st = "armed" THEN [r EXCEPT !.st = outcome]
    ELSE IF r.st = "parked" THEN [Woken(r) EXCEPT !.st = outcome]
    ELSE r

(* tzr_timers_run fires the deadline.                                        *)
TimeOut(g) ==
    /\ w[g].timer = "pending"
    /\ w' = [w EXCEPT ![g] = [Posted(@, "timedout") EXCEPT !.timer = "fired"]]
    /\ UNCHANGED <<kernelVars, pd, nwaits, nrefused>>

(* The woken G takes its timer out of the heap ...                           *)
TakeTimer(g) ==
    /\ At(g, "take")
    /\ w' = [w EXCEPT ![g] = [@ EXCEPT !.at = "unlink", !.timer = "off"]]
    /\ UNCHANGED <<kernelVars, pd, nwaits, nrefused>>

(* ... and its record out of the descriptor, when it timed out.              *)
UnlinkNot(g) ==
    /\ At(g, "unlink")
    /\ Goto(g, "idle")
    /\ UNCHANGED <<kernelVars, pd, nwaits, nrefused>>

Unlink(g) ==
    /\ At(g, "unlink")
    /\ pd' = [pd EXCEPT !.waiter[Dir[g]] = IF @ = g THEN None ELSE @]
    /\ Goto(g, "idle")
    /\ UNCHANGED <<kernelVars, nwaits, nrefused>>

-----------------------------------------------------------------------------
(* tzr_pd_wake of the waiters of some directions.                            *)
Wake(dirs) ==
    w' = [g \in Gs |-> IF \E d \in dirs : pd.waiter[d] = g THEN Posted(w[g], "ready") ELSE w[g]]
Without(dirs) == [d \in Dirs |-> IF d \in dirs THEN None ELSE pd.waiter[d]]

(* tzr_netpoller handles one event.  An earlier registration's is ignored;   *)
(* the spent registration is renewed for a waiter of the other kind, which   *)
(* wakes too when the kernel refuses.                                        *)
Ignore ==
    /\ event # None /\ event.seq # pd.seq
    /\ event' = None
    /\ UNCHANGED <<gen, stage, ready, reg, pd, w, nwaits, nrefused>>

HandleOnly ==
    /\ event # None /\ event.seq = pd.seq
    /\ Wake(event.ready)
    /\ pd' = [pd EXCEPT !.waiter = Without(event.ready)]
    /\ event' = None
    /\ UNCHANGED <<gen, stage, ready, reg, nwaits, nrefused>>

Handle ==
    /\ event # None /\ event.seq = pd.seq
    /\ LET left == Without(event.ready)
       IN  \/ /\ Waited(left) = {}
              /\ Wake(event.ready)
              /\ pd' = [pd EXCEPT !.waiter = left]
              /\ UNCHANGED <<reg, nrefused>>
           \/ /\ Waited(left) # {} /\ stage # "closed"
              /\ Wake(event.ready)
              /\ Rearm(left)
           \/ /\ Waited(left) # {}
              /\ Refuse
              /\ Wake(Dirs)
              /\ pd' = [pd EXCEPT !.waiter = Without(Dirs)]
              /\ UNCHANGED reg
    /\ event' = None
    /\ UNCHANGED <<gen, stage, ready, nwaits>>

-----------------------------------------------------------------------------
(* tz_net_close_handle: the handle is forgotten, then the waiters are woken  *)
(* (tzr_netpoll_close), then the descriptor is closed; another socket may    *)
(* take it.                                                                  *)
Forget ==
    /\ stage = "open"
    /\ stage' = "forgotten"
    /\ UNCHANGED <<gen, ready, reg, event, pd, w, nwaits, nrefused>>

Close ==
    /\ stage = "forgotten"
    /\ stage' = "hooked"
    /\ Wake(Dirs)
    /\ pd' = [seq |-> pd.seq + 1, registered |-> FALSE, waiter |-> Without(Dirs)]
    /\ UNCHANGED <<gen, ready, reg, event, nwaits, nrefused>>

CloseDescriptor ==
    /\ stage = "hooked"
    /\ stage' = "closed"
    /\ ready' = {}
    /\ reg' = None
    /\ UNCHANGED <<gen, event, pd, w, nwaits, nrefused>>

Reuse ==
    /\ stage = "closed" /\ gen < MaxSockets
    /\ stage' = "open"
    /\ gen' = gen + 1
    /\ UNCHANGED <<ready, reg, event, pd, w, nwaits, nrefused>>

WaitStep(g) ==
    \/ Arm(g) \/ (\E timed \in BOOLEAN : PushTimer(g, timed))
    \/ Commit(g) \/ TakeTimer(g) \/ Unlink(g)
PollerStep == TakeEvent \/ Ignore \/ Handle
CloseStep == Close \/ CloseDescriptor

Next ==
    \/ \E d \in Dirs : BecomeReady(d) \/ Drain(d)
    \/ \E g \in Gs : Start(g) \/ WaitStep(g) \/ TimeOut(g)
    \/ PollerStep
    \/ Forget \/ CloseStep \/ Reuse

Spec == Init /\ [][Next]_vars

(* The Gs that can run do, the netpoller and the timer thread are scheduled, *)
(* and a close that was begun goes on.                                       *)
FairSpec ==
    /\ Spec
    /\ \A g \in Gs : WF_vars(WaitStep(g)) /\ WF_vars(TimeOut(g))
    /\ WF_vars(PollerStep)
    /\ WF_vars(CloseStep)

-----------------------------------------------------------------------------
(* The types of the variables.                                               *)
TypeOK ==
    /\ gen \in 1..MaxSockets /\ stage \in {"open", "forgotten", "hooked", "closed"}
    /\ ready \subseteq Dirs
    /\ pd.waiter \in [Dirs -> Gs \cup {None}]
    /\ \A g \in Gs : /\ w[g].at \in {"idle", "arm", "timer", "park", "parked", "take", "unlink"}
                     /\ w[g].st \in {"armed", "parked", "ready", "timedout"}
                     /\ w[g].timer \in {"off", "pending", "fired"}

(* A linked waiter is covered: by the kernel's registration under the        *)
(* descriptor's present number, or by an event of that number which the      *)
(* netpoller holds and after which it registers again.  Renewals, refusals,  *)
(* timeouts that leave a registration armed, closes and reuse of the         *)
(* descriptor all keep it so: no readiness is missed.                        *)
WaiterIsCovered ==
    \A d \in Waited(pd.waiter) :
        \/ reg # None /\ reg.on /\ reg.seq = pd.seq /\ d \in reg.dirs
        \/ event # None /\ event.seq = pd.seq

(* Nothing waits on a socket whose close has passed tzr_netpoll_close, and   *)
(* no wait is linked for a socket other than the one that has the            *)
(* descriptor: the handle is checked under the lock that the close takes.    *)
NoWaitOnClosed ==
    \A d \in Waited(pd.waiter) :
        /\ w[pd.waiter[d]].gen = gen
        /\ stage \in {"open", "forgotten"}

(* An event that the netpoller acts on is of the socket that its waiters     *)
(* wait for, never of one that was closed before (`seq` of tzr_pd).          *)
EventIsOfThisSocket ==
    (event # None /\ event.seq = pd.seq) =>
        \A d \in Waited(pd.waiter) : event.gen = w[pd.waiter[d]].gen

(* The record of a wait is on its G's stack: while the descriptor links it,  *)
(* or the heap holds its timer, the G has not left tzr_netpoll_wait.         *)
RecordIsLive ==
    /\ \A d \in Waited(pd.waiter) : InWait(pd.waiter[d]) /\ Dir[pd.waiter[d]] = d
    /\ \A g \in Gs : w[g].timer = "pending" => InWait(g)

(* A G that parked is woken once: by the one who settles the wait, or by its *)
(* own commit when that came too late to find it parked.                     *)
WokenOnce ==
    \A g \in Gs : /\ w[g].at \in {"take", "unlink"} => w[g].wakes = 1
                  /\ w[g].at \in {"arm", "timer", "park", "parked"} => w[g].wakes = 0

ParkedReady(g) == At(g, "parked") /\ w[g].gen = gen /\ Dir[g] \in ready
ParkedClosed(g) == At(g, "parked") /\ ~StillOpen(g)

(* A parked G whose socket stays ready, or was closed, goes on: whatever     *)
(* order the event, the deadline and the park came in.                       *)
ReadyWakes ==
    \A g \in Gs : []<>~ParkedReady(g) /\ []<>~ParkedClosed(g)
=============================================================================
