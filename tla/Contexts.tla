------------------------------ MODULE Contexts ------------------------------
(* The contexts of runtime/tzroutine.c (TZ07): a tree of cancellation whose  *)
(* records are counted by reference, with a deadline timer in each and       *)
(* functions that a cancel starts (Context.after_func).                      *)
(*                                                                           *)
(* tzr_ctx_lock and tzr_timers.lock are never held together, so every call   *)
(* falls into several critical sections and atomic operations.  Each is one  *)
(* task here; an actor performs the first task of its list, which may put    *)
(* others before the rest.  The firing of a timer is left to chance: Timers  *)
(* is the model of the heap and of its thread.                               *)
EXTENDS Integers, Sequences, FiniteSets, FiniteSetsExt, SequencesExt

CONSTANTS
    Ctxs,       \* the contexts that the program may make
    Parent,     \* of each, its parent, or None for Context.background
    Timed,      \* the contexts made with a deadline
    Afters,     \* the functions given to Context.after_func
    On,         \* of each, its context
    Gs,         \* the tzroutines of the program
    Inside,     \* those counted in the boundary that ends
    MaxOps,     \* bound: the calls of the program
    Thread,     \* the timer thread
    Boundary,   \* the G that ends the boundary
    None

Actors == Gs \cup {Thread, Boundary}

VARIABLES
    ctx,        \* st, refs, handles, linked, err, armed, and the timer: its state and its scope
    after,      \* st, listed, pins, box, and the timer: its state and its scope
    own,        \* own[g]: the contexts and after-functions that g has a handle of
    todo,       \* what each actor has still to do
    hold,       \* the expiries counted in the boundary (tzr_scope_hold)
    ended,      \* the Gs that have finished
    ran, dropped, \* history: the functions that were run and those that were dropped
    nops

vars == <<ctx, after, own, todo, hold, ended, ran, dropped, nops>>

Children(c) == {d \in Ctxs : Parent[d] = c /\ ctx[d].linked}

RECURSIVE Below(_)
Below(c) == {c} \cup UNION {Below(d) : d \in Children(c)}

Init ==
    /\ ctx = [c \in Ctxs |-> [st |-> "new", refs |-> 0, handles |-> 0, linked |-> FALSE, err |-> 0,
                              armed |-> FALSE, timer |-> "stopped", scope |-> None]]
    /\ after = [x \in Afters |-> [st |-> "new", listed |-> FALSE, pins |-> 0, box |-> TRUE,
                                  timer |-> "new", scope |-> None]]
    /\ own = [g \in Gs |-> {}]
    /\ todo = [a \in Actors |-> <<>>]
    /\ hold = 0
    /\ ended = {}
    /\ ran = [x \in Afters |-> 0]
    /\ dropped = [x \in Afters |-> 0]
    /\ nops = 0

-----------------------------------------------------------------------------
(* The calls of the program.  A call borrows a handle that its G keeps until *)
(* the call returns.                                                         *)

Call(g, tasks) ==
    /\ g \notin ended /\ todo[g] = <<>> /\ nops < MaxOps
    /\ nops' = nops + 1
    /\ todo' = [todo EXCEPT ![g] = tasks]
    /\ UNCHANGED <<hold, ended, ran, dropped>>

(* tsuzuri_tz_ctx_new, up to the end of its first critical section: a child  *)
(* is linked, and cancelled when its parent is.  Then the deadline: one that *)
(* has passed cancels at once, another arms the timer.                       *)
New(g, c, passed) ==
    LET p == Parent[c]
        err == IF p = None THEN 0 ELSE ctx[p].err
        made == [ctx[c] EXCEPT !.st = "live", !.refs = 1, !.handles = 1, !.linked = p # None, !.err = err]
        more == IF err # 0 \/ c \notin Timed THEN <<>>
                ELSE IF passed THEN <<<<"cancel", c, 2>>>>
                ELSE <<<<"arm", c>>, <<"armed", c>>>>
    IN  /\ ctx[c].st = "new" /\ (passed => c \in Timed)
        /\ p # None => p \in own[g]
        /\ Call(g, more)
        /\ ctx' = IF p = None THEN [ctx EXCEPT ![c] = made]
                  ELSE [ctx EXCEPT ![c] = made, ![p].refs = @ + 1]
        /\ own' = [own EXCEPT ![g] = @ \cup {c}]
        /\ UNCHANGED after

(* tsuzuri_tz_ctx_share: a handle for another tzroutine.                     *)
Share(g, h, c) ==
    /\ c \in own[g] /\ c \notin own[h] /\ h \notin ended
    /\ Call(g, <<>>)
    /\ ctx' = [ctx EXCEPT ![c] = [@ EXCEPT !.handles = @ + 1, !.refs = @ + 1]]
    /\ own' = [own EXCEPT ![h] = @ \cup {c}]
    /\ UNCHANGED after

(* tsuzuri_tz_ctx_cancel does nothing to a root.                             *)
Cancel(g, c) ==
    /\ c \in own[g] /\ Parent[c] # None
    /\ Call(g, <<<<"cancel", c, 1>>>>)
    /\ UNCHANGED <<ctx, after, own>>

(* tsuzuri_tz_ctx_release: the last handle stops the deadline early.         *)
Release(g, c) ==
    /\ c \in own[g]
    /\ Call(g, (IF ctx[c].handles = 1 THEN <<<<"unarm", c>>>> ELSE <<>>) \o <<<<"unref", c>>>>)
    /\ ctx' = [ctx EXCEPT ![c].handles = @ - 1]
    /\ own' = [own EXCEPT ![g] = @ \ {c}]
    /\ UNCHANGED after

(* tsuzuri_tz_ctx_after, up to the arming of the dormant timer.              *)
After(g, x) ==
    /\ after[x].st = "new" /\ On[x] \in own[g]
    /\ Call(g, <<<<"list", x>>>>)
    /\ after' = [after EXCEPT ![x] = [@ EXCEPT !.st = "live", !.pins = 1, !.timer = "dormant",
                                               !.scope = IF g \in Inside THEN Boundary ELSE None]]
    /\ ctx' = [ctx EXCEPT ![On[x]].refs = @ + 1]
    /\ own' = [own EXCEPT ![g] = @ \cup {x}]

(* tsuzuri_tz_ctx_stop_after and tsuzuri_tz_ctx_free_after.                  *)
StopAfter(g, x) ==
    /\ x \in own[g]
    /\ Call(g, <<<<"stop", x>>>>)
    /\ UNCHANGED <<ctx, after, own>>

FreeAfter(g, x) ==
    /\ x \in own[g]
    /\ Call(g, <<<<"unlist", x>>, <<"stop", x>>, <<"drop", x>>, <<"unpin", x>>>>)
    /\ own' = [own EXCEPT ![g] = @ \ {x}]
    /\ UNCHANGED <<ctx, after>>

(* A tzroutine ends when it has no handle left, or moves them to another.    *)
End(g, h) ==
    /\ g \notin ended /\ todo[g] = <<>>
    /\ \/ own[g] = {} /\ h = g
       \/ own[g] # {} /\ h \notin ended \cup {g} /\ own[g] \cap own[h] = {}
    /\ ended' = ended \cup {g}
    /\ own' = IF h = g THEN own ELSE [own EXCEPT ![g] = {}, ![h] = own[g] \cup own[h]]
    /\ UNCHANGED <<ctx, after, todo, hold, ran, dropped, nops>>

-----------------------------------------------------------------------------
(* The tasks.  Then(a, more): the first task of a is done, more comes first. *)

Is(a, name) == todo[a] # <<>> /\ Head(todo[a])[1] = name
Of(a) == Head(todo[a])[2]
Then(a, more) == /\ todo' = [todo EXCEPT ![a] = more \o Tail(@)]
                 /\ UNCHANGED <<own, ended, nops>>

(* The first critical section of tzr_ctx_cancel: it marks c and all below it *)
(* that are not marked, and collects what it must do when the lock is gone.  *)
(* A descendant of a marked context is marked, so the walk stops there.      *)
MarkWith(a, marked, pin) ==
    LET armed == {d \in marked : ctx[d].armed}
        waking == {x \in Afters : after[x].listed /\ On[x] \in marked}
        Each(objects, one, two) ==
            FlattenSeq([i \in 1..Cardinality(objects) |->
                           LET o == SetToSeq(objects)[i] IN <<<<one, o>>, <<two, o>>>>])
    IN  /\ Is(a, "cancel")
        /\ ctx' = [d \in Ctxs |->
                      IF d \notin marked THEN ctx[d]
                      ELSE [ctx[d] EXCEPT !.err = Head(todo[a])[3], !.armed = FALSE,
                                          !.refs = IF d \in armed THEN @ + 1 ELSE @]]
        /\ after' = [x \in Afters |->
                        IF x \notin waking THEN after[x]
                        ELSE [after[x] EXCEPT !.listed = FALSE, !.pins = @ + pin]]
        /\ Then(a, Each(armed, "disarm", "unref") \o Each(waking, "wake", "unpin"))
        /\ UNCHANGED <<hold, ran, dropped>>

Unmarked(c) == IF ctx[c].err # 0 THEN {} ELSE {d \in Below(c) : ctx[d].err = 0}
MarkOnlyOne(a) == Is(a, "cancel") /\ MarkWith(a, Unmarked(Of(a)) \cap {Of(a)}, 1)
MarkUnpinned(a) == Is(a, "cancel") /\ MarkWith(a, Unmarked(Of(a)), 0)
Mark(a) == Is(a, "cancel") /\ MarkWith(a, Unmarked(Of(a)), 1)

(* tzr_ctx_new arms the timer with its reference ...                         *)
Arm(a) ==
    /\ Is(a, "arm")
    /\ ctx' = [ctx EXCEPT ![Of(a)] = [@ EXCEPT !.refs = @ + 1, !.timer = "pending",
                                               !.scope = IF a \in Inside THEN Boundary ELSE None]]
    /\ Then(a, <<>>)
    /\ UNCHANGED <<after, hold, ran, dropped>>

(* ... and a cancel that came before `armed` did not see it.                 *)
ArmedWith(a, late) ==
    /\ Is(a, "armed")
    /\ ctx' = IF late THEN ctx ELSE [ctx EXCEPT ![Of(a)].armed = TRUE]
    /\ Then(a, IF late THEN <<<<"disarm", Of(a)>>>> ELSE <<>>)
    /\ UNCHANGED <<after, hold, ran, dropped>>
ArmedAnyway(a) == ArmedWith(a, FALSE)
Armed(a) == Is(a, "armed") /\ ArmedWith(a, ctx[Of(a)].err # 0)

(* The critical sections that clear `armed`: of the last handle's drop, and  *)
(* of tzr_ctx_expire (which goes on with a cancel and the timer's reference).*)
Unarm(a) ==
    /\ Is(a, "unarm")
    /\ ctx' = [ctx EXCEPT ![Of(a)].armed = FALSE]
    /\ Then(a, IF ctx[Of(a)].armed /\ a # Thread THEN <<<<"disarm", Of(a)>>>> ELSE <<>>)
    /\ UNCHANGED <<after, hold, ran, dropped>>

(* tzr_ctx_disarm: the timer's reference goes with a timer that still pends. *)
DisarmWith(a, taken) ==
    /\ Is(a, "disarm")
    /\ ctx' = [ctx EXCEPT ![Of(a)] = IF @.timer = "pending"
                                       THEN [@ EXCEPT !.timer = "stopped", !.scope = None] ELSE @]
    /\ Then(a, IF taken THEN <<<<"unref", Of(a)>>>> ELSE <<>>)
    /\ UNCHANGED <<after, hold, ran, dropped>>
DisarmFired(a) == DisarmWith(a, TRUE)
Disarm(a) == Is(a, "disarm") /\ DisarmWith(a, ctx[Of(a)].timer = "pending")

(* tzr_ctx_unref: the last reference unlinks the context from its parent,    *)
(* frees it and lets go of the parent's.                                     *)
Unref(a) ==
    /\ Is(a, "unref")
    /\ ctx' = [ctx EXCEPT ![Of(a)].refs = @ - 1]
    /\ Then(a, IF ctx[Of(a)].refs = 1 THEN <<<<"unlink", Of(a)>>>> ELSE <<>>)
    /\ UNCHANGED <<after, hold, ran, dropped>>

Unlink(a) ==
    /\ Is(a, "unlink")
    /\ ctx' = [ctx EXCEPT ![Of(a)] = [@ EXCEPT !.linked = FALSE, !.st = "freed"]]
    /\ Then(a, IF Parent[Of(a)] = None THEN <<>> ELSE <<<<"unref", Parent[Of(a)]>>>>)
    /\ UNCHANGED <<after, hold, ran, dropped>>

(* The second critical section of tsuzuri_tz_ctx_after.                      *)
ListWith(a, cancelled) ==
    /\ Is(a, "list")
    /\ after' = [after EXCEPT ![Of(a)].listed = ~cancelled]
    /\ Then(a, IF cancelled THEN <<<<"wake", Of(a)>>>> ELSE <<>>)
    /\ UNCHANGED <<ctx, hold, ran, dropped>>
ListAnyway(a) == ListWith(a, FALSE)
List(a) == Is(a, "list") /\ ListWith(a, ctx[On[Of(a)]].err # 0)

(* tzr_timer_wake: only a dormant timer starts.                              *)
WakeFrom(a, states) ==
    /\ Is(a, "wake")
    /\ after' = [after EXCEPT ![Of(a)].timer = IF @ \in states THEN "pending" ELSE @]
    /\ Then(a, <<>>)
    /\ UNCHANGED <<ctx, hold, ran, dropped>>
WakeStopped(a) == WakeFrom(a, {"dormant", "stopped"})
Wake(a) == WakeFrom(a, {"dormant"})

Unlist(a) ==
    /\ Is(a, "unlist")
    /\ after' = [after EXCEPT ![Of(a)].listed = FALSE]
    /\ Then(a, <<>>)
    /\ UNCHANGED <<ctx, hold, ran, dropped>>

(* tsuzuri_tz_timer_stop of a FUNC timer: it stays listed in its boundary.   *)
Stop(a) ==
    /\ Is(a, "stop")
    /\ after' = [after EXCEPT ![Of(a)].timer = IF @ \in {"dormant", "pending"} THEN "stopped" ELSE @]
    /\ Then(a, <<>>)
    /\ UNCHANGED <<ctx, hold, ran, dropped>>

Box(x, drop) == dropped' = IF drop /\ after[x].box THEN [dropped EXCEPT ![x] = @ + 1] ELSE dropped

Drop(a) ==
    /\ Is(a, "drop")
    /\ after' = [after EXCEPT ![Of(a)].box = FALSE]
    /\ Box(Of(a), TRUE)
    /\ Then(a, <<>>)
    /\ UNCHANGED <<ctx, hold, ran>>

(* tzr_ctx_after_unpin; the last pin frees the timer (tsuzuri_tz_timer_free) *)
(* and the record, and lets go of the context.                               *)
Unpin(a) ==
    /\ Is(a, "unpin")
    /\ LET x == Of(a)
           last == after[x].pins = 1
       IN  /\ after' = [after EXCEPT ![x] =
                           [@ EXCEPT !.pins = @ - 1,
                                     !.st = IF last THEN "freed" ELSE @,
                                     !.timer = IF last THEN "stopped" ELSE @,
                                     !.scope = IF last THEN None ELSE @,
                                     !.box = IF last THEN FALSE ELSE @]]
           /\ Box(x, last)
           /\ Then(a, IF last THEN <<<<"unref", On[x]>>>> ELSE <<>>)
    /\ UNCHANGED <<ctx, hold, ran>>

(* The expiry no longer counts in the boundary (tzr_scope_release).          *)
Unhold(a) ==
    /\ Is(a, "unhold")
    /\ hold' = hold - 1
    /\ Then(a, <<>>)
    /\ UNCHANGED <<ctx, after, ran, dropped>>

-----------------------------------------------------------------------------
(* The timer thread fires a context's deadline (tzr_timers_run's CTX case    *)
(* and tzr_ctx_expire) or starts a function.                                 *)

Expire(c) ==
    /\ todo[Thread] = <<>> /\ ctx[c].timer = "pending"
    /\ LET counted == ctx[c].scope = Boundary
       IN  /\ todo' = [todo EXCEPT ![Thread] =
                          <<<<"unarm", c>>, <<"cancel", c, 2>>, <<"unref", c>>>>
                          \o IF counted THEN <<<<"unhold", c>>>> ELSE <<>>]
           /\ hold' = IF counted THEN hold + 1 ELSE hold
    /\ ctx' = [ctx EXCEPT ![c] = [@ EXCEPT !.timer = "fired", !.scope = None]]
    /\ UNCHANGED <<after, own, ended, ran, dropped, nops>>

Start(x) ==
    /\ todo[Thread] = <<>> /\ after[x].timer = "pending"
    /\ after' = [after EXCEPT ![x] = [@ EXCEPT !.timer = "fired", !.box = FALSE, !.scope = None]]
    /\ ran' = [ran EXCEPT ![x] = @ + 1]
    /\ UNCHANGED <<ctx, own, todo, hold, ended, dropped, nops>>

(* The end of the boundary, once its tzroutines are over and no expiry is    *)
(* under way: tzr_boundary_settle takes one timer at a time.                 *)
Quiet == Inside \subseteq ended /\ hold = 0 /\ todo[Boundary] = <<>>

SettleCtx(c) ==
    /\ Quiet /\ ctx[c].scope = Boundary
    /\ ctx' = [ctx EXCEPT ![c] = [@ EXCEPT !.timer = "stopped", !.scope = None]]
    /\ todo' = [todo EXCEPT ![Boundary] = <<<<"unref", c>>>>]
    /\ UNCHANGED <<after, own, hold, ended, ran, dropped, nops>>

SettleAfter(x) ==
    /\ Quiet /\ after[x].scope = Boundary
    /\ after' = [after EXCEPT ![x] =
                    [@ EXCEPT !.scope = None, !.box = FALSE,
                              !.timer = IF @ \in {"dormant", "pending"} THEN "stopped" ELSE @]]
    /\ Box(x, TRUE)
    /\ UNCHANGED <<ctx, own, todo, hold, ended, ran, nops>>

Task(a) ==
    \/ Mark(a) \/ Arm(a) \/ Armed(a) \/ Unarm(a) \/ Disarm(a) \/ Unref(a) \/ Unlink(a)
    \/ List(a) \/ Wake(a) \/ Unlist(a) \/ Stop(a) \/ Drop(a) \/ Unpin(a) \/ Unhold(a)

Calls(g) ==
    \/ \E c \in Ctxs : \/ \E passed \in BOOLEAN : New(g, c, passed)
                       \/ \E h \in Gs : Share(g, h, c)
                       \/ Cancel(g, c) \/ Release(g, c)
    \/ \E x \in Afters : After(g, x) \/ StopAfter(g, x) \/ FreeAfter(g, x)
    \/ \E h \in Gs : End(g, h)

Next ==
    \/ \E g \in Gs : Calls(g)
    \/ \E a \in Actors : Task(a)
    \/ \E c \in Ctxs : Expire(c) \/ SettleCtx(c)
    \/ \E x \in Afters : Start(x) \/ SettleAfter(x)

Spec == Init /\ [][Next]_vars

-----------------------------------------------------------------------------
Count(a, name, o) == Cardinality({i \in 1..Len(todo[a]) : todo[a][i][1] = name /\ todo[a][i][2] = o})
Pending(name, o) == FoldSet(LAMBDA a, n : n + Count(a, name, o), 0, Actors)
Idle == \A a \in Actors : todo[a] = <<>>

(* The types of the variables.                                               *)
TypeOK ==
    /\ \A c \in Ctxs : /\ ctx[c].st \in {"new", "live", "freed"}
                       /\ ctx[c].refs \in Nat /\ ctx[c].handles \in 0..Cardinality(Gs)
                       /\ ctx[c].timer \in {"pending", "fired", "stopped"}
    /\ \A x \in Afters : after[x].pins \in 0..1 + Cardinality(Actors)
    /\ hold \in 0..1

(* refs is the number of the things that the comment of tzr_ctx lists (the   *)
(* handles, the live children, the deadline timer while it pends and each    *)
(* AfterFunc) and of the references that a call under way still lets go.     *)
(* One too few frees a context in use, one too many leaks it: when the       *)
(* handles are dropped and every call has returned, every context is freed.  *)
RefsAreCounted ==
    \A c \in Ctxs :
        ctx[c].refs = (IF ctx[c].timer = "pending" THEN 1 ELSE 0)
                      + Cardinality({g \in Gs : c \in own[g]})
                      + Cardinality({d \in Ctxs : Parent[d] = c /\ ctx[d].st = "live"})
                      + Cardinality({x \in Afters : On[x] = c /\ after[x].st = "live"})
                      + Pending("unref", c)

(* No call, no expiry and no walk over the children touches a context or an  *)
(* AfterFunc that is freed, and none is freed twice.                         *)
NoUseAfterFree ==
    /\ \A a \in Actors : \A i \in 1..Len(todo[a]) :
           LET task == todo[a][i]
           IN  IF task[1] = "unhold" THEN TRUE
               ELSE IF task[2] \in Ctxs THEN ctx[task[2]].st = "live" ELSE after[task[2]].st = "live"
    /\ \A c \in Ctxs : /\ ctx[c].linked => ctx[c].st = "live" /\ ctx[Parent[c]].st = "live"
                       /\ Pending("unlink", c) <= 1
    /\ \A x \in Afters : after[x].listed => after[x].st = "live" /\ ctx[On[x]].st = "live"

(* Every linked context below a cancelled one is cancelled: a child is made  *)
(* under the lock of the cancel that marks the tree.                         *)
CancelReachesAll ==
    \A c \in Ctxs : (ctx[c].linked /\ ctx[Parent[c]].err # 0) => ctx[c].err # 0

(* Once every call has returned, a context that is cancelled, or of which no *)
(* handle is left, has no timer in the heap: a timer armed while a cancel    *)
(* passed is stopped by tsuzuri_tz_ctx_new itself.                           *)
DeadlineIsStopped ==
    Idle => \A c \in Ctxs : (ctx[c].st = "live" /\ (ctx[c].err # 0 \/ ctx[c].handles = 0))
                                => ctx[c].timer # "pending"

(* Once every call has returned, the functions of a cancelled context are    *)
(* started unless they were stopped, dropped or freed.                       *)
CancelStartsAfter ==
    Idle => \A x \in Afters : (after[x].st = "live" /\ ctx[On[x]].err # 0) => after[x].timer # "dormant"

(* A function is run or dropped once, not both: a cancel, a stop, the drop   *)
(* of its handle and the end of the boundary compete for it.                 *)
FunctionOnce == \A x \in Afters : ran[x] + dropped[x] = IF after[x].box THEN 0 ELSE 1
=============================================================================
