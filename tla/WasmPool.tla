------------------------------ MODULE WasmPool ------------------------------
(***************************************************************************)
(* The task pool of WebAssembly programs with threads                       *)
(* (src/runtime/task-wasm-threads.c): groups of items that a submitting     *)
(* thread shares with the workers, the epoch that every thread sleeps on,   *)
(* the mutex of Mutex.with_lock, the channels of the pool, on which a       *)
(* waiting thread runs other items on top of its own, and the detector.     *)
(*                                                                         *)
(* A critical section of queue_mutex is one step, with the notification     *)
(* that its release sends.  A thread is a stack of frames: what it does at  *)
(* the bottom, and the groups and items that it works on above.  The pool   *)
(* has been started; a worker that has not looked yet may still be          *)
(* starting.  Left out: the host's `fail`, which ends every thread, and the *)
(* items of the channel, of which only the number matters here.             *)
(***************************************************************************)
EXTENDS Naturals, Sequences, FiniteSets

CONSTANTS
  Main, Workers,  \* the threads
  Programs,       \* what the items do: functions from groups to sequences of kinds
  Root,           \* the group that Main submits
  Sub,            \* the group that an item "fork" submits
  Capacity,       \* of the channel
  HelpDepth,      \* HELP_DEPTH
  None

Threads == {Main} \union Workers
Groups == {Root, Sub}

VARIABLES
  items,     \* the program: the kinds of the items of each group
  group,     \* of each group: its state, next, remaining and failure
  queue,     \* the groups that have not been joined, oldest first
  stack,     \* the frames of each thread, innermost last
  epoch, blocked, chanWaiters, verdicts, idle,   \* ThreadState and Waiting
  cell,      \* the word of the mutex
  count,     \* the items in the channel
  ran,       \* how often each item ran
  trapped    \* a thread was told of a deadlock

vars == <<items, group, queue, stack, epoch, blocked, chanWaiters, verdicts, idle, cell, count,
          ran, trapped>>

Frame(fn, g, i, at) == [fn |-> fn, g |-> g, i |-> i, at |-> at, done |-> 0, ep |-> 0, seen |-> 0]
NoFailure == 99
Length(g) == Len(items[g])

Init ==
  /\ items \in Programs
  /\ group = [g \in Groups |-> [st |-> "no", next |-> 0, remaining |-> 0, failure |-> NoFailure]]
  /\ queue = <<>>
  /\ stack = [t \in Threads |-> <<IF t = Main THEN Frame("main", None, 0, "start")
                                              ELSE Frame("worker", None, 0, "look")>>]
  /\ epoch = 0 /\ blocked = 0 /\ chanWaiters = 0 /\ verdicts = 0
  /\ idle = Cardinality(Workers) /\ cell = 0 /\ count = 0
  /\ ran = [g \in Groups |-> [i \in 0..Length(g) - 1 |-> 0]]
  /\ trapped = FALSE

-----------------------------------------------------------------------------

Top(t) == stack[t][Len(stack[t])]
Below(t) == SubSeq(stack[t], 1, Len(stack[t]) - 1)
SetTop(t, f) == stack' = [stack EXCEPT ![t] = Append(Below(t), f)]
Push(t, f) == stack' = [stack EXCEPT ![t] = Append(@, f)]
Pop(t) == stack' = [stack EXCEPT ![t] = Below(t)]
Depth(t) == Cardinality({n \in 1..Len(stack[t]) : stack[t][n].fn = "help"})
At(t, place) == ~trapped /\ Top(t).at = place
Kind(t) == items[Top(t).g][Top(t).i + 1]

\* progress: every registration is void and the epoch moves.
ProgressKeepsCount ==
  /\ epoch' = epoch + 1
  /\ UNCHANGED <<blocked, chanWaiters>>

Progress ==
  /\ epoch' = epoch + 1
  /\ blocked' = 0 /\ chanWaiters' = 0

Still == UNCHANGED <<epoch, blocked, chanWaiters>>

\* register_blocked: the last thread to block finds the deadlock.
Register(channel) ==
  LET b == blocked + 1
      w == IF channel THEN chanWaiters + 1 ELSE chanWaiters
  IN IF w > 0 /\ b = Cardinality(Threads) THEN verdicts' = verdicts + 1 /\ Progress
     ELSE blocked' = b /\ chanWaiters' = w /\ UNCHANGED <<verdicts, epoch>>

\* The item that claim_oldest takes, of the oldest group that has an unstarted one.
Unstarted(g) == group[g].next < Length(g)
HasWork == \E n \in DOMAIN queue : Unstarted(queue[n])
Oldest == LET n == CHOOSE n \in DOMAIN queue :
                     Unstarted(queue[n]) /\ \A m \in 1..n - 1 : ~Unstarted(queue[m])
          IN queue[n]
ClaimOldest == group' = [group EXCEPT ![Oldest].next = @ + 1]

-----------------------------------------------------------------------------
(* Groups.                                                                 *)

\* submit: item 0 is this thread's.
Submit(t) ==
  /\ \/ At(t, "start") /\ Top(t).fn = "main"
     \/ At(t, "item") /\ Kind(t) = "fork"
  /\ LET g == IF Top(t).fn = "main" THEN Root ELSE Sub
     IN /\ group' = [group EXCEPT ![g] = [st |-> "listed", next |-> 1, remaining |-> Length(g),
                                          failure |-> NoFailure]]
        /\ queue' = Append(queue, g)
        /\ Push(t, Frame("join", g, 0, "item"))
  /\ Progress
  /\ UNCHANGED <<items, verdicts, idle, cell, count, ran, trapped>>

\* The frame of t after its item: on to the next one, or back for a helper.
After(f) == [f EXCEPT !.at = IF f.fn = "help" THEN "release" ELSE "claim", !.done = @ + 1]
Ran(t) == ran' = [ran EXCEPT ![Top(t).g][Top(t).i] = @ + 1]

\* run_callback of an item that waits for nothing.
Plain(t) ==
  /\ At(t, "item") /\ Kind(t) = "plain"
  /\ Ran(t) /\ SetTop(t, After(Top(t)))
  /\ UNCHANGED <<items, group, queue, epoch, blocked, chanWaiters, verdicts, idle, cell, count,
                 trapped>>

\* The lowest failing index, and the items that nobody claimed taken out.
FailWhen(t, lower) ==
  /\ At(t, "item") /\ Kind(t) = "fail"
  /\ LET g == Top(t).g
         r == group[g]
     IN group' = IF ~lower THEN group
                 ELSE [group EXCEPT ![g] =
                        [r EXCEPT !.failure = Top(t).i,
                                  !.next = IF Unstarted(g) THEN Length(g) ELSE @,
                                  !.remaining = IF Unstarted(g) THEN @ - (Length(g) - r.next)
                                                ELSE @]]
  /\ Ran(t) /\ SetTop(t, After(Top(t)))
  /\ UNCHANGED <<items, queue, epoch, blocked, chanWaiters, verdicts, idle, cell, count, trapped>>

\* The last failure is the one kept.
FailLast(t) == FailWhen(t, TRUE)
Fail(t) == FailWhen(t, Top(t).i < group[Top(t).g].failure)

\* claim, without the lock: a look, then the index.
Claim(t) ==
  /\ At(t, "claim")
  /\ SetTop(t, [Top(t) EXCEPT !.at = IF Unstarted(Top(t).g) THEN "take" ELSE "letgo"])
  /\ UNCHANGED <<items, group, queue, epoch, blocked, chanWaiters, verdicts, idle, cell, count,
                 ran, trapped>>

Take(t) ==
  /\ At(t, "take")
  /\ LET g == Top(t).g
         i == group[g].next
     IN /\ group' = [group EXCEPT ![g].next = @ + 1]
        /\ SetTop(t, IF i < Length(g) THEN [Top(t) EXCEPT !.i = i, !.at = "item"]
                     ELSE [Top(t) EXCEPT !.at = "letgo"])
  /\ UNCHANGED <<items, queue, epoch, blocked, chanWaiters, verdicts, idle, cell, count, ran,
                 trapped>>

\* The items that t ran come off `remaining`, and the end of the group is told.
Release(g, n) ==
  /\ group' = [group EXCEPT ![g].remaining = @ - n]
  /\ IF group[g].remaining = n THEN Progress ELSE Still

\* release for a worker, in the section in which it is idle again.
LetGo(t) ==
  /\ At(t, "letgo") /\ Top(t).fn = "work"
  /\ Release(Top(t).g, Top(t).done)
  /\ idle' = idle + 1
  /\ Pop(t)
  /\ UNCHANGED <<items, queue, verdicts, cell, count, ran, trapped>>

\* The submitting thread's own items: it needs no wakeup.
StopDraining(t) ==
  /\ At(t, "letgo") /\ Top(t).fn = "join"
  /\ group' = [group EXCEPT ![Top(t).g].remaining = @ - Top(t).done]
  /\ SetTop(t, [Top(t) EXCEPT !.at = "joining"])
  /\ UNCHANGED <<items, queue, epoch, blocked, chanWaiters, verdicts, idle, cell, count, ran,
                 trapped>>

\* The loop of submit: the group is over and freed, or the thread waits; `over` is when it ends.
JoinWhen(t, over) ==
  /\ At(t, "joining")
  /\ LET g == Top(t).g
     IN IF over
        THEN /\ queue' = SelectSeq(queue, LAMBDA x : x # g)
             /\ group' = [group EXCEPT ![g].st = "gone"]
             /\ stack' = [stack EXCEPT ![t] =
                  LET below == Below(t) n == Len(below) f == below[n]
                  IN [below EXCEPT ![n] = IF f.fn = "main" THEN [f EXCEPT !.at = "over"]
                                          ELSE After(f)]]
             /\ ran' = IF Len(stack[t]) = 2 THEN ran
                       ELSE LET f == stack[t][Len(stack[t]) - 1]
                            IN [ran EXCEPT ![f.g][f.i] = @ + 1]
             /\ Still /\ UNCHANGED verdicts
        ELSE /\ Register(FALSE)
             /\ SetTop(t, [Top(t) EXCEPT !.at = "asleep", !.ep = epoch])
             /\ UNCHANGED <<queue, group, ran>>
  /\ UNCHANGED <<items, idle, cell, count, trapped>>

\* The joiner returns once every item is claimed.
JoinEarly(t) == JoinWhen(t, ~Unstarted(Top(t).g))
Join(t) == JoinWhen(t, group[Top(t).g].remaining = 0)

\* join_one: the worker joins the oldest group, or is counted as blocked.
Look(t) ==
  /\ At(t, "look")
  /\ IF HasWork
     THEN /\ ClaimOldest
          /\ idle' = idle - 1
          /\ Push(t, Frame("work", Oldest, group[Oldest].next, "item"))
          /\ Still /\ UNCHANGED verdicts
     ELSE /\ Register(FALSE)
          /\ SetTop(t, [Top(t) EXCEPT !.at = "asleep", !.ep = epoch])
          /\ UNCHANGED <<group, idle>>
  /\ UNCHANGED <<items, queue, cell, count, ran, trapped>>

\* sleep_until_progress and the wait on the epoch of a mutex: it moved.
Resumed(f) ==
  [f EXCEPT !.at = CASE f.fn = "worker" -> "look"
                     [] f.at = "lockasleep" -> "lockwait"
                     [] f.fn = "join" /\ f.seen = 0 -> "joining"
                     [] OTHER -> "item"]

Wake(t) ==
  /\ ~trapped /\ Top(t).at \in {"asleep", "lockasleep"} /\ Top(t).ep # epoch
  /\ SetTop(t, Resumed(Top(t)))
  /\ UNCHANGED <<items, group, queue, epoch, blocked, chanWaiters, verdicts, idle, cell, count,
                 ran, trapped>>

-----------------------------------------------------------------------------
(* Channels.                                                               *)

Possible(kind) == IF kind = "send" THEN count < Capacity ELSE count > 0

\* channel_wait: an item on top of this one, when no worker is free for it; else the wait, and
\* the deadlock for the one that finds it.
ChannelWait(t) ==
  IF idle = 0 /\ Depth(t) < HelpDepth /\ HasWork
  THEN /\ ClaimOldest
       /\ stack' = [stack EXCEPT ![t] = Append(Append(Below(t), [Top(t) EXCEPT !.seen = 0]),
                                               Frame("help", Oldest, group[Oldest].next, "item"))]
       /\ Still /\ UNCHANGED <<verdicts, trapped>>
  ELSE /\ Register(TRUE)
       /\ SetTop(t, [Top(t) EXCEPT !.at = "asleep", !.ep = epoch, !.seen = verdicts + 1])
       /\ trapped' = (verdicts' # verdicts)
       /\ UNCHANGED group

\* channel_changed: only the threads that wait on a channel are told.
ChannelChanged == IF chanWaiters > 0 THEN Progress ELSE Still

\* tsuzuri_channel_send and tsuzuri_channel_recv; the deadlock status ends the program.
Channel(t) ==
  /\ At(t, "item") /\ Kind(t) \in {"send", "recv"}
  /\ IF Top(t).seen \notin {0, verdicts + 1}
     THEN trapped' = TRUE /\ Still /\ UNCHANGED <<group, stack, verdicts, count, ran>>
     ELSE IF Possible(Kind(t))
     THEN /\ count' = IF Kind(t) = "send" THEN count + 1 ELSE count - 1
          /\ ChannelChanged
          /\ Ran(t) /\ SetTop(t, [After(Top(t)) EXCEPT !.seen = 0])
          /\ UNCHANGED <<group, verdicts, trapped>>
     ELSE ChannelWait(t) /\ UNCHANGED <<count, ran>>
  /\ UNCHANGED <<items, queue, idle, cell>>

\* The end of help_one.
HelpDone(t) ==
  /\ At(t, "release")
  /\ Release(Top(t).g, 1)
  /\ Pop(t)
  /\ UNCHANGED <<items, queue, verdicts, idle, cell, count, ran, trapped>>

-----------------------------------------------------------------------------
(* Mutex.with_lock, of one cell.                                           *)

LockStep(t, place) == SetTop(t, [Top(t) EXCEPT !.at = place])
LockRest == UNCHANGED <<items, group, queue, verdicts, idle, count, trapped>>

Lock(t) ==
  /\ At(t, "item") /\ Kind(t) = "lock"
  /\ cell' = IF cell = 0 THEN 1 ELSE cell
  /\ LockStep(t, IF cell = 0 THEN "held" ELSE "lockwait")
  /\ Still /\ UNCHANGED ran /\ LockRest

\* The epoch is read before the word is set to 2.
LockEpoch(t) ==
  /\ At(t, "lockwait")
  /\ SetTop(t, [Top(t) EXCEPT !.at = "lockswap", !.ep = epoch])
  /\ Still /\ UNCHANGED <<cell, ran>> /\ LockRest

LockSwap(t) ==
  /\ At(t, "lockswap")
  /\ cell' = 2
  /\ LockStep(t, IF cell = 0 THEN "held" ELSE "lockasleep")
  /\ Still /\ UNCHANGED ran /\ LockRest

\* tsuzuri_mutex_unlock: the waiters are told after the word is free.
UnlockWith(t, waited) ==
  /\ At(t, "held")
  /\ cell' = 0
  /\ Ran(t)
  /\ SetTop(t, IF waited THEN [Top(t) EXCEPT !.at = "tell"] ELSE After(Top(t)))
  /\ Still /\ LockRest

UnlockSilently(t) == UnlockWith(t, FALSE)
Unlock(t) == UnlockWith(t, cell = 2)

Tell(t) ==
  /\ At(t, "tell")
  /\ SetTop(t, After(Top(t)))
  /\ Progress
  /\ UNCHANGED <<cell, ran>> /\ LockRest

Step(t) ==
  \/ Submit(t) \/ Plain(t) \/ Fail(t) \/ Claim(t) \/ Take(t) \/ LetGo(t) \/ StopDraining(t)
  \/ Join(t) \/ Look(t) \/ Wake(t) \/ Channel(t) \/ HelpDone(t)
  \/ Lock(t) \/ LockEpoch(t) \/ LockSwap(t) \/ Unlock(t) \/ Tell(t)

Next == \E t \in Threads : Step(t)
Spec == Init /\ [][Next]_vars

-----------------------------------------------------------------------------
(* Properties.                                                             *)

TypeOK ==
  /\ \A g \in Groups : group[g].st \in {"no", "listed", "gone"}
                       /\ group[g].next \in 0..Length(g) + Cardinality(Threads)
                       /\ group[g].remaining \in 0..Length(g)
  /\ blocked \in 0..Cardinality(Threads) /\ chanWaiters \in 0..blocked
  /\ idle \in 0..Cardinality(Workers) /\ cell \in 0..2 /\ count \in 0..Capacity

Asleep(t) == Top(t).at = "asleep" /\ Top(t).ep = epoch

\* `blocked` counts the threads that sleep on this very epoch, each once, and `channel_waiters`
\* those of them that wait on a channel: a count that outlived its epoch would be a verdict of
\* deadlock while somebody runs (register_blocked, progress).
BlockedIsExact ==
  ~trapped =>
    /\ blocked = Cardinality({t \in Threads : Asleep(t)})
    /\ chanWaiters = Cardinality({t \in Threads : Asleep(t) /\ Top(t).seen # 0})

\* A thread that sleeps on the current epoch has nothing to do: a worker no item to start, a
\* joiner no group that is over, a channel's waiter no item or room, a mutex's waiter no free
\* word that nobody is about to tell of.
SleeperHasNothing ==
  \A t \in Threads :
    /\ Asleep(t) /\ Top(t).fn = "worker" => ~HasWork
    /\ Asleep(t) /\ Top(t).fn = "join" /\ Top(t).seen = 0 => group[Top(t).g].remaining > 0
    /\ Asleep(t) /\ Top(t).seen # 0 /\ ~trapped => ~Possible(Kind(t))
    /\ (Top(t).at = "lockasleep" /\ Top(t).ep = epoch)
         => cell = 2 \/ \E u \in Threads : Top(u).at = "tell"

\* The group is on the stack of the thread that joins it: while another thread works on it, or
\* will let go of it, the joiner has not returned (join_one, release).
GroupOutlivesItsUse ==
  \A t \in Threads : \A n \in 1..Len(stack[t]) :
    stack[t][n].g # None => group[stack[t][n].g].st = "listed"

\* Of a group that is over every item ran once, and after a failure at least the items before the
\* lowest index that failed, which is the one reported (run_callback: claims only grow).
ItemsRunOnce ==
  \A g \in Groups :
    /\ \A i \in DOMAIN ran[g] : ran[g][i] <= 1
    /\ group[g].st = "gone" =>
         \A i \in DOMAIN ran[g] :
           i < group[g].failure => ran[g][i] = 1 /\ items[g][i + 1] # "fail"
=============================================================================
