------------------------------- MODULE Channel -------------------------------
(* Channels and select of the tzroutine runtime (runtime/tzroutine.c).       *)
(*                                                                           *)
(* A process is a tzroutine (Gs) or a host thread that uses the runtime      *)
(* through a pseudo-G (Threads).  A critical section of a channel's lock is  *)
(* one step: a plain operation holds one lock from its first read to its     *)
(* park or return, and select holds the locks of all its cases, taken in     *)
(* address order, through a whole pass.                                      *)
(*                                                                           *)
(* An item is <<p, n, i>>: what case i of process p's n-th operation sends.  *)
EXTENDS Integers, Sequences, FiniteSets

CONSTANTS
    Gs,            \* tzroutines
    Threads,       \* host threads (pseudo-Gs)
    Chans,
    Capacity,      \* [Chans -> Nat]
    SelectShapes,  \* the case lists that a select may be given
    MaxOps         \* bound: the operations that each process starts

Procs == Gs \cup Threads
Case  == [chan : Chans, send : BOOLEAN]

(* What the constants are.                                                   *)
ChannelAssumption ==
    /\ Gs \cap Threads = {}
    /\ IsFiniteSet(Procs)
    /\ Capacity \in [Chans -> Nat]
    /\ SelectShapes \subseteq Seq(Case)
    /\ MaxOps \in [Procs -> Nat]

VARIABLES
    chan,     \* tzr_chan: the ring, its indices, the flag and the wait queues
    g,        \* the part of a tzr_g, its sudogs and its stack that an operation uses
    hist,     \* history: the items that each channel accepted and delivered, in order
    trapped   \* the detector found a deadlock with no pseudo-G to tell

vars == <<chan, g, hist, trapped>>

NoItem == <<>>
Items == Procs \X Nat \X Nat
Sudogs == Procs \X Nat
NoSudog == <<>>
Results == {"none", "ok", "closed", "would_block", "deadlock"}

-----------------------------------------------------------------------------
(* Wait queues.  A sudog <<p, i>> is case i of what p waits for; the sudogs  *)
(* of a select that another case won are dead and are skipped.               *)

Dead(s) == g[s[1]].sel /\ g[s[1]].done

Live(q) == {i \in DOMAIN q : ~Dead(q[i])}
FirstLive(q) == CHOOSE i \in Live(q) : \A j \in Live(q) : i <= j

(* tzr_dequeue: the sudog it returns and the queue it leaves.                *)
Dequeued(q) == IF Live(q) = {} THEN NoSudog ELSE q[FirstLive(q)]
(* Variant with a bug: a dead sudog empties the queue.                       *)
AfterDequeueEmpty(q) == <<>>

(* Variant with a bug: the sudog that was taken stays queued.                *)
AfterDequeueKept(q) == IF Live(q) = {} THEN <<>> ELSE SubSeq(q, FirstLive(q), Len(q))

AfterDequeue(q) == IF Live(q) = {} THEN <<>> ELSE SubSeq(q, FirstLive(q) + 1, Len(q))

(* tzr_unlink, for every sudog of p.                                         *)
Unlink(q, p) == SelectSeq(q, LAMBDA s : s[1] # p)

InQueue(q, s) == \E i \in DOMAIN q : q[i] = s

-----------------------------------------------------------------------------
(* The ring buffer.                                                          *)

Put(ch, c, v) ==
    [ch EXCEPT !.slot[ch.sendx] = v,
               !.sendx = (ch.sendx + 1) % Capacity[c],
               !.count = @ + 1]

Take(ch, c) ==
    [ch EXCEPT !.recvx = (ch.recvx + 1) % Capacity[c],
               !.count = @ - 1]

(* Variant with a bug: sendx stays behind.                                   *)
RotateBehind(ch, c, v) ==
    [ch EXCEPT !.slot[ch.recvx] = v,
               !.recvx = (ch.recvx + 1) % Capacity[c]]

(* tzr_recv_from on a buffered channel: the oldest item leaves, the waiting  *)
(* sender's takes its slot.                                                  *)
Rotate(ch, c, v) ==
    [ch EXCEPT !.slot[ch.recvx] = v,
               !.recvx = (ch.recvx + 1) % Capacity[c],
               !.sendx = (ch.recvx + 1) % Capacity[c]]

(* What case i of p sends.                                                   *)
Elem(p, i) == <<p, g[p].nops, i>>

-----------------------------------------------------------------------------
(* What a waker does to the process whose sudog s it took: the outcome goes  *)
(* to the sudog and `param` names it.  A pseudo-G is readied with the lock   *)
(* held, unless the detector woke it already (tzr_ready_unlock, tzr_ready);  *)
(* a tzroutine is readied after the unlock, by Ready below.                  *)
Settle(gs, s, ok, v) ==
    [gs EXCEPT ![s[1]] =
        [@ EXCEPT !.done = @ \/ gs[s[1]].sel,
                  !.param = s[2],
                  !.ok = ok,
                  !.got = v,
                  !.status = IF s[1] \in Threads /\ @ = "waiting" THEN "running" ELSE @]]

(* p's operation is over: case i with result st and, for a receive, item v.  *)
(* When it took a tzroutine's sudog it still has to ready that tzroutine.    *)
Return(gs, p, st, i, v, s) ==
    [gs EXCEPT ![p] =
        [@ EXCEPT !.last = [st |-> st, case |-> i, got |-> v],
                  !.param = 0, !.ok = FALSE, !.got = NoItem, !.done = FALSE,
                  !.pc = IF s # NoSudog /\ s[1] \in Gs THEN "readying" ELSE "idle",
                  !.target = IF s # NoSudog /\ s[1] \in Gs THEN s[1] ELSE p]]

Accept(h, v)  == [h EXCEPT !.accepted = Append(@, v)]
Deliver(h, v) == [h EXCEPT !.delivered = Append(@, v)]

(* Variant with a bug: a full ring has room.                                 *)
SendReady(ch, c) == ch.closed \/ Live(ch.recvq) # {} \/ ch.count < Capacity[c]
(* Variant with a bug: the buffer is not looked at.                          *)
RecvReadyUnbuffered(ch, c) == Live(ch.sendq) # {} \/ ch.closed

RecvReady(ch, c) == Live(ch.sendq) # {} \/ ch.count > 0 \/ ch.closed

(* Variant with a bug: a closed channel still takes items.                   *)
SendNowClosed(cs, gs, p, i, c, v) ==
    LET ch == cs[c]
        s == Dequeued(ch.recvq)
    IN  IF s # NoSudog
        THEN /\ chan' = [cs EXCEPT ![c].recvq = AfterDequeue(@)]
             /\ g' = Return(Settle(gs, s, TRUE, v), p, "ok", i, NoItem, s)
             /\ hist' = [hist EXCEPT ![c] = Deliver(Accept(@, v), v)]
        ELSE IF ch.count < Capacity[c]
        THEN /\ chan' = [cs EXCEPT ![c] = Put([@ EXCEPT !.recvq = <<>>], c, v)]
             /\ g' = Return(gs, p, "ok", i, NoItem, NoSudog)
             /\ hist' = [hist EXCEPT ![c] = Accept(@, v)]
        ELSE /\ chan' = cs
             /\ g' = Return(gs, p, "closed", i, NoItem, NoSudog)
             /\ hist' = hist

(* A send of v on c by case i of p that completes at once, from the channels *)
(* cs and processes gs.                                                      *)
SendNow(cs, gs, p, i, c, v) ==
    LET ch == cs[c]
        s == Dequeued(ch.recvq)
    IN  IF ch.closed
        THEN /\ chan' = cs
             /\ g' = Return(gs, p, "closed", i, NoItem, NoSudog)
             /\ hist' = hist
        ELSE IF s # NoSudog
        THEN /\ chan' = [cs EXCEPT ![c].recvq = AfterDequeue(@)]
             /\ g' = Return(Settle(gs, s, TRUE, v), p, "ok", i, NoItem, s)
             /\ hist' = [hist EXCEPT ![c] = Deliver(Accept(@, v), v)]
        ELSE /\ chan' = [cs EXCEPT ![c] = Put([@ EXCEPT !.recvq = <<>>], c, v)]
             /\ g' = Return(gs, p, "ok", i, NoItem, NoSudog)
             /\ hist' = [hist EXCEPT ![c] = Accept(@, v)]

(* A receive from c by case i of p that completes at once.                   *)
RecvNow(cs, gs, p, i, c) ==
    LET ch == cs[c]
        s == Dequeued(ch.sendq)
        oldest == ch.slot[ch.recvx]
        rest == [ch EXCEPT !.sendq = AfterDequeue(@)]
    IN  IF s # NoSudog
        THEN LET w == Elem(s[1], s[2])
                 v == IF Capacity[c] = 0 THEN w ELSE oldest
             IN  /\ chan' = [cs EXCEPT ![c] =
                              IF Capacity[c] = 0 THEN rest ELSE Rotate(rest, c, w)]
                 /\ g' = Return(Settle(gs, s, TRUE, NoItem), p, "ok", i, v, s)
                 /\ hist' = [hist EXCEPT ![c] = Deliver(Accept(@, w), v)]
        ELSE IF ch.count > 0
        THEN /\ chan' = [cs EXCEPT ![c] = Take(rest, c)]
             /\ g' = Return(gs, p, "ok", i, oldest, NoSudog)
             /\ hist' = [hist EXCEPT ![c] = Deliver(@, oldest)]
        ELSE /\ chan' = [cs EXCEPT ![c] = rest]
             /\ g' = Return(gs, p, "closed", i, NoItem, NoSudog)
             /\ hist' = hist

-----------------------------------------------------------------------------
(* Operations.                                                               *)

CanStart(p) == ~trapped /\ g[p].pc = "idle" /\ g[p].nops < MaxOps[p]

Started(p, sel, cases) ==
    [g EXCEPT ![p] = [@ EXCEPT !.nops = @ + 1, !.sel = sel, !.cases = cases]]

NewItem(p, i) == <<p, g[p].nops + 1, i>>

(* p waits in the queues of `cases`, which it enters in the order `order`,   *)
(* and parks; cs holds the channels as the scan of the cases left them.      *)
Enqueued(cs, p, cases, order) ==
    LET mine == [k \in DOMAIN order |-> <<p, order[k]>>]
        add(c, send) ==
            SelectSeq(mine, LAMBDA s : cases[s[2]].chan = c /\ cases[s[2]].send = send)
    IN  [c \in Chans |-> [cs[c] EXCEPT !.sendq = @ \o add(c, TRUE),
                                       !.recvq = @ \o add(c, FALSE)]]

Parked(gs, p) ==
    [gs EXCEPT ![p] =
        [@ EXCEPT !.pc = "parked", !.status = "waiting", !.param = 0,
                  !.ok = FALSE, !.got = NoItem,
                  !.done = IF gs[p].sel THEN FALSE ELSE @]]

(* The scan of a case that is not ready empties the queue it looked at: every *)
(* sudog in it was dead.                                                     *)
Scanned(cases, scanned) ==
    [c \in Chans |->
        [chan[c] EXCEPT
            !.recvq = IF \E i \in scanned : cases[i].chan = c /\ cases[i].send THEN <<>> ELSE @,
            !.sendq = IF \E i \in scanned : cases[i].chan = c /\ ~cases[i].send THEN <<>> ELSE @]]

NoWait(p, cs, gs) ==
    /\ chan' = cs
    /\ g' = Return(gs, p, "would_block", 0, NoItem, NoSudog)
    /\ hist' = hist

Wait(p, cs, gs, cases, order) ==
    /\ chan' = Enqueued(cs, p, cases, order)
    /\ g' = Parked(gs, p)
    /\ hist' = hist

(* tzr_chan_send.                                                            *)
Send(p, c, block) ==
    LET cases == <<[chan |-> c, send |-> TRUE]>>
        gs == Started(p, FALSE, cases)
    IN  /\ CanStart(p)
        /\ IF SendReady(chan[c], c) THEN SendNow(chan, gs, p, 1, c, NewItem(p, 1))
           ELSE IF ~block THEN NoWait(p, Scanned(cases, {1}), gs)
           ELSE Wait(p, Scanned(cases, {1}), gs, cases, <<1>>)
        /\ UNCHANGED trapped

(* tsuzuri_tz_chan_recv.                                                     *)
Recv(p, c, block) ==
    LET cases == <<[chan |-> c, send |-> FALSE]>>
        gs == Started(p, FALSE, cases)
    IN  /\ CanStart(p)
        /\ IF RecvReady(chan[c], c) THEN RecvNow(chan, gs, p, 1, c)
           ELSE IF ~block THEN NoWait(p, Scanned(cases, {1}), gs)
           ELSE Wait(p, Scanned(cases, {1}), gs, cases, <<1>>)
        /\ UNCHANGED trapped

(* tzr_chan_close: every waiter that is not dead wakes, the receivers first, *)
(* and all of them (tzroutines too) with the lock held.                      *)
Close(p, c) ==
    LET q == chan[c].recvq \o chan[c].sendq
        woken == {q[i][1] : i \in Live(q)}
        first(r) == q[CHOOSE i \in DOMAIN q : /\ q[i][1] = r
                                              /\ \A j \in DOMAIN q : q[j][1] = r => i <= j]
        gs == Started(p, FALSE, <<>>)
        settled == [r \in Procs |->
                        IF r \in woken
                        THEN [Settle(gs, first(r), FALSE, NoItem)[r] EXCEPT !.status = "running"]
                        ELSE gs[r]]
    IN  /\ CanStart(p)
        /\ IF chan[c].closed
           THEN /\ g' = Return(gs, p, "closed", 0, NoItem, NoSudog)
                /\ UNCHANGED chan
           ELSE /\ g' = Return(settled, p, "ok", 0, NoItem, NoSudog)
                /\ chan' = [chan EXCEPT ![c].closed = TRUE, ![c].recvq = <<>>, ![c].sendq = <<>>]
        /\ UNCHANGED <<hist, trapped>>

(* The orders in which a select may look at its cases (Fisher-Yates).        *)
PollOrders(n) == {o \in [1..n -> 1..n] : \A i, j \in 1..n : o[i] = o[j] => i = j}

CaseReady(k) == IF k.send THEN SendReady(chan[k.chan], k.chan) ELSE RecvReady(chan[k.chan], k.chan)

(* tzr_select, passes 1 and 2: the first ready case in poll order completes, *)
(* or every case waits.                                                      *)
Select(p, cases, block) ==
    LET n == Len(cases)
        gs == Started(p, TRUE, cases)
    IN  /\ CanStart(p)
        /\ \E order \in PollOrders(n) :
             LET ready == {k \in 1..n : CaseReady(cases[order[k]])}
             IN  IF ready # {}
                 THEN LET first == CHOOSE k \in ready : \A j \in ready : k <= j
                          i == order[first]
                          c == cases[i].chan
                          cs == Scanned(cases, {order[k] : k \in 1..(first - 1)})
                      IN  IF cases[i].send
                          THEN SendNow(cs, gs, p, i, c, NewItem(p, i))
                          ELSE RecvNow(cs, gs, p, i, c)
                 ELSE IF ~block THEN NoWait(p, Scanned(cases, 1..n), gs)
                 ELSE Wait(p, Scanned(cases, 1..n), gs, cases, order)
        /\ UNCHANGED trapped

(* Variant with a bug: the tzroutine is not made runnable.                   *)
ReadyNobody(p) ==
    /\ ~trapped
    /\ g[p].pc = "readying"
    /\ g' = [g EXCEPT ![p].pc = "idle", ![p].target = p]
    /\ UNCHANGED <<chan, hist, trapped>>

(* The tail of tzr_ready_unlock for a tzroutine: WAITING becomes RUNNABLE.   *)
(* The scheduler runs it later, which is left to Resume.                     *)
Ready(p) ==
    /\ ~trapped
    /\ g[p].pc = "readying"
    /\ g' = [g EXCEPT ![p].pc = "idle", ![p].target = p,
                      ![g[p].target].status = "running"]
    /\ UNCHANGED <<chan, hist, trapped>>

(* Variant with a bug: a case that sends stays queued.                       *)
QueuesHalf(cs, p) == [c \in Chans |-> [cs[c] EXCEPT !.recvq = Unlink(@, p)]]

Queues(cs, p) ==
    [c \in Chans |-> [cs[c] EXCEPT !.sendq = Unlink(@, p), !.recvq = Unlink(@, p)]]

(* Variant with a bug: a doomed wait is cancelled although a waker took it.  *)
QueuedAnyway(p) == TRUE

Queued(p) == \E c \in Chans, i \in DOMAIN g[p].cases :
                InQueue(chan[c].sendq, <<p, i>>) \/ InQueue(chan[c].recvq, <<p, i>>)

Woken(p) == ~trapped /\ g[p].pc = "parked" /\ g[p].status = "running"

Settled(p) ==
    Return([g EXCEPT ![p].doomed = FALSE], p, IF g[p].ok THEN "ok" ELSE "closed",
           g[p].param, g[p].got, NoSudog)

GivenUp(p) == Return([g EXCEPT ![p].doomed = FALSE], p, "deadlock", 0, NoItem, NoSudog)

(* A send or receive goes on after its park: tzr_cancel for a doomed         *)
(* pseudo-G, unless a waker took its sudog first.                            *)
Resume(p) ==
    /\ Woken(p)
    /\ ~g[p].sel
    /\ IF g[p].doomed /\ Queued(p)
       THEN g' = GivenUp(p) /\ chan' = Queues(chan, p)
       ELSE g' = Settled(p) /\ UNCHANGED chan
    /\ UNCHANGED <<hist, trapped>>

(* Variant with a bug: a doomed select gives up although a case won.         *)
(* A select goes on after its park: a doomed pseudo-G cancels every case     *)
(* unless a waker chose one; otherwise pass 3 follows, with the locks taken  *)
(* again.                                                                    *)
ResumeSelect(p) ==
    /\ Woken(p)
    /\ g[p].sel
    /\ IF g[p].doomed /\ g[p].param = 0
       THEN g' = GivenUp(p) /\ chan' = Queues(chan, p)
       ELSE g' = [g EXCEPT ![p].doomed = FALSE, ![p].pc = "pass3"] /\ UNCHANGED chan
    /\ UNCHANGED <<hist, trapped>>

(* Pass 3: the other cases leave their queues.                               *)
Pass3(p) ==
    /\ ~trapped
    /\ g[p].pc = "pass3"
    /\ g' = Settled(p)
    /\ chan' = Queues(chan, p)
    /\ UNCHANGED <<hist, trapped>>

(* A tzroutine ends, or a host thread ends and its pseudo-G with it.         *)
Exit(p) ==
    /\ ~trapped
    /\ g[p].pc = "idle"
    /\ g' = [g EXCEPT ![p].pc = "exited", ![p].status = "dead"]
    /\ UNCHANGED <<chan, hist, trapped>>

Asleep == /\ \A p \in Procs : g[p].status # "running"
          /\ \E p \in Procs : g[p].status = "waiting"

(* Variant with a bug: the doomed threads are not woken.                     *)
CheckDeadUnwoken ==
    /\ ~trapped
    /\ Asleep
    /\ trapped' = (\A t \in Threads : g[t].status # "waiting")
    /\ g' = [p \in Procs |-> [g[p] EXCEPT !.doomed = @ \/ (p \in Threads /\ g[p].status = "waiting")]]
    /\ UNCHANGED <<chan, hist>>

(* tzr_checkdead, as far as these processes go: with nothing running, every  *)
(* waiting pseudo-G wakes doomed, and without one the program traps.         *)
CheckDead ==
    /\ ~trapped
    /\ Asleep
    /\ trapped' = (\A t \in Threads : g[t].status # "waiting")
    /\ g' = [p \in Procs |->
                IF p \in Threads /\ g[p].status = "waiting"
                THEN [g[p] EXCEPT !.doomed = TRUE, !.status = "running"]
                ELSE g[p]]
    /\ UNCHANGED <<chan, hist>>

(* The program is over.                                                      *)
Over ==
    /\ trapped \/ \A p \in Procs : g[p].pc = "exited"
    /\ UNCHANGED vars

Step(p) ==
    \/ \E c \in Chans, block \in BOOLEAN : Send(p, c, block) \/ Recv(p, c, block)
    \/ \E c \in Chans : Close(p, c)
    \/ \E cases \in SelectShapes, block \in BOOLEAN : Select(p, cases, block)
    \/ Ready(p)
    \/ Resume(p)
    \/ ResumeSelect(p)
    \/ Pass3(p)
    \/ Exit(p)

Next == (\E p \in Procs : Step(p)) \/ CheckDead \/ Over

NewChan(c) ==
    [slot |-> [i \in 0..(Capacity[c] - 1) |-> NoItem], count |-> 0, sendx |-> 0, recvx |-> 0,
     closed |-> FALSE, recvq |-> <<>>, sendq |-> <<>>]

NewG(p) ==
    [pc |-> "idle", status |-> "running", doomed |-> FALSE, sel |-> FALSE, done |-> FALSE,
     cases |-> <<>>, param |-> 0, ok |-> FALSE, got |-> NoItem, target |-> p, nops |-> 0,
     last |-> [st |-> "none", case |-> 0, got |-> NoItem]]

Init ==
    /\ chan = [c \in Chans |-> NewChan(c)]
    /\ g = [p \in Procs |-> NewG(p)]
    /\ hist = [c \in Chans |-> [accepted |-> <<>>, delivered |-> <<>>]]
    /\ trapped = FALSE

(* A runnable process runs and a waker finishes its wake: the scheduler and  *)
(* the OS run them.  Nothing makes a process start another operation.        *)
Fairness ==
    /\ \A p \in Procs : WF_vars(Ready(p)) /\ WF_vars(Resume(p))
                          /\ WF_vars(ResumeSelect(p)) /\ WF_vars(Pass3(p))
    /\ WF_vars(CheckDead)

Spec == Init /\ [][Next]_vars
FairSpec == Spec /\ Fairness

-----------------------------------------------------------------------------
(* Properties.                                                               *)

ChanRecord(c) ==
    [slot : [0..(Capacity[c] - 1) -> Items \cup {NoItem}],
     count : 0..Capacity[c], sendx : Nat, recvx : Nat, closed : BOOLEAN,
     recvq : Seq(Sudogs), sendq : Seq(Sudogs)]

GRecord ==
    [pc : {"idle", "readying", "parked", "pass3", "exited"},
     status : {"running", "waiting", "dead"},
     doomed : BOOLEAN, sel : BOOLEAN, done : BOOLEAN,
     cases : Seq(Case), param : Nat, ok : BOOLEAN, got : Items \cup {NoItem},
     target : Procs, nops : Nat,
     last : [st : Results, case : Nat, got : Items \cup {NoItem}]]

(* Every field of the channels and processes keeps its type; the ring never  *)
(* holds more than the capacity (tzr_chan, tzr_g).                           *)
TypeOK ==
    /\ DOMAIN chan = Chans
    /\ \A c \in Chans : chan[c] \in ChanRecord(c)
    /\ g \in [Procs -> GRecord]
    /\ hist \in [Chans -> [accepted : Seq(Items), delivered : Seq(Items)]]
    /\ trapped \in BOOLEAN

(* A process that waits and has not been handed an outcome is in the queue   *)
(* of every one of its cases, where a waker still finds it: no send, receive *)
(* or select parks without being reachable (tzr_enqueue before tzr_park,     *)
(* tzr_dequeue's skip of dead selects).                                      *)
WaitersAreQueued ==
    \A p \in Procs :
        g[p].status = "waiting" /\ g[p].param = 0 =>
            /\ ~(g[p].sel /\ g[p].done)
            /\ \A i \in DOMAIN g[p].cases :
                  LET k == g[p].cases[i]
                  IN  InQueue(IF k.send THEN chan[k.chan].sendq ELSE chan[k.chan].recvq, <<p, i>>)

(* A sudog lives on its waiter's stack (tzr_chan_send's `me`, the cases of a *)
(* select): whatever is in a queue belongs to an operation that has not      *)
(* returned, on that channel and in that direction.                          *)
NoDanglingSudog ==
    \A c \in Chans, send \in BOOLEAN :
        LET q == IF send THEN chan[c].sendq ELSE chan[c].recvq
        IN  \A i \in DOMAIN q :
                /\ g[q[i][1]].pc \in {"parked", "pass3"}
                /\ q[i][2] \in DOMAIN g[q[i][1]].cases
                /\ g[q[i][1]].cases[q[i][2]] = [chan |-> c, send |-> send]

(* Nobody sleeps on a channel that could serve them: no receiver waits while *)
(* the buffer holds an item, no sender while it has room, no sender and      *)
(* receiver of two processes wait for each other, and nobody waits on a      *)
(* closed channel (the order of the tests in send, recv, select and close).  *)
NoMissedMatch ==
    \A c \in Chans :
        LET ch == chan[c]
            receivers == {ch.recvq[i][1] : i \in Live(ch.recvq)}
            senders == {ch.sendq[i][1] : i \in Live(ch.sendq)}
        IN  /\ receivers # {} => ch.count = 0
            /\ senders # {} => ch.count = Capacity[c]
            /\ \A r \in receivers, s \in senders : r = s
            /\ ch.closed => receivers \cup senders = {}

(* tzr_ready's fatal error "bad tzroutine status in ready" cannot happen: a  *)
(* tzroutine that a waker is about to ready, or that a close would ready, is *)
(* WAITING, and has one waker only.                                          *)
ReadyIsLegal ==
    /\ \A p \in Procs :
          g[p].pc = "readying" =>
              /\ g[p].target \in Gs
              /\ g[g[p].target].status = "waiting"
              /\ g[g[p].target].param # 0
              /\ \A r \in Procs : g[r].pc = "readying" /\ g[r].target = g[p].target => r = p
    /\ \A c \in Chans : LET q == chan[c].recvq \o chan[c].sendq
                        IN  \A i \in Live(q) : q[i][1] \in Gs => g[q[i][1]].status = "waiting"

(* What an operation reports is what happened: a send case moved its item    *)
(* exactly once when the operation returned ok for that case, and never      *)
(* otherwise, so that an item reported closed, deadlock or would_block still *)
(* belongs to the caller.                                                    *)
OutcomeIsTrue ==
    \A p \in Procs :
        g[p].pc \in {"idle", "readying", "exited"} /\ g[p].last.st # "none" =>
            \A i \in DOMAIN g[p].cases :
                LET k == g[p].cases[i]
                    places == {j \in DOMAIN hist[k.chan].accepted : hist[k.chan].accepted[j] = Elem(p, i)}
                IN  k.send => Cardinality(places) = IF g[p].last.st = "ok" /\ g[p].last.case = i THEN 1 ELSE 0

(* The ring is exactly what was accepted and not yet delivered, oldest       *)
(* first, and the two indices agree with the count (sendx, recvx, count).    *)
RingHoldsBacklog ==
    \A c \in Chans :
        LET ch == chan[c]
            h == hist[c]
        IN  /\ Len(h.accepted) = Len(h.delivered) + ch.count
            /\ Capacity[c] > 0 =>
                  /\ ch.sendx = (ch.recvx + ch.count) % Capacity[c]
                  /\ \A i \in 1..ch.count :
                        ch.slot[(ch.recvx + i - 1) % Capacity[c]] = h.accepted[Len(h.delivered) + i]

Fifo == INSTANCE FifoChannel WITH closed <- [c \in Chans |-> chan[c].closed]

(* The channels implement bounded FIFO queues that accept nothing once       *)
(* closed (module FifoChannel).                                              *)
ChannelsAreFifo == Fifo!Spec

Completed(p) == g[p].pc \in {"parked", "pass3"} /\ g[p].param # 0 /\ ~trapped

(* An operation that a partner or a close completed returns (Ready, Resume). *)
HandoverReturns == \A p \in Procs : []<>~Completed(p)

Unreported == ~trapped /\ (Asleep \/ \E t \in Threads : g[t].pc = "parked" /\ g[t].doomed)

(* When everything sleeps the detector answers: a host thread's call returns *)
(* the deadlock status, or the program traps (tzr_checkdead).                *)
DeadlockIsReported == []<>~Unreported
=============================================================================
