---------------------------- MODULE DataChannel -----------------------------
(***************************************************************************)
(* The bounded queue with counted ends, DataChannel, on the scheduler       *)
(* (src/runtime/tzroutine.c, 3032-3173) and the drop of its ends in the     *)
(* generated code (src/llvm_sync.rs, channel_bounded and channel_close).    *)
(*                                                                         *)
(* A critical section of the channel's lock is one step: it ends with a     *)
(* return, a wake or a park.  A process is a tzroutine or a host thread     *)
(* (pseudo-G).  Each sender has an end of its own; the one Receiver is      *)
(* borrowed by every receiver and dropped by the last of them.  An item is  *)
(* <<p, n>>, the n-th operation of p.                                       *)
(***************************************************************************)
EXTENDS Naturals, Sequences, FiniteSets

CONSTANTS
  Threads,    \* host threads
  Gs,         \* tzroutines
  First,      \* who holds the first Sender
  Borrowers,  \* who receives
  Capacity,   \* of the ring, at least 1
  MaxOps      \* bound: the sends and receives of each process

Procs == Threads \union Gs
Ends == {"send", "recv"}
Other(side) == IF side = "send" THEN "recv" ELSE "send"

VARIABLES
  c,        \* tzr_dchan: ring, head, count, senders, receivers, owners, waiters
  proc,     \* of each process: what it does, whether it sleeps, its ends and operations
  freed,    \* how often the block was freed
  dropped,  \* the items that were dropped with it
  hist,     \* history: the items sent and received, in order
  trapped   \* the detector found nobody to tell

vars == <<c, proc, freed, dropped, hist, trapped>>

NoItem == <<>>

\* channel_bounded: one sender, one receiver, two owners.
Init ==
  /\ c = [slot |-> [i \in 0..Capacity - 1 |-> NoItem], head |-> 0, count |-> 0, senders |-> 1,
          receivers |-> 1, owners |-> 2, waiters |-> [side \in Ends |-> <<>>]]
  /\ proc = [p \in Procs |->
       [op |-> "none", asleep |-> FALSE, doomed |-> FALSE, nops |-> 0,
        had |-> p = First \/ p \in Borrowers,
        ends |-> (IF p = First THEN {"send"} ELSE {})
                 \union (IF p \in Borrowers THEN {"recv"} ELSE {})]]
  /\ freed = 0 /\ dropped = <<>> /\ trapped = FALSE
  /\ hist = [sent |-> <<>>, got |-> <<>>]

Slot(offset) == (c.head + offset) % Capacity
Left == [i \in 1..c.count |-> c.slot[Slot(i - 1)]]
Queued(p) == \E side \in Ends : \E i \in DOMAIN c.waiters[side] : c.waiters[side][i] = p

-----------------------------------------------------------------------------

Without(q, p) == SelectSeq(q, LAMBDA x : x # p)
Woken(ps, p) == IF p \in ps THEN [proc[p] EXCEPT !.asleep = FALSE] ELSE proc[p]

\* tzr_dchan_wake: who is woken, the first of the queue of `side` or all of them.
ToWake(side, all) ==
  LET q == c.waiters[side]
  IN IF all THEN {q[i] : i \in DOMAIN q} ELSE {q[i] : i \in DOMAIN q \cap {1}}

\* Where a process may take the lock for `op`: to begin, or again after a wait.
Ready(p, op) ==
  /\ ~trapped /\ op \in proc[p].ends /\ ~proc[p].asleep
  /\ \/ proc[p].op = "none" /\ proc[p].nops < MaxOps
     \/ proc[p].op = op /\ ~Queued(p)

\* The item of p's operation, counted when it begins.
Count(p) == IF proc[p].op = "none" THEN proc[p].nops + 1 ELSE proc[p].nops

\* tzr_dchan_wait: at the end of the queue, and asleep.
Wait(p, op) ==
  /\ c' = [c EXCEPT !.waiters[op] = Append(@, p)]
  /\ proc' = [proc EXCEPT ![p].op = op, ![p].asleep = TRUE, ![p].doomed = FALSE,
                          ![p].nops = Count(p)]
  /\ UNCHANGED <<freed, dropped, hist, trapped>>

Return(p, chan, ps) ==
  /\ c' = chan
  /\ proc' = [x \in Procs |->
       IF x = p THEN [proc[p] EXCEPT !.op = "none", !.doomed = FALSE, !.nops = Count(p)]
       ELSE Woken(ps, x)]
  /\ UNCHANGED <<freed, dropped, trapped>>

\* tsuzuri_channel_send; `wakes` is whom it wakes for its item.
SendWith(p, wakes) ==
  /\ Ready(p, "send")
  /\ IF c.receivers = 0 THEN Return(p, c, {}) /\ UNCHANGED hist
     ELSE IF c.count < Capacity
     THEN LET item == <<p, Count(p)>>
          IN /\ Return(p, [c EXCEPT !.slot[Slot(c.count)] = item, !.count = @ + 1,
                                    !.waiters["recv"] =
                                      SelectSeq(@, LAMBDA x : x \notin wakes)], wakes)
             /\ hist' = [hist EXCEPT !.sent = Append(@, item)]
     ELSE Wait(p, "send")

\* A receiver is woken only for the first item.
SendOnFirst(p) == SendWith(p, IF c.count = 0 THEN ToWake("recv", FALSE) ELSE {})

\* The item goes into the slot of the oldest one.
SendAtHead(p) ==
  /\ Ready(p, "send")
  /\ IF c.receivers = 0 THEN Return(p, c, {}) /\ UNCHANGED hist
     ELSE IF c.count < Capacity
     THEN LET item == <<p, Count(p)>>
          IN /\ Return(p, [c EXCEPT !.slot[(c.head + Capacity - 1) % Capacity] = item,
                                    !.count = @ + 1, !.waiters["recv"] =
                                      SelectSeq(@, LAMBDA x : x \notin ToWake("recv", FALSE))],
                       ToWake("recv", FALSE))
             /\ hist' = [hist EXCEPT !.sent = Append(@, item)]
     ELSE Wait(p, "send")

Send(p) == SendWith(p, ToWake("recv", FALSE))

\* tsuzuri_channel_recv
Recv(p) ==
  /\ Ready(p, "recv")
  /\ IF c.count > 0
     THEN LET wakes == ToWake("send", FALSE)
          IN /\ Return(p, [c EXCEPT !.head = (@ + 1) % Capacity, !.count = @ - 1,
                                    !.slot[c.head] = NoItem,
                                    !.waiters["send"] =
                                      SelectSeq(@, LAMBDA x : x \notin wakes)], wakes)
             /\ hist' = [hist EXCEPT !.got = Append(@, c.slot[c.head])]
     ELSE IF c.senders = 0 THEN Return(p, c, {}) /\ UNCHANGED hist
     ELSE Wait(p, "recv")

\* The rest of tzr_dchan_wait for a pseudo-G that the detector woke: with its record still in the
\* queue the operation returns the deadlock status, else a waker came first and it tries again.
GiveUpKeepingRecord(p) ==
  /\ ~trapped /\ proc[p].doomed /\ Queued(p)
  /\ proc' = [proc EXCEPT ![p].op = "none", ![p].doomed = FALSE]
  /\ UNCHANGED <<c, freed, dropped, hist, trapped>>

GiveUp(p) ==
  /\ ~trapped /\ proc[p].doomed /\ Queued(p)
  /\ c' = [c EXCEPT !.waiters = [side \in Ends |-> Without(@[side], p)]]
  /\ proc' = [proc EXCEPT ![p].op = "none", ![p].doomed = FALSE]
  /\ UNCHANGED <<freed, dropped, hist, trapped>>

\* tsuzuri_channel_clone_sender, for a process that never had a Sender (a bound).
CloneSender(p, q) ==
  /\ ~trapped /\ proc[p].op = "none" /\ "send" \in proc[p].ends
  /\ ~proc[q].had
  /\ c' = [c EXCEPT !.senders = @ + 1, !.owners = @ + 1]
  /\ proc' = [proc EXCEPT ![q].ends = @ \union {"send"}, ![q].had = TRUE]
  /\ UNCHANGED <<freed, dropped, hist, trapped>>

\* tsuzuri_channel_close, for the last who uses the end, and what channel_close of the generated
\* code does for the last owner; `all` is whether every waiter of the other side is woken.
CloseWith(p, side, all) ==
  /\ ~trapped /\ proc[p].op = "none" /\ side \in proc[p].ends
  /\ LET ends == [proc EXCEPT ![p].ends = @ \ {side}]
         drop == side = "send" \/ \A q \in Borrowers \ {p} : "recv" \notin proc[q].ends
         count == IF side = "send" THEN c.senders - 1 ELSE c.receivers - 1
         wakes == IF count = 0 THEN ToWake(Other(side), all) ELSE {}
     IN IF ~drop THEN proc' = ends /\ UNCHANGED <<c, freed, dropped>>
        ELSE /\ proc' = [x \in Procs |-> IF x \in wakes THEN [ends[x] EXCEPT !.asleep = FALSE]
                                         ELSE ends[x]]
             /\ c' = [c EXCEPT !.senders = IF side = "send" THEN count ELSE @,
                               !.receivers = IF side = "recv" THEN count ELSE @,
                               !.owners = @ - 1,
                               !.waiters[Other(side)] =
                                 SelectSeq(@, LAMBDA x : x \notin wakes)]
             /\ IF c.owners = 1 THEN freed' = freed + 1 /\ dropped' = Left
                                ELSE UNCHANGED <<freed, dropped>>
  /\ UNCHANGED <<hist, trapped>>

\* The last end wakes one waiter.
CloseWakesOne(p, side) == CloseWith(p, side, FALSE)
Close(p, side) == CloseWith(p, side, TRUE)

-----------------------------------------------------------------------------
(* tzr_checkdead, as far as these processes go.                             *)

Live == {p \in Procs : proc[p].ends # {}}

CheckDead ==
  /\ ~trapped /\ Live # {}
  /\ \A p \in Live : proc[p].asleep
  /\ trapped' = (Live \cap Threads = {})
  /\ proc' = [p \in Procs |-> IF p \in Live \cap Threads
                              THEN [proc[p] EXCEPT !.doomed = TRUE, !.asleep = FALSE]
                              ELSE proc[p]]
  /\ UNCHANGED <<c, freed, dropped, hist>>

Step(p) == Send(p) \/ Recv(p) \/ GiveUp(p) \/ \E side \in Ends : Close(p, side)

Next == (\E p \in Procs : Step(p) \/ \E q \in Procs \ {p} : CloneSender(p, q)) \/ CheckDead

Spec == Init /\ [][Next]_vars

-----------------------------------------------------------------------------
(* Properties.                                                             *)

Items == Procs \X (1..MaxOps)

TypeOK ==
  /\ c \in [slot: [0..Capacity - 1 -> Items \union {NoItem}], head: 0..Capacity - 1,
            count: 0..Capacity, senders: 0..Cardinality(Procs), receivers: 0..1,
            owners: 0..Cardinality(Procs) + 1, waiters: [Ends -> Seq(Procs)]]
  /\ proc \in [Procs -> [op: Ends \union {"none"}, asleep: BOOLEAN, doomed: BOOLEAN,
                         nops: 0..MaxOps, had: BOOLEAN, ends: SUBSET Ends]]
  /\ freed \in 0..1 /\ dropped \in Seq(Items) /\ trapped \in BOOLEAN
  /\ hist.sent \in Seq(Items) /\ hist.got \in Seq(Items)

\* Who was woken and has not looked again.
InFlight(side) == {p \in Procs : proc[p].op = side /\ ~Queued(p)}

\* While receivers wait there are as many on their way as there are items, and while senders wait
\* as many as there is room for: no item and no room stays unseen because the one that was woken
\* for it found it gone, gave up, or was overtaken (tzr_dchan_wake wakes one per item).
NoLostWakeup ==
  /\ c.waiters["recv"] # <<>> => Cardinality(InFlight("recv")) >= c.count
  /\ c.waiters["send"] # <<>> => Cardinality(InFlight("send")) >= Capacity - c.count

\* Nobody waits for an end that is gone: the last close wakes all who wait, and whoever comes
\* after it does not wait (tsuzuri_channel_close).
NoWaitForTheGone ==
  /\ c.senders = 0 => c.waiters["recv"] = <<>>
  /\ c.receivers = 0 => c.waiters["send"] = <<>>

\* A record in a queue is of a process that is in that very wait: it lies on its stack, and one
\* that stayed would be woken in a later wait (tzr_dchan_wait after the detector).
RecordIsOfItsWait ==
  \A side \in Ends : \A i \in DOMAIN c.waiters[side] : proc[c.waiters[side][i]].op = side

\* What was received, and what is left, is what was sent, in that order; the last owner drops
\* what is left, once (tzr_dchan_slot, channel_close of the generated code).
ItemsInOrder ==
  /\ hist.sent = hist.got \o Left
  /\ freed = 1 => dropped = Left /\ Live = {}
=============================================================================
