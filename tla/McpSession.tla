----------------------------- MODULE McpSession -----------------------------
(***************************************************************************)
(* The session of the Model Context Protocol server (src/mcp/session.rs).  *)
(* A reader thread turns lines into events, the session handles one event  *)
(* at a time and is the only writer, and one worker runs the calls, first  *)
(* come first served; the reader and the worker share one bounded channel  *)
(* to the session. A request may be cancelled while it waits, while it     *)
(* runs, and when its result is already on the way.                        *)
(*                                                                         *)
(* The session is past "initialize"; a request is a call that the worker   *)
(* runs, or one that is answered at once (ping, tools/list, ...).          *)
(***************************************************************************)
EXTENDS Integers, Sequences, FiniteSets, SequencesExt

CONSTANTS Ids,          \* the request IDs that the client uses, again and again
          ReaderQueue,  \* READER_QUEUE
          MaxPending,   \* MAX_PENDING
          MaxLines,     \* bound on the lines of the client
          None

VARIABLES
  events,   \* the channel to the session
  lines,    \* how many lines the client sent; one more than MaxLines when its input has ended
  session,  \* the IDs of the jobs that wait, the job that runs with its Cancel, and eof
  worker,   \* "idle", "before" or "after" the call, or the outcome that it sends
  ended,    \* whether run has returned, and how
  tally     \* of each ID, the calls that were queued, that were answered, and that were cancelled

vars == <<events, lines, session, worker, ended, tally>>

Event(kind, id) == [kind |-> kind, id |-> id]

Init ==
  /\ events = <<>> /\ lines = 0 /\ worker = "idle" /\ ended = "no"
  /\ session = [queue |-> <<>>, running |-> None, cancelled |-> FALSE, eof |-> FALSE]
  /\ tally = [i \in Ids |-> [queued |-> 0, answered |-> 0, cancelled |-> 0]]

Room == Len(events) < ReaderQueue /\ ended = "no"
-----------------------------------------------------------------------------
(* The reader's thread: it waits while the channel is full. *)

ReadLine ==
  /\ lines < MaxLines /\ Room
  /\ \E kind \in {"call", "ping", "cancel"}, id \in Ids : events' = Append(events, Event(kind, id))
  /\ lines' = lines + 1
  /\ UNCHANGED <<session, worker, ended, tally>>

\* The input ends, or cannot be read.
ReadEnd ==
  /\ lines <= MaxLines /\ Room
  /\ \E kind \in {"eof", "failed"} : events' = Append(events, Event(kind, None))
  /\ lines' = MaxLines + 1
  /\ UNCHANGED <<session, worker, ended, tally>>
-----------------------------------------------------------------------------
(* The worker's thread: run_job looks at the Cancel before and after the call. *)

\* Variant with a bug: a cancelled job sends no Done.
RunJobSilently ==
  /\ worker \in {"before", "after"}
  /\ worker' = IF session.cancelled THEN "idle" ELSE IF worker = "before" THEN "after" ELSE "result"
  /\ UNCHANGED <<events, lines, session, ended, tally>>

RunJob ==
  /\ worker \in {"before", "after"}
  /\ worker' = IF session.cancelled THEN "dropped" ELSE IF worker = "before" THEN "after" ELSE "result"
  /\ UNCHANGED <<events, lines, session, ended, tally>>

\* Event::Done waits for room as a line does.
SendDone ==
  /\ worker \in {"dropped", "result"} /\ Room
  /\ events' = Append(events, Event(worker, session.running))
  /\ worker' = "idle"
  /\ UNCHANGED <<lines, session, ended, tally>>
-----------------------------------------------------------------------------
(* The session: the handler of an event, and then start_next. *)

Pending == Len(session.queue) + (IF session.running = None THEN 0 ELSE 1)
InUse(id) == session.running = id \/ Contains(session.queue, id)

On(kinds) ==
  /\ ended = "no" /\ events # <<>> /\ Head(events).kind \in kinds
  /\ events' = Tail(events)
  /\ UNCHANGED lines

Id == Head(events).id
Count(what) == tally' = [tally EXCEPT ![Id][what] = @ + 1]

Waits(next) == next.running # None \/ next.queue = <<>>
Started(next) == [next EXCEPT !.running = Head(next.queue), !.queue = Tail(next.queue)]

\* Variant with a bug: nothing is started once the input has ended.
StartNextOpen(next) ==
  /\ session' = IF Waits(next) \/ next.eof THEN next ELSE Started(next)
  /\ worker' = IF Waits(next) \/ next.eof THEN worker ELSE "before"

StartNext(next) ==
  /\ session' = IF Waits(next) THEN next ELSE Started(next)
  /\ worker' = IF Waits(next) THEN worker ELSE "before"

\* Variant with a bug: the job that runs is not counted.
CallMore ==
  /\ On({"call"}) /\ UNCHANGED ended
  /\ IF InUse(Id) \/ Len(session.queue) >= MaxPending
     THEN StartNext(session) /\ UNCHANGED tally
     ELSE StartNext([session EXCEPT !.queue = Append(@, Id)]) /\ Count("queued")

\* request and enqueue: an ID in use is refused, and so is one job too many.
Call ==
  /\ On({"call"}) /\ UNCHANGED ended
  /\ IF InUse(Id) \/ Pending >= MaxPending
     THEN StartNext(session) /\ UNCHANGED tally
     ELSE StartNext([session EXCEPT !.queue = Append(@, Id)]) /\ Count("queued")

\* A request that is answered at once, or refused: it is no job.
Ping == On({"ping"}) /\ StartNext(session) /\ UNCHANGED <<ended, tally>>

\* The job that runs gets its Cancel; one that waits goes.
CancelRequest ==
  /\ On({"cancel"}) /\ UNCHANGED ended
  /\ StartNext(IF session.running = Id THEN [session EXCEPT !.cancelled = TRUE]
               ELSE [session EXCEPT !.queue = SelectSeq(@, LAMBDA id : id # Id)])
  /\ IF InUse(Id) /\ ~(session.running = Id /\ session.cancelled) THEN Count("cancelled") ELSE UNCHANGED tally

\* Variant with a bug: a result that was on its way is written though the client cancelled it.
DoneLate ==
  /\ On({"result", "dropped"}) /\ UNCHANGED ended
  /\ StartNext([session EXCEPT !.running = None, !.cancelled = FALSE])
  /\ IF Head(events).kind = "dropped" THEN UNCHANGED tally ELSE Count("answered")

\* The answer is written unless the request was cancelled, be it while Done was in the channel.
Done ==
  /\ On({"result", "dropped"}) /\ UNCHANGED ended
  /\ StartNext([session EXCEPT !.running = None, !.cancelled = FALSE])
  /\ IF session.cancelled \/ Head(events).kind = "dropped" THEN UNCHANGED tally ELSE Count("answered")

Eof == On({"eof"}) /\ StartNext([session EXCEPT !.eof = TRUE]) /\ UNCHANGED <<ended, tally>>

ReadFailed == On({"failed"}) /\ ended' = "failed" /\ UNCHANGED <<session, worker, tally>>

\* Variant with a bug: the end of the input ends the session.
ReturnAtEof ==
  /\ ended = "no" /\ session.eof
  /\ ended' = "ok"
  /\ UNCHANGED <<events, lines, session, worker, tally>>

\* The test at the head of the loop.
Return ==
  /\ ended = "no" /\ session.eof /\ session.running = None /\ session.queue = <<>>
  /\ ended' = "ok"
  /\ UNCHANGED <<events, lines, session, worker, tally>>

Session == Call \/ Ping \/ CancelRequest \/ Done \/ Eof \/ ReadFailed \/ Return

Next == ReadLine \/ ReadEnd \/ RunJob \/ SendDone \/ Session \/ (ended # "no" /\ UNCHANGED vars)

Spec == Init /\ [][Next]_vars

\* The threads go on; the client need not send anything.
Fairness == WF_vars(RunJob) /\ WF_vars(SendDone) /\ WF_vars(Session)

FairSpec == Spec /\ Fairness
-----------------------------------------------------------------------------
TypeOK ==
  /\ Len(events) <= ReaderQueue /\ Pending <= MaxPending /\ IsInjective(session.queue)
  /\ lines \in 0..(MaxLines + 1) /\ ended \in {"no", "ok", "failed"}
  /\ worker \in {"idle", "before", "after", "dropped", "result"}
  /\ session.running \in Ids \cup {None} /\ (session.running = None => ~session.cancelled /\ worker = "idle")

Held(id) == IF InUse(id) /\ ~(session.running = id /\ session.cancelled) THEN 1 ELSE 0

\* Every call that was queued is answered once, or was cancelled and is never answered, or is still
\* in the hands of the session: no order of lines, results and cancels answers a call twice, loses
\* one, or answers one after the session saw its cancel.
AnsweredOnce ==
  \A id \in Ids : tally[id].queued = tally[id].answered + tally[id].cancelled + Held(id)

\* A session whose input has ended returns only when it has nothing to answer.
EndIsClean == ended = "ok" => \A id \in Ids : Held(id) = 0

Open == ended = "no"
Ending == session.eof /\ Open

\* Once the input has ended the session does return: the worker that waits for room in the channel,
\* the session that waits for an event and the jobs that wait for the worker never wait in a circle.
EofEnds == []<>~Ending

\* And a call is answered or cancelled, or the session ends, while the input is still open.
CallEnds == \A id \in Ids : []<>~(InUse(id) /\ Open)
=============================================================================
