------------------------------ MODULE ServeLog ------------------------------
(***************************************************************************)
(* The log of the build server (Log, LogThread and write_log of            *)
(* src/server.rs): threads that serve queue lines and never wait, one      *)
(* thread writes them and may be stuck for ever, and a line that does not  *)
(* fit is dropped. The number of the dropped lines travels with the next   *)
(* line that fits, in three atomic steps of the thread that logs it.       *)
(***************************************************************************)
EXTENDS Integers, Sequences, FiniteSets, SequencesExt

CONSTANTS Loggers,   \* the threads that serve
          LogQueue,  \* LOG_QUEUE
          MaxLines,  \* bound on the lines that are logged
          CloseMark  \* Entry::Close

VARIABLES
  queue,    \* of the channel: the number of missed lines that each line carries, or CloseMark
  missed,   \* dropped since the last line that was queued
  total,    \* dropped altogether
  logger,   \* where each thread is in Log::line, and the number it took from missed
  logged,   \* the lines that threads have begun to log
  thread,   \* of the log: "writing", "closing" or "ended"
  written,  \* the lines it wrote
  told,     \* the dropped lines it wrote the number of
  finish    \* where the end of the server is

vars == <<queue, missed, total, logger, logged, thread, written, told, finish>>

Idle == [at |-> "idle", took |-> 0]

Init ==
  /\ queue = <<>> /\ missed = 0 /\ total = 0 /\ logged = 0
  /\ logger = [l \in Loggers |-> Idle]
  /\ thread = "writing" /\ written = 0 /\ told = 0 /\ finish = "serving"
-----------------------------------------------------------------------------
(* Log::line *)

Swap(l) ==
  /\ logger[l].at = "idle" /\ logged < MaxLines
  /\ logged' = logged + 1
  /\ logger' = [logger EXCEPT ![l] = [at |-> "send", took |-> missed]]
  /\ missed' = 0
  /\ UNCHANGED <<queue, total, thread, written, told, finish>>


\* try_send: it fails when the queue is full, and when the log's thread has ended.
TrySend(l) ==
  /\ logger[l].at = "send"
  /\ IF thread # "ended" /\ Len(queue) < LogQueue
     THEN /\ queue' = Append(queue, logger[l].took)
          /\ logger' = [logger EXCEPT ![l] = Idle]
     ELSE /\ logger' = [logger EXCEPT ![l].at = "drop"]
          /\ UNCHANGED queue
  /\ UNCHANGED <<missed, total, logged, thread, written, told, finish>>

\* Variant with a bug: only the line itself is counted again.
CountOne(l) ==
  /\ logger[l].at = "drop"
  /\ missed' = missed + 1
  /\ logger' = [logger EXCEPT ![l] = [at |-> "count", took |-> 0]]
  /\ UNCHANGED <<queue, total, logged, thread, written, told, finish>>

\* The number that it took, and its own line, go back.
CountMissed(l) ==
  /\ logger[l].at = "drop"
  /\ missed' = missed + logger[l].took + 1
  /\ logger' = [logger EXCEPT ![l] = [at |-> "count", took |-> 0]]
  /\ UNCHANGED <<queue, total, logged, thread, written, told, finish>>

CountTotal(l) ==
  /\ logger[l].at = "count"
  /\ total' = total + 1
  /\ logger' = [logger EXCEPT ![l] = Idle]
  /\ UNCHANGED <<queue, missed, logged, thread, written, told, finish>>
-----------------------------------------------------------------------------
(* write_log, and LogThread::finish, which waits for it for LOG_FLUSH at most *)

Receive ==
  /\ thread = "writing" /\ queue # <<>>
  /\ IF Head(queue) = CloseMark THEN thread' = "closing" /\ UNCHANGED <<written, told>>
     ELSE written' = written + 1 /\ told' = told + Head(queue) /\ UNCHANGED thread
  /\ queue' = Tail(queue)
  /\ UNCHANGED <<missed, total, logger, logged, finish>>

\* What was dropped last is told at the end. The lines that are still queued go with the channel.
Closing ==
  /\ thread = "closing"
  /\ thread' = "ended"
  /\ told' = told + missed /\ missed' = 0
  /\ UNCHANGED <<queue, total, logger, logged, written, finish>>

SendClose ==
  /\ finish = "serving" /\ Len(queue) < LogQueue
  /\ queue' = Append(queue, CloseMark)
  /\ finish' = "closed"
  /\ UNCHANGED <<missed, total, logger, logged, thread, written, told>>

Ended == finish = "closed" /\ thread = "ended" /\ logged = MaxLines /\ \A l \in Loggers : logger[l].at = "idle"

Next ==
  \/ \E l \in Loggers : Swap(l) \/ TrySend(l) \/ CountMissed(l) \/ CountTotal(l)
  \/ Receive \/ Closing \/ SendClose
  \/ Ended /\ UNCHANGED vars

Spec == Init /\ [][Next]_vars
-----------------------------------------------------------------------------
LinesOf(entries) == SelectSeq(entries, LAMBDA e : e # CloseMark)

TypeOK ==
  /\ Len(queue) <= LogQueue /\ ToSet(queue) \subseteq (0..MaxLines) \cup {CloseMark}
  /\ {missed, total, logged, written, told} \subseteq 0..MaxLines
  /\ \A l \in Loggers : logger[l].at \in {"idle", "send", "drop", "count"} /\ logger[l].took \in 0..MaxLines
  /\ thread \in {"writing", "closing", "ended"} /\ finish \in {"serving", "closed"}

At(places) == Cardinality({l \in Loggers : logger[l].at \in places})

\* Every line that was logged is written, waits in the queue, is dropped, or is still in the hands
\* of its thread: none is lost without being counted, however the threads interleave.
LinesAreCounted == logged = written + Len(LinesOf(queue)) + total + At({"send", "drop", "count"})

\* And every dropped line is told to the reader of the log exactly once: the numbers told, those
\* that lines in the queue carry, those that threads took, and the counter make up the lines
\* dropped, while threads take the counter, fail, and put it back.
DropsAreTold ==
  told + FoldSeq(+, 0, LinesOf(queue)) + FoldFunction(+, 0, [l \in Loggers |-> logger[l].took]) + missed
    = total + At({"count"})
=============================================================================
