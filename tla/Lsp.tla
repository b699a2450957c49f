-------------------------------- MODULE Lsp --------------------------------
(***************************************************************************)
(* The language server (serve and Session of src/lsp.rs): a reader thread  *)
(* that notes cancellations as it reads and passes every message on by a   *)
(* bounded channel, and the loop that handles a message at a time and,     *)
(* when none comes before the deadline of a pending project, analyses it.  *)
(*                                                                         *)
(* There is one project, of the documents that the client has open. A text *)
(* is its version and what the compiler makes of it: "ok", "broken" when   *)
(* it loads and has errors, or "unloadable".                               *)
(***************************************************************************)
EXTENDS Integers, Sequences, FiniteSets

CONSTANTS Docs,         \* the documents of the project
          Capacity,     \* of the channel
          CancelLimit,  \* how many cancelled IDs are kept
          MaxEdits,     \* bound on the notifications that change a document
          MaxRequests,  \* bound on the requests of the client
          None

Kinds == {"ok", "broken", "unloadable"}
Requests == 1..MaxRequests

VARIABLES
  client,     \* what the client did: the version it is at, the requests it sent, and its documents
  input,      \* the messages that the reader has not read
  channel,
  cancelled,  \* the cancelled IDs that the reader and the loop share
  told,       \* the IDs whose cancellation the reader has read
  loop,       \* the request that the loop handles, or None, and whether it is past the analysis
  buffers,    \* of the session: the text of each open document
  pending,    \* whether the project waits for its analysis
  project,    \* the texts that it was last analysed with, or None
  good,       \* the texts that it last had an index with, kept while edits break it
  shown,      \* the text that the client's diagnostics of a document were computed from
  answers,    \* what each request was answered
  state       \* "open", "shutdown" or "ended"

vars == <<client, input, channel, cancelled, told, loop, buffers, pending, project, good, shown, answers, state>>
documents == <<buffers, pending, project, good, shown>>

NoLoop == [id |-> None, at |-> "receive"]
Closed == [d \in Docs |-> None]

Init ==
  /\ client = [version |-> 0, requests |-> 0, open |-> {}, done |-> FALSE]
  /\ input = <<>> /\ channel = <<>> /\ cancelled = {} /\ told = {} /\ loop = NoLoop
  /\ buffers = Closed /\ pending = FALSE /\ project = None /\ good = None /\ shown = Closed
  /\ answers = [r \in Requests |-> "none"] /\ state = "open"
-----------------------------------------------------------------------------
(* The client: it edits, asks, cancels what it asked at any time, and shuts the server down. *)

Send(message) == input' = Append(input, message)

ClientUnchanged == UNCHANGED <<channel, cancelled, told, loop, documents, answers, state>>

ClientEdits ==
  /\ client.version < MaxEdits /\ ~client.done
  /\ \E d \in Docs, kind \in Kinds :
       /\ Send([kind |-> "edit", doc |-> d, text |-> [version |-> client.version + 1, is |-> kind]])
       /\ client' = [client EXCEPT !.version = @ + 1, !.open = @ \cup {d}]
  /\ ClientUnchanged

ClientCloses ==
  /\ client.version < MaxEdits /\ ~client.done
  /\ \E d \in client.open :
       /\ Send([kind |-> "close", doc |-> d])
       /\ client' = [client EXCEPT !.version = @ + 1, !.open = @ \ {d}]
  /\ ClientUnchanged

ClientAsks ==
  /\ client.requests < MaxRequests /\ ~client.done
  /\ Send([kind |-> "request", id |-> client.requests + 1])
  /\ client' = [client EXCEPT !.requests = @ + 1]
  /\ ClientUnchanged

ClientCancels ==
  /\ ~client.done
  /\ \E id \in 1..client.requests :
       /\ id \notin told /\ ~\E i \in DOMAIN input : input[i] = [kind |-> "cancel", id |-> id]
       /\ Send([kind |-> "cancel", id |-> id])
  /\ ClientUnchanged /\ UNCHANGED client

ClientEnds ==
  /\ ~client.done
  /\ input' = input \o <<[kind |-> "shutdown"], [kind |-> "exit"]>>
  /\ client' = [client EXCEPT !.done = TRUE]
  /\ ClientUnchanged
-----------------------------------------------------------------------------
(* The reader's thread: a cancellation is noted when it is read, if the set has room; then the      *)
(* message waits for room in the channel.                                                          *)

Unnoted(message) == message.kind = "cancel" /\ message.id \notin told

Note ==
  /\ input # <<>> /\ Unnoted(Head(input)) /\ state # "ended"
  /\ cancelled' = IF Cardinality(cancelled) < CancelLimit THEN cancelled \cup {Head(input).id} ELSE cancelled
  /\ told' = told \cup {Head(input).id}
  /\ UNCHANGED <<client, input, channel, loop, documents, answers, state>>

PassOn ==
  /\ input # <<>> /\ ~Unnoted(Head(input)) /\ Len(channel) < Capacity /\ state # "ended"
  /\ channel' = Append(channel, Head(input))
  /\ input' = Tail(input)
  /\ UNCHANGED <<client, cancelled, told, loop, documents, answers, state>>

Read == Note \/ PassOn
-----------------------------------------------------------------------------
(* The session *)

\* What the compiler makes of the texts of the project.
Analysis(texts) ==
  LET kinds == {texts[d].is : d \in {d \in Docs : texts[d] # None}}
  IN  IF "unloadable" \in kinds THEN "unloadable" ELSE IF "broken" \in kinds THEN "broken" ELSE "ok"

HasIndex(texts) == texts # None /\ Analysis(texts) = "ok"

\* Variant with a bug: the state that the edit makes stale is not kept.
ScheduleForgets ==
  /\ project' = None /\ pending' = TRUE
  /\ UNCHANGED good

\* schedule: the analysed state is stale; one with an index is kept for completions.
Schedule ==
  /\ project' = None /\ pending' = TRUE
  /\ good' = IF HasIndex(project) THEN project ELSE good

\* refresh: the project is loaded with the open buffers and analysed, and its diagnostics are
\* published; of one that does not load, only the error of the document that has it.
Refresh ==
  /\ pending' = FALSE
  /\ IF Analysis(buffers) = "unloadable"
     THEN /\ \E d \in {d \in Docs : buffers[d] # None /\ buffers[d].is = "unloadable"} :
               shown' = [shown EXCEPT ![d] = buffers[d]]
          /\ project' = None
          /\ UNCHANGED good
     ELSE /\ shown' = buffers /\ project' = buffers
          /\ good' = IF HasIndex(buffers) THEN None ELSE good
  /\ UNCHANGED buffers

Receive(kind) ==
  /\ loop.at = "receive" /\ state # "ended" /\ channel # <<>> /\ Head(channel).kind = kind
  /\ channel' = Tail(channel)
  /\ UNCHANGED <<client, input, told>>

\* Variant with a bug: a change of an open document leaves the state as it is.
EditQuietly ==
  /\ Receive("edit")
  /\ IF state = "shutdown" THEN UNCHANGED documents
     ELSE /\ buffers' = [buffers EXCEPT ![Head(channel).doc] = Head(channel).text]
          /\ IF buffers[Head(channel).doc] = None THEN Schedule ELSE UNCHANGED <<project, pending, good>>
          /\ UNCHANGED shown
  /\ UNCHANGED <<cancelled, loop, answers, state>>

\* didOpen and didChange.
Edit ==
  /\ Receive("edit")
  /\ IF state = "shutdown" THEN UNCHANGED documents
     ELSE /\ buffers' = [buffers EXCEPT ![Head(channel).doc] = Head(channel).text]
          /\ Schedule /\ UNCHANGED shown
  /\ UNCHANGED <<cancelled, loop, answers, state>>

\* didClose: the client's diagnostics of the document go at once.
Close ==
  /\ Receive("close")
  /\ IF state = "shutdown" THEN UNCHANGED documents
     ELSE /\ buffers' = [buffers EXCEPT ![Head(channel).doc] = None]
          /\ shown' = [shown EXCEPT ![Head(channel).doc] = None]
          /\ Schedule
  /\ UNCHANGED <<cancelled, loop, answers, state>>

\* The notification itself changes nothing.
Cancel ==
  /\ Receive("cancel")
  /\ UNCHANGED <<cancelled, loop, documents, answers, state>>

Shutdown ==
  /\ Receive("shutdown")
  /\ state' = "shutdown" /\ pending' = FALSE
  /\ UNCHANGED <<cancelled, loop, buffers, project, good, shown, answers>>

Exit ==
  /\ Receive("exit")
  /\ state' = "ended"
  /\ UNCHANGED <<cancelled, loop, documents, answers>>

\* Variant with a bug: a request that was cancelled is not answered at all.
RequestDropped ==
  /\ Receive("request")
  /\ cancelled' = cancelled \ {Head(channel).id}
  /\ IF Head(channel).id \in cancelled
     THEN UNCHANGED <<loop, documents>>
     ELSE /\ loop' = [id |-> Head(channel).id, at |-> "handled"]
          /\ IF state = "open" /\ (pending \/ project = None) THEN Refresh ELSE UNCHANGED documents
  /\ UNCHANGED <<answers, state>>

\* A request is looked up in the cancelled set, which it leaves, before it is handled; then document
\* refreshes a project that is pending or has no state.
Request ==
  /\ Receive("request")
  /\ cancelled' = cancelled \ {Head(channel).id}
  /\ IF Head(channel).id \in cancelled
     THEN loop' = [id |-> Head(channel).id, at |-> "drop"] /\ UNCHANGED documents
     ELSE /\ loop' = [id |-> Head(channel).id, at |-> "handled"]
          /\ IF state = "open" /\ (pending \/ project = None) THEN Refresh ELSE UNCHANGED documents
  /\ UNCHANGED <<answers, state>>

\* And it is looked up again before the answer is written.
Respond ==
  /\ loop.id # None
  /\ answers' = [answers EXCEPT ![loop.id] =
                   IF loop.at = "drop" \/ loop.id \in cancelled THEN "cancelled" ELSE "result"]
  /\ cancelled' = cancelled \ {loop.id}
  /\ loop' = NoLoop
  /\ UNCHANGED <<client, input, channel, told, documents, state>>

\* recv_timeout: no message came before the deadline.
Timeout ==
  /\ loop.at = "receive" /\ state = "open" /\ pending
  /\ Refresh
  /\ UNCHANGED <<client, input, channel, cancelled, told, loop, answers, state>>

Loop == Edit \/ Close \/ Cancel \/ Shutdown \/ Exit \/ Request \/ Respond \/ Timeout

Next == ClientEdits \/ ClientCloses \/ ClientAsks \/ ClientCancels \/ ClientEnds \/ Read \/ Loop
        \/ (state = "ended" /\ UNCHANGED vars)

Spec == Init /\ [][Next]_vars

\* The two threads go on, whatever the client does.
Fairness == WF_vars(Read) /\ WF_vars(Loop)

FairSpec == Spec /\ Fairness
-----------------------------------------------------------------------------
TypeOK ==
  /\ Len(channel) <= Capacity /\ Cardinality(cancelled) <= CancelLimit /\ cancelled \subseteq Requests
  /\ pending \in BOOLEAN /\ state \in {"open", "shutdown", "ended"}
  /\ loop.id \in Requests \cup {None} /\ \A r \in Requests : answers[r] \in {"none", "result", "cancelled"}

\* A state that a request is answered from is that of the open buffers: while none is pending, the
\* state that the session has was computed from the texts that it has now.
StateIsCurrent == project # None => ~pending /\ project = buffers

LastGood == IF HasIndex(project) THEN project ELSE good
KeepsGood == LastGood' = LastGood \/ HasIndex(project')

\* The last texts that had an index are there for completions until newer ones have, however many
\* edits break the project, and close or reopen its documents, in between.
GoodIsKept == [][KeepsGood]_vars

Unanswered(r) == r <= client.requests /\ answers[r] = "none" /\ state = "open" /\ ~client.done

\* Every request is answered, in whatever order the reader and the loop go, unless the client has
\* told the server to end.
RequestEnds == \A r \in Requests : []<>~Unanswered(r)

Settled ==
  state = "open" /\ input = <<>> /\ channel = <<>> /\ Analysis(buffers) # "unloadable" => shown = buffers

\* When the client rests, the diagnostics that it shows become those of the texts that it has open,
\* if these load.
DiagnosticsSettle == <>[]Settled

\* A cancellation that was read before the answer of its request is written gives the request the
\* answer "request cancelled": the set is looked up before the analysis and before the answer.
CancelIsHonoured ==
  [][\A r \in Requests : answers[r] = "none" /\ answers'[r] = "result" => r \notin told]_vars
=============================================================================
