---------------------------- MODULE OrderedStage ----------------------------
(***************************************************************************)
(* A parallel stage of the compiler's frontend, src/parallel.rs: workers   *)
(* evaluate chunks of items in any order, the calling thread consumes the  *)
(* results in the order of the items.                                      *)
(*                                                                         *)
(* The results of a chunk are the interval of the items they belong to.    *)
(* An access to an atomic, and a critical section of the board, is one     *)
(* step; so is the evaluation of a chunk, which touches nothing shared.    *)
(***************************************************************************)
EXTENDS Integers, FiniteSets

CONSTANTS Workers,  \* the threads the caller asked for
          ItemCount,    \* items
          Chunk,    \* items in a chunk
          None

Chunks == (ItemCount + Chunk - 1) \div Chunk
Items == 0..(ItemCount - 1)
Numbers == 0..(Chunks - 1)
\* The items of a chunk are those from First up to, and without, Last.
First(c) == c * Chunk
Last(c) == IF (c + 1) * Chunk < ItemCount THEN (c + 1) * Chunk ELSE ItemCount
Orders == {f \in [Numbers -> Numbers] : \A a, b \in Numbers : f[a] = f[b] => a = b}

ASSUME OrderedStageAssumption ==
  /\ ItemCount \in Nat /\ Chunk \in Nat \ {0}
  /\ IsFiniteSet(Workers) /\ None \notin Workers /\ None \notin Int
  /\ None \notin [lo : Int, hi : Int]

VARIABLES
  claim,     \* the order in which chunks are claimed
  claimed,   \* the next position in it
  stop,      \* the consumer needs no more
  board,     \* results of a chunk: None, or the interval of items still to read
  waiting,   \* waiting_for: the chunk that the consumer sleeps for, or None
  notified,  \* the condition variable was notified
  worker,    \* state of each thread: where it is, and its chunk
  caller,    \* where the calling thread is
  number,    \* the chunk it reads
  batch,     \* what it has left of that chunk
  item,      \* the item that the next call of the consumer is for
  evals      \* how often an item was evaluated

vars == <<claim, claimed, stop, board, waiting, notified, worker, caller, number, batch, item, evals>>

NoWork == [at |-> "absent", chunk |-> None]
Interval(lo, hi) == [lo |-> lo, hi |-> hi]

Init ==
  /\ claim \in Orders
  /\ claimed = 0 /\ stop = FALSE
  /\ board = [c \in Numbers |-> None]
  /\ waiting = None /\ notified = FALSE
  /\ worker = [w \in Workers |-> NoWork]
  /\ caller = IF Cardinality(Workers) < 2 \/ ItemCount < 2 THEN "alone" ELSE "spawn"
  /\ number = 0 /\ batch = None /\ item = 0
  /\ evals = [i \in Items |-> 0]

board_vars == <<claim, board, waiting, notified>>
caller_vars == <<caller, number, batch, item>>
-----------------------------------------------------------------------------
(* The calling thread. *)

\* A worker more, as long as there are chunks for it and the system grants it.
Spawn(w) ==
  /\ caller = "spawn" /\ worker[w].at = "absent"
  /\ Cardinality({v \in Workers : worker[v].at # "absent"}) < Chunks
  /\ worker' = [worker EXCEPT ![w].at = "check"]
  /\ UNCHANGED <<board_vars, claimed, stop, caller_vars, evals>>

\* All are started, or the system refused one; with none the caller does the work.
Spawned ==
  /\ caller = "spawn"
  /\ caller' = IF \A w \in Workers : worker[w].at = "absent" THEN "alone" ELSE "take"
  /\ UNCHANGED <<board_vars, claimed, stop, worker, number, batch, item, evals>>

\* The sequential loop: an item is evaluated when the consumer asks for it.
ConsumeAlone ==
  /\ caller = "alone" /\ item < ItemCount
  /\ \/ evals' = [evals EXCEPT ![item] = @ + 1]
     \/ UNCHANGED evals
  /\ item' = item + 1
  /\ \/ caller' = "alone"
     \/ caller' = "leave"
  /\ UNCHANGED <<board_vars, claimed, stop, worker, number, batch>>

EndAlone ==
  /\ caller = "alone" /\ item >= ItemCount
  /\ caller' = "leave"
  /\ UNCHANGED <<board_vars, claimed, stop, worker, number, batch, item, evals>>

\* Variant with a bug: the consumer takes whatever chunk is ready.
TakeAny ==
  /\ caller = "take" /\ number < Chunks
  /\ \E c \in Numbers :
       /\ board[c] # None
       /\ batch' = board[c] /\ board' = [board EXCEPT ![c] = None]
       /\ waiting' = None /\ notified' = FALSE /\ caller' = "consume"
  /\ UNCHANGED <<claim, claimed, stop, worker, number, item, evals>>

\* take: the results of the chunk, or sleep until they are there.
Take ==
  /\ caller = "take" /\ number < Chunks
  /\ notified' = FALSE
  /\ \/ /\ board[number] # None
        /\ batch' = board[number]
        /\ board' = [board EXCEPT ![number] = None]
        /\ waiting' = None
        /\ caller' = "consume"
     \/ /\ board[number] = None
        /\ waiting' = number
        /\ caller' = "asleep"
        /\ UNCHANGED <<board, batch>>
  /\ UNCHANGED <<claim, claimed, stop, worker, number, item, evals>>

\* The wait on the condition variable ends, for a notification or for no reason.
Wakeup ==
  /\ caller = "asleep"
  /\ caller' = "take"
  /\ UNCHANGED <<board_vars, claimed, stop, worker, number, batch, item, evals>>

\* The consumer gets the next result; it goes on, breaks, or resumes the panic of the worker.
Consume ==
  /\ caller = "consume" /\ batch.lo < batch.hi
  /\ batch' = [batch EXCEPT !.lo = @ + 1]
  /\ item' = item + 1
  /\ \/ caller' = "consume"
     \/ caller' = "leave"
  /\ UNCHANGED <<board_vars, claimed, stop, worker, number, evals>>

\* Variant with a bug: the stage ends behind the last whole chunk.
NextChunkWhole ==
  /\ caller = "consume" /\ batch.lo >= batch.hi
  /\ number' = number + 1
  /\ caller' = IF number + 1 < ItemCount \div Chunk THEN "take" ELSE "leave"
  /\ batch' = None
  /\ UNCHANGED <<board_vars, claimed, stop, worker, item, evals>>

NextChunk ==
  /\ caller = "consume" /\ batch.lo >= batch.hi
  /\ number' = number + 1
  /\ caller' = IF number + 1 < Chunks THEN "take" ELSE "leave"
  /\ batch' = None
  /\ UNCHANGED <<board_vars, claimed, stop, worker, item, evals>>

\* StopOnExit, on every path out of the stage.
Leave ==
  /\ caller = "leave"
  /\ stop' = TRUE
  /\ caller' = "join"
  /\ UNCHANGED <<board_vars, claimed, worker, number, batch, item, evals>>

\* The scope ends when every thread has ended.
Join ==
  /\ caller = "join"
  /\ \A w \in Workers : worker[w].at \in {"absent", "ended"}
  /\ caller' = "done"
  /\ UNCHANGED <<board_vars, claimed, stop, worker, number, batch, item, evals>>
-----------------------------------------------------------------------------
(* The workers. *)

Check(w) ==
  /\ worker[w].at = "check"
  /\ worker' = [worker EXCEPT ![w].at = IF stop THEN "ended" ELSE "claim"]
  /\ UNCHANGED <<board_vars, claimed, stop, caller_vars, evals>>

\* Variant with a bug: the position is read, and advanced after the evaluation.
ClaimLate(w) ==
  /\ worker[w].at = "claim"
  /\ worker' = [worker EXCEPT ![w] = IF claimed < Chunks
                                     THEN [at |-> "evaluate", chunk |-> claim[claimed]]
                                     ELSE [at |-> "ended", chunk |-> None]]
  /\ claimed' \in {claimed, claimed + 1}
  /\ UNCHANGED <<board_vars, stop, caller_vars, evals>>

Claim(w) ==
  /\ worker[w].at = "claim"
  /\ claimed' = claimed + 1
  /\ worker' = [worker EXCEPT ![w] = IF claimed < Chunks
                                     THEN [at |-> "evaluate", chunk |-> claim[claimed]]
                                     ELSE [at |-> "ended", chunk |-> None]]
  /\ UNCHANGED <<board_vars, stop, caller_vars, evals>>

\* Every item of the chunk is evaluated; a panic is caught and is a result too.
Evaluate(w) ==
  /\ worker[w].at = "evaluate"
  /\ evals' = [i \in Items |-> IF First(worker[w].chunk) <= i /\ i < Last(worker[w].chunk)
                               THEN evals[i] + 1 ELSE evals[i]]
  /\ worker' = [worker EXCEPT ![w].at = "publish"]
  /\ UNCHANGED <<board_vars, claimed, stop, caller_vars>>

\* Variant with a bug: the consumer is not woken.
PublishSilently(w) ==
  LET c == worker[w].chunk IN
  /\ worker[w].at = "publish"
  /\ board' = [board EXCEPT ![c] = Interval(First(c), Last(c))]
  /\ worker' = [worker EXCEPT ![w] = [at |-> "check", chunk |-> None]]
  /\ UNCHANGED <<claim, waiting, notified, claimed, stop, caller_vars, evals>>

Publish(w) ==
  LET c == worker[w].chunk IN
  /\ worker[w].at = "publish"
  /\ board' = [board EXCEPT ![c] = Interval(First(c), Last(c))]
  /\ notified' = (notified \/ waiting = c)
  /\ worker' = [worker EXCEPT ![w] = [at |-> "check", chunk |-> None]]
  /\ UNCHANGED <<claim, waiting, claimed, stop, caller_vars, evals>>

Work(w) == Check(w) \/ Claim(w) \/ Evaluate(w) \/ Publish(w)
Call ==
  \/ Spawned \/ ConsumeAlone \/ EndAlone \/ Take \/ Consume \/ NextChunk \/ Leave \/ Join
  \/ \E w \in Workers : Spawn(w)
\* A notification wakes the sleeper; the wait need not end without one.
Notified == notified /\ Wakeup
Ended == caller = "done" /\ UNCHANGED vars

Next == Call \/ Wakeup \/ Ended \/ \E w \in Workers : Work(w)

Spec == Init /\ [][Next]_vars
\* Threads run, and a notified wait ends; a wait that nobody notifies need not end.
FairSpec ==
  /\ Spec /\ WF_vars(Call) /\ WF_vars(Notified)
  /\ \A w \in Workers : WF_vars(Work(w))
-----------------------------------------------------------------------------
TypeOK ==
  /\ claim \in Orders
  /\ claimed \in Nat /\ stop \in BOOLEAN /\ notified \in BOOLEAN
  /\ board \in [Numbers -> [lo : Int, hi : Int] \cup {None}]
  /\ waiting \in Numbers \cup {None}
  /\ worker \in [Workers -> [at : {"absent", "check", "claim", "evaluate", "publish", "ended"},
                             chunk : Numbers \cup {None}]]
  /\ caller \in {"spawn", "alone", "take", "asleep", "consume", "leave", "join", "done"}
  /\ number \in Nat /\ item \in Nat
  /\ batch \in [lo : Int, hi : Int] \cup {None}
  /\ evals \in [Items -> Nat]

\* The consumer is called for the items in order, each with the result of that very item, in
\* whatever order the chunks were claimed and published.
OwnResult ==
  caller = "consume" =>
    /\ batch # None
    /\ batch.lo < batch.hi => batch.lo = item

\* produce runs at most once for an item: what ordered_for_each_owned relies on when it moves
\* the item out of its slot.
EvaluatedOnce == \A i \in Items : evals[i] <= 1

\* The consumer does not sleep through the results it waits for: publish compares waiting_for
\* under the lock that take sets it under.
NoMissedResult ==
  caller = "asleep" => board[number] = None \/ notified

\* A stage produces each item once and hands its own result to the consumer, which never sleeps
\* through a result (ordered_for_each, publish, take).
ResultsAreExact == OwnResult /\ EvaluatedOnce /\ NoMissedResult

Goes == caller # "done"

\* A stage ends: the calling thread gets through its items, the workers stop and are joined.
StageEnds == <>~Goes

Loop == INSTANCE SequentialLoop WITH ended <- caller \in {"leave", "join", "done"}

\* A stage is the sequential loop over the items: none is left out, repeated or out of place,
\* whatever the threads do.
IsLoop == Loop!Spec
=============================================================================
