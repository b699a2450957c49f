------------------------- MODULE OrderedStageProofs -------------------------
(***************************************************************************)
(* Proofs about OrderedStage, for any number of items and of workers, any  *)
(* size of a chunk and any order in which the chunks are claimed.          *)
(***************************************************************************)
EXTENDS OrderedStage, TLAPS

-----------------------------------------------------------------------------
(* The chunks. *)

LEMMA Scaled ==
  ASSUME NEW a \in Int, NEW b \in Int, NEW k \in Nat, a <= b
  PROVE  a * k <= b * k
<1>1. (b - a) * k >= 0
  OBVIOUS
<1>2. (b - a) * k = b * k - a * k
  OBVIOUS
<1> QED
  BY <1>1, <1>2

LEMMA ChunksType == Chunks \in Nat /\ Numbers \subseteq Nat
  BY OrderedStageAssumption DEF Chunks, Numbers

(* How many chunks there are: the last one begins before the last item.      *)
LEMMA ChunkCount ==
  /\ Chunk * Chunks <= ItemCount + Chunk - 1
  /\ ItemCount <= Chunk * Chunks
<1>1. /\ Chunks \in Nat
      /\ ItemCount + Chunk - 1 = Chunk * Chunks + ((ItemCount + Chunk - 1) % Chunk)
      /\ (ItemCount + Chunk - 1) % Chunk \in 0..Chunk - 1
  BY OrderedStageAssumption DEF Chunks
<1>2. Chunk * Chunks \in Int
  BY <1>1, OrderedStageAssumption
<1> QED
  BY <1>1, <1>2, OrderedStageAssumption

(* A chunk is a proper interval of the items, and the next one begins where  *)
(* it ends.                                                                  *)
LEMMA ChunkBounds ==
  ASSUME NEW c \in Numbers
  PROVE  /\ First(c) \in Nat /\ Last(c) \in Nat
         /\ First(c) < Last(c) /\ Last(c) <= ItemCount
         /\ Last(c) <= First(c) + Chunk
         /\ c + 1 < Chunks => Last(c) = First(c + 1)
         /\ c + 1 >= Chunks => Last(c) = ItemCount
<1>1. c \in Nat /\ Chunks \in Nat /\ c <= Chunks - 1 /\ Chunk \in Nat /\ Chunk > 0 /\ ItemCount \in Nat
  BY ChunksType, OrderedStageAssumption DEF Numbers
<1>2. c * Chunk \in Nat /\ (c + 1) * Chunk = c * Chunk + Chunk
  BY <1>1
<1>3. (c + 1) * Chunk <= Chunks * Chunk
  BY <1>1, Scaled
<1>4. Chunks * Chunk <= ItemCount + Chunk - 1 /\ ItemCount <= Chunks * Chunk /\ Chunks * Chunk \in Nat
  BY <1>1, ChunkCount
<1>5. c * Chunk < ItemCount
  BY <1>1, <1>2, <1>3, <1>4
<1>6. ASSUME c + 1 < Chunks PROVE (c + 1) * Chunk < ItemCount
  <2>1. (c + 2) * Chunk <= Chunks * Chunk
    BY <1>1, <1>6, Scaled
  <2>2. (c + 2) * Chunk = (c + 1) * Chunk + Chunk
    BY <1>1
  <2> QED
    BY <2>1, <2>2, <1>1, <1>2, <1>4
<1>7. ASSUME c + 1 >= Chunks PROVE ItemCount <= (c + 1) * Chunk
  <2>1. c + 1 = Chunks
    BY <1>1, <1>7
  <2> QED
    BY <2>1, <1>4
<1> QED
  BY <1>1, <1>2, <1>5, <1>6, <1>7 DEF First, Last

(* No item is in two chunks.                                                 *)
LEMMA ChunksAreDisjoint ==
  ASSUME NEW c \in Numbers, NEW d \in Numbers, NEW i \in Int,
         First(c) <= i, i < Last(c), First(d) <= i, i < Last(d)
  PROVE  c = d
<1>1. c \in Nat /\ d \in Nat /\ Chunk \in Nat
  BY ChunksType, OrderedStageAssumption
<1>2. ASSUME NEW a \in Numbers, NEW b \in Numbers, a \in Nat, b \in Nat, a < b,
             First(b) <= i, i < Last(a)
      PROVE  FALSE
  <2>1. (a + 1) * Chunk <= b * Chunk
    BY <1>1, <1>2, Scaled
  <2>2. (a + 1) * Chunk = a * Chunk + Chunk
    BY <1>1, <1>2
  <2> QED
    BY <1>1, <1>2, <2>1, <2>2, ChunkBounds DEF First
<1> QED
  BY <1>1, <1>2

-----------------------------------------------------------------------------
(* The inductive invariant. *)

(* The chunk was claimed.                                                    *)
Taken(c) == \E k \in Numbers : k < claimed /\ claim[k] = c

(* A worker has it.                                                          *)
Has(w, c) == worker[w].at \in {"evaluate", "publish"} /\ worker[w].chunk = c

(* No thread was started: the caller does the work.                          *)
Alone == \A w \in Workers : worker[w].at = "absent"

(* A chunk is with one worker, which claimed it; an item of a chunk that is  *)
(* not evaluated yet is not evaluated.                                       *)
Accounts ==
  /\ \A w \in Workers : worker[w].at \in {"evaluate", "publish"} =>
       worker[w].chunk \in Numbers /\ Taken(worker[w].chunk)
  /\ \A v, w \in Workers : \A c \in Numbers : Has(v, c) /\ Has(w, c) => v = w
  /\ Alone => \A i \in Items : i >= item => evals[i] = 0
  /\ ~Alone => \A c \in Numbers : \A i \in Items :
       /\ First(c) <= i /\ i < Last(c)
       /\ ~Taken(c) \/ \E w \in Workers : worker[w].at = "evaluate" /\ worker[w].chunk = c
       => evals[i] = 0

(* Where the caller is among the items, and what it reads.                   *)
Reads ==
  /\ caller = "spawn" => item = 0 /\ number = 0
  /\ caller = "alone" => item <= ItemCount /\ Alone
  /\ caller \in {"take", "asleep"} => item = First(number)
  /\ caller = "asleep" => number \in Numbers /\ waiting = number
  /\ caller = "consume" =>
       /\ number \in Numbers
       /\ batch = Interval(item, Last(number))
       /\ First(number) <= item /\ item <= Last(number)
  /\ \A c \in Numbers : board[c] # None => board[c] = Interval(First(c), Last(c))

IInv == TypeOK /\ Accounts /\ EvaluatedOnce /\ Reads /\ NoMissedResult

LEMMA NoneIsNone ==
  /\ None \notin Numbers
  /\ \A lo, hi : Interval(lo, hi).lo = lo /\ Interval(lo, hi).hi = hi
<1>1. None \notin Numbers
  BY OrderedStageAssumption DEF Numbers
<1> QED
  BY <1>1 DEF Interval

LEMMA Start == Init => IInv
<1> SUFFICES ASSUME Init PROVE IInv
  OBVIOUS
<1>1. TypeOK
  BY DEF Init, TypeOK, NoWork
<1>2. Alone /\ item = 0 /\ claimed = 0 /\ \A i \in Items : evals[i] = 0
  BY DEF Init, Alone, NoWork
<1>3. Accounts
  BY <1>2 DEF Accounts, Has, Alone
<1>4. EvaluatedOnce
  BY <1>2 DEF EvaluatedOnce
<1>5. Reads
  BY <1>2, OrderedStageAssumption DEF Reads, Init
<1>6. NoMissedResult
  BY DEF NoMissedResult, Init
<1> QED
  BY <1>1, <1>3, <1>4, <1>5, <1>6 DEF IInv

-----------------------------------------------------------------------------
(* The steps of the calling thread. *)

LEMMA SpawnStep ==
  ASSUME IInv, NEW w \in Workers, Spawn(w) PROVE IInv'
<1> USE DEF IInv
<1>1. TypeOK'
  BY DEF TypeOK, Spawn, board_vars, caller_vars
<1>2. /\ \A v \in Workers \ {w} : worker'[v] = worker[v]
      /\ worker'[w].at = "check" /\ worker[w].at = "absent" /\ ~Alone'
      /\ \A c : Taken(c)' <=> Taken(c)
      /\ UNCHANGED <<evals, item>> /\ item = 0
  BY DEF Spawn, TypeOK, board_vars, caller_vars, Taken, Alone, Reads
<1>3. ASSUME Alone PROVE \A i \in Items : evals[i] = 0
  BY <1>2, <1>3 DEF Accounts, Items
<1>4. Accounts'
  BY <1>2, <1>3 DEF Accounts, Has
<1>5. EvaluatedOnce' /\ Reads' /\ NoMissedResult'
  BY <1>2 DEF EvaluatedOnce, Reads, NoMissedResult, Spawn, board_vars, caller_vars
<1> QED
  BY <1>1, <1>4, <1>5

LEMMA SpawnedStep ==
  ASSUME IInv, Spawned PROVE IInv'
<1> USE DEF IInv
<1>1. TypeOK'
  BY DEF TypeOK, Spawned, board_vars
<1>2. Accounts' /\ EvaluatedOnce'
  BY DEF Accounts, EvaluatedOnce, Has, Alone, Taken, Spawned, board_vars
<1>3. First(0) = 0 /\ 0 <= ItemCount
  BY OrderedStageAssumption DEF First
<1>4. Reads'
  BY <1>3 DEF Reads, Spawned, board_vars, Alone
<1>5. NoMissedResult'
  BY DEF NoMissedResult, Spawned
<1> QED
  BY <1>1, <1>2, <1>4, <1>5

LEMMA ConsumeAloneStep ==
  ASSUME IInv, ConsumeAlone PROVE IInv'
<1> USE DEF IInv
<1>1. item \in Items /\ Alone /\ evals[item] = 0 /\ item' = item + 1 /\ item' <= ItemCount
  BY OrderedStageAssumption DEF ConsumeAlone, Reads, TypeOK, Accounts, Items
<1>2. evals' \in [Items -> Nat] /\ \A i \in Items : evals'[i] = evals[i] \/ (i = item /\ evals'[i] = 1)
  BY <1>1 DEF ConsumeAlone, TypeOK
<1>3. TypeOK'
  BY <1>1, <1>2 DEF TypeOK, ConsumeAlone, board_vars
<1>4. Alone' /\ UNCHANGED <<worker, claim, claimed>>
  BY <1>1 DEF ConsumeAlone, board_vars, Alone
<1>5. Items \subseteq Int /\ item \in Int
  BY <1>1 DEF Items
<1>6. Accounts'
  BY <1>1, <1>2, <1>4, <1>5 DEF Accounts, Has, Taken
<1>7. EvaluatedOnce'
  BY <1>1, <1>2 DEF EvaluatedOnce
<1>8. Reads' /\ NoMissedResult'
  BY <1>1, <1>4 DEF Reads, NoMissedResult, ConsumeAlone, board_vars
<1> QED
  BY <1>3, <1>6, <1>7, <1>8

LEMMA TakeStep ==
  ASSUME IInv, Take PROVE IInv'
<1> USE DEF IInv
<1>1. number \in Numbers /\ item = First(number)
  BY ChunksType DEF Take, TypeOK, Reads, Numbers
<1>2. TypeOK'
  BY <1>1 DEF TypeOK, Take
<1>3. Accounts' /\ EvaluatedOnce'
  BY DEF Accounts, EvaluatedOnce, Has, Alone, Taken, Take
<1>4. CASE board[number] # None
  <2>1. batch' = Interval(item, Last(number)) /\ caller' = "consume"
    BY <1>1, <1>4 DEF Take, Reads
  <2>2. First(number) <= item /\ item <= Last(number)
    BY <1>1, ChunkBounds
  <2>3. \A c \in Numbers : board'[c] # None => board'[c] = Interval(First(c), Last(c))
    BY <1>4, <1>1 DEF Take, Reads, TypeOK
  <2> QED
    BY <1>1, <1>2, <1>3, <2>1, <2>2, <2>3 DEF Take, Reads, NoMissedResult
<1>5. CASE board[number] = None
  BY <1>1, <1>2, <1>3, <1>5 DEF Take, Reads, NoMissedResult
<1> QED
  BY <1>4, <1>5

LEMMA ConsumeStep ==
  ASSUME IInv, Consume PROVE IInv'
<1> USE DEF IInv
<1>1. /\ number \in Numbers /\ batch = Interval(item, Last(number)) /\ item < Last(number)
      /\ First(number) <= item
  BY NoneIsNone DEF Consume, Reads
<1>2. item \in Nat /\ Last(number) \in Nat /\ First(number) \in Nat
  BY <1>1, ChunkBounds DEF TypeOK
<1>3. batch' = Interval(item + 1, Last(number)) /\ item' = item + 1
  BY <1>1 DEF Consume, Interval
<1>4. TypeOK'
  <2>1. batch' \in [lo : Int, hi : Int] /\ item' \in Nat
    BY <1>2, <1>3 DEF Interval
  <2>2. /\ UNCHANGED <<claim, claimed, stop, notified, board, waiting, worker, number, evals>>
        /\ caller' \in {"consume", "leave"}
    BY DEF Consume, board_vars
  <2> QED
    BY <2>1, <2>2 DEF TypeOK
<1>5. Accounts'
  <2>1. UNCHANGED <<worker, claim, claimed, evals>> /\ item' = item + 1
    BY <1>3 DEF Consume, board_vars
  <2>2. \A i \in Items : i >= item' => i >= item
    BY <1>2, <2>1 DEF Items
  <2> QED
    BY <2>1, <2>2 DEF Accounts, Has, Alone, Taken
<1>6. EvaluatedOnce' /\ NoMissedResult'
  BY DEF EvaluatedOnce, NoMissedResult, Consume
<1>7. Reads'
  BY <1>1, <1>2, <1>3 DEF Reads, Consume, board_vars
<1> QED
  BY <1>4, <1>5, <1>6, <1>7

LEMMA NextChunkStep ==
  ASSUME IInv, NextChunk PROVE IInv'
<1> USE DEF IInv
<1>1. /\ number \in Numbers /\ batch = Interval(item, Last(number)) /\ item >= Last(number)
      /\ item <= Last(number)
  BY NoneIsNone DEF NextChunk, Reads
<1>2. item \in Nat /\ item = Last(number) /\ number \in Nat /\ Chunks \in Nat
  BY <1>1, ChunkBounds, ChunksType DEF TypeOK
<1>3. TypeOK'
  BY <1>2 DEF TypeOK, NextChunk, board_vars
<1>4. Accounts' /\ EvaluatedOnce'
  BY DEF Accounts, EvaluatedOnce, Has, Alone, Taken, NextChunk, board_vars
<1>5. number + 1 < Chunks => item = First(number + 1)
  BY <1>1, <1>2, ChunkBounds
<1>6. Reads' /\ NoMissedResult'
  BY <1>5 DEF Reads, NoMissedResult, NextChunk, board_vars
<1> QED
  BY <1>3, <1>4, <1>6

(* The steps that only move the calling thread.                              *)
LEMMA CallerStep ==
  ASSUME IInv, EndAlone \/ Wakeup \/ Leave \/ Join \/ Ended \/ UNCHANGED vars
  PROVE  IInv'
<1> USE DEF IInv, EndAlone, Wakeup, Leave, Join, Ended, board_vars, vars
<1>1. TypeOK'
  BY DEF TypeOK
<1>2. Accounts' /\ EvaluatedOnce'
  BY DEF Accounts, EvaluatedOnce, Has, Alone, Taken
<1>3. Reads' /\ NoMissedResult'
  BY DEF Reads, NoMissedResult, Alone
<1> QED
  BY <1>1, <1>2, <1>3

-----------------------------------------------------------------------------
(* The steps of a worker. *)

LEMMA CheckStep ==
  ASSUME IInv, NEW w \in Workers, Check(w) PROVE IInv'
<1> USE DEF IInv
<1>1. TypeOK'
  BY DEF TypeOK, Check, board_vars, caller_vars
<1>2. /\ \A v \in Workers \ {w} : worker'[v] = worker[v]
      /\ worker[w].at = "check" /\ worker'[w].at \in {"claim", "ended"}
      /\ \A c : Taken(c)' <=> Taken(c)
      /\ ~Alone /\ ~Alone' /\ UNCHANGED <<evals, item>>
  BY DEF Check, TypeOK, board_vars, caller_vars, Taken, Alone
<1>3. Accounts'
  BY <1>2 DEF Accounts, Has
<1>4. EvaluatedOnce' /\ Reads' /\ NoMissedResult'
  BY <1>2 DEF EvaluatedOnce, Reads, NoMissedResult, Check, board_vars, caller_vars
<1> QED
  BY <1>1, <1>3, <1>4

LEMMA ClaimStep ==
  ASSUME IInv, NEW w \in Workers, Claim(w) PROVE IInv'
<1> USE DEF IInv
<1>1. /\ UNCHANGED <<claim, board, waiting, notified, stop, caller, number, batch, item, evals>>
      /\ claimed \in Nat /\ claimed' = claimed + 1
      /\ \A v \in Workers \ {w} : worker'[v] = worker[v]
      /\ ~Alone /\ ~Alone'
  BY DEF Claim, TypeOK, board_vars, caller_vars, Alone
<1>2. EvaluatedOnce' /\ Reads' /\ NoMissedResult'
  BY <1>1 DEF EvaluatedOnce, Reads, NoMissedResult
<1>3. CASE claimed < Chunks
  <2> DEFINE d == claim[claimed]
  <2>1. claimed \in Numbers /\ d \in Numbers
    BY <1>1, <1>3, ChunksType DEF TypeOK, Orders, Numbers
  <2>2. worker'[w] = [at |-> "evaluate", chunk |-> d]
    BY <1>3 DEF Claim, TypeOK
  <2>3. TypeOK'
    BY <1>1, <1>3, <2>1 DEF TypeOK, Claim
  <2>4. ~Taken(d)
    <3>1. \A a, b \in Numbers : claim[a] = claim[b] => a = b
      BY DEF TypeOK, Orders
    <3>2. \A k \in Numbers : k < claimed => k # claimed
      BY <1>1, ChunksType
    <3> QED
      BY <2>1, <3>1, <3>2 DEF Taken
  <2>5. \A c \in Numbers : Taken(c)' <=> (Taken(c) \/ c = d)
    <3>1. \A k \in Numbers : k < claimed + 1 <=> (k < claimed \/ k = claimed)
      BY <1>1, ChunksType
    <3> QED
      BY <1>1, <2>1, <3>1 DEF Taken
  <2>6. \A v \in Workers : ~Has(v, d)
    BY <2>4 DEF Accounts, Has
  <2>7. \A v \in Workers : \A c \in Numbers : Has(v, c)' <=> IF v = w THEN c = d ELSE Has(v, c)
    BY <1>1, <2>2 DEF Has
  <2>8. ASSUME NEW v \in Workers, worker'[v].at \in {"evaluate", "publish"}
        PROVE  worker'[v].chunk \in Numbers /\ Taken(worker[v].chunk)'
    <3>1. \E c \in Numbers : worker'[v].chunk = c /\ (Taken(c) \/ c = d)
      <4>1. CASE v = w
        BY <2>1, <2>2, <4>1
      <4>2. CASE v # w
        <5>1. worker'[v] = worker[v]
          BY <1>1, <4>2
        <5> QED
          BY <2>8, <5>1 DEF Accounts
      <4> QED
        BY <4>1, <4>2
    <3> QED
      BY <2>5, <3>1 DEF Taken
  <2>9. \A v, u \in Workers : \A c \in Numbers : Has(v, c)' /\ Has(u, c)' => v = u
    BY <2>6, <2>7 DEF Accounts
  <2>10. ASSUME NEW c \in Numbers, NEW i \in Items, First(c) <= i, i < Last(c),
                ~Taken(c)' \/ \E v \in Workers : worker'[v].at = "evaluate" /\ worker'[v].chunk = c
         PROVE  evals'[i] = 0
    <3>1. ~Taken(c) \/ \E v \in Workers : worker[v].at = "evaluate" /\ worker[v].chunk = c
      BY <1>1, <2>2, <2>4, <2>5, <2>10
    <3> QED
      BY <1>1, <2>10, <3>1 DEF Accounts
  <2>11. Accounts'
    BY <1>1, <2>8, <2>9, <2>10 DEF Accounts
  <2> QED
    BY <1>2, <2>3, <2>11
<1>4. CASE ~(claimed < Chunks)
  <2>1. TypeOK'
    BY <1>1, <1>4 DEF TypeOK, Claim
  <2>2. worker'[w].at = "ended" /\ worker[w].at = "claim"
    BY <1>4 DEF Claim, TypeOK
  <2>3. \A c \in Numbers : Taken(c)' <=> Taken(c)
    <3>1. \A k \in Numbers : k < claimed /\ k < claimed'
      BY <1>1, <1>4, ChunksType DEF Numbers
    <3> QED
      BY <1>1, <3>1 DEF Taken
  <2>4. Accounts'
    BY <1>1, <2>2, <2>3 DEF Accounts, Has
  <2> QED
    BY <1>2, <2>1, <2>4
<1> QED
  BY <1>3, <1>4

LEMMA EvaluateStep ==
  ASSUME IInv, NEW w \in Workers, Evaluate(w) PROVE IInv'
<1> USE DEF IInv
<1> DEFINE d == worker[w].chunk
<1>1. d \in Numbers /\ Taken(d) /\ worker[w].at = "evaluate" /\ ~Alone
  BY DEF Evaluate, Accounts, Alone
<1>2. /\ UNCHANGED <<claim, claimed, board, waiting, notified, stop, caller, number, batch, item>>
      /\ \A v \in Workers \ {w} : worker'[v] = worker[v]
      /\ worker'[w].at = "publish" /\ worker'[w].chunk = d
      /\ ~Alone'
  BY DEF Evaluate, TypeOK, board_vars, caller_vars, Alone
<1>3. \A i \in Items : First(d) <= i /\ i < Last(d) => evals[i] = 0
  BY <1>1 DEF Accounts
<1>4. \A i \in Items : evals'[i] = IF First(d) <= i /\ i < Last(d) THEN 1 ELSE evals[i]
  BY <1>3 DEF Evaluate
<1>5. evals' \in [Items -> Nat]
  <2>1. evals' = [i \in Items |-> evals'[i]]
    BY DEF Evaluate
  <2> QED
    BY <1>4, <2>1 DEF TypeOK
<1>6. TypeOK'
  <2>1. worker' \in [Workers -> [at : {"absent", "check", "claim", "evaluate", "publish", "ended"},
                                 chunk : Numbers \cup {None}]]
    BY DEF Evaluate, TypeOK
  <2> QED
    BY <1>2, <1>5, <2>1 DEF TypeOK
<1>7. EvaluatedOnce'
  BY <1>4 DEF EvaluatedOnce
<1>8. Reads' /\ NoMissedResult'
  BY <1>1, <1>2 DEF Reads, NoMissedResult
<1>9. \A c : Taken(c)' <=> Taken(c)
  BY <1>2 DEF Taken
<1>10. \A v \in Workers : \A c \in Numbers : Has(v, c)' <=> Has(v, c)
  BY <1>1, <1>2 DEF Has
<1>11. ASSUME NEW v \in Workers, worker'[v].at \in {"evaluate", "publish"}
       PROVE  worker'[v].chunk \in Numbers /\ Taken(worker[v].chunk)'
  <2>1. \E c \in Numbers : worker'[v].chunk = c /\ Taken(c)
    BY <1>1, <1>2, <1>11 DEF Accounts
  <2> QED
    BY <1>9, <2>1 DEF Taken
<1>12. ASSUME NEW c \in Numbers, NEW i \in Items, First(c) <= i, i < Last(c),
              ~Taken(c)' \/ \E v \in Workers : worker'[v].at = "evaluate" /\ worker'[v].chunk = c
       PROVE  evals'[i] = 0
  <2>1. CASE c = d
    <3>1. PICK v \in Workers : worker'[v].at = "evaluate" /\ worker'[v].chunk = c
      BY <1>1, <1>9, <1>12, <2>1
    <3>2. v # w /\ Has(v, d) /\ Has(w, d)
      BY <1>1, <1>2, <2>1, <3>1 DEF Has
    <3> QED
      BY <1>1, <3>2 DEF Accounts
  <2>2. CASE c # d
    <3>1. ~(First(d) <= i /\ i < Last(d))
      BY <1>1, <1>12, <2>2, ChunksAreDisjoint DEF Items
    <3>2. ~Taken(c) \/ \E v \in Workers : worker[v].at = "evaluate" /\ worker[v].chunk = c
      BY <1>2, <1>9, <1>12, <2>2
    <3> QED
      BY <1>1, <1>4, <1>12, <3>1, <3>2 DEF Accounts
  <2> QED
    BY <2>1, <2>2
<1>13. Accounts'
  BY <1>2, <1>10, <1>11, <1>12 DEF Accounts
<1> QED
  BY <1>6, <1>7, <1>8, <1>13

LEMMA PublishStep ==
  ASSUME IInv, NEW w \in Workers, Publish(w) PROVE IInv'
<1> USE DEF IInv
<1> DEFINE d == worker[w].chunk
<1>1. d \in Numbers /\ Taken(d) /\ worker[w].at = "publish" /\ ~Alone
  BY DEF Publish, Accounts, Alone
<1>2. /\ UNCHANGED <<claim, claimed, waiting, stop, caller, number, batch, item, evals>>
      /\ \A v \in Workers \ {w} : worker'[v] = worker[v]
      /\ worker'[w] = [at |-> "check", chunk |-> None]
      /\ ~Alone'
  BY DEF Publish, TypeOK, caller_vars, Alone
<1>3. board' = [board EXCEPT ![d] = Interval(First(d), Last(d))] /\ notified' = (notified \/ waiting = d)
  BY DEF Publish
<1>4. Interval(First(d), Last(d)) \in [lo : Int, hi : Int]
  BY <1>1, ChunkBounds DEF Interval
<1>5. TypeOK'
  <2>1. worker' \in [Workers -> [at : {"absent", "check", "claim", "evaluate", "publish", "ended"},
                                 chunk : Numbers \cup {None}]]
    BY DEF Publish, TypeOK
  <2>2. board' \in [Numbers -> [lo : Int, hi : Int] \cup {None}] /\ notified' \in BOOLEAN
    BY <1>1, <1>3, <1>4 DEF TypeOK
  <2> QED
    BY <1>2, <2>1, <2>2 DEF TypeOK
<1>6. EvaluatedOnce'
  BY <1>2 DEF EvaluatedOnce
<1>7. \A c \in Numbers : board'[c] = IF c = d THEN Interval(First(c), Last(c)) ELSE board[c]
  BY <1>1, <1>3 DEF TypeOK
<1>8. Reads'
  BY <1>1, <1>2, <1>7 DEF Reads
<1>9. NoMissedResult'
  BY <1>2, <1>3, <1>7 DEF Reads, NoMissedResult
<1>10. Accounts'
  <2>1. \A c : Taken(c)' <=> Taken(c)
    BY <1>2 DEF Taken
  <2>2. \A v \in Workers : v # w => (worker'[v] = worker[v])
    BY <1>2
  <2> QED
    BY <1>1, <1>2, <2>1, <2>2 DEF Accounts, Has
<1> QED
  BY <1>5, <1>6, <1>8, <1>9, <1>10

-----------------------------------------------------------------------------
(* The theorems. *)

LEMMA Inductive == IInv /\ [Next]_vars => IInv'
<1> SUFFICES ASSUME IInv, [Next]_vars PROVE IInv'
  OBVIOUS
<1>1. CASE Call
  BY <1>1, SpawnedStep, ConsumeAloneStep, CallerStep, TakeStep, ConsumeStep, NextChunkStep, SpawnStep
     DEF Call
<1>2. CASE Wakeup \/ Ended \/ UNCHANGED vars
  BY <1>2, CallerStep
<1>3. ASSUME NEW w \in Workers, Work(w) PROVE IInv'
  BY <1>3, CheckStep, ClaimStep, EvaluateStep, PublishStep DEF Work
<1> QED
  BY <1>1, <1>2, <1>3 DEF Next

LEMMA Invariance == Spec => []IInv
  BY Start, Inductive, PTL DEF Spec

(* The variables of a stage keep their types.                                *)
THEOREM TypeCorrect == Spec => []TypeOK
<1>1. IInv => TypeOK
  BY DEF IInv
<1> QED
  BY <1>1, Invariance, PTL

(* The consumer of ordered_for_each gets, for every item in order, the       *)
(* result of that very item, however the workers claim and publish their     *)
(* chunks.                                                                   *)
THEOREM ResultsAreTheirOwn == Spec => []OwnResult
<1>1. IInv => OwnResult
  <2> SUFFICES ASSUME IInv, caller = "consume" PROVE batch # None /\ (batch.lo < batch.hi => batch.lo = item)
    BY DEF OwnResult
  <2>1. batch = Interval(item, Last(number)) /\ number \in Numbers
    BY DEF IInv, Reads
  <2>2. batch.lo = item
    BY <2>1, NoneIsNone
  <2>3. batch # None
    <3>1. item \in Int /\ Last(number) \in Int
      BY <2>1, ChunkBounds DEF IInv, TypeOK
    <3> QED
      BY <2>1, <3>1, OrderedStageAssumption DEF Interval
  <2> QED
    BY <2>2, <2>3
<1> QED
  BY <1>1, Invariance, PTL

(* produce runs at most once for an item, on whichever thread: what          *)
(* ordered_for_each_owned needs to move the item out of its slot.            *)
THEOREM NoItemTwice == Spec => []EvaluatedOnce
<1>1. IInv => EvaluatedOnce
  BY DEF IInv
<1> QED
  BY <1>1, Invariance, PTL

(* The consumer never sleeps while the chunk that it waits for is on the     *)
(* board and nobody notified it (publish and take).                          *)
THEOREM NoResultMissed == Spec => []NoMissedResult
<1>1. IInv => NoMissedResult
  BY DEF IInv
<1> QED
  BY <1>1, Invariance, PTL

(* A stage produces each item once, hands the consumer every item's own      *)
(* result and never lets it sleep through one (ordered_for_each, publish,    *)
(* take), for any number of items, workers and any chunk size.               *)
THEOREM StageIsExact == Spec => []ResultsAreExact
<1>1. OwnResult /\ EvaluatedOnce /\ NoMissedResult => ResultsAreExact
  BY DEF ResultsAreExact
<1> QED
  BY <1>1, ResultsAreTheirOwn, NoItemTwice, NoResultMissed, PTL

(* A parallel stage implements the sequential loop over its items.           *)
THEOREM StageIsLoop == Spec => IsLoop
<1>1. Init => Loop!Init
  BY DEF Init, Loop!Init
<1>2. ASSUME IInv, [Next]_vars PROVE [Loop!Next]_Loop!loop_vars
  <2> USE DEF IInv, board_vars, caller_vars, Loop!loop_vars
  <2>1. CASE ConsumeAlone
    BY <2>1 DEF ConsumeAlone, Loop!Next, Loop!Consume
  <2>2. CASE EndAlone
    BY <1>2, <2>2, OrderedStageAssumption DEF EndAlone, Reads, TypeOK, Loop!Next, Loop!End
  <2>3. CASE Consume
    <3>1. batch = Interval(item, Last(number)) /\ number \in Numbers
      BY <1>2, <2>3 DEF Consume, Reads
    <3>2. item < Last(number) /\ Last(number) <= ItemCount /\ Last(number) \in Nat /\ item \in Nat
      BY <1>2, <2>3, <3>1, NoneIsNone, ChunkBounds DEF Consume, TypeOK
    <3>3. item < ItemCount
      BY <3>2, OrderedStageAssumption
    <3> QED
      BY <2>3, <3>3 DEF Consume, Loop!Next, Loop!Consume
  <2>4. CASE NextChunk
    <3>1. number \in Numbers /\ batch = Interval(item, Last(number)) /\ item <= Last(number)
      BY <1>2, <2>4 DEF NextChunk, Reads
    <3>2. item >= Last(number) /\ item \in Nat /\ Last(number) \in Nat
      BY <1>2, <2>4, <3>1, NoneIsNone, ChunkBounds DEF NextChunk, TypeOK
    <3>3. item = Last(number) /\ number \in Nat /\ Chunks \in Nat
      BY <3>1, <3>2, ChunksType
    <3>4. ~(number + 1 < Chunks) => item = ItemCount
      BY <3>1, <3>3, ChunkBounds
    <3> QED
      BY <2>4, <3>4 DEF NextChunk, Loop!Next, Loop!End
  <2>5. CASE Spawned \/ Take \/ Leave \/ Join \/ Wakeup \/ Ended \/ UNCHANGED vars
    BY <2>5 DEF Spawned, Take, Leave, Join, Wakeup, Ended, vars
  <2>6. ASSUME NEW w \in Workers, Spawn(w) \/ Work(w) PROVE UNCHANGED Loop!loop_vars
    BY <2>6 DEF Spawn, Work, Check, Claim, Evaluate, Publish
  <2> QED
    BY <1>2, <2>1, <2>2, <2>3, <2>4, <2>5, <2>6 DEF Next, Call
<1> QED
  BY <1>1, <1>2, Invariance, PTL DEF Spec, IsLoop, Loop!Spec
=============================================================================
