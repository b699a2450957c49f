------------------------------ MODULE SmallHeap -----------------------------
(***************************************************************************)
(* One size class of the allocator of --allocator small                     *)
(* (src/runtime/heap-small.c): the caches of the threads, the central stack *)
(* of chains behind a try-lock, and the region that fresh chains are cut    *)
(* from.  The free blocks are linked through their own first two words,     *)
(* which are the program's while the block is in use.                       *)
(*                                                                         *)
(* A block is its number, 0 the null pointer.  A request that finds the     *)
(* lock held or no region goes to malloc and touches nothing here; the      *)
(* other classes, and the table from addresses to classes, are left out.    *)
(***************************************************************************)
EXTENDS Naturals, FiniteSets, Sequences

CONSTANTS
  Threads,
  Batch,      \* tz_small_batch: the blocks of a chain
  MaxBlocks,  \* bound: what the regions hold, a multiple of Batch
  None

Blocks == 1..MaxBlocks
Data == MaxBlocks + 1      \* what the program writes

VARIABLES
  word0, word1,     \* the first two words of each block
  head, count,      \* the slot of each thread's cache
  cache,            \* whether the thread has one
  lock, chains, chainCount, bump,   \* tz_small_class; bump: the blocks cut so far
  at, arg,          \* where each thread is, and the chain or block it has in hand
  used, leaked      \* the blocks in use, and those that no cache could be made for

words == <<word0, word1>>
slots == <<head, count, cache>>
central == <<lock, chains, chainCount, bump>>
vars == <<words, slots, central, at, arg, used, leaked>>

Limit == 2 * Batch

\* The blocks that are linked from b, at most n of them, the n-th, and the chains from c.
RECURSIVE List(_, _)
List(b, n) == IF n = 0 \/ b \notin Blocks THEN <<>> ELSE <<b>> \o List(word0[b], n - 1)
Nth(b, n) == List(b, n)[n]
RECURSIVE Heads(_, _)
Heads(c, n) == IF n = 0 \/ c \notin Blocks THEN <<>> ELSE <<c>> \o Heads(word1[c], n - 1)

Init ==
  /\ word0 = [b \in Blocks |-> Data] /\ word1 = [b \in Blocks |-> Data]
  /\ head = [t \in Threads |-> 0] /\ count = [t \in Threads |-> 0]
  /\ cache = [t \in Threads |-> FALSE]
  /\ lock = None /\ chains = 0 /\ chainCount = 0 /\ bump = 0
  /\ at = [t \in Threads |-> "out"] /\ arg = [t \in Threads |-> 0]
  /\ used = {} /\ leaked = {}

Go(t, place) == at' = [at EXCEPT ![t] = place]
Hold(t, x) == arg' = [arg EXCEPT ![t] = x]

\* A block in use: its words are the program's.
Give(b) ==
  /\ used' = used \union {b}
  /\ word0' = [word0 EXCEPT ![b] = Data] /\ word1' = [word1 EXCEPT ![b] = Data]

\* tz_small_alloc from the cache.
Alloc(t) ==
  /\ at[t] = "out" /\ head[t] # 0
  /\ head' = [head EXCEPT ![t] = word0[head[t]]]
  /\ count' = [count EXCEPT ![t] = @ - 1]
  /\ Give(head[t])
  /\ UNCHANGED <<cache, central, at, arg, leaked>>

\* tz_small_alloc_slow, as far as the lock: the cache may be new.
AllocSlow(t) ==
  /\ at[t] = "out" /\ head[t] = 0
  /\ cache' = [cache EXCEPT ![t] = TRUE]
  /\ IF lock = None THEN lock' = t /\ Go(t, "take") ELSE UNCHANGED <<lock, at>>
  /\ UNCHANGED <<words, head, count, chains, chainCount, bump, arg, used, leaked>>

\* tz_small_take: the chain on top is read ...
TakeRead(t) ==
  /\ at[t] = "take"
  /\ Hold(t, chains)
  /\ Go(t, IF chains # 0 THEN "pop" ELSE "cut")
  /\ UNCHANGED <<words, slots, central, used, leaked>>

\* ... and taken, or a fresh one cut.
TakePop(t) ==
  /\ at[t] = "pop"
  /\ chains' = word1[arg[t]]
  /\ chainCount' = chainCount - 1
  /\ lock' = None
  /\ Go(t, "chain")
  /\ UNCHANGED <<words, slots, bump, arg, used, leaked>>

TakeCut(t) ==
  /\ at[t] = "cut"
  /\ lock' = None
  /\ IF bump = MaxBlocks THEN Go(t, "out") /\ UNCHANGED <<bump, arg>>
     ELSE bump' = bump + Batch /\ Hold(t, bump + 1) /\ Go(t, "link")
  /\ UNCHANGED <<words, slots, chains, chainCount, used, leaked>>

\* The blocks of a fresh chain are linked after the lock is given back.
Link(t) ==
  /\ at[t] = "link"
  /\ LET first == arg[t]
         last == first + Batch - 1
     IN word0' = [b \in Blocks |-> IF b \in first..last - 1 THEN b + 1
                                   ELSE IF b = last THEN 0 ELSE word0[b]]
  /\ Go(t, "chain")
  /\ UNCHANGED <<word1, slots, central, arg, used, leaked>>

\* The rest of tz_small_alloc_slow, with n blocks left of the chain.
ChainWith(t, n) ==
  /\ at[t] = "chain"
  /\ head' = [head EXCEPT ![t] = word0[arg[t]]]
  /\ count' = [count EXCEPT ![t] = n]
  /\ Give(arg[t])
  /\ Go(t, "out") /\ Hold(t, 0)
  /\ UNCHANGED <<cache, central, leaked>>

\* The block that is handed out is counted too.
ChainCountsAll(t) == ChainWith(t, Limit \div 2)
Chain(t) == ChainWith(t, Limit \div 2 - 1)

\* tz_small_free and tz_small_free_slow: any thread frees any block.
Free(t, b) ==
  /\ at[t] = "out" /\ b \in used
  /\ used' = used \ {b}
  /\ \/ /\ word0' = [word0 EXCEPT ![b] = head[t]]
        /\ head' = [head EXCEPT ![t] = b]
        /\ count' = [count EXCEPT ![t] = @ + 1]
        /\ cache' = [cache EXCEPT ![t] = TRUE]
        /\ at' = [at EXCEPT ![t] = IF count[t] + 1 > Limit THEN "flush" ELSE "out"]
        /\ UNCHANGED leaked
     \/ /\ ~cache[t]
        /\ leaked' = leaked \union {b}
        /\ UNCHANGED <<word0, slots, at>>
  /\ UNCHANGED <<word1, central, arg>>

\* tz_small_flush: nothing when the lock is held ...
Flush(t) ==
  /\ at[t] = "flush"
  /\ IF lock = None THEN lock' = t /\ Go(t, "batch") ELSE Go(t, "out") /\ UNCHANGED lock
  /\ UNCHANGED <<words, slots, chains, chainCount, bump, arg, used, leaked>>

\* ... else the newest Batch blocks of the cache, which end in null when `cut`.
BatchWith(t, cut) ==
  /\ at[t] = "batch"
  /\ LET last == Nth(head[t], Batch)
     IN /\ head' = [head EXCEPT ![t] = word0[last]]
        /\ count' = [count EXCEPT ![t] = @ - Batch]
        /\ word0' = IF cut THEN [word0 EXCEPT ![last] = 0] ELSE word0
        /\ word1' = [word1 EXCEPT ![head[t]] = chains]
        /\ Hold(t, head[t])
  /\ Go(t, "push")
  /\ UNCHANGED <<cache, central, used, leaked>>

\* The chain still leads on to the rest of the cache.
BatchUncut(t) == BatchWith(t, FALSE)
TakeBatch(t) == BatchWith(t, TRUE)

FlushPush(t) ==
  /\ at[t] = "push"
  /\ chains' = arg[t]
  /\ chainCount' = chainCount + 1
  /\ lock' = None
  /\ Hold(t, 0) /\ Go(t, "out")
  /\ UNCHANGED <<words, slots, bump, used, leaked>>

Next ==
  \E t \in Threads :
    \/ Alloc(t) \/ AllocSlow(t) \/ TakeRead(t) \/ TakePop(t) \/ TakeCut(t) \/ Link(t) \/ Chain(t)
    \/ Flush(t) \/ TakeBatch(t) \/ FlushPush(t)
    \/ \E b \in Blocks : Free(t, b)

Spec == Init /\ [][Next]_vars

-----------------------------------------------------------------------------
(* Properties.                                                             *)

\* The lists that there are: the caches, the central chains and the chain a thread has in hand.
CacheList(t) == List(head[t], MaxBlocks)
ChainHeads == Heads(chains, MaxBlocks)
InHand(t) ==
  IF at[t] = "link" THEN [i \in 1..Batch |-> arg[t] + i - 1]
  ELSE IF at[t] \in {"chain", "push"} THEN List(arg[t], MaxBlocks)
  ELSE <<>>

\* Every block that was cut from a region is in one place: in use once, in one cache, in one
\* chain, or lost to a thread that could make no cache.  None is handed out twice and none is
\* forgotten, whoever frees it and whoever holds the lock.
BlockIsOnce ==
  LET places == [x \in (Threads \X {"cache", "hand"}) \union {<<i, "chain">> : i \in DOMAIN ChainHeads}
                   |-> CASE x[2] = "cache" -> CacheList(x[1])
                         [] x[2] = "hand" -> InHand(x[1])
                         [] OTHER -> List(ChainHeads[x[1]], MaxBlocks)]
  IN \A b \in 1..bump :
       Cardinality({<<x, i>> \in (DOMAIN places) \X (1..MaxBlocks) :
                      i <= Len(places[x]) /\ places[x][i] = b})
       + (IF b \in used THEN 1 ELSE 0) + (IF b \in leaked THEN 1 ELSE 0) = 1

\* The counts that decide when a cache is flushed are true, and every chain of the central stack
\* has a whole batch: a thread that takes it writes Batch - 1 into its count without looking.
CountsAreTrue ==
  /\ \A t \in Threads : count[t] = Len(CacheList(t))
  /\ lock = None => chainCount = Len(ChainHeads)
  /\ \A i \in DOMAIN ChainHeads : Len(List(ChainHeads[i], MaxBlocks)) = Batch
=============================================================================
