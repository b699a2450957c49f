-------------------- MODULE MCSync --------------------
(* What tzroutines and host threads wait on, each in a small instance: mutexes (the module that *)
(* is extended here), channels, selects, reader-writer mutexes, conditions, the Once, WaitGroup *)
(* and Semaphore, the channels of data and the lock order of a select. A behaviour is one of a  *)
(* single component; those other than the mutexes take turns to use x1, x2, ...: `part` says    *)
(* whose they are.                                                                              *)
EXTENDS Mutex, TLC

CONSTANTS
  Parts,   \* the components whose behaviours are looked at
  None, g1, g2, t1, t2, u1, u2, w1, w2, c0, c1, c2

VARIABLES
  part,    \* the component of this behaviour
  x1, x2, x3, x4, x5, x6, x7, x8, x9, x10, x11, x12, x13, x14, x15

MutexOps == [p \in Procs |-> IF p = g2 THEN 1 ELSE 2]

\* c0 is unbuffered, c1 has room for one item and c2 for two.
Room(cs) == [c \in cs |-> CASE c = c0 -> 0 [] c = c1 -> 1 [] c = c2 -> 2]
ChanOps == g1 :> 2 @@ u1 :> 2 @@ u2 :> 2
SelectOps == g1 :> 1 @@ t1 :> 2 @@ t2 :> 1
Sends(c) == [chan |-> c, send |-> TRUE]
Receives(c) == [chan |-> c, send |-> FALSE]
Shapes == {<<Receives(c0), Receives(c1)>>, <<Sends(c0), Receives(c1)>>}

CondOps == [p \in Procs |-> IF p = g2 THEN 1 ELSE 2]
Calls ==
  [once      |-> [p \in Procs |-> 2],
   group     |-> [p \in Procs |-> IF p = g1 THEN 1 ELSE 2],
   semaphore |-> [p \in Procs |-> IF p = t1 THEN 2 ELSE 1]]
CaseCounts == g1 :> 4 @@ t1 :> 2

\* The two threads of the buffered channel, which no other component has, do the same.
Alike == Permutations({u1, u2})

-----------------------------------------------------------------------------
\* A buffered channel, without selects.
Chan ==
  INSTANCE Channel WITH Gs <- {g1}, Threads <- {u1, u2}, Chans <- {c2}, Capacity <- Room({c2}),
    SelectShapes <- {}, MaxOps <- ChanOps, chan <- x1, g <- x2, hist <- x3, trapped <- x4

\* Selects on an unbuffered and a buffered channel.
Sel ==
  INSTANCE Channel WITH Gs <- {g1}, Threads <- {t1, t2}, Chans <- {c0, c1},
    Capacity <- Room({c0, c1}), SelectShapes <- Shapes, MaxOps <- SelectOps, chan <- x1, g <- x2,
    hist <- x3, trapped <- x4

Rw ==
  INSTANCE RwMutex WITH Gs <- {g1, g2}, Threads <- {t1}, Addrs <- {w1}, Cell <- w1,
    Readers <- {g1, g2}, Writers <- {g2, t1}, Blockers <- {g1}, bucket <- x1, status <- x2,
    doomed <- x3, trapped <- x4, word <- x5, pc <- x6, seen <- x7, counted <- x8, mode <- x9,
    gaveUp <- x10

Cond ==
  INSTANCE Cond WITH Gs <- {g1, g2}, Threads <- {t1}, Addrs <- {w1, w2}, Cell <- w1, Sequence <- w2,
    MaxOps <- CondOps, Producers <- {g1, t1}, Consumers <- {g1, g2, t1}, bucket <- x1,
    status <- x2, doomed <- x3, trapped <- x4, word <- x5, pc <- x6, arg <- x7, held <- x8,
    result <- x9, nops <- x10, seq <- x11, items <- x12, stage <- x13, observed <- x14,
    ended <- x15

\* Words of three bits.
Obj ==
  INSTANCE SyncObject WITH Gs <- {g1, g2}, Threads <- {t1}, Addrs <- {w1}, Cell <- w1, Half <- 4,
    Deltas <- {-4, -1, 1, 3}, Capacity <- 2, MaxCalls <- Calls, bucket <- x1, status <- x2,
    doomed <- x3, trapped <- x4, kind <- x5, word <- x6, pc <- x7, seen <- x8, weight <- x9,
    block <- x10, result <- x11, inside <- x12, tally <- x13, faulted <- x14, ncalls <- x15

Data ==
  INSTANCE DataChannel WITH Threads <- {t1, t2}, Gs <- {g1, g2}, First <- t1,
    Borrowers <- {t1, g2}, Capacity <- 2, MaxOps <- 2, c <- x1, proc <- x2, freed <- x3,
    dropped <- x4, hist <- x5, trapped <- x6

\* A select with four cases against one with two, on three channels.
Order ==
  INSTANCE SelectOrder WITH Selects <- {g1, t1}, Cases <- CaseCounts, Chans <- 1..3, chans <- x1,
    lockorder <- x2, at <- x3, next <- x4, holder <- x5

ASSUME ConstantsAreRight ==
  /\ Chan!ChannelAssumption /\ Sel!ChannelAssumption
  /\ Rw!RwMutexAssumption /\ Cond!CondAssumption /\ Obj!SyncObjectAssumption

-----------------------------------------------------------------------------
\* The variables that a component with so many of its own leaves alone.
rest4 == <<part, bucket, status, doomed, trapped, word, pc, arg, held, result, nops, x5, x6, x7,
      x8, x9, x10, x11, x12, x13, x14, x15>>
rest5 == <<part, bucket, status, doomed, trapped, word, pc, arg, held, result, nops, x6, x7, x8,
      x9, x10, x11, x12, x13, x14, x15>>
rest6 == <<part, bucket, status, doomed, trapped, word, pc, arg, held, result, nops, x7, x8, x9,
      x10, x11, x12, x13, x14, x15>>
rest10 == <<part, bucket, status, doomed, trapped, word, pc, arg, held, result, nops, x11, x12,
      x13, x14, x15>>
rest15 == <<part, bucket, status, doomed, trapped, word, pc, arg, held, result, nops>>
slots == <<part, x1, x2, x3, x4, x5, x6, x7, x8, x9, x10, x11, x12, x13, x14, x15>>
all == <<part, bucket, status, doomed, trapped, word, pc, arg, held, result, nops, x1, x2, x3, x4,
      x5, x6, x7, x8, x9, x10, x11, x12, x13, x14, x15>>

SumInit ==
  /\ part \in Parts
  /\ Init
  /\ \/ part = "mutex" /\ x1 = None /\ x2 = None /\ x3 = None /\ x4 = None /\ x5 = None
        /\ x6 = None /\ x7 = None /\ x8 = None /\ x9 = None /\ x10 = None /\ x11 = None
        /\ x12 = None /\ x13 = None /\ x14 = None /\ x15 = None
     \/ part = "channel" /\ Chan!Init /\ x5 = None /\ x6 = None /\ x7 = None /\ x8 = None
        /\ x9 = None /\ x10 = None /\ x11 = None /\ x12 = None /\ x13 = None /\ x14 = None
        /\ x15 = None
     \/ part = "select" /\ Sel!Init /\ x5 = None /\ x6 = None /\ x7 = None /\ x8 = None
        /\ x9 = None /\ x10 = None /\ x11 = None /\ x12 = None /\ x13 = None /\ x14 = None
        /\ x15 = None
     \/ part = "rwmutex" /\ Rw!Init /\ x11 = None /\ x12 = None /\ x13 = None /\ x14 = None
        /\ x15 = None
     \/ part = "cond" /\ Cond!CondInit
     \/ part = "object" /\ Obj!Init
     \/ part = "data" /\ Data!Init /\ x7 = None /\ x8 = None /\ x9 = None /\ x10 = None
        /\ x11 = None /\ x12 = None /\ x13 = None /\ x14 = None /\ x15 = None
     \/ part = "order" /\ Order!Init /\ x6 = None /\ x7 = None /\ x8 = None /\ x9 = None
        /\ x10 = None /\ x11 = None /\ x12 = None /\ x13 = None /\ x14 = None /\ x15 = None

SumNext ==
  \/ part = "mutex" /\ Next /\ UNCHANGED slots
  \/ part = "channel" /\ Chan!Next /\ UNCHANGED rest4
  \/ part = "select" /\ Sel!Next /\ UNCHANGED rest4
  \/ part = "rwmutex" /\ Rw!Next /\ UNCHANGED rest10
  \/ part = "cond" /\ Cond!CondNext /\ UNCHANGED rest15
  \/ part = "object" /\ Obj!Next /\ UNCHANGED rest15
  \/ part = "data" /\ Data!Next /\ UNCHANGED rest6
  \/ part = "order" /\ Order!Next /\ UNCHANGED rest5
  \/ part \in {"data"} /\ UNCHANGED all   \* these may come to rest

SumSpec == SumInit /\ [][SumNext]_all

-----------------------------------------------------------------------------
\* The variables of each component keep their types.
SumTypeOK ==
  /\ TypeOK
  /\ part = "channel" => Chan!TypeOK
  /\ part = "select" => Sel!TypeOK
  /\ part = "rwmutex" => Rw!TypeOK
  /\ part = "object" => Obj!TypeOK
  /\ part = "data" => Data!TypeOK
  /\ part = "order" => Order!TypeOK

\* The channels implement bounded FIFO queues that accept nothing once closed (module
\* FifoChannel): send, receive, close and the hand-over to a waiter each move one item or none.
ChannelsAreFifo ==
  /\ part = "channel" => Chan!Fifo!FifoInit
  /\ [][part = "channel" => Chan!Fifo!FifoNext \/ UNCHANGED Chan!Fifo!fifoVars]_all

\* What an operation reports is what happened: a send case moved its item exactly once when the
\* operation returned ok for that case, and never otherwise, so that an item reported closed,
\* deadlock or would_block still belongs to the caller; and the ring is what was accepted and not
\* yet delivered, oldest first (tzr_chan_send, tzr_chan_recv, tzr_select).
OutcomeIsTrue ==
  /\ part = "channel" => Chan!OutcomeIsTrue /\ Chan!RingHoldsBacklog
  /\ part = "select" => Sel!OutcomeIsTrue

\* A process that waits without an outcome is in the queue of every one of its cases, and whatever
\* is in a queue, on its waiter's stack, belongs to an operation that has not returned; whom a
\* waker is about to ready is WAITING and has that waker only, so that tzr_ready's fatal "bad
\* tzroutine status in ready" cannot happen; and nobody sleeps on a channel that could serve them
\* (tzr_enqueue before tzr_park, tzr_dequeue's skip of dead selects, the passes of a select).
SelectWaitsAreExact ==
  part = "select" =>
    /\ Sel!WaitersAreQueued /\ Sel!NoDanglingSudog
    /\ Sel!ReadyIsLegal /\ Sel!NoMissedMatch

\* The word of a reader-writer mutex counts exactly the readers that hold the lock, the writers
\* that wait and the writer that holds it, whatever races the compare-and-swaps lose; and a
\* sleeper that may enter is about to be woken, unless a writer that gave its wait up let it in
\* (rw_read_lock to rw_write_unlock).
RwMutexAdmits == part = "rwmutex" => Rw!WordCountsHolders /\ Rw!ReleasesWakeAdmitted

\* While a consumer sleeps, every item has a consumer that is awake in wait_with, or a producer
\* that has not signalled yet: no signal falls between the release of the mutex and the wait. The
\* locked value is only touched by the holder of the lock, also after the detector ended a wait
\* (cond_wait, and the loop of llvm_wait.rs).
CondWaitIsAtomic == part = "cond" => Cond!NoLostSignal /\ Cond!PredicateUnderLock

\* The function of a Once is started once and done means that it returned; the counter of a
\* WaitGroup is the true sum until an add is told of an error; no weight of a Semaphore is lost or
\* made up; and nobody sleeps on an object that would serve them unless a wake is coming (once_*,
\* waitgroup_*, sem_*).
ObjectsAreTrue ==
  part = "object" =>
    /\ Obj!RunsOnceBeforeDone /\ Obj!CounterIsTrue /\ Obj!WeightIsConserved
    /\ Obj!ServedAreWoken

\* While receivers wait on a data channel there are as many on their way as there are items, and
\* while senders wait as many as there is room for; nobody waits for an end that is gone; a record
\* in a queue is of a process in that very wait; and what was received or is left is what was
\* sent, in that order (tzr_dchan_wake, tzr_dchan_wait, tsuzuri_channel_close).
DataChannelServes ==
  part = "data" =>
    /\ Data!NoLostWakeup /\ Data!NoWaitForTheGone
    /\ Data!RecordIsOfItsWait /\ Data!ItemsInOrder

\* No set of selects waits only for one another, and none for itself: the heap sort orders the
\* cases of each by address and loses none; and the passes of a select run with the locks of all
\* its channels, none given back by its own second release (tzr_select, tzr_sellock,
\* tzr_selunlock).
SelectLocksInOrder ==
  part = "order" => Order!NoCircularWait /\ Order!HoldsWhatItUses /\ Order!SortIsRight
=============================================================================
