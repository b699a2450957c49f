----------------------------- MODULE ParkingLot -----------------------------
(* Address-keyed waiting of the tzroutine runtime (tzr_addr_wait and         *)
(* tzr_addr_wake in runtime/tzroutine.c), on which Mutex, RwMutex, Once,     *)
(* Cond, Semaphore and WaitGroup are built.                                  *)
(*                                                                           *)
(* One bucket holds the waiters of every address: the addresses of a model   *)
(* are the ones that hash to the same bucket.  A critical section of the     *)
(* bucket's lock is one step.  The word that a wait compares is the          *)
(* business of the module that extends this one.                             *)
EXTENDS Integers, Sequences, FiniteSets

CONSTANTS
    Gs,        \* tzroutines
    Threads,   \* host threads (pseudo-Gs)
    Addrs      \* the words that are waited on

Procs == Gs \cup Threads

ASSUME ParkingLotAssumption == Gs \cap Threads = {}

VARIABLES
    bucket,    \* the waiters <<p, addr>>, first come first
    status,    \* g->status: running, waiting or dead
    doomed,    \* g->doomed: the deadlock detector ended the wait
    trapped    \* the detector trapped: no pseudo-G was waiting

lotVars == <<bucket, status, doomed, trapped>>

Waiters == Procs \X Addrs

LotInit ==
    /\ bucket = <<>>
    /\ status = [p \in Procs |-> "running"]
    /\ doomed = [p \in Procs |-> FALSE]
    /\ trapped = FALSE

InBucket(p) == \E i \in DOMAIN bucket : bucket[i][1] = p

(* tzr_addr_wait once the comparison held: p joins the bucket and parks.     *)
Park(p, a) ==
    /\ bucket' = Append(bucket, <<p, a>>)
    /\ status' = [status EXCEPT ![p] = "waiting"]
    /\ UNCHANGED <<doomed, trapped>>

(* tzr_ready for every process of ps, with the bucket locked.  A pseudo-G    *)
(* that the detector woke already is running and stays so.                   *)
Readied(ps) == [p \in Procs |-> IF p \in ps THEN "running" ELSE status[p]]

(* tzr_addr_wake(a, 1): the first waiter of a, if any.                       *)
FirstOf(a) == CHOOSE i \in DOMAIN bucket :
                  /\ bucket[i][2] = a
                  /\ \A j \in DOMAIN bucket : bucket[j][2] = a => i <= j

Without(q, i) == [j \in 1..Len(q) - 1 |-> IF j < i THEN q[j] ELSE q[j + 1]]

WakeOne(a) ==
    /\ IF \E i \in DOMAIN bucket : bucket[i][2] = a
       THEN /\ bucket' = Without(bucket, FirstOf(a))
            /\ status' = Readied({bucket[FirstOf(a)][1]})
       ELSE UNCHANGED <<bucket, status>>
    /\ UNCHANGED <<doomed, trapped>>

(* tzr_addr_wake(a, -1): every waiter of a.                                  *)
WakeAll(a) ==
    /\ bucket' = SelectSeq(bucket, LAMBDA w : w[2] # a)
    /\ status' = Readied({p \in Procs : \E i \in DOMAIN bucket : bucket[i] = <<p, a>>})
    /\ UNCHANGED <<doomed, trapped>>

(* The end of tzr_addr_wait after its park.  Cancelled: the detector woke p  *)
(* and no waker took it, so that it unlinks itself and the wait fails.       *)
Cancelled(p) == doomed[p] /\ InBucket(p)

PlaceOf(p) == CHOOSE i \in DOMAIN bucket : bucket[i][1] = p

(* Variant with a bug: the process leaves without unlinking itself.          *)
Unpark(p) ==
    /\ bucket' = IF Cancelled(p) THEN Without(bucket, PlaceOf(p)) ELSE bucket
    /\ doomed' = [doomed EXCEPT ![p] = FALSE]
    /\ UNCHANGED <<status, trapped>>

(* A tzroutine ends, or a host thread and its pseudo-G.                      *)
Die(p) ==
    /\ status' = [status EXCEPT ![p] = "dead"]
    /\ UNCHANGED <<bucket, doomed, trapped>>

Asleep == /\ \A p \in Procs : status[p] # "running"
          /\ \E p \in Procs : status[p] = "waiting"

(* tzr_checkdead, as far as these processes go.                              *)
CheckDead ==
    /\ ~trapped
    /\ Asleep
    /\ trapped' = (\A t \in Threads : status[t] # "waiting")
    /\ doomed' = [p \in Procs |-> doomed[p] \/ (p \in Threads /\ status[p] = "waiting")]
    /\ status' = [p \in Procs |-> IF p \in Threads /\ status[p] = "waiting" THEN "running" ELSE status[p]]
    /\ UNCHANGED bucket

LotTypeOK ==
    /\ bucket \in Seq(Waiters)
    /\ status \in [Procs -> {"running", "waiting", "dead"}]
    /\ doomed \in [Procs -> BOOLEAN]
    /\ trapped \in BOOLEAN
=============================================================================
