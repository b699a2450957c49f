---------------------------- MODULE MCScheduler ----------------------------
(* Small instances of Scheduler for TLC. A behaviour is of one of four       *)
(* parts: "calls", whose Gs also make blocking calls (sysmon hands their Ps  *)
(* off) and lock their M; "plain", with one operation more and no blocking   *)
(* call; "one", with calls and one P, which is handed off while all else     *)
(* sleeps; "full", with one M, one P and more Gs than the P's queue has room *)
(* for.                                                                      *)
EXTENDS Scheduler, TLC

CONSTANTS g1, g2, g3, g4, g5, m0, m1, m2, m3, m4, p0, p1, p2, t1, Parts

VARIABLE part

Plain == INSTANCE Scheduler WITH Callers <- {}, MaxOps <- MaxOps + 1
One == INSTANCE Scheduler WITH Ms <- {m0, m4}, Ps <- {p0}, Lockers <- {}
Full == INSTANCE Scheduler WITH Gs <- {g1, g2, g3, g4, g5}, Ms <- {m0}, Ps <- {p0},
                                Callers <- {}, Lockers <- {}, MaxOps <- 5

SumInit ==
  /\ part \in Parts
  /\ CASE part = "full" -> Full!Init
       [] part = "one" -> One!Init
       [] OTHER -> Init

SumNext ==
  /\ \/ part = "calls" /\ Next
     \/ part = "plain" /\ Plain!Next
     \/ part = "one" /\ One!Next
     \/ part = "full" /\ Full!Next
  /\ UNCHANGED part

SumSpec == SumInit /\ [][SumNext]_<<part, vars>>

-----------------------------------------------------------------------------
(* The variables keep their types; no ring holds more than it has room for   *)
(* (tzr_runqput with a full ring, tzr_globrunqget, tzr_runqsteal).           *)
SumTypeOK ==
  CASE part = "calls" -> TypeOK
    [] part = "plain" -> Plain!TypeOK
    [] part = "one" -> One!TypeOK
    [] part = "full" -> Full!TypeOK

(* A P belongs to one: idle, in the hands of one M, startm, wake-up or       *)
(* handoff, or in the SYSCALL state (pidleget, startm, exitsyscall, retake,  *)
(* serve_pwait). No G is lost or run twice, not even when a full ring gives  *)
(* half of its Gs to the global queue (tzr_runqput_slow) or a thief takes    *)
(* half of a ring.                                                           *)
OneOwnerOfAll ==
  CASE part = "full" -> Full!EachGOnce
    [] part = "one" -> One!OneOwner /\ One!EachGOnce
    [] OTHER -> OneOwner /\ EachGOnce

(* The detector misses no deadlock (it looks each time an M stops, a thread  *)
(* parks or a locked G sleeps) and never takes a blocking call for one.      *)
VerdictIsTrue ==
  CASE part = "full" -> Full!DeadlockIsFound
    [] part = "one" -> One!DeadlockIsFound /\ One!NoFalseAlarm
    [] OTHER -> DeadlockIsFound /\ NoFalseAlarm

(* nmspinning counts the Ms that spin and the one that tzr_wakep is about to *)
(* start; and while a P is idle, whatever is queued is on its way to a       *)
(* thread (wakep after every put, the last spinner's wakep, the second look  *)
(* of findrunnable), as long as no P is handed off. With handoffs, at least  *)
(* some thread is awake that will look at the queues, or sysmon watches a P  *)
(* in a blocking call.                                                       *)
WorkIsSought ==
  /\ part \in {"calls", "plain"} => SpinningIsCounted
  /\ part = "one" => One!SpinningIsCounted /\ One!NobodySleepsOnWork
  /\ part = "plain" => QueuedWorkIsSought

MCSymmetry == Permutations(Ms) \cup Permutations(Ps) \cup Permutations(Gs)

(* For the instances that tell one G from another.                           *)
MCSymmetryMP == Permutations(Ms) \cup Permutations(Ps)
=============================================================================
