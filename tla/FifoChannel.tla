---------------------------- MODULE FifoChannel ----------------------------
(* What channels promise, without processes, waiting or rings: items are     *)
(* accepted in some order, delivered in that order, each once, with at most  *)
(* Capacity of them in between, and nothing is accepted after the close.     *)
EXTENDS Naturals, Sequences

CONSTANTS Chans, Capacity

VARIABLES
    hist,    \* [Chans -> the items accepted and the items delivered]
    closed

fifoVars == <<hist, closed>>

FifoInit ==
    /\ hist = [c \in Chans |-> [accepted |-> <<>>, delivered |-> <<>>]]
    /\ closed = [c \in Chans |-> FALSE]

(* From h to k: one item enters, one leaves, or both at once; what leaves is *)
(* the oldest.                                                               *)
Extends(old, new) == Len(new) = Len(old) + 1 /\ SubSeq(new, 1, Len(old)) = old

Moved(h, k, bound) ==
    /\ k.accepted = h.accepted \/ Extends(h.accepted, k.accepted)
    /\ \/ k.delivered = h.delivered
       \/ /\ Extends(h.delivered, k.delivered)
          /\ Len(k.delivered) <= Len(k.accepted)
          /\ k.delivered[Len(k.delivered)] = k.accepted[Len(k.delivered)]
    /\ Len(k.accepted) <= Len(k.delivered) + bound

Move(c) ==
    /\ Moved(hist[c], hist'[c], Capacity[c])
    /\ closed[c] => hist'[c].accepted = hist[c].accepted
    /\ hist' = [hist EXCEPT ![c] = hist'[c]]
    /\ UNCHANGED closed

Shut(c) ==
    /\ ~closed[c]
    /\ closed' = [closed EXCEPT ![c] = TRUE]
    /\ UNCHANGED hist

FifoNext == \E c \in Chans : Move(c) \/ Shut(c)

Spec == FifoInit /\ [][FifoNext]_fifoVars
=============================================================================
