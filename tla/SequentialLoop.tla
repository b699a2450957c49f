--------------------------- MODULE SequentialLoop ---------------------------
(***************************************************************************)
(* What a parallel stage promises its caller (src/parallel.rs): the        *)
(* consumer is called for one item after the other, and the loop ends      *)
(* behind the last item or behind the item at which it breaks.             *)
(***************************************************************************)
EXTENDS Naturals

CONSTANT ItemCount

VARIABLES item, ended

loop_vars == <<item, ended>>

Init == item = 0 /\ ended = FALSE

Consume ==
  /\ ~ended /\ item < ItemCount
  /\ item' = item + 1
  /\ ended' \in BOOLEAN

End == ~ended /\ item = ItemCount /\ ended' = TRUE /\ UNCHANGED item

Next == Consume \/ End

Spec == Init /\ [][Next]_loop_vars
=============================================================================
