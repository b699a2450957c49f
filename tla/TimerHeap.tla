------------------------------ MODULE TimerHeap -----------------------------
(***************************************************************************)
(* The heap of the timers that wait (src/runtime/tzroutine.c, 3699-3775):   *)
(* an array ordered by the time of each timer, which knows its place in it. *)
(* Timers takes the heap as a set with its earliest member on the strength  *)
(* of what is shown here.  The array is from 0; one that is full is moved   *)
(* to a larger one, which changes nothing here.                             *)
(***************************************************************************)
EXTENDS Naturals, FiniteSets

CONSTANTS
  Timers,
  When      \* the time that each timer is set to

VARIABLES
  heap,   \* tzr_timers.heap with its count: a function on 0..count - 1
  index   \* the place that each timer of the heap remembers

vars == <<heap, index>>

Init ==
  /\ heap = <<>>
  /\ index = <<>>

Pending == {heap[i] : i \in DOMAIN heap}
CountOf(a) == Cardinality(DOMAIN a)

\* tzr_heap_set of two places at once; `s` is the array and the indices.
Swap(s, i, j) ==
  [a |-> [s.a EXCEPT ![i] = s.a[j], ![j] = s.a[i]],
   x |-> [s.x EXCEPT ![s.a[i]] = j, ![s.a[j]] = i]]

RECURSIVE Up(_, _)
Up(s, i) ==
  LET parent == (i - 1) \div 2
  IN IF i > 0 /\ When[s.a[parent]] > When[s.a[i]] THEN Up(Swap(s, i, parent), parent) ELSE s

\* The smallest of a place and its children.
Least(s, i) ==
  LET n == CountOf(s.a)
      l == 2 * i + 1
      m == IF l < n /\ When[s.a[l]] < When[s.a[i]] THEN l ELSE i
  IN IF l + 1 < n /\ When[s.a[l + 1]] < When[s.a[m]] THEN l + 1 ELSE m

RECURSIVE Down(_, _)
Down(s, i) == LET m == Least(s, i) IN IF m = i THEN s ELSE Down(Swap(s, m, i), m)

Cut(a) == [i \in DOMAIN a \ {CountOf(a) - 1} |-> a[i]]

\* tzr_heap_remove: the last one into the hole, then up and down; `up` is whether it goes up.
RemovedWith(t, up) ==
  LET i == index[t]
      last == heap[CountOf(heap) - 1]
      left == [a |-> Cut(heap), x |-> [u \in DOMAIN index \ {t} |-> index[u]]]
      put == [a |-> [left.a EXCEPT ![i] = last], x |-> [left.x EXCEPT ![last] = i]]
      risen == IF up THEN Up(put, i) ELSE put
  IN IF i < CountOf(left.a) THEN Down(risen, risen.x[last]) ELSE left

\* The one from the end is taken for a large one.
RemovedDownOnly(t) == RemovedWith(t, FALSE)

\* The place of the one from the end is not written down.
RemovedUnindexed(t) == [RemovedWith(t, TRUE) EXCEPT !.x = [u \in DOMAIN index \ {t} |-> index[u]]]

Removed(t) == RemovedWith(t, TRUE)

Set(s) == heap' = s.a /\ index' = s.x

\* tzr_heap_push
Push(t) ==
  /\ t \notin Pending
  /\ LET n == CountOf(heap)
     IN Set(Up([a |-> [i \in 0..n |-> IF i = n THEN t ELSE heap[i]],
                x |-> [u \in Pending \union {t} |-> IF u = t THEN n ELSE index[u]]], n))

Remove(t) == t \in Pending /\ Set(Removed(t))

Next == \E t \in Timers : Remove(t) \/ Push(t)

Spec == Init /\ [][Next]_vars

-----------------------------------------------------------------------------

\* The first timer is the earliest and the rest are in heap order, after any sequence of pushes
\* and removals from the middle: the timer thread sleeps until the first one is due.
EarliestIsFirst == \A i \in DOMAIN heap \ {0} : When[heap[(i - 1) \div 2]] <= When[heap[i]]

\* Each timer that waits is where its index says, so that a stop takes out that timer and no
\* other (tzr_heap_remove trusts t->index).
IndexIsTrue == \A i \in DOMAIN heap : index[heap[i]] = i
=============================================================================
