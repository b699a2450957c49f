---------------------------- MODULE SelectOrder -----------------------------
(***************************************************************************)
(* How a select takes the locks of its channels (src/runtime/tzroutine.c,   *)
(* 4966-4984 and 5027-5063): it sorts its cases by the address of their     *)
(* channel with a heap sort, locks each channel once in that order and      *)
(* releases them in reverse.  Channel takes the whole of a pass as one step *)
(* on the strength of what is shown here.                                   *)
(*                                                                         *)
(* An address is a number.  pollorder is any permutation of the cases, as   *)
(* the random numbers of tzr_select make it.                                *)
(***************************************************************************)
EXTENDS Naturals, FiniteSets, Sequences

CONSTANTS
  Selects,   \* who runs a select
  Cases,     \* [Selects -> Nat]: how many cases each has
  Chans,     \* the addresses of the channels
  None

VARIABLES
  chans,      \* cases[i].c of each select, i from 0
  lockorder,  \* the sorted cases
  at, next,   \* of each select: where it is, and the index of the loop
  holder      \* who has the lock of each channel

vars == <<chans, lockorder, at, next, holder>>

-----------------------------------------------------------------------------
(* The heap sort, on arrays from 0 with the channels `ch` as the keys.      *)

\* The case k goes up from place j.
RECURSIVE Up(_, _, _, _)
Up(ch, a, j, k) ==
  LET parent == (j - 1) \div 2
  IN IF j > 0 /\ ch[a[parent]] < ch[k] THEN Up(ch, [a EXCEPT ![j] = a[parent]], parent, k)
     ELSE [a EXCEPT ![j] = k]

\* The case k goes down from place j in the heap of the first i.
RECURSIVE Down(_, _, _, _, _)
Down(ch, a, j, k, i) ==
  LET left == 2 * j + 1
      child == IF left + 1 < i /\ ch[a[left]] < ch[a[left + 1]] THEN left + 1 ELSE left
  IN IF left >= i \/ (left < i /\ ch[k] >= ch[a[child]]) THEN [a EXCEPT ![j] = k]
     ELSE Down(ch, [a EXCEPT ![j] = a[child]], child, k, i)

RECURSIVE Build(_, _, _, _)
Build(ch, poll, a, i) ==
  IF i = Len(poll) THEN a ELSE Build(ch, poll, Up(ch, a, i, poll[i + 1]), i + 1)

RECURSIVE Drain(_, _, _)
Drain(ch, a, i) ==
  IF i = 0 THEN a ELSE Drain(ch, Down(ch, [a EXCEPT ![i] = a[0]], 0, a[i], i), i - 1)

\* The last place of the heap left out.
OrderShort(ch, poll) ==
  LET n == Len(poll) IN Drain(ch, Build(ch, poll, [i \in 0..n - 1 |-> 0], 0), n - 2)

Order(ch, poll) ==
  LET n == Len(poll) IN Drain(ch, Build(ch, poll, [i \in 0..n - 1 |-> 0], 0), n - 1)

-----------------------------------------------------------------------------

Permutations0(n) ==
  {q \in [1..n -> 0..n - 1] : Cardinality({q[i] : i \in 1..n}) = n}

Init ==
  /\ chans = [p \in Selects |-> <<>>]
  /\ lockorder = [p \in Selects |-> <<>>]
  /\ at = [p \in Selects |-> "out"]
  /\ next = [p \in Selects |-> 0]
  /\ holder = [c \in Chans |-> None]

\* tzr_select up to its locks.
Begin(p) ==
  /\ at[p] = "out"
  /\ \E ch \in [0..Cases[p] - 1 -> Chans], poll \in Permutations0(Cases[p]) :
       /\ chans' = [chans EXCEPT ![p] = ch]
       /\ lockorder' = [lockorder EXCEPT ![p] = Order(ch, poll)]
  /\ at' = [at EXCEPT ![p] = "lock"]
  /\ next' = [next EXCEPT ![p] = 0]
  /\ UNCHANGED holder

At(p, i) == chans[p][lockorder[p][i]]
Last(p) == Cases[p] - 1

\* A lock taken for every case.
FirstAlways(p) == TRUE

\* The case that p comes to is the first of its channel.
First(p) == next[p] = 0 \/ At(p, next[p]) # At(p, next[p] - 1)

\* tzr_sellock: one lock for the cases of a channel, which are next to each other.
Lock(p) ==
  /\ at[p] = "lock"
  /\ LET i == next[p]
     IN /\ First(p) => holder[At(p, i)] = None
        /\ holder' = IF First(p) THEN [holder EXCEPT ![At(p, i)] = p] ELSE holder
        /\ IF i = Last(p) THEN at' = [at EXCEPT ![p] = "in"] /\ UNCHANGED next
                          ELSE next' = [next EXCEPT ![p] = @ + 1] /\ UNCHANGED at
  /\ UNCHANGED <<chans, lockorder>>

\* The passes of tzr_select.
Leave(p) ==
  /\ at[p] = "in"
  /\ at' = [at EXCEPT ![p] = "unlock"]
  /\ next' = [next EXCEPT ![p] = Last(p)]
  /\ UNCHANGED <<chans, lockorder, holder>>

\* tzr_selunlock: in reverse, and once per channel when `once`.
UnlockWith(p, once) ==
  /\ at[p] = "unlock"
  /\ LET i == next[p]
         again == once /\ i > 0 /\ At(p, i - 1) = At(p, i)
     IN /\ holder' = IF again THEN holder ELSE [holder EXCEPT ![At(p, i)] = None]
        /\ IF i = 0 THEN /\ at' = [at EXCEPT ![p] = "out"]
                         /\ chans' = [chans EXCEPT ![p] = <<>>]
                         /\ lockorder' = [lockorder EXCEPT ![p] = <<>>]
                         /\ UNCHANGED next
                    ELSE /\ next' = [next EXCEPT ![p] = @ - 1]
                         /\ UNCHANGED <<at, chans, lockorder>>

\* A release for every case.
UnlockTwice(p) == UnlockWith(p, FALSE)
Unlock(p) == UnlockWith(p, TRUE)

Next == \E p \in Selects : Begin(p) \/ Lock(p) \/ Leave(p) \/ Unlock(p)

Spec == Init /\ [][Next]_vars

-----------------------------------------------------------------------------

TypeOK ==
  /\ at \in [Selects -> {"out", "lock", "in", "unlock"}]
  /\ \A p \in Selects : next[p] \in 0..Last(p)
  /\ holder \in [Chans -> Selects \union {None}]

\* The lock that p waits for, if it waits.
Waits(p, q) ==
  /\ at[p] = "lock"
  /\ First(p)
  /\ holder[At(p, next[p])] = q

\* No set of selects waits only for one another, and none for itself: with the cases of each
\* sorted by address, whoever has the highest lock goes on (tzr_select, tzr_sellock).
NoCircularWait ==
  \A set \in SUBSET Selects \ {{}} : \E p \in set : \A q \in set : ~Waits(p, q)

\* The passes of a select run with the locks of all its channels: none was given back by another
\* select, or by its own second release (tzr_selunlock).
HoldsWhatItUses ==
  \A p \in Selects : at[p] = "in" => \A i \in 0..Last(p) : holder[chans[p][i]] = p

\* The heap sort orders the cases and loses none.
SortIsRight ==
  \A p \in Selects : at[p] # "out" =>
    /\ {lockorder[p][i] : i \in 0..Last(p)} = 0..Last(p)
    /\ \A i \in 1..Last(p) : At(p, i - 1) <= At(p, i)
=============================================================================
