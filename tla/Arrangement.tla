------------------------------ MODULE Arrangement ------------------------------
(***************************************************************************)
(* What retain, filter and a stable sort do to a vector, as functions of   *)
(* positions: the members of a finite set are put in the order of a        *)
(* strict total order on them, the n-th being the one with n - 1 before it.*)
(***************************************************************************)
EXTENDS Naturals, Sequences, FiniteSets

Preceding(i, I, Order) == {j \in I : <<j, i>> \in Order}

Arranged(I, Order) ==
  [n \in 1 .. Cardinality(I) |-> CHOOSE i \in I : Cardinality(Preceding(i, I, Order)) = n - 1]

Ascending(I) == {p \in I \X I : p[1] < p[2]}

(* The entries of s at the positions of I, in that order. *)
Picked(s, I, Order) ==
  LET at == Arranged(I, Order) IN [n \in 1 .. Cardinality(I) |-> s[at[n]]]

(* Vec::retain, Array.filter: the entries at the positions I, in their order. *)
Keep(s, I) == Picked(s, I, Ascending(I))

(* A stable sort: entries that Less does not tell apart stay in their order. *)
StableOrder(s, Less(_, _)) ==
  {p \in (DOMAIN s) \X (DOMAIN s) :
     \/ Less(s[p[1]], s[p[2]])
     \/ ~Less(s[p[2]], s[p[1]]) /\ p[1] < p[2]}
Sort(s, Less(_, _)) == Picked(s, DOMAIN s, StableOrder(s, Less))
===============================================================================
