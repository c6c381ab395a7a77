------------------------------ MODULE SharedLemmas ------------------------------
(* What several proofs rest on: induction over the naturals, stated for sets so
   that a prover can use it, and the arrangements of module Arrangement, for
   sequences of any length. *)
EXTENDS Arrangement, FiniteSetTheorems, FunctionTheorems, SequenceTheorems, TLAPS

(* Every set of naturals has a least member, and a bounded one a greatest. *)
LEMMA Least ==
  ASSUME NEW T \in SUBSET Nat, T # {}
  PROVE  \E m \in T : \A n \in T : m <= n
<1> DEFINE R == OpToRel(<, Nat)
<1>1. IsWellFoundedOn(R, Nat)
  BY NatLessThanWellFounded
<1>2. \A m, n \in Nat : <<m, n>> \in R <=> m < n
  BY DEF OpToRel
<1> HIDE DEF R
<1>3. PICK m \in T : \A n \in T : ~ (<<n, m>> \in R)
  BY <1>1, WFMin
<1>4. \A n \in T : ~ (n < m)
  BY <1>2, <1>3
<1> QED
  BY <1>4

LEMMA Greatest ==
  ASSUME NEW T \in SUBSET Nat, T # {}, NEW b \in Nat, \A n \in T : n <= b
  PROVE  \E m \in T : \A n \in T : n <= m
<1> DEFINE U == {i \in Nat : b - i \in T}
<1>1. U \in SUBSET Nat /\ U # {}
  <2>1. PICK n \in T : TRUE
    OBVIOUS
  <2>2. b - n \in Nat /\ b - (b - n) = n
    BY <2>1
  <2> QED
    BY <2>2
<1> HIDE DEF U
<1>2. PICK i \in U : \A j \in U : i <= j
  BY <1>1, Least
<1>3. b - i \in T /\ i \in Nat
  BY DEF U
<1>4. ASSUME NEW n \in T PROVE n <= b - i
  <2>1. b - n \in Nat /\ b - (b - n) \in T
    OBVIOUS
  <2>2. b - n \in U
    BY <2>1 DEF U
  <2> QED
    BY <1>2, <1>3, <2>1, <2>2
<1> QED
  BY <1>3, <1>4

LEMMA Induction ==
  ASSUME NEW S, 0 \in S, \A n \in Nat : n \in S => n + 1 \in S
  PROVE  Nat \subseteq S
<1> SUFFICES ASSUME Nat \ S # {} PROVE FALSE
  OBVIOUS
<1>1. PICK m \in Nat \ S : \A n \in Nat \ S : m <= n
  BY Least
<1>2. m - 1 \in Nat /\ m - 1 \in S
  BY <1>1
<1> QED
  BY <1>1, <1>2

(* What is computed step by step exists: the values of a recursive function on
   0 .. N, each computed from the one before it. *)
Iterated(f, S, N, a, step) ==
  /\ f \in [0 .. N -> S] /\ f[0] = a
  /\ \A n \in 1 .. N : f[n] = step[<<n, f[n - 1]>>]

LEMMA Iterates ==
  ASSUME NEW S, NEW N \in Nat, NEW a \in S, NEW step \in [(1 .. N) \X S -> S]
  PROVE  \E f : Iterated(f, S, N, a, step)
<1> DEFINE Good(f, m) == /\ f \in [0 .. m -> S] /\ f[0] = a
                         /\ \A n \in 1 .. m : f[n] = step[<<n, f[n - 1]>>]
           T == {m \in Nat : m <= N => \E f : Good(f, m)}
<1>1. 0 \in T
  <2>1. Good([n \in 0 .. 0 |-> a], 0)
    OBVIOUS
  <2> QED
    BY <2>1
<1>2. ASSUME NEW m \in Nat, m \in T PROVE m + 1 \in T
  <2> SUFFICES ASSUME m + 1 <= N PROVE \E f : Good(f, m + 1)
    OBVIOUS
  <2>1. PICK f : Good(f, m)
    BY <1>2
  <2> DEFINE next == step[<<m + 1, f[m]>>]
             g == [n \in 0 .. m + 1 |-> IF n = m + 1 THEN next ELSE f[n]]
  <2>2. next \in S
    <3>1. f[m] \in S /\ m + 1 \in 1 .. N
      BY <2>1
    <3> QED
      BY <3>1
  <2>3. g[m + 1] = next /\ \A n \in 0 .. m : g[n] = f[n]
    OBVIOUS
  <2>4. g \in [0 .. m + 1 -> S]
    BY <2>1, <2>2
  <2>5. \A n \in 1 .. m : f[n] = step[<<n, f[n - 1]>>] /\ n \in 0 .. m /\ n - 1 \in 0 .. m
    BY <2>1
  <2>6. f[0] = a /\ 0 \in 0 .. m /\ m \in 0 .. m
    BY <2>1
  <2> HIDE DEF g
  <2>7. g[0] = a
    BY <2>3, <2>6
  <2>8. ASSUME NEW n \in 1 .. m + 1 PROVE g[n] = step[<<n, g[n - 1]>>]
    <3>1. CASE n = m + 1
      <4>1. n - 1 = m
        BY <3>1
      <4> QED
        BY <2>3, <2>6, <3>1, <4>1
    <3>2. CASE n \in 1 .. m
      BY <2>3, <2>5, <3>2
    <3> QED
      BY <3>1, <3>2
  <2>9. Good(g, m + 1)
    BY <2>4, <2>7, <2>8
  <2> HIDE DEF Good
  <2> QED
    BY <2>9
<1> HIDE DEF Good
<1>3. Nat \subseteq T
  BY <1>1, <1>2, Induction
<1>4. PICK f : Good(f, N)
  BY <1>3
<1>5. Iterated(f, S, N, a, step)
  BY <1>4 DEF Good, Iterated
<1> QED
  BY <1>5

(* A function on 1 .. n is a sequence of length n. *)
LEMMA FunctionIsSequence ==
  ASSUME NEW n \in Nat, NEW f, f = [i \in 1 .. n |-> f[i]]
  PROVE  f \in Seq({f[i] : i \in 1 .. n}) /\ Len(f) = n /\ DOMAIN f = 1 .. n
<1>1. f \in [1 .. n -> {f[i] : i \in 1 .. n}]
  OBVIOUS
<1>2. f \in Seq({f[i] : i \in 1 .. n})
  BY <1>1, SeqDef
<1> QED
  BY <1>1, <1>2, LenProperties

-------------------------------------------------------------------------------
(* A strict total order. *)
Orders(Order, I) ==
  /\ \A i \in I : <<i, i>> \notin Order
  /\ \A i, j, k \in I : <<i, j>> \in Order /\ <<j, k>> \in Order => <<i, k>> \in Order
  /\ \A i, j \in I : i = j \/ <<i, j>> \in Order \/ <<j, i>> \in Order

(* pos lists the members of I, each once, in the order. *)
Lists(pos, I, Order) ==
  /\ pos \in [1 .. Cardinality(I) -> I]
  /\ \A i \in I : \E n \in 1 .. Cardinality(I) : pos[n] = i
  /\ \A m, n \in 1 .. Cardinality(I) : m < n <=> <<pos[m], pos[n]>> \in Order

(* Whatever the order, an arrangement lists the set. *)
LEMMA ArrangedLists ==
  ASSUME NEW I, IsFiniteSet(I), NEW Order, Orders(Order, I)
  PROVE  /\ Cardinality(I) \in Nat
         /\ Lists(Arranged(I, Order), I, Order)
<1> DEFINE c == Cardinality(I)
           B(i) == Preceding(i, I, Order)
           rank == [i \in I |-> Cardinality(B(i)) + 1]
           pos == Arranged(I, Order)
<1>1. c \in Nat
  BY FS_CardinalityType
<1>2. ASSUME NEW i \in I
      PROVE  /\ IsFiniteSet(B(i)) /\ Cardinality(B(i)) \in Nat
             /\ IsFiniteSet(B(i) \cup {i}) /\ Cardinality(B(i) \cup {i}) = Cardinality(B(i)) + 1
             /\ rank[i] \in 1 .. c
  <2>1. B(i) \subseteq I /\ i \notin B(i) /\ B(i) \cup {i} \subseteq I
    BY DEF Orders, Preceding
  <2> HIDE DEF B
  <2>2. IsFiniteSet(B(i)) /\ Cardinality(B(i)) \in Nat
    BY <2>1, FS_Subset, FS_CardinalityType
  <2>3. IsFiniteSet(B(i) \cup {i}) /\ Cardinality(B(i) \cup {i}) = Cardinality(B(i)) + 1
    BY <2>1, <2>2, FS_AddElement
  <2>4. Cardinality(B(i) \cup {i}) <= c
    BY <2>1, FS_Subset
  <2> QED
    BY <1>1, <2>2, <2>3, <2>4
<1>3. ASSUME NEW i \in I, NEW j \in I, <<i, j>> \in Order
      PROVE  rank[i] < rank[j]
  <2>1. B(i) \cup {i} \subseteq B(j)
    BY <1>3 DEF Orders, Preceding
  <2>2. Cardinality(B(i) \cup {i}) <= Cardinality(B(j))
    <3> HIDE DEF B
    <3> QED BY <1>2, <2>1, FS_Subset
  <2> HIDE DEF B
  <2>3. /\ Cardinality(B(i)) \in Nat /\ Cardinality(B(j)) \in Nat
        /\ Cardinality(B(i)) + 1 <= Cardinality(B(j))
    BY <1>2, <2>2
  <2>4. rank[i] = Cardinality(B(i)) + 1 /\ rank[j] = Cardinality(B(j)) + 1
    OBVIOUS
  <2> HIDE DEF rank
  <2> QED
    BY <2>3, <2>4
<1> HIDE DEF rank
<1>4. rank \in [I -> 1 .. c]
  BY <1>2 DEF rank
<1>5. \A i, j \in I : rank[i] = rank[j] => i = j
  <2> SUFFICES ASSUME NEW i \in I, NEW j \in I, rank[i] = rank[j], i # j PROVE FALSE
    OBVIOUS
  <2>1. rank[i] \in Nat /\ rank[j] \in Nat
    BY <1>1, <1>4
  <2>2. rank[i] < rank[j] \/ rank[j] < rank[i]
    BY <1>3 DEF Orders
  <2> QED
    BY <2>1, <2>2
<1>6. \A n \in 1 .. c : \E i \in I : rank[i] = n
  <2>1. rank \in Injection(I, 1 .. c)
    BY <1>4, <1>5, Fun_IsInj
  <2>2. IsFiniteSet(1 .. c) /\ Cardinality(1 .. c) = c
    BY <1>1, FS_Interval
  <2>3. rank \in Surjection(I, 1 .. c)
    BY <2>1, <2>2, FS_Injection
  <2> QED
    BY <2>3 DEF Surjection
<1>7. \A n \in 1 .. c : pos[n] \in I /\ rank[pos[n]] = n
  <2> SUFFICES ASSUME NEW n \in 1 .. c PROVE pos[n] \in I /\ rank[pos[n]] = n
    OBVIOUS
  <2>1. pos[n] = CHOOSE i \in I : Cardinality(B(i)) = n - 1
    BY DEF Arranged
  <2>2. PICK i \in I : rank[i] = n
    BY <1>6
  <2>3. \A j \in I : rank[j] = Cardinality(B(j)) + 1 /\ Cardinality(B(j)) \in Nat
    BY <1>2 DEF rank
  <2>4. Cardinality(B(i)) = n - 1
    BY <1>1, <2>2, <2>3
  <2> HIDE DEF B
  <2>5. pos[n] \in I /\ Cardinality(B(pos[n])) = n - 1
    BY <2>1, <2>4
  <2> QED
    BY <1>1, <2>3, <2>5
<1>8. pos \in [1 .. c -> I]
  BY <1>7 DEF Arranged
<1>9. \A i \in I : rank[i] \in 1 .. c /\ pos[rank[i]] = i
  BY <1>4, <1>5, <1>7
<1> HIDE DEF pos
<1>10. ASSUME NEW m \in 1 .. c, NEW n \in 1 .. c
       PROVE  m < n <=> <<pos[m], pos[n]>> \in Order
  <2>1. pos[m] \in I /\ pos[n] \in I /\ rank[pos[m]] = m /\ rank[pos[n]] = n
    BY <1>7
  <2>2. <<pos[m], pos[n]>> \in Order => m < n
    BY <1>3, <2>1
  <2>3. <<pos[n], pos[m]>> \in Order => n < m
    BY <1>3, <2>1
  <2>4. pos[m] = pos[n] => m = n
    BY <2>1
  <2>5. pos[m] = pos[n] \/ <<pos[m], pos[n]>> \in Order \/ <<pos[n], pos[m]>> \in Order
    BY <2>1 DEF Orders
  <2> QED
    BY <1>1, <2>2, <2>3, <2>4, <2>5
<1>11. Lists(pos, I, Order)
  BY <1>8, <1>9, <1>10 DEF Lists
<1> QED
  BY <1>1, <1>11 DEF pos

(* What is picked from a sequence, in any order. *)
LEMMA PickedIs ==
  ASSUME NEW S, NEW s \in Seq(S), NEW I \in SUBSET DOMAIN s, NEW Order, Orders(Order, I)
  PROVE  /\ IsFiniteSet(I) /\ Cardinality(I) \in Nat
         /\ I = DOMAIN s => Cardinality(I) = Len(s)
         /\ Picked(s, I, Order) \in Seq(S)
         /\ Len(Picked(s, I, Order)) = Cardinality(I)
         /\ \E pos \in [1 .. Cardinality(I) -> I] :
              /\ Lists(pos, I, Order)
              /\ \A n \in 1 .. Cardinality(I) : Picked(s, I, Order)[n] = s[pos[n]]
<1> DEFINE c == Cardinality(I)
           pos == Arranged(I, Order)
           t == Picked(s, I, Order)
<1>1. Len(s) \in Nat /\ DOMAIN s = 1 .. Len(s) /\ \A i \in DOMAIN s : s[i] \in S
  BY LenProperties, ElementOfSeq
<1>2. IsFiniteSet(DOMAIN s) /\ Cardinality(DOMAIN s) = Len(s)
  <2>1. /\ IsFiniteSet(1 .. Len(s))
        /\ Cardinality(1 .. Len(s)) = IF 1 > Len(s) THEN 0 ELSE Len(s) - 1 + 1
    BY <1>1, FS_Interval
  <2> QED
    BY <1>1, <2>1
<1>3. IsFiniteSet(I)
  BY <1>2, FS_Subset
<1>4. c \in Nat /\ Lists(pos, I, Order)
  BY <1>3, ArrangedLists
<1>5. pos \in [1 .. c -> I]
  BY <1>4 DEF Lists
<1>6. t = [n \in 1 .. c |-> s[pos[n]]]
  BY DEF Picked
<1> HIDE DEF pos, t, c
<1>7. t \in [1 .. c -> S]
  BY <1>1, <1>5, <1>6
<1>8. t \in Seq(S) /\ Len(t) = c
  BY <1>4, <1>7, SeqDef, LenProperties
<1> QED
  BY <1>2, <1>3, <1>4, <1>5, <1>6, <1>8 DEF t, c

(* There is one way to list a finite set in an order. *)
LEMMA ListsUnique ==
  ASSUME NEW I, IsFiniteSet(I), NEW Order, Orders(Order, I),
         NEW p, Lists(p, I, Order), NEW q, Lists(q, I, Order)
  PROVE  p = q
<1> DEFINE c == Cardinality(I)
           T == {n \in 1 .. c : p[n] # q[n]}
<1>1. c \in Nat
  BY FS_CardinalityType
<1>2. p \in [1 .. c -> I] /\ q \in [1 .. c -> I]
  BY DEF Lists
<1>3. /\ \A i \in I : \E n \in 1 .. c : p[n] = i
      /\ \A i \in I : \E n \in 1 .. c : q[n] = i
      /\ \A m, n \in 1 .. c : m < n <=> <<p[m], p[n]>> \in Order
      /\ \A m, n \in 1 .. c : m < n <=> <<q[m], q[n]>> \in Order
  BY DEF Lists
<1>4. \A i, j \in I : ~(<<i, j>> \in Order /\ <<j, i>> \in Order)
  BY DEF Orders
<1> HIDE DEF c
<1>5. ASSUME T # {} PROVE FALSE
  <2>1. T \in SUBSET Nat
    BY <1>1
  <2>2. PICK n \in T : \A m \in T : n <= m
    BY <1>5, <2>1, Least
  <2>3. n \in 1 .. c /\ p[n] # q[n] /\ p[n] \in I /\ q[n] \in I
    BY <1>2
  <2>4. \A m \in 1 .. c : m < n => p[m] = q[m]
    BY <1>1, <2>2, <2>3
  <2>5. PICK m \in 1 .. c : p[m] = q[n]
    BY <1>3, <2>3
  <2>6. PICK k \in 1 .. c : q[k] = p[n]
    BY <1>3, <2>3
  <2>7. ~(m < n)
    BY <1>1, <1>3, <2>3, <2>4, <2>5
  <2>8. ~(k < n)
    BY <1>1, <1>3, <2>3, <2>4, <2>6
  <2>9. m # n /\ k # n
    BY <2>3, <2>5, <2>6
  <2>10. n < m /\ n < k
    BY <1>1, <2>3, <2>7, <2>8, <2>9
  <2>11. <<p[n], p[m]>> \in Order /\ <<q[n], q[k]>> \in Order
    BY <1>3, <2>3, <2>10
  <2> QED
    BY <1>4, <2>3, <2>5, <2>6, <2>11
<1>6. \A n \in 1 .. c : p[n] = q[n]
  BY <1>5
<1>7. p = [n \in 1 .. c |-> p[n]] /\ q = [n \in 1 .. c |-> q[n]]
  BY <1>2
<1> QED
  BY <1>6, <1>7

(* A sequence without repetitions, sorted, is the set of its entries in order. *)
LEMMA SortedIsArranged ==
  ASSUME NEW S, NEW s \in Seq(S), \A i, j \in DOMAIN s : s[i] = s[j] => i = j,
         NEW Order, Orders(Order, {s[i] : i \in DOMAIN s}),
         NEW SO, \A i, j \in DOMAIN s : <<i, j>> \in SO <=> <<s[i], s[j]>> \in Order
  PROVE  /\ IsFiniteSet({s[i] : i \in DOMAIN s})
         /\ Cardinality({s[i] : i \in DOMAIN s}) = Len(s)
         /\ Picked(s, DOMAIN s, SO) = Arranged({s[i] : i \in DOMAIN s}, Order)
<1> DEFINE c == Len(s)
           R == {s[i] : i \in DOMAIN s}
           t == Picked(s, DOMAIN s, SO)
<1>1. c \in Nat /\ DOMAIN s = 1 .. c /\ s \in [1 .. c -> R]
  BY LenProperties
<1>2. Orders(SO, DOMAIN s)
  <2>1. \A i \in DOMAIN s : <<i, i>> \notin SO
    BY DEF Orders
  <2>2. ASSUME NEW i \in DOMAIN s, NEW j \in DOMAIN s, NEW k \in DOMAIN s,
               <<i, j>> \in SO, <<j, k>> \in SO
        PROVE  <<i, k>> \in SO
    <3>1. s[i] \in R /\ s[j] \in R /\ s[k] \in R
      OBVIOUS
    <3> QED
      BY <2>2, <3>1 DEF Orders
  <2>3. ASSUME NEW i \in DOMAIN s, NEW j \in DOMAIN s
        PROVE  i = j \/ <<i, j>> \in SO \/ <<j, i>> \in SO
    <3>1. s[i] \in R /\ s[j] \in R
      OBVIOUS
    <3> QED
      BY <3>1 DEF Orders
  <2> QED
    BY <2>1, <2>2, <2>3 DEF Orders
<1>3. Cardinality(DOMAIN s) = c /\ IsFiniteSet(DOMAIN s)
  BY <1>2, PickedIs
<1>4. PICK pos \in [1 .. c -> DOMAIN s] :
        Lists(pos, DOMAIN s, SO) /\ \A n \in 1 .. c : t[n] = s[pos[n]]
  BY <1>2, <1>3, PickedIs
<1>5. t \in Seq(S) /\ Len(t) = c
  BY <1>2, <1>3, PickedIs
<1>6. DOMAIN t = 1 .. c /\ t = [n \in 1 .. c |-> t[n]]
  BY <1>1, <1>5, LenProperties
<1>7. IsFiniteSet(R) /\ Cardinality(R) = c
  <2>1. s \in Bijection(1 .. c, R)
    <3>1. s \in Injection(1 .. c, R)
      BY <1>1, Fun_IsInj
    <3>2. s \in Surjection(1 .. c, R)
      BY <1>1 DEF Surjection
    <3> QED
      BY <3>1, <3>2 DEF Bijection
  <2> QED
    BY <1>1, <1>3, <2>1, FS_Bijection DEF ExistsBijection
<1>8. Lists(t, R, Order)
  <2>1. t \in [1 .. c -> R]
    BY <1>4, <1>6
  <2>2. ASSUME NEW r \in R PROVE \E n \in 1 .. c : t[n] = r
    <3>1. PICK i \in DOMAIN s : s[i] = r
      OBVIOUS
    <3>2. PICK n \in 1 .. c : pos[n] = i
      BY <1>3, <1>4 DEF Lists
    <3> QED
      BY <1>4, <3>1, <3>2
  <2>3. ASSUME NEW m \in 1 .. c, NEW n \in 1 .. c
        PROVE  m < n <=> <<t[m], t[n]>> \in Order
    <3>1. pos[m] \in DOMAIN s /\ pos[n] \in DOMAIN s
      BY <1>4
    <3>2. m < n <=> <<pos[m], pos[n]>> \in SO
      BY <1>3, <1>4 DEF Lists
    <3> QED
      BY <1>4, <3>1, <3>2
  <2> HIDE DEF t, R
  <2> QED
    BY <1>7, <2>1, <2>2, <2>3 DEF Lists
<1>9. Lists(Arranged(R, Order), R, Order)
  BY <1>7, ArrangedLists
<1> HIDE DEF t, R
<1>10. Orders(Order, R)
  BY DEF R
<1>11. t = Arranged(R, Order)
  BY <1>7, <1>8, <1>9, <1>10, ListsUnique
<1> QED
  BY <1>7, <1>11 DEF t, R

LEMMA AscendingOrders == ASSUME NEW I \in SUBSET Nat PROVE Orders(Ascending(I), I)
  BY DEF Orders, Ascending

(* What retain and filter leave: pos lists the positions that are kept. *)
KeepsAt(pos, s, I) ==
  /\ pos \in [1 .. Cardinality(I) -> I]
  /\ \A n \in 1 .. Cardinality(I) : Keep(s, I)[n] = s[pos[n]]
  /\ \A i \in I : \E n \in 1 .. Cardinality(I) : pos[n] = i
  /\ \A m, n \in 1 .. Cardinality(I) : m < n <=> pos[m] < pos[n]

LEMMA KeepIs ==
  ASSUME NEW S, NEW s \in Seq(S), NEW I \in SUBSET DOMAIN s
  PROVE  /\ IsFiniteSet(I) /\ Cardinality(I) \in Nat
         /\ Keep(s, I) \in Seq(S)
         /\ Len(Keep(s, I)) = Cardinality(I)
         /\ \E pos : KeepsAt(pos, s, I)
<1>1. I \subseteq Nat
  BY LenProperties
<1>2. Orders(Ascending(I), I)
  BY <1>1, AscendingOrders
<1>3. /\ IsFiniteSet(I) /\ Cardinality(I) \in Nat
      /\ Keep(s, I) \in Seq(S)
      /\ Len(Keep(s, I)) = Cardinality(I)
  BY <1>2, PickedIs DEF Keep
<1>4. PICK pos \in [1 .. Cardinality(I) -> I] :
        /\ Lists(pos, I, Ascending(I))
        /\ \A n \in 1 .. Cardinality(I) : Keep(s, I)[n] = s[pos[n]]
  BY <1>2, PickedIs DEF Keep
<1>5. \A m, n \in 1 .. Cardinality(I) : m < n <=> pos[m] < pos[n]
  BY <1>4 DEF Lists, Ascending
<1>6. \A i \in I : \E n \in 1 .. Cardinality(I) : pos[n] = i
  BY <1>4 DEF Lists
<1>7. KeepsAt(pos, s, I)
  BY <1>4, <1>5, <1>6 DEF KeepsAt
<1> QED
  BY <1>3, <1>7

(* The same, entry by entry. *)
LEMMA KeepEntries ==
  ASSUME NEW S, NEW s \in Seq(S), NEW I \in SUBSET DOMAIN s
  PROVE  /\ Keep(s, I) \in Seq(S)
         /\ Len(Keep(s, I)) = Cardinality(I) /\ Cardinality(I) \in Nat /\ IsFiniteSet(I)
         /\ DOMAIN Keep(s, I) = 1 .. Cardinality(I)
         /\ \A n \in 1 .. Cardinality(I) : \E i \in I : Keep(s, I)[n] = s[i]
         /\ \A i \in I : \E n \in 1 .. Cardinality(I) : Keep(s, I)[n] = s[i]
         /\ \A m, n \in 1 .. Cardinality(I) :
              m < n => \E i, j \in I : i < j /\ Keep(s, I)[m] = s[i] /\ Keep(s, I)[n] = s[j]
<1> DEFINE t == Keep(s, I)
           c == Cardinality(I)
<1>1. IsFiniteSet(I) /\ c \in Nat /\ t \in Seq(S) /\ Len(t) = c
  BY KeepIs
<1>2. DOMAIN t = 1 .. c
  BY <1>1, LenProperties
<1>3. PICK pos : KeepsAt(pos, s, I)
  BY KeepIs
<1>4. /\ \A n \in 1 .. c : t[n] = s[pos[n]] /\ pos[n] \in I
      /\ \A i \in I : \E n \in 1 .. c : pos[n] = i
      /\ \A m, n \in 1 .. c : m < n => pos[m] < pos[n]
  BY <1>3 DEF KeepsAt
<1> HIDE DEF t, c
<1>5. \A n \in 1 .. c : \E i \in I : t[n] = s[i]
  BY <1>4
<1>6. \A i \in I : \E n \in 1 .. c : t[n] = s[i]
  BY <1>4
<1>7. \A m, n \in 1 .. c : m < n => \E i, j \in I : i < j /\ t[m] = s[i] /\ t[n] = s[j]
  BY <1>4
<1> QED
  BY <1>1, <1>2, <1>5, <1>6, <1>7 DEF t, c
===============================================================================
