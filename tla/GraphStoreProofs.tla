---- MODULE GraphStoreProofs ----
(***************************************************************************)
(* Proofs about the graph of a repository and the store of a graph, for    *)
(* any repositories, names, paths, scores, limits and radii.               *)
(***************************************************************************)
EXTENDS GraphStore, InductionLemmas

----
(* Sets in order.  In a finite set with a strict total order every place   *)
(* from the first to the last is taken by exactly one element, so that     *)
(* InOrder lists every element, and the lesser before the greater.         *)

\* R orders S strictly and totally.
Orders(R, S) ==
    /\ \A x \in S : <<x, x>> \notin R
    /\ \A x, y, z \in S : <<x, y>> \in R /\ <<y, z>> \in R => <<x, z>> \in R
    /\ \A x, y \in S : x # y => <<x, y>> \in R \/ <<y, x>> \in R

Below(R, S, x) == {y \in S : <<y, x>> \in R}

LEMMA PlacesAreTaken ==
    ASSUME NEW S, IsFiniteSet(S), NEW R, Orders(R, S)
    PROVE  /\ \A x \in S : Cardinality(Below(R, S, x)) \in 0..(Cardinality(S) - 1)
           /\ \A x, y \in S : <<x, y>> \in R <=>
                  Cardinality(Below(R, S, x)) < Cardinality(Below(R, S, y))
           /\ \A i \in 1..Cardinality(S) : \E x \in S : Cardinality(Below(R, S, x)) = i - 1
<1> DEFINE place == [x \in S |-> Cardinality(Below(R, S, x))]
           n == Cardinality(S)
<1>0. n \in Nat
  BY FS_CardinalityType
<1>1. ASSUME NEW x \in S
      PROVE  IsFiniteSet(Below(R, S, x)) /\ place[x] \in Nat /\ place[x] < n
  <2>1. Below(R, S, x) \in SUBSET S /\ Below(R, S, x) # S
    BY DEF Below, Orders
  <2> QED
    BY <2>1, ProperSubset
<1>2. ASSUME NEW x \in S, NEW y \in S, <<x, y>> \in R
      PROVE  place[x] < place[y]
  <2>1. Below(R, S, x) \in SUBSET Below(R, S, y)
    BY <1>2 DEF Below, Orders
  <2>2. Below(R, S, x) # Below(R, S, y)
    BY <1>2 DEF Below, Orders
  <2> QED
    BY <1>1, <2>1, <2>2, ProperSubset
<1>3. ASSUME NEW x \in S, NEW y \in S, x # y
      PROVE  place[x] # place[y]
  <2>1. place[x] \in Nat /\ place[y] \in Nat
    BY <1>1
  <2>2. place[x] < place[y] \/ place[y] < place[x]
    BY <1>2, <1>3 DEF Orders
  <2> HIDE DEF place
  <2> QED
    BY <2>1, <2>2
<1>4. ASSUME NEW x \in S, NEW y \in S, place[x] < place[y]
      PROVE  <<x, y>> \in R
  <2>1. place[x] \in Nat /\ place[y] \in Nat
    BY <1>1
  <2>2. x # y /\ ~(place[y] < place[x])
    <3> HIDE DEF place
    <3> QED
      BY <1>4, <2>1
  <2> QED
    BY <1>2, <2>2 DEF Orders
<1>5. ASSUME NEW i \in 1..n PROVE \E x \in S : place[x] = i - 1
  <2>1. place \in [S -> 0..(n - 1)]
    BY <1>0, <1>1
  <2>2. place \in Injection(S, 0..(n - 1))
    BY <1>3, <2>1, Zenon DEF Injection, IsInjective
  <2>3. IsFiniteSet(0..(n - 1)) /\ Cardinality(0..(n - 1)) = n
    <3>1. 0 \in Int /\ n - 1 \in Int
      BY <1>0
    <3>2. Cardinality(0..(n - 1)) = IF 0 > n - 1 THEN 0 ELSE (n - 1) - 0 + 1
      BY <3>1, FS_Interval
    <3> HIDE DEF n
    <3>3. n = 0 \/ ~(0 > n - 1)
      BY <1>0
    <3> QED
      BY <1>0, <3>1, <3>2, <3>3, FS_Interval
  <2>4. place \in Surjection(S, 0..(n - 1))
    BY <2>2, <2>3, FS_Injection
  <2>5. i - 1 \in 0..(n - 1)
    BY <1>0
  <2> QED
    BY <2>4, <2>5 DEF Surjection
<1> QED
  BY <1>0, <1>1, <1>2, <1>4, <1>5

\* s is the list of S in the order R.
Lists(s, S, R) ==
    /\ s \in [1..Cardinality(S) -> S]
    /\ \A x \in S : \E i \in 1..Cardinality(S) : s[i] = x
    /\ \A i, j \in 1..Cardinality(S) : i < j <=> <<s[i], s[j]>> \in R

LEMMA ListedByPlace ==
    ASSUME NEW S, IsFiniteSet(S), NEW R, Orders(R, S),
           NEW s, s = [i \in 1..Cardinality(S) |-> s[i]],
           \A i \in 1..Cardinality(S) : s[i] \in S /\ Cardinality(Below(R, S, s[i])) = i - 1
    PROVE  Lists(s, S, R)
<1> DEFINE n == Cardinality(S)
<1>0. n \in Nat
  BY FS_CardinalityType
<1>1. s \in [1..n -> S]
  OBVIOUS
<1>2. ASSUME NEW x \in S PROVE \E i \in 1..n : s[i] = x
  <2>1. Cardinality(Below(R, S, x)) \in 0..(n - 1)
    BY PlacesAreTaken
  <2> DEFINE i == Cardinality(Below(R, S, x)) + 1
  <2>2. i \in 1..n /\ i - 1 = Cardinality(Below(R, S, x))
    BY <1>0, <2>1
  <2> HIDE DEF i
  <2>3. s[i] \in S /\ Cardinality(Below(R, S, s[i])) = Cardinality(Below(R, S, x))
    BY <2>2
  <2>4. <<s[i], x>> \notin R /\ <<x, s[i]>> \notin R
    BY <2>1, <2>3, PlacesAreTaken
  <2> QED
    BY <2>2, <2>3, <2>4 DEF Orders
<1>3. ASSUME NEW i \in 1..n, NEW j \in 1..n
      PROVE  i < j <=> <<s[i], s[j]>> \in R
  <2>1. /\ s[i] \in S /\ Cardinality(Below(R, S, s[i])) = i - 1
        /\ s[j] \in S /\ Cardinality(Below(R, S, s[j])) = j - 1
    OBVIOUS
  <2>2. <<s[i], s[j]>> \in R <=> i - 1 < j - 1
    BY <2>1, PlacesAreTaken
  <2> QED
    BY <1>0, <2>2
<1> QED
  BY <1>1, <1>2, <1>3 DEF Lists

----
(* The order of strings.                                                   *)

LEMMA LessThrough ==
    ASSUME NEW a \in Nat, NEW b \in Nat, NEW c \in Nat, a < b, b < c
    PROVE  a < c
OBVIOUS

LEMMA BeforeIrreflexive ==
    ASSUME NEW s \in Seq(Nat)
    PROVE  ~Before(s, s)
  BY DEF Before

LEMMA BeforeTransitive ==
    ASSUME NEW s \in Seq(Nat), NEW t \in Seq(Nat), NEW u \in Seq(Nat),
           Before(s, t), Before(t, u)
    PROVE  Before(s, u)
<1>1. PICK i \in 1..Len(t) : /\ \A k \in 1..(i - 1) : k <= Len(s) /\ s[k] = t[k]
                             /\ (i = Len(s) + 1 \/ (i <= Len(s) /\ s[i] < t[i]))
  BY DEF Before
<1>2. PICK j \in 1..Len(u) : /\ \A k \in 1..(j - 1) : k <= Len(t) /\ t[k] = u[k]
                             /\ (j = Len(t) + 1 \/ (j <= Len(t) /\ t[j] < u[j]))
  BY DEF Before
<1>3. CASE i < j
  <2>1. i \in 1..(j - 1) /\ i \in 1..Len(u) /\ t[i] = u[i]
    BY <1>2, <1>3
  <2>2. \A k \in 1..(i - 1) : k <= Len(s) /\ s[k] = u[k]
    <3>1. \A k \in 1..(i - 1) : k \in 1..(j - 1)
      BY <1>3
    <3> QED
      BY <1>1, <1>2, <3>1
  <2> QED
    BY <1>1, <2>1, <2>2 DEF Before
<1>4. CASE j < i
  <2>1. j \in 1..(i - 1) /\ j <= Len(s) /\ s[j] = t[j] /\ t[j] < u[j]
    BY <1>1, <1>2, <1>4
  <2>2. \A k \in 1..(j - 1) : k <= Len(s) /\ s[k] = u[k]
    BY <1>1, <1>2, <1>4
  <2> QED
    BY <2>1, <2>2 DEF Before
<1>5. CASE i = j
  <2>1. \A k \in 1..(i - 1) : k <= Len(s) /\ s[k] = u[k]
    BY <1>1, <1>2, <1>5
  <2>2. t[i] < u[i] /\ i \in 1..Len(u)
    BY <1>2, <1>5
  <2>3. i = Len(s) + 1 \/ (i <= Len(s) /\ s[i] < u[i])
    <3>1. t[i] \in Nat /\ u[i] \in Nat
      BY <1>2, <1>5
    <3>2. ASSUME i <= Len(s), s[i] < t[i] PROVE s[i] < u[i]
      <4>1. s[i] \in Nat
        BY <3>2
      <4>2. t[i] < u[i] /\ s[i] < t[i]
        BY <2>2, <3>2
      <4> QED
        BY <3>1, <4>1, <4>2, LessThrough
    <3> QED
      BY <1>1, <3>2
  <2> QED
    BY <2>1, <2>2, <2>3 DEF Before
<1> QED
  BY <1>3, <1>4, <1>5

LEMMA BeforeTotal ==
    ASSUME NEW s \in Seq(Nat), NEW t \in Seq(Nat), s # t
    PROVE  Before(s, t) \/ Before(t, s)
<1> DEFINE D == {i \in Nat \ {0} : ~(i <= Len(s) /\ i <= Len(t) /\ s[i] = t[i])}
<1>1. D \in SUBSET Nat /\ D # {}
  <2>1. Len(s) + 1 \in D
    OBVIOUS
  <2> QED
    BY <2>1
<1>2. PICK i \in D : \A k \in D : i <= k
  <2> HIDE DEF D
  <2> QED
    BY <1>1, LeastElement
<1>3. \A k \in 1..(i - 1) : k <= Len(s) /\ k <= Len(t) /\ s[k] = t[k]
  BY <1>2
<1>4. i <= Len(s) + 1 /\ i <= Len(t) + 1
  <2>1. Len(s) + 1 \in D /\ Len(t) + 1 \in D
    OBVIOUS
  <2> QED
    BY <1>2, <2>1
<1>5. CASE i <= Len(s) /\ i <= Len(t)
  <2>1. s[i] \in Nat /\ t[i] \in Nat /\ s[i] # t[i]
    BY <1>2, <1>5
  <2>2. s[i] < t[i] \/ t[i] < s[i]
    BY <2>1
  <2>3. i \in 1..Len(s) /\ i \in 1..Len(t)
    BY <1>5
  <2>4. s[i] < t[i] => Before(s, t)
    BY <1>3, <1>5, <2>3 DEF Before
  <2>5. t[i] < s[i] => Before(t, s)
    BY <1>3, <1>5, <2>3 DEF Before
  <2> QED
    BY <2>2, <2>4, <2>5
<1>6. CASE i = Len(s) + 1 /\ i <= Len(t)
  BY <1>3, <1>6 DEF Before
<1>7. CASE i = Len(t) + 1 /\ i <= Len(s)
  BY <1>3, <1>7 DEF Before
<1>8. CASE i = Len(s) + 1 /\ i = Len(t) + 1
  <2>1. Len(s) = Len(t) /\ \A k \in 1..Len(s) : s[k] = t[k]
    BY <1>3, <1>8
  <2>2. s = [k \in 1..Len(s) |-> s[k]] /\ t = [k \in 1..Len(t) |-> t[k]]
    OBVIOUS
  <2> QED
    BY <2>1, <2>2
<1> QED
  BY <1>4, <1>5, <1>6, <1>7, <1>8

\* Elements with distinct keys, by their keys.
LEMMA KeysOrder ==
    ASSUME NEW S, NEW key, \A x \in S : key[x] \in Seq(Nat),
           \A x, y \in S : key[x] = key[y] => x = y,
           NEW R, \A x, y \in S : <<x, y>> \in R <=> Before(key[x], key[y])
    PROVE  Orders(R, S)
<1>1. \A x \in S : <<x, x>> \notin R
  BY BeforeIrreflexive
<1>2. ASSUME NEW x \in S, NEW y \in S, NEW z \in S, <<x, y>> \in R, <<y, z>> \in R
      PROVE  <<x, z>> \in R
  <2>1. Before(key[x], key[y]) /\ Before(key[y], key[z])
    BY <1>2
  <2>2. Before(key[x], key[z])
    BY <2>1, BeforeTransitive
  <2> QED
    BY <2>2
<1>3. ASSUME NEW x \in S, NEW y \in S, x # y
      PROVE  <<x, y>> \in R \/ <<y, x>> \in R
  BY <1>3, BeforeTotal
<1> QED
  BY <1>1, <1>2, <1>3 DEF Orders

\* The relation an operator is on S is what the lemmas above speak of.
StringOrder(S) == {p \in S \X S : Before(p[1], p[2])}

NumberOrder(S) == {p \in S \X S : p[1] < p[2]}

LEMMA StringsOrdered ==
    ASSUME NEW S \in SUBSET Seq(Nat)
    PROVE  Orders(StringOrder(S), S)
<1> DEFINE key == [x \in S |-> x]
<1>1. \A x \in S : key[x] \in Seq(Nat)
  OBVIOUS
<1>2. \A x, y \in S : key[x] = key[y] => x = y
  OBVIOUS
<1>3. \A x, y \in S : <<x, y>> \in StringOrder(S) <=> Before(key[x], key[y])
  BY DEF StringOrder
<1> HIDE DEF key
<1> QED
  BY <1>1, <1>2, <1>3, KeysOrder

LEMMA SortedLists ==
    ASSUME NEW S \in SUBSET Seq(Nat), IsFiniteSet(S)
    PROVE  Lists(Sorted(S), S, StringOrder(S))
<1> DEFINE R == StringOrder(S)
           n == Cardinality(S)
           s == [i \in 1..n |-> CHOOSE x \in S : Cardinality({y \in S : Before(y, x)}) = i - 1]
<1>1. Orders(R, S)
  BY StringsOrdered
<1>2. ASSUME NEW x \in S PROVE {y \in S : Before(y, x)} = Below(R, S, x)
  BY DEF StringOrder, Below
<1>3. ASSUME NEW i \in 1..n
      PROVE  s[i] \in S /\ Cardinality(Below(R, S, s[i])) = i - 1
  <2>1. PICK x \in S : Cardinality(Below(R, S, x)) = i - 1
    BY <1>1, PlacesAreTaken
  <2>2. Cardinality({y \in S : Before(y, x)}) = i - 1
    BY <1>2, <2>1
  <2>3. s[i] \in S /\ Cardinality({y \in S : Before(y, s[i])}) = i - 1
    BY <2>2
  <2> QED
    BY <1>2, <2>3
<1>4. s = [i \in 1..n |-> s[i]]
  <2> DEFINE nth(i) == CHOOSE x \in S : Cardinality({y \in S : Before(y, x)}) = i - 1
  <2>1. s = [i \in 1..n |-> nth(i)]
    OBVIOUS
  <2> HIDE DEF s, nth
  <2> QED
    BY <2>1
<1>5. Sorted(S) = s
  BY DEF Sorted, InOrder
<1> HIDE DEF s, R
<1> QED
  BY <1>1, <1>3, <1>4, <1>5, ListedByPlace DEF R

LEMMA NumbersListed ==
    ASSUME NEW S \in SUBSET Nat, IsFiniteSet(S)
    PROVE  Lists(InOrder(S, <), S, NumberOrder(S))
<1> DEFINE R == NumberOrder(S)
           n == Cardinality(S)
           s == [i \in 1..n |-> CHOOSE x \in S : Cardinality({y \in S : y < x}) = i - 1]
<1>1. Orders(R, S)
  BY DEF Orders, NumberOrder
<1>2. ASSUME NEW x \in S PROVE {y \in S : y < x} = Below(R, S, x)
  BY DEF NumberOrder, Below
<1>3. ASSUME NEW i \in 1..n
      PROVE  s[i] \in S /\ Cardinality(Below(R, S, s[i])) = i - 1
  <2>1. PICK x \in S : Cardinality(Below(R, S, x)) = i - 1
    BY <1>1, PlacesAreTaken
  <2>2. Cardinality({y \in S : y < x}) = i - 1
    BY <1>2, <2>1
  <2>3. s[i] \in S /\ Cardinality({y \in S : y < s[i]}) = i - 1
    BY <2>2
  <2> QED
    BY <1>2, <2>3
<1>4. s = [i \in 1..n |-> s[i]]
  <2> DEFINE nth(i) == CHOOSE x \in S : Cardinality({y \in S : y < x}) = i - 1
  <2>1. s = [i \in 1..n |-> nth(i)]
    OBVIOUS
  <2> HIDE DEF s, nth
  <2> QED
    BY <2>1
<1>5. InOrder(S, <) = s
  BY DEF InOrder
<1> HIDE DEF s, R
<1> QED
  BY <1>1, <1>3, <1>4, <1>5, ListedByPlace DEF R

----
(* Folds.  FoldLeft is a function on the sets of places, defined by taking *)
(* out the greatest; there is one, and on the first i places it is the     *)
(* result of i steps.                                                      *)

LEMMA GreatestElement ==
    ASSUME NEW n \in Nat, NEW S \in SUBSET (1..n), S # {}
    PROVE  Max(S) \in S /\ \A y \in S : y <= Max(S)
<1> DEFINE D == {n - x : x \in S}
<1>1. D \in SUBSET Nat /\ D # {}
  <2>1. \A x \in S : n - x \in Nat
    OBVIOUS
  <2> QED
    BY <2>1
<1>2. PICK d \in D : \A e \in D : d <= e
  <2> HIDE DEF D
  <2> QED
    BY <1>1, LeastElement
<1>3. PICK x \in S : d = n - x
  OBVIOUS
<1>4. \A y \in S : y <= x
  <2> TAKE y \in S
  <2>1. n - y \in D /\ n - x <= n - y
    BY <1>2, <1>3
  <2> QED
    BY <2>1
<1>5. \E m \in S : \A y \in S : m >= y
  BY <1>4
<1>6. Max(S) \in S /\ \A y \in S : Max(S) >= y
  BY <1>5 DEF Max
<1> QED
  BY <1>6

LEMMA GreatestOfSet ==
    ASSUME NEW n \in Nat, NEW S \in SUBSET (1..n), NEW m \in S, \A y \in S : y <= m
    PROVE  Max(S) = m
<1>1. Max(S) \in S /\ \A y \in S : y <= Max(S)
  <2>1. S # {}
    OBVIOUS
  <2> QED
    BY <2>1, GreatestElement
<1>2. PICK x \in S : x = Max(S) /\ m <= x
  BY <1>1
<1>3. x <= m /\ x \in Nat /\ m \in Nat
  OBVIOUS
<1> QED
  BY <1>2, <1>3

\* h is the fold of op from base along seq.
IsFold(h, A, op, base, seq, n) ==
    /\ h \in [SUBSET (1..n) -> A]
    /\ \A s \in SUBSET (1..n) :
          h[s] = IF s = {} THEN base ELSE op[<<h[s \ {Max(s)}], seq[Max(s)]>>]

LEMMA FoldExists ==
    ASSUME NEW A, NEW X, NEW seq \in Seq(X), NEW base \in A, NEW op \in [A \X X -> A]
    PROVE  \E h : IsFold(h, A, op, base, seq, Len(seq))
<1> DEFINE T == {k \in Nat : k <= Len(seq) => \E h : IsFold(h, A, op, base, seq, k)}
<1>1. 0 \in T
  <2> DEFINE h == [s \in SUBSET (1..0) |-> base]
  <2>1. \A s \in SUBSET (1..0) : s = {}
    OBVIOUS
  <2>2. IsFold(h, A, op, base, seq, 0)
    BY <2>1 DEF IsFold
  <2> QED
    BY <2>2
<1>2. ASSUME NEW k \in Nat, k \in T PROVE k + 1 \in T
  <2>1. SUFFICES ASSUME k + 1 <= Len(seq)
                 PROVE  \E h : IsFold(h, A, op, base, seq, k + 1)
    OBVIOUS
  <2>2. PICK h : IsFold(h, A, op, base, seq, k)
    BY <1>2, <2>1
  <2> DEFINE D == SUBSET (1..(k + 1))
             g == [s \in D |-> IF k + 1 \in s THEN op[<<h[s \ {k + 1}], seq[k + 1]>>] ELSE h[s]]
  <2>3. seq[k + 1] \in X
    BY <2>1
  <2>4. \A s \in D : s \ {k + 1} \in SUBSET (1..k)
    OBVIOUS
  <2>5. \A s \in D : k + 1 \notin s => s \in SUBSET (1..k)
    OBVIOUS
  <2>6. \A s \in SUBSET (1..k) : h[s] \in A
    BY <2>2 DEF IsFold
  <2>7. g \in [D -> A]
    BY <2>3, <2>4, <2>5, <2>6
  <2>8. ASSUME NEW s \in D
        PROVE  g[s] = IF s = {} THEN base ELSE op[<<g[s \ {Max(s)}], seq[Max(s)]>>]
    <3>1. CASE k + 1 \in s
      <4>1. Max(s) = k + 1
        <5>1. k + 1 \in Nat /\ s \in SUBSET (1..(k + 1)) /\ \A y \in s : y <= k + 1
          OBVIOUS
        <5> QED
          BY <3>1, <5>1, GreatestOfSet
      <4>2. s \ {k + 1} \in D /\ k + 1 \notin s \ {k + 1}
        OBVIOUS
      <4>3. g[s \ {k + 1}] = h[s \ {k + 1}]
        BY <4>2
      <4> QED
        BY <3>1, <4>1, <4>3
    <3>2. CASE k + 1 \notin s
      <4>1. s \in SUBSET (1..k) /\ g[s] = h[s]
        BY <2>5, <3>2
      <4>2. s \ {Max(s)} \in SUBSET (1..k) /\ s \ {Max(s)} \in D
        BY <4>1
      <4>3. k + 1 \notin s \ {Max(s)}
        BY <3>2
      <4>4. g[s \ {Max(s)}] = h[s \ {Max(s)}]
        BY <4>2, <4>3
      <4> QED
        BY <2>2, <4>1, <4>4 DEF IsFold
    <3> QED
      BY <3>1, <3>2
  <2> HIDE DEF g
  <2>9. IsFold(g, A, op, base, seq, k + 1)
    BY <2>7, <2>8 DEF IsFold
  <2> QED
    BY <2>9
<1>3. \A n \in Nat : n \in T
  <2> HIDE DEF T
  <2> QED
    BY <1>1, <1>2, SetInduction
<1>4. Len(seq) \in T
  BY <1>3
<1> QED
  BY <1>4

\* The first i steps of a fold are one after another.
LEMMA FoldSteps ==
    ASSUME NEW h, NEW A, NEW op, NEW base, NEW seq, NEW n \in Nat,
           IsFold(h, A, op, base, seq, n)
    PROVE  /\ h[1..0] = base
           /\ \A i \in 1..n : h[1..i] = op[<<h[1..(i - 1)], seq[i]>>]
           /\ \A i \in 0..n : h[1..i] \in A
<1>1. h[1..0] = base
  <2>1. 1..0 = {}
    <3>1. \A x \in 1..0 : FALSE
      OBVIOUS
    <3> QED
      BY <3>1
  <2>2. {} \in SUBSET (1..n)
    OBVIOUS
  <2>3. h[{}] = base
    BY <2>2 DEF IsFold
  <2> QED
    BY <2>1, <2>3
<1>2. ASSUME NEW i \in 1..n PROVE h[1..i] = op[<<h[1..(i - 1)], seq[i]>>]
  <2>1. 1..i \in SUBSET (1..n) /\ 1..i # {} /\ i \in 1..i
    OBVIOUS
  <2>2. Max(1..i) = i
    <3>1. \A y \in 1..i : y <= i
      OBVIOUS
    <3> QED
      BY <2>1, <3>1, GreatestOfSet
  <2>3. (1..i) \ {i} = 1..(i - 1)
    OBVIOUS
  <2> QED
    BY <2>1, <2>2, <2>3 DEF IsFold
<1>3. ASSUME NEW i \in 0..n PROVE h[1..i] \in A
  <2>1. 1..i \in SUBSET (1..n)
    OBVIOUS
  <2> QED
    BY <2>1 DEF IsFold
<1> QED
  BY <1>1, <1>2, <1>3

\* What follows a fold step by step is the fold.
FollowsFold(it, h, op, base, seq, n) ==
    /\ it[{}] = base
    /\ \A s \in SUBSET (1..n) :
          s # {} /\ it[s \ {Max(s)}] = h[s \ {Max(s)}]
             => it[s] = op[<<h[s \ {Max(s)}], seq[Max(s)]>>]

LEMMA FoldAgrees ==
    ASSUME NEW h, NEW A, NEW op, NEW base, NEW seq, NEW n \in Nat,
           IsFold(h, A, op, base, seq, n),
           NEW it, FollowsFold(it, h, op, base, seq, n)
    PROVE  it[1..n] = h[1..n]
<1> USE DEF FollowsFold
<1> DEFINE T == {i \in Nat : i <= n => it[1..i] = h[1..i]}
<1>0. 1..0 = {}
  <2>1. \A x \in 1..0 : FALSE
    OBVIOUS
  <2> QED
    BY <2>1
<1>1. 0 \in T
  BY <1>0, FoldSteps
<1>2. ASSUME NEW i \in Nat, i \in T PROVE i + 1 \in T
  <2>1. SUFFICES ASSUME i + 1 <= n PROVE it[1..(i + 1)] = h[1..(i + 1)]
    OBVIOUS
  <2>2. it[1..i] = h[1..i]
    BY <1>2, <2>1
  <2> DEFINE s == 1..(i + 1)
  <2>3. s \in SUBSET (1..n) /\ s # {} /\ i + 1 \in s /\ \A y \in s : y <= i + 1
    BY <2>1
  <2>4. s \ {i + 1} = 1..i
    OBVIOUS
  <2> HIDE DEF s
  <2>5. Max(s) = i + 1
    BY <2>3, GreatestOfSet
  <2>6. it[s] = op[<<h[1..i], seq[i + 1]>>]
    BY <2>2, <2>3, <2>4, <2>5
  <2>7. h[s] = op[<<h[1..i], seq[i + 1]>>]
    BY <2>3, <2>4, <2>5 DEF IsFold
  <2> QED
    BY <2>6, <2>7 DEF s
<1>3. \A i \in Nat : i \in T
  <2> HIDE DEF T
  <2> QED
    BY <1>1, <1>2, SetInduction
<1> QED
  BY <1>3

LEMMA Flattened ==
    ASSUME NEW X, NEW seqs \in Seq(Seq(X))
    PROVE  \E acc : /\ acc \in [0..Len(seqs) -> Seq(X)]
                    /\ acc[0] = <<>>
                    /\ \A i \in 1..Len(seqs) : acc[i] = acc[i - 1] \o seqs[i]
                    /\ FlattenSeq(seqs) = acc[Len(seqs)]
<1> DEFINE n == Len(seqs)
           A == Seq(X)
           op == [p \in A \X A |-> p[1] \o p[2]]
<1>1. op \in [A \X A -> A]
  OBVIOUS
<1>2. PICK h : IsFold(h, A, op, <<>>, seqs, n)
  <2>1. <<>> \in A
    OBVIOUS
  <2> HIDE DEF op, A
  <2> QED
    BY <1>1, <2>1, FoldExists DEF A
<1> DEFINE acc == [i \in 0..n |-> h[1..i]]
<1>3. /\ h[1..0] = <<>>
      /\ \A i \in 1..n : h[1..i] = op[<<h[1..(i - 1)], seqs[i]>>]
      /\ \A i \in 0..n : h[1..i] \in A
  <2> HIDE DEF op, A
  <2> QED
    BY <1>2, FoldSteps
<1>4. acc[0] = <<>> /\ acc \in [0..n -> A]
  <2> HIDE DEF op, A
  <2> QED
    BY <1>3
<1>5. ASSUME NEW i \in 1..n PROVE acc[i] = acc[i - 1] \o seqs[i]
  <2>1. i - 1 \in 0..n /\ acc[i] = h[1..i] /\ acc[i - 1] = h[1..(i - 1)]
    OBVIOUS
  <2>2. h[1..(i - 1)] \in A /\ seqs[i] \in A
    BY <1>3, <2>1
  <2>3. op[<<h[1..(i - 1)], seqs[i]>>] = h[1..(i - 1)] \o seqs[i]
    BY <2>2
  <2> HIDE DEF op, A, acc
  <2> QED
    BY <1>3, <2>1, <2>3
<1>6. FlattenSeq(seqs) = acc[n]
  <2>1. CASE n = 0
    <3>1. seqs = <<>>
      BY <2>1
    <3> QED
      BY <1>4, <2>1, <3>1 DEF FlattenSeq
  <2>2. CASE n # 0
    <3> HIDE DEF acc
    <3> DEFINE IsFlat(f) == f = [i \in 1..n |-> IF i = 1 THEN seqs[i] ELSE f[i - 1] \o seqs[i]]
               f == [i \in 1..n |-> acc[i]]
               flatten == CHOOSE g : IsFlat(g)
    <3>1. IsFlat(f)
      <4>1. ASSUME NEW i \in 1..n
            PROVE  acc[i] = IF i = 1 THEN seqs[i] ELSE f[i - 1] \o seqs[i]
        <5>1. CASE i = 1
          BY <1>4, <1>5, <5>1
        <5>2. CASE i # 1
          <6>1. i - 1 \in 1..n
            BY <5>2
          <6>2. f[i - 1] = acc[i - 1]
            BY <6>1
          <6> QED
            BY <1>5, <5>2, <6>2
        <5> QED
          BY <5>1, <5>2
      <4> QED
        BY <4>1
    <3>2. IsFlat(flatten)
      <4> HIDE DEF IsFlat
      <4> QED
        BY <3>1
    <3>3. FlattenSeq(seqs) = flatten[n]
      BY <2>2 DEF FlattenSeq
    <3> HIDE DEF flatten, A
    <3> DEFINE T == {i \in Nat : i + 1 <= n => flatten[i + 1] = acc[i + 1]}
    <3>4. 0 \in T
      <4>1. n >= 1 /\ n \in Nat
        BY <2>2
      <4>2. flatten[1] = seqs[1]
        BY <3>2, <4>1
      <4>3. acc[1] = seqs[1]
        BY <1>4, <1>5, <4>1
      <4> QED
        BY <4>2, <4>3
    <3>5. ASSUME NEW i \in Nat, i \in T PROVE i + 1 \in T
      <4>1. SUFFICES ASSUME i + 2 <= n PROVE flatten[i + 2] = acc[i + 2]
        OBVIOUS
      <4>2. i + 2 \in 1..n /\ i + 2 # 1 /\ (i + 2) - 1 = i + 1
        BY <4>1
      <4>3. flatten[i + 2] = flatten[i + 1] \o seqs[i + 2]
        BY <3>2, <4>2
      <4>4. acc[i + 2] = acc[i + 1] \o seqs[i + 2]
        BY <1>5, <4>2
      <4>5. flatten[i + 1] = acc[i + 1]
        BY <3>5, <4>1
      <4> QED
        BY <4>3, <4>4, <4>5
    <3>6. \A i \in Nat : i \in T
      <4> HIDE DEF T
      <4> QED
        BY <3>4, <3>5, SetInduction
    <3>7. n \in Nat /\ n - 1 \in Nat /\ (n - 1) + 1 = n /\ n <= n
      BY <2>2
    <3>8. flatten[n] = acc[n]
      <4>1. PICK i \in Nat : i = n - 1 /\ i + 1 = n
        BY <3>7
      <4>2. i \in T
        <5> HIDE DEF T
        <5> QED
          BY <3>6, <4>1
      <4> QED
        BY <3>7, <4>1, <4>2
    <3> QED
      BY <3>3, <3>8
  <2> QED
    BY <2>1, <2>2
<1> HIDE DEF acc
<1> QED
  BY <1>4, <1>5, <1>6

----
(* Node ids.                                                               *)

LEMMA ImageFinite ==
    ASSUME NEW S, IsFiniteSet(S), NEW f
    PROVE  IsFiniteSet({f[x] : x \in S})
<1> DEFINE T == {f[x] : x \in S}
           g == [x \in S |-> f[x]]
<1>1. g \in [S -> T] /\ \A t \in T : \E x \in S : g[x] = t
  OBVIOUS
<1>2. g \in Surjection(S, T)
  BY <1>1 DEF Surjection
<1> HIDE DEF g, T
<1> QED
  BY <1>2, FS_Surjection DEF T

FileIds == {<<1, f>> : f \in File}
ModuleIds == {ModuleId(m) : m \in Name}
FunctionIds == {<<2, f, n>> : f \in File, n \in Name}
SymbolIds == {<<4, n, f>> : n \in Name, f \in File}

LEMMA IdsByKind == Ids = FileIds \union ModuleIds \union FunctionIds \union SymbolIds
  BY DEF Ids, FileIds, ModuleIds, FunctionIds, SymbolIds, Prefix

LEMMA IdsFinite == IsFiniteSet(Ids)
<1>1. IsFiniteSet(File) /\ IsFiniteSet(Name)
  BY RepoGraphAssumption
<1>2. IsFiniteSet(File \X Name)
  BY <1>1, FS_Product
<1>3. IsFiniteSet(FileIds)
  <2> DEFINE id == [f \in File |-> <<1, f>>]
  <2>1. FileIds = {id[f] : f \in File}
    BY DEF FileIds
  <2> HIDE DEF id
  <2> QED
    BY <1>1, <2>1, ImageFinite
<1>4. IsFiniteSet(ModuleIds)
  <2> DEFINE id == [m \in Name |-> ModuleId(m)]
  <2>1. ModuleIds = {id[m] : m \in Name}
    BY DEF ModuleIds
  <2> HIDE DEF id
  <2> QED
    BY <1>1, <2>1, ImageFinite
<1>5. IsFiniteSet(FunctionIds)
  <2> DEFINE id == [p \in File \X Name |-> <<2, p[1], p[2]>>]
  <2>1. \A f \in File, n \in Name : <<f, n>> \in File \X Name /\ id[<<f, n>>] = <<2, f, n>>
    OBVIOUS
  <2>2. \A p \in File \X Name : p[1] \in File /\ p[2] \in Name /\ id[p] = <<2, p[1], p[2]>>
    OBVIOUS
  <2> HIDE DEF id
  <2>3. FunctionIds = {id[p] : p \in File \X Name}
    <3>1. ASSUME NEW x \in FunctionIds PROVE x \in {id[p] : p \in File \X Name}
      <4>1. PICK f \in File, n \in Name : x = <<2, f, n>>
        BY DEF FunctionIds
      <4> QED
        BY <2>1, <4>1
    <3>2. {id[p] : p \in File \X Name} \subseteq FunctionIds
      BY <2>2 DEF FunctionIds
    <3> QED
      BY <3>1, <3>2
  <2> QED
    BY <1>2, <2>3, ImageFinite
<1>6. IsFiniteSet(SymbolIds)
  <2> DEFINE id == [p \in File \X Name |-> <<4, p[2], p[1]>>]
  <2>1. \A f \in File, n \in Name : <<f, n>> \in File \X Name /\ id[<<f, n>>] = <<4, n, f>>
    OBVIOUS
  <2>2. \A p \in File \X Name : p[1] \in File /\ p[2] \in Name /\ id[p] = <<4, p[2], p[1]>>
    OBVIOUS
  <2> HIDE DEF id
  <2>3. SymbolIds = {id[p] : p \in File \X Name}
    <3>1. ASSUME NEW x \in SymbolIds PROVE x \in {id[p] : p \in File \X Name}
      <4>1. PICK f \in File, n \in Name : x = <<4, n, f>>
        BY DEF SymbolIds
      <4> QED
        BY <2>1, <4>1
    <3>2. {id[p] : p \in File \X Name} \subseteq SymbolIds
      BY <2>2 DEF SymbolIds
    <3> QED
      BY <3>1, <3>2
  <2> QED
    BY <1>2, <2>3, ImageFinite
<1>7. IsFiniteSet(FileIds \union ModuleIds)
  BY <1>3, <1>4, FS_Union
<1>8. IsFiniteSet(FileIds \union ModuleIds \union FunctionIds)
  BY <1>5, <1>7, FS_Union
<1>9. IsFiniteSet(FileIds \union ModuleIds \union FunctionIds \union SymbolIds)
  BY <1>6, <1>8, FS_Union
<1> QED
  BY <1>9, IdsByKind

\* What an id is, and what it spells.
LEMMA IdParts ==
    /\ \A f : FileId(f) = <<1, Target[f]>>
    /\ \A m : ModuleId(m) = <<3, m>>
    /\ \A f, n : FunctionId(f, n) = <<2, Target[f], n>> /\ SymbolId(n, f) = <<4, n, Target[f]>>
    /\ \A f : NodeKind(<<1, f>>) = "file" /\ NodeLabel(<<1, f>>) = f /\ NodeFile(<<1, f>>) = f
    /\ \A m : NodeKind(<<3, m>>) = "type" /\ NodeLabel(<<3, m>>) = m /\ NodeFile(<<3, m>>) = NoFile
    /\ \A f, n : /\ NodeKind(<<2, f, n>>) = "function" /\ NodeLabel(<<2, f, n>>) = n
                 /\ NodeFile(<<2, f, n>>) = f
    /\ \A f, n : /\ NodeKind(<<4, n, f>>) = "symbol" /\ NodeLabel(<<4, n, f>>) = n
                 /\ NodeFile(<<4, n, f>>) = f
  BY DEF FileId, ModuleId, FunctionId, SymbolId, Prefix, NodeKind, NodeLabel, NodeFile, NoFile

LEMMA IdsAreStrings == Ids \in SUBSET Seq(Nat)
<1>1. File \subseteq Nat /\ Name \subseteq Nat
  BY RepoGraphAssumption
<1>2. ASSUME NEW id \in Ids PROVE id \in Seq(Nat)
  <2>1. CASE id \in FileIds
    <3>1. PICK f \in File : id = <<1, f>>
      BY <2>1, IdParts DEF FileIds
    <3> QED
      BY <1>1, <3>1
  <2>2. CASE id \in ModuleIds
    <3>1. PICK m \in Name : id = <<3, m>>
      BY <2>2, IdParts DEF ModuleIds
    <3> QED
      BY <1>1, <3>1
  <2>3. CASE id \in FunctionIds
    <3>1. PICK f \in File, n \in Name : id = <<2, f, n>>
      BY <2>3, IdParts DEF FunctionIds
    <3> QED
      BY <1>1, <3>1
  <2>4. CASE id \in SymbolIds
    <3>1. PICK f \in File, n \in Name : id = <<4, n, f>>
      BY <2>4, IdParts DEF SymbolIds
    <3> QED
      BY <1>1, <3>1
  <2> QED
    BY <2>1, <2>2, <2>3, <2>4, IdsByKind
<1> QED
  BY <1>2

----
(* The nodes of a graph.  Each carries what fits its id, from its first    *)
(* mention on.                                                             *)

Attribute == [kind: {"file", "function", "type", "symbol"},
              symbol: Name \union File, file: File \union {NoFile}]

\* Fitting, of the files of any repository.
Fits(P, id) ==
    LET paths == {p \in P : Target[p] = NodeFile(id)}
    IN  CASE id[1] = Prefix.file -> {Attributes("file", p, p) : p \in paths}
          [] id[1] = Prefix.function -> {Attributes("function", NodeLabel(id), p) : p \in paths}
          [] OTHER -> {Attributes(NodeKind(id), NodeLabel(id), NodeFile(id))}

\* Collections of nodes.
Registries(P) ==
    {nodes \in UNION {[D -> Attribute] : D \in SUBSET Ids} :
        \A id \in DOMAIN nodes : nodes[id] \in Fits(P, id)}

LEMMA FitsByKind ==
    ASSUME NEW P
    PROVE  /\ \A f : Fits(P, <<1, f>>) = {Attributes("file", p, p) : p \in {q \in P : Target[q] = f}}
           /\ \A f, n : Fits(P, <<2, f, n>>) =
                           {Attributes("function", n, p) : p \in {q \in P : Target[q] = f}}
           /\ \A m : Fits(P, <<3, m>>) = {Attributes("type", m, NoFile)}
           /\ \A f, n : Fits(P, <<4, n, f>>) = {Attributes("symbol", n, f)}
<1>1. ASSUME NEW f
      PROVE  Fits(P, <<1, f>>) = {Attributes("file", p, p) : p \in {q \in P : Target[q] = f}}
  BY IdParts DEF Fits, Prefix
<1>2. ASSUME NEW f, NEW n
      PROVE  Fits(P, <<2, f, n>>) = {Attributes("function", n, p) : p \in {q \in P : Target[q] = f}}
  BY IdParts DEF Fits, Prefix
<1>3. ASSUME NEW m PROVE Fits(P, <<3, m>>) = {Attributes("type", m, NoFile)}
  BY IdParts DEF Fits, Prefix
<1>4. ASSUME NEW f, NEW n PROVE Fits(P, <<4, n, f>>) = {Attributes("symbol", n, f)}
  BY IdParts DEF Fits, Prefix
<1> QED
  BY <1>1, <1>2, <1>3, <1>4

LEMMA FitsType ==
    ASSUME NEW P \in SUBSET File, NEW id \in Ids
    PROVE  /\ Fits(P, id) \subseteq Attribute
           /\ Fits(P, id) \subseteq Fits(File, id)
<1>1. CASE id \in FileIds
  <2>1. PICK f \in File : id = <<1, f>>
    BY <1>1 DEF FileIds
  <2> QED
    BY <2>1, FitsByKind DEF Attributes, Attribute
<1>2. CASE id \in ModuleIds
  <2>1. PICK m \in Name : id = <<3, m>>
    BY <1>2, IdParts DEF ModuleIds
  <2> QED
    BY <2>1, FitsByKind DEF Attributes, Attribute
<1>3. CASE id \in FunctionIds
  <2>1. PICK f \in File, n \in Name : id = <<2, f, n>>
    BY <1>3 DEF FunctionIds
  <2> QED
    BY <2>1, FitsByKind DEF Attributes, Attribute
<1>4. CASE id \in SymbolIds
  <2>1. PICK f \in File, n \in Name : id = <<4, n, f>>
    BY <1>4 DEF SymbolIds
  <2> QED
    BY <2>1, FitsByKind DEF Attributes, Attribute
<1> QED
  BY <1>1, <1>2, <1>3, <1>4, IdsByKind

LEMMA RegistriesGrow ==
    ASSUME NEW P \in SUBSET File, NEW nodes \in Registries(P)
    PROVE  nodes \in Registries(File) /\ DOMAIN nodes \in SUBSET Ids
<1>1. DOMAIN nodes \in SUBSET Ids
  BY DEF Registries
<1> QED
  BY <1>1, FitsType DEF Registries

LEMMA NoNodes == \A P : <<>> \in Registries(P)
<1>1. <<>> = [id \in {} |-> Attributes("type", 0, 0)]
  OBVIOUS
<1>2. <<>> \in [{} -> Attribute] /\ DOMAIN <<>> = {}
  BY <1>1
<1> QED
  BY <1>2 DEF Registries

LEMMA EnsureNodeFollows ==
    ASSUME NEW P \in SUBSET File, NEW nodes \in Registries(P), NEW id \in Ids, NEW a \in Fits(P, id)
    PROVE  /\ EnsureNode(nodes, id, a) \in Registries(P)
           /\ DOMAIN EnsureNode(nodes, id, a) = DOMAIN nodes \union {id}
<1> DEFINE D == DOMAIN nodes
           more == [n \in D \union {id} |-> IF n = id THEN a ELSE nodes[n]]
<1>1. /\ D \in SUBSET Ids /\ nodes \in [D -> Attribute]
      /\ \A n \in D : nodes[n] \in Fits(P, n)
  BY DEF Registries
<1>2. a \in Attribute
  BY FitsType
<1>3. CASE id \in D
  <2>1. EnsureNode(nodes, id, a) = nodes /\ D \union {id} = D
    BY <1>3 DEF EnsureNode
  <2> QED
    BY <2>1
<1>4. CASE id \notin D
  <2>1. EnsureNode(nodes, id, a) = more
    BY <1>4 DEF EnsureNode
  <2>2. DOMAIN more = D \union {id} /\ D \union {id} \in SUBSET Ids
    BY <1>1
  <2>3. more \in [D \union {id} -> Attribute]
    BY <1>1, <1>2
  <2>4. \A n \in D \union {id} : more[n] \in Fits(P, n)
    BY <1>1
  <2> HIDE DEF more
  <2>5. more \in Registries(P)
    BY <2>2, <2>3, <2>4 DEF Registries
  <2> QED
    BY <2>1, <2>2, <2>5
<1> QED
  BY <1>3, <1>4

LEMMA NumbersInOrder ==
    ASSUME NEW F \in SUBSET Nat, IsFiniteSet(F)
    PROVE  /\ InOrder(F, <) \in Seq(F)
           /\ DOMAIN InOrder(F, <) = 1..Len(InOrder(F, <))
<1> DEFINE s == InOrder(F, <)
           n == Cardinality(F)
<1>2. s \in [1..n -> F] /\ n \in Nat
  BY NumbersListed, FS_CardinalityType DEF Lists
<1> HIDE DEF s, n
<1>3. s \in Seq(F) /\ Len(s) = n /\ DOMAIN s = 1..n
  BY <1>2
<1> QED
  BY <1>3 DEF s

LEMMA DefineFollows ==
    ASSUME NEW P \in SUBSET File, NEW nodes \in Registries(P), NEW file, file.path \in P,
           file.functions \in SUBSET Name, file.functions # {} => Target[file.path] \in File
    PROVE  Define(nodes, file) \in Registries(P)
<1> DEFINE seq == InOrder(file.functions, <)
           n == Len(seq)
           Step(ns, name) == EnsureNode(ns, FunctionId(file.path, name),
                                        Attributes("function", name, file.path))
           op == [p \in Registries(P) \X file.functions |-> Step(p[1], p[2])]
           Folded(it) == it = [s \in SUBSET (DOMAIN seq) |->
                                 IF s = {} THEN nodes
                                 ELSE Step(it[s \ {Max(s)}], seq[Max(s)])]
           iter == CHOOSE it : Folded(it)
<1>1. seq \in Seq(file.functions) /\ DOMAIN seq = 1..n /\ n \in Nat
  <2>1. seq \in Seq(file.functions) /\ DOMAIN seq = 1..n
    <3>1. file.functions \in SUBSET Nat /\ IsFiniteSet(file.functions)
      BY RepoGraphAssumption, FS_Subset
    <3> QED
      BY <3>1, NumbersInOrder
  <2> HIDE DEF seq
  <2> QED
    BY <2>1
<1> HIDE DEF seq
<1>2. op \in [Registries(P) \X file.functions -> Registries(P)]
  <2>1. ASSUME NEW ns \in Registries(P), NEW name \in file.functions PROVE Step(ns, name) \in Registries(P)
    <3>1. name \in Name /\ Target[file.path] \in File
      OBVIOUS
    <3>2. FunctionId(file.path, name) = <<2, Target[file.path], name>>
      BY IdParts
    <3>3. FunctionId(file.path, name) \in Ids
      BY <3>1, <3>2, IdsByKind DEF FunctionIds
    <3>4. Attributes("function", name, file.path) \in Fits(P, FunctionId(file.path, name))
      BY <3>2, FitsByKind
    <3> QED
      BY <3>3, <3>4, EnsureNodeFollows
  <2> HIDE DEF Step
  <2> QED
    BY <2>1
<1>3. PICK h : IsFold(h, Registries(P), op, nodes, seq, n)
  <2> HIDE DEF op
  <2> QED
    BY <1>1, <1>2, FoldExists
<1>4. h \in [SUBSET (1..n) -> Registries(P)]
  BY <1>3 DEF IsFold
<1>5. ASSUME NEW s \in SUBSET (1..n), s # {}
      PROVE  /\ s \ {Max(s)} \in SUBSET (1..n)
             /\ op[<<h[s \ {Max(s)}], seq[Max(s)]>>] = Step(h[s \ {Max(s)}], seq[Max(s)])
  <2>1. Max(s) \in s
    BY <1>1, <1>5, GreatestElement
  <2>2. s \ {Max(s)} \in SUBSET (1..n) /\ seq[Max(s)] \in file.functions
    <3>1. PICK m \in 1..n : m = Max(s)
      BY <2>1
    <3>2. seq[m] \in file.functions
      BY <1>1
    <3> QED
      BY <3>1, <3>2
  <2>3. h[s \ {Max(s)}] \in Registries(P)
    BY <1>4, <2>2
  <2> HIDE DEF Step
  <2> QED
    BY <2>2, <2>3
<1>6. Folded(h)
  <2>1. ASSUME NEW s \in SUBSET (1..n)
        PROVE  h[s] = IF s = {} THEN nodes ELSE Step(h[s \ {Max(s)}], seq[Max(s)])
    <3> HIDE DEF Step, op
    <3> QED
      BY <1>3, <1>5 DEF IsFold
  <2> HIDE DEF Step, op
  <2> QED
    BY <1>1, <1>4, <2>1
<1>7. Folded(iter)
  <2> HIDE DEF Folded
  <2> QED
    BY <1>6
<1>8. iter[1..n] = h[1..n]
  <2>1. iter[{}] = nodes
    BY <1>7
  <2>2. ASSUME NEW s \in SUBSET (1..n), s # {}, iter[s \ {Max(s)}] = h[s \ {Max(s)}]
        PROVE  iter[s] = op[<<h[s \ {Max(s)}], seq[Max(s)]>>]
    <3>1. iter[s] = Step(iter[s \ {Max(s)}], seq[Max(s)])
      <4> HIDE DEF iter, Step, op
      <4> QED
        BY <1>1, <1>7, <2>2
    <3> HIDE DEF iter, Step, op
    <3> QED
      BY <1>5, <2>2, <3>1
  <2>3. FollowsFold(iter, h, op, nodes, seq, n)
    <3> HIDE DEF iter, Folded, op
    <3> QED
      BY <2>1, <2>2 DEF FollowsFold
  <2> HIDE DEF iter, Folded, op
  <2> QED
    BY <1>1, <1>3, <2>1, <2>3, FoldAgrees
<1>9. Define(nodes, file) = iter[DOMAIN seq]
  BY DEF Define, FoldLeft, MapThenFoldSet, seq
<1>10. h[1..n] \in Registries(P)
  BY <1>4
<1> HIDE DEF iter
<1> QED
  BY <1>1, <1>8, <1>9, <1>10

----
(* From files to a tree of raw edges.                                      *)

RawEdge ==
    [kind: {"call"}, source: FunctionIds, target: SymbolIds]
    \union [kind: {"import"}, source: FileIds, target: ModuleIds]

\* Edges of a file start at nodes of the file its path leads to.
TreeFile(P) ==
    {t \in [path: P, functions: SUBSET Name, edges: SUBSET RawEdge] :
        /\ t.functions # {} => Target[t.path] \in File
        /\ \A e \in t.edges : NodeFile(e.source) = Target[t.path]}

LEMMA RawEdgesType ==
    ASSUME NEW f \in File, NEW c \in Content,
           Target[f] \in File \/ (c.calls = {} /\ c.imports = {})
    PROVE  /\ RawEdges(f, c) \in SUBSET RawEdge
           /\ \A e \in RawEdges(f, c) : NodeFile(e.source) = Target[f]
<1>1. ASSUME NEW call \in c.calls
      PROVE  LET e == [kind |-> "call", source |-> FunctionId(f, call[1]), target |-> SymbolId(call[2], f)]
             IN  e \in RawEdge /\ NodeFile(e.source) = Target[f]
  <2>1. call[1] \in Name /\ call[2] \in Name /\ Target[f] \in File
    BY DEF Content
  <2>2. FunctionId(f, call[1]) \in FunctionIds /\ SymbolId(call[2], f) \in SymbolIds
    BY <2>1, IdParts DEF FunctionIds, SymbolIds
  <2>3. NodeFile(FunctionId(f, call[1])) = Target[f]
    BY IdParts
  <2> QED
    BY <2>2, <2>3 DEF RawEdge
<1>2. ASSUME NEW m \in c.imports
      PROVE  LET e == [kind |-> "import", source |-> FileId(f), target |-> ModuleId(m)]
             IN  e \in RawEdge /\ NodeFile(e.source) = Target[f]
  <2>1. m \in Name /\ Target[f] \in File
    BY DEF Content
  <2>2. FileId(f) \in FileIds /\ ModuleId(m) \in ModuleIds
    BY <2>1, IdParts DEF FileIds, ModuleIds
  <2>3. NodeFile(FileId(f)) = Target[f]
    BY IdParts
  <2> QED
    BY <2>2, <2>3 DEF RawEdge
<1> QED
  BY <1>1, <1>2 DEF RawEdges

LEMMA TreeOfRepo ==
    ASSUME NEW r \in Repos, ~Escapes(r)
    PROVE  RawTree(r) \in Seq(TreeFile(DOMAIN r))
<1> DEFINE listed == Listed(r)
           paths == InOrder(listed, <)
<1>1. listed \in SUBSET File /\ listed \in SUBSET DOMAIN r /\ \A f \in listed : r[f] \in Content
  BY GraphStoreAssumption DEF Listed
<1>2. listed \in SUBSET Nat /\ IsFiniteSet(listed)
  BY <1>1, RepoGraphAssumption, FS_Subset
<1>3. ASSUME NEW f \in listed
      PROVE  Target[f] \in File \/ (r[f].functions = {} /\ r[f].calls = {} /\ r[f].imports = {})
  BY <1>1, RepoGraphAssumption DEF Escapes
<1> HIDE DEF listed
<1>4. paths \in Seq(listed) /\ DOMAIN paths = 1..Len(paths)
  BY <1>2, NumbersInOrder
<1> HIDE DEF paths
<1> DEFINE tree == [i \in DOMAIN paths |->
                      [path |-> paths[i], functions |-> r[paths[i]].functions,
                       edges |-> RawEdges(paths[i], r[paths[i]])]]
<1>5. ASSUME NEW i \in 1..Len(paths)
      PROVE  [path |-> paths[i], functions |-> r[paths[i]].functions,
              edges |-> RawEdges(paths[i], r[paths[i]])] \in TreeFile(DOMAIN r)
  <2>1. PICK f \in listed : f = paths[i]
    BY <1>4
  <2>2. f \in File /\ f \in DOMAIN r /\ r[f] \in Content /\ r[f].functions \in SUBSET Name
    BY <1>1 DEF Content
  <2>3. Target[f] \in File \/ (r[f].functions = {} /\ r[f].calls = {} /\ r[f].imports = {})
    BY <1>3
  <2>4. /\ RawEdges(f, r[f]) \in SUBSET RawEdge
        /\ \A e \in RawEdges(f, r[f]) : NodeFile(e.source) = Target[f]
    BY <2>2, <2>3, RawEdgesType
  <2> QED
    BY <2>1, <2>2, <2>3, <2>4 DEF TreeFile
<1>6. tree \in Seq(TreeFile(DOMAIN r))
  BY <1>4, <1>5
<1> QED
  BY <1>6 DEF RawTree, paths, listed

\* u is s followed by t.
IsJoined(u, s, t) ==
    /\ u \in Seq(Nat)
    /\ Len(u) = Len(s) + Len(t)
    /\ \A i \in 1..Len(s) : u[i] = s[i]
    /\ \A i \in 1..Len(t) : u[Len(s) + i] = t[i]

LEMMA Joined ==
    ASSUME NEW s \in Seq(Nat), NEW t \in Seq(Nat)
    PROVE  IsJoined(s \o t, s, t)
  BY DEF IsJoined

\* What an edge is sorted by, in full: two edges of one kind differ in an id.
LEMMA EdgeKeys ==
    /\ \A e \in RawEdge : EdgeKey(e) \in Seq(Nat)
    /\ \A d, e \in RawEdge : EdgeKey(d) = EdgeKey(e) => d = e
<1>1. File \subseteq Nat /\ Name \subseteq Nat
  BY RepoGraphAssumption
<1>2. ASSUME NEW e \in RawEdge, e.kind = "call"
      PROVE  \E f, g \in File, m, n \in Name :
                /\ e = [kind |-> "call", source |-> <<2, f, n>>, target |-> <<4, m, g>>]
                /\ EdgeKey(e) \in Seq(Nat) /\ Len(EdgeKey(e)) = 7
                /\ EdgeKey(e)[3] = f /\ EdgeKey(e)[4] = n
                /\ EdgeKey(e)[6] = m /\ EdgeKey(e)[7] = g
  <2>1. e \in [kind: {"call"}, source: FunctionIds, target: SymbolIds]
    BY <1>2 DEF RawEdge
  <2>2. PICK f \in File, n \in Name : e.source = <<2, f, n>>
    BY <2>1, IdParts DEF FunctionIds
  <2>3. PICK g \in File, m \in Name : e.target = <<4, m, g>>
    BY <2>1, IdParts DEF SymbolIds
  <2>4. /\ EdgeKey(e) \in Seq(Nat) /\ Len(EdgeKey(e)) = 7
        /\ EdgeKey(e)[3] = f /\ EdgeKey(e)[4] = n
        /\ EdgeKey(e)[6] = m /\ EdgeKey(e)[7] = g
    <3> DEFINE a == <<0>>
               b == <<2, f, n>>
               c == <<4, m, g>>
    <3> DEFINE ab == a \o b
    <3>1. EdgeKey(e) = ab \o c
      BY <1>2, <2>2, <2>3 DEF EdgeKey
    <3>2. /\ a \in Seq(Nat) /\ Len(a) = 1
          /\ b \in Seq(Nat) /\ Len(b) = 3 /\ b[2] = f /\ b[3] = n
          /\ c \in Seq(Nat) /\ Len(c) = 3 /\ c[2] = m /\ c[3] = g
      BY <1>1
    <3> HIDE DEF a, b, c
    <3>a. IsJoined(ab, a, b)
      BY <3>2, Joined
    <3>3. /\ ab \in Seq(Nat) /\ Len(ab) = 1 + 3
          /\ \A i \in 1..3 : ab[1 + i] = b[i]
      BY <3>2, <3>a DEF IsJoined
    <3> HIDE DEF ab
    <3>b. PICK abc : abc = ab \o c
      OBVIOUS
    <3>c. IsJoined(abc, ab, c)
      BY <3>2, <3>3, <3>b, Joined
    <3>4. /\ abc \in Seq(Nat) /\ Len(abc) = 4 + 3
          /\ \A i \in 1..4 : abc[i] = ab[i]
          /\ \A i \in 1..3 : abc[4 + i] = c[i]
      BY <3>2, <3>3, <3>c DEF IsJoined
    <3>5. ab[3] = f /\ ab[4] = n
      BY <3>2, <3>3, 1 + 2 = 3, 1 + 3 = 4
    <3>6. abc[6] = m /\ abc[7] = g
      BY <3>2, <3>4, 4 + 2 = 6, 4 + 3 = 7
    <3>7. abc[3] = f /\ abc[4] = n
      BY <3>4, <3>5
    <3>8. EdgeKey(e) = abc
      BY <3>1, <3>b
    <3> QED
      BY <3>4, <3>6, <3>7, <3>8, 4 + 3 = 7
  <2> QED
    BY <2>1, <2>2, <2>3, <2>4
<1>3. ASSUME NEW e \in RawEdge, e.kind # "call"
      PROVE  \E f \in File, m \in Name :
                /\ e = [kind |-> "import", source |-> <<1, f>>, target |-> <<3, m>>]
                /\ EdgeKey(e) \in Seq(Nat) /\ Len(EdgeKey(e)) = 5
                /\ EdgeKey(e)[3] = f /\ EdgeKey(e)[5] = m
  <2>1. e \in [kind: {"import"}, source: FileIds, target: ModuleIds]
    BY <1>3 DEF RawEdge
  <2>2. PICK f \in File : e.source = <<1, f>>
    BY <2>1, IdParts DEF FileIds
  <2>3. PICK m \in Name : e.target = <<3, m>>
    BY <2>1, IdParts DEF ModuleIds
  <2>4. /\ EdgeKey(e) \in Seq(Nat) /\ Len(EdgeKey(e)) = 5
        /\ EdgeKey(e)[3] = f /\ EdgeKey(e)[5] = m
    <3> DEFINE a == <<1>>
               b == <<1, f>>
               c == <<3, m>>
    <3> DEFINE ab == a \o b
    <3>1. EdgeKey(e) = ab \o c
      BY <1>3, <2>2, <2>3 DEF EdgeKey
    <3>2. /\ a \in Seq(Nat) /\ Len(a) = 1
          /\ b \in Seq(Nat) /\ Len(b) = 2 /\ b[2] = f
          /\ c \in Seq(Nat) /\ Len(c) = 2 /\ c[2] = m
      BY <1>1
    <3> HIDE DEF a, b, c
    <3>a. IsJoined(ab, a, b)
      BY <3>2, Joined
    <3>3. /\ ab \in Seq(Nat) /\ Len(ab) = 1 + 2
          /\ \A i \in 1..2 : ab[1 + i] = b[i]
      BY <3>2, <3>a DEF IsJoined
    <3> HIDE DEF ab
    <3>b. PICK abc : abc = ab \o c
      OBVIOUS
    <3>c. IsJoined(abc, ab, c)
      BY <3>2, <3>3, <3>b, Joined
    <3>4. /\ abc \in Seq(Nat) /\ Len(abc) = 3 + 2
          /\ \A i \in 1..3 : abc[i] = ab[i]
          /\ \A i \in 1..2 : abc[3 + i] = c[i]
      BY <3>2, <3>3, <3>c DEF IsJoined
    <3>5. ab[3] = f
      BY <3>2, <3>3, 1 + 2 = 3
    <3>6. abc[5] = m
      BY <3>2, <3>4, 3 + 2 = 5
    <3>7. abc[3] = f
      BY <3>4, <3>5
    <3>8. EdgeKey(e) = abc
      BY <3>1, <3>b
    <3> QED
      BY <3>4, <3>6, <3>7, <3>8, 3 + 2 = 5
  <2> QED
    BY <2>1, <2>2, <2>3, <2>4
<1>4. ASSUME NEW e \in RawEdge PROVE EdgeKey(e) \in Seq(Nat)
  BY <1>2, <1>3
<1>5. ASSUME NEW d \in RawEdge, NEW e \in RawEdge, EdgeKey(d) = EdgeKey(e) PROVE d = e
  <2>1. CASE d.kind = "call" /\ e.kind = "call"
    <3>1. PICK f1, g1 \in File, m1, n1 \in Name :
         /\ d = [kind |-> "call", source |-> <<2, f1, n1>>, target |-> <<4, m1, g1>>]
         /\ Len(EdgeKey(d)) = 7
         /\ EdgeKey(d)[3] = f1 /\ EdgeKey(d)[4] = n1
         /\ EdgeKey(d)[6] = m1 /\ EdgeKey(d)[7] = g1
      BY <1>2, <2>1
    <3>2. PICK f2, g2 \in File, m2, n2 \in Name :
         /\ e = [kind |-> "call", source |-> <<2, f2, n2>>, target |-> <<4, m2, g2>>]
         /\ Len(EdgeKey(e)) = 7
         /\ EdgeKey(e)[3] = f2 /\ EdgeKey(e)[4] = n2
         /\ EdgeKey(e)[6] = m2 /\ EdgeKey(e)[7] = g2
      BY <1>2, <2>1
    <3> QED
      BY <1>5, <3>1, <3>2
  <2>2. CASE d.kind # "call" /\ e.kind # "call"
    <3>1. PICK f1 \in File, m1 \in Name :
         /\ d = [kind |-> "import", source |-> <<1, f1>>, target |-> <<3, m1>>]
         /\ Len(EdgeKey(d)) = 5
         /\ EdgeKey(d)[3] = f1 /\ EdgeKey(d)[5] = m1
      BY <1>3, <2>2
    <3>2. PICK f2 \in File, m2 \in Name :
         /\ e = [kind |-> "import", source |-> <<1, f2>>, target |-> <<3, m2>>]
         /\ Len(EdgeKey(e)) = 5
         /\ EdgeKey(e)[3] = f2 /\ EdgeKey(e)[5] = m2
      BY <1>3, <2>2
    <3> QED
      BY <1>5, <3>1, <3>2
  <2>3. CASE d.kind = "call" /\ e.kind # "call"
    <3>1. Len(EdgeKey(d)) = 7 /\ Len(EdgeKey(e)) = 5
      BY <1>2, <1>3, <2>3
    <3> QED
      BY <1>5, <3>1
  <2>4. CASE d.kind # "call" /\ e.kind = "call"
    <3>1. Len(EdgeKey(e)) = 7 /\ Len(EdgeKey(d)) = 5
      BY <1>2, <1>3, <2>4
    <3> QED
      BY <1>5, <3>1
  <2> QED
    BY <2>1, <2>2, <2>3, <2>4
<1> QED
  BY <1>4, <1>5

LEMMA RawEdgesFinite == IsFiniteSet(RawEdge)
<1> DEFINE S == {"call", "import"} \X (Ids \X Ids)
           edge == [p \in S |-> [kind |-> p[1], source |-> p[2][1], target |-> p[2][2]]]
<1>1. IsFiniteSet({"call", "import"})
  <2>1. {"call", "import"} = ({} \union {"call"}) \union {"import"}
    OBVIOUS
  <2>2. IsFiniteSet({} \union {"call"})
    BY FS_EmptySet, FS_AddElement
  <2> QED
    BY <2>1, <2>2, FS_AddElement
<1>2. IsFiniteSet(S)
  BY <1>1, IdsFinite, FS_Product
<1>3. ASSUME NEW e \in RawEdge PROVE e \in {edge[p] : p \in S}
  <2>1. e.kind \in {"call", "import"} /\ e.source \in Ids /\ e.target \in Ids
    BY IdsByKind DEF RawEdge
  <2>2. <<e.kind, <<e.source, e.target>>>> \in S
    BY <2>1
  <2>3. e = [kind |-> e.kind, source |-> e.source, target |-> e.target]
    BY DEF RawEdge
  <2>4. edge[<<e.kind, <<e.source, e.target>>>>] = e
    BY <2>2, <2>3
  <2> QED
    BY <2>2, <2>4
<1> HIDE DEF S, edge
<1>4. IsFiniteSet({edge[p] : p \in S})
  BY <1>2, ImageFinite
<1> QED
  BY <1>3, <1>4, FS_Subset

LEMMA FileEdgesType ==
    ASSUME NEW P, NEW file \in TreeFile(P)
    PROVE  /\ FileEdges(file) \in Seq(file.edges)
           /\ DOMAIN FileEdges(file) = 1..Len(FileEdges(file))
<1> DEFINE S == file.edges
           R == {p \in S \X S : Before(EdgeKey(p[1]), EdgeKey(p[2]))}
           n == Cardinality(S)
           s == [i \in 1..n |->
                   CHOOSE x \in S : Cardinality({y \in S : Before(EdgeKey(y), EdgeKey(x))}) = i - 1]
<1>0. S \in SUBSET RawEdge /\ IsFiniteSet(S) /\ n \in Nat
  <2>1. S \in SUBSET RawEdge
    BY DEF TreeFile
  <2> HIDE DEF S
  <2> QED
    BY <2>1, RawEdgesFinite, FS_Subset, FS_CardinalityType
<1>1. Orders(R, S)
  <2> DEFINE key == [x \in S |-> EdgeKey(x)]
  <2>1. \A x \in S : key[x] \in Seq(Nat)
    BY <1>0, EdgeKeys
  <2>2. \A x, y \in S : key[x] = key[y] => x = y
    BY <1>0, EdgeKeys
  <2>3. \A x, y \in S : <<x, y>> \in R <=> Before(key[x], key[y])
    OBVIOUS
  <2> HIDE DEF key, R, S
  <2> QED
    BY <2>1, <2>2, <2>3, KeysOrder
<1>2. ASSUME NEW x \in S PROVE {y \in S : Before(EdgeKey(y), EdgeKey(x))} = Below(R, S, x)
  BY DEF Below
<1> HIDE DEF R
<1>3. ASSUME NEW i \in 1..n PROVE s[i] \in S
  <2>1. PICK x \in S : Cardinality(Below(R, S, x)) = i - 1
    <3> HIDE DEF S
    <3> QED
      BY <1>0, <1>1, PlacesAreTaken
  <2>2. Cardinality({y \in S : Before(EdgeKey(y), EdgeKey(x))}) = i - 1
    BY <1>2, <2>1
  <2> QED
    BY <2>2
<1>4. s \in Seq(S) /\ Len(s) = n /\ DOMAIN s = 1..n
  <2> DEFINE nth(i) == CHOOSE x \in S : Cardinality({y \in S : Before(EdgeKey(y), EdgeKey(x))}) = i - 1
  <2>1. s = [i \in 1..n |-> nth(i)] /\ \A i \in 1..n : nth(i) \in S
    BY <1>3
  <2> HIDE DEF s, nth, n
  <2> QED
    BY <1>0, <2>1
<1>5. FileEdges(file) = s
  BY DEF FileEdges, InOrder
<1> HIDE DEF s, n
<1> QED
  BY <1>4, <1>5

\* The edges in the order in which they become edges of the graph, each with its file.
OrderedEdge(P) ==
    {x \in [edge: RawEdge, path: P] : NodeFile(x.edge.source) = Target[x.path]}

LEMMA OrderedEdgesType ==
    ASSUME NEW P \in SUBSET File, NEW tree \in Seq(TreeFile(P))
    PROVE  OrderedEdges(tree) \in Seq(OrderedEdge(P))
<1> DEFINE part(i) == [j \in DOMAIN FileEdges(tree[i]) |->
                         [edge |-> FileEdges(tree[i])[j], path |-> tree[i].path]]
           parts == [i \in DOMAIN tree |-> part(i)]
<1>1. ASSUME NEW i \in DOMAIN tree PROVE part(i) \in Seq(OrderedEdge(P))
  <2> DEFINE file == tree[i]
             s == FileEdges(file)
  <2>1. file \in TreeFile(P)
    OBVIOUS
  <2>2. s \in Seq(file.edges) /\ DOMAIN s = 1..Len(s)
    BY <2>1, FileEdgesType
  <2> HIDE DEF s
  <2>3. ASSUME NEW j \in 1..Len(s) PROVE [edge |-> s[j], path |-> file.path] \in OrderedEdge(P)
    <3>1. s[j] \in file.edges
      BY <2>2
    <3>2. file.path \in P /\ s[j] \in RawEdge /\ NodeFile(s[j].source) = Target[file.path]
      BY <2>1, <3>1 DEF TreeFile
    <3> QED
      BY <3>2 DEF OrderedEdge
  <2>4. [j \in DOMAIN s |-> [edge |-> s[j], path |-> file.path]] \in Seq(OrderedEdge(P))
    <3> HIDE DEF file
    <3> QED
      BY <2>2, <2>3
  <2> QED
    BY <2>4 DEF s
<1>2. DOMAIN tree = 1..Len(tree)
  OBVIOUS
<1>3. parts \in Seq(Seq(OrderedEdge(P))) /\ Len(parts) = Len(tree)
  <2> HIDE DEF part
  <2> QED
    BY <1>1, <1>2
<1>4. OrderedEdges(tree) = FlattenSeq(parts)
  BY DEF OrderedEdges
<1> HIDE DEF parts
<1>5. PICK acc : /\ acc \in [0..Len(parts) -> Seq(OrderedEdge(P))]
                 /\ FlattenSeq(parts) = acc[Len(parts)]
  BY <1>3, Flattened
<1>6. Len(parts) \in 0..Len(parts)
  BY <1>3
<1> QED
  BY <1>4, <1>5, <1>6

----
(* From a tree to a graph.                                                 *)

LEMMA DefinedNodesFollow ==
    ASSUME NEW P \in SUBSET File, NEW tree \in Seq(TreeFile(P))
    PROVE  DefinedNodes(tree) \in Registries(P)
<1> DEFINE n == Len(tree)
           op == [p \in Registries(P) \X TreeFile(P) |-> Define(p[1], p[2])]
           Folded(it) == it = [s \in SUBSET (DOMAIN tree) |->
                                 IF s = {} THEN <<>>
                                 ELSE Define(it[s \ {Max(s)}], tree[Max(s)])]
           iter == CHOOSE it : Folded(it)
<1>0. <<>> \in Registries(P)
  BY NoNodes
<1>1. DOMAIN tree = 1..n /\ n \in Nat
  OBVIOUS
<1>2. op \in [Registries(P) \X TreeFile(P) -> Registries(P)]
  <2>1. ASSUME NEW ns \in Registries(P), NEW file \in TreeFile(P) PROVE Define(ns, file) \in Registries(P)
    BY DefineFollows DEF TreeFile
  <2> QED
    BY <2>1
<1>3. PICK h : IsFold(h, Registries(P), op, <<>>, tree, n)
  <2> HIDE DEF op
  <2> QED
    BY <1>0, <1>2, FoldExists
<1>4. h \in [SUBSET (1..n) -> Registries(P)]
  BY <1>3 DEF IsFold
<1>5. ASSUME NEW s \in SUBSET (1..n), s # {}
      PROVE  /\ s \ {Max(s)} \in SUBSET (1..n)
             /\ op[<<h[s \ {Max(s)}], tree[Max(s)]>>] = Define(h[s \ {Max(s)}], tree[Max(s)])
  <2>1. Max(s) \in s
    BY <1>1, <1>5, GreatestElement
  <2>2. s \ {Max(s)} \in SUBSET (1..n) /\ tree[Max(s)] \in TreeFile(P)
    <3>1. PICK m \in 1..n : m = Max(s)
      BY <2>1
    <3>2. tree[m] \in TreeFile(P)
      BY <1>1
    <3> QED
      BY <3>1, <3>2
  <2>3. h[s \ {Max(s)}] \in Registries(P)
    BY <1>4, <2>2
  <2> QED
    BY <2>2, <2>3
<1> HIDE DEF op
<1>6. Folded(h)
  <2>1. ASSUME NEW s \in SUBSET (1..n)
        PROVE  h[s] = IF s = {} THEN <<>> ELSE Define(h[s \ {Max(s)}], tree[Max(s)])
    BY <1>3, <1>5 DEF IsFold
  <2> QED
    BY <1>1, <1>4, <2>1
<1>7. Folded(iter)
  <2> HIDE DEF Folded
  <2> QED
    BY <1>6
<1>8. iter[1..n] = h[1..n]
  <2>1. iter[{}] = <<>>
    BY <1>7
  <2>2. ASSUME NEW s \in SUBSET (1..n), s # {}, iter[s \ {Max(s)}] = h[s \ {Max(s)}]
        PROVE  iter[s] = op[<<h[s \ {Max(s)}], tree[Max(s)]>>]
    <3>1. iter[s] = Define(iter[s \ {Max(s)}], tree[Max(s)])
      <4> HIDE DEF iter
      <4> QED
        BY <1>1, <1>7, <2>2
    <3> HIDE DEF iter
    <3> QED
      BY <1>5, <2>2, <3>1
  <2>3. FollowsFold(iter, h, op, <<>>, tree, n)
    <3> HIDE DEF iter, Folded
    <3> QED
      BY <2>1, <2>2 DEF FollowsFold
  <2> HIDE DEF iter, Folded
  <2> QED
    BY <1>1, <1>3, <2>3, FoldAgrees
<1>9. DefinedNodes(tree) = iter[DOMAIN tree]
  BY DEF DefinedNodes, FoldLeft, MapThenFoldSet
<1>10. h[1..n] \in Registries(P)
  BY <1>4
<1> HIDE DEF iter
<1> QED
  BY <1>1, <1>8, <1>9, <1>10

LEMMA EndsFollow ==
    ASSUME NEW P \in SUBSET File, NEW nodes \in Registries(P), NEW x \in OrderedEdge(P)
    PROVE  /\ Ends(nodes, x) \in Registries(P)
           /\ DOMAIN Ends(nodes, x) = DOMAIN nodes \union {x.edge.source, x.edge.target}
<1> DEFINE s == x.edge.source
           t == x.edge.target
           sa == IF x.edge.kind = "import" THEN Attributes("file", x.path, x.path)
                 ELSE Attributes("function", NodeLabel(s), x.path)
           ta == Attributes(TargetKind[x.edge.kind], NodeLabel(t), NodeFile(t))
<1>1. x.edge \in RawEdge /\ x.path \in P /\ NodeFile(s) = Target[x.path]
  BY DEF OrderedEdge
<1>2. s \in Ids /\ t \in Ids /\ sa \in Fits(P, s) /\ ta \in Fits(P, t)
  <2>1. CASE x.edge.kind = "call" /\ s \in FunctionIds /\ t \in SymbolIds
    <3>1. PICK f \in File, n \in Name : s = <<2, f, n>>
      BY <2>1 DEF FunctionIds
    <3>2. PICK g \in File, m \in Name : t = <<4, m, g>>
      BY <2>1 DEF SymbolIds
    <3>3. f = Target[x.path] /\ sa = Attributes("function", n, x.path)
      BY <1>1, <2>1, <3>1, IdParts
    <3>4. ta = Attributes("symbol", m, g)
      BY <2>1, <3>2, IdParts DEF TargetKind
    <3>5. sa \in Fits(P, s)
      BY <1>1, <3>1, <3>3, FitsByKind
    <3>6. ta \in Fits(P, t)
      BY <3>2, <3>4, FitsByKind
    <3> QED
      BY <2>1, <3>5, <3>6, IdsByKind
  <2>2. CASE x.edge.kind = "import" /\ s \in FileIds /\ t \in ModuleIds
    <3>1. PICK f \in File : s = <<1, f>>
      BY <2>2 DEF FileIds
    <3>2. PICK m \in Name : t = <<3, m>>
      BY <2>2, IdParts DEF ModuleIds
    <3>3. f = Target[x.path] /\ sa = Attributes("file", x.path, x.path)
      BY <1>1, <2>2, <3>1, IdParts
    <3>4. ta = Attributes("type", m, NoFile)
      BY <2>2, <3>2, IdParts DEF TargetKind
    <3>5. sa \in Fits(P, s)
      BY <1>1, <3>1, <3>3, FitsByKind
    <3>6. ta \in Fits(P, t)
      BY <3>2, <3>4, FitsByKind
    <3> QED
      BY <2>2, <3>5, <3>6, IdsByKind
  <2> QED
    BY <1>1, <2>1, <2>2 DEF RawEdge
<1>3. Ends(nodes, x) = EnsureNode(EnsureNode(nodes, s, sa), t, ta)
  BY DEF Ends, Referrer
<1> HIDE DEF s, t, sa, ta
<1> DEFINE first == EnsureNode(nodes, s, sa)
           both == EnsureNode(first, t, ta)
<1>4. first \in Registries(P) /\ DOMAIN first = DOMAIN nodes \union {s}
  BY <1>2, EnsureNodeFollows
<1> HIDE DEF first
<1>5. both \in Registries(P) /\ DOMAIN both = DOMAIN first \union {t}
  <2>1. PICK ns \in Registries(P) : ns = first
    BY <1>4
  <2>2. /\ EnsureNode(ns, t, ta) \in Registries(P)
        /\ DOMAIN EnsureNode(ns, t, ta) = DOMAIN ns \union {t}
    BY <1>2, EnsureNodeFollows
  <2> QED
    BY <2>1, <2>2
<1>6. Ends(nodes, x) = both
  BY <1>3 DEF first
<1> HIDE DEF both
<1> QED
  BY <1>4, <1>5, <1>6 DEF s, t

LEMMA AllEndsFollow ==
    ASSUME NEW P \in SUBSET File, NEW base \in Registries(P), NEW edges \in Seq(OrderedEdge(P))
    PROVE  /\ FoldLeft(Ends, base, edges) \in Registries(P)
           /\ \A i \in 1..Len(edges) :
                 {edges[i].edge.source, edges[i].edge.target} \subseteq DOMAIN FoldLeft(Ends, base, edges)
<1> DEFINE n == Len(edges)
           op == [p \in Registries(P) \X OrderedEdge(P) |-> Ends(p[1], p[2])]
           Folded(it) == it = [s \in SUBSET (DOMAIN edges) |->
                                 IF s = {} THEN base
                                 ELSE Ends(it[s \ {Max(s)}], edges[Max(s)])]
           iter == CHOOSE it : Folded(it)
<1>1. DOMAIN edges = 1..n /\ n \in Nat
  OBVIOUS
<1>2. op \in [Registries(P) \X OrderedEdge(P) -> Registries(P)]
  <2>1. ASSUME NEW ns \in Registries(P), NEW x \in OrderedEdge(P) PROVE Ends(ns, x) \in Registries(P)
    BY EndsFollow
  <2> QED
    BY <2>1
<1>3. PICK h : IsFold(h, Registries(P), op, base, edges, n)
  <2> HIDE DEF op
  <2> QED
    BY <1>2, FoldExists
<1>4. h \in [SUBSET (1..n) -> Registries(P)]
  BY <1>3 DEF IsFold
<1>5. ASSUME NEW s \in SUBSET (1..n), s # {}
      PROVE  /\ s \ {Max(s)} \in SUBSET (1..n)
             /\ op[<<h[s \ {Max(s)}], edges[Max(s)]>>] = Ends(h[s \ {Max(s)}], edges[Max(s)])
  <2>1. Max(s) \in s
    BY <1>1, <1>5, GreatestElement
  <2>2. s \ {Max(s)} \in SUBSET (1..n) /\ edges[Max(s)] \in OrderedEdge(P)
    <3>1. PICK m \in 1..n : m = Max(s)
      BY <2>1
    <3>2. edges[m] \in OrderedEdge(P)
      BY <1>1
    <3> QED
      BY <3>1, <3>2
  <2>3. h[s \ {Max(s)}] \in Registries(P)
    BY <1>4, <2>2
  <2> QED
    BY <2>2, <2>3
<1>6. Folded(h)
  <2> HIDE DEF op
  <2>1. ASSUME NEW s \in SUBSET (1..n)
        PROVE  h[s] = IF s = {} THEN base ELSE Ends(h[s \ {Max(s)}], edges[Max(s)])
    BY <1>3, <1>5 DEF IsFold
  <2> QED
    BY <1>1, <1>4, <2>1
<1>7. Folded(iter)
  <2> HIDE DEF Folded
  <2> QED
    BY <1>6
<1>8. iter[1..n] = h[1..n]
  <2> HIDE DEF op
  <2>1. iter[{}] = base
    BY <1>7
  <2>2. ASSUME NEW s \in SUBSET (1..n), s # {}, iter[s \ {Max(s)}] = h[s \ {Max(s)}]
        PROVE  iter[s] = op[<<h[s \ {Max(s)}], edges[Max(s)]>>]
    <3>1. iter[s] = Ends(iter[s \ {Max(s)}], edges[Max(s)])
      <4> HIDE DEF iter
      <4> QED
        BY <1>1, <1>7, <2>2
    <3> HIDE DEF iter
    <3> QED
      BY <1>5, <2>2, <3>1
  <2>3. FollowsFold(iter, h, op, base, edges, n)
    <3> HIDE DEF iter, Folded
    <3> QED
      BY <2>1, <2>2 DEF FollowsFold
  <2> HIDE DEF iter, Folded
  <2> QED
    BY <1>1, <1>3, <2>3, FoldAgrees
<1>9. FoldLeft(Ends, base, edges) = iter[DOMAIN edges]
  BY DEF FoldLeft, MapThenFoldSet
<1>10. FoldLeft(Ends, base, edges) = h[1..n]
  <2> HIDE DEF iter
  <2> QED
    BY <1>1, <1>8, <1>9
<1>11. /\ \A i \in 1..n : h[1..i] = op[<<h[1..(i - 1)], edges[i]>>]
       /\ \A i \in 0..n : h[1..i] \in Registries(P)
  <2> HIDE DEF op
  <2> QED
    BY <1>1, <1>3, FoldSteps
<1>12. ASSUME NEW i \in 1..n
       PROVE  DOMAIN h[1..i] = DOMAIN h[1..(i - 1)] \union {edges[i].edge.source, edges[i].edge.target}
  <2>1. edges[i] \in OrderedEdge(P) /\ i - 1 \in 0..n
    BY <1>1
  <2>2. h[1..(i - 1)] \in Registries(P)
    BY <1>11, <2>1
  <2>3. h[1..i] = Ends(h[1..(i - 1)], edges[i])
    BY <1>11, <2>1, <2>2
  <2>4. PICK ns \in Registries(P), x \in OrderedEdge(P) : ns = h[1..(i - 1)] /\ x = edges[i]
    BY <2>1, <2>2
  <2>5. DOMAIN Ends(ns, x) = DOMAIN ns \union {x.edge.source, x.edge.target}
    BY EndsFollow
  <2> QED
    BY <2>3, <2>4, <2>5
<1> DEFINE T == {i \in Nat : i <= n =>
                   \A j \in 1..i : {edges[j].edge.source, edges[j].edge.target} \subseteq DOMAIN h[1..i]}
<1>13. 0 \in T
  OBVIOUS
<1>14. ASSUME NEW i \in Nat, i \in T PROVE i + 1 \in T
  <2>1. SUFFICES ASSUME i + 1 <= n, NEW j \in 1..(i + 1)
                 PROVE  {edges[j].edge.source, edges[j].edge.target} \subseteq DOMAIN h[1..(i + 1)]
    OBVIOUS
  <2>2. i + 1 \in 1..n /\ (i + 1) - 1 = i
    BY <2>1
  <2>3. DOMAIN h[1..(i + 1)] =
          DOMAIN h[1..i] \union {edges[i + 1].edge.source, edges[i + 1].edge.target}
    BY <1>12, <2>2
  <2>4. j \in 1..i \/ j = i + 1
    OBVIOUS
  <2> QED
    BY <1>14, <2>1, <2>3, <2>4
<1>15. \A i \in Nat : i \in T
  <2> HIDE DEF T
  <2> QED
    BY <1>13, <1>14, SetInduction
<1>16. \A j \in 1..n : {edges[j].edge.source, edges[j].edge.target} \subseteq DOMAIN h[1..n]
  BY <1>1, <1>15
<1>17. h[1..n] \in Registries(P)
  BY <1>4
<1> QED
  BY <1>10, <1>16, <1>17

\* A graph of functions that call symbols and of files that import modules.
Shaped(g) ==
    /\ g = [nodes |-> g.nodes, edges |-> g.edges]
    /\ g.nodes \in Registries(File)
    /\ \A e \in g.edges :
          /\ {e.source, e.target} \subseteq DOMAIN g.nodes
          /\ \/ e.kind = "calls" /\ e.source \in FunctionIds /\ e.target \in SymbolIds
             \/ e.kind = "imports" /\ e.source \in FileIds /\ e.target \in ModuleIds

LEMMA EmptyGraphShaped == Shaped(EmptyGraph)
  BY NoNodes DEF Shaped, EmptyGraph

LEMMA GraphOfRepo ==
    ASSUME NEW r \in Repos, ~Escapes(r)
    PROVE  Shaped(GraphOf(r)) /\ GraphOf(r).nodes \in Registries(DOMAIN r)
<1> DEFINE tree == RawTree(r)
           edges == OrderedEdges(tree)
           nodes == FoldLeft(Ends, DefinedNodes(tree), edges)
           edge(i) == [source |-> edges[i].edge.source, target |-> edges[i].edge.target,
                       kind |-> EdgeKind[edges[i].edge.kind]]
           P == DOMAIN r
           g == [nodes |-> nodes, edges |-> {edge(i) : i \in DOMAIN edges}]
<1>1. tree \in Seq(TreeFile(P)) /\ P \in SUBSET File
  BY TreeOfRepo, GraphStoreAssumption
<1> HIDE DEF tree, P
<1>2. DefinedNodes(tree) \in Registries(P) /\ edges \in Seq(OrderedEdge(P))
  BY <1>1, DefinedNodesFollow, OrderedEdgesType
<1> HIDE DEF edges
<1>3. /\ nodes \in Registries(P)
      /\ \A i \in 1..Len(edges) :
            {edges[i].edge.source, edges[i].edge.target} \subseteq DOMAIN nodes
  BY <1>1, <1>2, AllEndsFollow
<1> HIDE DEF nodes
<1>4. ASSUME NEW i \in DOMAIN edges
      PROVE  /\ {edge(i).source, edge(i).target} \subseteq DOMAIN nodes
             /\ \/ edge(i).kind = "calls" /\ edge(i).source \in FunctionIds /\ edge(i).target \in SymbolIds
                \/ edge(i).kind = "imports" /\ edge(i).source \in FileIds /\ edge(i).target \in ModuleIds
  <2>1. i \in 1..Len(edges) /\ edges[i] \in OrderedEdge(P)
    BY <1>2
  <2>2. edges[i].edge \in RawEdge
    BY <2>1 DEF OrderedEdge
  <2> QED
    BY <1>3, <2>1, <2>2 DEF RawEdge, EdgeKind
<1>5. Shaped(g)
  <2>1. nodes \in Registries(File)
    BY <1>1, <1>3, RegistriesGrow
  <2> HIDE DEF edge
  <2> QED
    BY <1>3, <1>4, <2>1 DEF Shaped
<1>6. GraphOf(r) = g
  BY DEF GraphOf, tree, edges, nodes
<1>7. g.nodes \in Registries(DOMAIN r)
  BY <1>3 DEF P
<1> HIDE DEF g
<1> QED
  BY <1>5, <1>6, <1>7

LEMMA NodesOfShaped ==
    ASSUME NEW g, Shaped(g)
    PROVE  /\ DOMAIN g.nodes \in SUBSET Ids
           /\ \A id \in DOMAIN g.nodes : g.nodes[id] \in Fits(File, id)
           /\ IsGraph(g)
<1>1. g.nodes \in Registries(File)
  BY DEF Shaped
<1>2. /\ DOMAIN g.nodes \in SUBSET Ids
      /\ \A id \in DOMAIN g.nodes : g.nodes[id] \in Fits(File, id)
  BY <1>1 DEF Registries
<1>4. g.nodes \in [DOMAIN g.nodes -> [kind: {"file", "function", "type", "symbol"},
                                      symbol: Name \union File, file: File \union {NoFile}]]
  BY <1>1 DEF Registries, Attribute
<1>5. DOMAIN g = {"nodes", "edges"}
  <2>1. PICK n, e : g = [nodes |-> n, edges |-> e]
    BY DEF Shaped
  <2> QED
    BY <2>1
<1>6. \A e \in g.edges : {e.source, e.target} \subseteq DOMAIN g.nodes /\ e.kind \in {"calls", "imports"}
  BY DEF Shaped
<1> QED
  BY <1>2, <1>4, <1>5, <1>6 DEF IsGraph

----
(* The graph while a session answers queries.                              *)

Loaded ==
    /\ repo \in Repos
    /\ graph = EmptyGraph \/ (~Escapes(repo) /\ graph = GraphOf(repo))

LEMMA LoadedShaped == Loaded => Shaped(graph)
  BY EmptyGraphShaped, GraphOfRepo DEF Loaded

LEMMA LoadedInit == Init => Loaded
  BY DEF Init, Loaded

LEMMA LoadedNext == Loaded /\ [Next]_vars => Loaded'
<1> SUFFICES ASSUME Loaded, [Next]_vars PROVE Loaded'
  OBVIOUS
<1>1. repo' = repo /\ (graph' = graph \/ (~Escapes(repo) /\ graph' = GraphOf(repo)))
  BY DEF Next, vars, Load, LoadFails, Collect, Resolve, ResolveCandidates, Start, Visit, Return
<1> QED
  BY <1>1 DEF Loaded

LEMMA AlwaysLoaded == Spec => []Loaded
  BY LoadedInit, LoadedNext, PTL DEF Spec

LEMMA AlwaysShaped == Spec => []Shaped(graph)
  BY AlwaysLoaded, LoadedShaped, PTL

\* In the graph of any repository that can be loaded, with any links among its files, a
\* node carries what fits its id, by whichever definition, call or import of whichever
\* file it was mentioned first: a file or a function has a path of the repository that
\* leads to the path in its id, a reference exactly what its id spells.
THEOREM AttributesFollowIdsAlways == Spec => []AttributesFollowIds
<1>1. ASSUME Loaded PROVE AttributesFollowIds
  <2>1. graph.nodes \in Registries(DOMAIN repo)
    BY <1>1, NoNodes, GraphOfRepo DEF Loaded, EmptyGraph
  <2>2. \A id \in DOMAIN graph.nodes : graph.nodes[id] \in Fits(DOMAIN repo, id)
    BY <2>1 DEF Registries
  <2>3. \A id : Fits(DOMAIN repo, id) = Fitting(id)
    BY DEF Fits, Fitting
  <2> QED
    BY <2>2, <2>3 DEF AttributesFollowIds
<1> QED
  BY <1>1, AlwaysLoaded, PTL

\* In the graph of any repository edges lead from functions and files to references,
\* and none leads further, also when the file defines the name it calls.
THEOREM ReferencesAreLeavesAlways == Spec => []ReferencesAreLeaves
<1>1. ASSUME Shaped(graph) PROVE ReferencesAreLeaves
  <2>1. ASSUME NEW e \in graph.edges
        PROVE  /\ NodeKind(e.source) = (IF e.kind = "calls" THEN "function" ELSE "file")
               /\ NodeKind(e.target) = (IF e.kind = "calls" THEN "symbol" ELSE "type")
               /\ NodeKind(e.source) \in {"function", "file"}
               /\ NodeKind(e.target) \in {"symbol", "type"}
    <3>1. CASE e.kind = "calls" /\ e.source \in FunctionIds /\ e.target \in SymbolIds
      BY <3>1, IdParts DEF FunctionIds, SymbolIds
    <3>2. CASE e.kind = "imports" /\ e.source \in FileIds /\ e.target \in ModuleIds
      BY <3>2, IdParts DEF FileIds, ModuleIds
    <3> QED
      BY <1>1, <3>1, <3>2 DEF Shaped
  <2>2. ASSUME NEW d \in graph.edges, NEW e \in graph.edges PROVE d.source # e.target
    BY <2>1
  <2> QED
    BY <2>1, <2>2 DEF ReferencesAreLeaves
<1> QED
  BY <1>1, AlwaysShaped, PTL
----
(* The neighbourhood search.                                               *)

\* Neighbors and Within, of any graph.
Near(g, id) ==
    {e.target : e \in {d \in g.edges : d.source = id}}
    \union {e.source : e \in {d \in g.edges : d.target = id}}

IsBall(b, g, id, radius) ==
    b = [k \in 0..radius |->
            IF k = 0 THEN {id} ELSE b[k - 1] \union UNION {Near(g, n) : n \in b[k - 1]}]

BallOf(g, id, radius) == (CHOOSE b : IsBall(b, g, id, radius))[radius]

\* The balls around a node, by radius.
Balls(g, id) == [k \in Nat |-> BallOf(g, id, k)]

GrowAround(w, g, id) ==
    /\ w[0] = {id}
    /\ \A k \in Nat : w[k + 1] = w[k] \union UNION {Near(g, n) : n \in w[k]}
    /\ \A j, k \in Nat : j <= k => w[j] \subseteq w[k]

\* The loop's invariant.  The queue is ordered by distance and holds at most two of them;
\* an entry's distance is that of its node; nodes nearer than the head's distance, and as
\* near, are all visited; what is visited and not queued has its neighbours visited.
Queued(s, w) ==
    /\ \A i \in 1..Len(s.queue) :
          /\ s.queue[i].id \in w[s.queue[i].dist]
          /\ \A k \in Nat : k < s.queue[i].dist => s.queue[i].id \notin w[k]
          /\ s.queue[i].dist <= s.queue[1].dist + 1
    /\ \A i, j \in 1..Len(s.queue) : i < j => s.queue[i].dist <= s.queue[j].dist
    /\ Len(s.queue) > 0 => w[s.queue[1].dist] \subseteq s.visited

Done(g, s, w) ==
    \A v \in s.visited, k \in Nat :
        k < s.radius /\ v \in w[k] =>
            (\E i \in 1..Len(s.queue) : s.queue[i].id = v) \/ Near(g, v) \subseteq s.visited

Searched(g, s) ==
    /\ s = [pc |-> "visit", of |-> s.of, radius |-> s.radius, queue |-> s.queue,
            visited |-> s.visited]
    /\ s.radius \in Nat
    /\ s.visited \subseteq DOMAIN g.nodes
    /\ s.of \in s.visited
    /\ s.queue \in Seq([id: s.visited, dist: 0..s.radius])

Searching(g, s, w) ==
    /\ Searched(g, s)
    /\ s.visited \subseteq w[s.radius]
    /\ Queued(s, w)
    /\ Done(g, s, w)

BallAnswered(g, a) ==
    a.type = "neighborhood" =>
        a.visited = IF a.radius < 0 THEN {} ELSE BallOf(g, a.of, a.radius)

SearchFollows ==
    /\ search # Idle => graph # EmptyGraph /\ Searching(graph, search, Balls(graph, search.of))
    /\ answer.type = "neighborhood" => graph # EmptyGraph
    /\ BallAnswered(graph, answer)

LEMMA BallExists ==
    ASSUME NEW g, NEW id, NEW radius \in Nat
    PROVE  \E b : IsBall(b, g, id, radius)
<1> DEFINE T == {n \in Nat : \E b : IsBall(b, g, id, n)}
<1>1. 0 \in T
  <2>1. IsBall([k \in 0..0 |-> {id}], g, id, 0)
    BY DEF IsBall
  <2> QED
    BY <2>1
<1>2. ASSUME NEW n \in Nat, n \in T PROVE n + 1 \in T
  <2>1. PICK b : IsBall(b, g, id, n)
    BY <1>2
  <2> DEFINE c == [k \in 0..(n + 1) |->
                      IF k = n + 1 THEN b[n] \union UNION {Near(g, x) : x \in b[n]} ELSE b[k]]
  <2>2. ASSUME NEW k \in 0..(n + 1)
        PROVE  c[k] = IF k = 0 THEN {id} ELSE c[k - 1] \union UNION {Near(g, x) : x \in c[k - 1]}
    <3>1. CASE k = 0
      BY <3>1, <2>1 DEF IsBall
    <3>2. CASE k = n + 1
      <4>1. c[k] = b[n] \union UNION {Near(g, x) : x \in b[n]}
        BY <3>2
      <4>2. c[k - 1] = b[n] /\ k # 0
        BY <3>2
      <4> QED
        BY <4>1, <4>2
    <3>3. CASE k \in 1..n
      <4>1. c[k] = b[k] /\ c[k - 1] = b[k - 1]
        BY <3>3
      <4>2. b[k] = b[k - 1] \union UNION {Near(g, x) : x \in b[k - 1]}
        BY <3>3, <2>1 DEF IsBall
      <4>3. k # 0
        BY <3>3
      <4> HIDE DEF c
      <4> QED
        BY <4>1, <4>2, <4>3
    <3> QED
      BY <3>1, <3>2, <3>3
  <2>3. c = [k \in 0..(n + 1) |-> c[k]]
    OBVIOUS
  <2> HIDE DEF c
  <2>4. IsBall(c, g, id, n + 1)
    BY <2>2, <2>3 DEF IsBall
  <2> QED
    BY <2>4
<1> HIDE DEF T
<1>3. \A n \in Nat : n \in T
  BY <1>1, <1>2, SetInduction
<1> QED
  BY <1>3 DEF T

\* The balls of a larger radius are those of a smaller one, as far as they go.
LEMMA BallsAgree ==
    ASSUME NEW g, NEW id, NEW m \in Nat, NEW n \in Nat, m <= n,
           NEW b, IsBall(b, g, id, m), NEW c, IsBall(c, g, id, n)
    PROVE  \A k \in 0..m : b[k] = c[k]
<1> DEFINE T == {k \in Nat : k <= m => b[k] = c[k]}
<1>1. 0 \in T
  BY DEF IsBall
<1>2. ASSUME NEW k \in Nat, k \in T PROVE k + 1 \in T
  <2> SUFFICES ASSUME k + 1 <= m PROVE b[k + 1] = c[k + 1]
    OBVIOUS
  <2>1. b[k] = c[k]
    BY <1>2
  <2>2. k + 1 \in 0..m /\ k + 1 \in 0..n /\ k + 1 # 0 /\ (k + 1) - 1 = k
    OBVIOUS
  <2>3. b[k + 1] = b[k] \union UNION {Near(g, x) : x \in b[k]}
    BY <2>2 DEF IsBall
  <2>4. c[k + 1] = c[k] \union UNION {Near(g, x) : x \in c[k]}
    BY <2>2 DEF IsBall
  <2> QED
    BY <2>1, <2>3, <2>4
<1> HIDE DEF T
<1>3. \A k \in Nat : k \in T
  BY <1>1, <1>2, SetInduction
<1> QED
  BY <1>3 DEF T

LEMMA BallsGrow ==
    ASSUME NEW g, NEW id
    PROVE  GrowAround(Balls(g, id), g, id)
<1> DEFINE w == Balls(g, id)
<1>0. \A k \in Nat : w[k] = BallOf(g, id, k)
  BY DEF Balls
<1> DEFINE ball(n) == CHOOSE b : IsBall(b, g, id, n)
<1>1. \A n \in Nat : IsBall(ball(n), g, id, n) /\ w[n] = ball(n)[n]
  BY <1>0, BallExists DEF BallOf
<1> HIDE DEF w, ball
<1>2. w[0] = {id}
  <2>1. IsBall(ball(0), g, id, 0) /\ w[0] = ball(0)[0]
    BY <1>1
  <2> QED
    BY <2>1 DEF IsBall
<1>3. ASSUME NEW k \in Nat
      PROVE  w[k + 1] = w[k] \union UNION {Near(g, n) : n \in w[k]}
  <2>1. PICK b : IsBall(b, g, id, k) /\ w[k] = b[k]
    BY <1>1
  <2>2. k + 1 \in Nat /\ k <= k + 1 /\ k \in 0..k
    OBVIOUS
  <2>3. PICK c : IsBall(c, g, id, k + 1) /\ w[k + 1] = c[k + 1]
    BY <1>1, <2>2
  <2>4. b[k] = c[k]
    BY <2>1, <2>2, <2>3, BallsAgree
  <2>5. k + 1 \in 0..(k + 1) /\ k + 1 # 0 /\ (k + 1) - 1 = k
    OBVIOUS
  <2>6. c[k + 1] = c[k] \union UNION {Near(g, n) : n \in c[k]}
    BY <2>3, <2>5 DEF IsBall
  <2> QED
    BY <2>1, <2>3, <2>4, <2>6
<1>4. ASSUME NEW j \in Nat, NEW k \in Nat, j <= k PROVE w[j] \subseteq w[k]
  <2> DEFINE T == {i \in Nat : j <= i => w[j] \subseteq w[i]}
  <2>1. 0 \in T
    OBVIOUS
  <2>2. ASSUME NEW i \in Nat, i \in T PROVE i + 1 \in T
    <3>1. w[i] \subseteq w[i + 1]
      BY <1>3
    <3>2. j <= i + 1 => j = i + 1 \/ j <= i
      OBVIOUS
    <3> QED
      BY <2>2, <3>1, <3>2
  <2> HIDE DEF T
  <2>3. \A i \in Nat : i \in T
    BY <2>1, <2>2, SetInduction
  <2> QED
    BY <1>4, <2>3 DEF T
<1>5. GrowAround(w, g, id)
  BY <1>2, <1>3, <1>4 DEF GrowAround
<1> QED
  BY <1>5 DEF w

LEMMA WithinIsBall ==
    /\ \A id : Neighbors(id) = Near(graph, id)
    /\ \A id, radius : Within(id, radius) = BallOf(graph, id, radius)
<1>1. \A id : Neighbors(id) = Near(graph, id)
  BY DEF Neighbors, Near
<1>2. ASSUME NEW id, NEW radius PROVE Within(id, radius) = BallOf(graph, id, radius)
  BY DEF Within, BallOf, IsBall, Neighbors, Near
<1> QED
  BY <1>1, <1>2

LEMMA NearInGraph ==
    ASSUME NEW g, Shaped(g), NEW id
    PROVE  Near(g, id) \subseteq DOMAIN g.nodes
BY DEF Shaped, Near

LEMMA EntriesTyped ==
    ASSUME NEW X, NEW s \in Seq(X)
    PROVE  Len(s) \in Nat /\ \A i \in 1..Len(s) : s[i] \in X
OBVIOUS

LEMMA Concatenated ==
    ASSUME NEW Y, NEW s \in Seq(Y), NEW t \in Seq(Y)
    PROVE  /\ s \o t \in Seq(Y) /\ Len(s \o t) = Len(s) + Len(t)
           /\ \A i \in 1..Len(s) : (s \o t)[i] = s[i]
           /\ \A i \in 1..Len(t) : (s \o t)[Len(s) + i] = t[i]
OBVIOUS

\* What a queue is after a turn: without its head, and with the new entries.
Requeued(q2, q, new, d) ==
    /\ \A i \in 1..Len(q2) : (i + 1 \in 1..Len(q) /\ q2[i] = q[i + 1]) \/ (q2[i].id \in new /\ q2[i].dist = d)
    /\ \A i, j \in 1..Len(q2) : i < j =>
          \/ i + 1 \in 1..Len(q) /\ j + 1 \in 1..Len(q) /\ q2[i] = q[i + 1] /\ q2[j] = q[j + 1]
          \/ q2[j].id \in new /\ q2[j].dist = d
    /\ \A i \in 1..Len(q) : i # 1 => \E j \in 1..Len(q2) : q2[j] = q[i]
    /\ \A x \in new : \E j \in 1..Len(q2) : q2[j].id = x

LEMMA QueueTurns ==
    ASSUME NEW X, NEW q \in Seq(X), q # <<>>, NEW new \in SUBSET Ids, NEW d,
           NEW entries, entries = [i \in 1..Cardinality(new) |-> [id |-> Sorted(new)[i], dist |-> d]],
           NEW Y, X \subseteq Y, \A x \in new : [id |-> x, dist |-> d] \in Y
    PROVE  /\ Tail(q) \o entries \in Seq(Y)
           /\ Requeued(Tail(q) \o entries, q, new, d)
<1> DEFINE m == Cardinality(new)
           n == Len(q)
           q2 == Tail(q) \o entries
<1>0. IsFiniteSet(new) /\ new \in SUBSET Seq(Nat)
  BY IdsFinite, IdsAreStrings, FS_Subset
<1>1. m \in Nat
  BY <1>0, FS_CardinalityType
<1>2. Lists(Sorted(new), new, StringOrder(new))
  BY <1>0, SortedLists
<1>3. /\ \A i \in 1..m : entries[i].id \in new /\ entries[i].dist = d /\ entries[i] \in Y
      /\ \A x \in new : \E i \in 1..m : entries[i].id = x
  <2>1. \A i \in 1..m : Sorted(new)[i] \in new /\ entries[i] = [id |-> Sorted(new)[i], dist |-> d]
    BY <1>2 DEF Lists
  <2>2. \A x \in new : \E i \in 1..m : Sorted(new)[i] = x
    BY <1>2 DEF Lists
  <2> QED
    BY <2>1, <2>2
<1>4. entries \in Seq(Y) /\ Len(entries) = m
  BY <1>1, <1>3
<1>5. n \in Nat /\ n >= 1 /\ Tail(q) \in Seq(Y) /\ Len(Tail(q)) = n - 1
      /\ \A i \in 1..(n - 1) : Tail(q)[i] = q[i + 1]
  BY DEF n
<1> HIDE DEF m
<1>6. /\ q2 \in Seq(Y) /\ Len(q2) = n - 1 + m
      /\ \A i \in 1..(n - 1) : q2[i] = q[i + 1]
      /\ \A i \in 1..m : q2[n - 1 + i] = entries[i]
  <2>1. /\ q2 \in Seq(Y) /\ Len(q2) = Len(Tail(q)) + Len(entries)
        /\ \A i \in 1..Len(Tail(q)) : q2[i] = Tail(q)[i]
        /\ \A i \in 1..Len(entries) : q2[Len(Tail(q)) + i] = entries[i]
    <3>1. PICK tail \in Seq(Y) : tail = Tail(q)
      BY <1>5
    <3>2. /\ tail \o entries \in Seq(Y) /\ Len(tail \o entries) = Len(tail) + Len(entries)
          /\ \A i \in 1..Len(tail) : (tail \o entries)[i] = tail[i]
          /\ \A i \in 1..Len(entries) : (tail \o entries)[Len(tail) + i] = entries[i]
      <4>1. PICK added \in Seq(Y) : added = entries
        BY <1>4
      <4>2. /\ tail \o added \in Seq(Y) /\ Len(tail \o added) = Len(tail) + Len(added)
            /\ \A i \in 1..Len(tail) : (tail \o added)[i] = tail[i]
            /\ \A i \in 1..Len(added) : (tail \o added)[Len(tail) + i] = added[i]
        BY Concatenated
      <4> QED
        BY <4>1, <4>2, Zenon
    <3>3. q2 = tail \o entries
      BY <3>1
    <3> HIDE DEF q2
    <3> QED
      BY <3>1, <3>2, <3>3
  <2> HIDE DEF q2, n
  <2> QED
    BY <1>4, <1>5, <2>1
<1> HIDE DEF q2, n
<1>7. ASSUME NEW i \in 1..Len(q2)
      PROVE  (i \in 1..(n - 1) /\ i + 1 \in 1..n) \/ (i \notin 1..(n - 1) /\ i - (n - 1) \in 1..m)
  BY <1>1, <1>5, <1>6
<1>8. ASSUME NEW i \in 1..Len(q2), i \notin 1..(n - 1)
      PROVE  q2[i].id \in new /\ q2[i].dist = d
  <2>1. PICK j \in 1..m : i = n - 1 + j
    <3>1. i - (n - 1) \in 1..m /\ i = n - 1 + (i - (n - 1))
      BY <1>5, <1>7, <1>8
    <3> QED
      BY <3>1
  <2>2. q2[i] = entries[j]
    BY <1>6, <2>1
  <2> QED
    BY <1>3, <2>1, <2>2
<1>9. ASSUME NEW i \in 1..Len(q2), NEW j \in 1..Len(q2), i < j, j \in 1..(n - 1)
      PROVE  i \in 1..(n - 1)
  BY <1>5, <1>9
<1>10. ASSUME NEW i \in 1..n, i # 1 PROVE \E j \in 1..Len(q2) : q2[j] = q[i]
  <2>1. i - 1 \in 1..(n - 1) /\ i - 1 \in 1..Len(q2) /\ (i - 1) + 1 = i
    BY <1>1, <1>5, <1>6, <1>10
  <2> QED
    BY <1>6, <2>1
<1>11. ASSUME NEW x \in new PROVE \E j \in 1..Len(q2) : q2[j].id = x
  <2>1. PICK i \in 1..m : entries[i].id = x
    BY <1>3
  <2>2. n - 1 + i \in 1..Len(q2)
    BY <1>1, <1>5, <1>6
  <2>3. q2[n - 1 + i] = entries[i]
    BY <1>6
  <2> QED
    BY <2>1, <2>2, <2>3
<1>12. \A i \in 1..Len(q2) : (i + 1 \in 1..n /\ q2[i] = q[i + 1]) \/ (q2[i].id \in new /\ q2[i].dist = d)
  BY <1>6, <1>7, <1>8
<1>13. \A i, j \in 1..Len(q2) : i < j =>
          \/ i + 1 \in 1..n /\ j + 1 \in 1..n /\ q2[i] = q[i + 1] /\ q2[j] = q[j + 1]
          \/ q2[j].id \in new /\ q2[j].dist = d
  BY <1>6, <1>7, <1>8, <1>9
<1>14. Requeued(q2, q, new, d)
  BY <1>10, <1>11, <1>12, <1>13 DEF Requeued, n
<1> QED
  BY <1>6, <1>14 DEF q2

\* One turn of the loop keeps its invariant.
LEMMA SearchTurn ==
    ASSUME NEW g, Shaped(g), NEW s, NEW w, GrowAround(w, g, s.of), Searching(g, s, w),
           NEW c, s.queue # <<>>, c = Head(s.queue),
           NEW new, new = (IF c.dist >= s.radius THEN {} ELSE Near(g, c.id) \ s.visited),
           NEW q2, NEW t,
           t = [pc |-> "visit", of |-> s.of, radius |-> s.radius, queue |-> q2,
                visited |-> s.visited \union new],
           q2 \in Seq([id: t.visited, dist: 0..s.radius]),
           Requeued(q2, s.queue, new, c.dist + 1)
    PROVE  Searching(g, t, w)
<1> DEFINE q == s.queue
           d == c.dist
           r == s.radius
           V == s.visited
           U == V \union new
<1>1. /\ q \in Seq([id: V, dist: 0..r]) /\ r \in Nat
      /\ V \subseteq DOMAIN g.nodes /\ s.of \in V
      /\ V \subseteq w[r]
  BY DEF Searching, Searched
<1>2. /\ 1 \in 1..Len(q) /\ c = q[1] /\ c.id \in V /\ d \in 0..r
      /\ d \in Nat /\ d <= r /\ (d >= r => d = r)
  <2>1. 1 \in 1..Len(q) /\ c = q[1]
    BY <1>1
  <2>2. q[1] \in [id: V, dist: 0..r]
    BY <1>1, <2>1, EntriesTyped
  <2>3. c.id \in V /\ d \in 0..r
    BY <2>1, <2>2
  <2> QED
    BY <1>1, <2>1, <2>3
<1>3. /\ t.queue = q2 /\ t.visited = U /\ t.radius = r /\ t.of = s.of
      /\ \A i \in 1..Len(q2) : q2[i].id \in U /\ q2[i].dist \in 0..r
      /\ \A i \in 1..Len(q) : q[i].id \in V /\ q[i].dist \in 0..r
      /\ Len(q) \in Nat /\ Len(q2) \in Nat
  <2>1. t.queue = q2 /\ t.visited = U /\ t.radius = r /\ t.of = s.of
    OBVIOUS
  <2>2. q2 \in Seq([id: U, dist: 0..r])
    BY <2>1
  <2>3. \A i \in 1..Len(q2) : q2[i] \in [id: U, dist: 0..r]
    BY <2>2, EntriesTyped
  <2>4. \A i \in 1..Len(q) : q[i] \in [id: V, dist: 0..r]
    BY <1>1, EntriesTyped
  <2>5. Len(q) \in Nat /\ Len(q2) \in Nat
    BY <1>1, <2>2
  <2> HIDE DEF U, V, q, r
  <2> QED
    BY <2>1, <2>3, <2>4, <2>5
<1>4. /\ \A i \in 1..Len(q) :
            /\ q[i].id \in w[q[i].dist]
            /\ \A k \in Nat : k < q[i].dist => q[i].id \notin w[k]
            /\ q[i].dist <= d + 1
      /\ \A i, j \in 1..Len(q) : i < j => q[i].dist <= q[j].dist
      /\ \A i \in 1..Len(q) : q[i].dist >= d
      /\ w[d] \subseteq V
  <2>1. Queued(s, w)
    BY DEF Searching
  <2>2. \A i \in 1..Len(q) : i = 1 \/ 1 < i
    OBVIOUS
  <2>3. Len(q) > 0
    BY <1>2
  <2>4. ASSUME NEW i \in 1..Len(q) PROVE q[i].dist >= d
    BY <1>2, <1>3, <2>1, <2>2 DEF Queued
  <2> QED
    BY <1>2, <2>1, <2>3, <2>4 DEF Queued
<1>5. \A v \in V, k \in Nat : k < r /\ v \in w[k] =>
          (\E i \in 1..Len(q) : q[i].id = v) \/ Near(g, v) \subseteq V
  BY DEF Searching, Done
<1>6. /\ w[0] = {s.of}
      /\ \A k \in Nat : w[k + 1] = w[k] \union UNION {Near(g, n) : n \in w[k]}
      /\ \A j, k \in Nat : j <= k => w[j] \subseteq w[k]
  BY DEF GrowAround
<1>7. /\ \A i \in 1..Len(q2) : (i + 1 \in 1..Len(q) /\ q2[i] = q[i + 1])
                                \/ (q2[i].id \in new /\ q2[i].dist = d + 1)
      /\ \A i, j \in 1..Len(q2) : i < j =>
            \/ i + 1 \in 1..Len(q) /\ j + 1 \in 1..Len(q) /\ q2[i] = q[i + 1] /\ q2[j] = q[j + 1]
            \/ q2[j].id \in new /\ q2[j].dist = d + 1
      /\ \A i \in 1..Len(q) : i # 1 => \E j \in 1..Len(q2) : q2[j] = q[i]
      /\ \A x \in new : \E j \in 1..Len(q2) : q2[j].id = x
  BY DEF Requeued
<1>8. new \subseteq Near(g, c.id) /\ new \intersect V = {} /\ new \subseteq DOMAIN g.nodes
      /\ (new # {} => d < r) /\ (d < r => Near(g, c.id) \subseteq U)
  BY <1>1, <1>2, NearInGraph
<1>0. /\ \A i \in 1..Len(q) : q[i].dist \in Nat
      /\ \A i \in 1..Len(q2) : q2[i].dist \in Nat
      /\ d = c.dist
  <2> HIDE DEF q, r, U, V
  <2> QED
    BY <1>1, <1>3
<1> HIDE DEF q, d, r
<1>9. new # {} => new \subseteq w[d + 1] /\ d + 1 <= r
  <2>1. c.id \in w[d] /\ d \in Nat
    BY <1>0, <1>2, <1>4
  <2> QED
    BY <1>1, <1>2, <1>6, <1>8, <2>1
<1>10. U \subseteq w[r]
  <2>1. new # {} => w[d + 1] \subseteq w[r]
    BY <1>1, <1>2, <1>6, <1>9
  <2> QED
    BY <1>1, <1>9, <2>1
<1>11. ASSUME NEW i \in 1..Len(q2)
       PROVE  /\ q2[i].dist \in {d, d + 1}
              /\ q2[i].id \in w[q2[i].dist]
              /\ \A k \in Nat : k < q2[i].dist => q2[i].id \notin w[k]
  <2>1. CASE i + 1 \in 1..Len(q) /\ q2[i] = q[i + 1]
    <3>1. q2[i].dist \in Nat /\ q2[i].dist >= d /\ q2[i].dist <= d + 1
      BY <1>0, <1>4, <2>1
    <3>2. q2[i].id \in w[q2[i].dist] /\ \A k \in Nat : k < q2[i].dist => q2[i].id \notin w[k]
      BY <1>4, <2>1
    <3> QED
      BY <1>2, <3>1, <3>2
  <2>2. CASE q2[i].id \in new /\ q2[i].dist = d + 1
    <3>1. q2[i].id \in w[d + 1]
      BY <1>9, <2>2
    <3>2. ASSUME NEW k \in Nat, k < d + 1 PROVE q2[i].id \notin w[k]
      <4>1. w[k] \subseteq w[d]
        BY <1>2, <1>6, <3>2
      <4> QED
        BY <1>4, <1>8, <2>2, <4>1
    <3> QED
      BY <2>2, <3>1, <3>2
  <2> QED
    BY <1>7, <2>1, <2>2
<1>12. ASSUME NEW i \in 1..Len(q2), NEW j \in 1..Len(q2), i < j
       PROVE  q2[i].dist <= q2[j].dist
  <2>1. CASE i + 1 \in 1..Len(q) /\ j + 1 \in 1..Len(q) /\ q2[i] = q[i + 1] /\ q2[j] = q[j + 1]
    <3>1. i + 1 < j + 1
      BY <1>12
    <3> QED
      BY <1>4, <2>1, <3>1
  <2>2. CASE q2[j].id \in new /\ q2[j].dist = d + 1
    <3>1. q2[i].dist \in {d, d + 1}
      BY <1>11
    <3> QED
      BY <1>2, <2>2, <3>1
  <2> QED
    BY <1>7, <1>12, <2>1, <2>2
<1>13. \A v \in U, k \in Nat : k < r /\ v \in w[k] =>
           (\E i \in 1..Len(q2) : q2[i].id = v) \/ Near(g, v) \subseteq U
  <2> SUFFICES ASSUME NEW v \in U, NEW k \in Nat, k < r, v \in w[k],
                      ~(\E i \in 1..Len(q2) : q2[i].id = v)
               PROVE  Near(g, v) \subseteq U
    OBVIOUS
  <2>1. v \in V
    BY <1>7
  <2>2. CASE \E i \in 1..Len(q) : q[i].id = v
    <3>1. PICK i \in 1..Len(q) : q[i].id = v
      BY <2>2
    <3>2. i = 1
      BY <1>7, <3>1
    <3>3. v = c.id
      BY <1>2, <3>1, <3>2
    <3>4. d < r
      <4>1. d \in Nat /\ r \in Nat
        BY <1>1, <1>2
      <4>2. ~(k < d)
        BY <1>0, <1>2, <1>4, <3>3
      <4> QED
        BY <4>1, <4>2
    <3> QED
      BY <1>8, <3>3, <3>4
  <2> QED
    BY <1>5, <2>1, <2>2
<1>14. ASSUME Len(q2) > 0 PROVE w[q2[1].dist] \subseteq U
  <2>1. 1 \in 1..Len(q2)
    BY <1>3, <1>14
  <2>2. CASE q2[1].dist = d
    BY <1>4, <2>2
  <2>3. CASE q2[1].dist = d + 1
    <3>1. d < r
      BY <1>1, <1>2, <1>3, <2>1, <2>3
    <3>2. \A i \in 1..Len(q2) : i = 1 \/ 1 < i
      OBVIOUS
    <3>3. \A i \in 1..Len(q2) : q2[i].dist = d + 1
      BY <1>2, <1>11, <1>12, <2>1, <2>3, <3>2
    <3>4. \A i \in 1..Len(q2) : q2[i].id \notin w[d]
      <4>1. d < d + 1 /\ d \in Nat
        BY <1>2
      <4> QED
        BY <1>11, <3>3, <4>1
    <3>5. ASSUME NEW x \in w[d] PROVE x \in U /\ Near(g, x) \subseteq U
      <4>1. x \in U
        BY <1>4, <3>5
      <4>2. ~(\E i \in 1..Len(q2) : q2[i].id = x)
        BY <3>4, <3>5
      <4> HIDE DEF U
      <4> QED
        BY <1>2, <1>13, <3>1, <3>5, <4>1, <4>2
    <3>6. w[d + 1] = w[d] \union UNION {Near(g, n) : n \in w[d]}
      BY <1>2, <1>6
    <3> QED
      BY <2>3, <3>5, <3>6
  <2> QED
    BY <1>11, <2>1, <2>2, <2>3
<1>15. Queued(t, w)
  <2>1. ASSUME NEW i \in 1..Len(q2) PROVE q2[i].dist <= q2[1].dist + 1
    <3>1. 1 \in 1..Len(q2)
      OBVIOUS
    <3>2. q2[i].dist \in {d, d + 1} /\ q2[1].dist \in {d, d + 1}
      BY <1>11, <3>1
    <3>3. d \in Nat
      BY <1>2
    <3> QED
      BY <3>2, <3>3
  <2> QED
    BY <1>3, <1>11, <1>12, <1>14, <2>1 DEF Queued
<1>16. Done(g, t, w)
  BY <1>3, <1>13 DEF Done
<1>17. Searched(g, t)
  BY <1>1, <1>3, <1>8 DEF Searched
<1> QED
  BY <1>3, <1>10, <1>15, <1>16, <1>17 DEF Searching

LEMMA SearchStarts ==
    ASSUME NEW g, NEW id \in DOMAIN g.nodes, NEW radius \in Nat, NEW s,
           s = [pc |-> "visit", of |-> id, radius |-> radius,
                queue |-> <<[id |-> id, dist |-> 0]>>, visited |-> {id}]
    PROVE  Searching(g, s, Balls(g, id))
<1> DEFINE w == Balls(g, id)
<1>1. GrowAround(w, g, id)
  BY BallsGrow
<1> HIDE DEF w
<1>2. w[0] = {id} /\ {id} \subseteq w[radius]
  <2>1. 0 \in Nat /\ 0 <= radius
    OBVIOUS
  <2> QED
    BY <1>1, <2>1 DEF GrowAround
<1>3. /\ s.queue = <<[id |-> id, dist |-> 0]>> /\ Len(s.queue) = 1 /\ s.visited = {id}
      /\ s.radius = radius /\ s.of = id
      /\ \A i \in 1..Len(s.queue) : i = 1 /\ s.queue[i].id = id /\ s.queue[i].dist = 0
      /\ s.queue[1].dist = 0
  OBVIOUS
<1>4. s.queue \in Seq([id: {id}, dist: 0..radius])
  <2>1. [id |-> id, dist |-> 0] \in [id: {id}, dist: 0..radius]
    OBVIOUS
  <2> QED
    BY <1>3, <2>1
<1>5. Searched(g, s)
  BY <1>3, <1>4 DEF Searched
<1>6. Queued(s, w)
  BY <1>2, <1>3 DEF Queued
<1>7. Done(g, s, w)
  <2>1. \A v \in s.visited : \E i \in 1..Len(s.queue) : s.queue[i].id = v
    BY <1>3
  <2> QED
    BY <2>1 DEF Done
<1>8. Searching(g, s, w)
  BY <1>2, <1>3, <1>5, <1>6, <1>7 DEF Searching
<1> QED
  BY <1>8 DEF w

\* When the queue is empty all of the ball is visited.
LEMMA SearchEnds ==
    ASSUME NEW g, NEW s, s.queue = <<>>, Searching(g, s, Balls(g, s.of))
    PROVE  s.visited = BallOf(g, s.of, s.radius) /\ s.radius \in Nat
<1> DEFINE w == Balls(g, s.of)
           r == s.radius
           T == {k \in Nat : k <= r => w[k] \subseteq s.visited}
<1>1. GrowAround(w, g, s.of)
  BY BallsGrow
<1>2. r \in Nat /\ s.of \in s.visited /\ s.visited \subseteq w[r]
  BY DEF Searching, Searched
<1>3. w[r] = BallOf(g, s.of, r)
  BY <1>2 DEF Balls
<1>4. Done(g, s, w)
  BY DEF Searching
<1> HIDE DEF w
<1>5. 0 \in T
  BY <1>1, <1>2 DEF GrowAround
<1>6. ASSUME NEW k \in Nat, k \in T PROVE k + 1 \in T
  <2> SUFFICES ASSUME k + 1 <= r PROVE w[k + 1] \subseteq s.visited
    OBVIOUS
  <2>1. k < r /\ w[k] \subseteq s.visited
    BY <1>2, <1>6
  <2>2. ~(\E i \in 1..Len(s.queue) : TRUE)
    OBVIOUS
  <2>3. \A n \in w[k] : Near(g, n) \subseteq s.visited
    BY <1>4, <2>1, <2>2 DEF Done
  <2>4. w[k + 1] = w[k] \union UNION {Near(g, n) : n \in w[k]}
    BY <1>1 DEF GrowAround
  <2> QED
    BY <2>1, <2>3, <2>4
<1> HIDE DEF T
<1>7. \A k \in Nat : k \in T
  BY <1>5, <1>6, SetInduction
<1>8. w[r] \subseteq s.visited
  BY <1>2, <1>7 DEF T
<1> QED
  BY <1>2, <1>3, <1>8

LEMMA SearchFollowsInit == Init => SearchFollows
  BY DEF Init, SearchFollows, BallAnswered, NoAnswer

LEMMA SearchFollowsNext == Shaped(graph) /\ SearchFollows /\ [Next]_vars => SearchFollows'
<1> SUFFICES ASSUME Shaped(graph), SearchFollows, [Next]_vars PROVE SearchFollows'
  OBVIOUS
<1>1. CASE Load
  BY <1>1 DEF Load, SearchFollows, BallAnswered
<1>2. ASSUME Open, graph' = graph, search' = search, answer'.type # "neighborhood"
      PROVE  SearchFollows'
  BY <1>2 DEF Open, SearchFollows, BallAnswered
<1>3. ASSUME NEW q \in Query, NEW limit \in Limits, Collect(q, limit) PROVE SearchFollows'
  BY <1>2, <1>3 DEF Collect
<1>4. ASSUME NEW q \in Query, NEW padded \in BOOLEAN, Resolve(q, padded) PROVE SearchFollows'
  BY <1>2, <1>4 DEF Resolve
<1>5. ASSUME NEW q \in Query, NEW padded \in BOOLEAN, NEW limit \in Limits,
             ResolveCandidates(q, padded, limit)
      PROVE  SearchFollows'
  <2>1. Open /\ graph' = graph /\ search' = search
    BY <1>5 DEF ResolveCandidates
  <2>2. answer'.type # "neighborhood"
    BY <1>5 DEF ResolveCandidates
  <2> QED
    BY <1>2, <2>1, <2>2
<1>6. ASSUME NEW id \in DOMAIN graph.nodes, NEW radius \in Radii, Start(id, radius)
      PROVE  SearchFollows'
  <2>1. Open /\ graph' = graph /\ graph # EmptyGraph /\ radius \in Int
    BY <1>6, GraphStoreAssumption DEF Start, Open
  <2>2. CASE radius < 0
    <3>1. /\ answer' = [type |-> "neighborhood", of |-> id, radius |-> radius, visited |-> {}]
          /\ search' = Idle
      BY <1>6, <2>2 DEF Start, Open
    <3> QED
      BY <2>1, <2>2, <3>1 DEF SearchFollows, BallAnswered
  <2>3. CASE ~(radius < 0)
    <3>1. /\ search' = [pc |-> "visit", of |-> id, radius |-> radius,
                        queue |-> <<[id |-> id, dist |-> 0]>>, visited |-> {id}]
          /\ answer' = NoAnswer
      BY <1>6, <2>3 DEF Start, Open
    <3>2. Searching(graph, search', Balls(graph, id)) /\ search'.of = id
      BY <2>1, <2>3, <3>1, SearchStarts
    <3>3. answer'.type # "neighborhood"
      BY <3>1 DEF NoAnswer
    <3> QED
      BY <2>1, <3>2, <3>3 DEF SearchFollows, BallAnswered
  <2> QED
    BY <2>2, <2>3
<1>7. CASE Visit
  <2>1. /\ search.queue # <<>> /\ graph' = graph /\ answer' = answer /\ search # Idle
    BY <1>7 DEF Visit, Idle
  <2> DEFINE s == search
             w == Balls(graph, s.of)
             c == Head(s.queue)
             new == IF c.dist >= s.radius THEN {} ELSE Near(graph, c.id) \ s.visited
             entries == [i \in 1..Cardinality(new) |-> [id |-> Sorted(new)[i], dist |-> c.dist + 1]]
             q2 == Tail(s.queue) \o entries
             t == [pc |-> "visit", of |-> s.of, radius |-> s.radius, queue |-> q2,
                   visited |-> s.visited \union new]
  <2>2. Searching(graph, s, w) /\ GrowAround(w, graph, s.of) /\ graph # EmptyGraph
    BY <2>1, BallsGrow DEF SearchFollows
  <2>3. search' = [s EXCEPT !.queue = q2, !.visited = s.visited \union new]
    BY <1>7, WithinIsBall DEF Visit
  <2>4. s = [pc |-> "visit", of |-> s.of, radius |-> s.radius, queue |-> s.queue,
             visited |-> s.visited]
    BY <2>2 DEF Searching, Searched
  <2>5. search' = t
    <3> HIDE DEF q2, new, s
    <3>1. PICK of, radius, queue, visited :
             s = [pc |-> "visit", of |-> of, radius |-> radius, queue |-> queue, visited |-> visited]
      BY <2>4
    <3>2. s.of = of /\ s.radius = radius
      BY <3>1
    <3> QED
      BY <2>3, <3>1, <3>2
  <2>6. /\ s.queue \in Seq([id: s.visited, dist: 0..s.radius]) /\ s.radius \in Nat
        /\ s.visited \subseteq DOMAIN graph.nodes
    BY <2>2 DEF Searching, Searched
  <2>7. c \in [id: s.visited, dist: 0..s.radius]
    <3>1. 1 \in 1..Len(s.queue) /\ c = s.queue[1]
      BY <2>1, <2>6
    <3>2. \A i \in 1..Len(s.queue) : s.queue[i] \in [id: s.visited, dist: 0..s.radius]
      <4> HIDE DEF s
      <4> QED
        BY <2>6, EntriesTyped
    <3> HIDE DEF s, c
    <3> QED
      BY <3>1, <3>2
  <2>8. new \in SUBSET Ids
    BY NearInGraph, NodesOfShaped
  <2> DEFINE X == [id: s.visited, dist: 0..s.radius]
             Y == [id: s.visited \union new, dist: 0..s.radius]
  <2>9. X \subseteq Y
    OBVIOUS
  <2>10. \A x \in new : [id |-> x, dist |-> c.dist + 1] \in Y
    <3>1. new # {} => c.dist + 1 \in 0..s.radius
      BY <2>6, <2>7
    <3> HIDE DEF new
    <3> QED
      BY <3>1
  <2>11. q2 \in Seq(Y) /\ Requeued(q2, s.queue, new, c.dist + 1)
    <3>1. s.queue \in Seq(X)
      BY <2>6
    <3> DEFINE d == c.dist + 1
    <3>2. entries = [i \in 1..Cardinality(new) |-> [id |-> Sorted(new)[i], dist |-> d]]
      OBVIOUS
    <3>3. \A x \in new : [id |-> x, dist |-> d] \in Y
      BY <2>10
    <3> HIDE DEF new, entries, d, X, Y
    <3>4. /\ Tail(s.queue) \o entries \in Seq(Y)
          /\ Requeued(Tail(s.queue) \o entries, s.queue, new, d)
      BY <2>1, <2>8, <2>9, <3>1, <3>2, <3>3, QueueTurns
    <3> QED
      BY <3>4 DEF d
  <2>12. Searching(graph, t, w)
    <3>1. q2 \in Seq([id: t.visited, dist: 0..s.radius])
      BY <2>11
    <3>2. new = (IF c.dist >= s.radius THEN {} ELSE Near(graph, c.id) \ s.visited)
      OBVIOUS
    <3>3. t = [pc |-> "visit", of |-> s.of, radius |-> s.radius, queue |-> q2,
               visited |-> s.visited \union new]
      OBVIOUS
    <3>4. c = Head(s.queue)
      OBVIOUS
    <3> HIDE DEF new, t, q2, w, c
    <3> QED
      BY <2>1, <2>2, <2>11, <3>1, <3>2, <3>3, <3>4, SearchTurn
  <2>13. t.of = s.of
    OBVIOUS
  <2> HIDE DEF t
  <2> QED
    BY <2>1, <2>2, <2>5, <2>12, <2>13 DEF SearchFollows, BallAnswered
<1>8. CASE Return
  <2>1. /\ search.queue = <<>> /\ graph' = graph /\ search' = Idle /\ search # Idle
        /\ answer' = [type |-> "neighborhood", of |-> search.of, radius |-> search.radius,
                      visited |-> search.visited]
    BY <1>8 DEF Return, Idle
  <2>2. graph # EmptyGraph /\ search.visited = BallOf(graph, search.of, search.radius)
        /\ search.radius \in Nat
    BY <2>1, SearchEnds DEF SearchFollows
  <2>3. ~(search.radius < 0)
    BY <2>2
  <2> QED
    BY <2>1, <2>2, <2>3 DEF SearchFollows, BallAnswered
<1>9. CASE LoadFails
  <2>1. graph' = graph /\ search' = search /\ answer'.type # "neighborhood"
    BY <1>9 DEF LoadFails
  <2> QED
    BY <2>1 DEF SearchFollows, BallAnswered
<1>10. CASE UNCHANGED vars
  BY <1>10 DEF vars, SearchFollows
<1> QED
  BY <1>1, <1>3, <1>4, <1>5, <1>6, <1>7, <1>8, <1>9, <1>10 DEF Next

LEMMA AlwaysSearchFollows == Spec => []SearchFollows
  BY SearchFollowsInit, SearchFollowsNext, AlwaysShaped, PTL DEF Spec

\* In the graph of any repository, and for any radius, the search that visits each node
\* once returns all nodes within the radius and no other.
THEOREM NeighborhoodIsBallAlways == Spec => []NeighborhoodIsBall
<1>1. SearchFollows => NeighborhoodIsBall
  BY WithinIsBall DEF SearchFollows, BallAnswered, NeighborhoodIsBall
<1> QED
  BY <1>1, AlwaysSearchFollows, PTL

----
(* The order of places.                                                    *)

\* A place or key with one more number in front.
IsPrefixed(u, n, s) ==
    /\ u \in Seq(Nat) /\ Len(u) = Len(s) + 1 /\ u[1] = n
    /\ \A i \in 1..Len(s) : u[i + 1] = s[i]

LEMMA PrefixedBefore ==
    ASSUME NEW s \in Seq(Nat), NEW t \in Seq(Nat), NEW n \in Nat, NEW u, NEW v,
           IsPrefixed(u, n, s), IsPrefixed(v, n, t), Before(s, t)
    PROVE  Before(u, v)
<1>1. PICK i \in 1..Len(t) : /\ \A j \in 1..(i - 1) : j <= Len(s) /\ s[j] = t[j]
                             /\ (i = Len(s) + 1 \/ (i <= Len(s) /\ s[i] < t[i]))
  BY DEF Before
<1>2. Len(s) \in Nat /\ Len(t) \in Nat
  OBVIOUS
<1>3. /\ Len(u) = Len(s) + 1 /\ u[1] = n /\ \A j \in 1..Len(s) : u[j + 1] = s[j]
      /\ Len(v) = Len(t) + 1 /\ v[1] = n /\ \A j \in 1..Len(t) : v[j + 1] = t[j]
  BY DEF IsPrefixed
<1>4. i + 1 \in 1..Len(v)
  BY <1>2, <1>3
<1>5. ASSUME NEW j \in 1..((i + 1) - 1) PROVE j <= Len(u) /\ u[j] = v[j]
  <2>1. CASE j = 1
    BY <1>2, <1>3, <2>1
  <2>2. CASE j # 1
    <3>1. j - 1 \in 1..(i - 1) /\ j - 1 \in 1..Len(t)
      BY <1>2, <2>2
    <3>2. j - 1 <= Len(s) /\ s[j - 1] = t[j - 1]
      BY <1>1, <3>1
    <3>3. j - 1 \in 1..Len(s) /\ (j - 1) + 1 = j
      BY <1>2, <3>1, <3>2
    <3>4. u[j] = s[j - 1] /\ v[j] = t[j - 1]
      BY <1>3, <3>1, <3>3
    <3> QED
      BY <1>2, <1>3, <3>2, <3>3, <3>4
  <2> QED
    BY <2>1, <2>2
<1>6. i + 1 = Len(u) + 1 \/ (i + 1 <= Len(u) /\ u[i + 1] < v[i + 1])
  <2>1. CASE i = Len(s) + 1
    BY <1>2, <1>3, <2>1
  <2>2. CASE i <= Len(s) /\ s[i] < t[i]
    <3>1. i \in 1..Len(s)
      BY <1>2, <2>2
    <3>2. u[i + 1] = s[i] /\ v[i + 1] = t[i]
      BY <1>3, <3>1
    <3> QED
      BY <1>2, <1>3, <2>2, <3>2
  <2> QED
    BY <1>1, <2>1, <2>2
<1> QED
  BY <1>4, <1>5, <1>6 DEF Before

LEMMA SmallerFirst ==
    ASSUME NEW u \in Seq(Nat), NEW v \in Seq(Nat), Len(u) >= 1, Len(v) >= 1, u[1] < v[1]
    PROVE  Before(u, v)
<1>1. 1 \in 1..Len(v) /\ 1 <= Len(u) /\ 1..(1 - 1) = {}
  OBVIOUS
<1> QED
  BY <1>1 DEF Before

LEMMA Prefixed ==
    ASSUME NEW s \in Seq(Nat), NEW a \in Nat
    PROVE  /\ <<a>> \o s \in Seq(Nat)
           /\ IsPrefixed(<<a>> \o s, a, s)
<1>1. IsJoined(<<a>> \o s, <<a>>, s)
  <2>1. <<a>> \in Seq(Nat)
    OBVIOUS
  <2> QED
    BY <2>1, Joined
<1>2. Len(<<a>>) = 1 /\ <<a>>[1] = a /\ Len(s) \in Nat /\ 1 \in 1..1
  OBVIOUS
<1>3. (<<a>> \o s)[1] = a
  BY <1>1, <1>2 DEF IsJoined
<1>4. \A i \in 1..Len(s) : (<<a>> \o s)[i + 1] = s[i]
  <2>1. \A i \in 1..Len(s) : (<<a>> \o s)[1 + i] = s[i]
    BY <1>1, <1>2 DEF IsJoined
  <2> QED
    BY <2>1
<1> QED
  BY <1>1, <1>2, <1>3, <1>4 DEF IsJoined, IsPrefixed

LEMMA PrefixedTwice ==
    ASSUME NEW s \in Seq(Nat), NEW a \in Nat, NEW b \in Nat
    PROVE  /\ <<a, b>> \o s \in Seq(Nat)
           /\ IsPrefixed(<<a, b>> \o s, a, <<b>> \o s)
<1>1. IsJoined(<<a, b>> \o s, <<a, b>>, s)
  <2>1. <<a, b>> \in Seq(Nat)
    OBVIOUS
  <2> QED
    BY <2>1, Joined
<1>2. /\ Len(<<a, b>>) = 2 /\ <<a, b>>[1] = a /\ <<a, b>>[2] = b /\ Len(s) \in Nat
      /\ 1 \in 1..2 /\ 2 \in 1..2
  OBVIOUS
<1>3. IsPrefixed(<<b>> \o s, b, s) /\ <<b>> \o s \in Seq(Nat)
  BY Prefixed
<1> DEFINE u == <<a, b>> \o s
           t == <<b>> \o s
<1>4. /\ u \in Seq(Nat) /\ Len(u) = Len(s) + 2 /\ u[1] = a /\ u[2] = b
      /\ \A i \in 1..Len(s) : u[2 + i] = s[i]
  BY <1>1, <1>2 DEF IsJoined
<1>5. Len(t) = Len(s) + 1 /\ t[1] = b /\ \A i \in 1..Len(s) : t[i + 1] = s[i]
  BY <1>3 DEF IsPrefixed
<1> HIDE DEF u, t
<1>6. ASSUME NEW i \in 1..Len(t) PROVE u[i + 1] = t[i]
  <2>1. CASE i = 1
    BY <1>4, <1>5, <2>1
  <2>2. CASE i # 1
    <3>1. PICK k \in 1..Len(s) : i = k + 1
      <4>1. i - 1 \in 1..Len(s) /\ i = (i - 1) + 1
        BY <1>2, <1>5, <2>2
      <4> QED
        BY <4>1
    <3>2. t[i] = s[k] /\ u[2 + k] = s[k] /\ i + 1 = 2 + k
      BY <1>4, <1>5, <3>1
    <3> QED
      BY <3>2
  <2> QED
    BY <2>1, <2>2
<1>7. IsPrefixed(u, a, t)
  BY <1>2, <1>4, <1>5, <1>6 DEF IsPrefixed
<1> QED
  BY <1>4, <1>7 DEF u, t

LEMMA PrefixedThrice ==
    ASSUME NEW s \in Seq(Nat), NEW a \in Nat, NEW b \in Nat, NEW c \in Nat
    PROVE  /\ <<a, b, c>> \o s \in Seq(Nat)
           /\ IsPrefixed(<<a, b, c>> \o s, a, <<b, c>> \o s)
<1>1. IsJoined(<<a, b, c>> \o s, <<a, b, c>>, s)
  <2>1. <<a, b, c>> \in Seq(Nat)
    OBVIOUS
  <2> QED
    BY <2>1, Joined
<1>2. /\ Len(<<a, b, c>>) = 3 /\ <<a, b, c>>[1] = a /\ <<a, b, c>>[2] = b /\ <<a, b, c>>[3] = c
      /\ Len(s) \in Nat /\ 1 \in 1..3 /\ 2 \in 1..3 /\ 3 \in 1..3
  OBVIOUS
<1>3. IsJoined(<<b, c>> \o s, <<b, c>>, s)
  <2>1. <<b, c>> \in Seq(Nat)
    OBVIOUS
  <2> QED
    BY <2>1, Joined
<1>4. /\ Len(<<b, c>>) = 2 /\ <<b, c>>[1] = b /\ <<b, c>>[2] = c /\ 1 \in 1..2 /\ 2 \in 1..2
  OBVIOUS
<1> DEFINE u == <<a, b, c>> \o s
           t == <<b, c>> \o s
<1>5. /\ u \in Seq(Nat) /\ Len(u) = Len(s) + 3 /\ u[1] = a /\ u[2] = b /\ u[3] = c
      /\ \A i \in 1..Len(s) : u[3 + i] = s[i]
  BY <1>1, <1>2 DEF IsJoined
<1>6. /\ Len(t) = Len(s) + 2 /\ t[1] = b /\ t[2] = c
      /\ \A i \in 1..Len(s) : t[2 + i] = s[i]
  BY <1>2, <1>3, <1>4 DEF IsJoined
<1> HIDE DEF u, t
<1>7. ASSUME NEW i \in 1..Len(t) PROVE u[i + 1] = t[i]
  <2>1. CASE i = 1 \/ i = 2
    BY <1>5, <1>6, <2>1
  <2>2. CASE i # 1 /\ i # 2
    <3>1. PICK k \in 1..Len(s) : i = 2 + k
      <4>1. i - 2 \in 1..Len(s) /\ i = 2 + (i - 2)
        BY <1>2, <1>6, <2>2
      <4> QED
        BY <4>1
    <3>2. t[i] = s[k] /\ u[3 + k] = s[k] /\ i + 1 = 3 + k
      BY <1>5, <1>6, <3>1
    <3> QED
      BY <3>2
  <2> QED
    BY <2>1, <2>2
<1>8. IsPrefixed(u, a, t)
  BY <1>2, <1>5, <1>6, <1>7 DEF IsPrefixed
<1> QED
  BY <1>5, <1>8 DEF u, t

----
(* Candidates appended to candidates.                                      *)

\* r is out with those of the first n of cs whose nodes were not there yet, in their order.
Merges(r, out, cs, n) ==
    /\ Len(out) <= Len(r)
    /\ \A i \in 1..Len(out) : r[i] = out[i]
    /\ \A i \in 1..Len(r) : Len(out) < i =>
          /\ \E k \in 1..n : r[i] = cs[k]
          /\ \A j \in 1..Len(r) : j < i => r[j].id # r[i].id
    /\ \A i, j \in 1..Len(r) : Len(out) < i /\ i < j =>
          \E k, l \in 1..n : k < l /\ r[i] = cs[k] /\ r[j] = cs[l]
    /\ \A k \in 1..n : \E i \in 1..Len(r) : r[i].id = cs[k].id

LEMMA MergeStep ==
    ASSUME NEW X, NEW out \in Seq(X), NEW cs \in Seq(X), NEW r \in Seq(X),
           NEW n \in Nat, n + 1 <= Len(cs), Merges(r, out, cs, n)
    PROVE  /\ AddUnseen(r, cs[n + 1]) \in Seq(X)
           /\ Merges(AddUnseen(r, cs[n + 1]), out, cs, n + 1)
<1> DEFINE c == cs[n + 1]
<1>0. /\ Len(r) \in Nat /\ Len(out) \in Nat /\ DOMAIN r = 1..Len(r)
      /\ n + 1 \in 1..Len(cs) /\ c \in X /\ 1..n \subseteq 1..(n + 1) /\ n + 1 \in 1..(n + 1)
  BY EntriesTyped
<1>1. /\ Len(out) <= Len(r)
      /\ \A i \in 1..Len(out) : r[i] = out[i]
      /\ \A i \in 1..Len(r) : Len(out) < i =>
            /\ \E k \in 1..n : r[i] = cs[k]
            /\ \A j \in 1..Len(r) : j < i => r[j].id # r[i].id
      /\ \A i, j \in 1..Len(r) : Len(out) < i /\ i < j =>
            \E k, l \in 1..n : k < l /\ r[i] = cs[k] /\ r[j] = cs[l]
      /\ \A k \in 1..n : \E i \in 1..Len(r) : r[i].id = cs[k].id
  BY DEF Merges
<1>a. \A k \in 1..(n + 1) : k \in 1..n \/ k = n + 1
  OBVIOUS
<1>2. CASE \E i \in DOMAIN r : r[i].id = c.id
  <2>1. AddUnseen(r, c) = r
    BY <1>2 DEF AddUnseen
  <2>2. \A k \in 1..(n + 1) : \E i \in 1..Len(r) : r[i].id = cs[k].id
    BY <1>0, <1>1, <1>2, <1>a
  <2>3. \A i \in 1..Len(r) : Len(out) < i =>
            /\ \E k \in 1..(n + 1) : r[i] = cs[k]
            /\ \A j \in 1..Len(r) : j < i => r[j].id # r[i].id
    BY <1>0, <1>1
  <2>4. \A i, j \in 1..Len(r) : Len(out) < i /\ i < j =>
            \E k, l \in 1..(n + 1) : k < l /\ r[i] = cs[k] /\ r[j] = cs[l]
    BY <1>0, <1>1
  <2>5. Merges(r, out, cs, n + 1)
    BY <1>1, <2>2, <2>3, <2>4 DEF Merges
  <2> QED
    BY <2>1, <2>5
<1>3. CASE ~(\E i \in DOMAIN r : r[i].id = c.id)
  <2> DEFINE t == Append(r, c)
  <2>1. AddUnseen(r, c) = t
    BY <1>3 DEF AddUnseen
  <2>2. /\ t \in Seq(X) /\ Len(t) = Len(r) + 1 /\ t[Len(r) + 1] = c
        /\ \A i \in 1..Len(r) : t[i] = r[i]
    BY <1>0
  <2> HIDE DEF t, c
  <2>3. /\ \A i \in 1..Len(t) : i \in 1..Len(r) \/ i = Len(r) + 1
        /\ 1..Len(r) \subseteq 1..Len(t) /\ Len(r) + 1 \in 1..Len(t)
        /\ \A i \in 1..Len(r) : ~(Len(r) + 1 < i)
    BY <1>0, <2>2
  <2>4. c = cs[n + 1]
    BY DEF c
  <2>5. \A i \in 1..Len(r) : r[i].id # c.id
    BY <1>0, <1>3
  <2>6. ASSUME NEW i \in 1..Len(t), Len(out) < i
        PROVE  /\ \E k \in 1..(n + 1) : t[i] = cs[k]
               /\ \A j \in 1..Len(t) : j < i => t[j].id # t[i].id
    <3>1. CASE i \in 1..Len(r)
      <4>1. \E k \in 1..(n + 1) : t[i] = cs[k]
        <5>1. PICK k \in 1..n : r[i] = cs[k]
          BY <1>1, <2>6, <3>1
        <5>2. t[i] = r[i] /\ k \in 1..(n + 1)
          BY <2>2, <3>1
        <5> QED
          BY <5>1, <5>2
      <4>2. ASSUME NEW j \in 1..Len(t), j < i PROVE t[j].id # t[i].id
        <5>1. j \in 1..Len(r)
          BY <1>0, <2>3, <3>1, <4>2
        <5> QED
          <6>1. t[i] = r[i] /\ t[j] = r[j]
            BY <2>2, <3>1, <5>1
          <6>2. r[j].id # r[i].id
            BY <1>1, <2>6, <3>1, <4>2, <5>1
          <6> QED
            BY <6>1, <6>2
      <4> QED
        BY <4>1, <4>2
    <3>2. CASE i = Len(r) + 1
      <4>1. t[i] = cs[n + 1]
        BY <2>2, <2>4, <3>2
      <4>2. ASSUME NEW j \in 1..Len(t), j < i PROVE t[j].id # t[i].id
        <5>1. j \in 1..Len(r)
          BY <2>3, <3>2, <4>2
        <5> QED
          BY <2>2, <2>5, <3>2, <5>1
      <4> QED
        BY <1>0, <4>1, <4>2
    <3> QED
      BY <2>3, <3>1, <3>2
  <2>7. ASSUME NEW i \in 1..Len(t), NEW j \in 1..Len(t), Len(out) < i, i < j
        PROVE  \E k, l \in 1..(n + 1) : k < l /\ t[i] = cs[k] /\ t[j] = cs[l]
    <3>1. i \in 1..Len(r)
      BY <1>0, <2>3, <2>7
    <3>2. CASE j \in 1..Len(r)
      <4>1. PICK k \in 1..n, l \in 1..n : k < l /\ r[i] = cs[k] /\ r[j] = cs[l]
        BY <1>1, <2>7, <3>1, <3>2
      <4> QED
        BY <1>0, <2>2, <3>1, <3>2, <4>1
    <3>3. CASE j = Len(r) + 1
      <4>1. PICK k \in 1..n : r[i] = cs[k]
        BY <1>1, <2>7, <3>1
      <4>2. k < n + 1
        OBVIOUS
      <4> QED
        BY <1>0, <2>2, <2>4, <3>1, <3>3, <4>1, <4>2
    <3> QED
      BY <2>3, <3>2, <3>3
  <2>8. ASSUME NEW k \in 1..(n + 1) PROVE \E i \in 1..Len(t) : t[i].id = cs[k].id
    <3>1. CASE k \in 1..n
      <4>1. PICK i \in 1..Len(r) : r[i].id = cs[k].id
        BY <1>1, <3>1
      <4> QED
        BY <2>2, <2>3, <4>1
    <3>2. CASE k = n + 1
      BY <2>2, <2>3, <2>4, <3>2
    <3> QED
      BY <1>a, <3>1, <3>2
  <2>9. /\ Len(out) <= Len(t)
        /\ \A i \in 1..Len(out) : t[i] = out[i]
    BY <1>0, <1>1, <2>2
  <2>10. Merges(t, out, cs, n + 1)
    BY <2>6, <2>7, <2>8, <2>9 DEF Merges
  <2> QED
    BY <2>1, <2>2, <2>10 DEF c
<1> QED
  BY <1>2, <1>3

LEMMA UnseenAppended ==
    ASSUME NEW X, NEW out \in Seq(X), NEW cs \in Seq(X)
    PROVE  /\ AppendUnseen(out, cs) \in Seq(X)
           /\ Merges(AppendUnseen(out, cs), out, cs, Len(cs))
<1> DEFINE n == Len(cs)
           A == Seq(X)
           op == [p \in A \X X |-> AddUnseen(p[1], p[2])]
           Folded(it) == it = [s \in SUBSET (DOMAIN cs) |->
                                 IF s = {} THEN out
                                 ELSE AddUnseen(it[s \ {Max(s)}], cs[Max(s)])]
           iter == CHOOSE it : Folded(it)
<1>1. DOMAIN cs = 1..n /\ n \in Nat
  OBVIOUS
<1>2. op \in [A \X X -> A]
  <2>1. ASSUME NEW o \in A, NEW x \in X PROVE AddUnseen(o, x) \in A
    BY DEF AddUnseen
  <2> HIDE DEF A
  <2> QED
    BY <2>1
<1> HIDE DEF A
<1>a. out \in A /\ A = Seq(X)
  BY DEF A
<1>3. PICK h : IsFold(h, A, op, out, cs, n)
  <2> HIDE DEF op
  <2> QED
    BY <1>2, <1>a, FoldExists
<1>4. h \in [SUBSET (1..n) -> A]
  BY <1>3 DEF IsFold
<1>5. ASSUME NEW s \in SUBSET (1..n), s # {}
      PROVE  /\ s \ {Max(s)} \in SUBSET (1..n)
             /\ op[<<h[s \ {Max(s)}], cs[Max(s)]>>] = AddUnseen(h[s \ {Max(s)}], cs[Max(s)])
  <2>1. Max(s) \in s
    BY <1>1, <1>5, GreatestElement
  <2>2. s \ {Max(s)} \in SUBSET (1..n) /\ cs[Max(s)] \in X
    <3>1. PICK m \in 1..n : m = Max(s)
      BY <2>1
    <3>2. cs[m] \in X
      BY <1>1
    <3> QED
      BY <3>1, <3>2
  <2>3. h[s \ {Max(s)}] \in A
    BY <1>4, <2>2
  <2> QED
    BY <2>2, <2>3
<1>6. Folded(h)
  <2> HIDE DEF op
  <2>1. ASSUME NEW s \in SUBSET (1..n)
        PROVE  h[s] = IF s = {} THEN out ELSE AddUnseen(h[s \ {Max(s)}], cs[Max(s)])
    BY <1>3, <1>5 DEF IsFold
  <2> QED
    BY <1>1, <1>4, <2>1
<1>7. Folded(iter)
  <2> HIDE DEF Folded
  <2> QED
    BY <1>6
<1>8. iter[1..n] = h[1..n]
  <2> HIDE DEF op
  <2>1. iter[{}] = out
    BY <1>7
  <2>2. ASSUME NEW s \in SUBSET (1..n), s # {}, iter[s \ {Max(s)}] = h[s \ {Max(s)}]
        PROVE  iter[s] = op[<<h[s \ {Max(s)}], cs[Max(s)]>>]
    <3>1. iter[s] = AddUnseen(iter[s \ {Max(s)}], cs[Max(s)])
      <4> HIDE DEF iter
      <4> QED
        BY <1>1, <1>7, <2>2
    <3> HIDE DEF iter
    <3> QED
      BY <1>5, <2>2, <3>1
  <2>3. FollowsFold(iter, h, op, out, cs, n)
    <3> HIDE DEF iter, Folded
    <3> QED
      BY <2>1, <2>2 DEF FollowsFold
  <2> HIDE DEF iter, Folded
  <2> QED
    BY <1>1, <1>3, <2>3, FoldAgrees
<1>9. AppendUnseen(out, cs) = iter[DOMAIN cs]
  BY DEF AppendUnseen, FoldLeft, MapThenFoldSet
<1>10. AppendUnseen(out, cs) = h[1..n]
  <2> HIDE DEF iter
  <2> QED
    BY <1>1, <1>8, <1>9
<1>11. /\ h[1..0] = out
       /\ \A i \in 1..n : h[1..i] = op[<<h[1..(i - 1)], cs[i]>>]
       /\ \A i \in 0..n : h[1..i] \in A
  <2> HIDE DEF op
  <2> QED
    BY <1>1, <1>3, FoldSteps
<1> DEFINE T == {i \in Nat : i <= n => Merges(h[1..i], out, cs, i)}
<1>12. 0 \in T
  <2>1. Merges(out, out, cs, 0)
    BY DEF Merges
  <2> QED
    BY <1>11, <2>1
<1>13. ASSUME NEW i \in Nat, i \in T PROVE i + 1 \in T
  <2> SUFFICES ASSUME i + 1 <= n PROVE Merges(h[1..(i + 1)], out, cs, i + 1)
    OBVIOUS
  <2>1. i + 1 \in 1..n /\ i \in 0..n /\ (i + 1) - 1 = i /\ cs[i + 1] \in X
    BY <1>1
  <2>2. h[1..i] \in A
    BY <1>11, <2>1
  <2>3. h[1..(i + 1)] = AddUnseen(h[1..i], cs[i + 1])
    BY <1>11, <2>1, <2>2
  <2>4. Merges(h[1..i], out, cs, i)
    BY <1>13, <2>1
  <2> QED
    <3>1. PICK r \in Seq(X) : r = h[1..i]
      BY <1>a, <2>2
    <3>2. Merges(AddUnseen(r, cs[i + 1]), out, cs, i + 1)
      BY <2>4, <3>1, MergeStep
    <3> QED
      BY <2>3, <3>1, <3>2
<1>14. \A i \in Nat : i \in T
  <2> HIDE DEF T
  <2> QED
    BY <1>12, <1>13, SetInduction
<1>15. Merges(h[1..n], out, cs, n) /\ h[1..n] \in Seq(X)
  BY <1>1, <1>11, <1>14, <1>a
<1> QED
  BY <1>10, <1>15

----
(* The sources of candidates, each in the order of its places.             *)

Nodes == DOMAIN graph.nodes

SymbolOf(id) == graph.nodes[id].symbol

FileOf(id) == graph.nodes[id].file

LEMMA NodesKnown ==
    ASSUME Shaped(graph)
    PROVE  /\ Nodes \in SUBSET Seq(Nat) /\ IsFiniteSet(Nodes)
           /\ \A id \in Nodes : SymbolOf(id) \in Symbol /\ SymbolOf(id) \in Nat /\ FileOf(id) \in Nat
<1>1. Nodes \in SUBSET Ids /\ IsGraph(graph)
  BY NodesOfShaped DEF Nodes
<1>2. ASSUME NEW id \in Nodes PROVE SymbolOf(id) \in Symbol /\ FileOf(id) \in File \union {NoFile}
  BY <1>1, <1>2 DEF IsGraph, Nodes, SymbolOf, FileOf, Symbol
<1>3. Symbol \subseteq Nat /\ File \union {NoFile} \subseteq Nat
  BY RepoGraphAssumption DEF Symbol, NoFile
<1>4. Nodes \in SUBSET Seq(Nat) /\ IsFiniteSet(Nodes)
  BY <1>1, IdsFinite, IdsAreStrings, FS_Subset
<1> QED
  BY <1>2, <1>3, <1>4

\* s lists S by Before.
ListsStrings(s, S) ==
    /\ s \in Seq(S) /\ DOMAIN s = 1..Len(s)
    /\ \A x \in S : \E i \in 1..Len(s) : s[i] = x
    /\ \A i, j \in 1..Len(s) : i < j <=> Before(s[i], s[j])

LEMMA StringsListed ==
    ASSUME NEW S \in SUBSET Nodes, Shaped(graph)
    PROVE  ListsStrings(Sorted(S), S)
<1>1. S \in SUBSET Seq(Nat) /\ IsFiniteSet(S)
  BY NodesKnown, FS_Subset
<1>2. Lists(Sorted(S), S, StringOrder(S)) /\ Cardinality(S) \in Nat
  BY <1>1, SortedLists, FS_CardinalityType
<1> DEFINE s == Sorted(S)
<1> HIDE DEF s
<1>3. s \in [1..Cardinality(S) -> S]
  BY <1>2 DEF Lists, s
<1>4. s \in Seq(S) /\ DOMAIN s = 1..Len(s) /\ Len(s) = Cardinality(S)
  BY <1>2, <1>3
<1>5. /\ \A x \in S : \E i \in 1..Len(s) : s[i] = x
      /\ \A i, j \in 1..Len(s) : i < j <=> <<s[i], s[j]>> \in StringOrder(S)
  BY <1>2, <1>4 DEF Lists, s
<1>6. ASSUME NEW i \in 1..Len(s), NEW j \in 1..Len(s)
      PROVE  <<s[i], s[j]>> \in StringOrder(S) <=> Before(s[i], s[j])
  <2>1. s[i] \in S /\ s[j] \in S
    BY <1>4, EntriesTyped
  <2> QED
    BY <2>1 DEF StringOrder
<1>7. \A i, j \in 1..Len(s) : i < j <=> Before(s[i], s[j])
  BY <1>5, <1>6
<1>8. ListsStrings(s, S)
  BY <1>4, <1>5, <1>7 DEF ListsStrings
<1> QED
  BY <1>8 DEF s

Named(s) == {id \in Nodes : SymbolOf(id) = s}

Holding(f) == {id \in Nodes : FileOf(id) = f}

LEMMA IndexesListed ==
    ASSUME Shaped(graph)
    PROVE  /\ \A s : ListsStrings(FindSymbol(s), Named(s))
           /\ \A f : ListsStrings(InFile(f), Holding(f))
<1>1. ASSUME NEW s PROVE ListsStrings(FindSymbol(s), Named(s))
  <2>1. Named(s) \in SUBSET Nodes /\ FindSymbol(s) = Sorted(Named(s))
    BY DEF Named, FindSymbol, Nodes, SymbolOf
  <2> QED
    BY <2>1, StringsListed
<1>2. ASSUME NEW f PROVE ListsStrings(InFile(f), Holding(f))
  <2>1. Holding(f) \in SUBSET Nodes /\ InFile(f) = Sorted(Holding(f))
    BY DEF Holding, InFile, Nodes, FileOf
  <2> QED
    BY <2>1, StringsListed
<1> QED
  BY <1>1, <1>2

\* c lists the nodes M of one source in the order of their keys.
ListsBy(c, M, key, source, ranks) ==
    /\ c \in Seq([id: M, source: {source}, rank: ranks])
    /\ \A x \in M : \E i \in 1..Len(c) : c[i].id = x
    /\ \A i, j \in 1..Len(c) : i < j => Before(key[c[i].id], key[c[j].id])

\* The places of a node that matches as an exact symbol, as the first of its symbol, and by file.
ExactPlace == [id \in Nodes |-> <<0>> \o id]

RankPlace(q) == [id \in Nodes |-> <<1, MaxScore - Score[<<q, SymbolOf(id)>>], SymbolOf(id)>> \o id]

FilePlace == [id \in Nodes |-> <<2, FileOf(id)>> \o id]

LEMMA FunctionToSequence ==
    ASSUME NEW S, NEW n \in Nat, NEW f \in [1..n -> S]
    PROVE  f \in Seq(S) /\ Len(f) = n
OBVIOUS

LEMMA ExactListed ==
    ASSUME Shaped(graph), NEW q
    PROVE  ListsBy(ExactCandidates(q), Named(q), ExactPlace, "exact_symbol", Nat \ {0})
<1> DEFINE ids == FindSymbol(q)
           c == [i \in DOMAIN ids |-> Candidate(ids[i], "exact_symbol", i)]
<1>1. ExactCandidates(q) = c
  BY DEF ExactCandidates
<1>2. ListsStrings(ids, Named(q))
  BY IndexesListed
<1> HIDE DEF ids
<1>3. /\ ids \in Seq(Named(q)) /\ DOMAIN ids = 1..Len(ids) /\ Len(ids) \in Nat
      /\ \A i \in 1..Len(ids) : ids[i] \in Named(q) /\ ids[i] \in Nodes /\ ids[i] \in Seq(Nat)
  <2>1. ids \in Seq(Named(q)) /\ DOMAIN ids = 1..Len(ids)
    BY <1>2 DEF ListsStrings
  <2>2. Len(ids) \in Nat /\ \A i \in 1..Len(ids) : ids[i] \in Named(q)
    BY <2>1, EntriesTyped
  <2> QED
    BY <2>1, <2>2, NodesKnown DEF Named
<1>4. /\ c \in Seq([id: Named(q), source: {"exact_symbol"}, rank: Nat \ {0}])
      /\ Len(c) = Len(ids) /\ \A i \in 1..Len(c) : c[i].id = ids[i]
  <2>1. \A i \in 1..Len(ids) : Candidate(ids[i], "exact_symbol", i)
                                  \in [id: Named(q), source: {"exact_symbol"}, rank: Nat \ {0}]
    BY <1>3 DEF Candidate
  <2>2. \A i \in 1..Len(ids) : c[i] = Candidate(ids[i], "exact_symbol", i)
    BY <1>3
  <2>3. c \in [1..Len(ids) -> [id: Named(q), source: {"exact_symbol"}, rank: Nat \ {0}]]
    BY <1>3, <2>1
  <2> HIDE DEF c
  <2>4. Len(c) = Len(ids) /\ c \in Seq([id: Named(q), source: {"exact_symbol"}, rank: Nat \ {0}])
    BY <1>3, <2>3, FunctionToSequence
  <2>5. ASSUME NEW i \in 1..Len(ids) PROVE c[i].id = ids[i]
    <3>1. c[i] = [id |-> ids[i], source |-> "exact_symbol", rank |-> i]
      BY <2>2 DEF Candidate
    <3> QED
      BY <3>1
  <2> QED
    BY <2>4, <2>5
<1> HIDE DEF c
<1>5. ASSUME NEW i \in 1..Len(c), NEW j \in 1..Len(c), i < j
      PROVE  Before(ExactPlace[c[i].id], ExactPlace[c[j].id])
  <2>1. Before(ids[i], ids[j]) /\ ids[i] \in Seq(Nat) /\ ids[j] \in Seq(Nat)
    BY <1>2, <1>3, <1>4, <1>5 DEF ListsStrings
  <2>2. Before(<<0>> \o ids[i], <<0>> \o ids[j])
    BY <2>1, Prefixed, PrefixedBefore
  <2>3. c[i].id = ids[i] /\ c[j].id = ids[j] /\ ids[i] \in Nodes /\ ids[j] \in Nodes
    BY <1>3, <1>4
  <2> QED
    BY <2>2, <2>3 DEF ExactPlace
<1>6. \A x \in Named(q) : \E i \in 1..Len(c) : c[i].id = x
  BY <1>2, <1>4 DEF ListsStrings
<1> QED
  BY <1>1, <1>4, <1>5, <1>6 DEF ListsBy

\* The first nodes of their symbols.
Firsts ==
    {id \in Nodes : \A d \in Nodes : SymbolOf(d) = SymbolOf(id) => d = id \/ Before(id, d)}

LEMMA HeadIsFirst ==
    ASSUME Shaped(graph), NEW s, NEW id \in Named(s)
    PROVE  /\ FindSymbol(s) # <<>>
           /\ Head(FindSymbol(s)) \in Firsts /\ Head(FindSymbol(s)) \in Named(s)
           /\ Head(FindSymbol(s)) = FindSymbol(s)[1]
<1> DEFINE ids == FindSymbol(s)
<1>1. ListsStrings(ids, Named(s))
  BY IndexesListed
<1> HIDE DEF ids
<1>2. ids \in Seq(Named(s)) /\ Len(ids) \in Nat /\ \A i \in 1..Len(ids) : ids[i] \in Named(s)
  BY <1>1, EntriesTyped DEF ListsStrings
<1>3. PICK k \in 1..Len(ids) : ids[k] = id
  BY <1>1 DEF ListsStrings
<1>4. ids # <<>> /\ Head(ids) = ids[1] /\ 1 \in 1..Len(ids)
  BY <1>2, <1>3
<1>5. ASSUME NEW d \in Nodes, SymbolOf(d) = SymbolOf(ids[1]) PROVE d = ids[1] \/ Before(ids[1], d)
  <2>1. d \in Named(s)
    BY <1>2, <1>4, <1>5 DEF Named
  <2>2. PICK i \in 1..Len(ids) : ids[i] = d
    BY <1>1, <2>1 DEF ListsStrings
  <2>3. i = 1 \/ 1 < i
    OBVIOUS
  <2> QED
    BY <1>1, <1>4, <2>2, <2>3 DEF ListsStrings
<1>6. ids[1] \in Firsts /\ ids[1] \in Named(s)
  BY <1>2, <1>4, <1>5 DEF Firsts, Named
<1> QED
  BY <1>4, <1>6 DEF ids

LEMMA FirstsDiffer ==
    ASSUME Shaped(graph), NEW d \in Firsts, NEW e \in Firsts, SymbolOf(d) = SymbolOf(e)
    PROVE  d = e
<1>1. d \in Nodes /\ e \in Nodes /\ d \in Seq(Nat) /\ e \in Seq(Nat)
  BY NodesKnown DEF Firsts
<1>2. d = e \/ (Before(d, e) /\ Before(e, d))
  BY <1>1 DEF Firsts
<1>3. ~(Before(d, e) /\ Before(e, d))
  BY <1>1, BeforeTransitive, BeforeIrreflexive
<1> QED
  BY <1>2, <1>3

LEMMA IndexOfFirsts ==
    ASSUME Shaped(graph)
    PROVE  SymbolIndex = {[symbol |-> SymbolOf(id), id |-> id] : id \in Firsts}
<1>1. ASSUME NEW s \in Symbols
      PROVE  \E id \in Firsts : [symbol |-> s, id |-> Head(FindSymbol(s))] = [symbol |-> SymbolOf(id), id |-> id]
  <2>1. PICK d \in Nodes : SymbolOf(d) = s
    BY DEF Symbols, Nodes, SymbolOf
  <2>2. d \in Named(s)
    BY <2>1 DEF Named
  <2>3. Head(FindSymbol(s)) \in Firsts /\ SymbolOf(Head(FindSymbol(s))) = s
    BY <2>2, HeadIsFirst DEF Named
  <2> QED
    BY <2>3
<1>2. ASSUME NEW id \in Firsts
      PROVE  SymbolOf(id) \in Symbols /\ Head(FindSymbol(SymbolOf(id))) = id
  <2>1. id \in Named(SymbolOf(id))
    BY DEF Firsts, Named
  <2>2. Head(FindSymbol(SymbolOf(id))) \in Firsts
        /\ SymbolOf(Head(FindSymbol(SymbolOf(id)))) = SymbolOf(id)
    BY <2>1, HeadIsFirst DEF Named
  <2>3. Head(FindSymbol(SymbolOf(id))) = id
    BY <2>2, FirstsDiffer
  <2> QED
    BY <2>1, <2>3 DEF Named, Symbols, Nodes, SymbolOf
<1> QED
  BY <1>1, <1>2 DEF SymbolIndex

\* Key and place of a node of the symbol index.
LEMMA RankKeys ==
    ASSUME Shaped(graph), NEW q \in Query, NEW id \in Nodes,
           NEW c, c = [symbol |-> SymbolOf(id), id |-> id]
    PROVE  /\ MaxScore - Score[<<q, SymbolOf(id)>>] \in Nat
           /\ RankKey(q, c) = <<MaxScore - Score[<<q, SymbolOf(id)>>], SymbolOf(id)>> \o id
           /\ RankKey(q, c) \in Seq(Nat)
           /\ RankKey(q, c)[1] = MaxScore - Score[<<q, SymbolOf(id)>>]
           /\ RankKey(q, c)[2] = SymbolOf(id)
           /\ Len(RankKey(q, c)) >= 2
           /\ RankPlace(q)[id] = <<1, MaxScore - Score[<<q, SymbolOf(id)>>], SymbolOf(id)>> \o id
           /\ IsPrefixed(RankPlace(q)[id], 1, RankKey(q, c))
<1> DEFINE a == MaxScore - Score[<<q, SymbolOf(id)>>]
           s == SymbolOf(id)
<1>1. id \in Seq(Nat) /\ s \in Symbol /\ s \in Nat
  BY NodesKnown
<1>2. Score[<<q, s>>] \in 0..MaxScore
  <2>1. <<q, s>> \in Query \X Symbol
    BY <1>1
  <2> HIDE DEF s
  <2> QED
    BY <2>1, GraphStoreAssumption
<1>3. a \in Nat
  BY <1>2 DEF MaxScore
<1>4. RankKey(q, c) = <<a, s>> \o id /\ RankPlace(q)[id] = <<1, a, s>> \o id
  BY DEF RankKey, RankPlace
<1> HIDE DEF a, s
<1>5. /\ <<a, s>> \o id \in Seq(Nat) /\ IsPrefixed(<<a, s>> \o id, a, <<s>> \o id)
      /\ IsPrefixed(<<s>> \o id, s, id)
  BY <1>1, <1>3, Prefixed, PrefixedTwice
<1>6. IsPrefixed(<<1, a, s>> \o id, 1, <<a, s>> \o id)
  BY <1>1, <1>3, PrefixedThrice
<1> DEFINE u == <<a, s>> \o id
           t == <<s>> \o id
<1>7. u[1] = a /\ u[2] = s /\ Len(u) >= 2
  <2> HIDE DEF u, t
  <2>1. IsPrefixed(u, a, t) /\ IsPrefixed(t, s, id)
    BY <1>5 DEF u, t
  <2>2. /\ Len(u) = Len(t) + 1 /\ u[1] = a /\ \A i \in 1..Len(t) : u[i + 1] = t[i]
        /\ Len(t) = Len(id) + 1 /\ t[1] = s /\ Len(id) \in Nat
    BY <1>1, <2>1 DEF IsPrefixed
  <2>3. 1 \in 1..Len(t) /\ 1 + 1 = 2
    BY <2>2
  <2>4. u[1 + 1] = t[1]
    BY <2>2, <2>3
  <2> QED
    BY <2>2, <2>3, <2>4
<1>8. u = RankKey(q, c)
  BY <1>4
<1> QED
  BY <1>3, <1>4, <1>5, <1>6, <1>7, <1>8 DEF a, s

LEMMA RankedListed ==
    ASSUME Shaped(graph), NEW q \in Query, q # Blank
    PROVE  /\ Ranked(q) \in Seq(SymbolIndex) /\ DOMAIN Ranked(q) = 1..Len(Ranked(q))
           /\ \A c \in SymbolIndex : \E i \in 1..Len(Ranked(q)) : Ranked(q)[i] = c
           /\ \A i, j \in 1..Len(Ranked(q)) : i < j =>
                 Before(RankKey(q, Ranked(q)[i]), RankKey(q, Ranked(q)[j]))
<1> DEFINE S == SymbolIndex
           R == {p \in S \X S : Before(RankKey(q, p[1]), RankKey(q, p[2]))}
           n == Cardinality(S)
           s == [i \in 1..n |->
                   CHOOSE x \in S : Cardinality({y \in S : Before(RankKey(q, y), RankKey(q, x))}) = i - 1]
<1>a. \A c \in S : \E id \in Firsts : c = [symbol |-> SymbolOf(id), id |-> id]
  BY IndexOfFirsts
<1>0. IsFiniteSet(S) /\ n \in Nat
  <2> DEFINE entry == [id \in Firsts |-> [symbol |-> SymbolOf(id), id |-> id]]
  <2>1. Firsts \in SUBSET Nodes /\ IsFiniteSet(Firsts)
    BY NodesKnown, FS_Subset DEF Firsts
  <2>2. S = {entry[id] : id \in Firsts}
    BY IndexOfFirsts
  <2> HIDE DEF S, entry
  <2> QED
    BY <2>1, <2>2, ImageFinite, FS_CardinalityType
<1>1. Orders(R, S)
  <2> DEFINE key == [x \in S |-> RankKey(q, x)]
  <2>1. ASSUME NEW x \in S PROVE key[x] \in Seq(Nat)
    <3>1. PICK id \in Firsts : x = [symbol |-> SymbolOf(id), id |-> id]
      BY <1>a
    <3> QED
      BY <3>1, RankKeys DEF Firsts
  <2>2. ASSUME NEW x \in S, NEW y \in S, key[x] = key[y] PROVE x = y
    <3>1. PICK d \in Firsts : x = [symbol |-> SymbolOf(d), id |-> d]
      BY <1>a
    <3>2. PICK e \in Firsts : y = [symbol |-> SymbolOf(e), id |-> e]
      BY <1>a
    <3>3. RankKey(q, x)[2] = SymbolOf(d) /\ RankKey(q, y)[2] = SymbolOf(e)
      <4>1. d \in Nodes /\ e \in Nodes
        BY DEF Firsts
      <4>2. RankKey(q, x)[2] = SymbolOf(d)
        BY <3>1, <4>1, RankKeys
      <4>3. RankKey(q, y)[2] = SymbolOf(e)
        BY <3>2, <4>1, RankKeys
      <4> QED
        BY <4>2, <4>3
    <3>4. RankKey(q, x) = RankKey(q, y)
      BY <2>2
    <3>5. d = e
      BY <3>3, <3>4, FirstsDiffer
    <3> QED
      BY <3>1, <3>2, <3>5
  <2>3. \A x, y \in S : <<x, y>> \in R <=> Before(key[x], key[y])
    OBVIOUS
  <2> HIDE DEF key, R, S
  <2> QED
    BY <2>1, <2>2, <2>3, KeysOrder
<1>2. ASSUME NEW x \in S PROVE {y \in S : Before(RankKey(q, y), RankKey(q, x))} = Below(R, S, x)
  BY DEF Below
<1>b. \A x, y \in S : <<x, y>> \in R <=> Before(RankKey(q, x), RankKey(q, y))
  OBVIOUS
<1> HIDE DEF R
<1>3. ASSUME NEW i \in 1..n PROVE s[i] \in S /\ Cardinality(Below(R, S, s[i])) = i - 1
  <2>1. PICK x \in S : Cardinality(Below(R, S, x)) = i - 1
    <3> HIDE DEF S
    <3> QED
      BY <1>0, <1>1, PlacesAreTaken
  <2>2. Cardinality({y \in S : Before(RankKey(q, y), RankKey(q, x))}) = i - 1
    BY <1>2, <2>1
  <2>3. s[i] \in S /\ Cardinality({y \in S : Before(RankKey(q, y), RankKey(q, s[i]))}) = i - 1
    BY <2>2
  <2> HIDE DEF s
  <2> QED
    BY <1>2, <2>3
<1>4. Lists(s, S, R)
  <2> DEFINE nth(i) == CHOOSE x \in S : Cardinality({y \in S : Before(RankKey(q, y), RankKey(q, x))}) = i - 1
  <2>2. s = [i \in 1..n |-> nth(i)]
    OBVIOUS
  <2>1. s = [i \in 1..n |-> s[i]]
    <3> HIDE DEF s, nth, n
    <3> QED
      BY <2>2
  <2> HIDE DEF s, S
  <2> QED
    BY <1>0, <1>1, <1>3, <2>1, ListedByPlace
<1>5. Ranked(q) = s
  BY DEF Ranked, InOrder
<1> HIDE DEF s, S
<1>6. s \in [1..n -> S] /\ s \in Seq(S) /\ Len(s) = n /\ DOMAIN s = 1..n
  BY <1>0, <1>4, FunctionToSequence DEF Lists
<1>7. \A i, j \in 1..n : i < j => Before(RankKey(q, s[i]), RankKey(q, s[j]))
  BY <1>4, <1>6, <1>b DEF Lists
<1>8. \A x \in S : \E i \in 1..n : s[i] = x
  BY <1>4 DEF Lists
<1> QED
  BY <1>5, <1>6, <1>7, <1>8 DEF S

LEMMA FuzzyListed ==
    ASSUME Shaped(graph), NEW q \in Query, q # Blank
    PROVE  ListsBy(FuzzyCandidates(q), Firsts, RankPlace(q), "fuzzy_symbol", Nat \ {0})
<1> DEFINE r == Ranked(q)
           c == [i \in DOMAIN r |-> Candidate(r[i].id, "fuzzy_symbol", i)]
           X == [id: Firsts, source: {"fuzzy_symbol"}, rank: Nat \ {0}]
<1>1. FuzzyCandidates(q) = c
  BY DEF FuzzyCandidates
<1>2. /\ r \in Seq(SymbolIndex) /\ DOMAIN r = 1..Len(r)
      /\ \A x \in SymbolIndex : \E i \in 1..Len(r) : r[i] = x
      /\ \A i, j \in 1..Len(r) : i < j => Before(RankKey(q, r[i]), RankKey(q, r[j]))
  BY RankedListed
<1> HIDE DEF r
<1>3. ASSUME NEW i \in 1..Len(r)
      PROVE  r[i].id \in Firsts /\ r[i].id \in Nodes
             /\ r[i] = [symbol |-> SymbolOf(r[i].id), id |-> r[i].id]
  <2>1. r[i] \in SymbolIndex
    BY <1>2, EntriesTyped
  <2>2. PICK id \in Firsts : r[i] = [symbol |-> SymbolOf(id), id |-> id]
    BY <2>1, IndexOfFirsts
  <2> QED
    BY <2>2 DEF Firsts
<1>4. Len(r) \in Nat
  BY <1>2, EntriesTyped
<1>5. ASSUME NEW i \in 1..Len(r) PROVE c[i] \in X /\ c[i].id = r[i].id
  <2>1. c[i] = [id |-> r[i].id, source |-> "fuzzy_symbol", rank |-> i]
    BY <1>2 DEF Candidate
  <2>2. PICK id \in Firsts : r[i].id = id
    BY <1>3
  <2>3. i \in Nat \ {0}
    BY <1>4
  <2> HIDE DEF c
  <2> QED
    BY <2>1, <2>2, <2>3
<1>6. c \in [1..Len(r) -> X]
  <2> HIDE DEF X
  <2> QED
    BY <1>2, <1>5
<1> HIDE DEF c
<1>7. c \in Seq(X) /\ Len(c) = Len(r)
  <2> HIDE DEF X
  <2> QED
    BY <1>4, <1>6, FunctionToSequence
<1>8. ASSUME NEW i \in 1..Len(c), NEW j \in 1..Len(c), i < j
      PROVE  Before(RankPlace(q)[c[i].id], RankPlace(q)[c[j].id])
  <2>1. /\ RankKey(q, r[i]) \in Seq(Nat) /\ IsPrefixed(RankPlace(q)[r[i].id], 1, RankKey(q, r[i]))
        /\ RankKey(q, r[j]) \in Seq(Nat) /\ IsPrefixed(RankPlace(q)[r[j].id], 1, RankKey(q, r[j]))
    BY <1>3, <1>7, RankKeys
  <2>2. Before(RankKey(q, r[i]), RankKey(q, r[j]))
    BY <1>2, <1>7, <1>8
  <2>3. Before(RankPlace(q)[r[i].id], RankPlace(q)[r[j].id])
    <3> DEFINE u == RankPlace(q)[r[i].id]
               v == RankPlace(q)[r[j].id]
               s == RankKey(q, r[i])
               t == RankKey(q, r[j])
    <3>1. /\ s \in Seq(Nat) /\ t \in Seq(Nat) /\ IsPrefixed(u, 1, s) /\ IsPrefixed(v, 1, t)
          /\ Before(s, t) /\ 1 \in Nat
      BY <2>1, <2>2
    <3>2. Before(u, v)
      <4> HIDE DEF u, v, s, t
      <4> QED
        BY <3>1, PrefixedBefore
    <3> QED
      BY <3>2
  <2> QED
    BY <1>5, <1>7, <2>3
<1>9. ASSUME NEW x \in Firsts PROVE \E i \in 1..Len(c) : c[i].id = x
  <2>1. [symbol |-> SymbolOf(x), id |-> x] \in SymbolIndex
    BY IndexOfFirsts
  <2>2. PICK i \in 1..Len(r) : r[i] = [symbol |-> SymbolOf(x), id |-> x]
    BY <1>2, <2>1
  <2>3. c[i].id = x
    BY <1>5, <2>2
  <2> QED
    BY <1>7, <2>3
<1>10. ListsBy(c, Firsts, RankPlace(q), "fuzzy_symbol", Nat \ {0})
  BY <1>7, <1>8, <1>9 DEF ListsBy
<1> QED
  BY <1>1, <1>10

LEMMA FilePlaces ==
    ASSUME Shaped(graph), NEW d \in Nodes, NEW e \in Nodes,
           FileOf(d) < FileOf(e) \/ (FileOf(d) = FileOf(e) /\ Before(d, e))
    PROVE  Before(FilePlace[d], FilePlace[e])
<1> DEFINE f == FileOf(d)
           g == FileOf(e)
           s == <<f>> \o d
           t == <<g>> \o e
           u == <<2, f>> \o d
           v == <<2, g>> \o e
<1>1. d \in Seq(Nat) /\ e \in Seq(Nat) /\ f \in Nat /\ g \in Nat
  BY NodesKnown
<1>2. FilePlace[d] = u /\ FilePlace[e] = v
  BY DEF FilePlace
<1>3. f < g \/ (f = g /\ Before(d, e))
  OBVIOUS
<1> HIDE DEF f, g
<1>4. /\ s \in Seq(Nat) /\ t \in Seq(Nat) /\ IsPrefixed(s, f, d) /\ IsPrefixed(t, g, e)
      /\ IsPrefixed(u, 2, s) /\ IsPrefixed(v, 2, t)
  <2>1. 2 \in Nat
    OBVIOUS
  <2>2. s \in Seq(Nat) /\ IsPrefixed(s, f, d) /\ IsPrefixed(u, 2, s)
    BY <1>1, <2>1, Prefixed, PrefixedTwice
  <2>3. t \in Seq(Nat) /\ IsPrefixed(t, g, e) /\ IsPrefixed(v, 2, t)
    BY <1>1, <2>1, Prefixed, PrefixedTwice
  <2> QED
    BY <2>2, <2>3
<1> HIDE DEF s, t, u, v
<1>5. Before(s, t)
  <2>1. CASE f < g
    <3>1. Len(s) = Len(d) + 1 /\ s[1] = f /\ Len(t) = Len(e) + 1 /\ t[1] = g
      BY <1>4 DEF IsPrefixed
    <3>2. Len(s) >= 1 /\ Len(t) >= 1
      BY <1>1, <3>1
    <3>3. s[1] < t[1]
      BY <2>1, <3>1
    <3> QED
      BY <1>4, <3>2, <3>3, SmallerFirst
  <2>2. CASE f = g /\ Before(d, e)
    BY <1>1, <1>4, <2>2, PrefixedBefore
  <2> QED
    BY <1>3, <2>1, <2>2
<1>6. Before(u, v)
  <2>1. 2 \in Nat
    OBVIOUS
  <2> QED
    BY <1>4, <1>5, <2>1, PrefixedBefore
<1> QED
  BY <1>2, <1>6

\* The nodes of files whose path contains the query.
InMatchingFile(q) == {id \in Nodes : <<q, FileOf(id)>> \in InPath}

\* s lists the nodes of the first n of some files.
ListsFiles(s, paths, n) ==
    /\ s \in Seq(Nodes)
    /\ \A k \in 1..Len(s) : \E i \in 1..n : FileOf(s[k]) = paths[i]
    /\ \A i \in 1..n : \A x \in Holding(paths[i]) : \E k \in 1..Len(s) : s[k] = x
    /\ \A k, l \in 1..Len(s) : k < l => Before(FilePlace[s[k]], FilePlace[s[l]])

LEMMA NextFile ==
    ASSUME Shaped(graph), NEW paths, NEW n \in Nat, NEW s, ListsFiles(s, paths, n),
           \A i \in 1..(n + 1) : paths[i] \in Nat,
           \A i \in 1..n : paths[i] < paths[n + 1]
    PROVE  ListsFiles(s \o InFile(paths[n + 1]), paths, n + 1)
<1> DEFINE f == paths[n + 1]
           ids == InFile(f)
           t == s \o ids
<1>1. ListsStrings(ids, Holding(f))
  BY IndexesListed
<1> HIDE DEF ids
<1>2. ids \in Seq(Nodes) /\ Len(ids) \in Nat
      /\ \A k \in 1..Len(ids) : ids[k] \in Nodes /\ FileOf(ids[k]) = f
  <2>1. ids \in Seq(Holding(f))
    BY <1>1 DEF ListsStrings
  <2>2. Len(ids) \in Nat /\ \A k \in 1..Len(ids) : ids[k] \in Holding(f)
    BY <2>1, EntriesTyped
  <2>3. Holding(f) \subseteq Nodes /\ \A x \in Holding(f) : FileOf(x) = f
    BY DEF Holding
  <2>4. ids \in Seq(Nodes)
    BY <2>1, <2>3
  <2> QED
    BY <2>2, <2>3, <2>4
<1>3. /\ s \in Seq(Nodes) /\ Len(s) \in Nat /\ \A k \in 1..Len(s) : s[k] \in Nodes
      /\ \A k \in 1..Len(s) : \E i \in 1..n : FileOf(s[k]) = paths[i]
      /\ \A i \in 1..n : \A x \in Holding(paths[i]) : \E k \in 1..Len(s) : s[k] = x
      /\ \A k, l \in 1..Len(s) : k < l => Before(FilePlace[s[k]], FilePlace[s[l]])
  BY EntriesTyped DEF ListsFiles
<1>4. /\ t \in Seq(Nodes) /\ Len(t) = Len(s) + Len(ids)
      /\ \A k \in 1..Len(s) : t[k] = s[k]
      /\ \A k \in 1..Len(ids) : t[Len(s) + k] = ids[k]
  BY <1>2, <1>3, Concatenated
<1> HIDE DEF t
<1>5. ASSUME NEW k \in 1..Len(t)
      PROVE  k \in 1..Len(s) \/ \E j \in 1..Len(ids) : k = Len(s) + j
  <2>1. CASE k <= Len(s)
    BY <1>3, <2>1
  <2>2. CASE ~(k <= Len(s))
    <3>1. k - Len(s) \in 1..Len(ids) /\ k = Len(s) + (k - Len(s))
      BY <1>2, <1>3, <1>4, <2>2
    <3> QED
      BY <3>1
  <2> QED
    BY <2>1, <2>2
<1>6. /\ 1..n \subseteq 1..(n + 1) /\ n + 1 \in 1..(n + 1)
      /\ \A i \in 1..(n + 1) : i \in 1..n \/ i = n + 1
      /\ 1..Len(s) \subseteq 1..Len(t)
      /\ \A j \in 1..Len(ids) : Len(s) + j \in 1..Len(t)
  BY <1>2, <1>3, <1>4
<1>7. ASSUME NEW k \in 1..Len(t) PROVE \E i \in 1..(n + 1) : FileOf(t[k]) = paths[i]
  <2>1. CASE k \in 1..Len(s)
    <3>1. PICK i \in 1..n : FileOf(s[k]) = paths[i]
      BY <1>3, <2>1
    <3>2. t[k] = s[k] /\ i \in 1..(n + 1)
      BY <1>4, <1>6, <2>1
    <3> QED
      BY <3>1, <3>2
  <2>2. CASE \E j \in 1..Len(ids) : k = Len(s) + j
    BY <1>2, <1>4, <1>6, <2>2
  <2> QED
    BY <1>5, <2>1, <2>2
<1>8. ASSUME NEW i \in 1..(n + 1), NEW x \in Holding(paths[i]) PROVE \E k \in 1..Len(t) : t[k] = x
  <2>1. CASE i \in 1..n
    <3>1. PICK k \in 1..Len(s) : s[k] = x
      BY <1>3, <2>1
    <3> QED
      BY <1>4, <1>6, <3>1
  <2>2. CASE i = n + 1
    <3>1. PICK j \in 1..Len(ids) : ids[j] = x
      BY <1>1, <2>2 DEF ListsStrings
    <3> QED
      BY <1>4, <1>6, <3>1
  <2> QED
    BY <1>6, <2>1, <2>2
<1>9. ASSUME NEW k \in 1..Len(t), NEW l \in 1..Len(t), k < l
      PROVE  Before(FilePlace[t[k]], FilePlace[t[l]])
  <2>1. CASE l \in 1..Len(s)
    <3>1. k \in 1..Len(s)
      BY <1>3, <1>9, <2>1
    <3> QED
      BY <1>3, <1>4, <1>9, <2>1, <3>1
  <2>2. ASSUME NEW j \in 1..Len(ids), l = Len(s) + j
        PROVE  Before(FilePlace[t[k]], FilePlace[t[l]])
    <3>1. t[l] = ids[j] /\ ids[j] \in Nodes /\ FileOf(ids[j]) = f
      BY <1>2, <1>4, <2>2
    <3>2. CASE k \in 1..Len(s)
      <4>1. t[k] = s[k] /\ s[k] \in Nodes /\ FileOf(s[k]) < f
        <5>1. PICK i \in 1..n : FileOf(s[k]) = paths[i]
          BY <1>3, <3>2
        <5> QED
          BY <1>3, <1>4, <3>2, <5>1
      <4> QED
        BY <3>1, <4>1, FilePlaces
    <3>3. ASSUME NEW m \in 1..Len(ids), k = Len(s) + m
          PROVE  Before(FilePlace[t[k]], FilePlace[t[l]])
      <4>1. t[k] = ids[m] /\ ids[m] \in Nodes /\ FileOf(ids[m]) = f
        BY <1>2, <1>4, <3>3
      <4>2. m < j
        BY <1>3, <1>9, <2>2, <3>3
      <4>3. Before(ids[m], ids[j])
        BY <1>1, <4>2 DEF ListsStrings
      <4> QED
        BY <3>1, <4>1, <4>3, FilePlaces
    <3> QED
      BY <1>5, <3>2, <3>3
  <2> QED
    BY <1>5, <2>1, <2>2
<1>10. ListsFiles(t, paths, n + 1)
  BY <1>4, <1>7, <1>8, <1>9 DEF ListsFiles
<1> QED
  BY <1>10 DEF t, ids

LEMMA PathsListed ==
    ASSUME Shaped(graph), NEW q
    PROVE  /\ PathsWith(q) \in Seq(Nat) /\ DOMAIN PathsWith(q) = 1..Len(PathsWith(q))
           /\ \A i \in 1..Len(PathsWith(q)) :
                 PathsWith(q)[i] \in File /\ <<q, PathsWith(q)[i]>> \in InPath
                 /\ InFile(PathsWith(q)[i]) # <<>>
           /\ \A f \in File : <<q, f>> \in InPath /\ InFile(f) # <<>> =>
                 \E i \in 1..Len(PathsWith(q)) : PathsWith(q)[i] = f
           /\ \A i, j \in 1..Len(PathsWith(q)) : i < j => PathsWith(q)[i] < PathsWith(q)[j]
<1> DEFINE F == {f \in File : <<q, f>> \in InPath /\ InFile(f) # <<>>}
           p == PathsWith(q)
<1>1. F \in SUBSET Nat /\ IsFiniteSet(F)
  BY RepoGraphAssumption, FS_Subset
<1>2. p = InOrder(F, <)
  BY DEF PathsWith
<1>3. Lists(InOrder(F, <), F, NumberOrder(F))
  <2> HIDE DEF F
  <2> QED
    BY <1>1, NumbersListed
<1>4. Lists(p, F, NumberOrder(F))
  <2> HIDE DEF F, p
  <2> QED
    BY <1>2, <1>3
<1>5. Cardinality(F) \in Nat
  <2> HIDE DEF F
  <2> QED
    BY <1>1, FS_CardinalityType
<1>6. \A f \in F : f \in File /\ <<q, f>> \in InPath /\ InFile(f) # <<>>
  OBVIOUS
<1>7. \A f \in File : <<q, f>> \in InPath /\ InFile(f) # <<>> => f \in F
  OBVIOUS
<1> HIDE DEF F, p
<1>8. p \in [1..Cardinality(F) -> F]
  BY <1>4 DEF Lists
<1>9. p \in Seq(F) /\ Len(p) = Cardinality(F) /\ DOMAIN p = 1..Len(p) /\ p \in Seq(Nat)
  BY <1>1, <1>5, <1>8, FunctionToSequence
<1>10. \A i \in 1..Len(p) : p[i] \in F
  BY <1>9, EntriesTyped
<1>11. \A x \in F : \E i \in 1..Len(p) : p[i] = x
  BY <1>4, <1>9 DEF Lists
<1>12. \A i, j \in 1..Len(p) : i < j => p[i] < p[j]
  BY <1>4, <1>9 DEF Lists, NumberOrder
<1> QED
  BY <1>6, <1>7, <1>9, <1>10, <1>11, <1>12 DEF p

LEMMA FilesListed ==
    ASSUME Shaped(graph), NEW q \in Query
    PROVE  ListsBy(FileCandidates(q), InMatchingFile(q), FilePlace, "file_substring", Nat)
<1> DEFINE paths == PathsWith(q)
           n == Len(paths)
           seqs == [i \in DOMAIN paths |-> InFile(paths[i])]
           ids == FlattenSeq(seqs)
           c == [i \in DOMAIN ids |-> Candidate(ids[i], "file_substring", 0)]
           X == [id: InMatchingFile(q), source: {"file_substring"}, rank: Nat]
<1>1. FileCandidates(q) = c
  BY DEF FileCandidates
<1>2. /\ paths \in Seq(Nat) /\ DOMAIN paths = 1..n /\ n \in Nat
      /\ \A i \in 1..n : paths[i] \in File /\ paths[i] \in Nat /\ <<q, paths[i]>> \in InPath
      /\ \A f \in File : <<q, f>> \in InPath /\ InFile(f) # <<>> => \E i \in 1..n : paths[i] = f
      /\ \A i, j \in 1..n : i < j => paths[i] < paths[j]
  BY PathsListed, RepoGraphAssumption
<1> HIDE DEF paths
<1>3. seqs \in Seq(Seq(Nodes)) /\ Len(seqs) = n /\ \A i \in 1..n : seqs[i] = InFile(paths[i])
  <2>1. \A i \in 1..n : InFile(paths[i]) \in Seq(Nodes)
    <3>1. ASSUME NEW i \in 1..n PROVE InFile(paths[i]) \in Seq(Nodes)
      <4>1. InFile(paths[i]) \in Seq(Holding(paths[i]))
        BY IndexesListed DEF ListsStrings
      <4>2. Holding(paths[i]) \subseteq Nodes
        BY DEF Holding
      <4> QED
        BY <4>1, <4>2
    <3> QED
      BY <3>1
  <2>2. seqs \in [1..n -> Seq(Nodes)] /\ \A i \in 1..n : seqs[i] = InFile(paths[i])
    <3> HIDE DEF n
    <3> QED
      BY <1>2, <2>1
  <2> HIDE DEF n, seqs
  <2> QED
    BY <1>2, <2>2, FunctionToSequence
<1> HIDE DEF n, seqs
<1>4. PICK acc : /\ acc \in [0..n -> Seq(Nodes)]
                 /\ acc[0] = <<>>
                 /\ \A i \in 1..n : acc[i] = acc[i - 1] \o seqs[i]
                 /\ ids = acc[n]
  BY <1>3, Flattened
<1> HIDE DEF ids
<1> DEFINE T == {i \in Nat : i <= n => ListsFiles(acc[i], paths, i)}
<1>5. 0 \in T
  <2>1. ListsFiles(<<>>, paths, 0)
    BY DEF ListsFiles
  <2> QED
    BY <1>4, <2>1
<1>6. ASSUME NEW i \in Nat, i \in T PROVE i + 1 \in T
  <2> SUFFICES ASSUME i + 1 <= n PROVE ListsFiles(acc[i + 1], paths, i + 1)
    OBVIOUS
  <2>1. i + 1 \in 1..n /\ (i + 1) - 1 = i /\ i <= n
    BY <1>2
  <2>2. acc[i + 1] = acc[i] \o InFile(paths[i + 1])
    BY <1>3, <1>4, <2>1
  <2>3. \A j \in 1..(i + 1) : paths[j] \in Nat
    BY <1>2
  <2>4. \A j \in 1..i : paths[j] < paths[i + 1]
    BY <1>2
  <2>5. ListsFiles(acc[i], paths, i)
    BY <1>6, <2>1
  <2> QED
    BY <2>2, <2>3, <2>4, <2>5, NextFile
<1>7. \A i \in Nat : i \in T
  <2> HIDE DEF T
  <2> QED
    BY <1>5, <1>6, SetInduction
<1>8. ListsFiles(ids, paths, n)
  BY <1>2, <1>4, <1>7
<1>9. /\ ids \in Seq(Nodes) /\ Len(ids) \in Nat /\ DOMAIN ids = 1..Len(ids)
      /\ \A k \in 1..Len(ids) : ids[k] \in InMatchingFile(q)
      /\ \A x \in InMatchingFile(q) : \E k \in 1..Len(ids) : ids[k] = x
  <2>1. ids \in Seq(Nodes)
    BY <1>8 DEF ListsFiles
  <2>2. Len(ids) \in Nat /\ DOMAIN ids = 1..Len(ids) /\ \A k \in 1..Len(ids) : ids[k] \in Nodes
    BY <2>1, EntriesTyped
  <2>3. ASSUME NEW k \in 1..Len(ids) PROVE ids[k] \in InMatchingFile(q)
    <3>1. PICK i \in 1..n : FileOf(ids[k]) = paths[i]
      BY <1>8 DEF ListsFiles
    <3> QED
      BY <1>2, <2>2, <3>1 DEF InMatchingFile
  <2>4. ASSUME NEW x \in InMatchingFile(q) PROVE \E k \in 1..Len(ids) : ids[k] = x
    <3>1. x \in Holding(FileOf(x)) /\ <<q, FileOf(x)>> \in InPath
      BY DEF InMatchingFile, Holding
    <3>2. FileOf(x) \in File
      BY <3>1, GraphStoreAssumption
    <3>3. InFile(FileOf(x)) # <<>>
      <4>1. ListsStrings(InFile(FileOf(x)), Holding(FileOf(x)))
        BY IndexesListed
      <4>2. PICK i \in 1..Len(InFile(FileOf(x))) : InFile(FileOf(x))[i] = x
        BY <3>1, <4>1 DEF ListsStrings
      <4>3. Len(<<>>) = 0
        OBVIOUS
      <4> QED
        BY <4>2, <4>3
    <3>4. PICK i \in 1..n : paths[i] = FileOf(x)
      BY <1>2, <3>1, <3>2, <3>3
    <3> QED
      BY <1>8, <3>1, <3>4 DEF ListsFiles
  <2> QED
    BY <2>1, <2>2, <2>3, <2>4
<1>10. ASSUME NEW i \in 1..Len(ids) PROVE c[i] \in X /\ c[i].id = ids[i]
  <2>1. c[i] = [id |-> ids[i], source |-> "file_substring", rank |-> 0]
    BY <1>9 DEF Candidate
  <2>2. ids[i] \in InMatchingFile(q) /\ 0 \in Nat
    BY <1>9
  <2> HIDE DEF c
  <2> QED
    BY <2>1, <2>2
<1>11. c \in [1..Len(ids) -> X]
  <2> HIDE DEF X
  <2> QED
    BY <1>9, <1>10
<1> HIDE DEF c
<1>12. c \in Seq(X) /\ Len(c) = Len(ids)
  <2> HIDE DEF X
  <2> QED
    BY <1>9, <1>11, FunctionToSequence
<1>13. ASSUME NEW i \in 1..Len(c), NEW j \in 1..Len(c), i < j
       PROVE  Before(FilePlace[c[i].id], FilePlace[c[j].id])
  <2>1. Before(FilePlace[ids[i]], FilePlace[ids[j]])
    BY <1>8, <1>12, <1>13 DEF ListsFiles
  <2> QED
    BY <1>10, <1>12, <2>1
<1>14. ASSUME NEW x \in InMatchingFile(q) PROVE \E i \in 1..Len(c) : c[i].id = x
  BY <1>9, <1>10, <1>12
<1>15. ListsBy(c, InMatchingFile(q), FilePlace, "file_substring", Nat)
  BY <1>12, <1>13, <1>14 DEF ListsBy
<1> QED
  BY <1>1, <1>15

----
(* The candidates of all sources.                                          *)

\* out lists the nodes M in the order of their best places B, from given sources.
OrderedBy(out, M, B, sources, ranks) ==
    /\ out \in Seq([id: Nodes, source: sources, rank: ranks])
    /\ \A i \in 1..Len(out) : out[i].id \in M
    /\ \A x \in M : \E i \in 1..Len(out) : out[i].id = x
    /\ \A i, j \in 1..Len(out) : i < j => Before(B[out[i].id], B[out[j].id])

\* The nodes L of the next source, without those M of the sources before it, come after M.
Continues(M, L, B, key) ==
    /\ \A x \in L \ M : B[x] = key[x]
    /\ \A x \in M, y \in L \ M : Before(B[x], B[y])

\* r is out and more candidates, from a source.
Extends(r, out, source) ==
    /\ Len(out) <= Len(r)
    /\ \A i \in 1..Len(out) : r[i] = out[i]
    /\ \A i \in 1..Len(r) : Len(out) < i => r[i].source = source

LEMMA LargerType ==
    ASSUME NEW Y, NEW X, Y \subseteq X, NEW s \in Seq(Y)
    PROVE  s \in Seq(X) /\ Len(s) \in Nat
OBVIOUS

LEMMA SourceAdded ==
    ASSUME NEW out, NEW M, NEW B, NEW sources, NEW ranks, OrderedBy(out, M, B, sources, ranks),
           NEW cs, NEW L \in SUBSET Nodes, NEW key, NEW source, NEW more,
           ListsBy(cs, L, key, source, more),
           Continues(M, L, B, key), NEW r, r = AppendUnseen(out, cs)
    PROVE  /\ OrderedBy(r, M \union L, B, sources \union {source}, ranks \union more)
           /\ Extends(r, out, source)
<1> DEFINE X == [id: Nodes, source: sources \union {source}, rank: ranks \union more]
           Y == [id: L, source: {source}, rank: more]
<1>1. out \in Seq(X)
  <2>1. out \in Seq([id: Nodes, source: sources, rank: ranks])
    BY DEF OrderedBy
  <2>2. [id: Nodes, source: sources, rank: ranks] \subseteq X
    OBVIOUS
  <2> DEFINE W == [id: Nodes, source: sources, rank: ranks]
  <2> HIDE DEF X, W
  <2> QED
    BY <2>1, <2>2, LargerType DEF W
<1>2. cs \in Seq(Y) /\ cs \in Seq(X) /\ Len(cs) \in Nat
  <2>1. cs \in Seq(Y)
    BY DEF ListsBy
  <2>2. Y \subseteq X
    OBVIOUS
  <2> HIDE DEF X, Y
  <2> QED
    BY <2>1, <2>2, LargerType
<1>3. \A k \in 1..Len(cs) : cs[k].id \in L /\ cs[k].source = source
  <2>1. \A k \in 1..Len(cs) : cs[k] \in Y
    <3> HIDE DEF Y
    <3> QED
      BY <1>2, EntriesTyped
  <2> QED
    BY <2>1
<1>4. r \in Seq(X) /\ Merges(r, out, cs, Len(cs))
  <2> HIDE DEF X
  <2> QED
    BY <1>1, <1>2, UnseenAppended
<1>5. /\ Len(out) <= Len(r)
      /\ \A i \in 1..Len(out) : r[i] = out[i]
      /\ \A i \in 1..Len(r) : Len(out) < i =>
            /\ \E k \in 1..Len(cs) : r[i] = cs[k]
            /\ \A j \in 1..Len(r) : j < i => r[j].id # r[i].id
      /\ \A i, j \in 1..Len(r) : Len(out) < i /\ i < j =>
            \E k, l \in 1..Len(cs) : k < l /\ r[i] = cs[k] /\ r[j] = cs[l]
      /\ \A k \in 1..Len(cs) : \E i \in 1..Len(r) : r[i].id = cs[k].id
  BY <1>4 DEF Merges
<1>6. /\ \A i \in 1..Len(out) : out[i].id \in M
      /\ \A x \in M : \E i \in 1..Len(out) : out[i].id = x
      /\ \A i, j \in 1..Len(out) : i < j => Before(B[out[i].id], B[out[j].id])
  BY DEF OrderedBy
<1>7. Len(out) \in Nat /\ Len(r) \in Nat /\ 1..Len(out) \subseteq 1..Len(r)
  <2>1. Len(out) \in Nat /\ Len(r) \in Nat
    <3> HIDE DEF X
    <3> QED
      BY <1>1, <1>4, EntriesTyped
  <2> QED
    BY <1>5, <2>1
<1>8. ASSUME NEW i \in 1..Len(r), Len(out) < i
      PROVE  r[i].id \in L \ M /\ r[i].source = source
  <2>1. r[i].id \in L /\ r[i].source = source
    <3>1. PICK k \in 1..Len(cs) : r[i] = cs[k]
      BY <1>5, <1>8
    <3> QED
      BY <1>3, <3>1
  <2>2. ASSUME r[i].id \in M PROVE FALSE
    <3>1. PICK j \in 1..Len(out) : out[j].id = r[i].id
      BY <1>6, <2>2
    <3>2. j \in 1..Len(r) /\ j < i /\ r[j].id = r[i].id
      BY <1>5, <1>7, <1>8, <3>1
    <3> QED
      BY <1>5, <1>8, <3>2
  <2> QED
    BY <2>1, <2>2
<1>9. \A i \in 1..Len(r) : i \in 1..Len(out) \/ Len(out) < i
  BY <1>7
<1>10. ASSUME NEW i \in 1..Len(r) PROVE r[i].id \in M \union L
  BY <1>5, <1>6, <1>8, <1>9
<1>11. ASSUME NEW x \in M \union L PROVE \E i \in 1..Len(r) : r[i].id = x
  <2>1. CASE x \in M
    BY <1>5, <1>6, <1>7, <2>1
  <2>2. CASE x \in L
    <3>1. PICK k \in 1..Len(cs) : cs[k].id = x
      BY <2>2 DEF ListsBy
    <3> QED
      BY <1>5, <3>1
  <2> QED
    BY <2>1, <2>2
<1>12. ASSUME NEW i \in 1..Len(r), NEW j \in 1..Len(r), i < j
       PROVE  Before(B[r[i].id], B[r[j].id])
  <2>1. CASE j \in 1..Len(out)
    <3>1. i \in 1..Len(out)
      BY <1>7, <1>12, <2>1
    <3> QED
      BY <1>5, <1>6, <1>12, <2>1, <3>1
  <2>2. CASE Len(out) < j /\ i \in 1..Len(out)
    <3>1. r[i].id \in M
      BY <1>5, <1>6, <2>2
    <3> QED
      BY <1>8, <2>2, <3>1 DEF Continues
  <2>3. CASE Len(out) < j /\ Len(out) < i
    <3>1. PICK k \in 1..Len(cs), l \in 1..Len(cs) : k < l /\ r[i] = cs[k] /\ r[j] = cs[l]
      BY <1>5, <1>12, <2>3
    <3>2. Before(key[cs[k].id], key[cs[l].id])
      BY <3>1 DEF ListsBy
    <3>3. r[i].id \in L \ M /\ r[j].id \in L \ M
      BY <1>8, <2>3
    <3>4. B[r[i].id] = key[cs[k].id] /\ B[r[j].id] = key[cs[l].id]
      BY <3>1, <3>3 DEF Continues
    <3> QED
      BY <3>2, <3>4
  <2> QED
    BY <1>9, <2>1, <2>2, <2>3
<1>13. OrderedBy(r, M \union L, B, sources \union {source}, ranks \union more)
  BY <1>4, <1>10, <1>11, <1>12 DEF OrderedBy
<1>14. Extends(r, out, source)
  BY <1>5, <1>8 DEF Extends
<1> QED
  BY <1>13, <1>14

Matching(q) == Named(q) \union Firsts \union InMatchingFile(q)

\* The best of a node's places.
Best(q) ==
    [id \in Nodes |-> IF id \in Named(q) THEN ExactPlace[id]
                      ELSE IF id \in Firsts THEN RankPlace(q)[id] ELSE FilePlace[id]]

LEMMA PlacesTyped ==
    ASSUME Shaped(graph), NEW q \in Query, NEW id \in Nodes
    PROVE  /\ ExactPlace[id] \in Seq(Nat) /\ Len(ExactPlace[id]) >= 1 /\ ExactPlace[id][1] = 0
           /\ RankPlace(q)[id] \in Seq(Nat) /\ Len(RankPlace(q)[id]) >= 1 /\ RankPlace(q)[id][1] = 1
           /\ FilePlace[id] \in Seq(Nat) /\ Len(FilePlace[id]) >= 1 /\ FilePlace[id][1] = 2
<1>1. id \in Seq(Nat) /\ FileOf(id) \in Nat
  BY NodesKnown
<1>2. ASSUME NEW u, NEW n, NEW s \in Seq(Nat), IsPrefixed(u, n, s)
      PROVE  u \in Seq(Nat) /\ Len(u) >= 1 /\ u[1] = n
  <2>1. u \in Seq(Nat) /\ Len(u) = Len(s) + 1 /\ u[1] = n /\ Len(s) \in Nat
    BY <1>2, EntriesTyped DEF IsPrefixed
  <2> QED
    BY <2>1
<1>3. IsPrefixed(ExactPlace[id], 0, id)
  BY <1>1, Prefixed DEF ExactPlace
<1>4. \E s \in Seq(Nat) : IsPrefixed(RankPlace(q)[id], 1, s)
  <2>1. PICK c : c = [symbol |-> SymbolOf(id), id |-> id]
    OBVIOUS
  <2> QED
    BY <2>1, RankKeys
<1>5. \E s \in Seq(Nat) : IsPrefixed(FilePlace[id], 2, s)
  <2>1. <<FileOf(id)>> \o id \in Seq(Nat)
    BY <1>1, Prefixed
  <2>2. IsPrefixed(<<2, FileOf(id)>> \o id, 2, <<FileOf(id)>> \o id)
    BY <1>1, PrefixedTwice
  <2>3. FilePlace[id] = <<2, FileOf(id)>> \o id
    BY DEF FilePlace
  <2> QED
    BY <2>1, <2>2, <2>3
<1>6. ExactPlace[id] \in Seq(Nat) /\ Len(ExactPlace[id]) >= 1 /\ ExactPlace[id][1] = 0
  BY <1>1, <1>2, <1>3
<1>7. RankPlace(q)[id] \in Seq(Nat) /\ Len(RankPlace(q)[id]) >= 1 /\ RankPlace(q)[id][1] = 1
  BY <1>2, <1>4
<1>8. FilePlace[id] \in Seq(Nat) /\ Len(FilePlace[id]) >= 1 /\ FilePlace[id][1] = 2
  BY <1>2, <1>5
<1> QED
  BY <1>6, <1>7, <1>8

LEMMA PlacesOrdered ==
    ASSUME Shaped(graph), NEW q \in Query, NEW d \in Nodes, NEW e \in Nodes
    PROVE  /\ Before(ExactPlace[d], RankPlace(q)[e])
           /\ Before(ExactPlace[d], FilePlace[e])
           /\ Before(RankPlace(q)[d], FilePlace[e])
<1>1. /\ ExactPlace[d] \in Seq(Nat) /\ Len(ExactPlace[d]) >= 1 /\ ExactPlace[d][1] = 0
      /\ RankPlace(q)[d] \in Seq(Nat) /\ Len(RankPlace(q)[d]) >= 1 /\ RankPlace(q)[d][1] = 1
      /\ RankPlace(q)[e] \in Seq(Nat) /\ Len(RankPlace(q)[e]) >= 1 /\ RankPlace(q)[e][1] = 1
      /\ FilePlace[e] \in Seq(Nat) /\ Len(FilePlace[e]) >= 1 /\ FilePlace[e][1] = 2
  BY PlacesTyped
<1>2. Before(ExactPlace[d], RankPlace(q)[e])
  <2>1. ExactPlace[d][1] < RankPlace(q)[e][1]
    BY <1>1
  <2> QED
    BY <1>1, <2>1, SmallerFirst
<1>3. Before(ExactPlace[d], FilePlace[e])
  <2>1. ExactPlace[d][1] < FilePlace[e][1]
    BY <1>1
  <2> QED
    BY <1>1, <2>1, SmallerFirst
<1>4. Before(RankPlace(q)[d], FilePlace[e])
  <2>1. RankPlace(q)[d][1] < FilePlace[e][1]
    BY <1>1
  <2> QED
    BY <1>1, <2>1, SmallerFirst
<1> QED
  BY <1>2, <1>3, <1>4

LEMMA BestTyped ==
    ASSUME Shaped(graph), NEW q \in Query
    PROVE  \A id \in Nodes : Best(q)[id] \in Seq(Nat)
BY PlacesTyped DEF Best

SymbolSources == {"exact_symbol", "fuzzy_symbol"}

AllCandidates(q) ==
    AppendUnseen(AppendUnseen(AppendUnseen(<<>>, ExactCandidates(q)), FuzzyCandidates(q)),
                 FileCandidates(q))

\* All candidates: every matching node once, in the order of its best place, the symbols
\* before the files.
LEMMA AllOrdered ==
    ASSUME Shaped(graph), NEW q \in Query, q # Blank
    PROVE  /\ OrderedBy(AllCandidates(q), Matching(q), Best(q), Source, Nat)
           /\ \E n \in 0..Len(AllCandidates(q)) :
                 /\ \A i \in 1..n : AllCandidates(q)[i].source \in SymbolSources
                                    /\ AllCandidates(q)[i].rank \in Nat \ {0}
                 /\ \A i \in 1..Len(AllCandidates(q)) :
                       n < i => AllCandidates(q)[i].source = "file_substring"
<1> DEFINE B == Best(q)
           a1 == AppendUnseen(<<>>, ExactCandidates(q))
           a2 == AppendUnseen(a1, FuzzyCandidates(q))
           a3 == AppendUnseen(a2, FileCandidates(q))
           P == Nat \ {0}
           M0 == Named(q)
           M1 == M0 \union Firsts
           M2 == M1 \union InMatchingFile(q)
<1>0. M0 \in SUBSET Nodes /\ Firsts \in SUBSET Nodes /\ InMatchingFile(q) \in SUBSET Nodes
  BY DEF Named, Firsts, InMatchingFile
<1>1. /\ \A x \in M0 : B[x] = ExactPlace[x]
      /\ \A x \in Firsts \ M0 : B[x] = RankPlace(q)[x]
      /\ \A x \in InMatchingFile(q) \ M1 : B[x] = FilePlace[x]
  BY <1>0 DEF Best
<1> HIDE DEF B
<1>2. OrderedBy(<<>>, {}, B, {}, {})
  BY DEF OrderedBy
<1>3. OrderedBy(a1, {} \union M0, B, {} \union {"exact_symbol"}, {} \union P)
  <2>1. ListsBy(ExactCandidates(q), M0, ExactPlace, "exact_symbol", P)
    BY ExactListed
  <2>2. Continues({}, M0, B, ExactPlace)
    BY <1>1 DEF Continues
  <2> HIDE DEF M0, P
  <2> QED
    BY <1>0, <1>2, <2>1, <2>2, SourceAdded
<1>4. OrderedBy(a1, M0, B, {"exact_symbol"}, P)
  <2>1. {} \union M0 = M0 /\ {} \union {"exact_symbol"} = {"exact_symbol"} /\ {} \union P = P
    OBVIOUS
  <2> HIDE DEF a1, M0, P
  <2> QED
    BY <1>3, <2>1
<1>5. OrderedBy(a2, M1, B, {"exact_symbol"} \union {"fuzzy_symbol"}, P \union P)
  <2>1. ListsBy(FuzzyCandidates(q), Firsts, RankPlace(q), "fuzzy_symbol", P)
    BY FuzzyListed
  <2>2. ASSUME NEW x \in M0, NEW y \in Firsts \ M0 PROVE Before(B[x], B[y])
    <3>1. x \in Nodes /\ y \in Nodes
      BY <1>0
    <3>2. B[x] = ExactPlace[x] /\ B[y] = RankPlace(q)[y]
      BY <1>1
    <3> HIDE DEF M0
    <3> QED
      BY <3>1, <3>2, PlacesOrdered
  <2>3. Continues(M0, Firsts, B, RankPlace(q))
    <3> HIDE DEF M0
    <3> QED
      BY <1>1, <2>2 DEF Continues
  <2> HIDE DEF a1, M0, P
  <2> QED
    BY <1>0, <1>4, <2>1, <2>3, SourceAdded
<1>6. OrderedBy(a2, M1, B, SymbolSources, P)
  <2>1. {"exact_symbol"} \union {"fuzzy_symbol"} = SymbolSources /\ P \union P = P
    BY DEF SymbolSources
  <2> HIDE DEF a2, M1, P
  <2> QED
    BY <1>5, <2>1
<1>7. /\ OrderedBy(a3, M2, B, SymbolSources \union {"file_substring"}, P \union Nat)
      /\ Extends(a3, a2, "file_substring")
  <2>1. ListsBy(FileCandidates(q), InMatchingFile(q), FilePlace, "file_substring", Nat)
    BY FilesListed
  <2>2. ASSUME NEW x \in M1, NEW y \in InMatchingFile(q) \ M1 PROVE Before(B[x], B[y])
    <3>1. x \in Nodes /\ y \in Nodes
      BY <1>0
    <3>2. B[y] = FilePlace[y] /\ (B[x] = ExactPlace[x] \/ B[x] = RankPlace(q)[x])
      BY <1>1
    <3> HIDE DEF M1
    <3> QED
      BY <3>1, <3>2, PlacesOrdered
  <2>3. Continues(M1, InMatchingFile(q), B, FilePlace)
    <3> HIDE DEF M1
    <3> QED
      BY <1>1, <2>2 DEF Continues
  <2> HIDE DEF a2, M1, P
  <2> QED
    BY <1>0, <1>6, <2>1, <2>3, SourceAdded
<1>8. OrderedBy(a3, M2, B, Source, Nat)
  <2>1. SymbolSources \union {"file_substring"} = Source /\ P \union Nat = Nat
    BY DEF SymbolSources, Source
  <2> HIDE DEF a3, M2, P
  <2> QED
    BY <1>7, <2>1
<1>9. Len(a2) \in Nat /\ \A i \in 1..Len(a2) : a2[i].source \in SymbolSources /\ a2[i].rank \in P
  <2> DEFINE Y == [id: Nodes, source: SymbolSources, rank: P]
  <2>1. a2 \in Seq(Y)
    <3> HIDE DEF a2, P
    <3> QED
      BY <1>6 DEF OrderedBy
  <2>2. Len(a2) \in Nat /\ \A i \in 1..Len(a2) : a2[i] \in Y
    <3> HIDE DEF Y, a2
    <3> QED
      BY <2>1, EntriesTyped
  <2> HIDE DEF a2, P
  <2> QED
    BY <2>2
<1>10. a3 = AllCandidates(q) /\ M2 = Matching(q)
  BY DEF AllCandidates, Matching
<1>11. Len(a3) \in Nat
  <2>1. a3 \in Seq([id: Nodes, source: Source, rank: Nat])
    <3> HIDE DEF a3
    <3> QED
      BY <1>8 DEF OrderedBy
  <2> HIDE DEF a3
  <2> QED
    BY <2>1, EntriesTyped
<1> HIDE DEF a2, a3, M1, M2
<1>12. Len(a2) \in 0..Len(a3)
  BY <1>7, <1>9, <1>11 DEF Extends
<1>13. \A i \in 1..Len(a2) : a3[i].source \in SymbolSources /\ a3[i].rank \in Nat \ {0}
  BY <1>7, <1>9 DEF Extends
<1>14. \A i \in 1..Len(a3) : Len(a2) < i => a3[i].source = "file_substring"
  BY <1>7 DEF Extends
<1> QED
  BY <1>8, <1>10, <1>12, <1>13, <1>14 DEF B

\* Each number from 1 to the size of the answer is the rank of the candidate in its place.
LEMMA FilesAreRanked ==
    ASSUME NEW out \in Seq([id: Nodes, source: Source, rank: Nat]), NEW n \in 0..Len(out),
           \A i \in 1..n : out[i].source \in SymbolSources /\ out[i].rank \in Nat \ {0},
           \A i \in 1..Len(out) : n < i => out[i].source = "file_substring"
    PROVE  /\ RankFiles(out) \in Seq([id: Nodes, source: Source, rank: Nat \ {0}])
           /\ Len(RankFiles(out)) = Len(out)
           /\ \A i \in 1..Len(out) : RankFiles(out)[i].id = out[i].id
<1> DEFINE S == {i \in DOMAIN out : out[i].source # "file_substring"}
           X == [id: Nodes, source: Source, rank: Nat]
           Y == [id: Nodes, source: Source, rank: Nat \ {0}]
           entry(i) == IF out[i].source = "file_substring"
                       THEN [out[i] EXCEPT !.rank = i - Cardinality(S)] ELSE out[i]
           r == [i \in DOMAIN out |-> entry(i)]
<1>1. Len(out) \in Nat /\ DOMAIN out = 1..Len(out) /\ n \in Nat
  OBVIOUS
<1>2. \A i \in 1..Len(out) : out[i] \in X
  <2>1. out \in Seq(X)
    OBVIOUS
  <2> HIDE DEF X
  <2> QED
    BY <2>1, EntriesTyped
<1>3. S = 1..n
  <2>1. "file_substring" \notin SymbolSources
    BY DEF SymbolSources
  <2>2. \A i \in 1..Len(out) : out[i].source # "file_substring" <=> i <= n
    BY <1>1, <2>1
  <2> QED
    BY <1>1, <2>2
<1>4. Cardinality(S) = n
  <2>1. Cardinality(1..n) = n
    BY <1>1, FS_Interval
  <2> QED
    BY <1>3, <2>1
<1> HIDE DEF S
<1>5. ASSUME NEW i \in 1..Len(out) PROVE entry(i) \in Y /\ entry(i).id = out[i].id
  <2>1. out[i] \in X
    BY <1>2
  <2>2. CASE n < i
    <3>1. out[i].source = "file_substring" /\ i - n \in Nat \ {0}
      BY <1>1, <2>2
    <3>2. entry(i) = [out[i] EXCEPT !.rank = i - n]
      BY <1>4, <3>1
    <3> QED
      BY <2>1, <3>1, <3>2
  <2>3. CASE i <= n
    <3>1. i \in 1..n
      BY <1>1, <2>3
    <3>2. out[i].source \in SymbolSources /\ out[i].rank \in Nat \ {0}
      BY <3>1
    <3>3. entry(i) = out[i]
      BY <3>2 DEF SymbolSources
    <3> QED
      BY <2>1, <3>2, <3>3
  <2> QED
    BY <1>1, <2>2, <2>3
<1>6. /\ r \in [1..Len(out) -> Y]
      /\ \A i \in 1..Len(out) : r[i].id = out[i].id
  <2> HIDE DEF Y, entry
  <2> QED
    BY <1>1, <1>5
<1>7. RankFiles(out) = r
  BY DEF RankFiles, S
<1> HIDE DEF r, Y
<1>8. r \in Seq(Y) /\ Len(r) = Len(out)
  BY <1>1, <1>6, FunctionToSequence
<1> QED
  BY <1>6, <1>7, <1>8 DEF Y

\* The first n of id are the elements of M, by B.
Increasing(id, n, M, B) ==
    /\ \A i \in 1..n : id[i] \in M /\ B[id[i]] \in Seq(Nat)
    /\ \A x \in M : \E i \in 1..n : id[i] = x
    /\ \A i, j \in 1..n : i < j => Before(B[id[i]], B[id[j]])

\* A candidate's place in the list is one more than the number of nodes with better places.
LEMMA PlacesAreCounted ==
    ASSUME NEW n \in Nat, NEW id, NEW M, NEW B, Increasing(id, n, M, B)
    PROVE  /\ Cardinality(M) = n
           /\ \A i, j \in 1..n : id[i] = id[j] => i = j
           /\ \A i \in 1..n : i = 1 + Cardinality({x \in M : Before(B[x], B[id[i]])})
<1>0. /\ \A i \in 1..n : id[i] \in M /\ B[id[i]] \in Seq(Nat)
      /\ \A x \in M : \E i \in 1..n : id[i] = x
      /\ \A i, j \in 1..n : i < j => Before(B[id[i]], B[id[j]])
  BY DEF Increasing
<1>1. ASSUME NEW i \in 1..n, NEW j \in 1..n, Before(B[id[i]], B[id[j]]) PROVE i < j
  <2>1. CASE j < i
    <3>1. Before(B[id[j]], B[id[i]])
      BY <1>0, <2>1
    <3>2. Before(B[id[i]], B[id[i]])
      BY <1>0, <1>1, <3>1, BeforeTransitive
    <3> QED
      BY <1>0, <3>2, BeforeIrreflexive
  <2>2. CASE j = i
    BY <1>0, <1>1, <2>2, BeforeIrreflexive
  <2> QED
    BY <2>1, <2>2
<1>2. ASSUME NEW i \in 1..n, NEW j \in 1..n, id[i] = id[j] PROVE i = j
  <2>1. ~Before(B[id[i]], B[id[j]]) /\ ~Before(B[id[j]], B[id[i]])
    BY <1>0, <1>2, BeforeIrreflexive
  <2>2. ~(i < j) /\ ~(j < i)
    BY <1>0, <2>1
  <2> QED
    BY <2>2
<1>3. ASSUME NEW k \in 0..n, NEW T, T = {id[i] : i \in 1..k} PROVE Cardinality(T) = k
  <2> DEFINE f == [i \in 1..k |-> id[i]]
  <2>1. f \in Surjection(1..k, T)
    BY <1>3 DEF Surjection
  <2>2. 1..k \subseteq 1..n /\ k \in Nat
    OBVIOUS
  <2>3. f \in Injection(1..k, T)
    BY <1>2, <2>1, <2>2 DEF Injection, IsInjective, Surjection
  <2>4. IsFiniteSet(1..k) /\ Cardinality(1..k) = k
    BY <2>2, FS_Interval
  <2> HIDE DEF f
  <2> QED
    BY <2>1, <2>3, <2>4, FS_Surjection
<1>4. Cardinality(M) = n
  <2>1. M = {id[i] : i \in 1..n}
    BY <1>0
  <2> QED
    BY <1>3, <2>1
<1>5. ASSUME NEW i \in 1..n PROVE i = 1 + Cardinality({x \in M : Before(B[x], B[id[i]])})
  <2> DEFINE U == {x \in M : Before(B[x], B[id[i]])}
             V == {id[j] : j \in 1..(i - 1)}
  <2>1. i - 1 \in 0..n /\ \A j \in 1..n : j < i <=> j \in 1..(i - 1)
    OBVIOUS
  <2>2. \A j \in 1..n : Before(B[id[j]], B[id[i]]) <=> j \in 1..(i - 1)
    BY <1>0, <1>1, <2>1
  <2>3. U = V
    <3>1. ASSUME NEW x \in M, Before(B[x], B[id[i]]) PROVE x \in {id[j] : j \in 1..(i - 1)}
      <4>1. PICK j \in 1..n : id[j] = x
        BY <1>0
      <4> QED
        BY <2>2, <3>1, <4>1
    <3>2. ASSUME NEW j \in 1..(i - 1) PROVE id[j] \in M /\ Before(B[id[j]], B[id[i]])
      <4>1. j \in 1..n
        OBVIOUS
      <4> QED
        BY <1>0, <2>2, <4>1
    <3> QED
      BY <3>1, <3>2
  <2>4. Cardinality(V) = i - 1
    BY <1>3, <2>1
  <2>5. i = 1 + Cardinality(U)
    <3> HIDE DEF U, V
    <3> QED
      BY <2>3, <2>4
  <2> QED
    BY <2>5
<1> QED
  BY <1>2, <1>4, <1>5

LEMMA PlacesOfNode ==
    ASSUME Shaped(graph), NEW q \in Query, NEW id \in Nodes
    PROVE  Places(q, id) = (IF id \in Named(q) THEN {ExactPlace[id]} ELSE {})
                           \union (IF id \in Firsts THEN {RankPlace(q)[id]} ELSE {})
                           \union (IF id \in InMatchingFile(q) THEN {FilePlace[id]} ELSE {})
<1> DEFINE s == SymbolOf(id)
           f == FileOf(id)
           T == {x \in {s} : \A d \in DOMAIN graph.nodes :
                                graph.nodes[d].symbol = x => d = id \/ Before(id, d)}
           E == {<<0>> \o id : x \in {q} \intersect {s}}
           R == {<<1, MaxScore - Score[<<q, x>>], x>> \o id : x \in T}
           F == {<<2, x>> \o id : x \in {y \in {f} : <<q, y>> \in InPath}}
<1>1. Places(q, id) = E \union R \union F
  BY DEF Places, SymbolOf, FileOf
<1>2. E = IF id \in Named(q) THEN {ExactPlace[id]} ELSE {}
  BY DEF Named, ExactPlace
<1>3. R = IF id \in Firsts THEN {RankPlace(q)[id]} ELSE {}
  <2>1. T = IF id \in Firsts THEN {s} ELSE {}
    BY DEF Firsts, SymbolOf, Nodes
  <2>2. RankPlace(q)[id] = <<1, MaxScore - Score[<<q, s>>], s>> \o id
    BY DEF RankPlace
  <2> HIDE DEF T, s
  <2> QED
    BY <2>1, <2>2
<1>4. F = IF id \in InMatchingFile(q) THEN {FilePlace[id]} ELSE {}
  BY DEF InMatchingFile, FilePlace
<1> HIDE DEF E, R, F
<1> QED
  BY <1>1, <1>2, <1>3, <1>4

LEMMA BestIsBest ==
    ASSUME Shaped(graph), NEW q \in Query, NEW id \in Nodes
    PROVE  /\ Places(q, id) # {} <=> id \in Matching(q)
           /\ id \in Matching(q) => BestPlace(q, id) = Best(q)[id]
<1> DEFINE P == Places(q, id)
           E == ExactPlace[id]
           R == RankPlace(q)[id]
           F == FilePlace[id]
           B == Best(q)[id]
<1>1. P = (IF id \in Named(q) THEN {E} ELSE {}) \union (IF id \in Firsts THEN {R} ELSE {})
          \union (IF id \in InMatchingFile(q) THEN {F} ELSE {})
  BY PlacesOfNode
<1>2. P # {} <=> id \in Matching(q)
  BY <1>1 DEF Matching
<1>3. E \in Seq(Nat) /\ R \in Seq(Nat) /\ F \in Seq(Nat)
  BY PlacesTyped
<1>4. Before(E, R) /\ Before(E, F) /\ Before(R, F)
  BY PlacesOrdered
<1>5. B = IF id \in Named(q) THEN E ELSE IF id \in Firsts THEN R ELSE F
  BY DEF Best
<1>6. BestPlace(q, id) = CHOOSE p \in P : \A other \in P : p = other \/ Before(p, other)
  BY DEF BestPlace
<1> HIDE DEF P, E, R, F, B
<1>7. ASSUME id \in Matching(q) PROVE BestPlace(q, id) = B
  <2>1. B \in P /\ \A other \in P : B = other \/ Before(B, other)
    BY <1>1, <1>4, <1>5, <1>7 DEF Matching
  <2>2. P \subseteq Seq(Nat)
    BY <1>1, <1>3
  <2>3. ASSUME NEW p \in P, \A other \in P : p = other \/ Before(p, other) PROVE p = B
    <3>1. CASE Before(p, B) /\ Before(B, p)
      <4>1. p \in Seq(Nat) /\ B \in Seq(Nat)
        BY <2>1, <2>2
      <4> QED
        BY <3>1, <4>1, BeforeTransitive, BeforeIrreflexive
    <3> QED
      BY <2>1, <2>3, <3>1
  <2>4. (CHOOSE p \in P : \A other \in P : p = other \/ Before(p, other)) = B
    BY <2>1, <2>3
  <2> QED
    BY <1>6, <2>4
<1> QED
  BY <1>2, <1>7 DEF P, B

\* The candidates for a query: the matching nodes, each in the place it has among them.
Offers(list, q, limit) ==
    LET size == Cardinality(Matching(q))
    IN  /\ list \in Seq([id: Nodes, source: Source, rank: Nat \ {0}])
        /\ size \in Nat
        /\ Len(list) = (IF limit < size THEN limit ELSE size)
        /\ \A i \in 1..Len(list) :
              /\ list[i].id \in Matching(q)
              /\ i = 1 + Cardinality({x \in Matching(q) : Before(Best(q)[x], Best(q)[list[i].id])})
        /\ \A i, j \in 1..Len(list) : list[i].id = list[j].id => i = j

LEMMA FirstOfSequence ==
    ASSUME NEW X, NEW s \in Seq(X), NEW m \in 0..Len(s)
    PROVE  /\ SubSeq(s, 1, m) \in Seq(X) /\ Len(SubSeq(s, 1, m)) = m
           /\ \A i \in 1..m : SubSeq(s, 1, m)[i] = s[i]
OBVIOUS

LEMMA CandidatesOffered ==
    ASSUME Shaped(graph), NEW q \in Query, q # Blank, NEW limit \in Limits
    PROVE  Offers(CollectAnchorCandidates(q, limit), q, limit)
<1> DEFINE X == [id: Nodes, source: Source, rank: Nat \ {0}]
           M == Matching(q)
           B == Best(q)
<1>1. PICK out : out = AllCandidates(q)
  OBVIOUS
<1>2. OrderedBy(out, M, B, Source, Nat)
  BY <1>1, AllOrdered
<1>3. PICK n \in 0..Len(out) :
         /\ \A i \in 1..n : out[i].source \in SymbolSources /\ out[i].rank \in Nat \ {0}
         /\ \A i \in 1..Len(out) : n < i => out[i].source = "file_substring"
  BY <1>1, AllOrdered
<1>4. /\ out \in Seq([id: Nodes, source: Source, rank: Nat])
      /\ \A i \in 1..Len(out) : out[i].id \in M
      /\ \A x \in M : \E i \in 1..Len(out) : out[i].id = x
      /\ \A i, j \in 1..Len(out) : i < j => Before(B[out[i].id], B[out[j].id])
  BY <1>2 DEF OrderedBy
<1>5. PICK all \in Seq(X) : /\ all = RankFiles(out) /\ Len(all) = Len(out)
                            /\ \A i \in 1..Len(out) : all[i].id = out[i].id
  BY <1>3, <1>4, FilesAreRanked
<1>6. Len(all) \in Nat
  OBVIOUS
<1>7. /\ \A i \in 1..Len(all) : all[i].id \in M /\ B[all[i].id] \in Seq(Nat)
      /\ \A x \in M : \E i \in 1..Len(all) : all[i].id = x
      /\ \A i, j \in 1..Len(all) : i < j => Before(B[all[i].id], B[all[j].id])
  <2>1. M \subseteq Nodes
    BY DEF Matching, Named, Firsts, InMatchingFile
  <2>2. \A id \in Nodes : B[id] \in Seq(Nat)
    BY BestTyped
  <2> HIDE DEF M, B, X
  <2> QED
    BY <1>4, <1>5, <2>1, <2>2
<1> DEFINE id == [i \in 1..Len(all) |-> all[i].id]
<1>8. \A i \in 1..Len(all) : id[i] = all[i].id
  OBVIOUS
<1> HIDE DEF id, M, B, X
<1>9. /\ Cardinality(M) = Len(all)
      /\ \A i, j \in 1..Len(all) : id[i] = id[j] => i = j
      /\ \A i \in 1..Len(all) : i = 1 + Cardinality({x \in M : Before(B[x], B[id[i]])})
  <2>1. /\ \A i \in 1..Len(all) : id[i] \in M /\ B[id[i]] \in Seq(Nat)
        /\ \A x \in M : \E i \in 1..Len(all) : id[i] = x
        /\ \A i, j \in 1..Len(all) : i < j => Before(B[id[i]], B[id[j]])
    BY <1>7, <1>8
  <2>2. PICK k \in Nat : k = Len(all)
    BY <1>6
  <2>3. Increasing(id, k, M, B)
    BY <2>1, <2>2 DEF Increasing
  <2>4. /\ Cardinality(M) = k
        /\ \A i, j \in 1..k : id[i] = id[j] => i = j
        /\ \A i \in 1..k : i = 1 + Cardinality({x \in M : Before(B[x], B[id[i]])})
    BY <2>3, PlacesAreCounted
  <2> QED
    BY <2>2, <2>4
<1> DEFINE m == IF limit < Len(all) THEN limit ELSE Len(all)
<1>10. m \in 0..Len(all)
  BY <1>6, GraphStoreAssumption
<1>11. CollectAnchorCandidates(q, limit) = SubSeq(all, 1, m)
  BY <1>1, <1>5 DEF CollectAnchorCandidates, AllCandidates
<1>12. PICK list \in Seq(X) : /\ list = SubSeq(all, 1, m) /\ Len(list) = m
                              /\ \A i \in 1..m : list[i] = all[i]
  <2> HIDE DEF m
  <2> QED
    BY <1>10, FirstOfSequence
<1>13. m = IF limit < Cardinality(M) THEN limit ELSE Cardinality(M)
  BY <1>9
<1> HIDE DEF m
<1>14. ASSUME NEW i \in 1..Len(list)
       PROVE  list[i].id = id[i] /\ i \in 1..Len(all)
  BY <1>6, <1>8, <1>10, <1>12
<1>15. ASSUME NEW i \in 1..Len(list)
       PROVE  /\ list[i].id \in M
              /\ i = 1 + Cardinality({x \in M : Before(B[x], B[list[i].id])})
  <2>1. id[i] \in M /\ i = 1 + Cardinality({x \in M : Before(B[x], B[id[i]])})
    BY <1>7, <1>8, <1>9, <1>14
  <2>2. list[i].id = id[i]
    BY <1>14
  <2> QED
    BY <2>1, <2>2
<1>16. \A i, j \in 1..Len(list) : list[i].id = list[j].id => i = j
  BY <1>9, <1>14
<1>17. Offers(list, q, limit)
  BY <1>6, <1>9, <1>12, <1>13, <1>15, <1>16 DEF Offers, M, B, X
<1> QED
  BY <1>11, <1>12, <1>17

\* A node whose best place is before that of all others is the first candidate.
LEMMA BestIsFirst ==
    ASSUME Shaped(graph), NEW q \in Query, NEW limit \in Nat \ {0}, NEW list, Offers(list, q, limit),
           NEW x \in Matching(q), \A y \in Matching(q) : y = x \/ Before(Best(q)[x], Best(q)[y])
    PROVE  Len(list) >= 1 /\ list[1].id = x
<1> DEFINE M == Matching(q)
           B == Best(q)
           S == {y \in M : Before(B[y], B[list[1].id])}
<1>1. IsFiniteSet(M)
  BY NodesKnown, FS_Subset DEF Matching, Named, Firsts, InMatchingFile
<1>2. Cardinality(M) \in Nat \ {0}
  BY <1>1, FS_CardinalityType, FS_EmptySet
<1>3. Len(list) >= 1 /\ 1 \in 1..Len(list)
  <2>1. Len(list) = IF limit < Cardinality(M) THEN limit ELSE Cardinality(M)
    BY DEF Offers
  <2> HIDE DEF M
  <2> QED
    BY <1>2, <2>1
<1>4. list[1].id \in M /\ 1 = 1 + Cardinality(S)
  BY <1>3 DEF Offers
<1>5. S = {}
  <2>1. IsFiniteSet(S)
    BY <1>1, FS_Subset
  <2>2. Cardinality(S) \in Nat
    BY <2>1, FS_CardinalityType
  <2> HIDE DEF S
  <2>3. Cardinality(S) = 0
    BY <1>4, <2>2
  <2> QED
    BY <2>1, <2>3, FS_EmptySet
<1>6. x \notin S
  BY <1>5
<1> QED
  BY <1>3, <1>4, <1>6

----
(* The direct lookup.                                                      *)

ScoreOf(q, id) == Score[<<q, SymbolOf(id)>>]

\* A first node of a symbol whose score is high enough, and ahead of all others.
Leads(q, x) ==
    /\ x \in Firsts /\ ScoreOf(q, x) >= MinScore
    /\ \A y \in Firsts \ {x} :
          ScoreOf(q, y) >= MinScore => ScoreOf(q, x) - ScoreOf(q, y) >= Gap

LEMMA ScoresTyped ==
    ASSUME Shaped(graph), NEW q \in Query, NEW id \in Nodes
    PROVE  ScoreOf(q, id) \in 0..MaxScore
<1>1. <<q, SymbolOf(id)>> \in Query \X Symbol
  BY NodesKnown
<1> QED
  BY <1>1, GraphStoreAssumption DEF ScoreOf

\* Of two nodes in the order of keys the first has no lower score.
LEMMA KeysByScore ==
    ASSUME Shaped(graph), NEW q \in Query, NEW d \in Nodes, NEW e \in Nodes,
           NEW b, b = [symbol |-> SymbolOf(d), id |-> d],
           NEW c, c = [symbol |-> SymbolOf(e), id |-> e]
    PROVE  /\ Before(RankKey(q, b), RankKey(q, c)) => ScoreOf(q, d) >= ScoreOf(q, e)
           /\ ScoreOf(q, d) > ScoreOf(q, e) => Before(RankPlace(q)[d], RankPlace(q)[e])
<1> DEFINE u == RankKey(q, b)
           v == RankKey(q, c)
<1>0. ASSUME NEW id \in Nodes, NEW k, k = [symbol |-> SymbolOf(id), id |-> id]
      PROVE  /\ RankKey(q, k) \in Seq(Nat) /\ Len(RankKey(q, k)) >= 1
             /\ RankKey(q, k)[1] = MaxScore - ScoreOf(q, id)
             /\ IsPrefixed(RankPlace(q)[id], 1, RankKey(q, k))
  <2>1. /\ RankKey(q, k) \in Seq(Nat) /\ Len(RankKey(q, k)) >= 2
        /\ RankKey(q, k)[1] = MaxScore - Score[<<q, SymbolOf(id)>>]
        /\ IsPrefixed(RankPlace(q)[id], 1, RankKey(q, k))
    BY <1>0, RankKeys
  <2> QED
    BY <2>1 DEF ScoreOf
<1>1. /\ u \in Seq(Nat) /\ Len(u) >= 1 /\ u[1] = MaxScore - ScoreOf(q, d)
      /\ v \in Seq(Nat) /\ Len(v) >= 1 /\ v[1] = MaxScore - ScoreOf(q, e)
      /\ IsPrefixed(RankPlace(q)[d], 1, u) /\ IsPrefixed(RankPlace(q)[e], 1, v)
  BY <1>0
<1> HIDE DEF u, v
<1>2. ScoreOf(q, d) \in Int /\ ScoreOf(q, e) \in Int /\ MaxScore \in Int
  BY ScoresTyped DEF MaxScore
<1>3. ASSUME Before(u, v), ~(ScoreOf(q, d) >= ScoreOf(q, e)) PROVE FALSE
  <2>1. v[1] < u[1]
    BY <1>1, <1>2, <1>3
  <2>2. Before(v, u)
    BY <1>1, <2>1, SmallerFirst
  <2>3. Before(u, u)
    BY <1>1, <1>3, <2>2, BeforeTransitive
  <2> QED
    BY <1>1, <2>3, BeforeIrreflexive
<1>4. ASSUME ScoreOf(q, d) > ScoreOf(q, e) PROVE Before(RankPlace(q)[d], RankPlace(q)[e])
  <2>1. u[1] < v[1]
    BY <1>1, <1>2, <1>4
  <2>2. Before(u, v)
    BY <1>1, <2>1, SmallerFirst
  <2> QED
    BY <1>1, <2>2, PrefixedBefore
<1> QED
  BY <1>3, <1>4 DEF u, v

LEMMA RankedFirsts ==
    ASSUME Shaped(graph), NEW q \in Query, q # Blank, NEW r, r = Ranked(q)
    PROVE  /\ DOMAIN r = 1..Len(r) /\ Len(r) \in Nat
           /\ \A i \in 1..Len(r) : r[i].id \in Firsts /\ r[i] = [symbol |-> SymbolOf(r[i].id), id |-> r[i].id]
           /\ \A id \in Firsts : \E i \in 1..Len(r) : r[i].id = id
           /\ \A i, j \in 1..Len(r) : i # j => r[i].id # r[j].id
           /\ \A i, j \in 1..Len(r) : i < j => ScoreOf(q, r[i].id) >= ScoreOf(q, r[j].id)
<1>1. /\ r \in Seq(SymbolIndex) /\ DOMAIN r = 1..Len(r)
      /\ \A c \in SymbolIndex : \E i \in 1..Len(r) : r[i] = c
      /\ \A i, j \in 1..Len(r) : i < j => Before(RankKey(q, r[i]), RankKey(q, r[j]))
  BY RankedListed
<1>2. SymbolIndex = {[symbol |-> SymbolOf(id), id |-> id] : id \in Firsts}
  BY IndexOfFirsts
<1>3. Len(r) \in Nat /\ \A i \in 1..Len(r) : r[i] \in SymbolIndex
  BY <1>1, EntriesTyped
<1>4. ASSUME NEW i \in 1..Len(r)
      PROVE  r[i].id \in Firsts /\ r[i] = [symbol |-> SymbolOf(r[i].id), id |-> r[i].id]
  <2>1. PICK id \in Firsts : r[i] = [symbol |-> SymbolOf(id), id |-> id]
    BY <1>2, <1>3
  <2> QED
    BY <2>1
<1>5. ASSUME NEW id \in Firsts PROVE \E i \in 1..Len(r) : r[i].id = id
  <2>1. [symbol |-> SymbolOf(id), id |-> id] \in SymbolIndex
    BY <1>2
  <2>2. PICK i \in 1..Len(r) : r[i] = [symbol |-> SymbolOf(id), id |-> id]
    BY <1>1, <2>1
  <2> QED
    BY <2>2
<1>6. Firsts \subseteq Nodes
  BY DEF Firsts
<1>7. ASSUME NEW i \in 1..Len(r), NEW j \in 1..Len(r), i < j
      PROVE  r[i].id # r[j].id /\ ScoreOf(q, r[i].id) >= ScoreOf(q, r[j].id)
  <2>1. PICK b, c : b = r[i] /\ c = r[j]
    OBVIOUS
  <2>2. PICK d \in Nodes, e \in Nodes :
           /\ d = r[i].id /\ e = r[j].id
           /\ b = [symbol |-> SymbolOf(d), id |-> d] /\ c = [symbol |-> SymbolOf(e), id |-> e]
    BY <1>4, <1>6, <2>1
  <2>3. Before(RankKey(q, b), RankKey(q, c))
    BY <1>1, <1>7, <2>1
  <2>4. ScoreOf(q, d) >= ScoreOf(q, e)
    BY <2>2, <2>3, KeysByScore
  <2>5. d # e
    <3>1. RankKey(q, b) \in Seq(Nat)
      BY <2>2, RankKeys
    <3>2. ASSUME d = e PROVE FALSE
      <4>1. b = c
        BY <2>2, <3>2
      <4> QED
        BY <2>3, <3>1, <4>1, BeforeIrreflexive
    <3> QED
      BY <3>2
  <2> QED
    BY <2>2, <2>4, <2>5
<1>8. \A i, j \in 1..Len(r) : i # j => r[i].id # r[j].id
  <2>1. \A i, j \in 1..Len(r) : i # j => i < j \/ j < i
    BY <1>3
  <2> QED
    BY <1>7, <2>1
<1> QED
  BY <1>1, <1>3, <1>4, <1>5, <1>7, <1>8

LEMMA WinnersLead ==
    ASSUME Shaped(graph), NEW q \in Query
    PROVE  /\ q = Blank => Winners(q) = {}
           /\ q # Blank => \A x : x \in Winners(q) <=> Leads(q, x)
<1> DEFINE r == Ranked(q)
           sc(i) == Score[<<q, r[i].symbol>>]
           eligible == {i \in DOMAIN r : sc(i) >= MinScore}
           first(S) == {j \in S : \A k \in S : j <= k}
           won == {j \in first(eligible) : \A k \in first(eligible \ {j}) : sc(j) - sc(k) >= Gap}
<1>1. Winners(q) = {r[i].id : i \in won}
  BY DEF Winners
<1>2. ASSUME q = Blank PROVE Winners(q) = {}
  <2>1. r = <<>>
    BY <1>2 DEF Ranked
  <2>2. DOMAIN r = {}
    BY <2>1
  <2> HIDE DEF r
  <2> QED
    BY <1>1, <2>2
<1>3. ASSUME q # Blank, NEW x PROVE x \in Winners(q) <=> Leads(q, x)
  <2>1. /\ DOMAIN r = 1..Len(r) /\ Len(r) \in Nat
        /\ \A i \in 1..Len(r) : r[i].id \in Firsts /\ r[i] = [symbol |-> SymbolOf(r[i].id), id |-> r[i].id]
        /\ \A id \in Firsts : \E i \in 1..Len(r) : r[i].id = id
        /\ \A i, j \in 1..Len(r) : i # j => r[i].id # r[j].id
        /\ \A i, j \in 1..Len(r) : i < j => ScoreOf(q, r[i].id) >= ScoreOf(q, r[j].id)
    BY <1>3, RankedFirsts
  <2>2. ASSUME NEW i \in 1..Len(r)
        PROVE  sc(i) = ScoreOf(q, r[i].id) /\ sc(i) \in Int
    <3>1. PICK id \in Firsts : id = r[i].id /\ r[i] = [symbol |-> SymbolOf(id), id |-> id]
      BY <2>1
    <3>2. r[i].symbol = SymbolOf(id) /\ id \in Nodes
      BY <3>1 DEF Firsts
    <3>3. sc(i) = ScoreOf(q, id) /\ ScoreOf(q, id) \in 0..MaxScore
      BY <3>2, ScoresTyped DEF ScoreOf
    <3> QED
      BY <3>1, <3>3 DEF MaxScore
  <2> HIDE DEF r, sc
  <2>3. ASSUME x \in Winners(q) PROVE Leads(q, x)
    <3>1. PICK j \in first(eligible) :
             /\ x = r[j].id
             /\ \A k \in first(eligible \ {j}) : sc(j) - sc(k) >= Gap
      BY <1>1, <2>3
    <3>2. j \in 1..Len(r) /\ sc(j) >= MinScore
      BY <2>1
    <3>3. x \in Firsts /\ ScoreOf(q, x) >= MinScore
      BY <2>1, <2>2, <3>1, <3>2
    <3>4. ASSUME NEW y \in Firsts \ {x}, ScoreOf(q, y) >= MinScore
          PROVE  ScoreOf(q, x) - ScoreOf(q, y) >= Gap
      <4>1. PICK k \in 1..Len(r) : r[k].id = y
        BY <2>1
      <4>2. sc(k) = ScoreOf(q, y) /\ sc(j) = ScoreOf(q, x)
        BY <2>2, <3>1, <3>2, <4>1
      <4>3. k \in eligible \ {j}
        BY <2>1, <3>1, <3>4, <4>1, <4>2
      <4>4. eligible \ {j} \in SUBSET Nat /\ eligible \subseteq 1..Len(r)
        BY <2>1
      <4>5. PICK m \in eligible \ {j} : \A l \in eligible \ {j} : m <= l
        BY <4>3, <4>4, LeastElement
      <4>6. sc(j) - sc(m) >= Gap /\ m \in 1..Len(r) /\ m <= k
        BY <3>1, <4>3, <4>4, <4>5
      <4>7. sc(m) >= sc(k)
        <5>1. CASE m = k
          BY <2>2, <4>1, <5>1
        <5>2. CASE m < k
          <6>1. ScoreOf(q, r[m].id) >= ScoreOf(q, r[k].id)
            BY <2>1, <4>1, <4>6, <5>2
          <6> QED
            BY <2>2, <4>1, <4>6, <6>1
        <5> QED
          BY <2>1, <4>1, <4>6, <5>1, <5>2
      <4>8. sc(j) \in Int /\ sc(m) \in Int /\ sc(k) \in Int /\ Gap \in Int
        BY <2>2, <3>2, <4>1, <4>6 DEF Gap
      <4>9. sc(j) - sc(k) >= Gap
        BY <4>6, <4>7, <4>8
      <4> QED
        BY <4>2, <4>9
    <3> QED
      BY <3>3, <3>4 DEF Leads
  <2>4. ASSUME Leads(q, x) PROVE x \in Winners(q)
    <3>1. PICK j \in 1..Len(r) : r[j].id = x
      BY <2>1, <2>4 DEF Leads
    <3>2. sc(j) = ScoreOf(q, x) /\ sc(j) \in Int
      BY <2>2, <3>1
    <3>3. j \in eligible
      BY <2>1, <2>4, <3>1, <3>2 DEF Leads
    <3>4. ASSUME NEW k \in eligible \ {j} PROVE j < k /\ sc(j) - sc(k) >= Gap
      <4>1. k \in 1..Len(r) /\ sc(k) >= MinScore /\ k # j
        BY <2>1
      <4>2. PICK y : y = r[k].id
        OBVIOUS
      <4>3. y \in Firsts \ {x} /\ sc(k) = ScoreOf(q, y) /\ sc(k) \in Int
        BY <2>1, <2>2, <3>1, <4>1, <4>2
      <4>4. sc(j) - sc(k) >= Gap
        BY <2>4, <3>2, <4>1, <4>3 DEF Leads
      <4>5. ~(k < j)
        <5>1. ASSUME k < j PROVE FALSE
          <6>1. ScoreOf(q, r[k].id) >= ScoreOf(q, r[j].id)
            BY <2>1, <4>1, <5>1
          <6>2. sc(k) >= sc(j)
            BY <3>1, <3>2, <4>2, <4>3, <6>1
          <6> QED
            BY <3>2, <4>3, <4>4, <6>2 DEF Gap
        <5> QED
          BY <5>1
      <4> QED
        BY <2>1, <4>1, <4>4, <4>5
    <3>5. j \in first(eligible)
      <4>1. \A k \in eligible : j <= k
        BY <3>1, <3>4
      <4> QED
        BY <3>3, <4>1
    <3>6. \A k \in first(eligible \ {j}) : sc(j) - sc(k) >= Gap
      BY <3>4
    <3> QED
      BY <1>1, <3>1, <3>5, <3>6
  <2> QED
    BY <2>3, <2>4
<1> QED
  BY <1>2, <1>3

LEMMA OneLeads ==
    ASSUME Shaped(graph), NEW q \in Query, NEW x, NEW y, Leads(q, x), Leads(q, y)
    PROVE  x = y
<1>1. x \in Firsts /\ y \in Firsts /\ x \in Nodes /\ y \in Nodes
  BY DEF Leads, Firsts
<1>2. ScoreOf(q, x) \in Int /\ ScoreOf(q, y) \in Int
  BY <1>1, ScoresTyped DEF MaxScore
<1>3. ASSUME x # y PROVE FALSE
  <2>1. ScoreOf(q, x) - ScoreOf(q, y) >= Gap /\ ScoreOf(q, y) - ScoreOf(q, x) >= Gap
    BY <1>1, <1>3 DEF Leads
  <2> QED
    BY <1>2, <2>1 DEF Gap
<1> QED
  BY <1>3

\* When nodes match exactly, their first is the only node that can lead.
LEMMA ExactLeads ==
    ASSUME Shaped(graph), NEW q \in Query, NEW h \in Named(q), h \in Firsts, NEW x, Leads(q, x)
    PROVE  x = h
<1>1. x \in Firsts /\ x \in Nodes /\ h \in Nodes
  BY DEF Leads, Firsts
<1>2. ScoreOf(q, h) = MaxScore
  <2>1. SymbolOf(h) = q /\ q \in Symbol
    BY NodesKnown DEF Named
  <2> QED
    BY <2>1, GraphStoreAssumption DEF ScoreOf
<1>3. ScoreOf(q, x) \in 0..MaxScore
  BY <1>1, ScoresTyped
<1>4. ASSUME x # h PROVE FALSE
  <2>1. ScoreOf(q, x) - ScoreOf(q, h) >= Gap
    BY <1>2, <1>4 DEF Leads, MaxScore, MinScore
  <2> QED
    BY <1>2, <1>3, <2>1 DEF MaxScore, Gap
<1> QED
  BY <1>4

LEMMA ExactIsBest ==
    ASSUME Shaped(graph), NEW q \in Query, NEW h \in Named(q), h \in Firsts
    PROVE  /\ h \in Matching(q)
           /\ \A y \in Matching(q) : y = h \/ Before(Best(q)[h], Best(q)[y])
<1>1. h \in Nodes /\ Best(q)[h] = ExactPlace[h] /\ ExactPlace[h] = <<0>> \o h /\ h \in Seq(Nat)
  BY NodesKnown DEF Named, Best, ExactPlace
<1>2. ASSUME NEW y \in Matching(q), y # h PROVE Before(Best(q)[h], Best(q)[y])
  <2>1. y \in Nodes /\ y \in Seq(Nat)
    BY NodesKnown DEF Matching, Named, Firsts, InMatchingFile
  <2>2. CASE y \in Named(q)
    <3>1. Best(q)[y] = ExactPlace[y] /\ ExactPlace[y] = <<0>> \o y
      BY <2>1, <2>2 DEF Best, ExactPlace
    <3>2. Before(h, y)
      BY <1>2, <2>1, <2>2 DEF Named, Firsts
    <3>3. Before(<<0>> \o h, <<0>> \o y)
      BY <1>1, <2>1, <3>2, Prefixed, PrefixedBefore
    <3> QED
      BY <1>1, <3>1, <3>3
  <2>3. CASE y \notin Named(q)
    <3>1. Best(q)[y] = RankPlace(q)[y] \/ Best(q)[y] = FilePlace[y]
      BY <2>1, <2>3 DEF Best
    <3> QED
      BY <1>1, <2>1, <3>1, PlacesOrdered
  <2> QED
    BY <2>2, <2>3
<1> QED
  BY <1>2 DEF Matching

LEMMA LeaderIsBest ==
    ASSUME Shaped(graph), NEW q \in Query, Named(q) = {}, NEW x, Leads(q, x)
    PROVE  /\ x \in Matching(q)
           /\ \A y \in Matching(q) : y = x \/ Before(Best(q)[x], Best(q)[y])
<1>1. x \in Firsts /\ x \in Nodes
  BY DEF Leads, Firsts
<1>2. Best(q)[x] = RankPlace(q)[x]
  BY <1>1 DEF Best
<1>3. ASSUME NEW y \in Matching(q), y # x PROVE Before(Best(q)[x], Best(q)[y])
  <2>1. y \in Nodes
    BY DEF Matching, Named, Firsts, InMatchingFile
  <2>2. CASE y \in Firsts
    <3>1. Best(q)[y] = RankPlace(q)[y]
      BY <2>1, <2>2 DEF Best
    <3>2. ScoreOf(q, x) \in Int /\ ScoreOf(q, y) \in Int
      BY <1>1, <2>1, ScoresTyped DEF MaxScore
    <3>3. ScoreOf(q, x) > ScoreOf(q, y)
      BY <1>3, <2>2, <3>2 DEF Leads, MinScore, Gap
    <3>4. Before(RankPlace(q)[x], RankPlace(q)[y])
      BY <1>1, <2>1, <3>3, KeysByScore
    <3> QED
      BY <1>2, <3>1, <3>4
  <2>3. CASE y \notin Firsts
    <3>1. Best(q)[y] = FilePlace[y]
      BY <2>1, <2>3 DEF Best
    <3> QED
      BY <1>1, <1>2, <2>1, <3>1, PlacesOrdered
  <2> QED
    BY <2>2, <2>3
<1> QED
  BY <1>1, <1>3 DEF Matching

\* What resolve may find: the first node of the symbol asked for, or the clear leader, or a
\* node of a file whose path contains the query.
MayBeFound(id, q, padded) ==
    \/ ~padded /\ id \in Named(q) \intersect Firsts
    \/ (padded \/ Named(q) = {}) /\ q # Blank /\ Leads(q, id)
    \/ /\ padded \/ Named(q) = {}
       /\ id \in InMatchingFile(q)
       /\ q # Blank => \A x : ~Leads(q, x)

Finds(found, q, padded) ==
    /\ found \subseteq Nodes /\ Cardinality(found) <= 1
    /\ \A id \in found : MayBeFound(id, q, padded)

LEMMA FoundFinds ==
    ASSUME Shaped(graph), NEW q \in Query, NEW padded \in BOOLEAN
    PROVE  Finds(Found(q, padded), q, padded)
<1> DEFINE exact == IF padded THEN <<>> ELSE FindSymbol(q)
           paths == IF padded THEN <<>> ELSE PathsWith(q)
           F == Found(q, padded)
<1>1. F = CASE exact # <<>> -> {Head(exact)}
            [] exact = <<>> /\ Winners(q) # {} -> Winners(q)
            [] exact = <<>> /\ Winners(q) = {} /\ paths # <<>> -> {Head(InFile(Head(paths)))}
            [] OTHER -> {}
  BY DEF Found
<1>2. ASSUME NEW x \in Nodes, MayBeFound(x, q, padded), F = {x} PROVE Finds(F, q, padded)
  <2>1. Cardinality({x}) = 1
    BY FS_Singleton
  <2> HIDE DEF F
  <2>2. Cardinality(F) <= 1
    BY <1>2, <2>1
  <2> QED
    BY <1>2, <2>2 DEF Finds
<1>3. exact = <<>> => padded \/ Named(q) = {}
  BY HeadIsFirst
<1>4. CASE exact # <<>>
  <2>1. ~padded /\ FindSymbol(q) # <<>> /\ F = {Head(FindSymbol(q))}
    BY <1>1, <1>4
  <2>2. ListsStrings(FindSymbol(q), Named(q))
    BY IndexesListed
  <2>3. Named(q) # {}
    BY <2>1, <2>2 DEF ListsStrings
  <2>4. Head(FindSymbol(q)) \in Firsts /\ Head(FindSymbol(q)) \in Named(q)
    BY <2>3, HeadIsFirst
  <2>5. Head(FindSymbol(q)) \in Nodes
    BY <2>4 DEF Named
  <2>6. MayBeFound(Head(FindSymbol(q)), q, padded)
    BY <2>1, <2>4 DEF MayBeFound
  <2> QED
    BY <1>2, <2>1, <2>5, <2>6
<1>5. CASE exact = <<>> /\ Winners(q) # {}
  <2>1. F = Winners(q)
    BY <1>1, <1>5
  <2>2. q # Blank /\ \A x : x \in Winners(q) <=> Leads(q, x)
    BY <1>5, WinnersLead
  <2>3. PICK x : Winners(q) = {x}
    BY <1>5, <2>2, OneLeads
  <2>4. x \in Nodes /\ Leads(q, x)
    BY <2>2, <2>3 DEF Leads, Firsts
  <2>5. MayBeFound(x, q, padded)
    BY <1>3, <1>5, <2>2, <2>4 DEF MayBeFound
  <2> QED
    BY <1>2, <2>1, <2>3, <2>4, <2>5
<1>6. CASE exact = <<>> /\ Winners(q) = {} /\ paths # <<>>
  <2>1. ~padded /\ paths = PathsWith(q)
    BY <1>6
  <2>2. PICK p : p = PathsWith(q)
    OBVIOUS
  <2>3. /\ p \in Seq(Nat)
        /\ \A i \in 1..Len(p) : p[i] \in File /\ <<q, p[i]>> \in InPath
                                /\ InFile(p[i]) # <<>>
    BY <2>2, PathsListed
  <2>4. p # <<>> /\ Head(p) = p[1] /\ 1 \in 1..Len(p)
    BY <1>6, <2>1, <2>2, <2>3
  <2>5. PICK f : f = Head(p) /\ <<q, f>> \in InPath /\ InFile(f) # <<>>
    BY <2>3, <2>4
  <2>6. ListsStrings(InFile(f), Holding(f))
    BY IndexesListed
  <2>7. Head(InFile(f)) \in Holding(f)
    BY <2>5, <2>6 DEF ListsStrings
  <2>8. Head(InFile(f)) \in Nodes /\ Head(InFile(f)) \in InMatchingFile(q)
    BY <2>5, <2>7 DEF Holding, InMatchingFile
  <2>9. F = {Head(InFile(f))}
    BY <1>1, <1>6, <2>1, <2>2, <2>5
  <2>10. q # Blank => \A x : ~Leads(q, x)
    BY <1>6, WinnersLead
  <2>11. MayBeFound(Head(InFile(f)), q, padded)
    BY <1>3, <1>6, <2>8, <2>10 DEF MayBeFound
  <2> QED
    BY <1>2, <2>8, <2>9, <2>11
<1>7. CASE F = {}
  BY <1>7, FS_EmptySet DEF Finds
<1>8. F = {} \/ exact # <<>> \/ (exact = <<>> /\ Winners(q) # {})
      \/ (exact = <<>> /\ Winners(q) = {} /\ paths # <<>>)
  BY <1>1
<1> QED
  BY <1>4, <1>5, <1>6, <1>7, <1>8

\* What is found by name or as the leader is the first candidate; what is found by file
\* is a candidate, unless the limit is reached.
LEMMA FoundOffered ==
    ASSUME Shaped(graph), NEW q \in Query, q # Blank, NEW padded \in BOOLEAN,
           NEW found, Finds(found, q, padded), NEW id \in found,
           NEW limit \in Nat \ {0}, NEW list, Offers(list, q, limit)
    PROVE  /\ id \in {list[i].id : i \in 1..Len(list)}
              \/ Cardinality({list[i].id : i \in 1..Len(list)}) = limit
           /\ (\E x : Leads(q, x)) \/ (~padded /\ Named(q) # {}) => id = list[1].id
<1> DEFINE M == Matching(q)
           offered == {list[i].id : i \in 1..Len(list)}
           n == Len(list)
<1>1. /\ n \in Nat /\ Cardinality(M) \in Nat
      /\ n = IF limit < Cardinality(M) THEN limit ELSE Cardinality(M)
      /\ offered \subseteq M
      /\ \A i, j \in 1..n : list[i].id = list[j].id => i = j
  BY DEF Offers
<1>2. IsFiniteSet(M)
  BY NodesKnown, FS_Subset DEF Matching, Named, Firsts, InMatchingFile
<1>3. id \in M
  BY DEF Finds, MayBeFound, Matching, Leads
<1>4. Cardinality(offered) = n
  <2> DEFINE f == [i \in 1..n |-> list[i].id]
  <2>1. f \in Surjection(1..n, offered)
    BY DEF Surjection
  <2>2. f \in Injection(1..n, offered)
    BY <1>1, <2>1 DEF Injection, IsInjective, Surjection
  <2>3. IsFiniteSet(1..n) /\ Cardinality(1..n) = n
    <3>1. PICK k \in Nat : k = n
      BY <1>1
    <3>2. IsFiniteSet(1..k) /\ Cardinality(1..k) = k
      BY FS_Interval
    <3> QED
      BY <3>1, <3>2
  <2> HIDE DEF f, n, offered
  <2> QED
    BY <2>1, <2>2, <2>3, FS_Surjection
<1>5. id \in offered \/ Cardinality(offered) = limit
  <2> HIDE DEF M, offered, n
  <2>1. CASE limit < Cardinality(M)
    BY <1>1, <1>4, <2>1
  <2>2. CASE ~(limit < Cardinality(M))
    <3>1. Cardinality(offered) = Cardinality(M)
      BY <1>1, <1>4, <2>2
    <3>2. offered = M
      BY <1>1, <1>2, <3>1, FS_Subset
    <3> QED
      BY <1>3, <3>2
  <2> QED
    BY <2>1, <2>2
<1>6. ASSUME (\E x : Leads(q, x)) \/ (~padded /\ Named(q) # {}) PROVE id = list[1].id
  <2>1. CASE Named(q) # {}
    <3>1. PICK h \in Named(q) : h \in Firsts
      BY <2>1, HeadIsFirst
    <3>2. list[1].id = h
      BY <3>1, ExactIsBest, BestIsFirst
    <3>3. id = h
      <4>1. CASE id \in Named(q) \intersect Firsts
        <5>1. SymbolOf(id) = SymbolOf(h)
          BY <4>1 DEF Named
        <5> QED
          BY <3>1, <4>1, <5>1, FirstsDiffer
      <4>2. CASE Leads(q, id)
        BY <3>1, <4>2, ExactLeads
      <4> QED
        BY <1>6, <2>1, <4>1, <4>2 DEF Finds, MayBeFound
    <3> QED
      BY <3>2, <3>3
  <2>2. CASE Named(q) = {}
    <3>1. Leads(q, id)
      BY <1>6, <2>2 DEF Finds, MayBeFound
    <3> QED
      BY <2>2, <3>1, LeaderIsBest, BestIsFirst
  <2> QED
    BY <2>1, <2>2
<1> QED
  BY <1>5, <1>6

\* Of the nodes that carry a name, a definition is before the references to it.
LEMMA DefinitionIsFirst ==
    ASSUME Shaped(graph), NEW q, NEW d \in Nodes, NodeKind(d) = "function", NodeLabel(d) = q
    PROVE  /\ q # Blank
           /\ \E h \in Named(q) \intersect Firsts : TRUE
           /\ \A h \in Named(q) \intersect Firsts : NodeKind(h) = "function" /\ NodeLabel(h) = q
<1>1. /\ Nodes \in SUBSET Ids
      /\ \A id \in Nodes : graph.nodes[id] \in Fits(File, id)
  BY NodesOfShaped DEF Nodes
<1>2. ASSUME NEW id \in Nodes
      PROVE  /\ id \in FileIds => SymbolOf(id) \in File
             /\ id \notin FileIds => SymbolOf(id) = NodeLabel(id)
  <2> DEFINE a == graph.nodes[id]
  <2>1. a \in Fits(File, id) /\ SymbolOf(id) = a.symbol
    BY <1>1 DEF SymbolOf
  <2> HIDE DEF a
  <2>2. CASE id \in FileIds
    <3>1. PICK f \in File : id = <<1, f>>
      BY <2>2 DEF FileIds
    <3>2. PICK p \in File : a = Attributes("file", p, p)
      BY <2>1, <3>1, FitsByKind
    <3> QED
      BY <2>1, <2>2, <3>2 DEF Attributes
  <2>3. CASE id \notin FileIds
    <3>1. CASE id \in ModuleIds
      <4>1. PICK m \in Name : id = <<3, m>>
        BY <3>1, IdParts DEF ModuleIds
      <4>2. a = Attributes("type", m, NoFile)
        BY <2>1, <4>1, FitsByKind
      <4> QED
        BY <2>1, <2>3, <4>1, <4>2, IdParts DEF Attributes
    <3>2. CASE id \in FunctionIds
      <4>1. PICK f \in File, n \in Name : id = <<2, f, n>>
        BY <3>2 DEF FunctionIds
      <4>2. PICK p \in File : a = Attributes("function", n, p)
        BY <2>1, <4>1, FitsByKind
      <4> QED
        BY <2>1, <2>3, <4>1, <4>2, IdParts DEF Attributes
    <3>3. CASE id \in SymbolIds
      <4>1. PICK f \in File, n \in Name : id = <<4, n, f>>
        BY <3>3 DEF SymbolIds
      <4>2. a = Attributes("symbol", n, f)
        BY <2>1, <4>1, FitsByKind
      <4> QED
        BY <2>1, <2>3, <4>1, <4>2, IdParts DEF Attributes
    <3> QED
      BY <1>1, <2>3, <3>1, <3>2, <3>3, IdsByKind
  <2> QED
    BY <2>2, <2>3
<1>4. d \in FunctionIds
  BY <1>1, IdsByKind, IdParts DEF FileIds, ModuleIds, SymbolIds
<1>5. q \in Name /\ d[1] = 2
  <2>1. PICK f \in File, n \in Name : d = <<2, f, n>>
    BY <1>4 DEF FunctionIds
  <2>2. NodeLabel(d) = n
    BY <2>1, IdParts
  <2> QED
    BY <2>1, <2>2
<1>3. d \in Named(q)
  <2>1. d \notin FileIds
    BY <1>5 DEF FileIds
  <2> QED
    BY <1>2, <2>1 DEF Named
<1>6. q # Blank
  BY <1>5, GraphStoreAssumption DEF Symbol
<1>7. ASSUME NEW h \in Named(q) \intersect Firsts
      PROVE  NodeKind(h) = "function" /\ NodeLabel(h) = q
  <2>1. /\ h \in Nodes /\ h \notin FileIds /\ NodeLabel(h) = q
        /\ d = h \/ Before(h, d)
    <3>1. h \in Nodes /\ SymbolOf(h) = q /\ (d = h \/ Before(h, d))
      BY <1>3 DEF Named, Firsts
    <3>2. q \notin File
      BY <1>5, RepoGraphAssumption
    <3> QED
      BY <1>2, <3>1, <3>2
  <2>2. h \in ModuleIds \/ h \in FunctionIds \/ h \in SymbolIds
    BY <1>1, <2>1, IdsByKind
  <2>4. CASE h \in ModuleIds \/ h \in SymbolIds
    <3>1. h[1] \in {3, 4} /\ Len(h) >= 1
      <4>1. CASE h \in ModuleIds
        <5>1. PICK m \in Name : h = <<3, m>>
          BY <4>1, IdParts DEF ModuleIds
        <5> QED
          BY <5>1
      <4>2. CASE h \in SymbolIds
        <5>1. PICK m \in Name, f \in File : h = <<4, m, f>>
          BY <4>2, IdParts DEF SymbolIds
        <5> QED
          BY <5>1
      <4> QED
        BY <2>4, <4>1, <4>2
    <3>2. d[1] = 2 /\ Len(d) >= 1
      <4>1. PICK f \in File, n \in Name : d = <<2, f, n>>
        BY <1>4, IdParts DEF FunctionIds
      <4> QED
        BY <4>1
    <3>3. h \in Seq(Nat) /\ d \in Seq(Nat)
      BY <2>1, NodesKnown
    <3>4. Before(d, h)
      BY <3>1, <3>2, <3>3, SmallerFirst
    <3>5. d # h
      BY <3>1, <3>2
    <3> QED
      BY <2>1, <3>3, <3>4, <3>5, BeforeTransitive, BeforeIrreflexive
  <2>5. CASE h \in FunctionIds
    BY <2>1, <2>5, IdParts DEF FunctionIds
  <2> QED
    BY <2>2, <2>4, <2>5
<1>8. \E h \in Named(q) \intersect Firsts : TRUE
  BY <1>3, HeadIsFirst
<1> QED
  BY <1>6, <1>7, <1>8

----
(* The answers of the queries.                                             *)

CandidatesFor(a) ==
    /\ a.query \in Query /\ a.limit \in Limits
    /\ IF a.query = Blank THEN a.list = <<>> ELSE Offers(a.list, a.query, a.limit)

NodeFor(a) ==
    /\ a.query \in Query /\ a.padded \in BOOLEAN
    /\ Finds(a.found, a.query, a.padded)

Answered(a) ==
    /\ a.type \in {"none", "failed", "candidates", "node", "resolved", "neighborhood"}
    /\ a.type = "candidates" => CandidatesFor(a)
    /\ a.type = "node" => NodeFor(a)

\* An answer is the answer of the graph as it is, which no query changes.
LEMMA AnsweredOfSameGraph ==
    ASSUME graph' = graph, NEW a, Answered(a)
    PROVE  Answered(a)'
<1>1. Nodes' = Nodes
  BY DEF Nodes
<1>2. ASSUME NEW id PROVE SymbolOf(id)' = SymbolOf(id) /\ FileOf(id)' = FileOf(id)
  BY DEF SymbolOf, FileOf
<1>3. ASSUME NEW q PROVE Named(q)' = Named(q) /\ InMatchingFile(q)' = InMatchingFile(q)
  BY <1>1, <1>2 DEF Named, InMatchingFile
<1>4. Firsts' = Firsts
  BY <1>1, <1>2 DEF Firsts
<1>5. ASSUME NEW q PROVE Matching(q)' = Matching(q)
  BY <1>3, <1>4 DEF Matching
<1>6. ExactPlace' = ExactPlace /\ FilePlace' = FilePlace
  BY <1>1, <1>2 DEF ExactPlace, FilePlace
<1>7. ASSUME NEW q PROVE RankPlace(q)' = RankPlace(q)
  BY <1>1, <1>2 DEF RankPlace
<1>8. ASSUME NEW q PROVE Best(q)' = Best(q)
  BY <1>1, <1>3, <1>4, <1>6, <1>7 DEF Best
<1>9. ASSUME NEW q, NEW x PROVE Leads(q, x)' <=> Leads(q, x)
  BY <1>2, <1>4 DEF Leads, ScoreOf
<1>10. ASSUME NEW q, NEW list, NEW limit PROVE Offers(list, q, limit)' <=> Offers(list, q, limit)
  BY <1>1, <1>5, <1>8 DEF Offers
<1>11. ASSUME NEW q, NEW x, NEW padded PROVE MayBeFound(x, q, padded)' <=> MayBeFound(x, q, padded)
  BY <1>3, <1>4, <1>9 DEF MayBeFound
<1>12. ASSUME NEW q, NEW found, NEW padded PROVE Finds(found, q, padded)' <=> Finds(found, q, padded)
  BY <1>1, <1>11 DEF Finds
<1>13. CandidatesFor(a)' <=> CandidatesFor(a)
  BY <1>10 DEF CandidatesFor
<1>14. NodeFor(a)' <=> NodeFor(a)
  BY <1>12 DEF NodeFor
<1> QED
  BY <1>13, <1>14 DEF Answered

Unasked == {NoAnswer, [type |-> "failed"]}

\* Only a loaded graph has answered.
AnswersFollow ==
    /\ Answered(answer)
    /\ graph = EmptyGraph => answer \in Unasked

LEMMA UnaskedAnswered == \A a \in Unasked : Answered(a) /\ Answered(a)'
  BY DEF NoAnswer, Unasked, Answered

LEMMA AnswersFollowInit == Init => AnswersFollow
  BY UnaskedAnswered DEF Init, AnswersFollow, Unasked

LEMMA CandidatesAnswered ==
    ASSUME Shaped(graph), NEW q \in Query, NEW limit \in Limits, NEW a,
           a = [type |-> "candidates", query |-> q, limit |-> limit,
                list |-> CollectAnchorCandidates(q, limit)]
    PROVE  Answered(a)
<1>1. PICK list : list = CollectAnchorCandidates(q, limit)
  OBVIOUS
<1>2. a = [type |-> "candidates", query |-> q, limit |-> limit, list |-> list]
  BY <1>1
<1>3. q = Blank => list = <<>>
  BY <1>1 DEF CollectAnchorCandidates
<1>4. q # Blank => Offers(list, q, limit)
  BY <1>1, CandidatesOffered
<1>5. CandidatesFor(a)
  BY <1>2, <1>3, <1>4 DEF CandidatesFor
<1> QED
  BY <1>2, <1>5 DEF Answered

LEMMA NodeAnswered ==
    ASSUME Shaped(graph), NEW q \in Query, NEW padded \in BOOLEAN, NEW a,
           a = [type |-> "node", query |-> q, padded |-> padded, found |-> Found(q, padded)]
    PROVE  Answered(a)
<1>1. PICK found : found = Found(q, padded)
  OBVIOUS
<1>2. a = [type |-> "node", query |-> q, padded |-> padded, found |-> found]
  BY <1>1
<1>3. NodeFor(a)
  BY <1>1, <1>2, FoundFinds DEF NodeFor
<1> QED
  BY <1>2, <1>3 DEF Answered

LEMMA AnswersFollowNext ==
    Shaped(graph) /\ SearchFollows /\ AnswersFollow /\ [Next]_vars => AnswersFollow'
<1> SUFFICES ASSUME Shaped(graph), SearchFollows, AnswersFollow, [Next]_vars
             PROVE  AnswersFollow'
  OBVIOUS
<1>1. ASSUME graph' = graph, graph # EmptyGraph, NEW a, Answered(a), answer' = a
      PROVE  AnswersFollow'
  <2>1. Answered(a)'
    BY <1>1, AnsweredOfSameGraph
  <2> QED
    BY <1>1, <2>1 DEF AnswersFollow
<1>2. ASSUME graph' = graph, answer' = answer PROVE AnswersFollow'
  <2>1. Answered(answer) /\ (graph = EmptyGraph => answer \in Unasked)
    BY DEF AnswersFollow
  <2>2. PICK a : a = answer /\ Answered(a)
    BY <2>1
  <2>3. Answered(a)'
    BY <1>2, <2>2, AnsweredOfSameGraph
  <2> QED
    BY <1>2, <2>1, <2>2, <2>3 DEF AnswersFollow
<1>3. CASE Load
  <2>1. answer' \in Unasked
    BY <1>3 DEF Load, AnswersFollow
  <2>2. Unasked' = Unasked
    BY DEF Unasked, NoAnswer
  <2>3. PICK a \in Unasked : answer' = a
    BY <2>1
  <2>4. Answered(a)'
    BY UnaskedAnswered
  <2> QED
    BY <2>2, <2>3, <2>4 DEF AnswersFollow
<1>4. ASSUME NEW q \in Query, NEW limit \in Limits, Collect(q, limit) PROVE AnswersFollow'
  <2>1. PICK a : /\ a = [type |-> "candidates", query |-> q, limit |-> limit,
                         list |-> CollectAnchorCandidates(q, limit)]
                 /\ answer' = a
    BY <1>4 DEF Collect
  <2>2. Answered(a)
    BY <2>1, CandidatesAnswered
  <2>3. graph' = graph /\ graph # EmptyGraph
    BY <1>4 DEF Collect, Open
  <2> QED
    BY <1>1, <2>1, <2>2, <2>3
<1>5. ASSUME NEW q \in Query, NEW padded \in BOOLEAN, Resolve(q, padded) PROVE AnswersFollow'
  <2>1. PICK a : /\ a = [type |-> "node", query |-> q, padded |-> padded, found |-> Found(q, padded)]
                 /\ answer' = a
    BY <1>5 DEF Resolve
  <2>2. Answered(a)
    BY <2>1, NodeAnswered
  <2>3. graph' = graph /\ graph # EmptyGraph
    BY <1>5 DEF Resolve, Open
  <2> QED
    BY <1>1, <2>1, <2>2, <2>3
<1>6. ASSUME NEW q \in Query, NEW padded \in BOOLEAN, NEW limit \in Limits,
             ResolveCandidates(q, padded, limit)
      PROVE  AnswersFollow'
  <2>1. graph' = graph /\ graph # EmptyGraph
    BY <1>6 DEF ResolveCandidates, Open
  <2>2. CASE Found(q, padded) # {}
    <3>1. answer' = [type |-> "resolved"]
      BY <1>6, <2>2 DEF ResolveCandidates
    <3>2. Answered([type |-> "resolved"])
      BY DEF Answered
    <3> QED
      BY <1>1, <2>1, <3>1, <3>2
  <2>3. CASE Found(q, padded) = {}
    <3>1. PICK a : /\ a = [type |-> "candidates", query |-> q, limit |-> limit,
                           list |-> CollectAnchorCandidates(q, limit)]
                   /\ answer' = a
      BY <1>6, <2>3 DEF ResolveCandidates
    <3>2. Answered(a)
      BY <3>1, CandidatesAnswered
    <3> QED
      BY <1>1, <2>1, <3>1, <3>2
  <2> QED
    BY <2>2, <2>3
<1>7. ASSUME NEW id \in DOMAIN graph.nodes, NEW radius \in Radii, Start(id, radius)
      PROVE  AnswersFollow'
  <2>1. graph' = graph /\ graph # EmptyGraph
    BY <1>7 DEF Start, Open
  <2>2. CASE radius < 0
    <3>1. PICK a : /\ a = [type |-> "neighborhood", of |-> id, radius |-> radius, visited |-> {}]
                   /\ answer' = a
      BY <1>7, <2>2 DEF Start
    <3>2. Answered(a)
      BY <3>1 DEF Answered
    <3> QED
      BY <1>1, <2>1, <3>1, <3>2
  <2>3. CASE ~(radius < 0)
    <3>1. answer' = answer
      BY <1>7, <2>3 DEF Start
    <3> QED
      BY <1>2, <2>1, <3>1
  <2> QED
    BY <2>2, <2>3
<1>8. CASE Visit
  BY <1>2, <1>8 DEF Visit
<1>9. CASE Return
  <2>1. search # Idle /\ graph' = graph
    BY <1>9 DEF Return, Idle
  <2>2. graph # EmptyGraph
    BY <2>1 DEF SearchFollows
  <2>3. PICK a : /\ a = [type |-> "neighborhood", of |-> search.of, radius |-> search.radius,
                         visited |-> search.visited]
                 /\ answer' = a
    BY <1>9 DEF Return
  <2>4. Answered(a)
    BY <2>3 DEF Answered
  <2> QED
    BY <1>1, <2>1, <2>2, <2>3, <2>4
<1>10. CASE LoadFails
  <2>1. PICK a \in Unasked : answer' = a
    BY <1>10 DEF LoadFails, Unasked
  <2>2. Unasked' = Unasked
    BY DEF Unasked, NoAnswer
  <2>3. Answered(a)'
    BY UnaskedAnswered
  <2> QED
    BY <2>1, <2>2, <2>3 DEF AnswersFollow
<1>11. CASE UNCHANGED vars
  BY <1>2, <1>11 DEF vars
<1> QED
  BY <1>3, <1>4, <1>5, <1>6, <1>7, <1>8, <1>9, <1>10, <1>11 DEF Next

LEMMA AlwaysAnswersFollow == Spec => []AnswersFollow
<1>1. Spec => []Shaped(graph) /\ []SearchFollows
  BY AlwaysShaped, AlwaysSearchFollows, PTL
<1> QED
  BY <1>1, AnswersFollowInit, AnswersFollowNext, PTL DEF Spec

\* The variables of the store have their types: an answer names nodes of the graph, a
\* lookup finds one of them at most, and the search queues nodes it has visited, at
\* distances up to its radius.
THEOREM StoreTypeCorrect == Spec => []TypeOK
<1>1. ASSUME Shaped(graph), Loaded, SearchFollows, AnswersFollow PROVE TypeOK
  <2>1. repo \in Repos /\ IsGraph(graph)
    BY <1>1, NodesOfShaped DEF Loaded
  <2>2. answer.type \in {"none", "failed", "candidates", "node", "resolved", "neighborhood"}
    BY <1>1 DEF AnswersFollow, Answered
  <2>3. ASSUME answer.type = "candidates"
        PROVE  answer.list \in Seq([id: DOMAIN graph.nodes, source: Source, rank: Nat \ {0}])
    <3>1. CandidatesFor(answer)
      BY <1>1, <2>3 DEF AnswersFollow, Answered
    <3>2. answer.list = <<>> \/ Offers(answer.list, answer.query, answer.limit)
      BY <3>1 DEF CandidatesFor
    <3>3. ASSUME NEW X PROVE <<>> \in Seq(X)
      OBVIOUS
    <3>4. CASE answer.list = <<>>
      BY <3>3, <3>4
    <3>5. CASE Offers(answer.list, answer.query, answer.limit)
      BY <3>5 DEF Offers, Nodes
    <3> QED
      BY <3>2, <3>4, <3>5
  <2>4. ASSUME answer.type = "node"
        PROVE  answer.found \subseteq DOMAIN graph.nodes /\ Cardinality(answer.found) <= 1
    BY <1>1, <2>4 DEF AnswersFollow, Answered, NodeFor, Finds, Nodes
  <2>5. search # Idle => search.queue \in Seq([id: search.visited, dist: 0..search.radius])
    BY <1>1 DEF SearchFollows, Searching, Searched
  <2> QED
    BY <2>1, <2>2, <2>3, <2>4, <2>5 DEF TypeOK
<1> QED
  BY <1>1, AlwaysShaped, AlwaysLoaded, AlwaysSearchFollows, AlwaysAnswersFollow, PTL

\* For any graph, query, scores and limit, the candidates of a query are the best of the
\* matching nodes, each node once and in the order of its best place: exact symbols,
\* then the first node of each symbol by its score, then the nodes of matching files.
THEOREM CandidatesAreBestAlways == Spec => []CandidatesAreBest
<1>1. ASSUME Shaped(graph), AnswersFollow PROVE CandidatesAreBest
  <2> SUFFICES ASSUME answer.type = "candidates", answer.query # Blank
               PROVE  CandidatesAreBest
    BY DEF CandidatesAreBest
  <2> DEFINE q == answer.query
             matches == {id \in DOMAIN graph.nodes : Places(q, id) # {}}
             place == [id \in matches |-> BestPlace(q, id)]
             size == Cardinality(matches)
             list == answer.list
  <2>1. q \in Query /\ Offers(list, q, answer.limit)
    BY <1>1 DEF AnswersFollow, Answered, CandidatesFor
  <2>2. matches = Matching(q)
    <3>1. \A id \in Nodes : Places(q, id) # {} <=> id \in Matching(q)
      BY <1>1, <2>1, BestIsBest
    <3>2. Matching(q) \subseteq Nodes
      BY DEF Matching, Named, Firsts, InMatchingFile
    <3> QED
      BY <3>1, <3>2 DEF Nodes
  <2>3. \A id \in matches : place[id] = Best(q)[id]
    <3>1. \A id \in matches : BestPlace(q, id) = Best(q)[id]
      BY <1>1, <2>1, <2>2, BestIsBest DEF Nodes
    <3> QED
      BY <3>1
  <2>4. /\ list \in Seq([id: Nodes, source: Source, rank: Nat \ {0}])
        /\ Len(list) = (IF answer.limit < size THEN answer.limit ELSE size)
        /\ \A i \in 1..Len(list) :
              /\ list[i].id \in matches
              /\ i = 1 + Cardinality({x \in matches : Before(Best(q)[x], Best(q)[list[i].id])})
    BY <2>1, <2>2 DEF Offers
  <2>5. DOMAIN list = 1..Len(list)
    BY <2>4
  <2> HIDE DEF matches, place, list, q
  <2>6. ASSUME NEW i \in DOMAIN list
        PROVE  /\ list[i].id \in matches
               /\ i = 1 + Cardinality({id \in matches : Before(place[id], place[list[i].id])})
    <3>1. list[i].id \in matches
      BY <2>4, <2>5, <2>6
    <3>2. {id \in matches : Before(place[id], place[list[i].id])}
             = {x \in matches : Before(Best(q)[x], Best(q)[list[i].id])}
      BY <2>3, <3>1
    <3> QED
      BY <2>4, <2>5, <2>6, <3>1, <3>2
  <2> QED
    BY <2>4, <2>6 DEF CandidatesAreBest, matches, place, list, q
<1> QED
  BY <1>1, AlwaysShaped, AlwaysAnswersFollow, PTL

\* In any graph, the definition of the name asked for is the first candidate, and what
\* is found, before all references to the name.
THEOREM DefinitionComesFirstAlways == Spec => []DefinitionComesFirst
<1>1. ASSUME Shaped(graph), AnswersFollow PROVE DefinitionComesFirst
  <2> DEFINE defined(q) == \E id \in DOMAIN graph.nodes :
                              NodeKind(id) = "function" /\ NodeLabel(id) = q
  <2>1. ASSUME NEW q, defined(q)
        PROVE  /\ q # Blank
               /\ \E h \in Named(q) \intersect Firsts : TRUE
               /\ \A h \in Named(q) \intersect Firsts : NodeKind(h) = "function" /\ NodeLabel(h) = q
    BY <1>1, <2>1, DefinitionIsFirst DEF Nodes
  <2>2. ASSUME answer.type = "candidates", defined(answer.query), answer.limit > 0
        PROVE  NodeKind(answer.list[1].id) = "function" /\ NodeLabel(answer.list[1].id) = answer.query
    <3>1. PICK q, limit, list : q = answer.query /\ limit = answer.limit /\ list = answer.list
      OBVIOUS
    <3>2. q # Blank /\ \E h \in Named(q) \intersect Firsts : TRUE
      BY <2>1, <2>2, <3>1
    <3>3. q \in Query /\ limit \in Limits /\ Offers(list, q, limit)
      BY <1>1, <2>2, <3>1, <3>2 DEF AnswersFollow, Answered, CandidatesFor
    <3>4. limit \in Nat \ {0}
      BY <2>2, <3>1, <3>3, GraphStoreAssumption
    <3>5. PICK h \in Named(q) : h \in Firsts
      BY <3>2
    <3>6. list[1].id = h
      BY <1>1, <3>3, <3>4, <3>5, ExactIsBest, BestIsFirst
    <3> QED
      BY <2>1, <2>2, <3>1, <3>5, <3>6
  <2>3. ASSUME answer.type = "node", defined(answer.query), ~answer.padded, NEW id \in answer.found
        PROVE  NodeKind(id) = "function" /\ NodeLabel(id) = answer.query
    <3>1. PICK q : q = answer.query
      OBVIOUS
    <3>2. Named(q) # {}
      BY <2>1, <2>3, <3>1
    <3>3. MayBeFound(id, q, answer.padded)
      BY <1>1, <2>3, <3>1 DEF AnswersFollow, Answered, NodeFor, Finds
    <3>4. id \in Named(q) \intersect Firsts
      BY <2>3, <3>2, <3>3 DEF MayBeFound
    <3> QED
      BY <2>1, <2>3, <3>1, <3>4
  <2> QED
    BY <2>2, <2>3 DEF DefinitionComesFirst
<1> QED
  BY <1>1, AlwaysShaped, AlwaysAnswersFollow, PTL

\* For any graph, query and scores, what the lookup finds by name or as a clear lead is
\* the first candidate for the same query, under every limit, and what it finds by file
\* is a candidate, unless the limit is reached.
THEOREM FoundIsOfferedAlways == Spec => []FoundIsOffered
<1>1. ASSUME Shaped(graph), AnswersFollow PROVE FoundIsOffered
  <2> SUFFICES ASSUME answer.type = "node", answer.query # Blank,
                      NEW id \in answer.found, NEW limit \in Limits \ {0}
               PROVE  LET list == CollectAnchorCandidates(answer.query, limit)
                          offered == {list[i].id : i \in DOMAIN list}
                      IN  /\ id \in offered \/ Cardinality(offered) = limit
                          /\ (Winners(answer.query) # {}
                              \/ (~answer.padded /\ FindSymbol(answer.query) # <<>>)) =>
                                 id = list[1].id
    BY DEF FoundIsOffered
  <2>1. PICK q, padded, found, list :
           /\ q = answer.query /\ padded = answer.padded /\ found = answer.found
           /\ list = CollectAnchorCandidates(answer.query, limit)
    OBVIOUS
  <2>2. q \in Query /\ padded \in BOOLEAN /\ Finds(found, q, padded) /\ q # Blank /\ id \in found
    BY <1>1, <2>1 DEF AnswersFollow, Answered, NodeFor
  <2>3. limit \in Nat \ {0}
    BY GraphStoreAssumption
  <2>4. Offers(list, q, limit)
    BY <1>1, <2>1, <2>2, CandidatesOffered
  <2>5. /\ id \in {list[i].id : i \in 1..Len(list)}
           \/ Cardinality({list[i].id : i \in 1..Len(list)}) = limit
        /\ (\E x : Leads(q, x)) \/ (~padded /\ Named(q) # {}) => id = list[1].id
    BY <1>1, <2>2, <2>3, <2>4, FoundOffered
  <2>6. DOMAIN list = 1..Len(list)
    BY <2>4 DEF Offers
  <2>7. Winners(q) # {} => \E x : Leads(q, x)
    BY <1>1, <2>2, WinnersLead
  <2>8. FindSymbol(q) # <<>> => Named(q) # {}
    BY <1>1, IndexesListed DEF ListsStrings
  <2> QED
    BY <2>1, <2>5, <2>6, <2>7, <2>8
<1> QED
  BY <1>1, AlwaysShaped, AlwaysAnswersFollow, PTL
====
