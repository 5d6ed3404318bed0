--------------------------- MODULE Ordering_proofs ---------------------------
(***************************************************************************)
(* What sorting and filtering keep: Ordered lists every member of a finite *)
(* set once, in the order it is given, whatever the order.                 *)
(***************************************************************************)
EXTENDS Ordering, FiniteSetTheorems, TLAPS

StrictOrder(S, before) ==
    /\ \A x \in S : <<x, x>> \notin before
    /\ \A x, y \in S : x # y => <<x, y>> \in before \/ <<y, x>> \in before
    /\ \A x, y, z \in S : <<x, y>> \in before /\ <<y, z>> \in before => <<x, z>> \in before

\* The sequence s lists S in the order `before`.
Lists(s, S, before) ==
    /\ s \in [1..Cardinality(S) -> S]
    /\ \A x \in S : \E n \in 1..Cardinality(S) : s[n] = x
    /\ \A m, n \in 1..Cardinality(S) : m < n => <<s[m], s[n]>> \in before

-----------------------------------------------------------------------------
Ahead(S, before, x) == {y \in S : <<y, x>> \in before}
PlaceIn(S, before, x) == Cardinality(Ahead(S, before, x)) + 1

\* Places are among those there are, and follow the order.
LEMMA PlacesGrow ==
  ASSUME NEW S, IsFiniteSet(S), NEW before, StrictOrder(S, before), NEW x \in S
  PROVE  /\ PlaceIn(S, before, x) \in 1..Cardinality(S)
         /\ \A y \in S : <<x, y>> \in before => PlaceIn(S, before, x) < PlaceIn(S, before, y)
<1> DEFINE ahead(y) == Ahead(S, before, y)
<1>1. Cardinality(S) \in Nat
  BY FS_CardinalityType
<1>2. ASSUME NEW y \in S
      PROVE  /\ ahead(y) \subseteq S \ {y} /\ IsFiniteSet(ahead(y))
             /\ Cardinality(ahead(y)) \in Nat
  <2>1. ahead(y) \subseteq S \ {y}
    BY DEF StrictOrder, Ahead
  <2>2. IsFiniteSet(ahead(y))
    BY <2>1, FS_Subset
  <2> QED
    BY <2>1, <2>2, FS_CardinalityType
<1>3. PlaceIn(S, before, x) \in 1..Cardinality(S)
  <2>1. IsFiniteSet(S \ {x}) /\ Cardinality(S \ {x}) = Cardinality(S) - 1
    BY FS_RemoveElement
  <2>2. Cardinality(ahead(x)) <= Cardinality(S) - 1
    BY <1>2, <2>1, FS_Subset
  <2> QED
    BY <1>1, <1>2, <2>2 DEF PlaceIn
<1>4. ASSUME NEW y \in S, <<x, y>> \in before
      PROVE  PlaceIn(S, before, x) < PlaceIn(S, before, y)
  <2>1. ahead(x) \union {x} \subseteq ahead(y)
    BY <1>4 DEF StrictOrder, Ahead
  <2>2. Cardinality(ahead(x) \union {x}) = Cardinality(ahead(x)) + 1
    BY <1>2, FS_AddElement
  <2>3. Cardinality(ahead(x) \union {x}) <= Cardinality(ahead(y))
    BY <1>2, <2>1, FS_Subset
  <2> QED
    BY <1>2, <2>2, <2>3 DEF PlaceIn
<1> QED
  BY <1>3, <1>4

\* Every member of a finite set that is strictly ordered is listed once, in order.
LEMMA OrderedLists ==
  ASSUME NEW S, IsFiniteSet(S), NEW before, StrictOrder(S, before)
  PROVE  Lists(Ordered(S, before), S, before)
<1> DEFINE N == Cardinality(S)
           place == [x \in S |-> PlaceIn(S, before, x)]
           at(n) == CHOOSE x \in S : PlaceIn(S, before, x) = n
<1>1. N \in Nat /\ IsFiniteSet(1..N) /\ Cardinality(1..N) = N
  BY FS_CardinalityType, FS_Interval
<1>2. \A x, y \in S : PlaceIn(S, before, x) = PlaceIn(S, before, y) => x = y
  <2> SUFFICES ASSUME NEW x \in S, NEW y \in S, x # y,
                      PlaceIn(S, before, x) = PlaceIn(S, before, y)
               PROVE  FALSE
    OBVIOUS
  <2>1. <<x, y>> \in before \/ <<y, x>> \in before
    BY DEF StrictOrder
  <2>2. \/ PlaceIn(S, before, x) < PlaceIn(S, before, y)
        \/ PlaceIn(S, before, y) < PlaceIn(S, before, x)
    BY <2>1, PlacesGrow
  <2>3. PlaceIn(S, before, x) \in 1..N /\ PlaceIn(S, before, y) \in 1..N
    BY PlacesGrow
  <2> QED
    BY <1>1, <2>2, <2>3
<1>3. place \in [S -> 1..N]
  BY PlacesGrow
<1>4. place \in Injection(S, 1..N)
  BY <1>2, <1>3 DEF Injection, IsInjective
<1>5. place \in Surjection(S, 1..N)
  BY <1>1, <1>4, FS_Injection
<1>6. \A n \in 1..N : \E x \in S : PlaceIn(S, before, x) = n
  BY <1>5 DEF Surjection
<1>7. \A n \in 1..N : at(n) \in S /\ PlaceIn(S, before, at(n)) = n
  BY <1>6
<1>8. Ordered(S, before) = [n \in 1..N |-> at(n)]
  BY DEF Ordered, PlaceIn, Ahead
<1>9. \A x \in S : \E n \in 1..N : at(n) = x
  <2> SUFFICES ASSUME NEW x \in S PROVE \E n \in 1..N : at(n) = x
    OBVIOUS
  <2>1. PICK n \in 1..N : n = PlaceIn(S, before, x)
    BY PlacesGrow
  <2> QED
    BY <2>1, <1>2, <1>7
<1>10. ASSUME NEW m \in 1..N, NEW n \in 1..N, m < n PROVE <<at(m), at(n)>> \in before
  <2>1. at(m) \in S /\ at(n) \in S
    BY <1>7
  <2>2. at(m) # at(n)
    BY <1>7, <1>10, <1>1
  <2>3. CASE <<at(n), at(m)>> \in before
    <3>1. PlaceIn(S, before, at(n)) < PlaceIn(S, before, at(m))
      BY <2>1, <2>3, PlacesGrow
    <3>2. PlaceIn(S, before, at(n)) = n /\ PlaceIn(S, before, at(m)) = m
      BY <1>7
    <3> HIDE DEF at
    <3> QED
      BY <3>1, <3>2, <1>1, <1>10
  <2> HIDE DEF at
  <2> QED
    BY <2>1, <2>2, <2>3 DEF StrictOrder
<1> HIDE DEF at
<1> QED
  BY <1>7, <1>8, <1>9, <1>10 DEF Lists

-----------------------------------------------------------------------------
(***************************************************************************)
(* Sorting by a key, filtering, and taking what comes first.               *)
(***************************************************************************)
\* at names every place of a key once, the greatest keys first.
Sorts(at, key, N) ==
    /\ at \in [1..N -> 1..N] /\ Distinct(at)
    /\ \A i \in 1..N : \E n \in 1..N : at[n] = i
    /\ \A m, n \in 1..N : m < n => key[at[m]] >= key[at[n]]

\* A sort by a key loses no place and repeats none.
LEMMA HighestFirstSorts ==
  ASSUME NEW N \in Nat, NEW key \in [1..N -> Int]
  PROVE  Sorts(HighestFirst(key), key, N)
<1> DEFINE P == 1..N
           at == HighestFirst(key)
<1>1. IsFiniteSet(P) /\ Cardinality(P) = N
  BY FS_Interval
<1>2. \A i, j \in P : <<i, j>> \in Higher(key)
                        <=> key[i] > key[j] \/ (key[i] = key[j] /\ i < j)
  BY DEF Higher
<1>3. \A i \in P : key[i] \in Int /\ i \in Int
  OBVIOUS
<1> HIDE DEF P
<1>4. StrictOrder(P, Higher(key))
  <2> DEFINE above(i, j) == key[i] > key[j] \/ (key[i] = key[j] /\ i < j)
  <2>1. \A i \in P : ~above(i, i)
    BY <1>3
  <2>2. \A i, j \in P : i # j => above(i, j) \/ above(j, i)
    BY <1>3
  <2>3. \A i, j, k \in P : above(i, j) /\ above(j, k) => above(i, k)
    BY <1>3
  <2>4. \A i, j \in P : <<i, j>> \in Higher(key) <=> above(i, j)
    BY <1>2
  <2> HIDE DEF above
  <2> QED
    BY <2>1, <2>2, <2>3, <2>4 DEF StrictOrder
<1>5. Lists(at, P, Higher(key))
  <2>1. at = Ordered(P, Higher(key))
    BY DEF HighestFirst, P
  <2> QED
    BY <1>1, <1>4, <2>1, OrderedLists
<1> HIDE DEF at
<1>6. /\ at \in [1..N -> P]
      /\ \A i \in P : \E n \in 1..N : at[n] = i
      /\ \A m, n \in 1..N : m < n => <<at[m], at[n]>> \in Higher(key)
  BY <1>1, <1>5 DEF Lists
<1>7. \A m, n \in 1..N : m < n => key[at[m]] >= key[at[n]] /\ at[m] # at[n]
  <2> SUFFICES ASSUME NEW m \in 1..N, NEW n \in 1..N, m < n
               PROVE  key[at[m]] >= key[at[n]] /\ at[m] # at[n]
    OBVIOUS
  <2>1. at[m] \in P /\ at[n] \in P /\ <<at[m], at[n]>> \in Higher(key)
    BY <1>6
  <2>2. \/ key[at[m]] > key[at[n]]
        \/ key[at[m]] = key[at[n]] /\ at[m] < at[n]
    BY <1>2, <2>1
  <2> QED
    BY <1>3, <2>1, <2>2
<1>8. Distinct(at)
  <2> SUFFICES ASSUME NEW i \in 1..N, NEW j \in 1..N, at[i] = at[j] PROVE i = j
    BY <1>6 DEF Distinct
  <2>1. ~(i < j) /\ ~(j < i)
    BY <1>7
  <2> QED
    BY <2>1
<1> QED
  BY <1>6, <1>7, <1>8 DEF Sorts, P, at

\* at names the places P upwards.
Climbs(at, P) ==
    /\ at \in [1..Cardinality(P) -> P]
    /\ \A i \in P : \E n \in 1..Cardinality(P) : at[n] = i
    /\ \A m, n \in 1..Cardinality(P) : m < n => at[m] < at[n]

\* What is picked from a sequence is there, in the order it is there.
LEMMA PickedClimbs ==
  ASSUME NEW s, NEW P, P \subseteq Nat, IsFiniteSet(P)
  PROVE  \E at : Climbs(at, P) /\ Picked(s, P) = [n \in 1..Cardinality(P) |-> s[at[n]]]
<1> DEFINE at == Ordered(P, Upwards(P))
<1>1. \A i, j \in P : <<i, j>> \in Upwards(P) <=> i < j
  BY DEF Upwards
<1>2. StrictOrder(P, Upwards(P))
  BY <1>1 DEF StrictOrder
<1>3. Lists(at, P, Upwards(P))
  BY <1>2, OrderedLists
<1> HIDE DEF at
<1>4. Climbs(at, P)
  BY <1>1, <1>3 DEF Lists, Climbs
<1> QED
  BY <1>4 DEF Picked, at

\* Some of what comes first.
LEMMA FirstOnes ==
  ASSUME NEW T, NEW s \in Seq(T), NEW n \in Int
  PROVE  /\ First(n, s) \in Seq(T)
         /\ Len(First(n, s)) \in Nat /\ Len(First(n, s)) <= Len(s)
         /\ n >= 0 => Len(First(n, s)) <= n
         /\ n >= 0 /\ n <= Len(s) => Len(First(n, s)) = n
         /\ n >= Len(s) => Len(First(n, s)) = Len(s)
         /\ \A i \in 1..Len(First(n, s)) : First(n, s)[i] = s[i]
<1> DEFINE k == IF n < 0 THEN 0 ELSE IF n < Len(s) THEN n ELSE Len(s)
           t == [i \in 1..k |-> s[i]]
<1>1. k \in Nat /\ k <= Len(s) /\ (n >= 0 => k <= n)
  OBVIOUS
<1>2. 1..(IF n < Len(s) THEN n ELSE Len(s)) = 1..k
  OBVIOUS
<1>3. First(n, s) = t
  BY <1>2 DEF First
<1> HIDE DEF k
<1>4. \A i \in 1..k : s[i] \in T
  BY <1>1
<1>5. t \in Seq(T) /\ Len(t) = k
  BY <1>1, <1>4
<1> HIDE DEF t
<1>6. \A i \in 1..k : t[i] = s[i]
  BY DEF t
<1> QED
  BY <1>1, <1>3, <1>5, <1>6 DEF k

\* What is picked from a sequence is a sequence of its elements.
LEMMA PickedSeq ==
  ASSUME NEW T, NEW s \in Seq(T), NEW P, P \subseteq DOMAIN s
  PROVE  /\ IsFiniteSet(P) /\ Cardinality(P) \in Nat
         /\ Picked(s, P) \in Seq(T) /\ Len(Picked(s, P)) = Cardinality(P)
         /\ \E at : /\ Climbs(at, P)
                    /\ \A n \in 1..Cardinality(P) : Picked(s, P)[n] = s[at[n]]
<1>1. IsFiniteSet(P) /\ Cardinality(P) \in Nat /\ P \subseteq Nat
  <2>1. DOMAIN s = 1..Len(s) /\ Len(s) \in Nat
    OBVIOUS
  <2>2. IsFiniteSet(1..Len(s))
    BY <2>1, FS_Interval
  <2> QED
    BY <2>1, <2>2, FS_Subset, FS_CardinalityType
<1>2. PICK at : Climbs(at, P) /\ Picked(s, P) = [n \in 1..Cardinality(P) |-> s[at[n]]]
  BY <1>1, PickedClimbs
<1>3. \A n \in 1..Cardinality(P) : s[at[n]] \in T
  <2>1. \A n \in 1..Cardinality(P) : at[n] \in DOMAIN s
    BY <1>2 DEF Climbs
  <2> QED
    BY <2>1
<1>4. Picked(s, P) \in Seq(T) /\ Len(Picked(s, P)) = Cardinality(P)
  BY <1>1, <1>2, <1>3
<1> QED
  BY <1>1, <1>2, <1>4
=============================================================================
