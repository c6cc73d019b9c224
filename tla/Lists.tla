-------------------------------- MODULE Lists --------------------------------
(***************************************************************************)
(* A list filtered in a loop, as Go does it, and what such a filter keeps. *)
(***************************************************************************)
EXTENDS Integers, FiniteSets, SequencesExt, FiniteSetTheorems, WellFoundedInduction, TLAPS

(* The elements of a sequence that are in S, in their order.               *)
Kept(s, S) ==
  LET f[i \in 0..Len(s)] ==
        IF i = 0 THEN <<>>
        ELSE IF s[i] \in S THEN Append(f[i - 1], s[i]) ELSE f[i - 1]
  IN f[Len(s)]

(* The numbers S in the strict order of "before", a set of pairs.          *)
Sorted(S, before) ==
  [k \in 1..Cardinality(S) |->
     CHOOSE j \in S : Cardinality({i \in S : <<i, j>> \in before}) = k - 1]

(* A set of numbers has a least one: inductions below look at the first    *)
(* number that a claim does not hold of.                                   *)
LEMMA NatMin ==
  ASSUME NEW S, S \subseteq Nat, S # {}
  PROVE \E n \in S : \A m \in S : n <= m
<1> DEFINE R == {ss \in Nat \X Nat : ss[1] < ss[2]}
<1>1. IsWellFoundedOn(OpToRel(<, Nat), Nat)
  BY NatLessThanWellFounded
<1>2. IsWellFoundedOn(R, Nat)
  BY <1>1, Zenon DEF OpToRel
<1>3. \A m, n \in Nat : <<m, n>> \notin R => n <= m
  OBVIOUS
<1> HIDE DEF R
<1>4. PICK n \in S : \A m \in S : <<m, n>> \notin R
  BY <1>2, WFMin
<1> QED BY <1>3, <1>4

(* Kept is a filter: it has the elements of the sequence that are in S.    *)
LEMMA KeptIs ==
  ASSUME NEW T, NEW s \in Seq(T), NEW S
  PROVE Kept(s, S) \in Seq(T) /\ Range(Kept(s, S)) = Range(s) \cap S
<1> DEFINE Is(g, n) == g = [i \in 0..n |-> IF i = 0 THEN <<>>
                                ELSE IF s[i] \in S THEN Append(g[i - 1], s[i]) ELSE g[i - 1]]
           P(n) == \E g : Is(g, n)
           f == CHOOSE g : Is(g, Len(s))
           Q(n) == f[n] \in Seq(T) /\ Range(f[n]) = {s[j] : j \in 1..n} \cap S
           BadP == {n \in Nat : n <= Len(s) /\ ~P(n)}
           BadQ == {n \in Nat : n <= Len(s) /\ ~Q(n)}
<1>1. Len(s) \in Nat /\ \A j \in 1..Len(s) : s[j] \in T
  OBVIOUS
<1>2. P(Len(s))
  <2> SUFFICES ASSUME NEW n \in BadP, \A m \in BadP : n <= m PROVE FALSE
    <3> HIDE DEF P
    <3>1. BadP \subseteq Nat /\ (~P(Len(s)) => Len(s) \in BadP)
      BY <1>1
    <3> QED BY <3>1, NatMin
  <2> HIDE DEF P
  <2>1. /\ n \in Nat /\ n <= Len(s) /\ ~P(n)
        /\ n # 0 => n - 1 \in Nat /\ P(n - 1)
    BY <1>1
  <2> HIDE DEF BadP
  <2> USE DEF P
  <2>2. CASE n = 0
    <3> DEFINE h == [i \in 0..0 |-> <<>>]
    <3>1. Is(h, 0)
      OBVIOUS
    <3> QED BY <2>1, <2>2, <3>1
  <2>3. CASE n # 0
    <3>2. PICK g : Is(g, n - 1)
      BY <2>1, <2>3
    <3> DEFINE h == [i \in 0..n |-> IF i = n
                       THEN IF s[n] \in S THEN Append(g[n - 1], s[n]) ELSE g[n - 1]
                       ELSE g[i]]
    <3>3. ASSUME NEW i \in 0..n
          PROVE h[i] = IF i = 0 THEN <<>>
                       ELSE IF s[i] \in S THEN Append(h[i - 1], s[i]) ELSE h[i - 1]
      <4>1. CASE i = n
        <5>1. h[n] = IF s[n] \in S THEN Append(g[n - 1], s[n]) ELSE g[n - 1]
          BY <2>1, <2>3
        <5>2. h[n - 1] = g[n - 1]
          BY <2>1, <2>3
        <5> QED BY <4>1, <5>1, <5>2, <2>3
      <4>2. CASE i # n
        <5>1. i \in 0..(n - 1) /\ h[i] = g[i]
          BY <4>2, <2>1
        <5>2. g[i] = IF i = 0 THEN <<>>
                     ELSE IF s[i] \in S THEN Append(g[i - 1], s[i]) ELSE g[i - 1]
          BY <3>2, <5>1
        <5>3. i # 0 => h[i - 1] = g[i - 1]
          BY <4>2, <5>1, <2>1
        <5> QED BY <5>1, <5>2, <5>3
      <4> QED BY <4>1, <4>2
    <3>4. h = [i \in 0..n |-> h[i]]
      OBVIOUS
    <3> HIDE DEF h
    <3>5. Is(h, n)
      BY <3>3, <3>4
    <3> QED BY <2>1, <3>5
  <2> QED BY <2>2, <2>3
<1>3. Is(f, Len(s))
  BY <1>2
<1>4. Kept(s, S) = f[Len(s)]
  BY DEF Kept
<1>5. /\ f[0] = <<>>
      /\ \A i \in 1..Len(s) :
           f[i] = IF s[i] \in S THEN Append(f[i - 1], s[i]) ELSE f[i - 1]
  <2>1. f = [i \in 0..Len(s) |-> IF i = 0 THEN <<>>
               ELSE IF s[i] \in S THEN Append(f[i - 1], s[i]) ELSE f[i - 1]]
    BY <1>3
  <2> HIDE DEF f
  <2>2. ASSUME NEW i \in 0..Len(s)
        PROVE f[i] = IF i = 0 THEN <<>>
                     ELSE IF s[i] \in S THEN Append(f[i - 1], s[i]) ELSE f[i - 1]
    BY <2>1, Zenon
  <2> QED BY <2>2, <1>1
<1> HIDE DEF f, Is, P
<1>6. Q(Len(s))
  <2> SUFFICES ASSUME NEW n \in BadQ, \A m \in BadQ : n <= m PROVE FALSE
    <3> HIDE DEF Q
    <3>1. BadQ \subseteq Nat /\ (~Q(Len(s)) => Len(s) \in BadQ)
      BY <1>1
    <3> QED BY <3>1, NatMin
  <2> HIDE DEF Q
  <2>1. /\ n \in Nat /\ n <= Len(s) /\ ~Q(n)
        /\ n # 0 => n - 1 \in Nat /\ Q(n - 1)
    BY <1>1
  <2> HIDE DEF BadQ
  <2> USE DEF Q
  <2>2. CASE n = 0
    <3>1. f[0] \in Seq(T)
      BY <1>5
    <3>2. Range(f[0]) = {} /\ {s[j] : j \in 1..0} = {}
      BY <1>5 DEF Range
    <3> QED BY <2>1, <2>2, <3>1, <3>2
  <2>3. CASE n # 0
    <3>1. n \in 1..Len(s)
      BY <2>1, <2>3, <1>1
    <3>2. f[n - 1] \in Seq(T) /\ Range(f[n - 1]) = {s[j] : j \in 1..(n - 1)} \cap S
      BY <2>1, <2>3
    <3>3. f[n] = IF s[n] \in S THEN Append(f[n - 1], s[n]) ELSE f[n - 1]
      BY <1>5, <3>1
    <3>4. {s[j] : j \in 1..n} = {s[j] : j \in 1..(n - 1)} \cup {s[n]}
      BY <3>1
    <3>5. ASSUME NEW q \in Seq(T), NEW e \in T
          PROVE Append(q, e) \in Seq(T) /\ Range(Append(q, e)) = Range(q) \cup {e}
      BY DEF Range
    <3>6. s[n] \in T
      BY <1>1, <3>1
    <3> HIDE DEF Q
    <3>7. CASE s[n] \in S
      <4>1. f[n] = Append(f[n - 1], s[n])
        BY <3>3, <3>7
      <4>2. f[n] \in Seq(T) /\ Range(f[n]) = Range(f[n - 1]) \cup {s[n]}
        BY <4>1, <3>2, <3>5, <3>6
      <4>3. Range(f[n]) = {s[j] : j \in 1..n} \cap S
        BY <4>2, <3>2, <3>4, <3>7
      <4> QED BY <4>2, <4>3, <2>1 DEF Q
    <3>8. CASE s[n] \notin S
      BY <3>2, <3>3, <3>4, <3>6, <3>8, <2>1 DEF Q
    <3> QED BY <3>7, <3>8
  <2> QED BY <2>2, <2>3
<1>7. Range(s) = {s[j] : j \in 1..Len(s)}
  BY <1>1 DEF Range
<1> QED BY <1>4, <1>6, <1>7

-----------------------------------------------------------------------------
(* As many places as there are things, and no thing at two places: every   *)
(* thing is at one.                                                        *)
LEMMA AtEveryPlace ==
  ASSUME NEW S, NEW T, IsFiniteSet(S), IsFiniteSet(T), Cardinality(S) = Cardinality(T),
         NEW f \in [S -> T], \A x, y \in S : f[x] = f[y] => x = y
  PROVE  \A t \in T : \E x \in S : f[x] = t
<1>1. f \in Injection(S, T)
  BY DEF Injection, IsInjective
<1>2. f \in Surjection(S, T)
  BY <1>1, FS_Injection
<1> QED BY <1>2 DEF Surjection

(* Sorted by a strict order, every member has its place, in that order.    *)
LEMMA SortedIs ==
  ASSUME NEW S, IsFiniteSet(S), NEW R,
         \A i \in S : <<i, i>> \notin R,
         \A i, j, k \in S : <<i, j>> \in R /\ <<j, k>> \in R => <<i, k>> \in R,
         \A i, j \in S : i # j => <<i, j>> \in R \/ <<j, i>> \in R
  PROVE /\ Cardinality(S) \in Nat /\ DOMAIN Sorted(S, R) = 1..Cardinality(S)
        /\ \A k \in 1..Cardinality(S) : Sorted(S, R)[k] \in S
        /\ \A j \in S : \E k \in 1..Cardinality(S) : Sorted(S, R)[k] = j
        /\ \A k, l \in 1..Cardinality(S) :
             k < l => <<Sorted(S, R)[k], Sorted(S, R)[l]>> \in R
<1> DEFINE n == Cardinality(S)
           Below(j) == {i \in S : <<i, j>> \in R}
           rank == [j \in S |-> Cardinality(Below(j))]
<1>1. n \in Nat
  BY FS_CardinalityType
<1>2. ASSUME NEW j \in S
      PROVE /\ IsFiniteSet(Below(j)) /\ Cardinality(Below(j)) \in 0..(n - 1)
  <2>1. IsFiniteSet(S \ {j}) /\ Cardinality(S \ {j}) = n - 1
    BY FS_RemoveElement
  <2>2. Below(j) \in SUBSET (S \ {j})
    OBVIOUS
  <2> HIDE DEF Below
  <2>3. IsFiniteSet(Below(j)) /\ Cardinality(Below(j)) <= n - 1
    BY <2>1, <2>2, FS_Subset
  <2>4. Cardinality(Below(j)) \in Nat
    BY <2>3, FS_CardinalityType
  <2> QED BY <1>1, <2>3, <2>4
<1>3. ASSUME NEW i \in S, NEW j \in S, <<i, j>> \in R
      PROVE Cardinality(Below(i)) < Cardinality(Below(j))
  <2>1. Below(i) \in SUBSET Below(j)
    BY <1>3
  <2>2. i \in Below(j) /\ i \notin Below(i)
    BY <1>3
  <2> HIDE DEF Below
  <2>3. /\ Cardinality(Below(i)) <= Cardinality(Below(j))
        /\ Cardinality(Below(j)) = Cardinality(Below(i)) => Below(j) = Below(i)
    BY <1>2, <2>1, FS_Subset
  <2>4. Cardinality(Below(i)) \in Int /\ Cardinality(Below(j)) \in Int
    BY <1>1, <1>2
  <2> QED BY <2>2, <2>3, <2>4
<1>4. rank \in [S -> 0..(n - 1)] /\ \A j \in S : rank[j] = Cardinality(Below(j))
  BY <1>2
<1>5. \A i, j \in S : rank[i] = rank[j] => i = j
  <2>1. SUFFICES ASSUME NEW i \in S, NEW j \in S, i # j PROVE rank[i] # rank[j]
    OBVIOUS
  <2>2. rank[i] = Cardinality(Below(i)) /\ rank[j] = Cardinality(Below(j))
    BY <1>4
  <2>3. <<i, j>> \in R \/ <<j, i>> \in R
    BY <2>1
  <2> HIDE DEF rank, Below, n
  <2>4. Cardinality(Below(i)) \in Int /\ Cardinality(Below(j)) \in Int
    BY <1>1, <1>2
  <2> QED BY <1>3, <2>2, <2>3, <2>4
<1>6. IsFiniteSet(0..(n - 1)) /\ Cardinality(0..(n - 1)) = n
  <2>1. 0 \in Int /\ n - 1 \in Int
    BY <1>1
  <2>2. (IF 0 > n - 1 THEN 0 ELSE (n - 1) - 0 + 1) = n
    BY <1>1
  <2> HIDE DEF n
  <2> QED BY <2>1, <2>2, FS_Interval
<1>7. DOMAIN Sorted(S, R) = 1..n
      /\ \A k \in 1..n : Sorted(S, R)[k] = CHOOSE j \in S : Cardinality(Below(j)) = k - 1
  BY DEF Sorted
<1> HIDE DEF rank, n, Below
<1>8. \A t \in 0..(n - 1) : \E j \in S : rank[j] = t
  <2> DEFINE T == 0..(n - 1)
  <2>1. rank \in [S -> T] /\ IsFiniteSet(S)
    BY <1>4
  <2>2. IsFiniteSet(T) /\ Cardinality(S) = Cardinality(T)
    BY <1>6 DEF n
  <2> HIDE DEF T
  <2>3. \A t \in T : \E j \in S : rank[j] = t
    BY <1>5, <2>1, <2>2, AtEveryPlace, SMTT(30)
  <2> QED BY <2>3 DEF T
<1>9. ASSUME NEW k \in 1..n
      PROVE Sorted(S, R)[k] \in S /\ rank[Sorted(S, R)[k]] = k - 1
  <2>1. k - 1 \in 0..(n - 1)
    BY <1>1
  <2>2. \E j \in S : Cardinality(Below(j)) = k - 1
    BY <1>4, <1>8, <2>1
  <2> QED BY <1>4, <1>7, <2>2
<1>10. ASSUME NEW j \in S
       PROVE \E k \in 1..n : Sorted(S, R)[k] = j
  <2>1. rank[j] \in 0..(n - 1) /\ rank[j] + 1 \in 1..n /\ (rank[j] + 1) - 1 = rank[j]
    BY <1>1, <1>4
  <2> QED BY <1>5, <1>9, <2>1
<1>11. ASSUME NEW k \in 1..n, NEW l \in 1..n, k < l
       PROVE <<Sorted(S, R)[k], Sorted(S, R)[l]>> \in R
  <2> DEFINE i == Sorted(S, R)[k]
             j == Sorted(S, R)[l]
  <2>1. /\ i \in S /\ j \in S
        /\ Cardinality(Below(i)) = k - 1 /\ Cardinality(Below(j)) = l - 1
    BY <1>4, <1>9
  <2> HIDE DEF i, j
  <2>2. k - 1 # l - 1 /\ ~(l - 1 < k - 1)
    BY <1>1, <1>11
  <2>3. <<j, i>> \notin R
    BY <1>3, <2>1, <2>2
  <2>4. i # j
    BY <2>1, <2>2
  <2>5. <<i, j>> \in R
    BY <2>1, <2>3, <2>4
  <2> QED BY <2>5 DEF i, j
<1> QED BY <1>1, <1>7, <1>9, <1>10, <1>11 DEF n
==============================================================================
