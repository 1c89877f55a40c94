--------------------------- MODULE SubsequenceProofs ---------------------------
(***************************************************************************)
(* What the filter of an array leaves: the elements at the places that     *)
(* were picked, each once and in their order.                              *)
(***************************************************************************)
EXTENDS Subsequences, FiniteSetTheorems, WellFoundedInduction, TLAPS

Less == {ss \in Nat \X Nat : ss[1] < ss[2]}

LEMMA LessWF == IsWellFoundedOn(Less, Nat)
  BY NatLessThanWellFounded DEF OpToRel, Less

LEMMA LeastOf == ASSUME NEW T \in SUBSET Nat, T # {} PROVE \E n \in T : \A m \in T : n <= m
  <1>1. PICK n \in T : \A m \in T : ~(<<m, n>> \in Less)
    BY LessWF, WFMin
  <1>2. ASSUME NEW m \in T PROVE n <= m
    <2>1. n \in Nat /\ m \in Nat
      OBVIOUS
    <2>2. ~(<<m, n>> \in Less)
      BY <1>1
    <2>3. m < n => <<m, n>> \in Less
      BY <2>1 DEF Less
    <2> QED BY <2>1, <2>2, <2>3
  <1> QED BY <1>2

\* Induction: a set of numbers with 0 and the successor of each of its members has them all.
LEMMA SetInduction == ASSUME NEW S \in SUBSET Nat, 0 \in S, \A n \in S : n + 1 \in S PROVE S = Nat
  <1>1. SUFFICES ASSUME Nat \ S # {} PROVE FALSE
    OBVIOUS
  <1>2. PICK n \in Nat \ S : \A m \in Nat \ S : n <= m
    BY <1>1, LeastOf
  <1>3. n # 0 /\ n \in Nat
    OBVIOUS
  <1>4. n - 1 \in Nat
    BY <1>3
  <1>5. n - 1 \in S
    BY <1>2, <1>4
  <1>6. (n - 1) + 1 \in S
    BY <1>5
  <1>7. (n - 1) + 1 = n
    BY <1>3
  <1> QED BY <1>6, <1>7

LEMMA PlacesFinite == ASSUME NEW m \in Nat, NEW I \in SUBSET (1 .. m) PROVE IsFiniteSet(I) /\ Cardinality(I) \in Nat
  <1>1. IsFiniteSet(1 .. m)
    BY FS_Interval
  <1>2. IsFiniteSet(I)
    BY <1>1, FS_Subset
  <1> QED BY <1>2, FS_CardinalityType

\* Every number up to that of the places is the rank of one.
LEMMA RanksAreMet ==
    ASSUME NEW m \in Nat, NEW I \in SUBSET (1 .. m), NEW n \in 1 .. Cardinality(I)
    PROVE  \E i \in I : Rank(I, i) = n
  <1> DEFINE Met(T) == \A k \in 1 .. Cardinality(T) : \E i \in T : Rank(T, i) = k
  <1> DEFINE S == {k \in Nat : \A T \in SUBSET (1 .. k) : Met(T)}
  <1>1. 0 \in S
    <2>1. ASSUME NEW T \in SUBSET (1 .. 0) PROVE Met(T)
      <3>1. T = {}
        BY <2>1
      <3>2. Cardinality(T) = 0
        BY <3>1, FS_EmptySet
      <3> QED BY <3>2
    <2> QED BY <2>1
  <1>2. ASSUME NEW k \in S PROVE k + 1 \in S
    <2>0. k \in Nat
      OBVIOUS
    <2>1. ASSUME NEW T \in SUBSET (1 .. k + 1) PROVE Met(T)
      <3>1. PICK T1 : T1 = T \ {k + 1}
        OBVIOUS
      <3>2. T1 \in SUBSET (1 .. k)
        BY <2>0, <3>1
      <3>3. Met(T1)
        BY <3>2
      <3>4. CASE k + 1 \notin T
        BY <3>1, <3>3, <3>4
      <3>5. CASE k + 1 \in T
        <4>1. IsFiniteSet(T) /\ Cardinality(T) \in Nat
          <5>1. PICK n1 \in Nat : n1 = k + 1
            BY <2>0
          <5>2. T \in SUBSET (1 .. n1)
            BY <5>1
          <5> HIDE <5>1
          <5> QED BY <5>2, PlacesFinite
        <4>2. Cardinality(T1) = Cardinality(T) - 1
          BY <3>1, <3>5, <4>1, FS_RemoveElement
        <4>3. ASSUME NEW j \in 1 .. Cardinality(T) PROVE \E i \in T : Rank(T, i) = j
          <5>1. CASE j = Cardinality(T)
            <6>0. \A x \in T : x \in Nat /\ x <= k + 1
              BY <2>0
            <6>1. {x \in T : x <= k + 1} = T
              BY <6>0
            <6>2. Rank(T, k + 1) = j
              BY <5>1, <6>1 DEF Rank
            <6> QED BY <3>5, <6>2
          <5>2. CASE j # Cardinality(T)
            <6>1. j \in 1 .. Cardinality(T1)
              BY <4>1, <4>2, <5>2
            <6>2. PICK i \in T1 : Rank(T1, i) = j
              BY <3>3, <6>1
            <6>3. {x \in T : x <= i} = {x \in T1 : x <= i}
              BY <2>0, <3>1, <3>2
            <6> QED BY <3>1, <6>2, <6>3 DEF Rank
          <5> QED BY <5>1, <5>2
        <4> QED BY <4>3
      <3> QED BY <3>4, <3>5
    <2> QED BY <2>0, <2>1
  <1>3. S = Nat
    <2>1. S \in SUBSET Nat
      OBVIOUS
    <2> HIDE DEF S
    <2> QED BY <1>1, <1>2, <2>1, SetInduction
  <1> QED BY <1>3

\* A place of a later rank comes later, and two of the same rank are the same.
LEMMA RanksRise ==
    ASSUME NEW m \in Nat, NEW I \in SUBSET (1 .. m), NEW i \in I, NEW j \in I
    PROVE  /\ i < j => Rank(I, i) < Rank(I, j)
           /\ Rank(I, i) \in 1 .. Cardinality(I)
  <1>1. PICK A : A = {x \in I : x <= i}
    OBVIOUS
  <1>2. PICK B : B = {x \in I : x <= j}
    OBVIOUS
  <1>3. IsFiniteSet(I) /\ Cardinality(I) \in Nat
    BY PlacesFinite
  <1>4. A \in SUBSET I /\ B \in SUBSET I /\ i \in A /\ j \in B /\ i \in Nat /\ j \in Nat
    BY <1>1, <1>2
  <1>5. IsFiniteSet(A) /\ IsFiniteSet(B) /\ Cardinality(A) <= Cardinality(I) /\ Cardinality(B) <= Cardinality(I)
    BY <1>3, <1>4, FS_Subset
  <1>6. Cardinality(A) \in Nat /\ Cardinality(B) \in Nat
    BY <1>5, FS_CardinalityType
  <1>7. Cardinality(A) # 0
    BY <1>4, <1>5, FS_EmptySet
  <1>8. ASSUME i < j PROVE Cardinality(A) < Cardinality(B)
    <2>1. A \in SUBSET B /\ A # B
      <3>1. \A x \in I : x \in Nat
        OBVIOUS
      <3>2. ASSUME NEW x \in A PROVE x \in B
        <4>1. x \in I /\ x <= i /\ x \in Nat /\ i \in Nat /\ j \in Nat
          BY <1>1, <1>4, <3>1
        <4>2. x <= j
          BY <1>8, <4>1
        <4> QED BY <1>2, <4>1, <4>2
      <3>3. j \notin A
        BY <1>1, <1>4, <1>8
      <3> QED BY <1>4, <3>2, <3>3
    <2>2. Cardinality(A) <= Cardinality(B) /\ (Cardinality(B) = Cardinality(A) => B = A)
      BY <1>5, <2>1, FS_Subset
    <2> QED BY <1>6, <2>1, <2>2
  <1>9. Rank(I, i) = Cardinality(A) /\ Rank(I, j) = Cardinality(B)
    BY <1>1, <1>2 DEF Rank
  <1> QED BY <1>3, <1>5, <1>6, <1>7, <1>8, <1>9

\* The part of a sequence at some of its places has the elements there, in their order.
LEMMA PickedIs ==
    ASSUME NEW S, NEW s \in Seq(S), NEW I \in SUBSET (1 .. Len(s)), NEW p, p = Picked(s, I)
    PROVE  /\ p \in Seq(S) /\ Len(p) = Cardinality(I) /\ Len(p) \in Nat
           /\ \E f \in [1 .. Len(p) -> I] :
                 /\ \A n \in 1 .. Len(p) : p[n] = s[f[n]]
                 /\ \A m, n \in 1 .. Len(p) : m < n => f[m] < f[n]
                 /\ \A i \in I : \E n \in 1 .. Len(p) : f[n] = i
  <1>0. PICK l \in Nat : l = Len(s)
    OBVIOUS
  <1>1. Len(s) \in Nat /\ l \in Nat /\ I \in SUBSET (1 .. l) /\ IsFiniteSet(I) /\ Cardinality(I) \in Nat
    <2>1. I \in SUBSET (1 .. l)
      BY <1>0
    <2> QED BY <1>0, <2>1, PlacesFinite
  <1>2. PICK c : c = Cardinality(I)
    OBVIOUS
  <1>3. PICK f : f = [n \in 1 .. c |-> CHOOSE i \in I : Rank(I, i) = n]
    OBVIOUS
  <1>4. ASSUME NEW n \in 1 .. c PROVE f[n] \in I /\ Rank(I, f[n]) = n
    <2>1. \E i \in I : Rank(I, i) = n
      BY <1>1, <1>2, RanksAreMet
    <2> QED BY <1>3, <2>1
  <1>5. p = [n \in 1 .. c |-> s[f[n]]]
    BY <1>2, <1>3 DEF Picked
  <1>6. p \in Seq(S) /\ Len(p) = c
    <2>1. ASSUME NEW n \in 1 .. c PROVE s[f[n]] \in S
      <3>1. f[n] \in 1 .. Len(s)
        BY <1>4
      <3> QED BY <3>1
    <2>2. p \in [1 .. c -> S] /\ c \in Nat
      BY <1>1, <1>2, <1>5, <2>1
    <2> QED BY <2>2
  <1>7. f \in [1 .. c -> I]
    BY <1>3, <1>4
  <1>8. ASSUME NEW k \in 1 .. c, NEW n \in 1 .. c, k < n PROVE f[k] < f[n]
    <2>1. f[k] \in I /\ f[n] \in I /\ Rank(I, f[k]) = k /\ Rank(I, f[n]) = n
      BY <1>4
    <2>2. f[k] \in Nat /\ f[n] \in Nat /\ k \in Nat /\ n \in Nat
      <3>1. \A x \in I : x \in Nat
        BY <1>1
      <3>2. f[k] \in Nat /\ f[n] \in Nat
        BY <2>1, <3>1
      <3>3. c \in Nat
        BY <1>1, <1>2
      <3> QED BY <3>2, <3>3
    <2>3. f[n] < f[k] => n < k
      <3>1. PICK x \in I : x = f[n]
        BY <2>1
      <3>2. PICK y \in I : y = f[k]
        BY <2>1
      <3>3. x < y => Rank(I, x) < Rank(I, y)
        BY <1>1, RanksRise
      <3> QED BY <2>1, <3>1, <3>2, <3>3
    <2>4. f[n] = f[k] => n = k
      BY <2>1
    <2> QED BY <1>8, <2>2, <2>3, <2>4
  <1>9. ASSUME NEW i \in I PROVE \E n \in 1 .. c : f[n] = i
    <2>1. PICK n \in 1 .. c : n = Rank(I, i)
      BY <1>1, <1>2, RanksRise
    <2>2. f[n] \in I /\ Rank(I, f[n]) = n
      BY <1>4
    <2>3. PICK j \in I : j = f[n]
      BY <2>2
    <2>4. i \in Nat /\ j \in Nat /\ n \in Nat
      BY <1>1, <1>2
    <2>5. (i < j => Rank(I, i) < Rank(I, j)) /\ (j < i => Rank(I, j) < Rank(I, i))
      BY <1>1, RanksRise
    <2>6. Rank(I, i) = n /\ Rank(I, j) = n
      BY <2>1, <2>2, <2>3
    <2>7. i = j
      BY <2>4, <2>5, <2>6
    <2> QED BY <2>3, <2>7
  <1> QED BY <1>1, <1>2, <1>5, <1>6, <1>7, <1>8, <1>9

\* An element stands at the rank of its place.
LEMMA PickedAt ==
    ASSUME NEW m \in Nat, NEW I \in SUBSET (1 .. m), NEW s, NEW i \in I
    PROVE  Rank(I, i) \in 1 .. Cardinality(I) /\ Picked(s, I)[Rank(I, i)] = s[i]
  <1>1. PICK n : n = Rank(I, i)
    OBVIOUS
  <1>2. n \in 1 .. Cardinality(I) /\ Cardinality(I) \in Nat
    BY <1>1, RanksRise, PlacesFinite
  <1>3. PICK k : k = CHOOSE x \in I : Rank(I, x) = n
    OBVIOUS
  <1>4. k \in I /\ Rank(I, k) = n
    BY <1>1, <1>3
  <1>5. k = i
    <2>1. i \in Nat /\ k \in Nat /\ n \in Nat
      BY <1>2, <1>4
    <2>2. (i < k => Rank(I, i) < Rank(I, k)) /\ (k < i => Rank(I, k) < Rank(I, i))
      BY <1>4, RanksRise
    <2> QED BY <1>1, <1>4, <2>1, <2>2
  <1>6. Picked(s, I)[n] = s[k]
    BY <1>2, <1>3 DEF Picked
  <1> QED BY <1>1, <1>2, <1>5, <1>6

===============================================================================
