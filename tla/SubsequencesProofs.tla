-------------------------- MODULE SubsequencesProofs --------------------------
(***************************************************************************)
(* What the operators of Subsequences return: the n-th number of a finite  *)
(* set exists, the numbers ascend and none is left out.                    *)
(***************************************************************************)
EXTENDS Subsequences, FiniteSetTheorems, FunctionTheorems, WellFoundedInduction, TLAPS

(* A set of natural numbers has a least one.                               *)
LEMMA Least ==
  ASSUME NEW S \in SUBSET Nat, S # {}
  PROVE  \E x \in S : \A y \in S : x <= y
<1>. DEFINE R == OpToRel(<, Nat)
<1>1. \A x, y \in Nat : x < y => <<x, y>> \in R
  BY DEF OpToRel
<1>2. IsWellFoundedOn(R, Nat)
  BY NatLessThanWellFounded
<1>. HIDE DEF R
<1>3. PICK x \in S : \A y \in S : ~(<<y, x>> \in R)
  BY <1>2, WFMin
<1>4. ASSUME NEW y \in S
      PROVE  x <= y
  <2>1. x \in Nat /\ y \in Nat
    OBVIOUS
  <2>2. ~(y < x)
    BY <1>1, <1>3, <2>1
  <2>. QED
    BY <2>1, <2>2
<1>. QED
  BY <1>4

(* A number of the set counts itself and whatever is below it.             *)
LEMMA RankType ==
  ASSUME NEW I \in SUBSET Int, IsFiniteSet(I), NEW i \in I
  PROVE  Rank(I, i) \in 1 .. Cardinality(I)
<1>. DEFINE D == {j \in I : j <= i}
<1>1. IsFiniteSet(D) /\ Cardinality(D) <= Cardinality(I)
  BY FS_Subset
<1>2. D # {}
  OBVIOUS
<1>3. Cardinality(D) \in Nat /\ Cardinality(D) # 0 /\ Cardinality(I) \in Nat
  BY <1>1, <1>2, FS_EmptySet, FS_CardinalityType
<1>. QED
  BY <1>1, <1>3 DEF Rank

(* Ranks grow with the numbers.                                            *)
LEMMA RankMonotone ==
  ASSUME NEW I \in SUBSET Int, IsFiniteSet(I), NEW i \in Int, NEW j \in I, i < j
  PROVE  Rank(I, i) < Rank(I, j)
<1>. DEFINE D == {k \in I : k <= i}
            E == {k \in I : k <= j}
<1>1. IsFiniteSet(E)
  BY FS_Subset
<1>2. D \in SUBSET E /\ D # E
  <2>1. j \in Int /\ j \in E /\ j \notin D
    OBVIOUS
  <2>2. ASSUME NEW k \in I, k <= i
        PROVE  k <= j
    <3>1. k \in Int /\ j \in Int
      OBVIOUS
    <3>. QED
      BY <2>2, <3>1
  <2>. QED
    BY <2>1, <2>2
<1>3. IsFiniteSet(D) /\ Cardinality(D) <= Cardinality(E) /\ Cardinality(D) # Cardinality(E)
  BY <1>1, <1>2, FS_Subset
<1>4. Cardinality(D) \in Nat /\ Cardinality(E) \in Nat
  BY <1>1, <1>3, FS_CardinalityType
<1>. QED
  BY <1>3, <1>4 DEF Rank

(* Every position up to the number of elements is taken by one of them.    *)
LEMMA RankOnto ==
  ASSUME NEW I \in SUBSET Int, IsFiniteSet(I), NEW n \in 1 .. Cardinality(I)
  PROVE  \E i \in I : Rank(I, i) = n
<1>. DEFINE r == [i \in I |-> Rank(I, i)]
            T == 1 .. Cardinality(I)
<1>1. Cardinality(I) \in Nat
  BY FS_CardinalityType
<1>2. r \in [I -> T]
  BY RankType
<1>3. \A i, j \in I : r[i] = r[j] => i = j
  <2>. SUFFICES ASSUME NEW i \in I, NEW j \in I, i # j
                PROVE  Rank(I, i) # Rank(I, j)
    OBVIOUS
  <2>1. Rank(I, i) \in Int /\ Rank(I, j) \in Int
    BY RankType, <1>1
  <2>2. CASE i < j
    BY <2>1, <2>2, RankMonotone
  <2>3. CASE j < i
    BY <2>1, <2>3, RankMonotone
  <2>. QED
    BY <2>2, <2>3
<1>4. r \in Injection(I, T)
  BY <1>2, <1>3 DEF Injection, IsInjective
<1>5. IsFiniteSet(T) /\ Cardinality(T) = Cardinality(I)
  BY <1>1, FS_Interval
<1>6. r \in Surjection(I, T)
  BY <1>4, <1>5, FS_Injection
<1>. QED
  BY <1>6 DEF Surjection

(* The n-th number of a set is one of its numbers, with that rank.         *)
LEMMA NthType ==
  ASSUME NEW I \in SUBSET Int, IsFiniteSet(I), NEW n \in 1 .. Cardinality(I)
  PROVE  Nth(I, n) \in I /\ Rank(I, Nth(I, n)) = n
  BY RankOnto DEF Nth

(* Each number of a set is the one of its rank.                            *)
LEMMA NthOfRank ==
  ASSUME NEW I \in SUBSET Int, IsFiniteSet(I), NEW i \in I
  PROVE  Nth(I, Rank(I, i)) = i
<1>. DEFINE k == Nth(I, Rank(I, i))
<1>1. Rank(I, i) \in 1 .. Cardinality(I) /\ Cardinality(I) \in Nat
  BY RankType, FS_CardinalityType
<1>2. k \in I /\ Rank(I, k) = Rank(I, i)
  BY <1>1, NthType
<1>. HIDE DEF k
<1>3. Rank(I, i) \in Int /\ i \in Int /\ k \in Int
  BY <1>1, <1>2
<1>4. ~(k < i)
  BY <1>2, <1>3, RankMonotone
<1>5. ~(i < k)
  BY <1>2, <1>3, RankMonotone
<1>6. k = i
  BY <1>3, <1>4, <1>5
<1>. QED
  BY <1>6 DEF k

(* The numbers ascend.                                                     *)
LEMMA NthMonotone ==
  ASSUME NEW I \in SUBSET Int, IsFiniteSet(I),
         NEW m \in 1 .. Cardinality(I), NEW n \in 1 .. Cardinality(I), m < n
  PROVE  Nth(I, m) < Nth(I, n)
<1>. DEFINE x == Nth(I, m)
            y == Nth(I, n)
<1>1. Cardinality(I) \in Nat
  BY FS_CardinalityType
<1>2. x \in I /\ Rank(I, x) = m /\ y \in I /\ Rank(I, y) = n
  BY NthType
<1>. HIDE DEF x, y
<1>3. x # y /\ x \in Int /\ y \in Int
  BY <1>1, <1>2
<1>4. ~(y < x)
  BY <1>1, <1>2, <1>3, RankMonotone
<1>5. x < y
  BY <1>3, <1>4
<1>. QED
  BY <1>5 DEF x, y

(* A set of numbers all of which are below the next one gets the next one  *)
(* as its last.                                                            *)
LEMMA NthOfLarger ==
  ASSUME NEW I \in SUBSET Int, IsFiniteSet(I), NEW k \in Int, \A i \in I : i < k
  PROVE  /\ IsFiniteSet(I \cup {k})
         /\ Cardinality(I \cup {k}) = Cardinality(I) + 1
         /\ \A n \in 1 .. Cardinality(I) : Nth(I \cup {k}, n) = Nth(I, n)
         /\ Nth(I \cup {k}, Cardinality(I) + 1) = k
<1>. DEFINE J == I \cup {k}
<1>0. Cardinality(I) \in Nat /\ k \notin I
  BY FS_CardinalityType
<1>1. IsFiniteSet(J) /\ Cardinality(J) = Cardinality(I) + 1
  BY <1>0, FS_AddElement
<1>2. Rank(J, k) = Cardinality(I) + 1
  <2>1. \A j \in J : j \in Int /\ j <= k
    OBVIOUS
  <2>2. {j \in J : j <= k} = J
    BY <2>1
  <2>. QED
    BY <1>1, <2>2 DEF Rank
<1>3. \A i \in I : Rank(J, i) = Rank(I, i)
  <2>. SUFFICES ASSUME NEW i \in I PROVE Rank(J, i) = Rank(I, i)
    OBVIOUS
  <2>1. {j \in J : j <= i} = {j \in I : j <= i}
    OBVIOUS
  <2>. QED
    BY <2>1 DEF Rank
<1>4. ASSUME NEW n \in 1 .. Cardinality(I)
      PROVE  Nth(J, n) = Nth(I, n)
  <2>1. Nth(I, n) \in I /\ Rank(I, Nth(I, n)) = n
    BY NthType
  <2>2. Rank(J, Nth(I, n)) = n
    BY <1>3, <2>1
  <2>3. J \in SUBSET Int /\ Nth(I, n) \in J
    BY <2>1
  <2>4. Nth(J, Rank(J, Nth(I, n))) = Nth(I, n)
    BY <1>1, <2>3, NthOfRank
  <2>. QED
    BY <2>2, <2>4
<1>5. Nth(J, Cardinality(I) + 1) = k
  <2>1. Nth(J, Rank(J, k)) = k
    BY <1>1, NthOfRank
  <2>. QED
    BY <1>2, <2>1
<1>. QED
  BY <1>1, <1>4, <1>5

-----------------------------------------------------------------------------
(* Subsequences.                                                           *)

(* A subsequence has the elements at the positions and no others.          *)
LEMMA SelectElements ==
  ASSUME NEW s, NEW I \in SUBSET Int, IsFiniteSet(I)
  PROVE  /\ Select(s, I) \in Seq({s[i] : i \in I})
         /\ Len(Select(s, I)) = Cardinality(I)
         /\ {Select(s, I)[n] : n \in DOMAIN Select(s, I)} = {s[i] : i \in I}
<1>. DEFINE T == {s[i] : i \in I}
<1>1. Cardinality(I) \in Nat
  BY FS_CardinalityType
<1>2. \A n \in 1 .. Cardinality(I) : Nth(I, n) \in I
  BY NthType
<1>3. Select(s, I) \in [1 .. Cardinality(I) -> T]
  BY <1>2 DEF Select
<1>4. Select(s, I) \in Seq(T) /\ Len(Select(s, I)) = Cardinality(I)
  BY <1>1, <1>3
<1>5. ASSUME NEW i \in I
      PROVE  \E n \in DOMAIN Select(s, I) : Select(s, I)[n] = s[i]
  <2>1. Rank(I, i) \in 1 .. Cardinality(I) /\ Nth(I, Rank(I, i)) = i
    BY RankType, NthOfRank
  <2>2. Select(s, I)[Rank(I, i)] = s[i]
    BY <2>1 DEF Select
  <2>. QED
    BY <1>3, <2>1, <2>2
<1>6. ASSUME NEW n \in DOMAIN Select(s, I)
      PROVE  Select(s, I)[n] \in T
  BY <1>3
<1>. QED
  BY <1>4, <1>5, <1>6

(* A subsequence depends on nothing but the elements at its positions.     *)
LEMMA SelectAgrees ==
  ASSUME NEW s, NEW t, NEW I \in SUBSET Int, IsFiniteSet(I), \A i \in I : s[i] = t[i]
  PROVE  Select(s, I) = Select(t, I)
  BY NthType DEF Select

(* One more position, behind the others, appends its element.              *)
LEMMA SelectAppend ==
  ASSUME NEW s, NEW I \in SUBSET Int, IsFiniteSet(I), NEW k \in Int, \A i \in I : i < k
  PROVE  Select(s, I \cup {k}) = Append(Select(s, I), s[k])
<1>. DEFINE n == Cardinality(I)
            J == I \cup {k}
<1>1. n \in Nat
  BY FS_CardinalityType
<1>2. /\ Cardinality(J) = n + 1
      /\ \A m \in 1 .. n : Nth(J, m) = Nth(I, m)
      /\ Nth(J, n + 1) = k
  BY NthOfLarger
<1>. HIDE DEF J, n
<1>3. Select(s, J) = [m \in 1 .. n + 1 |-> s[Nth(J, m)]]
  BY <1>2 DEF Select
<1>4. Select(s, I) = [m \in 1 .. n |-> s[Nth(I, m)]]
  BY DEF Select, n
<1>5. Append(Select(s, I), s[k])
        = [m \in 1 .. n + 1 |-> IF m = n + 1 THEN s[k] ELSE Select(s, I)[m]]
  <2>1. Len(Select(s, I)) = n
    BY <1>1, <1>4
  <2>. QED
    BY <1>1, <2>1
<1>6. \A m \in 1 .. n + 1 :
        s[Nth(J, m)] = IF m = n + 1 THEN s[k] ELSE Select(s, I)[m]
  BY <1>1, <1>2, <1>4
<1>7. Select(s, J) = Append(Select(s, I), s[k])
  BY <1>3, <1>5, <1>6
<1>. QED
  BY <1>7 DEF J

=============================================================================
