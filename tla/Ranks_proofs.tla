----------------------------- MODULE Ranks_proofs -----------------------------
(***************************************************************************)
(* What is put in order is there, once for each member, in their order.    *)
(***************************************************************************)
EXTENDS Ranks, Sequences, FiniteSetTheorems, WellFoundedInduction, TLAPS

\* Some numbers have a least one.
LEMMA HasLeast ==
  ASSUME NEW S, S \subseteq Nat, S # {}
  PROVE  \E x \in S : \A y \in S : x <= y
<1> DEFINE R == {ss \in Nat \X Nat : ss[1] < ss[2]}
<1>1. IsWellFoundedOn(R, Nat)
  BY NatLessThanWellFounded DEF OpToRel
<1>2. \E x \in S : \A y \in S : ~ (<<y, x>> \in R)
  <2> HIDE DEF R
  <2>1. QED
    BY <1>1, WFMin
<1>3. PICK x \in S : \A y \in S : ~ (<<y, x>> \in R)
  BY <1>2
<1>4. ASSUME NEW y \in S PROVE x <= y
  <2>1. x \in Nat /\ y \in Nat /\ <<y, x>> \notin R
    BY <1>3
  <2>2. ~ (y < x)
    BY <2>1
  <2>3. QED
    BY <2>1, <2>2
<1>5. QED
  BY <1>3, <1>4

\* A larger member has a larger rank.
LEMMA RankGrows ==
  ASSUME NEW S \in SUBSET Nat, IsFiniteSet(S), NEW i \in S, NEW k \in S, i < k
  PROVE  Rank(S, i) \in Nat /\ Rank(S, k) \in Nat /\ Rank(S, i) < Rank(S, k)
<1> DEFINE low == {j \in S : j <= i}
           high == {j \in S : j <= k}
<1>1. high \in SUBSET S /\ IsFiniteSet(high) /\ Cardinality(high) \in Nat
  <2>1. high \in SUBSET S
    OBVIOUS
  <2> HIDE DEF low, high
  <2>2. QED  BY <2>1, FS_Subset, FS_CardinalityType
<1>2. low \in SUBSET high /\ k \in high /\ k \notin low
  <2>1. i \in Nat /\ k \in Nat /\ \A j \in S : j \in Nat
    OBVIOUS
  <2>2. \A j \in S : j <= i => j <= k
    BY <2>1
  <2>3. k <= k /\ ~(k <= i)
    BY <2>1
  <2>4. QED  BY <2>2, <2>3, Zenon
<1>3. Rank(S, i) = Cardinality(low) /\ Rank(S, k) = Cardinality(high)
  BY DEF Rank
<1> HIDE DEF low, high
<1>4. IsFiniteSet(low) /\ Cardinality(low) <= Cardinality(high)
      /\ (Cardinality(high) = Cardinality(low) => high = low)
  BY <1>1, <1>2, FS_Subset
<1>5. Cardinality(low) \in Nat
  BY <1>4, FS_CardinalityType
<1>6. Cardinality(low) # Cardinality(high)
  BY <1>2, <1>4
<1>7. QED  BY <1>1, <1>3, <1>4, <1>5, <1>6

\* Every number up to the size of a finite set of naturals is the rank of
\* exactly one of its members.
LEMMA RankCounts ==
  ASSUME NEW S \in SUBSET Nat, IsFiniteSet(S)
  PROVE  /\ Cardinality(S) \in Nat
         /\ \A i \in S : Rank(S, i) \in 1 .. Cardinality(S)
         /\ \A i, k \in S : Rank(S, i) = Rank(S, k) => i = k
         /\ \A n \in 1 .. Cardinality(S) : \E i \in S : Rank(S, i) = n
<1> DEFINE C == Cardinality(S)
           rank == [i \in S |-> Rank(S, i)]
<1>1. C \in Nat
  BY FS_CardinalityType
<1>2. ASSUME NEW i \in S
      PROVE  Rank(S, i) \in 1 .. C
  <2> DEFINE below == {j \in S : j <= i}
  <2>1. below \in SUBSET S /\ i \in below /\ Rank(S, i) = Cardinality(below)
    BY DEF Rank
  <2> HIDE DEF below
  <2>2. IsFiniteSet(below) /\ Cardinality(below) <= C
    BY <2>1, FS_Subset
  <2>3. Cardinality(below) \in Nat /\ Cardinality(below) # 0
    BY <2>1, <2>2, FS_CardinalityType, FS_EmptySet
  <2>4. QED  BY <1>1, <2>1, <2>2, <2>3
<1>3. ASSUME NEW i \in S, NEW k \in S, Rank(S, i) = Rank(S, k)
      PROVE  i = k
  <2>1. CASE i < k
    BY <1>3, <2>1, RankGrows
  <2>2. CASE k < i
    BY <1>3, <2>2, RankGrows
  <2>3. QED  BY <2>1, <2>2
<1>4. rank \in Injection(S, 1 .. C)
  BY <1>2, <1>3 DEF Injection, IsInjective
<1>5. IsFiniteSet(1 .. C) /\ Cardinality(1 .. C) = C
  BY <1>1, FS_Interval
<1> HIDE DEF rank, C
<1>6. rank \in Surjection(S, 1 .. C)
  BY <1>4, <1>5, FS_Injection DEF C
<1>7. ASSUME NEW n \in 1 .. C
      PROVE  \E i \in S : Rank(S, i) = n
  BY <1>6 DEF Surjection, rank
<1>8. QED  BY <1>1, <1>2, <1>3, <1>7 DEF C

\* InOrder has a value for each member, at the member's rank.
LEMMA InOrderHolds ==
  ASSUME NEW S \in SUBSET Nat, IsFiniteSet(S), NEW V, NEW f, \A i \in S : f[i] \in V
  PROVE  /\ InOrder(f, S) \in Seq(V) /\ Len(InOrder(f, S)) = Cardinality(S)
         /\ \A n \in DOMAIN InOrder(f, S) : \E i \in S : Rank(S, i) = n /\ InOrder(f, S)[n] = f[i]
         /\ \A i \in S : /\ Rank(S, i) \in DOMAIN InOrder(f, S)
                        /\ InOrder(f, S)[Rank(S, i)] = f[i]
<1> DEFINE C == Cardinality(S)
           at(n) == CHOOSE i \in S : Rank(S, i) = n
           w == [n \in 1 .. C |-> f[at(n)]]
<1>1. w = InOrder(f, S)
  BY DEF InOrder
<1>2. /\ C \in Nat
      /\ \A i \in S : Rank(S, i) \in 1 .. C
      /\ \A i, k \in S : Rank(S, i) = Rank(S, k) => i = k
      /\ \A n \in 1 .. C : \E i \in S : Rank(S, i) = n
  BY RankCounts
<1>3. \A n \in 1 .. C : at(n) \in S /\ Rank(S, at(n)) = n
  BY <1>2
<1>4. \A i \in S : at(Rank(S, i)) = i
  BY <1>2
<1>5. DOMAIN w = 1 .. C /\ \A n \in 1 .. C : w[n] = f[at(n)]
  OBVIOUS
<1>6. w \in Seq(V) /\ Len(w) = C
  <2>1. \A n \in 1 .. C : f[at(n)] \in V
    BY <1>3
  <2> HIDE DEF at
  <2>2. w \in [1 .. C -> V]
    BY <2>1
  <2>3. QED  BY <1>2, <2>2
<1> HIDE DEF at, w, C
<1>7. \A n \in DOMAIN w : \E i \in S : Rank(S, i) = n /\ w[n] = f[i]
  BY <1>3, <1>5
<1>8. \A i \in S : Rank(S, i) \in DOMAIN w /\ w[Rank(S, i)] = f[i]
  BY <1>2, <1>4, <1>5
<1>9. QED  BY <1>1, <1>6, <1>7, <1>8 DEF C
=============================================================================
