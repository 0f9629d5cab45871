--------------------------- MODULE SelectionsProofs ----------------------------
(***************************************************************************)
(* What At keeps of a list: the elements at the places, all of them, the   *)
(* first one first.                                                        *)
(***************************************************************************)
EXTENDS Selections, FiniteSetTheorems, WellFoundedInduction, TLAPS

\* The relation of NatLessThanWellFounded, as a set.
Less == {p \in Nat \X Nat : p[1] < p[2]}

\* It is well-founded.
LEMMA LessIsWellFounded == IsWellFoundedOn(Less, Nat)
BY NatLessThanWellFounded, Zenon DEF OpToRel, Less

\* Of natural numbers there is a first one.
LEMMA FirstOf ==
  ASSUME NEW S \in SUBSET Nat, S # {}
  PROVE  Min(S) \in S /\ \A y \in S : Min(S) <= y
<1>1. PICK x \in S : \A y \in S : <<y, x>> \notin Less
  BY LessIsWellFounded, WFMin
<1>2. ASSUME NEW y \in S
      PROVE  x <= y
  <2>1. x \in Nat /\ y \in Nat /\ <<y, x>> \notin Less
    BY <1>1
  <2>2. QED BY <2>1 DEF Less
<1>3. QED BY <1>2 DEF Min

\* The places up to j, and the i-th place.
UpTo(places, j) == {p \in places : p <= j}
Place(places, i) == CHOOSE j \in places : Cardinality(UpTo(places, j)) = i

\* The places are numbered from the first one on.
LEMMA Numbered ==
  ASSUME NEW n \in Nat, NEW places \in SUBSET (1..n)
  PROVE  /\ Cardinality(places) \in Nat
         /\ \A i \in 1..Cardinality(places) : Place(places, i) \in places
         /\ \A j \in places : \E i \in 1..Cardinality(places) : Place(places, i) = j
         /\ places # {} => /\ Cardinality(places) > 0
                           /\ \A j \in places : Place(places, 1) <= j
<1> DEFINE card == Cardinality(places)
           rank == [j \in places |-> Cardinality(UpTo(places, j))]
<1>0. IsFiniteSet(1..n) /\ places \in SUBSET Nat
  BY FS_Interval
<1>1. IsFiniteSet(places) /\ card \in Nat
  BY <1>0, FS_Subset, FS_CardinalityType
<1>2. \A j \in places :
        /\ UpTo(places, j) \in SUBSET places /\ IsFiniteSet(UpTo(places, j))
        /\ rank[j] \in Nat /\ rank[j] <= card /\ rank[j] # 0
  <2> SUFFICES ASSUME NEW j \in places
               PROVE  /\ UpTo(places, j) \in SUBSET places /\ IsFiniteSet(UpTo(places, j))
                      /\ rank[j] \in Nat /\ rank[j] <= card /\ rank[j] # 0
    OBVIOUS
  <2>1. UpTo(places, j) \in SUBSET places /\ j \in UpTo(places, j)
    BY DEF UpTo
  <2>2. IsFiniteSet(UpTo(places, j)) /\ Cardinality(UpTo(places, j)) <= card
    BY <1>1, <2>1, FS_Subset
  <2>3. Cardinality(UpTo(places, j)) \in Nat /\ Cardinality(UpTo(places, j)) # 0
    BY <2>1, <2>2, FS_CardinalityType, FS_EmptySet
  <2>4. QED BY <2>1, <2>2, <2>3
<1>3. \A j, k \in places : j # k => rank[j] # rank[k]
  <2>1. ASSUME NEW j \in places, NEW k \in places, j < k
        PROVE  rank[j] # rank[k]
    <3>1. UpTo(places, j) \in SUBSET UpTo(places, k) /\ k \in UpTo(places, k) \ UpTo(places, j)
      <4>1. j \in Int /\ k \in Int /\ \A p \in places : p \in Int
        BY <1>0
      <4>2. \A p \in places : p <= j => p <= k
        BY <2>1, <4>1
      <4>3. k <= k /\ ~(k <= j)
        BY <2>1, <4>1
      <4>4. QED BY <4>2, <4>3 DEF UpTo
    <3>2. Cardinality(UpTo(places, k)) # Cardinality(UpTo(places, j))
      BY <1>2, <3>1, FS_Subset
    <3>3. QED BY <3>2
  <2>2. QED BY <2>1
<1>4. rank \in Injection(places, 1..card)
  BY <1>1, <1>2, <1>3 DEF Injection, IsInjective
<1>5. rank \in Surjection(places, 1..card)
  <2>1. IsFiniteSet(1..card) /\ Cardinality(1..card) = card
    BY <1>1, FS_Interval
  <2>2. QED BY <1>4, <2>1, FS_Injection
<1>6. \A i \in 1..card : Place(places, i) \in places /\ rank[Place(places, i)] = i
  <2> SUFFICES ASSUME NEW i \in 1..card
               PROVE  Place(places, i) \in places /\ rank[Place(places, i)] = i
    OBVIOUS
  <2>1. \E j \in places : Cardinality(UpTo(places, j)) = i
    BY <1>5 DEF Surjection
  <2>2. QED BY <2>1 DEF Place
<1>7. \A j \in places : rank[j] \in 1..card /\ Place(places, rank[j]) = j
  <2>1. \A j \in places : rank[j] \in 1..card
    BY <1>1, <1>2
  <2> HIDE DEF rank
  <2>2. QED BY <1>3, <1>6, <2>1
<1>8. ASSUME places # {}
      PROVE  card > 0 /\ \A j \in places : Place(places, 1) <= j
  <2>1. PICK first \in places : \A j \in places : first <= j
    BY <1>0, <1>8, FirstOf
  <2>2. UpTo(places, first) = {first}
    <3>1. \A p \in places : p \in Int /\ (p <= first <=> p = first)
      BY <1>0, <2>1
    <3>2. QED BY <3>1 DEF UpTo
  <2>3. rank[first] = 1
    BY <2>2, FS_Singleton
  <2>4. QED BY <1>1, <1>7, <2>1, <2>3
<1>9. QED BY <1>1, <1>6, <1>7, <1>8

\* What is kept of a list: the elements at the places, the first one first.
LEMMA Kept ==
  ASSUME NEW S, NEW seq \in Seq(S), NEW places \in SUBSET DOMAIN seq
  PROVE  /\ At(seq, places) \in Seq({seq[j] : j \in places})
         /\ ToSet(At(seq, places)) = {seq[j] : j \in places}
         /\ At(seq, places) = <<>> <=> places = {}
         /\ places # {} => \E first \in places :
              At(seq, places)[1] = seq[first] /\ \A j \in places : first <= j
<1> DEFINE card == Cardinality(places)
           kept == At(seq, places)
<1>1. DOMAIN seq = 1..Len(seq) /\ Len(seq) \in Nat
  OBVIOUS
<1>2. kept = [i \in 1..card |-> seq[Place(places, i)]]
  BY DEF At, Place, UpTo
<1>3. /\ card \in Nat
      /\ \A i \in 1..card : Place(places, i) \in places
      /\ \A j \in places : \E i \in 1..card : Place(places, i) = j
      /\ places # {} => card > 0 /\ \A j \in places : Place(places, 1) <= j
  BY <1>1, Numbered
<1> HIDE DEF card, kept
<1>4. kept \in Seq({seq[j] : j \in places}) /\ Len(kept) = card
  BY <1>2, <1>3
<1>5. ToSet(kept) = {seq[j] : j \in places}
  BY <1>2, <1>3 DEF ToSet
<1>6. places # {} => card > 0 /\ 1 \in 1..card /\ kept[1] = seq[Place(places, 1)]
  BY <1>2, <1>3
<1>7. places = {} => card = 0
  BY FS_EmptySet DEF card
<1>8. kept = <<>> <=> card = 0
  <2>1. card = 0 => kept = [i \in {} |-> seq[Place(places, i)]]
    BY <1>2, <1>3
  <2>2. kept = <<>> => Len(kept) = 0
    OBVIOUS
  <2>3. QED BY <1>4, <2>1, <2>2
<1>9. QED BY <1>3, <1>4, <1>5, <1>6, <1>7, <1>8 DEF kept
================================================================================
