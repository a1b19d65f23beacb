----------------------------- MODULE SelectionProofs -----------------------------
(***************************************************************************)
(* Lemmas about Selection: places are a numbering of a finite set, and     *)
(* what is left of a list without repetitions, or of one more or one less, *)
(* is a list without repetitions of the members that stay.                 *)
(***************************************************************************)
EXTENDS Selection, FiniteSetTheorems, TLAPS

-------------------------------------------------------------------------------
(* Places.                                                                 *)

\* Ranks tell the members of a finite set of integers apart and count up to its size.
LEMMA RanksInject ==
    ASSUME NEW S \in SUBSET Int, IsFiniteSet(S)
    PROVE  /\ [k \in S |-> RankIn(S, k)] \in Injection(S, 1 .. Cardinality(S))
           /\ [k \in S |-> RankIn(S, k)] \in Surjection(S, 1 .. Cardinality(S))
<1>. DEFINE rank == [k \in S |-> RankIn(S, k)]
            below(k) == {h \in S : h <= k}
<1>1. \A k \in S : IsFiniteSet(below(k)) /\ Cardinality(below(k)) \in 1 .. Cardinality(S)
  <2>. SUFFICES ASSUME NEW k \in S PROVE IsFiniteSet(below(k)) /\ Cardinality(below(k)) \in 1 .. Cardinality(S)
    OBVIOUS
  <2>1. IsFiniteSet(below(k)) /\ Cardinality(below(k)) <= Cardinality(S)
    BY FS_Subset
  <2>2. k \in below(k)
    OBVIOUS
  <2>3. Cardinality(below(k)) # 0
    BY <2>1, <2>2, FS_EmptySet
  <2>. QED
    BY <2>1, <2>3, FS_CardinalityType
<1>2. ASSUME NEW j \in S, NEW k \in S, j < k PROVE rank[j] # rank[k]
  <2>1. below(j) \in SUBSET below(k) /\ k \in below(k) /\ k \notin below(j)
    <3>1. \A h \in S : h \in Int
      OBVIOUS
    <3>2. \A h \in S : h <= j => h <= k
      BY <1>2, <3>1
    <3>3. k <= k /\ ~(k <= j)
      BY <1>2, <3>1
    <3>. QED
      BY <3>2, <3>3
  <2>2. Cardinality(below(j)) # Cardinality(below(k))
    BY <1>1, <2>1, FS_Subset
  <2>. QED
    BY <2>2 DEF RankIn
<1>3. rank \in [S -> 1 .. Cardinality(S)]
  BY <1>1 DEF RankIn
<1>4. rank \in Injection(S, 1 .. Cardinality(S))
  <2>1. ASSUME NEW j \in S, NEW k \in S, rank[j] = rank[k] PROVE j = k
    <3>1. j \in Int /\ k \in Int
      OBVIOUS
    <3>2. ~(j < k) /\ ~(k < j)
      BY <1>2, <2>1
    <3>. QED
      BY <3>1, <3>2
  <2>. QED
    BY <1>3, <2>1 DEF Injection, IsInjective
<1>5. Cardinality(1 .. Cardinality(S)) = Cardinality(S) /\ IsFiniteSet(1 .. Cardinality(S))
  BY FS_Interval, FS_CardinalityType
<1>6. rank \in Surjection(S, 1 .. Cardinality(S))
  BY <1>4, <1>5, FS_Injection
<1>. QED
  BY <1>4, <1>6

\* The member whose rank is the size is the greatest.
LEMMA GreatestExists ==
    ASSUME NEW S \in SUBSET Int, IsFiniteSet(S), S # {}
    PROVE  \E k \in S : \A l \in S : l <= k
<1>. DEFINE rank == [k \in S |-> RankIn(S, k)]
<1>1. Cardinality(S) \in Nat /\ Cardinality(S) # 0
  BY FS_CardinalityType, FS_EmptySet
<1>. HIDE DEF rank
<1>2. rank \in Surjection(S, 1 .. Cardinality(S))
  BY RanksInject DEF rank
<1>3. \E k \in S : rank[k] = Cardinality(S)
  BY <1>1, <1>2 DEF Surjection
<1>4. PICK k \in S : RankIn(S, k) = Cardinality(S)
  BY <1>3 DEF rank
<1>5. {h \in S : h <= k} = S
  BY <1>4, FS_Subset DEF RankIn
<1>. QED
  BY <1>5

\* The one whose rank is 1 is the least.
LEMMA LeastExists ==
    ASSUME NEW S \in SUBSET Int, IsFiniteSet(S), S # {}
    PROVE  \E k \in S : \A l \in S : k <= l
<1>. DEFINE rank == [k \in S |-> RankIn(S, k)]
<1>1. Cardinality(S) \in Nat /\ Cardinality(S) # 0
  BY FS_CardinalityType, FS_EmptySet
<1>. HIDE DEF rank
<1>2. rank \in Surjection(S, 1 .. Cardinality(S))
  BY RanksInject DEF rank
<1>3. \E k \in S : rank[k] = 1
  BY <1>1, <1>2 DEF Surjection
<1>4. PICK k \in S : RankIn(S, k) = 1
  BY <1>3 DEF rank
<1>5. ASSUME NEW l \in S PROVE k <= l
  <2>. DEFINE below == {h \in S : h <= k}
  <2>1. below \in SUBSET S /\ IsFiniteSet(below) /\ Cardinality(below) = 1
    BY <1>4, FS_Subset DEF RankIn
  <2>2. PICK x : below = {x}
    BY <2>1, FS_Singleton
  <2>3. k \in Int /\ l \in Int /\ k \in below
    OBVIOUS
  <2>4. l <= k => l = k
    BY <2>2, <2>3
  <2>. QED
    BY <2>3, <2>4
<1>. QED
  BY <1>5

-------------------------------------------------------------------------------
(* What is left of a list.                                                 *)

\* The positions that stay, in order, are numbered by the positions of what is left.
LEMMA SelectInPlaces ==
    ASSUME NEW S, NEW seq \in Seq(S), NEW T
    PROVE  /\ IsFiniteSet(Places(seq, T)) /\ Cardinality(Places(seq, T)) \in Nat
           /\ SelectIn(seq, T) \in Seq(S) /\ Len(SelectIn(seq, T)) = Cardinality(Places(seq, T))
           /\ \A k \in 1 .. Len(SelectIn(seq, T)) : \E i \in Places(seq, T) :
                 SelectIn(seq, T)[k] = seq[i] /\ RankIn(Places(seq, T), i) = k
           /\ \A i \in Places(seq, T) : \E k \in 1 .. Len(SelectIn(seq, T)) : SelectIn(seq, T)[k] = seq[i]
<1>. DEFINE places == Places(seq, T)
            kept   == SelectIn(seq, T)
            n      == Cardinality(places)
            Place(k) == CHOOSE i \in places : RankIn(places, i) = k
            rank   == [i \in places |-> RankIn(places, i)]
<1>1. /\ Len(seq) \in Nat /\ DOMAIN seq = 1 .. Len(seq)
      /\ \A i \in 1 .. Len(seq) : seq[i] \in S
  OBVIOUS
<1>2. places \in SUBSET (1 .. Len(seq)) /\ places \in SUBSET Int
  BY <1>1 DEF Places
<1>3. IsFiniteSet(places) /\ n \in Nat
  <2>1. IsFiniteSet(1 .. Len(seq))
    BY <1>1, FS_Interval
  <2>. QED
    BY <1>2, <2>1, FS_Subset, FS_CardinalityType
<1>. HIDE DEF places
<1>4. rank \in Injection(places, 1 .. n) /\ rank \in Surjection(places, 1 .. n)
  BY <1>2, <1>3, RanksInject
<1>. HIDE DEF n
<1>5. /\ \A i \in places : RankIn(places, i) \in 1 .. n
      /\ \A k \in 1 .. n : \E i \in places : RankIn(places, i) = k
      /\ \A i, j \in places : RankIn(places, i) = RankIn(places, j) => i = j
  <2>1. rank \in [places -> 1 .. n]
    BY <1>4 DEF Injection
  <2>2. \A k \in 1 .. n : \E i \in places : rank[i] = k
    BY <1>4 DEF Surjection
  <2>3. \A i, j \in places : rank[i] = rank[j] => i = j
    BY <1>4 DEF Injection, IsInjective
  <2>. QED
    BY <2>1, <2>2, <2>3
<1>6. \A k \in 1 .. n : Place(k) \in places /\ RankIn(places, Place(k)) = k
  BY <1>5
<1>7. kept = [k \in 1 .. n |-> seq[Place(k)]]
  BY DEF SelectIn, places, n
<1>8. \A i \in places : Place(RankIn(places, i)) = i
  BY <1>5, <1>6
<1>. HIDE DEF Place, kept
<1>9. \A k \in 1 .. n : Place(k) \in 1 .. Len(seq)
  BY <1>2, <1>6
<1>10. kept \in Seq(S) /\ Len(kept) = n
  BY <1>1, <1>3, <1>7, <1>9
<1>11. \A k \in 1 .. n : \E i \in places : kept[k] = seq[i] /\ RankIn(places, i) = k
  BY <1>6, <1>7
<1>12. \A i \in places : \E k \in 1 .. n : kept[k] = seq[i]
  BY <1>5, <1>7, <1>8
<1>. QED
  BY <1>3, <1>10, <1>11, <1>12 DEF places, kept, n

\* A list without repetitions keeps none, and keeps exactly the members that stay.
LEMMA SelectInDistinct ==
    ASSUME NEW S, NEW seq \in Seq(S), IsInjective(seq), NEW T
    PROVE  /\ SelectIn(seq, T) \in Seq(S)
           /\ IsInjective(SelectIn(seq, T))
           /\ Range(SelectIn(seq, T)) = Range(seq) \cap T
           /\ Len(SelectIn(seq, T)) <= Len(seq)
           /\ (\E i \in 1 .. Len(seq) : seq[i] \notin T) => Len(SelectIn(seq, T)) < Len(seq)
<1>. DEFINE places == Places(seq, T)
            kept   == SelectIn(seq, T)
<1>1. Len(seq) \in Nat /\ DOMAIN seq = 1 .. Len(seq)
  OBVIOUS
<1>2. /\ IsFiniteSet(places) /\ Cardinality(places) \in Nat
      /\ kept \in Seq(S) /\ Len(kept) = Cardinality(places)
      /\ \A k \in 1 .. Len(kept) : \E i \in places : kept[k] = seq[i] /\ RankIn(places, i) = k
      /\ \A i \in places : \E k \in 1 .. Len(kept) : kept[k] = seq[i]
  BY SelectInPlaces
<1>3. places \subseteq 1 .. Len(seq) /\ \A i \in 1 .. Len(seq) : i \in places <=> seq[i] \in T
  BY <1>1 DEF Places
<1>4. /\ Cardinality(places) <= Len(seq)
      /\ places # 1 .. Len(seq) => Cardinality(places) < Len(seq)
  <2>1. IsFiniteSet(1 .. Len(seq)) /\ Cardinality(1 .. Len(seq)) = Len(seq)
    BY <1>1, FS_Interval
  <2>2. Cardinality(places) <= Len(seq) /\ (Cardinality(places) = Len(seq) => places = 1 .. Len(seq))
    BY <1>3, <2>1, FS_Subset
  <2>. QED
    BY <1>1, <1>2, <2>2
<1>. HIDE DEF places, kept
<1>5. IsInjective(kept)
  <2>1. DOMAIN kept = 1 .. Len(kept)
    BY <1>2
  <2>2. ASSUME NEW a \in 1 .. Len(kept), NEW b \in 1 .. Len(kept), kept[a] = kept[b] PROVE a = b
    <3>1. PICK i \in places : kept[a] = seq[i] /\ RankIn(places, i) = a
      BY <1>2
    <3>2. PICK j \in places : kept[b] = seq[j] /\ RankIn(places, j) = b
      BY <1>2
    <3>3. i = j
      BY <1>1, <1>3, <2>2, <3>1, <3>2 DEF IsInjective
    <3>. QED
      BY <3>1, <3>2, <3>3
  <2>. QED
    BY <2>1, <2>2 DEF IsInjective
<1>6. Range(kept) = Range(seq) \cap T
  <2>1. DOMAIN kept = 1 .. Len(kept)
    BY <1>2
  <2>2. ASSUME NEW k \in 1 .. Len(kept) PROVE kept[k] \in T /\ \E i \in 1 .. Len(seq) : kept[k] = seq[i]
    BY <1>2, <1>3
  <2>3. ASSUME NEW i \in 1 .. Len(seq), seq[i] \in T PROVE \E k \in 1 .. Len(kept) : kept[k] = seq[i]
    BY <1>2, <1>3, <2>3
  <2>4. /\ \A x : x \in Range(kept) <=> \E k \in 1 .. Len(kept) : kept[k] = x
        /\ \A x : x \in Range(seq) <=> \E i \in 1 .. Len(seq) : seq[i] = x
    BY <1>1, <2>1 DEF Range
  <2>5. ASSUME NEW x PROVE x \in Range(kept) <=> x \in Range(seq) /\ x \in T
    BY <2>2, <2>3, <2>4
  <2>. QED
    BY <2>5
<1>7. (\E i \in 1 .. Len(seq) : seq[i] \notin T) => places # 1 .. Len(seq)
  BY <1>3
<1>. QED
  BY <1>2, <1>4, <1>5, <1>6, <1>7 DEF kept
-------------------------------------------------------------------------------
(* A list that grows by one, loses its head, or is read from its start.     *)

\* A list without repetitions grows by a member it does not have.
LEMMA AppendDistinct ==
    ASSUME NEW S, NEW seq \in Seq(S), IsInjective(seq), NEW x \in S, x \notin Range(seq)
    PROVE  /\ Append(seq, x) \in Seq(S)
           /\ IsInjective(Append(seq, x))
           /\ Range(Append(seq, x)) = Range(seq) \cup {x}
<1>. DEFINE longer == Append(seq, x)
<1>1. /\ Len(seq) \in Nat /\ DOMAIN seq = 1 .. Len(seq)
      /\ longer \in Seq(S) /\ DOMAIN longer = 1 .. Len(seq) + 1
      /\ \A i \in 1 .. Len(seq) : longer[i] = seq[i]
      /\ longer[Len(seq) + 1] = x
  OBVIOUS
<1>. HIDE DEF longer
<1>2. \A i \in 1 .. Len(seq) + 1 : i \in 1 .. Len(seq) \/ i = Len(seq) + 1
  BY <1>1
<1>3. \A i \in 1 .. Len(seq) : seq[i] # x
  BY <1>1 DEF Range
<1>4. IsInjective(longer)
  BY <1>1, <1>2, <1>3 DEF IsInjective
<1>5. Range(longer) = Range(seq) \cup {x}
  <2>1. 1 .. Len(seq) + 1 = (1 .. Len(seq)) \cup {Len(seq) + 1}
    BY <1>1
  <2>. QED
    BY <1>1, <2>1 DEF Range
<1>. QED
  BY <1>1, <1>4, <1>5 DEF longer

\* What follows the head of a list without repetitions is everything but the head.
LEMMA TailDistinct ==
    ASSUME NEW S, NEW seq \in Seq(S), IsInjective(seq), seq # <<>>
    PROVE  /\ Head(seq) \in Range(seq) /\ Head(seq) \in S
           /\ Tail(seq) \in Seq(S)
           /\ IsInjective(Tail(seq))
           /\ Range(Tail(seq)) = Range(seq) \ {Head(seq)}
           /\ Len(seq) > 1 => Tail(seq) # <<>>
<1>. DEFINE rest == Tail(seq)
<1>1. /\ Len(seq) \in Nat \ {0} /\ DOMAIN seq = 1 .. Len(seq)
      /\ rest \in Seq(S) /\ Len(rest) = Len(seq) - 1 /\ DOMAIN rest = 1 .. Len(seq) - 1
      /\ \A i \in 1 .. Len(seq) - 1 : rest[i] = seq[i + 1]
      /\ Head(seq) = seq[1]
  OBVIOUS
<1>. HIDE DEF rest
<1>2. \A i \in 1 .. Len(seq) - 1 : i + 1 \in 1 .. Len(seq) /\ i + 1 # 1
  BY <1>1
<1>3. \A i \in 1 .. Len(seq) : i # 1 => i - 1 \in 1 .. Len(seq) - 1 /\ (i - 1) + 1 = i
  BY <1>1
<1>4. IsInjective(rest)
  <2>1. ASSUME NEW i \in 1 .. Len(seq) - 1, NEW k \in 1 .. Len(seq) - 1, rest[i] = rest[k] PROVE i = k
    <3>1. i + 1 = k + 1
      BY <1>1, <1>2, <2>1 DEF IsInjective
    <3>. QED
      BY <1>1, <3>1
  <2>. QED
    BY <1>1, <2>1 DEF IsInjective
<1>5. Range(rest) = Range(seq) \ {Head(seq)}
  <2>1. ASSUME NEW y \in Range(rest) PROVE y \in Range(seq) /\ y # seq[1]
    <3>1. PICK i \in 1 .. Len(seq) - 1 : y = rest[i]
      BY <1>1 DEF Range
    <3>2. 1 \in 1 .. Len(seq)
      BY <1>1
    <3>. QED
      BY <1>1, <1>2, <3>1, <3>2 DEF Range, IsInjective
  <2>2. ASSUME NEW y \in Range(seq), y # seq[1] PROVE y \in Range(rest)
    <3>1. PICK i \in 1 .. Len(seq) : y = seq[i] /\ i # 1
      BY <1>1, <2>2 DEF Range
    <3>2. y = rest[i - 1] /\ i - 1 \in DOMAIN rest
      BY <1>1, <1>3, <3>1
    <3>. QED
      BY <3>2 DEF Range
  <2>. QED
    BY <1>1, <2>1, <2>2
<1>6. Head(seq) \in Range(seq) /\ Head(seq) \in S
  BY <1>1 DEF Range
<1>7. Len(seq) > 1 => rest # <<>>
  BY <1>1
<1>. QED
  BY <1>1, <1>4, <1>5, <1>6, <1>7 DEF rest

\* The first members of a list without repetitions.
LEMMA PrefixDistinct ==
    ASSUME NEW S, NEW seq \in Seq(S), IsInjective(seq), NEW n \in 1 .. Len(seq)
    PROVE  /\ SubSeq(seq, 1, n) \in Seq(S)
           /\ IsInjective(SubSeq(seq, 1, n))
           /\ Range(SubSeq(seq, 1, n)) \subseteq Range(seq)
           /\ SubSeq(seq, 1, n) # <<>>
<1>. DEFINE first == SubSeq(seq, 1, n)
<1>1. /\ Len(seq) \in Nat /\ DOMAIN seq = 1 .. Len(seq) /\ n \in Nat /\ n # 0
      /\ first \in Seq(S) /\ Len(first) = n /\ DOMAIN first = 1 .. n
      /\ \A i \in 1 .. n : first[i] = seq[i]
  OBVIOUS
<1>. HIDE DEF first
<1>2. \A i \in 1 .. n : i \in 1 .. Len(seq)
  OBVIOUS
<1>3. IsInjective(first)
  BY <1>1, <1>2 DEF IsInjective
<1>4. Range(first) \subseteq Range(seq)
  BY <1>1, <1>2 DEF Range
<1>5. first # <<>>
  BY <1>1
<1>. QED
  BY <1>1, <1>3, <1>4, <1>5 DEF first
===============================================================================
