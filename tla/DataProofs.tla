----------------------------- MODULE DataProofs -----------------------------
(***************************************************************************)
(* What the proofs about the components need of the data they are built    *)
(* from: the vectors of shared/core/src/fixed_vec.rs, sequences, lists     *)
(* without repetitions, and sums over finite sets.                         *)
(*                                                                         *)
(* The rank of a position kept by retain is an injection from K into       *)
(* 1..|K|, and so onto it: no induction is needed.  Facts about sums are   *)
(* proved by taking a smallest set for which they fail.                    *)
(***************************************************************************)
EXTENDS FixedVec, FiniteSetTheorems, FunctionTheorems, SequenceTheorems, WellFoundedInduction,
        TLAPS

\* A set of positions of a vector is finite.
LEMMA PositionsFinite ==
    ASSUME NEW n \in Nat, NEW K \in SUBSET (1 .. n)
    PROVE  IsFiniteSet(K) /\ Cardinality(K) \in Nat
<1>1. IsFiniteSet(1 .. n)
  BY FS_Interval
<1> QED
  BY <1>1, FS_Subset, FS_CardinalityType

\* Ranks lie between 1 and the number of positions.
LEMMA RankRange ==
    ASSUME NEW n \in Nat, NEW K \in SUBSET (1 .. n), NEW k \in K
    PROVE  Rank(K, k) \in 1 .. Cardinality(K)
<1> DEFINE Below == {j \in K : j <= k}
<1>1. IsFiniteSet(K) /\ Cardinality(K) \in Nat
  BY PositionsFinite
<1>2. Below \in SUBSET K
  OBVIOUS
<1>3. IsFiniteSet(Below) /\ Cardinality(Below) <= Cardinality(K)
  BY <1>1, <1>2, FS_Subset
<1>4. Cardinality(Below) \in Nat
  BY <1>3, FS_CardinalityType
<1>5. k \in Below
  OBVIOUS
<1>6. Cardinality(Below) # 0
  BY <1>3, <1>5, FS_EmptySet
<1> QED
  BY <1>1, <1>3, <1>4, <1>6 DEF Rank

\* A larger position has a larger rank.
LEMMA RankMonotonic ==
    ASSUME NEW n \in Nat, NEW K \in SUBSET (1 .. n), NEW k \in K, NEW l \in K, k < l
    PROVE  Rank(K, k) < Rank(K, l)
<1> DEFINE BelowK == {j \in K : j <= k}
           BelowL == {j \in K : j <= l}
<1>1. IsFiniteSet(K)
  BY PositionsFinite
<1>2. BelowL \in SUBSET K
  OBVIOUS
<1>3. IsFiniteSet(BelowL)
  BY <1>1, <1>2, FS_Subset
<1>4. BelowK \in SUBSET BelowL
  <2>1. K \subseteq Int
    OBVIOUS
  <2>2. \A j \in K : j <= k => j <= l
    BY <2>1
  <2> QED
    BY <2>2
<1>5. l \in BelowL /\ l \notin BelowK
  OBVIOUS
<1>6. BelowL # BelowK
  BY <1>5
<1>7. Cardinality(BelowK) <= Cardinality(BelowL) /\ Cardinality(BelowL) # Cardinality(BelowK)
  BY <1>3, <1>4, <1>6, FS_Subset
<1>8. Rank(K, k) \in 1 .. Cardinality(K) /\ Rank(K, l) \in 1 .. Cardinality(K)
  BY RankRange
<1>9. Cardinality(K) \in Nat
  BY PositionsFinite
<1> QED
  BY <1>7, <1>8, <1>9 DEF Rank

\* The i-th position exists, and it has rank i.
LEMMA NthProperties ==
    ASSUME NEW n \in Nat, NEW K \in SUBSET (1 .. n), NEW i \in 1 .. Cardinality(K)
    PROVE  Nth(K, i) \in K /\ Rank(K, Nth(K, i)) = i
<1> DEFINE T == 1 .. Cardinality(K)
           f == [k \in K |-> Rank(K, k)]
<1>1. IsFiniteSet(K) /\ Cardinality(K) \in Nat
  BY PositionsFinite
<1>2. f \in [K -> T]
  BY RankRange
<1>3. \A k, l \in K : Rank(K, k) = Rank(K, l) => k = l
  <2>1. \A k, l \in K : k < l => Rank(K, k) < Rank(K, l)
    BY RankMonotonic
  <2>2. \A k \in K : Rank(K, k) \in 1 .. Cardinality(K)
    BY RankRange
  <2>3. \A k \in K : Rank(K, k) \in Int
    BY <1>1, <2>2
  <2>4. \A k \in K : k \in Int
    OBVIOUS
  <2> QED
    BY <2>1, <2>3, <2>4
<1>4. f \in Injection(K, T)
  BY <1>2, <1>3 DEF Injection, IsInjective
<1>5. IsFiniteSet(T) /\ Cardinality(T) = Cardinality(K)
  BY <1>1, FS_Interval
<1>6. f \in Surjection(K, T)
  BY <1>1, <1>4, <1>5, FS_Injection
<1>7. \E k \in K : f[k] = i
  BY <1>6 DEF Surjection
<1>8. \E k \in K : Rank(K, k) = i
  BY <1>7
<1> QED
  BY <1>8 DEF Nth

\* Every position is the i-th one for some i.
LEMMA NthOnto ==
    ASSUME NEW n \in Nat, NEW K \in SUBSET (1 .. n), NEW k \in K
    PROVE  \E i \in 1 .. Cardinality(K) : Nth(K, i) = k
<1> DEFINE i == Rank(K, k)
           l == Nth(K, i)
<1>1. i \in 1 .. Cardinality(K)
  BY RankRange
<1> HIDE DEF i
<1>2. l \in K /\ Rank(K, l) = i
  BY <1>1, NthProperties
<1> HIDE DEF l
<1>3. \A a, b \in K : a < b => Rank(K, a) < Rank(K, b)
  BY RankMonotonic
<1>4. i \in Int /\ k \in Int /\ l \in Int
  BY <1>1, <1>2
<1>5. Rank(K, k) = i
  BY DEF i
<1>6. l = k
  BY <1>2, <1>3, <1>4, <1>5
<1> QED
  BY <1>1, <1>6 DEF l

\* retain keeps the chosen elements: as many as there are chosen positions,
\* each one at exactly one place and in the order they had.
THEOREM RetainProperties ==
    ASSUME NEW S, NEW s \in Seq(S), NEW K \in SUBSET (DOMAIN s)
    PROVE  /\ Retain(s, K) \in Seq(S)
           /\ Cardinality(K) \in Nat
           /\ Len(Retain(s, K)) = Cardinality(K)
           /\ DOMAIN Retain(s, K) = 1 .. Cardinality(K)
           /\ \A i \in 1 .. Cardinality(K) :
                 Nth(K, i) \in K /\ Retain(s, K)[i] = s[Nth(K, i)]
           /\ \A i, j \in 1 .. Cardinality(K) : Nth(K, i) = Nth(K, j) => i = j
           /\ \A i, j \in 1 .. Cardinality(K) : i < j => Nth(K, i) < Nth(K, j)
<1>1. Len(s) \in Nat /\ DOMAIN s = 1 .. Len(s)
  BY LenProperties
<1>2. K \in SUBSET (1 .. Len(s))
  BY <1>1
<1>3. Cardinality(K) \in Nat
  BY <1>1, <1>2, PositionsFinite
<1>4. \A i \in 1 .. Cardinality(K) : Nth(K, i) \in K /\ Rank(K, Nth(K, i)) = i
  BY <1>1, <1>2, NthProperties
<1>5. \A i \in 1 .. Cardinality(K) : s[Nth(K, i)] \in S
  BY <1>1, <1>2, <1>4, ElementOfSeq
<1>6. Retain(s, K) \in [1 .. Cardinality(K) -> S]
  BY <1>5 DEF Retain
<1>7. Retain(s, K) \in Seq(S) /\ Len(Retain(s, K)) = Cardinality(K)
  BY <1>3, <1>6
<1>8. \A i, j \in 1 .. Cardinality(K) : Nth(K, i) = Nth(K, j) => i = j
  BY <1>4
<1>9. ASSUME NEW i \in 1 .. Cardinality(K), NEW j \in 1 .. Cardinality(K), i < j
      PROVE  Nth(K, i) < Nth(K, j)
  <2> DEFINE a == Nth(K, i)
             b == Nth(K, j)
  <2>1. a \in K /\ b \in K /\ Rank(K, a) = i /\ Rank(K, b) = j
    BY <1>4
  <2> HIDE DEF a, b
  <2>2. a \in Int /\ b \in Int /\ i \in Int /\ j \in Int
    BY <1>1, <1>2, <1>3, <2>1
  <2>3. b < a => Rank(K, b) < Rank(K, a)
    BY <1>1, <1>2, <2>1, RankMonotonic
  <2>4. a < b
    BY <1>9, <2>1, <2>2, <2>3
  <2> QED
    BY <2>4 DEF a, b
<1> QED
  BY <1>3, <1>4, <1>7, <1>8, <1>9 DEF Retain

\* Splitting a vector with retain loses no element: the lengths of the two
\* parts add up.
THEOREM RetainSplits ==
    ASSUME NEW S, NEW s \in Seq(S), NEW K \in SUBSET (DOMAIN s)
    PROVE  Len(Retain(s, K)) + Len(Retain(s, (DOMAIN s) \ K)) = Len(s)
<1>1. Len(s) \in Nat /\ DOMAIN s = 1 .. Len(s)
  BY LenProperties
<1>2. IsFiniteSet(DOMAIN s) /\ Cardinality(DOMAIN s) = Len(s)
  <2>1. IsFiniteSet(1 .. Len(s)) /\ Cardinality(1 .. Len(s)) = Len(s)
    <3>1. 1 \in Int /\ Len(s) \in Int
      BY <1>1
    <3>2. /\ IsFiniteSet(1 .. Len(s))
          /\ Cardinality(1 .. Len(s)) = IF 1 > Len(s) THEN 0 ELSE Len(s) - 1 + 1
      BY <3>1, FS_Interval, Zenon
    <3> QED
      BY <1>1, <3>2
  <2> QED
    BY <1>1, <2>1
<1>3. (DOMAIN s) \cap K = K
  OBVIOUS
<1>4. Cardinality((DOMAIN s) \ K) = Len(s) - Cardinality(K)
  <2>1. Cardinality((DOMAIN s) \ K) = Cardinality(DOMAIN s) - Cardinality((DOMAIN s) \cap K)
    BY ONLY <1>2, FS_Difference, Zenon
  <2> QED BY ONLY <1>2, <1>3, <2>1
<1>5. Cardinality(K) \in Nat /\ Len(Retain(s, K)) = Cardinality(K)
  BY RetainProperties
<1>6. (DOMAIN s) \ K \in SUBSET (DOMAIN s)
  OBVIOUS
<1>7. Len(Retain(s, (DOMAIN s) \ K)) = Cardinality((DOMAIN s) \ K)
  BY <1>6, RetainProperties
<1> QED
  BY <1>1, <1>4, <1>5, <1>7

-----------------------------------------------------------------------------
(* Sequences. *)

\* The rest of a sequence: its elements move by one place.
LEMMA TailOfSequence ==
  ASSUME NEW S, NEW s \in Seq(S), s # <<>>
  PROVE  /\ Head(s) = s[1] /\ Head(s) \in S /\ 1 \in DOMAIN s
         /\ Tail(s) \in Seq(S) /\ Len(Tail(s)) = Len(s) - 1
         /\ \A i \in DOMAIN Tail(s) :
               i \in Nat \ {0} /\ i + 1 \in DOMAIN s /\ Tail(s)[i] = s[i + 1]
         /\ \A i \in DOMAIN s : i = 1 \/ (i - 1 \in DOMAIN Tail(s) /\ Tail(s)[i - 1] = s[i])
OBVIOUS

\* A sequence with one more element.
LEMMA AppendToSequence ==
  ASSUME NEW S, NEW s \in Seq(S), NEW x \in S
  PROVE  /\ Append(s, x) \in Seq(S) /\ Len(Append(s, x)) = Len(s) + 1
         /\ DOMAIN Append(s, x) = 1 .. Len(s) + 1
         /\ \A i \in 1 .. Len(s) : Append(s, x)[i] = s[i]
         /\ Append(s, x)[Len(s) + 1] = x
OBVIOUS

\* The elements of a sequence.
LEMMA Elements ==
  ASSUME NEW S, NEW s \in Seq(S)
  PROVE  Len(s) \in Nat /\ DOMAIN s = 1 .. Len(s) /\ \A i \in DOMAIN s : s[i] \in S
OBVIOUS

\* How many elements of s are in T.
Count(s, T) == Cardinality({i \in DOMAIN s : s[i] \in T})

\* The positions of a sequence are finite in number.
LEMMA CountType ==
  ASSUME NEW S, NEW s \in Seq(S), NEW T
  PROVE  /\ IsFiniteSet({i \in DOMAIN s : s[i] \in T}) /\ Count(s, T) \in Nat
<1>1. Len(s) \in Nat /\ {i \in DOMAIN s : s[i] \in T} \in SUBSET (1 .. Len(s))
  BY Elements
<1>2. QED
  BY <1>1, PositionsFinite DEF Count

\* One more element.
LEMMA CountAppended ==
  ASSUME NEW S, NEW s \in Seq(S), NEW x \in S, NEW T
  PROVE  Count(Append(s, x), T) = Count(s, T) + (IF x \in T THEN 1 ELSE 0)
<1> DEFINE A == {i \in DOMAIN s : s[i] \in T}
           B == {i \in DOMAIN Append(s, x) : Append(s, x)[i] \in T}
<1>1. /\ Len(s) \in Nat /\ DOMAIN s = 1 .. Len(s) /\ DOMAIN Append(s, x) = 1 .. Len(s) + 1
      /\ \A i \in 1 .. Len(s) : Append(s, x)[i] = s[i]
      /\ Append(s, x)[Len(s) + 1] = x
  BY Elements, AppendToSequence
<1>2. Len(s) + 1 \notin A /\ B = IF x \in T THEN A \union {Len(s) + 1} ELSE A
  BY <1>1
<1>3. IsFiniteSet(A) /\ Cardinality(A) \in Nat
  BY CountType DEF Count
<1> HIDE DEF A, B
<1>4. Cardinality(B) = Cardinality(A) + (IF x \in T THEN 1 ELSE 0)
  <2>1. CASE x \in T
    <3>1. B = A \union {Len(s) + 1} /\ Len(s) + 1 \notin A
      BY <1>2, <2>1
    <3>2. Cardinality(B) = Cardinality(A) + 1
      BY <1>3, <3>1, FS_AddElement
    <3>3. QED
      BY <2>1, <3>2
  <2>2. CASE x \notin T
    <3>1. B = A
      BY <1>2, <2>2
    <3>2. QED
      BY <1>3, <2>2, <3>1
  <2>3. QED
    BY <2>1, <2>2
<1>5. QED
  BY <1>4 DEF Count, A, B

\* The first element gone.
LEMMA CountTail ==
  ASSUME NEW S, NEW s \in Seq(S), s # <<>>, NEW T
  PROVE  Count(s, T) = Count(Tail(s), T) + (IF Head(s) \in T THEN 1 ELSE 0)
<1> DEFINE A == {i \in DOMAIN s : s[i] \in T}
           B == {i \in DOMAIN Tail(s) : Tail(s)[i] \in T}
           f == [i \in B |-> i + 1]
<1>1. /\ Head(s) = s[1] /\ Head(s) \in S /\ 1 \in DOMAIN s
      /\ Tail(s) \in Seq(S) /\ Len(Tail(s)) = Len(s) - 1
      /\ \A i \in DOMAIN Tail(s) :
               i \in Nat \ {0} /\ i + 1 \in DOMAIN s /\ Tail(s)[i] = s[i + 1]
      /\ \A i \in DOMAIN s : i = 1 \/ (i - 1 \in DOMAIN Tail(s) /\ Tail(s)[i - 1] = s[i])
      /\ \A i \in DOMAIN s : i \in Nat
  BY TailOfSequence
<1>2. \A i \in B : i \in Nat \ {0} /\ i + 1 \in A \ {1}
  BY <1>1
<1>3. \A i \in A \ {1} : i \in Nat /\ i - 1 \in B
  BY <1>1
<1>4. IsFiniteSet(A) /\ Cardinality(A) \in Nat /\ IsFiniteSet(B) /\ Cardinality(B) \in Nat
  BY <1>1, CountType DEF Count
<1>5. 1 \in A <=> Head(s) \in T
  BY <1>1
<1> HIDE DEF A, B
<1>6. f \in Bijection(B, A \ {1})
  <2>1. f \in [B -> A \ {1}] /\ \A i, j \in B : f[i] = f[j] => i = j
    BY <1>2
  <2>2. \A j \in A \ {1} : \E i \in B : f[i] = j
    <3> TAKE j \in A \ {1}
    <3>1. j - 1 \in B /\ f[j - 1] = j
      BY <1>3
    <3>2. QED
      BY <3>1
  <2>3. QED
    BY <2>1, <2>2 DEF Bijection, Injection, Surjection, IsInjective
<1>7. Cardinality(A \ {1}) = Cardinality(B)
  BY <1>4, <1>6, FS_Bijection DEF ExistsBijection
<1>8. Cardinality(A) = Cardinality(B) + (IF 1 \in A THEN 1 ELSE 0)
  <2>1. CASE 1 \in A
    <3>1. Cardinality(A \ {1}) = Cardinality(A) - 1
      BY <1>4, <2>1, FS_RemoveElement
    <3>2. QED
      BY <1>4, <1>7, <2>1, <3>1
  <2>2. CASE 1 \notin A
    <3>1. Cardinality(A \ {1}) = Cardinality(A)
      BY <1>4, <2>2, FS_RemoveElement
    <3>2. QED
      BY <1>4, <1>7, <2>2, <3>1
  <2>3. QED
    BY <2>1, <2>2
<1>9. QED
  BY <1>5, <1>8 DEF Count, A, B

\* Sequences without repetitions, as lists of peers are.
NoRepeat(s) == \A i, j \in DOMAIN s : s[i] = s[j] => i = j
In(s, x) == \E i \in DOMAIN s : s[i] = x

\* Without its head.
LEMMA TailOfList ==
  ASSUME NEW S, NEW s \in Seq(S), NoRepeat(s), s # <<>>
  PROVE  /\ Tail(s) \in Seq(S) /\ NoRepeat(Tail(s)) /\ Head(s) \in S
         /\ \A x \in S : In(s, x) => x = Head(s) \/ In(Tail(s), x)
<1>1. /\ Head(s) = s[1] /\ Head(s) \in S /\ 1 \in DOMAIN s
      /\ Tail(s) \in Seq(S) /\ Len(Tail(s)) = Len(s) - 1
      /\ \A i \in DOMAIN Tail(s) :
               i \in Nat \ {0} /\ i + 1 \in DOMAIN s /\ Tail(s)[i] = s[i + 1]
      /\ \A i \in DOMAIN s : i = 1 \/ (i - 1 \in DOMAIN Tail(s) /\ Tail(s)[i - 1] = s[i])
  BY TailOfSequence
<1>2. NoRepeat(Tail(s))
  <2> SUFFICES ASSUME NEW i \in DOMAIN Tail(s), NEW j \in DOMAIN Tail(s), Tail(s)[i] = Tail(s)[j]
               PROVE  i = j
    BY DEF NoRepeat
  <2>1. i + 1 = j + 1
    BY <1>1 DEF NoRepeat
  <2>2. QED
    BY <1>1, <2>1
<1>3. \A x \in S : In(s, x) => x = Head(s) \/ In(Tail(s), x)
  BY <1>1 DEF In
<1>4. QED
  BY <1>1, <1>2, <1>3

\* With an element that was not in it.
LEMMA AppendToList ==
  ASSUME NEW S, NEW s \in Seq(S), NoRepeat(s), NEW y \in S, ~In(s, y)
  PROVE  /\ Append(s, y) \in Seq(S) /\ NoRepeat(Append(s, y)) /\ In(Append(s, y), y)
         /\ \A x \in S : In(s, x) => In(Append(s, y), x)
<1>1. /\ Append(s, y) \in Seq(S) /\ DOMAIN Append(s, y) = 1 .. Len(s) + 1
      /\ \A i \in 1 .. Len(s) : Append(s, y)[i] = s[i]
      /\ Append(s, y)[Len(s) + 1] = y
      /\ DOMAIN s = 1 .. Len(s) /\ Len(s) \in Nat
  BY AppendToSequence, Elements
<1>2. Len(s) + 1 \in DOMAIN Append(s, y) /\ \A i \in DOMAIN s : i \in DOMAIN Append(s, y)
  BY <1>1
<1>3. \A i \in DOMAIN Append(s, y) : i \in DOMAIN s \/ i = Len(s) + 1
  BY <1>1
<1>4. NoRepeat(Append(s, y))
  BY <1>1, <1>3 DEF NoRepeat, In
<1>5. In(Append(s, y), y) /\ \A x \in S : In(s, x) => In(Append(s, y), x)
  BY <1>1, <1>2 DEF In
<1>6. QED
  BY <1>1, <1>4, <1>5

\* With one element removed by retain.
LEMMA RetainInList ==
  ASSUME NEW S, NEW s \in Seq(S), NoRepeat(s), NEW y \in S
  PROVE  LET r == Retain(s, {i \in DOMAIN s : s[i] # y})
         IN  /\ r \in Seq(S) /\ NoRepeat(r)
             /\ \A x \in S : x # y /\ In(s, x) => In(r, x)
<1> DEFINE K == {i \in DOMAIN s : s[i] # y}
           r == Retain(s, K)
<1>1. K \in SUBSET (DOMAIN s)
  OBVIOUS
<1> HIDE DEF K
<1>2. /\ r \in Seq(S) /\ Cardinality(K) \in Nat /\ DOMAIN r = 1 .. Cardinality(K)
      /\ \A i \in 1 .. Cardinality(K) : Nth(K, i) \in K /\ r[i] = s[Nth(K, i)]
      /\ \A i, j \in 1 .. Cardinality(K) : Nth(K, i) = Nth(K, j) => i = j
  BY <1>1, RetainProperties
<1>3. NoRepeat(r)
  BY <1>1, <1>2 DEF NoRepeat
<1>4. ASSUME NEW x \in S, x # y, In(s, x) PROVE In(r, x)
  <2>1. PICK k \in DOMAIN s : s[k] = x
    BY <1>4 DEF In
  <2>2. k \in K
    BY <1>4, <2>1 DEF K
  <2>3. PICK i \in 1 .. Cardinality(K) : Nth(K, i) = k
    <3>1. Len(s) \in Nat /\ K \in SUBSET (1 .. Len(s))
      BY <1>1, Elements
    <3>2. PICK i \in 1 .. Cardinality(K) : i = Rank(K, k)
      BY <2>2, <3>1, RankRange
    <3>3. Nth(K, i) \in K /\ Rank(K, Nth(K, i)) = i
      BY <3>1, <3>2, NthProperties
    <3>4. ASSUME NEW m \in K, Rank(K, m) = i PROVE ~(m < k) /\ ~(k < m)
      <4>1. m < k => Rank(K, m) < Rank(K, k)
        BY <2>2, <3>1, RankMonotonic
      <4>2. k < m => Rank(K, k) < Rank(K, m)
        BY <2>2, <3>1, RankMonotonic
      <4>3. QED
        BY <3>2, <3>4, <4>1, <4>2
    <3>5. Nth(K, i) = k
      <4>1. ~(Nth(K, i) < k) /\ ~(k < Nth(K, i))
        BY <3>3, <3>4
      <4>2. Nth(K, i) \in Int /\ k \in Int
        BY <2>2, <3>1, <3>3
      <4>3. QED
        BY <4>1, <4>2
    <3>6. QED
      BY <3>2, <3>5
  <2>4. QED
    BY <1>2, <2>1, <2>3 DEF In
<1>5. QED
  BY <1>2, <1>3, <1>4 DEF K

\* A function on 1 .. n is a sequence.
LEMMA FunctionToSeq ==
  ASSUME NEW S, NEW n \in Nat, NEW f, f = [i \in 1 .. n |-> f[i]], \A i \in 1 .. n : f[i] \in S
  PROVE  f \in Seq(S) /\ Len(f) = n
OBVIOUS

\* Two sequences one after the other.
LEMMA Concatenation ==
  ASSUME NEW S, NEW s \in Seq(S), NEW t \in Seq(S)
  PROVE  /\ s \o t \in Seq(S) /\ DOMAIN (s \o t) = 1 .. Len(s) + Len(t)
         /\ \A i \in 1 .. Len(s) : (s \o t)[i] = s[i]
         /\ \A i \in Len(s) + 1 .. Len(s) + Len(t) : (s \o t)[i] = t[i - Len(s)]
OBVIOUS

-----------------------------------------------------------------------------
(* Induction over finite sets, by a smallest counterexample. *)

\* Some naturals have a least one.
LEMMA LeastNatural ==
  ASSUME NEW T \in SUBSET Nat, T # {}
  PROVE  \E n \in T : \A m \in T : n <= m
<1>1. PICK n \in T : \A m \in T : ~ (<<m, n>> \in OpToRel(<, Nat))
  BY WFMin, NatLessThanWellFounded
<1>2. \A m \in T : ~ (m < n)
  BY <1>1 DEF OpToRel
<1>3. QED
  BY <1>2

First(s) == CHOOSE x \in s : TRUE

\* The partial sums of f, as the folds of the community modules define them.
Sums(f, D) ==
  CHOOSE iter : iter = [s \in SUBSET D |->
     IF s = {} THEN 0 ELSE f[First(s)] + iter[s \ {First(s)}]]

\* A sum is the partial sum over the whole domain.
LEMMA SumIsLastSum ==
  ASSUME NEW f, NEW D
  PROVE  SumFunctionOnSet(f, D) = Sums(f, D)[D]
BY DEF SumFunctionOnSet, FoldFunctionOnSet, MapThenFoldSet, Sums, First

UpTo(D, n) == {s \in SUBSET D : Cardinality(s) <= n}

Recurs(g, f, D, n) ==
  g = [s \in UpTo(D, n) |-> IF s = {} THEN 0 ELSE f[First(s)] + g[s \ {First(s)}]]

\* One element taken from a finite set leaves a smaller one.
LEMMA Smaller ==
  ASSUME NEW D, IsFiniteSet(D), NEW s \in SUBSET D, s # {}
  PROVE  /\ First(s) \in s
         /\ IsFiniteSet(s) /\ Cardinality(s) \in Nat \ {0}
         /\ \A x \in s : /\ s \ {x} \in SUBSET D
                         /\ IsFiniteSet(s \ {x})
                         /\ Cardinality(s \ {x}) = Cardinality(s) - 1
<1>1. First(s) \in s
  BY DEF First
<1>2. IsFiniteSet(s) /\ Cardinality(s) \in Nat /\ Cardinality(s) # 0
  BY FS_Subset, FS_CardinalityType, FS_EmptySet
<1>3. QED
  BY <1>1, <1>2, FS_RemoveElement

\* Among some subsets of a finite set there is one from which no element can be taken.
LEMMA MinimalSubset ==
  ASSUME NEW D, IsFiniteSet(D), NEW T \in SUBSET SUBSET D, T # {}
  PROVE  \E s \in T : \A x \in s : s \ {x} \notin T
<1> DEFINE N == {Cardinality(s) : s \in T}
<1>1. \A s \in T : IsFiniteSet(s) /\ Cardinality(s) \in Nat
  BY FS_Subset, FS_CardinalityType
<1>2. N \in SUBSET Nat /\ N # {}
  BY <1>1
<1> HIDE DEF N
<1>3. PICK n \in N : \A m \in N : n <= m
  BY <1>2, LeastNatural
<1>4. PICK s \in T : Cardinality(s) = n
  BY <1>3 DEF N
<1>5. ASSUME NEW x \in s, s \ {x} \in T PROVE FALSE
  <2>1. s # {} /\ s \in SUBSET D
    BY <1>5
  <2>2. Cardinality(s \ {x}) = n - 1 /\ n \in Nat
    BY <2>1, <1>4, Smaller
  <2>3. n <= Cardinality(s \ {x})
    BY <1>3, <1>5 DEF N
  <2>4. QED
    BY <2>2, <2>3
<1>6. QED
  BY <1>5

\* The partial sums exist on the subsets of every size.
LEMMA SumsExist ==
  ASSUME NEW f, NEW D, IsFiniteSet(D)
  PROVE  \A n \in Nat : \E g : Recurs(g, f, D, n)
<1> DEFINE Bad == {n \in Nat : ~ \E g : Recurs(g, f, D, n)}
<1> SUFFICES ASSUME Bad # {} PROVE FALSE
  OBVIOUS
<1>1. PICK n \in Bad : \A m \in Bad : n <= m
  <2> Bad \in SUBSET Nat
    OBVIOUS
  <2> HIDE DEF Bad
  <2> QED
    BY LeastNatural
<1>2. CASE n = 0
  <2> DEFINE g == [s \in UpTo(D, 0) |-> 0]
  <2>1. \A s \in UpTo(D, 0) : s = {}
    BY FS_Subset, FS_EmptySet, FS_CardinalityType DEF UpTo
  <2>2. Recurs(g, f, D, 0)
    BY <2>1 DEF Recurs
  <2>3. QED
    BY <2>2, <1>2, <1>1
<1>3. CASE n # 0
  <2>1. n - 1 \in Nat /\ n - 1 \notin Bad /\ n \in Nat
    BY <1>1, <1>3
  <2>2. PICK h : Recurs(h, f, D, n - 1)
    BY <2>1
  <2> DEFINE g == [s \in UpTo(D, n) |->
                     IF s = {} THEN 0 ELSE f[First(s)] + h[s \ {First(s)}]]
  <2>3. ASSUME NEW s \in UpTo(D, n), s # {}
        PROVE  g[s \ {First(s)}] = h[s \ {First(s)}]
    <3> DEFINE t == s \ {First(s)}
    <3>1. t \in UpTo(D, n - 1) /\ t \in UpTo(D, n)
      BY <2>1, <2>3, Smaller DEF UpTo
    <3>2. h[t] = IF t = {} THEN 0 ELSE f[First(t)] + h[t \ {First(t)}]
      BY <3>1, <2>2 DEF Recurs
    <3>3. g[t] = IF t = {} THEN 0 ELSE f[First(t)] + h[t \ {First(t)}]
      BY <3>1
    <3>4. QED
      BY <3>2, <3>3
  <2>4. Recurs(g, f, D, n)
    <3>1. \A s \in UpTo(D, n) : g[s] = IF s = {} THEN 0 ELSE f[First(s)] + g[s \ {First(s)}]
      BY <2>3
    <3> HIDE DEF g
    <3>2. g = [s \in UpTo(D, n) |-> g[s]]
      BY DEF g
    <3>3. QED
      BY <3>1, <3>2 DEF Recurs
  <2>5. QED
    BY <2>4, <2>1, <1>1
<1>4. QED
  BY <1>2, <1>3

\* The partial sums satisfy the recursion.
LEMMA SumsUnfold ==
  ASSUME NEW f, NEW D, IsFiniteSet(D)
  PROVE  \A s \in SUBSET D :
            Sums(f, D)[s] = IF s = {} THEN 0 ELSE f[First(s)] + Sums(f, D)[s \ {First(s)}]
<1>1. Cardinality(D) \in Nat
  BY FS_CardinalityType
<1>2. UpTo(D, Cardinality(D)) = SUBSET D
  BY FS_Subset DEF UpTo
<1>3. PICK g : Recurs(g, f, D, Cardinality(D))
  BY <1>1, SumsExist
<1>4. Recurs(Sums(f, D), f, D, Cardinality(D))
  BY <1>2, <1>3 DEF Recurs, Sums
<1>5. QED
  BY <1>2, <1>4 DEF Recurs

\* The same for a set that is not empty.
LEMMA SumsFirst ==
  ASSUME NEW f, NEW D, IsFiniteSet(D), NEW s \in SUBSET D, s # {}
  PROVE  Sums(f, D)[s] = f[First(s)] + Sums(f, D)[s \ {First(s)}]
BY SumsUnfold

\* Sums of integers are integers, and any element may be taken out first.
LEMMA SumsType ==
  ASSUME NEW D, IsFiniteSet(D), NEW f \in [D -> Int]
  PROVE  \A s \in SUBSET D : Sums(f, D)[s] \in Int
<1> DEFINE Bad == {s \in SUBSET D : Sums(f, D)[s] \notin Int}
<1> SUFFICES ASSUME Bad # {} PROVE FALSE
  OBVIOUS
<1>1. PICK s \in Bad : \A x \in s : s \ {x} \notin Bad
  <2> Bad \in SUBSET SUBSET D
    OBVIOUS
  <2> HIDE DEF Bad
  <2> QED
    BY MinimalSubset
<1>2. s # {}
  BY SumsUnfold
<1>3. s \ {First(s)} \notin Bad
  BY <1>1, <1>2, Smaller
<1>4. QED
  BY <1>2, <1>3, SumsUnfold, Smaller

\* Any element may be the one that is added last.
LEMMA SumsRemove ==
  ASSUME NEW D, IsFiniteSet(D), NEW f \in [D -> Int]
  PROVE  \A s \in SUBSET D : \A x \in s : Sums(f, D)[s] = f[x] + Sums(f, D)[s \ {x}]
<1> DEFINE Bad == {s \in SUBSET D : \E x \in s : Sums(f, D)[s] # f[x] + Sums(f, D)[s \ {x}]}
<1> SUFFICES ASSUME Bad # {} PROVE FALSE
  OBVIOUS
<1>1. PICK s \in Bad : \A x \in s : s \ {x} \notin Bad
  <2> Bad \in SUBSET SUBSET D
    OBVIOUS
  <2> HIDE DEF Bad
  <2> QED
    BY MinimalSubset
<1>2. PICK x \in s : Sums(f, D)[s] # f[x] + Sums(f, D)[s \ {x}]
  OBVIOUS
<1> DEFINE c == First(s)
<1>3. c \in s /\ s \ {c} \in SUBSET D /\ s \ {x} \in SUBSET D
  BY <1>2, Smaller
<1>4. Sums(f, D)[s] = f[c] + Sums(f, D)[s \ {c}]
  BY <1>2, SumsUnfold
<1>5. c # x
  BY <1>2, <1>4
<1>6. s \ {c} \notin Bad /\ s \ {x} \notin Bad
  BY <1>1, <1>2, <1>3, Smaller
<1>7. x \in s \ {c} /\ c \in s \ {x}
  BY <1>3, <1>5
<1>8. Sums(f, D)[s \ {c}] = f[x] + Sums(f, D)[(s \ {c}) \ {x}]
  BY <1>3, <1>6, <1>7
<1>9. Sums(f, D)[s \ {x}] = f[c] + Sums(f, D)[(s \ {x}) \ {c}]
  BY <1>3, <1>6, <1>7
<1>10. (s \ {c}) \ {x} = (s \ {x}) \ {c} /\ (s \ {c}) \ {x} \in SUBSET D
  OBVIOUS
<1>11. f[c] \in Int /\ f[x] \in Int /\ Sums(f, D)[(s \ {c}) \ {x}] \in Int
  BY <1>3, <1>10, SumsType
<1>12. \A p, q, w \in Int : p + (q + w) = q + (p + w)
  OBVIOUS
<1> DEFINE w == Sums(f, D)[(s \ {c}) \ {x}]
<1>13. Sums(f, D)[s] = f[c] + (f[x] + w)
  BY <1>4, <1>8
<1>14. Sums(f, D)[s \ {x}] = f[c] + w
  BY <1>9, <1>10
<1>15. f[c] + (f[x] + w) = f[x] + (f[c] + w)
  BY <1>11, <1>12
<1> HIDE DEF Bad, c, w
<1>16. QED
  BY <1>2, <1>13, <1>14, <1>15

\* Functions that agree have the same sums.
LEMMA SumsAgree ==
  ASSUME NEW D, IsFiniteSet(D), NEW f, NEW g, NEW E \in SUBSET D, \A x \in E : f[x] = g[x]
  PROVE  \A s \in SUBSET E : Sums(f, D)[s] = Sums(g, D)[s]
<1> DEFINE Bad == {s \in SUBSET E : Sums(f, D)[s] # Sums(g, D)[s]}
<1> SUFFICES ASSUME Bad # {} PROVE FALSE
  OBVIOUS
<1>1. PICK s \in Bad : \A x \in s : s \ {x} \notin Bad
  <2> Bad \in SUBSET SUBSET D
    OBVIOUS
  <2> HIDE DEF Bad
  <2> QED
    BY MinimalSubset
<1>2. s \in SUBSET D /\ s \in SUBSET E
  OBVIOUS
<1>3. s # {}
  BY <1>2, SumsUnfold
<1>4. First(s) \in E /\ s \ {First(s)} \in SUBSET E /\ s \ {First(s)} \notin Bad
  BY <1>1, <1>2, <1>3, Smaller
<1>5. QED
  BY <1>2, <1>3, <1>4, SumsUnfold

\* The sum of integers is one.
LEMMA SumType ==
  ASSUME NEW D, IsFiniteSet(D), NEW f \in [D -> Int]
  PROVE  SumFunction(f) \in Int
BY SumIsLastSum, SumsType DEF SumFunction

\* With one value changed, the sum changes by as much.
LEMMA SumUpdate ==
  ASSUME NEW D, IsFiniteSet(D), NEW f \in [D -> Int], NEW g \in [D -> Int], NEW u \in D,
         \A x \in D \ {u} : f[x] = g[x]
  PROVE  SumFunction(g) = SumFunction(f) + g[u] - f[u]
<1>1. SumFunction(f) = Sums(f, D)[D] /\ SumFunction(g) = Sums(g, D)[D]
  BY SumIsLastSum DEF SumFunction
<1>2. Sums(f, D)[D] = f[u] + Sums(f, D)[D \ {u}] /\ Sums(g, D)[D] = g[u] + Sums(g, D)[D \ {u}]
  BY SumsRemove
<1>3. Sums(f, D)[D \ {u}] = Sums(g, D)[D \ {u}]
  BY SumsAgree
<1>4. Sums(f, D)[D \ {u}] \in Int
  BY SumsType
<1>5. QED
  BY <1>1, <1>2, <1>3, <1>4

\* The sum of zeros.
LEMMA SumZero ==
  ASSUME NEW D, IsFiniteSet(D), NEW f \in [D -> Int], \A x \in D : f[x] = 0
  PROVE  SumFunction(f) = 0
<1> DEFINE Bad == {s \in SUBSET D : Sums(f, D)[s] # 0}
<1>1. SumFunction(f) = Sums(f, D)[D]
  BY SumIsLastSum DEF SumFunction
<1> SUFFICES ASSUME Bad # {} PROVE FALSE
  BY <1>1
<1>2. PICK s \in Bad : \A x \in s : s \ {x} \notin Bad
  <2> Bad \in SUBSET SUBSET D
    OBVIOUS
  <2> HIDE DEF Bad
  <2> QED
    BY MinimalSubset
<1>3. s # {}
  BY SumsUnfold
<1>4. s \ {First(s)} \notin Bad /\ First(s) \in D
  BY <1>2, <1>3, Smaller
<1>5. Sums(f, D)[s] = f[First(s)] + Sums(f, D)[s \ {First(s)}]
  BY <1>3, SumsUnfold
<1>6. Sums(f, D)[s \ {First(s)}] = 0 /\ f[First(s)] = 0
  BY <1>4
<1>7. QED
  BY <1>5, <1>6

\* A weighted inequality between all values holds of the sums.
LEMMA SumScaled ==
  ASSUME NEW D, IsFiniteSet(D), NEW f \in [D -> Int], NEW g \in [D -> Int],
         NEW a \in Int, NEW b \in Int
  PROVE  (\A x \in D : a * f[x] <= b * g[x]) => a * SumFunction(f) <= b * SumFunction(g)
<1> DEFINE Bad == {s \in SUBSET D : ~ (a * Sums(f, D)[s] <= b * Sums(g, D)[s])}
<1>1. SumFunction(f) = Sums(f, D)[D] /\ SumFunction(g) = Sums(g, D)[D]
  BY SumIsLastSum DEF SumFunction
<1>2. \A s \in SUBSET D : s # {} =>
         /\ Sums(f, D)[s] = f[First(s)] + Sums(f, D)[s \ {First(s)}]
         /\ Sums(g, D)[s] = g[First(s)] + Sums(g, D)[s \ {First(s)}]
  <2> HIDE DEF Bad
  <2> TAKE s \in SUBSET D
  <2> HAVE s # {}
  <2>1. Sums(f, D)[s] = f[First(s)] + Sums(f, D)[s \ {First(s)}]
    BY SumsFirst
  <2>2. Sums(g, D)[s] = g[First(s)] + Sums(g, D)[s \ {First(s)}]
    BY SumsFirst
  <2>3. QED
    BY <2>1, <2>2
<1>3. Sums(f, D)[{}] = 0 /\ Sums(g, D)[{}] = 0 /\ {} \in SUBSET D
  BY SumsUnfold
<1>4. \A s \in SUBSET D : Sums(f, D)[s] \in Int /\ Sums(g, D)[s] \in Int
  BY SumsType
<1>5. \A p, q, r, w \in Int : a * p <= b * q /\ a * r <= b * w => a * (r + p) <= b * (w + q)
  OBVIOUS
<1>6. a * 0 <= b * 0
  OBVIOUS
<1>7. ASSUME \A x \in D : a * f[x] <= b * g[x], Bad # {} PROVE FALSE
  <2>1. PICK s \in Bad : \A x \in s : s \ {x} \notin Bad
    <3> Bad \in SUBSET SUBSET D
      OBVIOUS
    <3> HIDE DEF Bad
    <3> QED
      BY <1>7, MinimalSubset
  <2>2. s \in SUBSET D /\ ~ (a * Sums(f, D)[s] <= b * Sums(g, D)[s])
    OBVIOUS
  <2>3. s # {}
    BY <1>3, <1>6, <2>2
  <2> DEFINE c == First(s)  t == s \ {First(s)}
  <2>4. t \in SUBSET D /\ c \in D /\ t \notin Bad
    BY <2>1, <2>2, <2>3, Smaller
  <2>5. a * Sums(f, D)[t] <= b * Sums(g, D)[t]
    BY <2>4
  <2>6. a * f[c] <= b * g[c] /\ f[c] \in Int /\ g[c] \in Int
    BY <1>7, <2>4
  <2>7. a * (f[c] + Sums(f, D)[t]) <= b * (g[c] + Sums(g, D)[t])
    BY <1>4, <1>5, <2>4, <2>5, <2>6
  <2>8. QED
    BY <1>2, <2>2, <2>3, <2>7
<1>8. QED
  BY <1>1, <1>7

\* The sum of differences is the difference of the sums.
LEMMA SumMinus ==
  ASSUME NEW D, IsFiniteSet(D), NEW f \in [D -> Int], NEW g \in [D -> Int], NEW h \in [D -> Int],
         \A x \in D : h[x] = f[x] - g[x]
  PROVE  SumFunction(h) = SumFunction(f) - SumFunction(g)
<1> DEFINE Bad == {s \in SUBSET D : Sums(h, D)[s] # Sums(f, D)[s] - Sums(g, D)[s]}
<1>1. SumFunction(f) = Sums(f, D)[D] /\ SumFunction(g) = Sums(g, D)[D] /\ SumFunction(h) = Sums(h, D)[D]
  BY SumIsLastSum DEF SumFunction
<1> SUFFICES ASSUME Bad # {} PROVE FALSE
  BY <1>1
<1>2. PICK s \in Bad : \A x \in s : s \ {x} \notin Bad
  <2> Bad \in SUBSET SUBSET D
    OBVIOUS
  <2> HIDE DEF Bad
  <2> QED
    BY MinimalSubset
<1>3. s # {}
  <2> SUFFICES ASSUME s = {} PROVE FALSE
    OBVIOUS
  <2>1. Sums(f, D)[s] = 0
    BY SumsUnfold
  <2>2. Sums(g, D)[s] = 0
    BY SumsUnfold
  <2>3. Sums(h, D)[s] = 0
    BY SumsUnfold
  <2>4. QED
    BY <2>1, <2>2, <2>3
<1> DEFINE c == First(s)  t == s \ {First(s)}
<1>4. t \notin Bad /\ c \in D /\ t \in SUBSET D /\ s \in SUBSET D
  BY <1>2, <1>3, Smaller
<1>5. /\ Sums(f, D)[s] = f[c] + Sums(f, D)[t] /\ Sums(g, D)[s] = g[c] + Sums(g, D)[t]
      /\ Sums(h, D)[s] = h[c] + Sums(h, D)[t]
  <2> HIDE DEF Bad
  <2>1. Sums(f, D)[s] = f[c] + Sums(f, D)[t]
    BY <1>3, <1>4, SumsFirst
  <2>2. Sums(g, D)[s] = g[c] + Sums(g, D)[t]
    BY <1>3, <1>4, SumsFirst
  <2>3. Sums(h, D)[s] = h[c] + Sums(h, D)[t]
    BY <1>3, <1>4, SumsFirst
  <2>4. QED
    BY <2>1, <2>2, <2>3
<1>6. Sums(f, D)[t] \in Int /\ Sums(g, D)[t] \in Int /\ f[c] \in Int /\ g[c] \in Int
  BY <1>4, SumsType
<1>7. Sums(h, D)[t] = Sums(f, D)[t] - Sums(g, D)[t] /\ h[c] = f[c] - g[c]
  BY <1>4
<1>8. QED
  BY <1>5, <1>6, <1>7

\* The sum of naturals bounds each of them.
LEMMA SumBounds ==
  ASSUME NEW D, IsFiniteSet(D), NEW f \in [D -> Nat]
  PROVE  /\ SumFunction(f) \in Nat
         /\ \A u \in D : f[u] <= SumFunction(f)
<1>1. f \in [D -> Int]
  OBVIOUS
<1>2. ASSUME NEW g \in [D -> Nat] PROVE SumFunction(g) \in Nat
  <2> DEFINE z == [x \in D |-> 0]
  <2>1. g \in [D -> Int] /\ z \in [D -> Int]
    OBVIOUS
  <2>2. SumFunction(z) = 0
    BY <2>1, SumZero
  <2>3. \A x \in D : 1 * z[x] <= 1 * g[x]
    OBVIOUS
  <2> HIDE DEF z
  <2>4. 1 * SumFunction(z) <= 1 * SumFunction(g)
    BY <2>1, <2>3, SumScaled
  <2>5. QED
    BY <2>1, <2>2, <2>4, SumType
<1>3. ASSUME NEW u \in D PROVE f[u] <= SumFunction(f)
  <2> DEFINE g == [f EXCEPT ![u] = 0]
  <2>1. g \in [D -> Nat] /\ g \in [D -> Int] /\ g[u] = 0 /\ \A x \in D \ {u} : f[x] = g[x]
    OBVIOUS
  <2> HIDE DEF g
  <2>2. SumFunction(g) = SumFunction(f) + g[u] - f[u]
    BY <1>1, <2>1, SumUpdate
  <2>3. SumFunction(g) \in Nat /\ SumFunction(f) \in Int /\ f[u] \in Int
    BY <1>1, <1>2, <2>1, SumType
  <2>4. QED
    BY <2>1, <2>2, <2>3
<1>4. QED
  BY <1>2, <1>3

\* Partial sums do not depend on what the function is beyond them.
LEMMA SumsDomain ==
  ASSUME NEW D, IsFiniteSet(D), NEW E \in SUBSET D, NEW f, NEW g, \A x \in E : f[x] = g[x]
  PROVE  \A s \in SUBSET E : Sums(f, D)[s] = Sums(g, E)[s]
<1> DEFINE Bad == {s \in SUBSET E : Sums(f, D)[s] # Sums(g, E)[s]}
<1> SUFFICES ASSUME Bad # {} PROVE FALSE
  OBVIOUS
<1>0. IsFiniteSet(E)
  BY FS_Subset
<1>1. PICK s \in Bad : \A x \in s : s \ {x} \notin Bad
  <2> Bad \in SUBSET SUBSET D
    OBVIOUS
  <2> HIDE DEF Bad
  <2> QED BY MinimalSubset
<1>2. s \in SUBSET D /\ s \in SUBSET E
  OBVIOUS
<1>3. s # {}
  BY <1>0, <1>2, SumsUnfold
<1>4. First(s) \in E /\ s \ {First(s)} \in SUBSET E /\ s \ {First(s)} \notin Bad
  BY <1>1, <1>2, <1>3, Smaller
<1>5. Sums(f, D)[s] = f[First(s)] + Sums(f, D)[s \ {First(s)}]
  BY <1>2, <1>3, SumsFirst
<1>6. Sums(g, E)[s] = g[First(s)] + Sums(g, E)[s \ {First(s)}]
  <2> HIDE DEF Bad
  <2>1. \A t \in SUBSET E :
          Sums(g, E)[t] = IF t = {} THEN 0 ELSE g[First(t)] + Sums(g, E)[t \ {First(t)}]
    BY ONLY <1>0, SumsUnfold, Zenon
  <2> QED BY <1>2, <1>3, <2>1
<1>7. Sums(f, D)[s \ {First(s)}] = Sums(g, E)[s \ {First(s)}] /\ f[First(s)] = g[First(s)]
  BY <1>4
<1>8. Sums(f, D)[s] # Sums(g, E)[s]
  OBVIOUS
<1> HIDE DEF Bad
<1> QED BY <1>5, <1>6, <1>7, <1>8

\* The same for the whole part.
LEMMA SumsOfPart ==
  ASSUME NEW D, IsFiniteSet(D), NEW E \in SUBSET D, NEW f, NEW g, \A x \in E : f[x] = g[x]
  PROVE  Sums(f, D)[E] = Sums(g, E)[E]
<1>1. \A s \in SUBSET E : Sums(f, D)[s] = Sums(g, E)[s]
  BY SumsDomain
<1> QED BY <1>1

\* A multiple is divided without a rest.
LEMMA ExactDivision ==
  ASSUME NEW w \in Nat \ {0}, NEW n \in Nat
  PROVE  (n * w) \div w = n
<1> DEFINE x == n * w
           q == x \div w
           r == x % w
<1>1. x \in Nat
  OBVIOUS
<1>2. q \in Nat /\ r \in 0 .. w - 1 /\ x = w * q + r
  <2> HIDE DEF x
  <2> QED BY <1>1
<1> HIDE DEF q, r
<1>3. ~(q < n)
  <2> SUFFICES ASSUME q < n PROVE FALSE
    OBVIOUS
  <2>1. PICK d \in Nat : n = q + 1 + d
    <3>1. n - (q + 1) \in Nat /\ n = q + 1 + (n - (q + 1))
      BY <1>2
    <3> QED BY <3>1
  <2>2. n * w = w * q + w + d * w /\ d * w \in Nat /\ w * q \in Nat
    BY <1>2, <2>1
  <2> DEFINE a == w * q
             b == d * w
  <2>3. x = a + w + b /\ a \in Nat /\ b \in Nat /\ x = a + r
    BY <1>2, <2>2
  <2> HIDE DEF a, b, x
  <2> QED BY <1>2, <2>3
<1>4. ~(n < q)
  <2> SUFFICES ASSUME n < q PROVE FALSE
    OBVIOUS
  <2>1. PICK d \in Nat : q = n + 1 + d
    <3>1. q - (n + 1) \in Nat /\ q = n + 1 + (q - (n + 1))
      BY <1>2
    <3> QED BY <3>1
  <2>2. w * q = n * w + w + d * w /\ d * w \in Nat
    BY <1>2, <2>1
  <2> DEFINE a == w * q
             b == d * w
  <2>3. a = x + w + b /\ b \in Nat /\ x = a + r
    BY <1>2, <2>2
  <2> HIDE DEF a, b, x
  <2> QED BY <1>1, <1>2, <2>3
<1> QED BY <1>2, <1>3, <1>4 DEF q
=============================================================================
