------------------------ MODULE SimpleFixToolProofs -------------------------
(***************************************************************************)
(* Proofs about CorpusPartitioner, for any corpus, any memory mappings and *)
(* any number of groups, iterations and threads, and about SimpleFixTool,  *)
(* which uses it, for any inputs and any number of workers.                *)
(*                                                                         *)
(* Three facts carry the argument about the partition.  The list and the   *)
(* groups always have the whole corpus between them, so the target sizes   *)
(* of every iteration are the sizes of the even spans of the corpus.  In   *)
(* the first iteration the chunk of a group is its span, worked through in *)
(* order by one thread.  In a later one it is what that left of the span,  *)
(* found by counting, and none of it goes with the group.                  *)
(*                                                                         *)
(* About the tool: the blobs a worker has made snapshots of are positions  *)
(* in its span, so lists put one behind the other stay in the order of the *)
(* blobs, and counters are cardinalities of disjoint sets of positions.    *)
(***************************************************************************)
EXTENDS SimpleFixTool, SpanUtilProofs, FiniteSetTheorems

-----------------------------------------------------------------------------
(* The elements of a finite set of positions, in order                       *)

LEMMA Intervals ==
  ASSUME NEW a \in Int, NEW b \in Int, a <= b + 1
  PROVE  IsFiniteSet(a .. b) /\ Cardinality(a .. b) = b + 1 - a
<1>1. IsFiniteSet(a .. b) /\ Cardinality(a .. b) = IF a > b THEN 0 ELSE b - a + 1
  BY FS_Interval
<1> QED BY <1>1

LEMMA Card ==
  ASSUME NEW S, IsFiniteSet(S)
  PROVE  Cardinality(S) \in Nat
BY FS_CardinalityType

\* How many elements are before k.
Rank(K, k) == Cardinality({m \in K : m < k})

LEMMA RankFacts ==
  ASSUME NEW K \in SUBSET Int, IsFiniteSet(K), NEW k \in K
  PROVE  /\ Rank(K, k) \in Nat
         /\ Rank(K, k) < Cardinality(K)
         /\ \A l \in K : k < l => Rank(K, k) < Rank(K, l)
<1>1. ASSUME NEW S \in SUBSET K PROVE IsFiniteSet(S) /\ Cardinality(S) \in Nat
  BY FS_Subset, Card
<1> DEFINE B(x) == {m \in K : m < x}
<1>2. IsFiniteSet(K \ {k}) /\ Cardinality(K \ {k}) = Cardinality(K) - 1
  BY FS_RemoveElement
<1>3. B(k) \subseteq K \ {k}
  OBVIOUS
<1>4. Cardinality(B(k)) <= Cardinality(K \ {k})
  <2> HIDE DEF B
  <2> QED BY <1>2, <1>3, FS_Subset
<1>5. ASSUME NEW l \in K, k < l PROVE Cardinality(B(k)) < Cardinality(B(l))
  <2>1. B(k) \subseteq B(l) /\ k \in B(l) /\ k \notin B(k)
    <3>1. k \in Int /\ l \in Int /\ \A m \in K : m \in Int
      OBVIOUS
    <3>2. \A m \in K : m < k => m < l
      BY <1>5, <3>1
    <3>3. B(k) \subseteq B(l)
      BY <3>2
    <3>4. k \in B(l)
      BY <1>5
    <3>5. ~ k < k
      BY <3>1
    <3> QED BY <3>3, <3>4, <3>5
  <2>2. B(l) \in SUBSET K /\ B(k) \in SUBSET K
    OBVIOUS
  <2> HIDE DEF B
  <2>3. IsFiniteSet(B(l)) /\ Cardinality(B(l)) \in Nat /\ Cardinality(B(k)) \in Nat
    BY <1>1, <2>2
  <2>4. Cardinality(B(k)) <= Cardinality(B(l))
    BY <2>1, <2>3, FS_Subset
  <2>5. Cardinality(B(k)) # Cardinality(B(l))
    BY <2>1, <2>3, FS_Subset
  <2> QED BY <2>3, <2>4, <2>5
<1>6. Cardinality(B(k)) \in Nat /\ Cardinality(K) \in Nat
  BY <1>1
<1>7. Rank(K, k) = Cardinality(B(k)) /\ \A l \in K : Rank(K, l) = Cardinality(B(l))
  BY DEF Rank
<1> HIDE DEF B
<1> QED BY <1>2, <1>4, <1>5, <1>6, <1>7

LEMMA SameRank ==
  ASSUME NEW K \in SUBSET Int, IsFiniteSet(K), NEW k \in K, NEW l \in K,
         Rank(K, k) = Rank(K, l)
  PROVE  k = l
<1>1. Rank(K, k) \in Nat /\ Rank(K, l) \in Nat
  BY RankFacts
<1>2. ~ k < l /\ ~ l < k
  BY <1>1, RankFacts
<1> QED BY <1>2

LEMMA NthFacts ==
  ASSUME NEW K \in SUBSET Int, IsFiniteSet(K), NEW i \in 1 .. Cardinality(K)
  PROVE  Nth(K, i) \in K /\ Rank(K, Nth(K, i)) = i - 1
<1> DEFINE n == Cardinality(K)
           T == 0 .. n - 1
           f == [k \in K |-> Rank(K, k)]
<1>1. n \in Nat
  BY Card
<1>2. IsFiniteSet(T) /\ Cardinality(T) = n
  <2> HIDE DEF n
  <2>1. 0 \in Int /\ n - 1 \in Int /\ 0 <= (n - 1) + 1 /\ (n - 1) + 1 - 0 = n
    BY <1>1
  <2> QED BY <2>1, Intervals
<1>3. f \in [K -> T]
  BY <1>1, RankFacts
<1>4. \A k, l \in K : f[k] = f[l] => k = l
  BY SameRank
<1>5. f \in Injection(K, T)
  BY <1>3, <1>4 DEF Injection, IsInjective
<1>6. f \in Surjection(K, T)
  <2> HIDE DEF f, T, n
  <2> QED BY <1>2, <1>5, FS_Injection DEF n
<1>7. i - 1 \in T
  BY <1>1
<1>8. PICK k \in K : f[k] = i - 1
  BY <1>6, <1>7 DEF Surjection
<1>9. \E x \in K : Cardinality({m \in K : m < x}) = i - 1
  BY <1>8 DEF Rank
<1> QED BY <1>9 DEF Nth, Rank

LEMMA NthOrdered ==
  ASSUME NEW K \in SUBSET Int, IsFiniteSet(K),
         NEW i \in 1 .. Cardinality(K), NEW j \in 1 .. Cardinality(K), i < j
  PROVE  Nth(K, i) < Nth(K, j)
<1>1. /\ Nth(K, i) \in K /\ Rank(K, Nth(K, i)) = i - 1
      /\ Nth(K, j) \in K /\ Rank(K, Nth(K, j)) = j - 1
  BY NthFacts
<1> DEFINE x == Nth(K, i)
           y == Nth(K, j)
<1>0. i \in Int /\ j \in Int /\ x \in Int /\ y \in Int
  <2>1. Cardinality(K) \in Nat
    BY Card
  <2>2. x \in K /\ y \in K
    BY <1>1
  <2>3. i \in Int /\ j \in Int
    BY <2>1
  <2> HIDE DEF x, y
  <2> QED BY <2>2, <2>3
<1>2. x # y
  BY <1>0, <1>1
<1>3. y < x => Rank(K, y) < Rank(K, x)
  BY <1>1, RankFacts
<1>4. ~ Rank(K, y) < Rank(K, x)
  <2>1. Rank(K, x) = i - 1 /\ Rank(K, y) = j - 1
    BY <1>1
  <2> HIDE DEF x, y
  <2> QED BY <1>0, <2>1
<1> HIDE DEF x, y
<1>5. x < y
  BY <1>0, <1>2, <1>3, <1>4
<1> QED BY <1>5 DEF x, y

LEMMA NthOnto ==
  ASSUME NEW K \in SUBSET Int, IsFiniteSet(K), NEW k \in K
  PROVE  \E i \in 1 .. Cardinality(K) : Nth(K, i) = k
<1> DEFINE i == Rank(K, k) + 1
<1>1. i \in 1 .. Cardinality(K)
  BY RankFacts, Card
<1>2. Nth(K, i) \in K /\ Rank(K, Nth(K, i)) = i - 1
  BY <1>1, NthFacts
<1>3. Rank(K, Nth(K, i)) = Rank(K, k)
  BY <1>2, RankFacts
<1> HIDE DEF i
<1>4. Nth(K, i) = k
  BY <1>2, <1>3, SameRank
<1> QED BY <1>1, <1>4

LEMMA NthOfAll ==
  ASSUME NEW n \in Nat, NEW i \in 1 .. n
  PROVE  Nth(1 .. n, i) = i
<1> DEFINE K == 1 .. n
<1>1. IsFiniteSet(K) /\ Cardinality(K) = n /\ K \in SUBSET Int
  BY Intervals
<1>2. Nth(K, i) \in K /\ Rank(K, Nth(K, i)) = i - 1
  BY <1>1, NthFacts
<1>3. ASSUME NEW k \in K PROVE Rank(K, k) = k - 1
  <2>1. {m \in K : m < k} = 1 .. (k - 1)
    OBVIOUS
  <2>2. Cardinality(1 .. (k - 1)) = k - 1
    BY Intervals
  <2> QED BY <2>1, <2>2 DEF Rank
<1>4. Nth(K, i) - 1 = i - 1
  BY <1>2, <1>3
<1> QED BY <1>2, <1>4

\* std::remove with nothing to remove.
LEMMA KeptAll ==
  ASSUME NEW S, NEW s \in Seq(S)
  PROVE  Kept(s, DOMAIN s) = s
<1>1. DOMAIN s = 1 .. Len(s) /\ Len(s) \in Nat
  OBVIOUS
<1>2. Cardinality(1 .. Len(s)) = Len(s)
  BY <1>1, Intervals
<1>3. Kept(s, DOMAIN s) = [i \in 1 .. Len(s) |-> s[Nth(1 .. Len(s), i)]]
  BY <1>1, <1>2 DEF Kept
<1>4. \A i \in 1 .. Len(s) : Nth(1 .. Len(s), i) = i
  BY <1>1, NthOfAll
<1>5. Kept(s, DOMAIN s) = [i \in 1 .. Len(s) |-> s[i]]
  BY <1>3, <1>4
<1> QED BY <1>1, <1>5


-----------------------------------------------------------------------------
(* The spans of the corpus and the chunks of the list                        *)

LEMMA Parameters ==
  /\ NumGroups \in Nat /\ NumGroups > 0 /\ Groups = 0 .. (NumGroups - 1)
  /\ Ids \subseteq Nat \ {0} /\ kNullSummary \notin Ids
  /\ IsFiniteSet(Threads) /\ Threads # {} /\ Cardinality(Threads) \in Nat
  /\ NumIterations \in Nat
<1>1. Cardinality(Threads) \in Nat
  BY PartitionerAssumption, Card
<1> QED BY <1>1, PartitionerAssumption DEF Groups, kNullSummary

LEMMA FirstFacts ==
  ASSUME corpus \in Seq(Ids)
  PROVE  /\ First(0) = 0
         /\ First(NumGroups) = Len(corpus)
         /\ \A g \in 0 .. NumGroups : First(g) \in Nat /\ First(g) <= Len(corpus)
         /\ \A g \in Groups :
              /\ SpanSize(Len(corpus), NumGroups, g) \in Nat
              /\ First(g + 1) = First(g) + SpanSize(Len(corpus), NumGroups, g)
              /\ SpanOf(g) = (First(g) + 1) .. First(g + 1)
         /\ \A g, h \in 0 .. NumGroups : g <= h => First(g) <= First(h)
<1> DEFINE n == Len(corpus)
<1>0. n \in Nat /\ NumGroups \in Nat /\ NumGroups > 0
  BY Parameters
<1>1. /\ SpanBegin(n, NumGroups)[0] = 0
      /\ SpanBegin(n, NumGroups)[NumGroups] = n
      /\ \A i \in 0..NumGroups : SpanBegin(n, NumGroups)[i] \in Nat
      /\ \A i \in 0..(NumGroups-1) :
           /\ SpanSize(n, NumGroups, i) \in Nat
           /\ SpanBegin(n, NumGroups)[i + 1]
                = SpanBegin(n, NumGroups)[i] + SpanSize(n, NumGroups, i)
      /\ \A i, j \in 0..NumGroups : i <= j =>
           SpanBegin(n, NumGroups)[i] <= SpanBegin(n, NumGroups)[j]
  <2> HIDE DEF n
  <2> QED BY <1>0, SpanBeginFacts
<1>2. \A g : First(g) = SpanBegin(n, NumGroups)[g]
  BY DEF First
<1>3. ASSUME NEW g \in Groups
      PROVE  SpanOf(g) = (First(g) + 1) .. First(g + 1)
  <2>1. g \in 0 .. (NumGroups - 1) /\ g \in 0 .. NumGroups /\ g + 1 \in 0 .. NumGroups
    BY Parameters
  <2>2. SpanOf(g) = {p + 1 : p \in First(g) .. (First(g) + SpanSize(n, NumGroups, g) - 1)}
    BY <2>1, <1>2 DEF SpanOf, PartitionEvenly
  <2>3. First(g) \in Nat /\ First(g + 1) = First(g) + SpanSize(n, NumGroups, g)
        /\ SpanSize(n, NumGroups, g) \in Nat
    BY <1>1, <1>2, <2>1
  <2> DEFINE a == First(g)
             b == First(g + 1)
  <2>4. a \in Int /\ b \in Int /\ SpanOf(g) = {p + 1 : p \in a .. (b - 1)}
    BY <2>2, <2>3
  <2> HIDE DEF a, b
  <2>5. {p + 1 : p \in a .. (b - 1)} = (a + 1) .. b
    <3>1. \A x \in (a + 1) .. b : x - 1 \in a .. (b - 1) /\ x = (x - 1) + 1
      BY <2>4
    <3>2. \A p \in a .. (b - 1) : p + 1 \in (a + 1) .. b
      BY <2>4
    <3> QED BY <3>1, <3>2
  <2> QED BY <2>4, <2>5 DEF a, b
<1>4. \A g \in 0 .. NumGroups : First(g) <= First(NumGroups)
  <2>1. \A g \in 0 .. NumGroups : g <= NumGroups
    BY <1>0
  <2>2. NumGroups \in 0 .. NumGroups
    BY <1>0
  <2>3. \A g, h \in 0 .. NumGroups : g <= h => First(g) <= First(h)
    BY <1>1, <1>2
  <2> HIDE DEF n
  <2> QED BY <2>1, <2>2, <2>3
<1>5. \A g \in Groups :
        /\ SpanSize(n, NumGroups, g) \in Nat
        /\ First(g + 1) = First(g) + SpanSize(n, NumGroups, g)
  BY <1>1, <1>2 DEF Groups
<1>6. \A g \in 0 .. NumGroups : First(g) \in Nat
  BY <1>1, <1>2
<1>7. \A g, h \in 0 .. NumGroups : g <= h => First(g) <= First(h)
  BY <1>1, <1>2
<1>8. First(0) = 0 /\ First(NumGroups) = n
  BY <1>1, <1>2
<1> QED BY <1>3, <1>4, <1>5, <1>6, <1>7, <1>8

LEMMA SpanFacts ==
  ASSUME corpus \in Seq(Ids)
  PROVE  /\ \A g \in Groups : SpanOf(g) \subseteq DOMAIN corpus
         /\ \A g, h \in Groups : g # h => SpanOf(g) \cap SpanOf(h) = {}
<1>1. \A g \in Groups : g \in Int /\ g \in 0 .. NumGroups /\ g + 1 \in 0 .. NumGroups
  BY Parameters
<1>2. \A g \in Groups :
        /\ First(g) \in Nat /\ First(g + 1) \in Nat /\ First(g + 1) <= Len(corpus)
        /\ SpanOf(g) = (First(g) + 1) .. First(g + 1)
  BY <1>1, FirstFacts
<1>3. DOMAIN corpus = 1 .. Len(corpus) /\ Len(corpus) \in Nat
  OBVIOUS
<1>4. ASSUME NEW g \in Groups, NEW h \in Groups, g < h, NEW i \in SpanOf(g), i \in SpanOf(h)
      PROVE  FALSE
  <2>1. First(g + 1) <= First(h)
    BY <1>1, <1>4, FirstFacts
  <2> QED BY <1>2, <1>4, <2>1
<1>5. ASSUME NEW g \in Groups PROVE SpanOf(g) \subseteq DOMAIN corpus
  BY <1>2, <1>3
<1>6. \A g, h \in Groups : g # h => g < h \/ h < g
  BY <1>1
<1> QED BY <1>4, <1>5, <1>6

\* An element of the g-th span can only be in group g.
LEMMA OwnGroup ==
  ASSUME corpus \in Seq(Ids), GroupInv, NEW g \in Groups, NEW i \in SpanOf(g)
  PROVE  i \in Ungrouped <=> corpus[i] \notin id_set[g]
<1>1. i \in DOMAIN corpus
  BY SpanFacts
<1>2. ASSUME NEW h \in Groups, corpus[i] \in id_set[h] PROVE h = g
  <2>1. PICK k \in SpanOf(h) : corpus[i] = corpus[k]
    BY <1>2 DEF GroupInv
  <2>2. k \in DOMAIN corpus
    BY SpanFacts
  <2>3. k = i
    BY <1>1, <2>1, <2>2 DEF GroupInv
  <2> QED BY <2>3, SpanFacts
<1> QED BY <1>1, <1>2 DEF Ungrouped, Grouped

\* The snapshots left of the g-th span.
LEMMA LeftOfSpan ==
  ASSUME corpus \in Seq(Ids), GroupInv, NEW g \in Groups
  PROVE  /\ IsFiniteSet(id_set[g]) /\ Cardinality(id_set[g]) \in Nat
         /\ IsFiniteSet(SpanOf(g) \cap Ungrouped)
         /\ Cardinality(SpanOf(g) \cap Ungrouped)
              = SpanSize(Len(corpus), NumGroups, g) - Cardinality(id_set[g])
<1> DEFINE S == SpanOf(g)
           n == SpanSize(Len(corpus), NumGroups, g)
           T == {i \in S : corpus[i] \in id_set[g]}
           f == [i \in T |-> corpus[i]]
<1>1. IsFiniteSet(S) /\ Cardinality(S) = n /\ n \in Nat
  <2> DEFINE a == First(g)
             b == First(g + 1)
  <2>1. g \in 0 .. NumGroups /\ g + 1 \in 0 .. NumGroups
    BY Parameters
  <2>2. a \in Nat /\ n \in Nat /\ b = a + n /\ S = (a + 1) .. b
    BY <2>1, FirstFacts
  <2> HIDE DEF a, b, n, S
  <2>3. a + 1 \in Int /\ b \in Int /\ a + 1 <= b + 1 /\ b + 1 - (a + 1) = n
    BY <2>2
  <2>4. IsFiniteSet((a + 1) .. b) /\ Cardinality((a + 1) .. b) = b + 1 - (a + 1)
    BY <2>3, Intervals
  <2> QED BY <2>2, <2>3, <2>4
<1>2. S \subseteq DOMAIN corpus
  BY SpanFacts
<1>3. f \in Bijection(T, id_set[g])
  <2>1. f \in [T -> id_set[g]]
    OBVIOUS
  <2>2. \A i, j \in T : f[i] = f[j] => i = j
    BY <1>2 DEF GroupInv
  <2>3. \A x \in id_set[g] : \E i \in T : f[i] = x
    BY DEF GroupInv
  <2> QED BY <2>1, <2>2, <2>3 DEF Bijection, Injection, Surjection, IsInjective
<1>4. IsFiniteSet(T) /\ T \subseteq S
  BY <1>1, FS_Subset
<1>5. IsFiniteSet(id_set[g]) /\ Cardinality(id_set[g]) = Cardinality(T)
  <2>1. ExistsBijection(T, id_set[g])
    BY <1>3 DEF ExistsBijection
  <2> HIDE DEF T
  <2> QED BY <1>4, <2>1, FS_Bijection
<1>6. S \cap Ungrouped = S \ T
  BY OwnGroup
<1> HIDE DEF S, T, n
<1>7. IsFiniteSet(S \ T) /\ Cardinality(S \ T) = Cardinality(S) - Cardinality(S \cap T)
  BY <1>1, FS_Difference
<1>8. S \cap T = T
  BY <1>4
<1>9. Cardinality(id_set[g]) \in Nat
  BY <1>5, Card
<1> QED BY <1>1, <1>5, <1>6, <1>7, <1>8, <1>9 DEF S, n

LEMMA UngroupedFacts ==
  ASSUME corpus \in Seq(Ids)
  PROVE  /\ Ungrouped \in SUBSET Int /\ IsFiniteSet(Ungrouped)
         /\ Ungrouped \subseteq 1 .. Len(corpus)
         /\ Cardinality(Ungrouped) \in Nat
<1>1. Ungrouped \subseteq 1 .. Len(corpus) /\ Len(corpus) \in Nat
  BY DEF Ungrouped
<1>2. IsFiniteSet(1 .. Len(corpus))
  BY <1>1, Intervals
<1>3. IsFiniteSet(Ungrouped)
  BY <1>1, <1>2, FS_Subset
<1>4. Cardinality(Ungrouped) \in Nat
  BY <1>3, Card
<1>5. Ungrouped \in SUBSET Int
  BY <1>1
<1> QED BY <1>1, <1>3, <1>4, <1>5

LEMMA LeftFacts ==
  ASSUME corpus \in Seq(Ids), GroupInv
  PROVE  /\ Left(0) = 0
         /\ Left(NumGroups) = Cardinality(Ungrouped)
         /\ \A g \in 0 .. NumGroups : Left(g) \in Nat
         /\ \A g \in Groups :
              Left(g + 1) = Left(g) + (SpanSize(Len(corpus), NumGroups, g)
                                         - Cardinality(id_set[g]))
         /\ \A g, h \in 0 .. NumGroups : g <= h => Left(g) <= Left(h)
<1> DEFINE U(g) == {i \in Ungrouped : i <= First(g)}
<1>1. /\ Ungrouped \in SUBSET Int /\ IsFiniteSet(Ungrouped)
      /\ Ungrouped \subseteq 1 .. Len(corpus)
  BY UngroupedFacts
<1>2. \A g : Left(g) = Cardinality(U(g)) /\ U(g) \in SUBSET Ungrouped
  BY DEF Left
<1>3. ASSUME NEW g PROVE IsFiniteSet(U(g)) /\ Cardinality(U(g)) \in Nat
  <2> HIDE DEF U
  <2> QED BY <1>1, <1>2, FS_Subset, Card
<1>4. Left(0) = 0
  <2>0. First(0) = 0 /\ \A i \in Ungrouped : i \in Int /\ i >= 1
    BY <1>1, FirstFacts
  <2>1. U(0) = {}
    BY <2>0
  <2> QED BY <1>2, <2>1, FS_EmptySet
<1>5. Left(NumGroups) = Cardinality(Ungrouped)
  <2>0. First(NumGroups) = Len(corpus) /\ \A i \in Ungrouped : i <= Len(corpus)
    BY <1>1, FirstFacts
  <2>1. U(NumGroups) = Ungrouped
    BY <2>0
  <2> QED BY <1>2, <2>1
<1>6. ASSUME NEW g \in Groups
      PROVE  Left(g + 1) = Left(g) + (SpanSize(Len(corpus), NumGroups, g)
                                        - Cardinality(id_set[g]))
  <2> DEFINE V == SpanOf(g) \cap Ungrouped
  <2>1. /\ g \in 0 .. NumGroups /\ g + 1 \in 0 .. NumGroups /\ g <= g + 1
        /\ First(g) \in Nat /\ First(g + 1) \in Nat /\ First(g) <= First(g + 1)
        /\ SpanOf(g) = (First(g) + 1) .. First(g + 1)
    <3>1. g \in 0 .. NumGroups /\ g + 1 \in 0 .. NumGroups /\ g <= g + 1
      BY Parameters
    <3> QED BY <3>1, FirstFacts
  <2>2. U(g + 1) = U(g) \cup V /\ U(g) \cap V = {}
    <3>1. \A i \in Ungrouped : i \in Int
      BY <1>1
    <3> QED BY <2>1, <3>1
  <2>3. /\ IsFiniteSet(V)
        /\ Cardinality(V) = SpanSize(Len(corpus), NumGroups, g) - Cardinality(id_set[g])
        /\ Cardinality(V) \in Nat
    BY LeftOfSpan, Card
  <2>4. Cardinality(U(g + 1)) = Cardinality(U(g)) + Cardinality(V)
    <3>1. IsFiniteSet(U(g)) /\ Cardinality(U(g)) \in Nat
      BY <1>3
    <3> DEFINE A == U(g)
    <3>2. IsFiniteSet(A) /\ A \cap V = {} /\ Cardinality(A) \in Nat
      BY <2>2, <3>1
    <3> HIDE DEF A, V
    <3>3. Cardinality(A \cup V) = Cardinality(A) + Cardinality(V) - Cardinality(A \cap V)
      BY <2>3, <3>2, FS_Union
    <3>4. Cardinality(A \cap V) = 0
      BY <3>2, FS_EmptySet
    <3>5. Cardinality(A \cup V) = Cardinality(A) + Cardinality(V)
      BY <2>3, <3>2, <3>3, <3>4
    <3> QED BY <2>2, <3>5 DEF A
  <2> HIDE DEF U, V
  <2> QED BY <1>2, <2>3, <2>4
<1>7. ASSUME NEW g \in 0 .. NumGroups, NEW h \in 0 .. NumGroups, g <= h
      PROVE  Left(g) <= Left(h)
  <2>1. First(g) \in Nat /\ First(h) \in Nat /\ First(g) <= First(h)
    BY <1>7, FirstFacts
  <2>2. U(g) \subseteq U(h)
    <3>1. \A i \in Ungrouped : i \in Int
      BY <1>1
    <3> QED BY <2>1, <3>1
  <2> HIDE DEF U
  <2> QED BY <1>2, <1>3, <2>2, FS_Subset
<1>8. \A g \in 0 .. NumGroups : Left(g) \in Nat
  BY <1>2, <1>3
<1> QED BY <1>4, <1>5, <1>6, <1>7, <1>8

-----------------------------------------------------------------------------
(* What the invariant says of the list                                       *)

LEMMA SameLength ==
  ASSUME NEW a \in Nat, NEW b \in Nat, 1 .. a = 1 .. b PROVE a = b
<1>1. \A x \in Int : x \in 1 .. a <=> x \in 1 .. b
  OBVIOUS
<1>2. a > 0 => a <= b
  BY <1>1
<1>3. b > 0 => b <= a
  BY <1>1
<1> QED BY <1>2, <1>3

\* From the second iteration on the i-th summary is the i-th snapshot left.
LEMMA ListLater ==
  ASSUME PartitionerTypeOK, ListInv, iteration > 0
  PROVE  /\ DOMAIN summaries = 1 .. Cardinality(Ungrouped)
         /\ \A i \in DOMAIN summaries :
              /\ Nth(Ungrouped, i) \in Ungrouped
              /\ Rank(Ungrouped, Nth(Ungrouped, i)) = i - 1
              /\ summaries[i] = corpus[Nth(Ungrouped, i)]
<1>1. summaries = Kept(corpus, Ungrouped)
  BY DEF ListInv
<1>2. DOMAIN summaries = 1 .. Cardinality(Ungrouped)
      /\ \A i \in DOMAIN summaries : summaries[i] = corpus[Nth(Ungrouped, i)]
  BY <1>1 DEF Kept
<1>3. Ungrouped \in SUBSET Int /\ IsFiniteSet(Ungrouped)
  BY UngroupedFacts DEF PartitionerTypeOK
<1>4. ASSUME NEW i \in DOMAIN summaries
      PROVE  Nth(Ungrouped, i) \in Ungrouped /\ Rank(Ungrouped, Nth(Ungrouped, i)) = i - 1
  <2>1. i \in 1 .. Cardinality(Ungrouped)
    BY <1>2
  <2> QED BY <1>3, <2>1, NthFacts
<1> QED BY <1>2, <1>4

LEMMA ListFirst ==
  ASSUME PartitionerTypeOK, ListInv, iteration = 0
  PROVE  /\ DOMAIN summaries = DOMAIN corpus /\ Len(summaries) = Len(corpus)
         /\ \A i \in DOMAIN summaries :
              summaries[i] = IF i \in Ungrouped THEN corpus[i] ELSE kNullSummary
<1>1. summaries = [i \in DOMAIN corpus |->
                     IF i \in Ungrouped THEN corpus[i] ELSE kNullSummary]
  BY DEF ListInv
<1>2. DOMAIN summaries = DOMAIN corpus
      /\ \A i \in DOMAIN summaries :
              summaries[i] = IF i \in Ungrouped THEN corpus[i] ELSE kNullSummary
  BY <1>1
<1>3. /\ DOMAIN corpus = 1 .. Len(corpus) /\ Len(corpus) \in Nat
      /\ DOMAIN summaries = 1 .. Len(summaries) /\ Len(summaries) \in Nat
  BY DEF PartitionerTypeOK
<1>4. Len(summaries) = Len(corpus)
  BY <1>2, <1>3, SameLength
<1> QED BY <1>2, <1>4

LEMMA ListLength ==
  ASSUME PartitionerTypeOK, GroupInv, ListInv
  PROVE  Len(summaries) = ChunkBegin(NumGroups)
<1>0. corpus \in Seq(Ids) /\ iteration \in Nat
  BY Parameters DEF PartitionerTypeOK
<1>1. CASE iteration = 0
  BY <1>0, <1>1, ListFirst, FirstFacts DEF ChunkBegin
<1>2. CASE iteration > 0
  <2>1. DOMAIN summaries = 1 .. Cardinality(Ungrouped)
    BY <1>2, ListLater
  <2>2. DOMAIN summaries = 1 .. Len(summaries) /\ Len(summaries) \in Nat
    BY DEF PartitionerTypeOK
  <2>3. Cardinality(Ungrouped) \in Nat
    BY <1>0, UngroupedFacts
  <2>4. Len(summaries) = Cardinality(Ungrouped)
    BY <2>1, <2>2, <2>3, SameLength
  <2>5. Left(NumGroups) = Cardinality(Ungrouped)
    BY <1>0, LeftFacts
  <2> QED BY <1>2, <2>4, <2>5 DEF ChunkBegin
<1> QED BY <1>0, <1>1, <1>2

LEMMA ChunkBeginFacts ==
  ASSUME PartitionerTypeOK, GroupInv, ListInv
  PROVE  /\ ChunkBegin(0) = 0
         /\ \A g \in 0 .. NumGroups : ChunkBegin(g) \in Nat /\ ChunkBegin(g) <= Len(summaries)
         /\ \A g, h \in 0 .. NumGroups : g <= h => ChunkBegin(g) <= ChunkBegin(h)
<1>0. corpus \in Seq(Ids) /\ iteration \in Nat
  BY Parameters DEF PartitionerTypeOK
<1>1. /\ ChunkBegin(0) = 0
      /\ \A g \in 0 .. NumGroups : ChunkBegin(g) \in Nat
      /\ \A g, h \in 0 .. NumGroups : g <= h => ChunkBegin(g) <= ChunkBegin(h)
  <2>1. CASE iteration = 0
    <3>1. \A g : ChunkBegin(g) = First(g)
      BY <2>1 DEF ChunkBegin
    <3> QED BY <1>0, <3>1, FirstFacts
  <2>2. CASE iteration > 0
    <3>1. \A g : ChunkBegin(g) = Left(g)
      BY <2>2 DEF ChunkBegin
    <3> QED BY <1>0, <3>1, LeftFacts
  <2> QED BY <1>0, <2>1, <2>2
<1>2. NumGroups \in 0 .. NumGroups /\ \A g \in 0 .. NumGroups : g <= NumGroups
  BY Parameters
<1>3. \A g \in 0 .. NumGroups : ChunkBegin(g) <= Len(summaries)
  BY <1>1, <1>2, ListLength
<1> QED BY <1>1, <1>3

\* The list has what is in no group.
LEMMA LeftIds ==
  ASSUME PartitionerTypeOK, GroupInv, ListInv
  PROVE  IdsLeft = {corpus[i] : i \in Ungrouped}
<1>0. corpus \in Seq(Ids) /\ iteration \in Nat /\ Ungrouped \subseteq DOMAIN corpus
  BY Parameters DEF PartitionerTypeOK, Ungrouped
<1>1. \A i \in Ungrouped : corpus[i] \in Ids /\ corpus[i] # kNullSummary
  BY <1>0, Parameters
<1>2. CASE iteration = 0
  <2>1. /\ DOMAIN summaries = DOMAIN corpus
        /\ \A i \in DOMAIN summaries :
              summaries[i] = IF i \in Ungrouped THEN corpus[i] ELSE kNullSummary
    BY <1>2, ListFirst
  <2> QED BY <1>0, <1>1, <2>1 DEF IdsLeft
<1>3. CASE iteration > 0
  <2>1. /\ DOMAIN summaries = 1 .. Cardinality(Ungrouped)
        /\ \A i \in DOMAIN summaries :
              /\ Nth(Ungrouped, i) \in Ungrouped
              /\ summaries[i] = corpus[Nth(Ungrouped, i)]
    BY <1>3, ListLater
  <2>2. ASSUME NEW k \in Ungrouped
        PROVE  \E i \in DOMAIN summaries : Nth(Ungrouped, i) = k
    BY <1>0, <2>1, UngroupedFacts, NthOnto
  <2> QED BY <1>1, <2>1, <2>2 DEF IdsLeft
<1> QED BY <1>0, <1>2, <1>3

LEMMA InvGivesGroups == PartitionerInv => GroupsConflictFree
<1> SUFFICES ASSUME PartitionerInv PROVE GroupsConflictFree
  OBVIOUS
<1>0. /\ PartitionerTypeOK /\ GroupInv /\ ListInv
      /\ corpus \in Seq(Ids) /\ iteration \in Nat
  BY Parameters DEF PartitionerInv, PartitionerTypeOK
<1>1. ASSUME NEW g \in Groups, NEW h \in Groups, g # h
      PROVE  id_set[g] \cap id_set[h] = {}
  <2> SUFFICES ASSUME NEW a \in id_set[g], a \in id_set[h] PROVE FALSE
    OBVIOUS
  <2>1. PICK i \in SpanOf(g) : a = corpus[i]
    BY <1>0 DEF GroupInv
  <2>2. PICK k \in SpanOf(h) : a = corpus[k]
    BY <1>0 DEF GroupInv
  <2>3. i \in DOMAIN corpus /\ k \in DOMAIN corpus
    BY <1>0, SpanFacts
  <2>4. i = k
    BY <1>0, <2>1, <2>2, <2>3 DEF GroupInv
  <2> QED BY <1>0, <1>1, <2>4, SpanFacts
<1>2. IdsLeft = {corpus[i] : i \in Ungrouped}
  BY <1>0, LeftIds
<1>3. \A g \in Groups : id_set[g] \cap IdsLeft = {}
  BY <1>2 DEF Ungrouped, Grouped
<1>4. Grouped \cup IdsLeft = CorpusIds
  <2>1. ASSUME NEW a \in Grouped PROVE a \in CorpusIds
    <3>1. PICK g \in Groups : a \in id_set[g]
      BY DEF Grouped
    <3>2. PICK i \in SpanOf(g) : a = corpus[i]
      BY <1>0, <3>1 DEF GroupInv
    <3> QED BY <1>0, <3>2, SpanFacts DEF CorpusIds
  <2>2. \A i \in DOMAIN corpus : corpus[i] \in Grouped \/ i \in Ungrouped
    BY DEF Ungrouped
  <2>3. Ungrouped \subseteq DOMAIN corpus
    BY DEF Ungrouped
  <2> QED BY <1>2, <2>1, <2>2, <2>3 DEF CorpusIds
<1>5. ASSUME NEW i \in DOMAIN summaries, NEW j \in DOMAIN summaries,
             i # j, summaries[i] # kNullSummary
      PROVE  summaries[i] # summaries[j]
  <2>1. CASE iteration = 0
    <3>1. /\ DOMAIN summaries = DOMAIN corpus
          /\ summaries[i] = IF i \in Ungrouped THEN corpus[i] ELSE kNullSummary
          /\ summaries[j] = IF j \in Ungrouped THEN corpus[j] ELSE kNullSummary
      BY <1>0, <2>1, ListFirst
    <3>2. summaries[i] = corpus[i] /\ corpus[i] # corpus[j]
      BY <1>0, <1>5, <3>1 DEF GroupInv
    <3> QED BY <1>5, <3>1, <3>2
  <2>2. CASE iteration > 0
    <3>1. /\ DOMAIN summaries = 1 .. Cardinality(Ungrouped)
          /\ Nth(Ungrouped, i) \in Ungrouped /\ summaries[i] = corpus[Nth(Ungrouped, i)]
          /\ Nth(Ungrouped, j) \in Ungrouped /\ summaries[j] = corpus[Nth(Ungrouped, j)]
          /\ Rank(Ungrouped, Nth(Ungrouped, i)) = i - 1
          /\ Rank(Ungrouped, Nth(Ungrouped, j)) = j - 1
      BY <1>0, <2>2, ListLater
    <3>2. i \in Int /\ j \in Int
      BY <1>0 DEF PartitionerTypeOK
    <3>3. Nth(Ungrouped, i) # Nth(Ungrouped, j)
      BY <1>5, <3>1, <3>2
    <3>4. Nth(Ungrouped, i) \in DOMAIN corpus /\ Nth(Ungrouped, j) \in DOMAIN corpus
      BY <3>1 DEF Ungrouped
    <3> QED BY <1>0, <3>1, <3>3, <3>4 DEF GroupInv
  <2> QED BY <1>0, <2>1, <2>2
<1>6. ASSUME NEW g \in Groups, NEW a \in id_set[g], NEW b \in id_set[g], a # b,
             NEW x \in memory_mappings[a], NEW y \in memory_mappings[b], x[1] = y[1]
      PROVE  Writable(x[2]) /\ x[2] = y[2]
  <2>1. Compatible(a, id_set[g] \ {a}) /\ b \in id_set[g] \ {a}
    BY <1>0, <1>6 DEF GroupInv
  <2> QED BY <1>6, <2>1 DEF Compatible
<1> QED BY <1>1, <1>3, <1>4, <1>5, <1>6 DEF GroupsConflictFree

LEMMA InvGivesChunks == PartitionerInv => ChunksDisjoint
<1> SUFFICES ASSUME PartitionerInv PROVE ChunksDisjoint
  OBVIOUS
<1>0. PartitionerTypeOK /\ GroupInv /\ ListInv /\ TaskInv /\ OwnerInv
  BY DEF PartitionerInv
<1>1. ASSUME NEW c \in Chunks
      PROVE  /\ c.group \in Groups
             /\ c.group \in 0 .. NumGroups /\ c.group + 1 \in 0 .. NumGroups
             /\ c.begin = ChunkBegin(c.group) /\ c.begin \in Nat
             /\ c.chunk_size > 0 /\ c.chunk_size \in Nat
             /\ c.begin + c.chunk_size = ChunkBegin(c.group + 1)
             /\ c.begin + c.chunk_size <= Len(summaries)
             /\ c \in TaskRecords
  <2>1. /\ c.group \in Groups /\ c.begin = ChunkBegin(c.group) /\ c.chunk_size > 0
        /\ c.begin + c.chunk_size = ChunkBegin(c.group + 1)
    BY <1>0 DEF TaskInv
  <2>2. c.group \in 0 .. NumGroups /\ c.group + 1 \in 0 .. NumGroups
    BY <2>1, Parameters
  <2>3. ChunkBegin(c.group) \in Nat /\ ChunkBegin(c.group + 1) <= Len(summaries)
    BY <1>0, <2>2, ChunkBeginFacts
  <2>4. c \in TaskRecords
    BY <1>0 DEF PartitionerTypeOK, Chunks, Tasks, RunningTasks
  <2>5. c.chunk_size \in Nat
    BY <2>4 DEF TaskRecords, Shutdown
  <2> QED BY <2>1, <2>2, <2>3, <2>4, <2>5
<1>2. ASSUME NEW c \in Chunks, NEW d \in Chunks, c # d
      PROVE  c.group # d.group
  <2> SUFFICES ASSUME c.group = d.group PROVE FALSE
    OBVIOUS
  <2>1. c.begin = d.begin /\ c.chunk_size = d.chunk_size
    <3>1. c.begin = d.begin
      BY <1>1
    <3>2. c.begin + c.chunk_size = d.begin + d.chunk_size
      BY <1>1
    <3> QED BY <1>1, <3>1, <3>2
  <2>2. ASSUME NEW r \in TaskRecords, r.group \in Groups
        PROVE  r = [group |-> r.group, begin |-> r.begin, chunk_size |-> r.chunk_size]
    BY DEF TaskRecords, Shutdown
  <2> QED BY <1>1, <1>2, <2>1, <2>2
<1>3. ASSUME NEW c \in Chunks, NEW d \in Chunks, c.group < d.group
      PROVE  c.begin + c.chunk_size <= d.begin
  <2>1. c.group + 1 <= d.group
    BY <1>1, <1>3, Parameters
  <2> QED BY <1>0, <1>1, <2>1, ChunkBeginFacts
<1>4. ASSUME NEW c \in Chunks, NEW d \in Chunks, c # d
      PROVE  (c.begin .. (c.begin + c.chunk_size - 1))
               \cap (d.begin .. (d.begin + d.chunk_size - 1)) = {}
  <2>1. c.group < d.group \/ d.group < c.group
    BY <1>1, <1>2, <1>4, Parameters
  <2>2. c.begin + c.chunk_size <= d.begin \/ d.begin + d.chunk_size <= c.begin
    BY <1>3, <2>1
  <2>3. /\ c.begin \in Nat /\ c.chunk_size \in Nat
        /\ d.begin \in Nat /\ d.chunk_size \in Nat
    BY <1>1
  <2> QED BY <2>2, <2>3
<1>5. \A t, u \in RunningTasks : t # u => thread[t].task # thread[u].task
  BY <1>0 DEF OwnerInv
<1>6. pc = "join" => offset = Len(summaries)
  BY <1>0, ListLength DEF TaskInv, Scheduling
<1> QED BY <1>1, <1>2, <1>4, <1>5, <1>6 DEF ChunksDisjoint

LEMMA InvGivesSame == PartitionerInv => PartitionDeterministic
<1> SUFFICES ASSUME PartitionerInv, pc = "done", NumIterations > 0
             PROVE  /\ \A g \in Groups : Collected(g, Len(corpus))
                    /\ summaries = Kept(corpus, Ungrouped)
  BY DEF PartitionDeterministic
<1>0. /\ PartitionerTypeOK /\ GroupInv /\ ListInv /\ ProgressInv
      /\ corpus \in Seq(Ids) /\ iteration \in Nat
  BY Parameters DEF PartitionerInv, PartitionerTypeOK
<1>1. CASE iteration > 0
  <2>1. ASSUME NEW g \in Groups PROVE Collected(g, Len(corpus))
    <3>1. Collected(g, First(g + 1))
      BY <1>0, <1>1 DEF ProgressInv
    <3>2. /\ g \in 0 .. NumGroups /\ g + 1 \in 0 .. NumGroups
      BY Parameters
    <3>3. \A i \in SpanOf(g) : i <= First(g + 1) /\ i <= Len(corpus)
      <4>1. /\ SpanOf(g) = (First(g) + 1) .. First(g + 1)
            /\ First(g) \in Nat /\ First(g + 1) \in Nat /\ First(g + 1) <= Len(corpus)
            /\ Len(corpus) \in Nat
        BY <1>0, <3>2, FirstFacts
      <4> QED BY <4>1
    <3> QED BY <3>1, <3>3 DEF Collected
  <2> QED BY <1>0, <1>1, <2>1 DEF ListInv
<1>2. CASE iteration = 0
  <2>1. summaries = <<>>
    BY <1>0, <1>2 DEF ListInv
  <2>2. Len(corpus) = 0 /\ corpus = <<>> /\ DOMAIN corpus = {}
    BY <1>0, <1>2, <2>1, ListFirst
  <2>3. Ungrouped = {}
    BY <2>2 DEF Ungrouped
  <2>4. \A g \in Groups : id_set[g] = {} /\ SpanOf(g) = {}
    BY <1>0, <1>2, <2>2, SpanFacts DEF ProgressInv, Waiting, Scheduling
  <2>5. Kept(corpus, {}) = <<>>
    BY FS_EmptySet DEF Kept
  <2> QED BY <2>1, <2>3, <2>4, <2>5 DEF Collected
<1> QED BY <1>0, <1>1, <1>2

\* num_snapshots is the size of the corpus in every iteration.
LEMMA AllCounted ==
  ASSUME PartitionerTypeOK, GroupInv, ListInv,
         iteration = 0 => \A g \in Groups : id_set[g] = {}
  PROVE  NumSnapshots = Len(corpus)
<1> DEFINE E(f) == [n \in 0..NumGroups |->
                      IF n = 0 THEN 0 ELSE f[n - 1] + Cardinality(id_set[n - 1])]
           C == [n \in 0..NumGroups |-> First(n) - Left(n)]
           grouped == CHOOSE f : f = E(f)
<1>0. corpus \in Seq(Ids) /\ iteration \in Nat /\ NumGroups \in Nat
  BY Parameters DEF PartitionerTypeOK
<1>1. NumSnapshots = Len(summaries) + grouped[NumGroups]
  BY DEF NumSnapshots
<1>2. C = E(C)
  <2>1. ASSUME NEW n \in 0..NumGroups, n # 0
        PROVE  C[n] = C[n - 1] + Cardinality(id_set[n - 1])
    <3>1. n - 1 \in Groups /\ n - 1 \in 0..NumGroups /\ (n - 1) + 1 = n
      BY <2>1, Parameters
    <3>2. /\ First(n) = First(n - 1) + SpanSize(Len(corpus), NumGroups, n - 1)
          /\ SpanSize(Len(corpus), NumGroups, n - 1) \in Nat
          /\ First(n - 1) \in Nat
      BY <1>0, <3>1, FirstFacts
    <3>3. /\ Left(n) = Left(n - 1) + (SpanSize(Len(corpus), NumGroups, n - 1)
                                       - Cardinality(id_set[n - 1]))
          /\ Left(n - 1) \in Nat
      BY <1>0, <3>1, LeftFacts
    <3>4. Cardinality(id_set[n - 1]) \in Nat
      BY <1>0, <3>1, LeftOfSpan
    <3>5. C[n] = First(n) - Left(n) /\ C[n - 1] = First(n - 1) - Left(n - 1)
      BY <3>1
    <3> HIDE DEF C
    <3> QED BY <3>2, <3>3, <3>4, <3>5
  <2>2. C[0] = 0
    BY <1>0, FirstFacts, LeftFacts
  <2>3. \A n \in 0..NumGroups : C[n] = E(C)[n]
    <3> HIDE DEF C
    <3> QED BY <2>1, <2>2
  <2> QED BY <2>3
<1> HIDE DEF C
<1>3. grouped = E(grouped)
  BY <1>2
<1> HIDE DEF grouped
<1> DEFINE P == {n \in 0..NumGroups : grouped[n] = C[n]}
<1>4. 0..NumGroups \subseteq P
  <2>0. \A n \in 0..NumGroups : grouped[n] = E(grouped)[n] /\ C[n] = E(C)[n]
    BY <1>2, <1>3
  <2>1. 0 \in P
    BY <1>0, <2>0
  <2>2. \A n \in 0..(NumGroups - 1) : n \in P => n + 1 \in P
    BY <1>0, <2>0
  <2> HIDE DEF P
  <2> QED BY <1>0, <2>1, <2>2, InductionUpTo
<1>5. grouped[NumGroups] = Len(corpus) - Cardinality(Ungrouped)
  <2>1. NumGroups \in 0..NumGroups
    BY <1>0
  <2>2. grouped[NumGroups] = C[NumGroups]
    BY <1>4, <2>1
  <2> QED BY <1>0, <2>1, <2>2, FirstFacts, LeftFacts DEF C
<1>6. Len(summaries) = Cardinality(Ungrouped)
  <2>1. CASE iteration = 0
    <3>1. Ungrouped = DOMAIN corpus
      BY <2>1 DEF Ungrouped, Grouped
    <3>2. Cardinality(1 .. Len(corpus)) = Len(corpus)
      BY <1>0, Intervals
    <3>3. Len(summaries) = Len(corpus)
      BY <2>1, ListFirst
    <3> QED BY <1>0, <3>1, <3>2, <3>3
  <2>2. CASE iteration > 0
    <3>1. Left(NumGroups) = Cardinality(Ungrouped)
      BY <1>0, LeftFacts
    <3> QED BY <2>2, <3>1, ListLength DEF ChunkBegin
  <2> QED BY <1>0, <2>1, <2>2
<1>7. Cardinality(Ungrouped) \in Nat
  BY <1>0, UngroupedFacts
<1> QED BY <1>0, <1>1, <1>5, <1>6, <1>7

\* The size of a chunk: what the span of its group has left.
LEMMA ChunkSizeFacts ==
  ASSUME PartitionerTypeOK, GroupInv, ListInv, TaskInv, Scheduling,
         NEW g \in Groups, iteration = 0 => id_set[g] = {}
  PROVE  /\ ChunkSize(g) \in Nat
         /\ ChunkBegin(g) + ChunkSize(g) = ChunkBegin(g + 1)
<1>0. /\ corpus \in Seq(Ids) /\ iteration \in Nat
      /\ g \in 0 .. NumGroups /\ g + 1 \in 0 .. NumGroups /\ g <= g + 1
  BY Parameters DEF PartitionerTypeOK
<1> DEFINE n == SpanSize(Len(corpus), NumGroups, g)
           k == Cardinality(id_set[g])
<1>1. ChunkSize(g) = n - k
  BY DEF ChunkSize, TaskInv
<1>2. n \in Nat /\ First(g) \in Nat /\ First(g + 1) = First(g) + n
  BY <1>0, FirstFacts
<1>3. k \in Nat
  BY <1>0, LeftOfSpan
<1>4. Left(g) \in Nat /\ Left(g + 1) \in Nat /\ Left(g + 1) = Left(g) + (n - k)
      /\ Left(g) <= Left(g + 1)
  BY <1>0, LeftFacts
<1>5. iteration = 0 => k = 0
  BY FS_EmptySet
<1> HIDE DEF n, k
<1>6. CASE iteration = 0
  BY <1>1, <1>2, <1>3, <1>5, <1>6 DEF ChunkBegin
<1>7. CASE iteration > 0
  BY <1>1, <1>2, <1>3, <1>4, <1>7 DEF ChunkBegin
<1> QED BY <1>0, <1>6, <1>7

-----------------------------------------------------------------------------
(* The initial states                                                        *)

LEMMA InvInit == PartitionerInit => PartitionerInv
<1> SUFFICES ASSUME PartitionerInit PROVE PartitionerInv
  OBVIOUS
<1> USE DEF PartitionerInit
<1>1. PartitionerTypeOK
  <2>1. 0 \in 0 .. NumIterations /\ 0 \in 0 .. NumGroups
    BY Parameters
  <2>2. id_set \in [Groups -> SUBSET Ids] /\ target \in [Groups -> Nat]
        /\ mapped \in [Groups -> SUBSET (Pages \X {"rx", "rw", "rwx"})]
    OBVIOUS
  <2>3. thread \in [Threads -> [state : {"await", "run", "exited"},
                                task : TaskRecords, j : Nat]]
    BY DEF Await, TaskRecords
  <2> QED BY <2>1, <2>2, <2>3 DEF PartitionerTypeOK
<1>2. DOMAIN corpus = {} /\ DOMAIN queue = {} /\ Tasks = {} /\ RunningTasks = {}
      /\ Chunks = {}
  BY DEF Tasks, RunningTasks, Chunks, Await
<1>3. GroupInv
  BY <1>2 DEF GroupInv
<1>4. ListInv
  <2>1. summaries = [i \in DOMAIN corpus |->
                       IF i \in Ungrouped THEN corpus[i] ELSE kNullSummary]
    BY <1>2
  <2> QED BY <2>1 DEF ListInv, Scheduling
<1>5. ~Scheduling
  BY DEF Scheduling
<1>6. TaskInv /\ OwnerInv
  BY <1>2, <1>5 DEF TaskInv, OwnerInv
<1>7. SignalInv
  BY <1>2, <1>5 DEF SignalInv, Await
<1>8. ProgressInv
  BY <1>2, <1>5 DEF ProgressInv, Waiting
<1> QED BY <1>1, <1>3, <1>4, <1>6, <1>7, <1>8 DEF PartitionerInv

-----------------------------------------------------------------------------
(* Steps that leave the list and the groups alone                            *)

SameGroups == UNCHANGED <<memory_mappings, corpus, summaries, iteration, id_set, mapped>>

LEMMA Frame ==
  ASSUME SameGroups
  PROVE  /\ \A g : First(g)' = First(g) /\ SpanOf(g)' = SpanOf(g)
         /\ \A g : Left(g)' = Left(g) /\ ChunkBegin(g)' = ChunkBegin(g)
         /\ \A g, n : Collected(g, n)' <=> Collected(g, n)
         /\ Ungrouped' = Ungrouped
         /\ GroupInv <=> GroupInv'
<1>1. \A g : First(g)' = First(g) /\ SpanOf(g)' = SpanOf(g)
  BY DEF SameGroups, First, SpanOf
<1>2. Ungrouped' = Ungrouped
  BY DEF SameGroups, Ungrouped, Grouped
<1>3. \A g : Left(g)' = Left(g)
  BY <1>1, <1>2 DEF Left
<1>4. \A g : ChunkBegin(g)' = ChunkBegin(g)
  BY <1>1, <1>3 DEF ChunkBegin, SameGroups
<1>5. \A a, S : Compatible(a, S)' <=> Compatible(a, S)
  BY DEF Compatible, SameGroups
<1>6. \A g, n : Collected(g, n)' <=> Collected(g, n)
  BY DEF Collected, Compatible, SpanOf, SameGroups
<1>7. GroupInv <=> GroupInv'
  BY DEF GroupInv, Compatible, SpanOf, SameGroups
<1> QED BY <1>1, <1>2, <1>3, <1>4, <1>6, <1>7

LEMMA TailFacts ==
  ASSUME NEW S, NEW s \in Seq(S), s # <<>>
  PROVE  /\ Tail(s) \in Seq(S) /\ Head(s) = s[1] /\ s[1] \in S /\ 1 \in DOMAIN s
         /\ \A i \in DOMAIN Tail(s) :
              i + 1 \in DOMAIN s /\ i \in Int /\ i >= 1 /\ Tail(s)[i] = s[i + 1]
         /\ \A i \in DOMAIN s : i # 1 => i - 1 \in DOMAIN Tail(s) /\ i \in Int
<1>1. Len(s) \in Nat /\ Len(s) > 0 /\ DOMAIN s = 1 .. Len(s)
  OBVIOUS
<1>2. Tail(s) \in Seq(S) /\ Len(Tail(s)) = Len(s) - 1
      /\ \A i \in 1 .. (Len(s) - 1) : Tail(s)[i] = s[i + 1]
  BY <1>1
<1>3. DOMAIN Tail(s) = 1 .. (Len(s) - 1)
  BY <1>2
<1>4. Head(s) = s[1] /\ s[1] \in S
  BY <1>1
<1> QED BY <1>1, <1>2, <1>3, <1>4

LEMMA WorkLoopStep ==
  ASSUME PartitionerInv, NEW t \in Threads, WorkLoop(t)
  PROVE  PartitionerInv'
<1>0. /\ PartitionerTypeOK /\ GroupInv /\ ListInv /\ TaskInv /\ OwnerInv
      /\ SignalInv /\ ProgressInv
  BY DEF PartitionerInv
<1> DEFINE h == queue[1]
<1>1. /\ SameGroups
      /\ UNCHANGED <<pc, target, next_group, offset>>
      /\ thread[t].state = "await" /\ queue # <<>> /\ queue' = Tail(queue)
      /\ Head(queue) = h /\ h \in TaskRecords /\ 1 \in DOMAIN queue
      /\ queue \in Seq(TaskRecords) /\ Tail(queue) \in Seq(TaskRecords)
      /\ thread' = [thread EXCEPT ![t] =
                      [state |-> IF h = Shutdown THEN "exited" ELSE "run",
                       task |-> h, j |-> h.begin]]
  <2>1. queue \in Seq(TaskRecords) /\ queue # <<>>
    BY <1>0 DEF PartitionerTypeOK, WorkLoop
  <2>2. Tail(queue) \in Seq(TaskRecords) /\ Head(queue) = h /\ h \in TaskRecords
        /\ 1 \in DOMAIN queue
    BY <2>1, TailFacts
  <2> QED BY <2>1, <2>2 DEF WorkLoop, loopVars, groupVars, SameGroups
<1>2. /\ \A i \in DOMAIN queue' :
           i + 1 \in DOMAIN queue /\ i \in Int /\ i >= 1 /\ queue'[i] = queue[i + 1]
      /\ \A i \in DOMAIN queue : i # 1 => i - 1 \in DOMAIN queue' /\ i \in Int
  BY <1>1, TailFacts
<1>3. h.begin \in Nat
  BY <1>1 DEF TaskRecords, Shutdown
<1>4. /\ thread'[t].state = (IF h = Shutdown THEN "exited" ELSE "run")
      /\ thread'[t].task = h /\ thread'[t].j = h.begin
      /\ \A u \in Threads : u # t => thread'[u] = thread[u]
  BY <1>0, <1>1 DEF PartitionerTypeOK
<1>5. PartitionerTypeOK'
  <2>1. thread' \in [Threads -> [state : {"await", "run", "exited"},
                                 task : TaskRecords, j : Nat]]
    BY <1>0, <1>1, <1>3 DEF PartitionerTypeOK
  <2> QED BY <1>0, <1>1, <2>1 DEF PartitionerTypeOK, SameGroups
<1>6. GroupInv' /\ ListInv'
  <2>1. GroupInv'
    BY <1>0, <1>1, Frame
  <2>2. ListInv'
    BY <1>0, <1>1, Frame DEF ListInv, SameGroups, Scheduling
  <2> QED BY <2>1, <2>2
<1>7. Scheduling
  BY <1>0, <1>1 DEF SignalInv
<1>8. Scheduling' /\ Scheduling
  BY <1>1, <1>7 DEF Scheduling
<1>9. CASE h = Shutdown
  <2>1. \A i \in DOMAIN queue : queue[i] = Shutdown
    <3>1. \A i \in DOMAIN queue : i \in Int /\ i >= 1
      BY <1>1
    <3> QED BY <1>0, <1>1, <1>9, <3>1 DEF SignalInv
  <2>2. /\ \A i \in DOMAIN queue' : queue'[i] = Shutdown
        /\ Tasks = {} /\ Tasks' = {}
    BY <1>2, <2>1 DEF Tasks
  <2>3. RunningTasks' = RunningTasks
    BY <1>1, <1>4, <1>9 DEF RunningTasks
  <2>4. \A u \in RunningTasks : thread'[u] = thread[u] /\ u \in Threads
    BY <1>1, <1>4 DEF RunningTasks
  <2>5. Chunks' = Chunks
    BY <2>2, <2>3, <2>4 DEF Chunks
  <2>6. TaskInv'
    <3>1. \A g : ChunkBegin(g)' = ChunkBegin(g)
      BY <1>1, Frame
    <3>2. corpus' = corpus
      BY <1>1 DEF SameGroups
    <3> QED BY <1>0, <1>1, <1>8, <2>3, <2>4, <2>5, <3>1, <3>2 DEF TaskInv
  <2>7. OwnerInv'
    BY <1>0, <2>2, <2>3, <2>4 DEF OwnerInv
  <2>8. SignalInv'
    <3>1. pc' # "schedule"
      BY <1>0, <1>1, <1>9 DEF SignalInv
    <3> QED BY <1>0, <1>8, <2>2, <2>3, <2>4, <3>1 DEF SignalInv
  <2>9. ProgressInv'
    <3>1. \A g \in Groups : (Waiting(g)' <=> Waiting(g)) /\ (Running(g)' <=> Running(g))
      BY <1>1, <1>8, <2>2, <2>3, <2>4 DEF Waiting, Running
    <3>2. \A g, n : (Collected(g, n)' <=> Collected(g, n)) /\ First(g)' = First(g)
      BY <1>1, Frame
    <3> QED BY <1>0, <1>1, <2>3, <2>4, <3>1, <3>2 DEF ProgressInv, SameGroups
  <2> QED BY <1>5, <1>6, <2>6, <2>7, <2>8, <2>9 DEF PartitionerInv
<1>10. CASE h # Shutdown
  <2>1. h \in Tasks
    BY <1>1, <1>10 DEF Tasks
  <2>2. \A i \in DOMAIN queue : i # 1 => queue[i].group # h.group
    BY <1>0, <1>1, <1>10 DEF OwnerInv
  <2>3. Tasks' = Tasks \ {h}
    <3>1. ASSUME NEW c \in Tasks' PROVE c \in Tasks \ {h}
      <4>1. PICK i \in DOMAIN queue' : c = queue'[i] /\ c # Shutdown
        BY DEF Tasks
      <4>2. i + 1 \in DOMAIN queue /\ i + 1 # 1 /\ c = queue[i + 1]
        BY <1>2, <4>1
      <4> QED BY <2>2, <4>1, <4>2 DEF Tasks
    <3>2. ASSUME NEW c \in Tasks \ {h} PROVE c \in Tasks'
      <4>1. PICK i \in DOMAIN queue : c = queue[i] /\ c # Shutdown
        BY DEF Tasks
      <4>2. i # 1 /\ i - 1 \in DOMAIN queue' /\ i \in Int
        BY <1>2, <3>2, <4>1
      <4>3. queue'[i - 1] = queue[(i - 1) + 1] /\ (i - 1) + 1 = i
        BY <1>2, <4>2
      <4> QED BY <4>1, <4>2, <4>3 DEF Tasks
    <3> QED BY <3>1, <3>2
  <2>4. RunningTasks' = RunningTasks \cup {t} /\ t \notin RunningTasks
    BY <1>1, <1>4, <1>10 DEF RunningTasks
  <2>5. \A u \in RunningTasks : u # t /\ thread'[u] = thread[u] /\ u \in Threads
    BY <1>1, <1>4 DEF RunningTasks
  <2>6. Chunks' = Chunks
    BY <1>4, <2>1, <2>3, <2>4, <2>5 DEF Chunks
  <2>7. \A c \in Tasks' : c.group # h.group
    <3>1. ASSUME NEW c \in Tasks' PROVE c.group # h.group
      <4>1. PICK i \in DOMAIN queue' : c = queue'[i]
        BY DEF Tasks
      <4>2. i + 1 \in DOMAIN queue /\ i + 1 # 1 /\ c = queue[i + 1]
        BY <1>2, <4>1
      <4> QED BY <2>2, <4>2
    <3> QED BY <3>1
  <2>8. h \in Chunks /\ h.group \in Groups /\ h.group < next_group
        /\ h.begin = ChunkBegin(h.group) /\ h.chunk_size > 0
        /\ h.begin \in Nat /\ h.chunk_size \in Nat
    <3>1. h \in Chunks
      BY <2>1 DEF Chunks
    <3>2. h.begin \in Nat /\ h.chunk_size \in Nat
      BY <1>1 DEF TaskRecords, Shutdown
    <3> QED BY <1>0, <3>1, <3>2 DEF TaskInv
  <2>9. TaskInv'
    <3>1. \A g : ChunkBegin(g)' = ChunkBegin(g)
      BY <1>1, Frame
    <3>2. corpus' = corpus
      BY <1>1 DEF SameGroups
    <3>3. \A c \in Chunks' :
            /\ c.group \in Groups /\ c.group < next_group'
            /\ c.begin = ChunkBegin(c.group)'
            /\ c.chunk_size > 0
            /\ c.begin + c.chunk_size = ChunkBegin(c.group + 1)'
      BY <1>0, <1>1, <2>6, <3>1 DEF TaskInv
    <3>4. \A u \in RunningTasks' :
            /\ thread'[u].j >= thread'[u].task.begin
            /\ thread'[u].j <= thread'[u].task.begin + thread'[u].task.chunk_size
      BY <1>0, <1>4, <2>4, <2>5, <2>8 DEF TaskInv
    <3>5. offset' = ChunkBegin(next_group)'
      BY <1>0, <1>1, <1>8, <3>1 DEF TaskInv
    <3> QED BY <1>0, <1>1, <1>8, <3>2, <3>3, <3>4, <3>5 DEF TaskInv
  <2>10. OwnerInv'
    <3>1. \A i, j \in DOMAIN queue' :
            i # j /\ queue'[i] # Shutdown => queue'[i].group # queue'[j].group
      BY <1>0, <1>2 DEF OwnerInv
    <3>2. \A u \in RunningTasks' : \A c \in Tasks' : thread'[u].task.group # c.group
      BY <1>0, <1>4, <2>3, <2>4, <2>5, <2>7 DEF OwnerInv
    <3>3. \A u, v \in RunningTasks' :
            u # v => thread'[u].task.group # thread'[v].task.group
      BY <1>0, <1>4, <2>1, <2>4, <2>5 DEF OwnerInv
    <3> QED BY <3>1, <3>2, <3>3 DEF OwnerInv
  <2>11. SignalInv'
    <3>1. \A u \in Threads : thread[u].state # "exited" /\ thread'[u].state # "exited"
      BY <1>0, <1>4, <1>10, <2>1 DEF SignalInv
    <3>2. \A i, j \in DOMAIN queue' :
            i < j /\ queue'[i] = Shutdown => queue'[j] = Shutdown
      BY <1>0, <1>2 DEF SignalInv
    <3>3. \A u \in RunningTasks' : thread'[u].task # Shutdown
      BY <1>0, <1>4, <1>10, <2>4, <2>5 DEF SignalInv
    <3>4. pc' = "schedule" => \A i \in DOMAIN queue' : queue'[i] # Shutdown
      BY <1>0, <1>1, <1>2 DEF SignalInv
    <3> QED BY <1>8, <3>1, <3>2, <3>3, <3>4 DEF SignalInv
  <2>12. ProgressInv'
    <3>1. \A g, n : (Collected(g, n)' <=> Collected(g, n)) /\ First(g)' = First(g)
      BY <1>1, Frame
    <3>2. iteration' = iteration /\ id_set' = id_set /\ next_group' = next_group
      BY <1>1 DEF SameGroups
    <3>3. ASSUME iteration = 0, NEW g \in Groups, Waiting(g)' PROVE id_set[g] = {}
      <4>1. Waiting(g)
        BY <1>8, <2>3, <3>2, <3>3 DEF Waiting
      <4> QED BY <1>0, <3>3, <4>1 DEF ProgressInv
    <3>4. ASSUME iteration = 0, NEW g \in Groups, ~Waiting(g)', ~Running(g)'
          PROVE  Collected(g, First(g + 1))
      <4>1. g # h.group
        BY <1>4, <2>4, <3>4 DEF Running
      <4>2. ~Waiting(g)
        BY <1>8, <2>3, <3>2, <3>4, <4>1 DEF Waiting
      <4>3. ~Running(g)
        BY <2>4, <2>5, <3>4 DEF Running
      <4> QED BY <1>0, <3>4, <4>2, <4>3 DEF ProgressInv
    <3>5. ASSUME iteration = 0 PROVE Collected(h.group, h.begin)
      <4>1. id_set[h.group] = {}
        BY <1>0, <2>1, <2>8, <3>5 DEF ProgressInv, Waiting
      <4>2. h.begin = First(h.group)
        BY <2>8, <3>5 DEF ChunkBegin
      <4>3. \A i \in SpanOf(h.group) : ~ i <= h.begin
        <5>1. h.group \in 0 .. NumGroups /\ h.group + 1 \in 0 .. NumGroups
          BY <2>8, Parameters
        <5>2. /\ SpanOf(h.group) = (First(h.group) + 1) .. First(h.group + 1)
              /\ First(h.group) \in Nat /\ First(h.group + 1) \in Nat
          BY <1>0, <2>8, <5>1, FirstFacts DEF PartitionerTypeOK
        <5> QED BY <4>2, <5>2
      <4> QED BY <4>1, <4>3 DEF Collected
    <3>6. ASSUME iteration = 0, NEW u \in RunningTasks'
          PROVE  Collected(thread'[u].task.group, thread'[u].j)
      BY <1>0, <1>4, <2>4, <2>5, <3>5, <3>6 DEF ProgressInv
    <3>7. iteration > 0 => \A g \in Groups : Collected(g, First(g + 1))
      BY <1>0 DEF ProgressInv
    <3>8. iteration = 0 => \A u \in RunningTasks' :
            \A g \in {thread'[u].task.group}, n \in {thread'[u].j} : Collected(g, n)'
      BY <3>1, <3>6
    <3> QED BY <3>1, <3>2, <3>3, <3>4, <3>7, <3>8 DEF ProgressInv
  <2> QED BY <1>5, <1>6, <2>9, <2>10, <2>11, <2>12 DEF PartitionerInv
<1> QED BY <1>9, <1>10

LEMMA TaskReturnsStep ==
  ASSUME PartitionerInv, NEW t \in Threads, TaskReturns(t)
  PROVE  PartitionerInv'
<1>0. /\ PartitionerTypeOK /\ GroupInv /\ ListInv /\ TaskInv /\ OwnerInv
      /\ SignalInv /\ ProgressInv
  BY DEF PartitionerInv
<1> DEFINE c == thread[t].task
<1>1. /\ SameGroups
      /\ UNCHANGED <<pc, target, next_group, offset, queue>>
      /\ thread[t].state = "run" /\ t \in RunningTasks
      /\ thread[t].j >= c.begin + c.chunk_size
      /\ thread' = [thread EXCEPT ![t] = Await]
  BY DEF TaskReturns, loopVars, groupVars, SameGroups, RunningTasks
<1>2. /\ thread'[t] = Await
      /\ \A u \in Threads : u # t => thread'[u] = thread[u]
  BY <1>0, <1>1 DEF PartitionerTypeOK
<1>3. RunningTasks' = RunningTasks \ {t} /\ Tasks' = Tasks
  BY <1>1, <1>2 DEF RunningTasks, Tasks, Await
<1>4. \A u \in RunningTasks' : u \in RunningTasks /\ u \in Threads /\ u # t
                               /\ thread'[u] = thread[u]
  BY <1>2, <1>3 DEF RunningTasks
<1>5. Chunks' \subseteq Chunks
  BY <1>3, <1>4 DEF Chunks
<1>6. Scheduling /\ Scheduling'
  BY <1>0, <1>1 DEF SignalInv, Scheduling
<1>7. PartitionerTypeOK'
  <2>1. thread' \in [Threads -> [state : {"await", "run", "exited"},
                                 task : TaskRecords, j : Nat]]
    BY <1>0, <1>1 DEF PartitionerTypeOK, Await, TaskRecords
  <2> QED BY <1>0, <1>1, <2>1 DEF PartitionerTypeOK, SameGroups
<1>8. GroupInv' /\ ListInv'
  <2>1. GroupInv'
    BY <1>0, <1>1, Frame
  <2>2. ListInv'
    BY <1>0, <1>1, Frame DEF ListInv, SameGroups, Scheduling
  <2> QED BY <2>1, <2>2
<1>9. TaskInv'
  <2>1. \A g : ChunkBegin(g)' = ChunkBegin(g)
    BY <1>1, Frame
  <2>2. corpus' = corpus
    BY <1>1 DEF SameGroups
  <2>3. offset' = ChunkBegin(next_group)'
    BY <1>0, <1>1, <1>6, <2>1 DEF TaskInv
  <2>4. \A d \in Chunks' :
          /\ d.group \in Groups /\ d.group < next_group'
          /\ d.begin = ChunkBegin(d.group)'
          /\ d.chunk_size > 0
          /\ d.begin + d.chunk_size = ChunkBegin(d.group + 1)'
    BY <1>0, <1>1, <1>5, <2>1 DEF TaskInv
  <2> QED BY <1>0, <1>1, <1>4, <1>6, <2>2, <2>3, <2>4 DEF TaskInv
<1>10. OwnerInv'
  BY <1>0, <1>1, <1>3, <1>4 DEF OwnerInv
<1>11. SignalInv'
  <2>1. \A u \in Threads : thread'[u].state = "exited" => thread[u].state = "exited"
    BY <1>2 DEF Await
  <2> QED BY <1>0, <1>1, <1>3, <1>4, <1>6, <2>1 DEF SignalInv
<1>12. ProgressInv'
  <2>1. \A g, n : (Collected(g, n)' <=> Collected(g, n)) /\ First(g)' = First(g)
    BY <1>1, Frame
  <2>2. iteration' = iteration /\ id_set' = id_set /\ next_group' = next_group
    BY <1>1 DEF SameGroups
  <2>3. \A g \in Groups : Waiting(g)' <=> Waiting(g)
    BY <1>3, <1>6, <2>2 DEF Waiting
  <2>4. ASSUME iteration = 0 PROVE Collected(c.group, First(c.group + 1))
    <3>1. c \in Chunks /\ c \in TaskRecords /\ c # Shutdown
      BY <1>0, <1>1 DEF Chunks, PartitionerTypeOK, SignalInv
    <3>2. c.begin \in Nat /\ c.chunk_size \in Nat
      BY <3>1 DEF TaskRecords, Shutdown
    <3>3. c.begin + c.chunk_size = First(c.group + 1)
      BY <1>0, <2>4, <3>1 DEF TaskInv, ChunkBegin
    <3>4. thread[t].j = First(c.group + 1)
      <4>1. thread[t].j \in Nat /\ thread[t].j <= c.begin + c.chunk_size
        BY <1>0, <1>1 DEF PartitionerTypeOK, TaskInv
      <4>2. thread[t].j >= c.begin + c.chunk_size
        BY <1>1
      <4> DEFINE s == c.begin + c.chunk_size
      <4>3. s \in Nat /\ thread[t].j <= s /\ thread[t].j >= s /\ s = First(c.group + 1)
        BY <3>2, <3>3, <4>1, <4>2
      <4> HIDE DEF s
      <4> QED BY <4>1, <4>3
    <3> QED BY <1>0, <1>1, <2>4, <3>4 DEF ProgressInv
  <2>5. ASSUME iteration = 0, NEW g \in Groups, ~Waiting(g), ~Running(g)'
        PROVE  Collected(g, First(g + 1))
    <3>1. CASE g = c.group
      BY <2>4, <2>5, <3>1
    <3>2. CASE g # c.group
      <4>1. ~Running(g)
        BY <1>2, <1>3, <2>5, <3>2 DEF Running, RunningTasks
      <4> QED BY <1>0, <2>5, <4>1 DEF ProgressInv
    <3> QED BY <3>1, <3>2
  <2>6. iteration = 0 => \A u \in RunningTasks' :
          \A g \in {thread'[u].task.group}, n \in {thread'[u].j} : Collected(g, n)'
    BY <1>0, <1>4, <2>1 DEF ProgressInv
  <2>7. iteration > 0 => \A g \in Groups : Collected(g, First(g + 1))
    BY <1>0 DEF ProgressInv
  <2>8. \A g \in Groups : iteration = 0 /\ Waiting(g) => id_set[g] = {}
    BY <1>0 DEF ProgressInv
  <2> QED BY <2>1, <2>2, <2>3, <2>5, <2>6, <2>7, <2>8 DEF ProgressInv
<1> QED BY <1>7, <1>8, <1>9, <1>10, <1>11, <1>12 DEF PartitionerInv

LEMMA ShutDownPoolStep ==
  ASSUME PartitionerInv, ShutDownPool
  PROVE  PartitionerInv'
<1>0. /\ PartitionerTypeOK /\ GroupInv /\ ListInv /\ TaskInv /\ OwnerInv
      /\ SignalInv /\ ProgressInv
  BY DEF PartitionerInv
<1> DEFINE signals == [i \in 1..Cardinality(Threads) |-> Shutdown]
<1>1. /\ SameGroups
      /\ UNCHANGED <<target, next_group, offset, thread>>
      /\ pc = "schedule" /\ pc' = "join" /\ next_group = NumGroups
      /\ queue' = queue \o signals
  BY DEF ShutDownPool, loopVars, groupVars, SameGroups
<1>2. /\ signals \in Seq(TaskRecords) /\ Len(signals) = Cardinality(Threads)
      /\ Len(signals) \in Nat
      /\ \A i \in 1 .. Len(signals) : signals[i] = Shutdown
  BY Parameters DEF TaskRecords
<1>3. queue \in Seq(TaskRecords) /\ Len(queue) \in Nat /\ DOMAIN queue = 1 .. Len(queue)
  BY <1>0 DEF PartitionerTypeOK
<1>4. /\ queue' \in Seq(TaskRecords)
      /\ DOMAIN queue' = 1 .. (Len(queue) + Len(signals))
      /\ \A i \in DOMAIN queue' :
           queue'[i] = IF i <= Len(queue) THEN queue[i] ELSE Shutdown
  <2> HIDE DEF signals
  <2>1. /\ queue \o signals \in Seq(TaskRecords)
        /\ DOMAIN (queue \o signals) = 1 .. (Len(queue) + Len(signals))
        /\ \A i \in 1 .. (Len(queue) + Len(signals)) :
             (queue \o signals)[i]
               = IF i <= Len(queue) THEN queue[i] ELSE signals[i - Len(queue)]
    BY <1>2, <1>3
  <2>2. \A i \in 1 .. (Len(queue) + Len(signals)) :
          ~ i <= Len(queue) => i - Len(queue) \in 1 .. Len(signals)
    BY <1>2, <1>3
  <2> QED BY <1>1, <1>2, <2>1, <2>2
<1> HIDE DEF signals
<1>5. /\ \A i \in DOMAIN queue : i \in DOMAIN queue' /\ queue'[i] = queue[i]
      /\ \A i \in DOMAIN queue' : i \in DOMAIN queue \/ queue'[i] = Shutdown
      /\ \A i, j \in DOMAIN queue' : i < j /\ i \notin DOMAIN queue => j \notin DOMAIN queue
  BY <1>2, <1>3, <1>4
<1>6. Tasks' = Tasks /\ RunningTasks' = RunningTasks
  BY <1>1, <1>5 DEF Tasks, RunningTasks
<1>7. Chunks' = Chunks
  BY <1>1, <1>6 DEF Chunks
<1>8. Scheduling /\ Scheduling'
  BY <1>1 DEF Scheduling
<1>9. PartitionerTypeOK'
  BY <1>0, <1>1, <1>4 DEF PartitionerTypeOK, SameGroups
<1>10. GroupInv' /\ ListInv'
  <2>1. GroupInv'
    BY <1>0, <1>1, Frame
  <2>2. ListInv'
    BY <1>0, <1>1, Frame DEF ListInv, SameGroups, Scheduling
  <2> QED BY <2>1, <2>2
<1>11. TaskInv'
  <2>1. \A g : ChunkBegin(g)' = ChunkBegin(g)
    BY <1>1, Frame
  <2>2. corpus' = corpus
    BY <1>1 DEF SameGroups
  <2> QED BY <1>0, <1>1, <1>6, <1>7, <1>8, <2>1, <2>2 DEF TaskInv
<1>12. \A i \in DOMAIN queue : queue[i] # Shutdown
  BY <1>0, <1>1 DEF SignalInv
<1>13. OwnerInv'
  <2>1. ASSUME NEW i \in DOMAIN queue', NEW j \in DOMAIN queue', i # j,
               queue'[i] # Shutdown
        PROVE  queue'[i].group # queue'[j].group
    <3>1. i \in DOMAIN queue /\ queue'[i] = queue[i]
      BY <1>5, <2>1
    <3>2. CASE j \in DOMAIN queue
      BY <1>0, <1>5, <2>1, <3>1, <3>2 DEF OwnerInv
    <3>3. CASE queue'[j] = Shutdown
      <4>1. queue[i] \in Chunks
        BY <2>1, <3>1 DEF Chunks, Tasks
      <4>2. queue[i].group \in Groups /\ -1 \notin Groups
        BY <1>0, <4>1, Parameters DEF TaskInv
      <4> QED BY <3>1, <3>3, <4>2 DEF Shutdown
    <3> QED BY <1>5, <3>2, <3>3
  <2>2. \A u \in RunningTasks' :
         /\ \A c \in Tasks' : thread'[u].task.group # c.group
         /\ \A v \in RunningTasks' :
              u # v => thread'[u].task.group # thread'[v].task.group
    BY <1>0, <1>1, <1>6 DEF OwnerInv
  <2> QED BY <2>1, <2>2 DEF OwnerInv
<1>14. SignalInv'
  <2>1. \A i, j \in DOMAIN queue' : i < j /\ queue'[i] = Shutdown => queue'[j] = Shutdown
    BY <1>5, <1>12
  <2> QED BY <1>0, <1>1, <1>6, <1>8, <2>1 DEF SignalInv
<1>15. ProgressInv'
  <2>1. \A g, n : (Collected(g, n)' <=> Collected(g, n)) /\ First(g)' = First(g)
    BY <1>1, Frame
  <2>2. \A g \in Groups : (Waiting(g)' <=> Waiting(g)) /\ (Running(g)' <=> Running(g))
    BY <1>1, <1>6, <1>8 DEF Waiting, Running
  <2> QED BY <1>0, <1>1, <1>6, <2>1, <2>2 DEF ProgressInv, SameGroups
<1> QED BY <1>9, <1>10, <1>11, <1>13, <1>14, <1>15 DEF PartitionerInv

LEMMA ScheduleGroupStep ==
  ASSUME PartitionerInv, ScheduleGroup
  PROVE  PartitionerInv'
<1>0. /\ PartitionerTypeOK /\ GroupInv /\ ListInv /\ TaskInv /\ OwnerInv
      /\ SignalInv /\ ProgressInv
  BY DEF PartitionerInv
<1> DEFINE g0 == next_group
           size == ChunkSize(g0)
           task == [group |-> g0, begin |-> offset, chunk_size |-> size]
<1>1. /\ SameGroups
      /\ UNCHANGED <<pc, target, thread>>
      /\ pc = "schedule" /\ g0 < NumGroups /\ next_group' = g0 + 1
      /\ \/ size = 0 /\ UNCHANGED <<queue, offset>>
         \/ size # 0 /\ queue' = Append(queue, task) /\ offset' = offset + size
  BY DEF ScheduleGroup, groupVars, SameGroups
<1>2. Scheduling /\ Scheduling'
  BY <1>1 DEF Scheduling
<1>3. /\ g0 \in Groups /\ g0 \in Nat /\ g0 + 1 \in 0 .. NumGroups
      /\ \A g \in Groups : g \in Int
  BY <1>0, <1>1, Parameters DEF PartitionerTypeOK
<1>4. iteration = 0 => id_set[g0] = {}
  BY <1>0, <1>3 DEF ProgressInv, Waiting
<1>5. size \in Nat /\ ChunkBegin(g0) + size = ChunkBegin(g0 + 1)
  BY <1>0, <1>2, <1>3, <1>4, ChunkSizeFacts
<1>6. offset = ChunkBegin(g0) /\ offset \in Nat
  BY <1>0, <1>2 DEF TaskInv, PartitionerTypeOK
<1> HIDE DEF size
<1>7. \A g : ChunkBegin(g)' = ChunkBegin(g)
  BY <1>1, Frame
<1>8. offset' = ChunkBegin(g0 + 1)
  BY <1>1, <1>5, <1>6
<1>9. GroupInv' /\ ListInv'
  <2>1. GroupInv'
    BY <1>0, <1>1, Frame
  <2>2. ListInv'
    BY <1>0, <1>1, Frame DEF ListInv, SameGroups, Scheduling
  <2> QED BY <2>1, <2>2
<1>10. RunningTasks' = RunningTasks
  BY <1>1 DEF RunningTasks
<1>11. \A c \in Chunks : c.group \in Groups /\ c.group # g0 /\ c.group < g0 + 1
  <2>1. \A c \in Chunks : c.group \in Groups /\ c.group < g0
    BY <1>0 DEF TaskInv
  <2>2. \A g \in Groups : g < g0 => g # g0 /\ g < g0 + 1
    BY <1>3
  <2> QED BY <2>1, <2>2
<1>12. /\ \A c \in Tasks : c \in Chunks
       /\ \A u \in RunningTasks : thread[u].task \in Chunks
  BY DEF Chunks
<1>13. \A g, n : (Collected(g, n)' <=> Collected(g, n)) /\ First(g)' = First(g)
  BY <1>1, Frame
<1>14. iteration = 0 => \A u \in RunningTasks' :
          \A g \in {thread'[u].task.group}, n \in {thread'[u].j} : Collected(g, n)'
  BY <1>0, <1>1, <1>10, <1>13 DEF ProgressInv
<1>15. iteration > 0 => \A g \in Groups : Collected(g, First(g + 1))'
  <2>1. iteration > 0 => \A g \in Groups : Collected(g, First(g + 1))
    BY <1>0 DEF ProgressInv
  <2> QED BY <1>1, <2>1 DEF Collected, SpanOf, Compatible, First, SameGroups
<1>16. CASE size = 0
  <2>1. queue' = queue /\ offset' = offset
    BY <1>1, <1>16
  <2>2. PartitionerTypeOK'
    BY <1>0, <1>1, <1>3, <2>1 DEF PartitionerTypeOK, SameGroups
  <2>3. Tasks' = Tasks /\ Chunks' = Chunks
    BY <1>1, <1>10, <2>1 DEF Tasks, Chunks
  <2>4. TaskInv'
    <3>1. offset' = ChunkBegin(next_group)'
      <4>1. ChunkBegin(next_group)' = ChunkBegin(g0 + 1)
        BY <1>1 DEF ChunkBegin, First, Left, Ungrouped, Grouped, SameGroups
      <4> QED BY <1>8, <4>1
    <3>2. \A c \in Chunks' :
            /\ c.group \in Groups /\ c.group < next_group'
            /\ c.begin = ChunkBegin(c.group)'
            /\ c.chunk_size > 0
            /\ c.begin + c.chunk_size = ChunkBegin(c.group + 1)'
      BY <1>0, <1>1, <1>7, <1>11, <2>3 DEF TaskInv
    <3>3. corpus' = corpus /\ pc' # "join"
      BY <1>1 DEF SameGroups
    <3> QED BY <1>0, <1>1, <1>2, <1>10, <3>1, <3>2, <3>3 DEF TaskInv
  <2>5. OwnerInv' /\ SignalInv'
    BY <1>0, <1>1, <1>2, <1>10, <2>1, <2>3 DEF OwnerInv, SignalInv
  <2>6. ProgressInv'
    <3>1. ASSUME iteration = 0 PROVE Collected(g0, First(g0 + 1))
      <4>1. SpanOf(g0) = {}
        <5>1. First(g0) = First(g0 + 1) /\ First(g0) \in Nat
          <6>1. g0 \in 0 .. NumGroups /\ corpus \in Seq(Ids)
            BY <1>0, <1>1 DEF PartitionerTypeOK
          <6> QED BY <1>5, <1>6, <1>16, <3>1, <6>1, FirstFacts DEF ChunkBegin
        <5>2. SpanOf(g0) = (First(g0) + 1) .. First(g0 + 1)
          BY <1>0, <1>3, FirstFacts DEF PartitionerTypeOK
        <5> QED BY <5>1, <5>2
      <4> QED BY <1>4, <3>1, <4>1 DEF Collected
    <3>2. ASSUME iteration = 0, NEW g \in Groups, Waiting(g)' PROVE id_set[g] = {}
      <4>1. Waiting(g)
        BY <1>1, <1>2, <1>3, <2>3, <3>2 DEF Waiting
      <4> QED BY <1>0, <3>2, <4>1 DEF ProgressInv
    <3>3. ASSUME iteration = 0, NEW g \in Groups, ~Waiting(g)', ~Running(g)'
          PROVE  Collected(g, First(g + 1))
      <4>1. CASE g = g0
        BY <3>1, <3>3, <4>1
      <4>2. CASE g # g0
        <5>1. ~Waiting(g)
          <6>1. ~ g >= g0 + 1 /\ ~ \E c \in Tasks : c.group = g
            BY <1>1, <2>3, <3>3 DEF Waiting
          <6>2. ~ g >= g0
            BY <1>3, <4>2, <6>1
          <6> QED BY <1>2, <6>1, <6>2 DEF Waiting
        <5>2. ~Running(g)
          BY <1>1, <1>10, <3>3 DEF Running
        <5> QED BY <1>0, <3>3, <5>1, <5>2 DEF ProgressInv
      <4> QED BY <4>1, <4>2
    <3>4. \A g : Collected(g, First(g + 1)) => Collected(g, First(g + 1))'
      BY <1>1, SMTT(30) DEF Collected, SpanOf, Compatible, First, SameGroups
    <3>5. iteration' = iteration /\ id_set' = id_set
      BY <1>1 DEF SameGroups
    <3> QED BY <1>14, <1>15, <3>2, <3>3, <3>4, <3>5 DEF ProgressInv
  <2> QED BY <1>9, <2>2, <2>4, <2>5, <2>6 DEF PartitionerInv
<1>17. CASE size # 0
  <2>1. queue' = Append(queue, task) /\ offset' = offset + size
    BY <1>1, <1>17
  <2>2. task \in TaskRecords /\ task # Shutdown
        /\ task.group = g0 /\ task.begin = offset /\ task.chunk_size = size
    BY <1>3, <1>5, <1>6 DEF TaskRecords, Shutdown
  <2> HIDE DEF task
  <2>3. /\ queue' \in Seq(TaskRecords)
        /\ DOMAIN queue' = (DOMAIN queue) \cup {Len(queue) + 1}
        /\ Len(queue) + 1 \notin DOMAIN queue
        /\ \A i \in DOMAIN queue : queue'[i] = queue[i]
        /\ queue'[Len(queue) + 1] = task
    <3>1. queue \in Seq(TaskRecords) /\ Len(queue) \in Nat
          /\ DOMAIN queue = 1 .. Len(queue)
      BY <1>0 DEF PartitionerTypeOK
    <3>2. /\ queue' \in Seq(TaskRecords) /\ Len(queue') = Len(queue) + 1
          /\ \A i \in 1 .. Len(queue) : queue'[i] = queue[i]
          /\ queue'[Len(queue) + 1] = task
      BY <2>1, <2>2, <3>1
    <3>3. DOMAIN queue' = 1 .. (Len(queue) + 1)
      BY <3>2
    <3> QED BY <3>1, <3>2, <3>3
  <2>4. PartitionerTypeOK'
    BY <1>0, <1>1, <1>3, <1>5, <2>1, <2>3 DEF PartitionerTypeOK, SameGroups
  <2>5. Tasks' = Tasks \cup {task} /\ Chunks' = Chunks \cup {task}
    BY <1>1, <1>10, <2>2, <2>3 DEF Tasks, Chunks
  <2>6. TaskInv'
    <3>1. offset' = ChunkBegin(next_group)'
      <4>1. ChunkBegin(next_group)' = ChunkBegin(g0 + 1)
        BY <1>1 DEF ChunkBegin, First, Left, Ungrouped, Grouped, SameGroups
      <4> QED BY <1>8, <4>1
    <3>2. \A c \in Chunks :
            /\ c.group \in Groups /\ c.group < next_group'
            /\ c.begin = ChunkBegin(c.group)'
            /\ c.chunk_size > 0
            /\ c.begin + c.chunk_size = ChunkBegin(c.group + 1)'
      BY <1>0, <1>1, <1>7, <1>11 DEF TaskInv
    <3>3. /\ task.group \in Groups /\ task.group < next_group'
          /\ task.begin = ChunkBegin(task.group)
          /\ task.chunk_size > 0
          /\ task.begin + task.chunk_size = ChunkBegin(task.group + 1)
      BY <1>1, <1>3, <1>5, <1>6, <1>17, <2>2
    <3>4. \A c \in Chunks' :
            /\ c.group \in Groups /\ c.group < next_group'
            /\ c.begin = ChunkBegin(c.group)'
            /\ c.chunk_size > 0
            /\ c.begin + c.chunk_size = ChunkBegin(c.group + 1)'
      <4>1. ASSUME NEW c, c = task
            PROVE  /\ c.group \in Groups /\ c.group < next_group'
                   /\ c.begin = ChunkBegin(c.group)'
                   /\ c.chunk_size > 0
                   /\ c.begin + c.chunk_size = ChunkBegin(c.group + 1)'
        BY <1>7, <3>3, <4>1
      <4> QED BY <2>5, <3>2, <4>1
    <3>5. corpus' = corpus /\ pc' # "join"
      BY <1>1 DEF SameGroups
    <3> QED BY <1>0, <1>1, <1>2, <1>10, <3>1, <3>4, <3>5 DEF TaskInv
  <2>7. \A i \in DOMAIN queue : queue[i] # Shutdown /\ queue[i] \in Tasks
    BY <1>0, <1>1 DEF SignalInv, Tasks
  <2>8. \A i \in DOMAIN queue : queue[i].group # g0
    BY <1>11, <1>12, <2>7
  <2>9. OwnerInv'
    <3>1. \A i, j \in DOMAIN queue' :
            i # j /\ queue'[i] # Shutdown => queue'[i].group # queue'[j].group
      BY <1>0, <2>2, <2>3, <2>8 DEF OwnerInv
    <3>2. \A u \in RunningTasks' : \A c \in Tasks' : thread'[u].task.group # c.group
      BY <1>0, <1>1, <1>10, <1>11, <1>12, <2>2, <2>5 DEF OwnerInv
    <3>3. \A u, v \in RunningTasks' :
            u # v => thread'[u].task.group # thread'[v].task.group
      BY <1>0, <1>1, <1>10 DEF OwnerInv
    <3> QED BY <3>1, <3>2, <3>3 DEF OwnerInv
  <2>10. SignalInv'
    <3>1. \A i \in DOMAIN queue' : queue'[i] # Shutdown
      BY <2>2, <2>3, <2>7
    <3>2. \A u \in Threads : thread'[u].state # "exited"
      BY <1>0, <1>1 DEF SignalInv
    <3>3. \A u \in RunningTasks' : thread'[u].task # Shutdown
      BY <1>0, <1>1, <1>10 DEF SignalInv
    <3> QED BY <1>2, <3>1, <3>2, <3>3 DEF SignalInv
  <2>11. ProgressInv'
    <3>1. ASSUME iteration = 0, NEW g \in Groups, Waiting(g)' PROVE id_set[g] = {}
      <4>1. Waiting(g)
        BY <1>1, <1>2, <1>3, <2>2, <2>5, <3>1 DEF Waiting
      <4> QED BY <1>0, <3>1, <4>1 DEF ProgressInv
    <3>2. ASSUME iteration = 0, NEW g \in Groups, ~Waiting(g)', ~Running(g)'
          PROVE  Collected(g, First(g + 1))
      <4>1. g # g0
        BY <2>2, <2>5, <3>2 DEF Waiting
      <4>2. ~Waiting(g)
        <5>1. ~ g >= g0 + 1 /\ ~ \E c \in Tasks : c.group = g
          BY <1>1, <2>5, <3>2 DEF Waiting
        <5>2. ~ g >= g0
          BY <1>3, <4>1, <5>1
        <5> QED BY <1>2, <5>1, <5>2 DEF Waiting
      <4>3. ~Running(g)
        BY <1>1, <1>10, <3>2 DEF Running
      <4> QED BY <1>0, <3>2, <4>2, <4>3 DEF ProgressInv
    <3>4. \A g : Collected(g, First(g + 1)) => Collected(g, First(g + 1))'
      BY <1>1, SMTT(30) DEF Collected, SpanOf, Compatible, First, SameGroups
    <3>5. iteration' = iteration /\ id_set' = id_set
      BY <1>1 DEF SameGroups
    <3> QED BY <1>14, <1>15, <3>1, <3>2, <3>4, <3>5 DEF ProgressInv
  <2> QED BY <1>9, <2>4, <2>6, <2>9, <2>10, <2>11 DEF PartitionerInv
<1> QED BY <1>16, <1>17

\* With no call of PartitionSnapshots going on the pool has nothing to do, and
\* before the first one the groups are empty.
LEMMA Quiet ==
  ASSUME PartitionerInv, ~Scheduling
  PROVE  /\ RunningTasks = {} /\ Tasks = {} /\ Chunks = {}
         /\ iteration = 0 => \A g \in Groups : id_set[g] = {}
<1>1. /\ RunningTasks = {}
      /\ queue = <<>> \/ \A t \in Threads : thread[t].state = "exited"
      /\ \A t \in Threads : thread[t].state = "exited" => Tasks = {}
  BY DEF PartitionerInv, SignalInv
<1>2. Tasks = {}
  BY <1>1, Parameters DEF Tasks
<1>3. iteration = 0 => \A g \in Groups : id_set[g] = {}
  BY DEF PartitionerInv, ProgressInv, Waiting
<1> QED BY <1>1, <1>2, <1>3 DEF Chunks

LEMMA PartitionReturnsStep ==
  ASSUME PartitionerInv, PartitionReturns
  PROVE  PartitionerInv'
<1>0. /\ PartitionerTypeOK /\ GroupInv /\ ListInv /\ TaskInv /\ OwnerInv
      /\ SignalInv /\ ProgressInv
  BY DEF PartitionerInv
<1>1. /\ SameGroups
      /\ UNCHANGED <<target, next_group, offset, queue, thread>>
      /\ pc = "iterate" /\ pc' = "done"
      /\ iteration = NumIterations \/ summaries = <<>>
  BY DEF PartitionReturns, loopVars, groupVars, poolVars, SameGroups
<1>2. ~Scheduling /\ ~Scheduling'
  BY <1>1 DEF Scheduling
<1>3. Tasks' = Tasks /\ RunningTasks' = RunningTasks /\ Chunks' = Chunks
  BY <1>1 DEF Tasks, RunningTasks, Chunks
<1>4. PartitionerTypeOK'
  BY <1>0, <1>1 DEF PartitionerTypeOK, SameGroups
<1>5. GroupInv'
  BY <1>0, <1>1, Frame
<1>6. ListInv'
  BY <1>0, <1>1, Frame DEF ListInv, SameGroups, Scheduling
<1>7. RunningTasks = {} /\ Tasks = {} /\ Chunks = {}
  BY <1>2, Quiet
<1>8. TaskInv'
  BY <1>1, <1>2, <1>3, <1>7 DEF TaskInv
<1>9. OwnerInv'
  BY <1>0, <1>1, <1>3 DEF OwnerInv
<1>10. SignalInv'
  BY <1>0, <1>1, <1>2, <1>3 DEF SignalInv
<1>11. ProgressInv'
  <2>1. \A g : Collected(g, First(g + 1)) => Collected(g, First(g + 1))'
    BY <1>1, SMTT(30) DEF Collected, SpanOf, Compatible, First, SameGroups
  <2>2. iteration' = iteration /\ id_set' = id_set
    BY <1>1 DEF SameGroups
  <2>3. iteration = 0 => \A g \in Groups : id_set[g] = {}
    BY <1>2, Quiet
  <2>4. \A g \in Groups : Waiting(g)'
    BY <1>2 DEF Waiting
  <2> QED BY <1>0, <1>3, <1>7, <2>1, <2>2, <2>3, <2>4 DEF ProgressInv
<1> QED BY <1>4, <1>5, <1>6, <1>8, <1>9, <1>10, <1>11 DEF PartitionerInv

LEMMA PartitionSnapshotsStep ==
  ASSUME PartitionerInv, PartitionSnapshots
  PROVE  PartitionerInv'
<1>0. /\ PartitionerTypeOK /\ GroupInv /\ ListInv /\ TaskInv /\ OwnerInv
      /\ SignalInv /\ ProgressInv
  BY DEF PartitionerInv
<1>1. /\ SameGroups
      /\ pc = "iterate" /\ pc' = "schedule" /\ iteration < NumIterations
      /\ target' = [g \in Groups |-> TargetGroupSize(g)]
      /\ next_group' = 0 /\ offset' = 0 /\ queue' = <<>>
      /\ thread' = [t \in Threads |-> Await]
  BY DEF PartitionSnapshots, groupVars, SameGroups
<1>2. ~Scheduling /\ Scheduling'
  BY <1>1 DEF Scheduling
<1>3. iteration = 0 => \A g \in Groups : id_set[g] = {}
  BY <1>2, Quiet
<1>4. NumSnapshots = Len(corpus)
  BY <1>0, <1>3, AllCounted
<1>5. target' = [g \in Groups |-> SpanSize(Len(corpus), NumGroups, g)]
  BY <1>1, <1>4 DEF TargetGroupSize
<1>6. /\ DOMAIN queue' = {} /\ Tasks' = {} /\ RunningTasks' = {} /\ Chunks' = {}
      /\ \A t \in Threads : thread'[t].state = "await"
  BY <1>1 DEF Tasks, RunningTasks, Chunks, Await
<1>7. PartitionerTypeOK'
  <2>1. target' \in [Groups -> Nat]
    BY <1>0, <1>5, FirstFacts DEF PartitionerTypeOK
  <2>2. thread' \in [Threads -> [state : {"await", "run", "exited"},
                                 task : TaskRecords, j : Nat]]
    BY <1>1 DEF Await, TaskRecords
  <2>3. next_group' \in 0 .. NumGroups /\ offset' \in Nat /\ queue' \in Seq(TaskRecords)
    BY <1>1, Parameters
  <2> QED BY <1>0, <1>1, <2>1, <2>2, <2>3 DEF PartitionerTypeOK, SameGroups
<1>8. GroupInv'
  BY <1>0, <1>1, Frame
<1>9. ListInv'
  BY <1>0, <1>1, Frame DEF ListInv, SameGroups, Scheduling
<1>10. TaskInv'
  <2>1. offset' = ChunkBegin(next_group)'
    <3>1. ChunkBegin(next_group)' = ChunkBegin(0)
      BY <1>1 DEF ChunkBegin, First, Left, Ungrouped, Grouped, SameGroups
    <3> QED BY <1>0, <1>1, <3>1, ChunkBeginFacts
  <2>2. corpus' = corpus
    BY <1>1 DEF SameGroups
  <2> QED BY <1>1, <1>5, <1>6, <2>1, <2>2 DEF TaskInv
<1>11. OwnerInv' /\ SignalInv'
  BY <1>2, <1>6 DEF OwnerInv, SignalInv
<1>12. ProgressInv'
  <2>1. \A g : Collected(g, First(g + 1)) => Collected(g, First(g + 1))'
    BY <1>1 DEF Collected, SpanOf, Compatible, First, SameGroups
  <2>2. iteration' = iteration /\ id_set' = id_set
    BY <1>1 DEF SameGroups
  <2>3. \A g \in Groups : Waiting(g)'
    BY <1>1, Parameters DEF Waiting
  <2> QED BY <1>0, <1>3, <1>6, <2>1, <2>2, <2>3 DEF ProgressInv
<1> QED BY <1>7, <1>8, <1>9, <1>10, <1>11, <1>12 DEF PartitionerInv

\* What std::remove and erase leave are the snapshots in no group, in order.
LEMMA RemainingFacts ==
  ASSUME PartitionerTypeOK, ListInv
  PROVE  /\ Remaining = Kept(corpus, Ungrouped)
         /\ Remaining \in Seq(Ids)
<1> DEFINE K == {i \in DOMAIN summaries : summaries[i] # kNullSummary}
<1>0. /\ corpus \in Seq(Ids) /\ iteration \in Nat
      /\ summaries \in Seq(Ids \cup {kNullSummary})
      /\ \A i \in DOMAIN corpus : corpus[i] \in Ids /\ corpus[i] # kNullSummary
  BY Parameters DEF PartitionerTypeOK
<1>1. /\ Ungrouped \in SUBSET Int /\ IsFiniteSet(Ungrouped)
      /\ Ungrouped \subseteq DOMAIN corpus
      /\ Cardinality(Ungrouped) \in Nat
  BY <1>0, UngroupedFacts
<1>2. \A i \in 1 .. Cardinality(Ungrouped) : Nth(Ungrouped, i) \in Ungrouped
  BY <1>1, NthFacts
<1>3. Remaining = Kept(summaries, K)
  BY DEF Remaining
<1>4. ASSUME iteration = 0 PROVE Remaining = Kept(corpus, Ungrouped)
  <2>1. /\ DOMAIN summaries = DOMAIN corpus
        /\ \A i \in DOMAIN summaries :
              summaries[i] = IF i \in Ungrouped THEN corpus[i] ELSE kNullSummary
    BY <1>4, ListFirst
  <2>2. K = Ungrouped
    BY <1>0, <1>1, <2>1
  <2>3. \A i \in 1 .. Cardinality(Ungrouped) :
          summaries[Nth(Ungrouped, i)] = corpus[Nth(Ungrouped, i)]
    BY <1>1, <1>2, <2>1
  <2> HIDE DEF K
  <2>4. Kept(summaries, Ungrouped) = Kept(corpus, Ungrouped)
    BY <2>3 DEF Kept
  <2> QED BY <1>3, <2>2, <2>4
<1>5. ASSUME iteration > 0 PROVE Remaining = Kept(corpus, Ungrouped)
  <2>1. /\ DOMAIN summaries = 1 .. Cardinality(Ungrouped)
        /\ \A i \in DOMAIN summaries : summaries[i] = corpus[Nth(Ungrouped, i)]
    BY <1>5, ListLater
  <2>2. K = DOMAIN summaries
    BY <1>0, <1>1, <1>2, <2>1
  <2>3. Kept(summaries, DOMAIN summaries) = summaries
    BY <1>0, KeptAll
  <2> HIDE DEF K
  <2>4. summaries = Kept(corpus, Ungrouped)
    BY <1>5 DEF ListInv
  <2>5. Remaining = Kept(summaries, DOMAIN summaries)
    BY <1>3, <2>2
  <2> QED BY <2>3, <2>4, <2>5
<1>6. Remaining = Kept(corpus, Ungrouped)
  BY <1>0, <1>4, <1>5
<1>7. Kept(corpus, Ungrouped) \in [1 .. Cardinality(Ungrouped) -> Ids]
  BY <1>0, <1>1, <1>2 DEF Kept
<1>8. Kept(corpus, Ungrouped) \in Seq(Ids)
  BY <1>1, <1>7
<1> QED BY <1>6, <1>8

LEMMA JoinPoolStep ==
  ASSUME PartitionerInv, JoinPool
  PROVE  PartitionerInv'
<1>0. /\ PartitionerTypeOK /\ GroupInv /\ ListInv /\ TaskInv /\ OwnerInv
      /\ SignalInv /\ ProgressInv
  BY DEF PartitionerInv
<1>1. /\ UNCHANGED <<memory_mappings, corpus, id_set, mapped, target, next_group,
                     offset, queue, thread>>
      /\ pc = "join" /\ pc' = "iterate"
      /\ \A t \in Threads : thread[t].state = "exited"
      /\ summaries' = Remaining /\ iteration' = iteration + 1
  BY DEF JoinPool, groupVars, poolVars
<1>2. Scheduling /\ ~Scheduling'
  BY <1>1 DEF Scheduling
<1>3. iteration \in Nat /\ iteration < NumIterations
  BY <1>0, <1>2, Parameters DEF PartitionerTypeOK, ListInv
<1>4. iteration' \in 0 .. NumIterations /\ iteration' > 0
  BY <1>1, <1>3, Parameters
<1>5. RunningTasks = {} /\ Tasks = {} /\ Chunks = {}
  <2>1. RunningTasks = {}
    BY <1>1 DEF RunningTasks
  <2>2. Tasks = {}
    BY <1>0, <1>1, Parameters DEF SignalInv
  <2> QED BY <2>1, <2>2 DEF Chunks
<1>6. RunningTasks' = {} /\ Tasks' = {} /\ Chunks' = {}
  <2>1. RunningTasks' = RunningTasks /\ Tasks' = Tasks
    BY <1>1 DEF RunningTasks, Tasks
  <2>2. Chunks' = Tasks' \cup {thread'[t].task : t \in RunningTasks'}
    BY DEF Chunks
  <2> QED BY <1>5, <2>1, <2>2
<1>7. Ungrouped' = Ungrouped
  BY <1>1 DEF Ungrouped, Grouped
<1>8. summaries' = Kept(corpus, Ungrouped) /\ summaries' \in Seq(Ids)
  BY <1>0, <1>1, RemainingFacts
<1>9. PartitionerTypeOK'
  <2>1. summaries' \in Seq(Ids \cup {kNullSummary})
    BY <1>8
  <2> QED BY <1>0, <1>1, <1>4, <2>1 DEF PartitionerTypeOK
<1>10. GroupInv'
  BY <1>0, <1>1 DEF GroupInv, Compatible, SpanOf
<1>11. ListInv'
  BY <1>1, <1>2, <1>4, <1>7, <1>8 DEF ListInv
<1>12. TaskInv'
  BY <1>1, <1>2, <1>6 DEF TaskInv
<1>13. OwnerInv'
  BY <1>0, <1>1, <1>6 DEF OwnerInv
<1>14. SignalInv'
  BY <1>0, <1>1, <1>2, <1>6 DEF SignalInv
<1>15. ProgressInv'
  <2>1. ASSUME NEW g \in Groups PROVE Collected(g, First(g + 1))
    <3>1. CASE iteration > 0
      BY <1>0, <3>1 DEF ProgressInv
    <3>2. CASE iteration = 0
      <4>1. ~Running(g)
        BY <1>5 DEF Running
      <4>2. next_group = NumGroups
        BY <1>0, <1>1 DEF TaskInv
      <4>3. ~ g >= next_group
        BY <4>2, Parameters
      <4>4. ~Waiting(g)
        BY <1>2, <1>5, <4>3 DEF Waiting
      <4> QED BY <1>0, <3>2, <4>1, <4>4 DEF ProgressInv
    <3> QED BY <1>3, <3>1, <3>2
  <2>2. \A g : Collected(g, First(g + 1)) => Collected(g, First(g + 1))'
    BY <1>1, SMTT(30) DEF Collected, SpanOf, Compatible, First
  <2> QED BY <1>4, <1>6, <2>1, <2>2 DEF ProgressInv
<1> QED BY <1>9, <1>10, <1>11, <1>12, <1>13, <1>14, <1>15 DEF PartitionerInv

LEMMA PartitionCorpusStep ==
  ASSUME PartitionerInv, NEW list \in Orders, PartitionCorpus(list)
  PROVE  PartitionerInv'
<1>0. /\ PartitionerTypeOK /\ GroupInv /\ ListInv /\ TaskInv /\ OwnerInv
      /\ SignalInv /\ ProgressInv
  BY DEF PartitionerInv
<1>1. /\ UNCHANGED <<memory_mappings, iteration, id_set, mapped, target, next_group,
                     offset, queue, thread>>
      /\ pc = "idle" /\ pc' = "iterate"
      /\ corpus' \in Sorted(list) /\ summaries' = corpus'
  BY DEF PartitionCorpus, groupVars, loopVars, poolVars
<1>2. ~Scheduling /\ ~Scheduling'
  BY <1>1 DEF Scheduling
<1>3. iteration = 0 /\ \A g \in Groups : id_set[g] = {}
  BY <1>0, <1>1, <1>2, Quiet DEF ListInv
<1>4. PICK n \in 0 .. Cardinality(Ids) :
        list \in [1 .. n -> Ids] /\ \A i, j \in 1 .. n : i # j => list[i] # list[j]
  BY DEF Orders
<1>5. n \in Nat
  BY PartitionerAssumption, Card
<1>6. PICK p \in [1 .. n -> 1 .. n] :
        /\ corpus' = [i \in 1 .. n |-> list[p[i]]]
        /\ \A i, j \in 1 .. n : i < j => p[i] # p[j]
  <2>1. DOMAIN list = 1 .. n
    BY <1>4
  <2> QED BY <1>1, <2>1 DEF Sorted
<1>7. corpus' \in [1 .. n -> Ids] /\ DOMAIN corpus' = 1 .. n
  BY <1>4, <1>6
<1>8. corpus' \in Seq(Ids)
  BY <1>5, <1>7
<1>9. \A i, j \in 1 .. n : i # j => corpus'[i] # corpus'[j]
  <2>1. \A i, j \in 1 .. n : i # j => p[i] # p[j]
    BY <1>5, <1>6
  <2>2. \A i \in 1 .. n : p[i] \in 1 .. n /\ corpus'[i] = list[p[i]]
    BY <1>6
  <2> QED BY <1>4, <2>1, <2>2
<1>10. RunningTasks' = {} /\ Tasks' = {} /\ Chunks' = {}
  <2>1. RunningTasks = {} /\ Tasks = {}
    BY <1>2, Quiet
  <2>2. RunningTasks' = RunningTasks /\ Tasks' = Tasks
    BY <1>1 DEF RunningTasks, Tasks
  <2>3. Chunks' = Tasks' \cup {thread'[t].task : t \in RunningTasks'}
    BY DEF Chunks
  <2> QED BY <2>1, <2>2, <2>3
<1>11. Ungrouped' = DOMAIN corpus'
  <2>1. \A g \in Groups : id_set'[g] = {}
    BY <1>1, <1>3
  <2>2. Grouped' = {}
    BY <2>1 DEF Grouped
  <2> QED BY <2>2 DEF Ungrouped
<1>12. PartitionerTypeOK'
  <2>1. summaries' \in Seq(Ids \cup {kNullSummary})
    BY <1>1, <1>8
  <2> QED BY <1>0, <1>1, <1>8, <2>1 DEF PartitionerTypeOK
<1>13. GroupInv'
  <2>1. \A g \in Groups : id_set'[g] = {} /\ mapped'[g] = {}
    BY <1>0, <1>1, <1>3 DEF GroupInv
  <2> QED BY <1>7, <1>9, <2>1 DEF GroupInv
<1>14. ListInv'
  <2>1. summaries' = [i \in DOMAIN corpus' |->
                        IF i \in Ungrouped' THEN corpus'[i] ELSE kNullSummary]
    BY <1>1, <1>7, <1>11
  <2> QED BY <1>1, <1>2, <1>3, <2>1 DEF ListInv
<1>15. TaskInv'
  BY <1>1, <1>2, <1>10 DEF TaskInv
<1>16. OwnerInv'
  BY <1>0, <1>1, <1>10 DEF OwnerInv
<1>17. SignalInv'
  BY <1>0, <1>1, <1>2, <1>10 DEF SignalInv
<1>18. ProgressInv'
  <2>1. \A g \in Groups : Waiting(g)'
    BY <1>2 DEF Waiting
  <2> QED BY <1>1, <1>3, <1>10, <2>1 DEF ProgressInv
<1> QED BY <1>12, <1>13, <1>14, <1>15, <1>16, <1>17, <1>18 DEF PartitionerInv

-----------------------------------------------------------------------------
(* A thread tries a summary                                                  *)

LEMMA CanAddFacts ==
  ASSUME GroupInv, NEW g \in Groups, NEW id, id \notin id_set[g]
  PROVE  CanAddSnapshot(g, id) <=> Compatible(id, id_set[g])
<1>1. mapped[g] = UNION {memory_mappings[a] : a \in id_set[g]}
  BY DEF GroupInv
<1> QED BY <1>1 DEF CanAddSnapshot, Compatible

\* After the first iteration a chunk lies in the span of its group, and has
\* only what did not go with the group.
LEMMA LaterChunk ==
  ASSUME PartitionerTypeOK, GroupInv, ListInv, ProgressInv, iteration > 0,
         NEW g \in Groups, NEW k \in (Left(g) + 1) .. Left(g + 1),
         k \in DOMAIN summaries
  PROVE  ~CanAddSnapshot(g, summaries[k])
<1> DEFINE m == Nth(Ungrouped, k)
           B(x) == {i \in Ungrouped : i < x}
           U(x) == {i \in Ungrouped : i <= x}
<1>0. /\ corpus \in Seq(Ids) /\ g \in 0 .. NumGroups /\ g + 1 \in 0 .. NumGroups
      /\ \A i \in Ungrouped : i \in Int
      /\ IsFiniteSet(Ungrouped)
  BY Parameters, UngroupedFacts DEF PartitionerTypeOK
<1>1. m \in Ungrouped /\ m \in Int /\ Cardinality(B(m)) = k - 1 /\ summaries[k] = corpus[m]
  BY <1>0, ListLater DEF Rank
<1>2. /\ Left(g) \in Nat /\ Left(g + 1) \in Nat
      /\ Left(g) = Cardinality(U(First(g))) /\ Left(g + 1) = Cardinality(U(First(g + 1)))
  BY <1>0, LeftFacts DEF Left
<1>3. First(g) \in Nat /\ First(g + 1) \in Nat /\ SpanOf(g) = (First(g) + 1) .. First(g + 1)
  BY <1>0, FirstFacts
<1>4. \A x : U(x) \in SUBSET Ungrouped /\ B(x) \in SUBSET Ungrouped
  OBVIOUS
<1>5. k \in Int /\ k > Left(g) /\ k <= Left(g + 1)
  BY <1>2
<1> HIDE DEF m
<1>a. m \in Int /\ First(g) \in Int /\ First(g + 1) \in Int
  BY <1>1, <1>3
<1>6. m > First(g)
  <2> SUFFICES ASSUME m <= First(g) PROVE FALSE
    BY <1>a
  <2>1. B(m) \subseteq U(First(g)) \ {m} /\ m \in U(First(g))
    <3>1. \A i \in Int : i < m => i <= First(g) /\ i # m
      BY <1>a
    <3>2. B(m) \subseteq U(First(g)) \ {m}
      BY <1>0, <3>1
    <3>3. m \in U(First(g))
      BY <1>1
    <3> HIDE DEF B, U
    <3> QED BY <3>2, <3>3
  <2> HIDE DEF B, U
  <2>2. IsFiniteSet(U(First(g)))
    BY <1>0, <1>4, FS_Subset
  <2>3. IsFiniteSet(U(First(g)) \ {m})
        /\ Cardinality(U(First(g)) \ {m}) = Cardinality(U(First(g))) - 1
    BY <2>1, <2>2, FS_RemoveElement
  <2>4. Cardinality(B(m)) <= Cardinality(U(First(g)) \ {m})
    BY <2>1, <2>3, FS_Subset
  <2> QED BY <1>1, <1>2, <1>5, <2>3, <2>4
<1>7. m <= First(g + 1)
  <2> SUFFICES ASSUME m > First(g + 1) PROVE FALSE
    BY <1>a
  <2>1. U(First(g + 1)) \subseteq B(m)
    <3>1. \A i \in Int : i <= First(g + 1) => i < m
      BY <1>a
    <3> QED BY <1>0, <3>1
  <2> HIDE DEF B, U
  <2>2. IsFiniteSet(B(m))
    BY <1>0, <1>4, FS_Subset
  <2>3. Cardinality(U(First(g + 1))) <= Cardinality(B(m))
    BY <2>1, <2>2, FS_Subset
  <2> QED BY <1>1, <1>2, <1>5, <2>3
<1>8. m \in SpanOf(g)
  BY <1>1, <1>3, <1>6, <1>7
<1>9. corpus[m] \notin id_set[g]
  BY <1>0, <1>1, <1>8, OwnGroup
<1>10. Collected(g, First(g + 1))
  BY DEF ProgressInv
<1>11. ~Compatible(corpus[m], id_set[g] \cap
                       {corpus[i] : i \in {i \in SpanOf(g) : i < m}})
  BY <1>7, <1>8, <1>9, <1>10 DEF Collected
<1>12. ~Compatible(corpus[m], id_set[g])
  BY <1>11 DEF Compatible
<1> QED BY <1>1, <1>9, <1>12, CanAddFacts

\* What one pass over the span, up to n, takes if it takes what is in S.
Taken(g, n, S) ==
    {corpus[i] : i \in
      {i \in SpanOf(g) :
         /\ i <= n
         /\ Compatible(corpus[i], S \cap {corpus[k] : k \in {k \in SpanOf(g) : k < i}})}}

\* One more snapshot of the span in the first iteration.
LEMMA CollectOne ==
  ASSUME corpus \in Seq(Ids), GroupInv, NEW g \in Groups, NEW k \in SpanOf(g),
         Collected(g, k - 1), NEW S,
         S = IF Compatible(corpus[k], id_set[g])
             THEN id_set[g] \cup {corpus[k]} ELSE id_set[g]
  PROVE  corpus[k] \notin id_set[g] /\ S = Taken(g, k, S)
<1> DEFINE P(i) == {corpus[l] : l \in {l \in SpanOf(g) : l < i}}
           I == id_set[g]
<1>0. \A i \in SpanOf(g) : i \in Int /\ i \in DOMAIN corpus
  BY SpanFacts
<1>1. \A i, l \in SpanOf(g) : corpus[i] = corpus[l] => i = l
  BY <1>0 DEF GroupInv
<1>2. I = {corpus[i] : i \in {i \in SpanOf(g) :
                                i <= k - 1 /\ Compatible(corpus[i], I \cap P(i))}}
  BY DEF Collected
<1>3. \A a \in I : \E i \in SpanOf(g) : i <= k - 1 /\ a = corpus[i]
  BY <1>2
<1>4. corpus[k] \notin I
  BY <1>0, <1>1, <1>3
<1>5. I \cap P(k) = I
  <2>1. \A i \in SpanOf(g) : i <= k - 1 => i < k
    BY <1>0
  <2> QED BY <1>3, <2>1
<1>6. \A i \in SpanOf(g) : i <= k => corpus[k] \notin P(i)
  BY <1>0, <1>1
<1>7. \A i \in SpanOf(g) : i <= k => S \cap P(i) = I \cap P(i)
  BY <1>6
<1>8. \A i \in SpanOf(g) : i <= k <=> i <= k - 1 \/ i = k
  BY <1>0
<1>9. \A i \in SpanOf(g) : i <= k - 1 =>
        (corpus[i] \in I <=> Compatible(corpus[i], I \cap P(i)))
  BY <1>1, <1>2, ZenonT(60)
<1>10. corpus[k] \in S <=> Compatible(corpus[k], I \cap P(k))
  BY <1>4, <1>5
<1>11. \A i \in SpanOf(g) : i <= k =>
        (corpus[i] \in S <=> Compatible(corpus[i], S \cap P(i)))
  <2>1. ASSUME NEW i \in SpanOf(g), i <= k - 1
        PROVE  corpus[i] \in S <=> Compatible(corpus[i], S \cap P(i))
    <3>1. i # k /\ i <= k
      BY <1>0, <2>1
    <3>2. corpus[i] \in S <=> corpus[i] \in I
      BY <1>1, <3>1
    <3>3. S \cap P(i) = I \cap P(i)
      BY <1>7, <3>1
    <3> HIDE DEF P, I
    <3> QED BY <1>9, <2>1, <3>2, <3>3
  <2>2. corpus[k] \in S <=> Compatible(corpus[k], S \cap P(k))
    <3>1. S \cap P(k) = I \cap P(k)
      BY <1>0, <1>7
    <3> HIDE DEF P, I
    <3> QED BY <1>10, <3>1
  <2> HIDE DEF P, I
  <2> QED BY <1>8, <2>1, <2>2
<1>12. \A a \in S : \E i \in SpanOf(g) : i <= k /\ a = corpus[i]
  <2>1. k <= k
    BY <1>0
  <2> QED BY <1>3, <1>8, <2>1
<1>13. S = {corpus[i] : i \in {i \in SpanOf(g) : i <= k /\ Compatible(corpus[i], S \cap P(i))}}
  <2> HIDE DEF P
  <2>1. ASSUME NEW a \in S
        PROVE  \E i \in SpanOf(g) :
                 i <= k /\ Compatible(corpus[i], S \cap P(i)) /\ a = corpus[i]
    <3>1. PICK i \in SpanOf(g) : i <= k /\ a = corpus[i]
      BY <1>12
    <3>2. Compatible(corpus[i], S \cap P(i))
      BY <1>11, <3>1
    <3> QED BY <3>1, <3>2
  <2>2. ASSUME NEW i \in SpanOf(g), i <= k, Compatible(corpus[i], S \cap P(i))
        PROVE  corpus[i] \in S
    BY <1>11, <2>2
  <2> DEFINE Q == {i \in SpanOf(g) : i <= k /\ Compatible(corpus[i], S \cap P(i))}
  <2>3. \A a \in S : \E i \in Q : a = corpus[i]
    BY <2>1
  <2>4. \A i \in Q : corpus[i] \in S
    BY <2>2
  <2> HIDE DEF Q
  <2>5. S = {corpus[i] : i \in Q}
    BY <2>3, <2>4
  <2> QED BY <2>5 DEF Q
<1>14. S = Taken(g, k, S)
  BY <1>13 DEF Taken
<1> QED BY <1>4, <1>14

LEMMA TryFacts ==
  ASSUME PartitionerTypeOK, GroupInv, ListInv, TaskInv, SignalInv,
         NEW t \in RunningTasks, NEW c, NEW k,
         c = thread[t].task, k = thread[t].j + 1,
         thread[t].j < c.begin + c.chunk_size
  PROVE  /\ c \in Chunks /\ c.begin \in Nat /\ thread[t].j >= c.begin
         /\ c.group \in Groups
         /\ ChunkBegin(c.group) \in Nat /\ ChunkBegin(c.group + 1) \in Nat
         /\ k \in (ChunkBegin(c.group) + 1) .. ChunkBegin(c.group + 1)
         /\ k \in DOMAIN summaries /\ k \in Nat
         /\ k - 1 = thread[t].j /\ k <= c.begin + c.chunk_size
<1> DEFINE G == c.group
<1>2. c \in Chunks /\ c \in TaskRecords /\ c # Shutdown /\ thread[t].j \in Nat
  BY DEF Chunks, PartitionerTypeOK, SignalInv, RunningTasks
<1>3. /\ G \in Groups /\ G \in 0 .. NumGroups /\ G + 1 \in 0 .. NumGroups
      /\ c.begin \in Nat /\ c.chunk_size \in Nat
      /\ c.begin = ChunkBegin(G) /\ c.begin + c.chunk_size = ChunkBegin(G + 1)
      /\ thread[t].j >= c.begin
  <2>1. G \in Groups /\ c.begin = ChunkBegin(G) /\ c.begin + c.chunk_size = ChunkBegin(G + 1)
        /\ thread[t].j >= c.begin
    BY <1>2 DEF TaskInv
  <2>2. c.begin \in Nat /\ c.chunk_size \in Nat
    BY <1>2 DEF TaskRecords, Shutdown
  <2>3. G \in 0 .. NumGroups /\ G + 1 \in 0 .. NumGroups
    BY <2>1, Parameters
  <2> QED BY <2>1, <2>2, <2>3
<1>4. /\ ChunkBegin(G) \in Nat /\ ChunkBegin(G + 1) \in Nat
      /\ k \in (ChunkBegin(G) + 1) .. ChunkBegin(G + 1)
      /\ k \in DOMAIN summaries /\ k \in Nat
      /\ k - 1 = thread[t].j /\ k <= c.begin + c.chunk_size
  <2> DEFINE j == thread[t].j
             a == ChunkBegin(G)
             b == ChunkBegin(G + 1)
  <2>1. /\ j \in Nat /\ j >= a /\ j < b /\ a \in Nat /\ b \in Nat
        /\ b <= Len(summaries) /\ k = j + 1 /\ b = c.begin + c.chunk_size
    BY <1>2, <1>3, ChunkBeginFacts
  <2>2. DOMAIN summaries = 1 .. Len(summaries) /\ Len(summaries) \in Nat
    BY DEF PartitionerTypeOK
  <2> HIDE DEF j, a, b
  <2>3. /\ k \in (a + 1) .. b /\ k \in 1 .. Len(summaries) /\ k \in Nat
        /\ k - 1 = j /\ k <= b
    BY <2>1, <2>2
  <2> QED BY <2>1, <2>2, <2>3 DEF j, a, b
<1> QED BY <1>2, <1>3, <1>4

\* After the first iteration no summary is placed.
LEMMA LaterTry ==
  ASSUME PartitionerInv, NEW t \in Threads, TrySummary(t), iteration > 0
  PROVE  UNCHANGED <<id_set, mapped, summaries>>
<1> DEFINE c == thread[t].task
           k == thread[t].j + 1
<1>0. /\ PartitionerTypeOK /\ GroupInv /\ ListInv /\ TaskInv /\ SignalInv /\ ProgressInv
  BY DEF PartitionerInv
<1>1. /\ t \in RunningTasks /\ thread[t].j < c.begin + c.chunk_size
      /\ \/ CanAddSnapshot(c.group, summaries[k])
         \/ UNCHANGED <<id_set, mapped, summaries>>
  BY DEF TrySummary, groupVars, RunningTasks
<1>2. /\ c.group \in Groups /\ k \in DOMAIN summaries
      /\ k \in (ChunkBegin(c.group) + 1) .. ChunkBegin(c.group + 1)
  BY <1>0, <1>1, TryFacts
<1> HIDE DEF k
<1>3. k \in (Left(c.group) + 1) .. Left(c.group + 1)
  BY <1>2 DEF ChunkBegin
<1>4. ~CanAddSnapshot(c.group, summaries[k])
  BY <1>0, <1>2, <1>3, LaterChunk
<1> QED BY <1>1, <1>4

LEMMA TrySummaryStep ==
  ASSUME PartitionerInv, NEW t \in Threads, TrySummary(t)
  PROVE  PartitionerInv'
<1>0. /\ PartitionerTypeOK /\ GroupInv /\ ListInv /\ TaskInv /\ OwnerInv
      /\ SignalInv /\ ProgressInv
  BY DEF PartitionerInv
<1> DEFINE c == thread[t].task
           G == c.group
           k == thread[t].j + 1
           id == summaries[k]
<1>1. /\ UNCHANGED <<memory_mappings, pc, corpus, iteration, target, next_group,
                     offset, queue>>
      /\ thread[t].state = "run" /\ t \in RunningTasks
      /\ thread[t].j < c.begin + c.chunk_size
      /\ thread' = [thread EXCEPT ![t].j = k]
      /\ \/ /\ CanAddSnapshot(G, id)
            /\ mapped' = [mapped EXCEPT ![G] = @ \cup memory_mappings[id]]
            /\ id_set' = [id_set EXCEPT ![G] = @ \cup {id}]
            /\ summaries' = [summaries EXCEPT ![k] = kNullSummary]
         \/ ~CanAddSnapshot(G, id) /\ UNCHANGED <<id_set, mapped, summaries>>
  BY DEF TrySummary, AddSnapshot, loopVars, groupVars, RunningTasks
<1>2. /\ c \in Chunks /\ c.begin \in Nat /\ thread[t].j >= c.begin
      /\ G \in Groups
      /\ ChunkBegin(G) \in Nat /\ ChunkBegin(G + 1) \in Nat
      /\ k \in (ChunkBegin(G) + 1) .. ChunkBegin(G + 1)
      /\ k \in DOMAIN summaries /\ k \in Nat
      /\ k - 1 = thread[t].j /\ k <= c.begin + c.chunk_size
  BY <1>0, <1>1, TryFacts
<1>3. G \in Groups
  BY <1>2
<1>4. /\ ChunkBegin(G) \in Nat /\ ChunkBegin(G + 1) \in Nat
      /\ k \in (ChunkBegin(G) + 1) .. ChunkBegin(G + 1)
      /\ k \in DOMAIN summaries /\ k \in Nat
      /\ k - 1 = thread[t].j /\ k <= c.begin + c.chunk_size
  BY <1>2
<1> HIDE DEF k
<1>5. corpus \in Seq(Ids) /\ iteration \in Nat
  BY <1>0, Parameters DEF PartitionerTypeOK
<1>6. /\ thread'[t].state = thread[t].state /\ thread'[t].task = thread[t].task
      /\ thread'[t].j = k
      /\ \A u \in Threads : u # t => thread'[u] = thread[u]
  BY <1>0, <1>1 DEF PartitionerTypeOK
<1>7. /\ \A u \in Threads : thread'[u].state = thread[u].state
                            /\ thread'[u].task = thread[u].task
      /\ Tasks' = Tasks /\ RunningTasks' = RunningTasks
      /\ \A u \in RunningTasks : u \in Threads
  <2>1. \A u \in Threads : thread'[u].state = thread[u].state
                           /\ thread'[u].task = thread[u].task
    BY <1>6
  <2> QED BY <1>1, <2>1 DEF Tasks, RunningTasks
<1>8. Chunks' = Chunks
  BY <1>7 DEF Chunks
<1>9. Scheduling /\ Scheduling'
  BY <1>0, <1>1 DEF SignalInv, Scheduling
<1>10. /\ \A g : First(g)' = First(g) /\ SpanOf(g)' = SpanOf(g)
       /\ \A a, S : Compatible(a, S)' <=> Compatible(a, S)
  BY <1>1 DEF First, SpanOf, Compatible
<1>11. ASSUME iteration > 0 PROVE SameGroups
  BY <1>1, <1>11, LaterTry DEF SameGroups
<1>12. \A g : ChunkBegin(g)' = ChunkBegin(g)
  <2>1. CASE iteration = 0
    BY <1>1, <1>10, <2>1 DEF ChunkBegin
  <2>2. CASE iteration > 0
    BY <1>11, <2>2, Frame
  <2> QED BY <1>5, <2>1, <2>2
<1>13. TaskInv'
  <2>1. \A d \in Chunks' :
          /\ d.group \in Groups /\ d.group < next_group'
          /\ d.begin = ChunkBegin(d.group)'
          /\ d.chunk_size > 0
          /\ d.begin + d.chunk_size = ChunkBegin(d.group + 1)'
    BY <1>0, <1>1, <1>8, <1>12 DEF TaskInv
  <2>2. offset' = ChunkBegin(next_group)'
    BY <1>0, <1>1, <1>9, <1>12 DEF TaskInv
  <2>3. k >= c.begin
    <3>1. thread[t].j \in Nat
      BY <1>0 DEF PartitionerTypeOK
    <3>2. k \in Nat /\ k - 1 = thread[t].j /\ thread[t].j >= c.begin /\ c.begin \in Nat
      BY <1>2
    <3> HIDE DEF c
    <3> QED BY <3>1, <3>2
  <2>4. \A u \in RunningTasks' :
          /\ thread'[u].j >= thread'[u].task.begin
          /\ thread'[u].j <= thread'[u].task.begin + thread'[u].task.chunk_size
    BY <1>0, <1>4, <1>6, <1>7, <2>3 DEF TaskInv
  <2> QED BY <1>0, <1>1, <1>9, <2>1, <2>2, <2>4 DEF TaskInv
<1>14. OwnerInv'
  BY <1>0, <1>1, <1>7 DEF OwnerInv
<1>15. SignalInv'
  BY <1>0, <1>1, <1>7, <1>9 DEF SignalInv
<1>16. /\ thread' \in [Threads -> [state : {"await", "run", "exited"},
                                   task : TaskRecords, j : Nat]]
  BY <1>0, <1>1, <1>4 DEF PartitionerTypeOK
<1>17. CASE iteration > 0
  <2>1. SameGroups
    BY <1>11, <1>17
  <2>2. PartitionerTypeOK'
    BY <1>0, <1>1, <1>16, <2>1 DEF PartitionerTypeOK, SameGroups
  <2>3. GroupInv'
    BY <1>0, <2>1, Frame
  <2>4. ListInv'
    BY <1>0, <1>1, <2>1, Frame DEF ListInv, SameGroups, Scheduling
  <2>5. ProgressInv'
    <3>1. \A g : Collected(g, First(g + 1)) => Collected(g, First(g + 1))'
      BY <2>1 DEF Collected, SpanOf, Compatible, First, SameGroups
    <3> QED BY <1>0, <1>1, <1>17, <3>1 DEF ProgressInv
  <2> QED BY <1>13, <1>14, <1>15, <2>2, <2>3, <2>4, <2>5 DEF PartitionerInv
<1>18. CASE iteration = 0
  <2> DEFINE I == id_set[G]
             J == id_set'[G]
  <2>1. k \in SpanOf(G) /\ k \in DOMAIN corpus
    <3>1. ChunkBegin(G) = First(G) /\ ChunkBegin(G + 1) = First(G + 1)
      BY <1>18 DEF ChunkBegin
    <3>2. SpanOf(G) = (First(G) + 1) .. First(G + 1)
      BY <1>3, <1>5, FirstFacts
    <3> QED BY <1>3, <1>4, <1>5, <3>1, <3>2, SpanFacts
  <2>2. Collected(G, k - 1)
    BY <1>0, <1>1, <1>4, <1>18 DEF ProgressInv
  <2>3. corpus[k] \notin I
    BY <1>0, <1>3, <1>5, <2>1, <2>2, CollectOne
  <2>4. k \in Ungrouped
    BY <1>0, <1>3, <1>5, <2>1, <2>3, OwnGroup
  <2>5. id = corpus[k] /\ id \in Ids /\ corpus[k] \in Ids
    BY <1>0, <1>4, <1>5, <1>18, <2>1, <2>4, ListFirst
  <2>6. CanAddSnapshot(G, id) <=> Compatible(corpus[k], I)
    BY <1>0, <1>3, <2>3, <2>5, CanAddFacts
  <2>7. /\ id_set' \in [Groups -> SUBSET Ids]
        /\ J = IF Compatible(corpus[k], I) THEN I \cup {corpus[k]} ELSE I
        /\ \A g \in Groups : g # G => id_set'[g] = id_set[g]
    <3>1. id_set \in [Groups -> SUBSET Ids] /\ G \in Groups /\ corpus[k] \in Ids
      BY <1>0, <1>3, <2>5 DEF PartitionerTypeOK
    <3>2. id_set' = IF Compatible(corpus[k], I)
                    THEN [id_set EXCEPT ![G] = @ \cup {corpus[k]}] ELSE id_set
      BY <1>1, <2>5, <2>6
    <3> HIDE DEF G
    <3> QED BY <3>1, <3>2
  <2>8. /\ mapped' \in [Groups -> SUBSET (Pages \X {"rx", "rw", "rwx"})]
        /\ mapped'[G] = IF Compatible(corpus[k], I)
                        THEN mapped[G] \cup memory_mappings[corpus[k]] ELSE mapped[G]
        /\ \A g \in Groups : g # G => mapped'[g] = mapped[g]
    <3>1. memory_mappings \in [Ids -> SUBSET (Pages \X {"rx", "rw", "rwx"})]
      BY <1>0, PartitionerAssumption DEF PartitionerTypeOK
    <3>2. memory_mappings[corpus[k]] \in SUBSET (Pages \X {"rx", "rw", "rwx"})
      BY <2>5, <3>1
    <3>3. mapped \in [Groups -> SUBSET (Pages \X {"rx", "rw", "rwx"})] /\ G \in Groups
      BY <1>0, <1>3 DEF PartitionerTypeOK
    <3>4. mapped' = IF Compatible(corpus[k], I)
                    THEN [mapped EXCEPT ![G] = @ \cup memory_mappings[corpus[k]]]
                    ELSE mapped
      BY <1>1, <2>5, <2>6
    <3> HIDE DEF G
    <3> QED BY <3>2, <3>3, <3>4
  <2>9. summaries' = IF Compatible(corpus[k], I)
                     THEN [summaries EXCEPT ![k] = kNullSummary] ELSE summaries
    BY <1>1, <2>6
  <2>10. PartitionerTypeOK'
    <3>1. summaries' \in Seq(Ids \cup {kNullSummary})
      <4>1. /\ summaries \in Seq(Ids \cup {kNullSummary}) /\ Len(summaries) \in Nat
            /\ DOMAIN summaries = 1 .. Len(summaries) /\ k \in DOMAIN summaries
        BY <1>0, <1>4 DEF PartitionerTypeOK
      <4>2. [summaries EXCEPT ![k] = kNullSummary]
              \in [1 .. Len(summaries) -> Ids \cup {kNullSummary}]
        BY <4>1
      <4>3. [summaries EXCEPT ![k] = kNullSummary] \in Seq(Ids \cup {kNullSummary})
        BY <4>1, <4>2
      <4> QED BY <2>9, <4>1, <4>3
    <3> QED BY <1>0, <1>1, <1>16, <2>7, <2>8, <3>1 DEF PartitionerTypeOK
  <2>11. GroupInv'
    <3>1. \A i, j \in DOMAIN corpus' : i # j => corpus'[i] # corpus'[j]
      BY <1>0, <1>1 DEF GroupInv
    <3>2. ASSUME NEW g \in Groups
          PROVE  /\ id_set'[g] \subseteq {corpus'[i] : i \in SpanOf(g)'}
                 /\ mapped'[g] = UNION {memory_mappings'[a] : a \in id_set'[g]}
                 /\ \A a \in id_set'[g] :
                      \A S \in {id_set'[g] \ {a}} : Compatible(a, S)'
      <4>0. /\ id_set[g] \subseteq {corpus[i] : i \in SpanOf(g)}
            /\ mapped[g] = UNION {memory_mappings[a] : a \in id_set[g]}
            /\ \A a \in id_set[g] : Compatible(a, id_set[g] \ {a})
        BY <1>0 DEF GroupInv
      <4>1. CASE id_set'[g] = id_set[g] /\ mapped'[g] = mapped[g]
        BY <1>1, <1>10, <4>0, <4>1
      <4>2. CASE g = G /\ Compatible(corpus[k], I)
        <5>1. id_set'[g] = id_set[g] \cup {corpus[k]}
              /\ mapped'[g] = mapped[g] \cup memory_mappings[corpus[k]]
          BY <2>7, <2>8, <4>2
        <5>2. id_set'[g] \subseteq {corpus'[i] : i \in SpanOf(g)'}
          BY <1>1, <1>10, <2>1, <4>0, <4>2, <5>1
        <5>3. mapped'[g] = UNION {memory_mappings'[a] : a \in id_set'[g]}
          BY <1>1, <4>0, <5>1
        <5>4. ASSUME NEW a \in id_set'[g] PROVE Compatible(a, id_set'[g] \ {a})
          <6>1. CASE a = corpus[k]
            <7>1. id_set'[g] \ {a} \subseteq I
              BY <4>2, <5>1, <6>1
            <7> QED BY <4>2, <6>1, <7>1 DEF Compatible
          <6>2. CASE a # corpus[k]
            <7>1. a \in id_set[g] /\ Compatible(a, id_set[g] \ {a})
              BY <4>0, <5>1, <6>2
            <7>2. \A x \in memory_mappings[a], y \in memory_mappings[corpus[k]] :
                    x[1] = y[1] => Writable(x[2]) /\ x[2] = y[2]
              BY <4>2, <7>1 DEF Compatible
            <7>3. \A o \in id_set'[g] \ {a} : o \in id_set[g] \ {a} \/ o = corpus[k]
              BY <5>1
            <7> QED BY <7>1, <7>2, <7>3 DEF Compatible
          <6> QED BY <6>1, <6>2
        <5> QED BY <1>10, <5>2, <5>3, <5>4
      <4>3. \/ id_set'[g] = id_set[g] /\ mapped'[g] = mapped[g]
            \/ g = G /\ Compatible(corpus[k], I)
        BY <2>7, <2>8
      <4> QED BY <4>1, <4>2, <4>3
    <3> QED BY <3>1, <3>2 DEF GroupInv
  <2>12. ListInv'
    <3>1. Grouped' = IF Compatible(corpus[k], I) THEN Grouped \cup {corpus[k]} ELSE Grouped
      BY <1>3, <2>7 DEF Grouped
    <3>2. Ungrouped' = IF Compatible(corpus[k], I) THEN Ungrouped \ {k} ELSE Ungrouped
      <4>1. \A i \in DOMAIN corpus : corpus[i] = corpus[k] => i = k
        BY <1>0, <2>1 DEF GroupInv
      <4> QED BY <1>1, <3>1, <4>1 DEF Ungrouped
    <3>3. summaries = [i \in DOMAIN corpus |->
                         IF i \in Ungrouped THEN corpus[i] ELSE kNullSummary]
      BY <1>0, <1>18 DEF ListInv
    <3>4. summaries' = [i \in DOMAIN corpus' |->
                          IF i \in Ungrouped' THEN corpus'[i] ELSE kNullSummary]
      BY <1>1, <2>1, <2>9, <3>2, <3>3
    <3> QED BY <1>0, <1>1, <1>18, <3>4 DEF ListInv, Scheduling
  <2>13. ProgressInv'
    <3>1. J = Taken(G, k, J)
      <4>1. \A S : S = (IF Compatible(corpus[k], I) THEN I \cup {corpus[k]} ELSE I) =>
              S = Taken(G, k, S)
        <5> HIDE DEF G
        <5> QED BY <1>0, <1>3, <1>5, <2>1, <2>2, CollectOne
      <4> HIDE DEF G, I, J
      <4> QED BY <2>7, <4>1
    <3>2. \A g \in {G}, n \in {k} : Collected(g, n)'
      BY <1>1, <3>1 DEF Collected, Taken, SpanOf, Compatible
    <3>3. \A g \in Groups : g # G => \A n : Collected(g, n) => Collected(g, n)'
      BY <1>1, <2>7 DEF Collected, SpanOf, Compatible
    <3>4. ~Waiting(G) /\ Running(G)
      <4>1. \A d \in Tasks : d.group # G
        BY <1>0, <1>1 DEF OwnerInv
      <4>2. ~ G >= next_group
        <5>1. G < next_group /\ next_group \in Int /\ G \in Int
          BY <1>0, <1>2, <1>3, Parameters DEF TaskInv, PartitionerTypeOK
        <5> QED BY <5>1
      <4> QED BY <1>1, <1>9, <4>1, <4>2 DEF Waiting, Running
    <3>5. \A g \in Groups : (Waiting(g)' <=> Waiting(g)) /\ (Running(g)' <=> Running(g))
      BY <1>1, <1>7, <1>9 DEF Waiting, Running
    <3>6. ASSUME NEW g \in Groups, Waiting(g) PROVE id_set'[g] = {}
      BY <1>0, <1>18, <2>7, <3>4, <3>6 DEF ProgressInv
    <3>7. ASSUME NEW g \in Groups, ~Waiting(g), ~Running(g)
          PROVE  Collected(g, First(g + 1))'
      <4>1. g # G /\ Collected(g, First(g + 1))
        BY <1>0, <1>18, <3>4, <3>7 DEF ProgressInv
      <4>2. \A n : Collected(g, n) => Collected(g, n)'
        BY <3>3, <4>1
      <4> QED BY <1>10, <4>1, <4>2
    <3>8. ASSUME NEW u \in RunningTasks'
          PROVE  \A g \in {thread'[u].task.group}, n \in {thread'[u].j} : Collected(g, n)'
      <4>1. CASE u = t
        BY <1>6, <3>2, <4>1
      <4>2. CASE u # t
        <5>1. /\ u \in RunningTasks /\ thread'[u] = thread[u]
              /\ thread[u].task.group # G /\ thread[u].task.group \in Groups
          BY <1>0, <1>1, <1>6, <1>7, <4>2 DEF OwnerInv, TaskInv, Chunks
        <5>2. Collected(thread[u].task.group, thread[u].j)
          BY <1>0, <1>18, <5>1 DEF ProgressInv
        <5> QED BY <3>3, <5>1, <5>2
      <4> QED BY <4>1, <4>2
    <3> QED BY <1>1, <1>18, <3>5, <3>6, <3>7, <3>8 DEF ProgressInv
  <2> QED BY <1>13, <1>14, <1>15, <2>10, <2>11, <2>12, <2>13 DEF PartitionerInv
<1> QED BY <1>5, <1>17, <1>18

-----------------------------------------------------------------------------
(* The theorems                                                              *)

LEMMA StutterStep ==
  ASSUME PartitionerInv, UNCHANGED partitionerVars
  PROVE  PartitionerInv'
<1>0. /\ PartitionerTypeOK /\ GroupInv /\ ListInv /\ TaskInv /\ OwnerInv
      /\ SignalInv /\ ProgressInv
  BY DEF PartitionerInv
<1>1. /\ SameGroups
      /\ UNCHANGED <<pc, target, next_group, offset, queue, thread>>
  BY DEF partitionerVars, groupVars, loopVars, poolVars, SameGroups
<1>2. /\ RunningTasks' = RunningTasks /\ Tasks' = Tasks
      /\ (Scheduling' <=> Scheduling)
  BY <1>1 DEF RunningTasks, Tasks, Scheduling
<1>3. Chunks' = Chunks
  BY <1>1, <1>2 DEF Chunks
<1>4. PartitionerTypeOK'
  BY <1>0, <1>1 DEF PartitionerTypeOK, SameGroups
<1>5. GroupInv'
  BY <1>0, <1>1, Frame
<1>6. ListInv'
  BY <1>0, <1>1, Frame DEF ListInv, SameGroups, Scheduling
<1>7. TaskInv'
  <2>1. \A g : ChunkBegin(g)' = ChunkBegin(g)
    BY <1>1, Frame
  <2>2. corpus' = corpus
    BY <1>1 DEF SameGroups
  <2> QED BY <1>0, <1>1, <1>2, <1>3, <2>1, <2>2 DEF TaskInv
<1>8. OwnerInv' /\ SignalInv'
  BY <1>0, <1>1, <1>2 DEF OwnerInv, SignalInv
<1>9. ProgressInv'
  <2>1. \A g, n : (Collected(g, n)' <=> Collected(g, n)) /\ First(g)' = First(g)
    BY <1>1, Frame
  <2>2. \A g \in Groups : (Waiting(g)' <=> Waiting(g)) /\ (Running(g)' <=> Running(g))
    BY <1>1, <1>2 DEF Waiting, Running
  <2> QED BY <1>0, <1>1, <1>2, <2>1, <2>2 DEF ProgressInv, SameGroups
<1> QED BY <1>4, <1>5, <1>6, <1>7, <1>8, <1>9 DEF PartitionerInv

LEMMA InvStep == PartitionerInv /\ [PartitionerNext]_partitionerVars => PartitionerInv'
<1> SUFFICES ASSUME PartitionerInv, [PartitionerNext]_partitionerVars
             PROVE  PartitionerInv'
  OBVIOUS
<1>1. CASE \E list \in Orders : PartitionCorpus(list)
  BY <1>1, PartitionCorpusStep
<1>2. CASE PartitionSnapshots
  BY <1>2, PartitionSnapshotsStep
<1>3. CASE ScheduleGroup
  BY <1>3, ScheduleGroupStep
<1>4. CASE ShutDownPool
  BY <1>4, ShutDownPoolStep
<1>5. CASE JoinPool
  BY <1>5, JoinPoolStep
<1>6. CASE PartitionReturns
  BY <1>6, PartitionReturnsStep
<1>7. ASSUME NEW t \in Threads, ThreadStep(t) PROVE PartitionerInv'
  <2>1. CASE WorkLoop(t)
    BY <2>1, WorkLoopStep
  <2>2. CASE TrySummary(t)
    BY <2>2, TrySummaryStep
  <2>3. CASE TaskReturns(t)
    BY <2>3, TaskReturnsStep
  <2> QED BY <1>7, <2>1, <2>2, <2>3 DEF ThreadStep
<1>8. CASE UNCHANGED partitionerVars
  BY <1>8, StutterStep
<1> QED BY <1>1, <1>2, <1>3, <1>4, <1>5, <1>6, <1>7, <1>8
        DEF PartitionerNext, CallerStep

\* The inductive invariant of PartitionCorpus and its ThreadPool, whatever the
\* corpus, its memory mappings, and the number of groups, iterations and threads.
THEOREM Correctness == PartitionerSpec => []PartitionerInv
<1> QED BY InvInit, InvStep, PTL DEF PartitionerSpec

\* corpus_partitioner_lib.cc keeps the types of its variables: group numbers,
\* offsets and chunk sizes never go below zero or past the number of groups.
THEOREM TypeCorrect == PartitionerSpec => []PartitionerTypeOK
<1>1. PartitionerInv => PartitionerTypeOK
  BY DEF PartitionerInv
<1> QED BY <1>1, Correctness, PTL

\* snap_group.cc's "no two threads ever process the same summary" and "always
\* deliver a deterministic partitioning result": no snapshot is lost, duplicated
\* or raced for, each group can be loaded as a whole, and the groups at the end
\* are a function of the sorted corpus alone, whatever the threads did and
\* however many iterations there were.
THEOREM GroupingIsSound == PartitionerSpec => []GroupingSound
<1>1. PartitionerInv => GroupingSound
  BY InvGivesChunks, InvGivesGroups, InvGivesSame DEF GroupingSound
<1> QED BY <1>1, Correctness, PTL

\* In iterations after the first no group grows: PartitionCorpus neither shuffles
\* the list nor moves a snapshot to another group's chunk.
THEOREM OneIterationIsEnough == PartitionerSpec => LaterIterationsAddNothing
<1>1. ASSUME PartitionerInv, [PartitionerNext]_partitionerVars
      PROVE  [iteration > 0 => UNCHANGED groupVars]_partitionerVars
  <2> SUFFICES ASSUME iteration > 0, PartitionerNext PROVE UNCHANGED groupVars
    BY <1>1
  <2>1. CASE \E list \in Orders : PartitionCorpus(list)
    BY <2>1 DEF PartitionCorpus, groupVars
  <2>2. CASE CallerStep
    BY <2>2 DEF CallerStep, PartitionSnapshots, ScheduleGroup, ShutDownPool,
                JoinPool, PartitionReturns, groupVars
  <2>3. ASSUME NEW t \in Threads, ThreadStep(t) PROVE UNCHANGED groupVars
    <3>1. CASE TrySummary(t)
      BY <1>1, <3>1, LaterTry DEF groupVars
    <3>2. CASE WorkLoop(t) \/ TaskReturns(t)
      BY <3>2 DEF WorkLoop, TaskReturns, groupVars
    <3> QED BY <2>3, <3>1, <3>2 DEF ThreadStep
  <2>4. CASE UNCHANGED partitionerVars
    BY <2>4 DEF partitionerVars, groupVars
  <2> QED BY <2>1, <2>2, <2>3, <2>4 DEF PartitionerNext
<1> QED BY <1>1, Correctness, PTL DEF PartitionerSpec, LaterIterationsAddNothing

-----------------------------------------------------------------------------
(* Subsequences                                                              *)

LEMMA KeptFacts ==
  ASSUME NEW S, NEW s \in Seq(S), NEW K \in SUBSET DOMAIN s
  PROVE  /\ IsFiniteSet(K) /\ K \in SUBSET Int /\ Cardinality(K) \in Nat
         /\ Kept(s, K) \in Seq(S) /\ Len(Kept(s, K)) = Cardinality(K)
         /\ \A i \in 1..Cardinality(K) : Kept(s, K)[i] = s[Nth(K, i)]
         /\ Range(Kept(s, K)) = {s[k] : k \in K}
<1> DEFINE n == Cardinality(K)
           t == Kept(s, K)
<1>1. DOMAIN s = 1..Len(s) /\ Len(s) \in Nat
  OBVIOUS
<1>2. IsFiniteSet(1..Len(s))
  BY <1>1, Intervals
<1>3. IsFiniteSet(K) /\ K \in SUBSET Int
  BY <1>1, <1>2, FS_Subset
<1>4. n \in Nat
  BY <1>3, Card
<1>5. \A i \in 1..n : Nth(K, i) \in K
  BY <1>3, NthFacts
<1>6. t = [i \in 1..n |-> s[Nth(K, i)]]
  BY DEF Kept
<1> HIDE DEF t, n
<1>7. \A i \in 1..n : s[Nth(K, i)] \in S
  BY <1>5
<1>8. t \in Seq(S) /\ Len(t) = n /\ DOMAIN t = 1..n
  BY <1>4, <1>6, <1>7
<1>9. Range(t) = {s[k] : k \in K}
  <2>1. \A k \in K : \E i \in 1..n : Nth(K, i) = k
    BY <1>3, NthOnto DEF n
  <2>2. Range(t) = {t[i] : i \in 1..n}
    BY <1>8 DEF Range
  <2> QED BY <2>1, <2>2, <1>5, <1>6
<1> QED BY <1>3, <1>4, <1>6, <1>8, <1>9 DEF t, n

LEMMA NthIs ==
  ASSUME NEW K \in SUBSET Int, IsFiniteSet(K), NEW i \in 1..Cardinality(K),
         NEW k \in K, Rank(K, k) = i - 1
  PROVE  Nth(K, i) = k
<1>1. Nth(K, i) \in K /\ Rank(K, Nth(K, i)) = i - 1
  BY NthFacts
<1>2. Rank(K, Nth(K, i)) = Rank(K, k)
  BY <1>1
<1> QED BY <1>1, <1>2, SameRank, Zenon

LEMMA KeptInjective ==
  ASSUME NEW S, NEW s \in Seq(S), NEW K \in SUBSET DOMAIN s, IsInjective(s)
  PROVE  IsInjective(Kept(s, K))
<1> DEFINE n == Cardinality(K)
<1>1. /\ IsFiniteSet(K) /\ K \in SUBSET Int /\ n \in Nat
      /\ DOMAIN Kept(s, K) = 1..n
      /\ \A i \in 1..n : Kept(s, K)[i] = s[Nth(K, i)]
  BY KeptFacts DEF Kept
<1>2. \A i \in 1..n : Nth(K, i) \in K
  BY <1>1, NthFacts
<1>3. ASSUME NEW i \in 1..n, NEW j \in 1..n, Nth(K, i) = Nth(K, j) PROVE i = j
  <2>1. Rank(K, Nth(K, i)) = i - 1 /\ Rank(K, Nth(K, j)) = j - 1
    BY <1>1, NthFacts
  <2> QED BY <2>1, <1>1, <1>3
<1> HIDE DEF n
<1> QED BY <1>1, <1>2, <1>3 DEF IsInjective

LEMMA DisjointUnion ==
  ASSUME NEW A, NEW B, IsFiniteSet(A), IsFiniteSet(B), A \cap B = {}
  PROVE  /\ IsFiniteSet(A \cup B)
         /\ Cardinality(A \cup B) = Cardinality(A) + Cardinality(B)
<1>1. /\ IsFiniteSet(A \cup B)
      /\ Cardinality(A \cup B) = Cardinality(A) + Cardinality(B) - Cardinality(A \cap B)
  BY FS_Union
<1>2. Cardinality(A \cap B) = 0
  BY FS_EmptySet
<1>3. Cardinality(A) \in Nat /\ Cardinality(B) \in Nat
  BY Card
<1> QED BY <1>1, <1>2, <1>3

\* Two parts, one behind the other.
LEMMA KeptCat ==
  ASSUME NEW S, NEW s \in Seq(S), NEW K \in SUBSET DOMAIN s, NEW L \in SUBSET DOMAIN s,
         \A k \in K, l \in L : k < l
  PROVE  Kept(s, K) \o Kept(s, L) = Kept(s, K \cup L)
<1> DEFINE M == K \cup L
           a == Cardinality(K)
           b == Cardinality(L)
<1>0. M \in SUBSET DOMAIN s
  OBVIOUS
<1>1. /\ IsFiniteSet(K) /\ K \in SUBSET Int /\ a \in Nat
      /\ Kept(s, K) \in Seq(S) /\ Len(Kept(s, K)) = a
      /\ \A i \in 1..a : Kept(s, K)[i] = s[Nth(K, i)]
  BY KeptFacts
<1>2. /\ IsFiniteSet(L) /\ L \in SUBSET Int /\ b \in Nat
      /\ Kept(s, L) \in Seq(S) /\ Len(Kept(s, L)) = b
      /\ \A i \in 1..b : Kept(s, L)[i] = s[Nth(L, i)]
  BY KeptFacts
<1>3. /\ IsFiniteSet(M) /\ M \in SUBSET Int
      /\ Kept(s, M) \in Seq(S) /\ Len(Kept(s, M)) = Cardinality(M)
      /\ \A i \in 1..Cardinality(M) : Kept(s, M)[i] = s[Nth(M, i)]
  <2> HIDE DEF M
  <2> QED BY <1>0, KeptFacts
<1>4. K \cap L = {}
  <2>1. \A k \in K : k \in Int /\ ~(k < k)
    BY <1>1
  <2> QED BY <2>1
<1>5. Cardinality(M) = a + b
  BY <1>1, <1>2, <1>4, DisjointUnion
<1>6. ASSUME NEW i \in 1..a PROVE Nth(M, i) = Nth(K, i)
  <2> DEFINE k == Nth(K, i)
  <2>1. k \in K /\ Rank(K, k) = i - 1
    BY <1>1, NthFacts
  <2>2. {m \in M : m < k} = {m \in K : m < k}
    <3> HIDE DEF k
    <3>1. \A l \in L : k < l /\ l \in Int /\ k \in Int
      BY <1>1, <1>2, <2>1
    <3>2. \A l \in L : ~(l < k)
      BY <3>1
    <3> QED BY <3>2
  <2>3. Rank(M, k) = i - 1
    BY <2>1, <2>2 DEF Rank
  <2>4. i \in 1..Cardinality(M) /\ k \in M
    <3>1. k \in M
      BY <2>1
    <3> HIDE DEF M
    <3> QED BY <1>1, <1>2, <1>5, <3>1
  <2> HIDE DEF k, M
  <2>5. Nth(M, i) = k
    BY <1>3, <2>3, <2>4, NthIs
  <2> QED BY <2>5 DEF k
<1>7. ASSUME NEW i \in 1..b PROVE Nth(M, a + i) = Nth(L, i)
  <2> DEFINE l == Nth(L, i)
             B == {m \in L : m < l}
  <2>1. l \in L /\ Rank(L, l) = i - 1
    BY <1>2, NthFacts
  <2>2. {m \in M : m < l} = K \cup B
    <3> HIDE DEF l
    <3>1. \A k \in K : k < l
      BY <2>1
    <3> QED BY <3>1
  <2>3. IsFiniteSet(B) /\ Cardinality(B) = i - 1 /\ K \cap B = {}
    <3>1. B \subseteq L
      OBVIOUS
    <3>2. Cardinality(B) = i - 1
      BY <2>1 DEF Rank
    <3> HIDE DEF B
    <3> QED BY <3>1, <3>2, <1>2, <1>4, FS_Subset
  <2> HIDE DEF B
  <2>4. Cardinality(K \cup B) = a + (i - 1)
    <3>1. Cardinality(K \cup B) = Cardinality(K) + Cardinality(B)
      BY <2>3, <1>1, DisjointUnion
    <3> QED BY <3>1, <2>3
  <2>5. Rank(M, l) = (a + i) - 1
    <3>1. Rank(M, l) = a + (i - 1)
      BY <2>2, <2>4 DEF Rank
    <3> HIDE DEF a, b, l, M
    <3> QED BY <3>1, <1>1, <1>2
  <2>6. a + i \in 1..Cardinality(M) /\ l \in M
    <3>1. l \in M
      BY <2>1
    <3> HIDE DEF M, a, b
    <3> QED BY <1>1, <1>2, <1>5, <3>1
  <2> HIDE DEF l, M, a
  <2>7. Nth(M, a + i) = l
    BY <1>3, <2>5, <2>6, NthIs
  <2> QED BY <2>7 DEF l
<1> DEFINE c == Kept(s, K) \o Kept(s, L)
<1> HIDE DEF M, a, b
<1>8. /\ c \in Seq(S) /\ Len(c) = a + b
      /\ \A i \in 1..a : c[i] = Kept(s, K)[i]
      /\ \A i \in 1..b : c[a + i] = Kept(s, L)[i]
  BY <1>1, <1>2
<1>9. ASSUME NEW i \in 1..(a + b) PROVE c[i] = Kept(s, M)[i]
  <2>0. Kept(s, M)[i] = s[Nth(M, i)]
    BY <1>3, <1>5
  <2>1. CASE i <= a
    <3>1. i \in 1..a
      BY <2>1, <1>1
    <3> HIDE DEF c
    <3> QED BY <2>0, <3>1, <1>1, <1>6, <1>8
  <2>2. CASE ~(i <= a)
    <3> DEFINE j == i - a
    <3>1. j \in 1..b /\ a + j = i
      BY <2>2, <1>1, <1>2
    <3> HIDE DEF c, j
    <3>2. c[i] = Kept(s, L)[j] /\ Nth(M, i) = Nth(L, j)
      BY <3>1, <1>7, <1>8
    <3>3. Kept(s, L)[j] = s[Nth(L, j)]
      BY <3>1, <1>2
    <3> QED BY <2>0, <3>2, <3>3
  <2> QED BY <2>1, <2>2
<1> HIDE DEF c
<1>10. c = Kept(s, M)
  BY <1>3, <1>5, <1>8, <1>9
<1> QED BY <1>10 DEF c, M

LEMMA KeptOne ==
  ASSUME NEW S, NEW s \in Seq(S), NEW k \in DOMAIN s
  PROVE  Kept(s, {k}) = <<s[k]>>
<1>1. Cardinality({k}) = 1 /\ IsFiniteSet({k})
  BY FS_Singleton
<1>2. {k} \in SUBSET Int
  OBVIOUS
<1>3. Nth({k}, 1) = k
  <2>1. Nth({k}, 1) \in {k}
    BY <1>1, <1>2, NthFacts
  <2> QED BY <2>1
<1>4. Kept(s, {k}) = [i \in 1..1 |-> s[Nth({k}, i)]]
  BY <1>1 DEF Kept
<1>5. \A i \in 1..1 : i = 1
  OBVIOUS
<1>6. Kept(s, {k}) = [i \in 1..1 |-> s[k]]
  BY <1>3, <1>4, <1>5
<1> QED BY <1>6

LEMMA KeptNone ==
  ASSUME NEW s
  PROVE  Kept(s, {}) = <<>>
<1>1. Cardinality({}) = 0
  BY FS_EmptySet
<1> QED BY <1>1 DEF Kept

-----------------------------------------------------------------------------
(* The blobs of the workers                                                  *)

LEMMA FixToolParameters ==
  /\ NumWorkers \in Nat /\ NumWorkers > 0 /\ Workers = 0..(NumWorkers - 1)
  /\ \A w \in Workers : w \in 0..NumWorkers /\ w + 1 \in 0..NumWorkers /\ w \in Nat
BY FixToolAssumption DEF Workers

LEMMA BlobSpans ==
  ASSUME blobs \in Seq(Ids)
  PROVE  /\ Len(blobs) \in Nat /\ DOMAIN blobs = 1..Len(blobs)
         /\ Begin(0) = 0 /\ Begin(NumWorkers) = Len(blobs)
         /\ \A i \in 0..NumWorkers : Begin(i) \in Nat /\ Begin(i) <= Len(blobs)
         /\ \A i, j \in 0..NumWorkers : i <= j => Begin(i) <= Begin(j)
         /\ \A w \in Workers : Span(w) = Begin(w)..(Begin(w + 1) - 1)
         /\ \A i \in 1..Len(blobs) : \E w \in Workers : i \in (Begin(w) + 1)..Begin(w + 1)
<1> DEFINE n == Len(blobs)
<1>0. n \in Nat /\ NumWorkers \in Nat /\ NumWorkers > 0 /\ DOMAIN blobs = 1..n
  BY FixToolParameters
<1>1. /\ SpanBegin(n, NumWorkers)[0] = 0
      /\ SpanBegin(n, NumWorkers)[NumWorkers] = n
      /\ \A i \in 0..NumWorkers : SpanBegin(n, NumWorkers)[i] \in Nat
      /\ \A i \in 0..(NumWorkers-1) :
           /\ SpanSize(n, NumWorkers, i) \in Nat
           /\ SpanBegin(n, NumWorkers)[i + 1]
                = SpanBegin(n, NumWorkers)[i] + SpanSize(n, NumWorkers, i)
      /\ \A i, j \in 0..NumWorkers : i <= j =>
           SpanBegin(n, NumWorkers)[i] <= SpanBegin(n, NumWorkers)[j]
  <2> HIDE DEF n
  <2> QED BY <1>0, SpanBeginFacts
<1>2. \A i : Begin(i) = SpanBegin(n, NumWorkers)[i]
  BY DEF Begin
<1>3. ASSUME NEW w \in Workers PROVE Span(w) = Begin(w)..(Begin(w + 1) - 1)
  <2>1. w \in 0..(NumWorkers - 1) /\ w \in 0..NumWorkers
    BY FixToolParameters
  <2>2. Span(w) = Begin(w)..(Begin(w) + SpanSize(n, NumWorkers, w) - 1)
    BY <2>1, <1>2 DEF Span, PartitionEvenly
  <2>3. Begin(w + 1) = Begin(w) + SpanSize(n, NumWorkers, w)
        /\ Begin(w) \in Nat /\ SpanSize(n, NumWorkers, w) \in Nat
    BY <2>1, <1>1, <1>2
  <2>4. Begin(w) + SpanSize(n, NumWorkers, w) - 1 = Begin(w + 1) - 1
    BY <2>3
  <2> QED BY <2>2, <2>4
<1>4. \A i \in 0..NumWorkers : Begin(i) \in Nat
  BY <1>1, <1>2
<1>5. \A i, j \in 0..NumWorkers : i <= j => Begin(i) <= Begin(j)
  BY <1>1, <1>2
<1>6. Begin(0) = 0 /\ Begin(NumWorkers) = n
  BY <1>1, <1>2
<1>7. \A i \in 0..NumWorkers : Begin(i) <= n
  <2>1. NumWorkers \in 0..NumWorkers /\ \A i \in 0..NumWorkers : i <= NumWorkers
    BY <1>0
  <2> QED BY <2>1, <1>5, <1>6
<1>8. ASSUME NEW i \in 1..n
      PROVE  \E w \in Workers : i \in (Begin(w) + 1)..Begin(w + 1)
  <2>1. UNION {PartitionEvenly(n, NumWorkers)[w] : w \in 0..(NumWorkers-1)} = 0..(n-1)
    <3> HIDE DEF n
    <3> QED BY <1>0, PartitionIsEven
  <2>2. i - 1 \in 0..(n - 1)
    BY <1>0
  <2>3. PICK w \in 0..(NumWorkers-1) : i - 1 \in PartitionEvenly(n, NumWorkers)[w]
    BY <2>1, <2>2
  <2>4. w \in Workers /\ i - 1 \in Begin(w)..(Begin(w + 1) - 1)
    BY <2>3, <1>3, FixToolParameters DEF Span
  <2>5. Begin(w) \in Int /\ Begin(w + 1) \in Int
    BY <2>4, <1>4, FixToolParameters
  <2>6. i \in (Begin(w) + 1)..Begin(w + 1)
    BY <2>4, <2>5
  <2> QED BY <2>4, <2>6
<1> HIDE DEF n
<1> QED BY <1>0, <1>3, <1>4, <1>5, <1>6, <1>7, <1>8 DEF n

\* The blobs before position c[w], for each worker.
Upto(c) == UNION {(Begin(w) + 1)..c[w] : w \in Workers}

LEMMA UptoIn ==
  ASSUME blobs \in Seq(Ids), NEW c \in [Workers -> Int],
         \A w \in Workers : c[w] <= Begin(w + 1)
  PROVE  Upto(c) \subseteq DOMAIN blobs /\ IsFiniteSet(Upto(c))
<1>1. ASSUME NEW w \in Workers, NEW i \in (Begin(w) + 1)..c[w] PROVE i \in DOMAIN blobs
  <2>1. /\ Begin(w) \in Nat /\ Begin(w + 1) \in Nat /\ Begin(w + 1) <= Len(blobs)
        /\ Len(blobs) \in Nat /\ DOMAIN blobs = 1..Len(blobs)
    BY BlobSpans, FixToolParameters
  <2>2. c[w] \in Int /\ c[w] <= Begin(w + 1)
    OBVIOUS
  <2> QED BY <2>1, <2>2, <1>1
<1>2. Upto(c) \subseteq DOMAIN blobs
  BY <1>1 DEF Upto
<1>3. IsFiniteSet(DOMAIN blobs)
  BY BlobSpans, Intervals
<1> QED BY <1>2, <1>3, FS_Subset

\* A worker moves on by k.
LEMMA UptoGrows ==
  ASSUME blobs \in Seq(Ids), NEW c \in [Workers -> Int], NEW w \in Workers, NEW k \in Nat,
         \A v \in Workers : c[v] <= Begin(v + 1),
         Begin(w) <= c[w], c[w] + k <= Begin(w + 1)
  PROVE  Cardinality(Upto([c EXCEPT ![w] = c[w] + k])) = Cardinality(Upto(c)) + k
<1> DEFINE d == [c EXCEPT ![w] = c[w] + k]
           a == c[w]
           I == (a + 1)..(a + k)
<1>1. a \in Int /\ a + k \in Int /\ Begin(w) \in Nat
  BY BlobSpans, FixToolParameters
<1>2. IsFiniteSet(I) /\ Cardinality(I) = k
  <2> HIDE DEF a
  <2>1. a + 1 \in Int /\ a + k \in Int /\ a + 1 <= (a + k) + 1 /\ (a + k) + 1 - (a + 1) = k
    BY <1>1
  <2> QED BY <2>1, Intervals
<1>3. (Begin(w) + 1)..d[w] = ((Begin(w) + 1)..a) \cup I
  <2>1. d[w] = a + k /\ Begin(w) <= a
    OBVIOUS
  <2> HIDE DEF d, a
  <2> QED BY <1>1, <2>1
<1>4. \A v \in Workers : v # w => d[v] = c[v]
  OBVIOUS
<1> HIDE DEF d
<1>5. Upto(d) = Upto(c) \cup I
  <2>1. ASSUME NEW x \in Upto(d) PROVE x \in Upto(c) \cup I
    <3>1. PICK v \in Workers : x \in (Begin(v) + 1)..d[v]
      BY DEF Upto
    <3>2. CASE v = w
      <4>1. x \in (Begin(w) + 1)..c[w] \/ x \in I
        BY <3>1, <3>2, <1>3
      <4> QED BY <4>1 DEF Upto
    <3>3. CASE v # w
      <4>1. x \in (Begin(v) + 1)..c[v]
        BY <3>1, <3>3, <1>4
      <4> QED BY <4>1 DEF Upto
    <3> QED BY <3>2, <3>3
  <2>2. ASSUME NEW x \in Upto(c) PROVE x \in Upto(d)
    <3>1. PICK v \in Workers : x \in (Begin(v) + 1)..c[v]
      BY DEF Upto
    <3>2. x \in (Begin(v) + 1)..d[v]
      BY <3>1, <1>3, <1>4
    <3> QED BY <3>2 DEF Upto
  <2>3. I \subseteq Upto(d)
    <3>1. I \subseteq (Begin(w) + 1)..d[w]
      BY <1>3
    <3> QED BY <3>1 DEF Upto
  <2> HIDE DEF I
  <2> QED BY <2>1, <2>2, <2>3
<1>6. Upto(c) \cap I = {}
  <2> SUFFICES ASSUME NEW x \in I, x \in Upto(c) PROVE FALSE
    OBVIOUS
  <2>1. PICK v \in Workers : x \in (Begin(v) + 1)..c[v]
    BY DEF Upto
  <2>2. /\ v \in Nat /\ w \in Nat /\ v \in 0..NumWorkers /\ w \in 0..NumWorkers
        /\ v + 1 \in 0..NumWorkers /\ w + 1 \in 0..NumWorkers
    BY FixToolParameters
  <2>3. /\ Begin(v) \in Nat /\ Begin(v + 1) \in Nat /\ Begin(w + 1) \in Nat
        /\ c[v] \in Int /\ c[v] <= Begin(v + 1)
    BY <2>2, BlobSpans
  <2>4. CASE v = w
    BY <2>1, <2>4, <1>1
  <2>5. CASE v < w
    <3>1. Begin(v + 1) <= Begin(w)
      BY <2>2, <2>5, BlobSpans
    <3> QED BY <2>1, <2>3, <3>1, <1>1
  <2>6. CASE w < v
    <3>1. Begin(w + 1) <= Begin(v)
      BY <2>2, <2>6, BlobSpans
    <3> QED BY <2>1, <2>3, <3>1, <1>1
  <2> QED BY <2>2, <2>4, <2>5, <2>6
<1>7. IsFiniteSet(Upto(c))
  BY UptoIn
<1> HIDE DEF I
<1>8. Cardinality(Upto(c) \cup I) = Cardinality(Upto(c)) + k
  BY <1>2, <1>6, <1>7, DisjointUnion
<1> QED BY <1>5, <1>8 DEF d

LEMMA UptoAll ==
  ASSUME blobs \in Seq(Ids), NEW c \in [Workers -> Int],
         \A w \in Workers : c[w] = Begin(w + 1)
  PROVE  Cardinality(Upto(c)) = Len(blobs)
<1>1. \A w \in Workers : c[w] <= Begin(w + 1)
  OBVIOUS
<1>2. Upto(c) \subseteq DOMAIN blobs
  BY <1>1, UptoIn
<1>3. \A i \in DOMAIN blobs : i \in Upto(c)
  BY BlobSpans DEF Upto
<1>4. Upto(c) = 1..Len(blobs)
  BY <1>2, <1>3, BlobSpans
<1> QED BY <1>4, BlobSpans, Intervals

LEMMA UptoNone ==
  ASSUME blobs \in Seq(Ids), NEW c \in [Workers -> Int],
         \A w \in Workers : c[w] = Begin(w)
  PROVE  Cardinality(Upto(c)) = 0
<1>1. \A w \in Workers : (Begin(w) + 1)..c[w] = {}
  BY BlobSpans, FixToolParameters
<1>2. Upto(c) = {}
  BY <1>1 DEF Upto
<1> QED BY <1>2, FS_EmptySet

-----------------------------------------------------------------------------
(* The snapshots the workers have made                                       *)

LEMMA MadeFacts ==
  ASSUME blobs \in Seq(Ids), NEW w \in Workers, worker[w].next \in Nat,
         worker[w].next <= Begin(w + 1)
  PROVE  /\ Made(w) \subseteq DOMAIN blobs
         /\ Made(w) \subseteq (Begin(w) + 1)..worker[w].next
         /\ Made(w) \subseteq (Begin(w) + 1)..Begin(w + 1)
<1>1. /\ Begin(w) \in Nat /\ Begin(w + 1) \in Nat /\ Begin(w + 1) <= Len(blobs)
      /\ Len(blobs) \in Nat /\ DOMAIN blobs = 1..Len(blobs)
  BY BlobSpans, FixToolParameters
<1>2. Made(w) \subseteq (Begin(w) + 1)..worker[w].next
  BY DEF Made
<1> QED BY <1>1, <1>2

LEMMA MadeByFacts ==
  ASSUME blobs \in Seq(Ids), NEW n \in 0..NumWorkers,
         \A w \in Workers : worker[w].next \in Nat /\ worker[w].next <= Begin(w + 1)
  PROVE  /\ MadeBy(0) = {}
         /\ MadeBy(n) \subseteq DOMAIN blobs /\ IsFiniteSet(MadeBy(n))
         /\ n \in Workers =>
              /\ MadeBy(n + 1) = MadeBy(n) \cup Made(n)
              /\ \A i \in MadeBy(n), j \in Made(n) : i < j
              /\ MadeBy(n) \cap Made(n) = {}
<1>0. n \in Nat /\ \A w \in 0..(n - 1) : w \in Workers /\ w < n
  BY FixToolParameters
<1>1. MadeBy(0) = {}
  <2>1. 0..(0 - 1) = {}
    OBVIOUS
  <2> QED BY <2>1 DEF MadeBy
<1>2. \A w \in Workers : /\ Made(w) \subseteq DOMAIN blobs
                         /\ Made(w) \subseteq (Begin(w) + 1)..Begin(w + 1)
  BY MadeFacts
<1>3. MadeBy(n) \subseteq DOMAIN blobs
  BY <1>0, <1>2 DEF MadeBy
<1>4. IsFiniteSet(MadeBy(n))
  <2>1. IsFiniteSet(DOMAIN blobs)
    BY BlobSpans, Intervals
  <2> QED BY <1>3, <2>1, FS_Subset
<1>5. ASSUME n \in Workers PROVE MadeBy(n + 1) = MadeBy(n) \cup Made(n)
  <2>1. 0..((n + 1) - 1) = (0..(n - 1)) \cup {n}
    BY <1>0
  <2> QED BY <2>1 DEF MadeBy
<1>6. ASSUME n \in Workers, NEW i \in MadeBy(n), NEW j \in Made(n) PROVE i < j
  <2>1. PICK w \in 0..(n - 1) : i \in Made(w)
    BY DEF MadeBy
  <2>2. w \in Workers /\ w < n
    BY <1>0
  <2>3. /\ w \in Nat /\ w + 1 \in 0..NumWorkers /\ n \in 0..NumWorkers
        /\ n + 1 \in 0..NumWorkers /\ w + 1 <= n /\ w \in 0..NumWorkers
    BY <2>2, <1>0, <1>6, FixToolParameters
  <2>4. /\ Begin(w) \in Nat /\ Begin(w + 1) \in Nat /\ Begin(n) \in Nat
        /\ Begin(n + 1) \in Nat /\ Begin(w + 1) <= Begin(n)
    BY <2>3, BlobSpans
  <2>5. i \in (Begin(w) + 1)..Begin(w + 1) /\ j \in (Begin(n) + 1)..Begin(n + 1)
    BY <2>1, <2>2, <1>2, <1>6
  <2> QED BY <2>4, <2>5
<1>7. ASSUME n \in Workers PROVE MadeBy(n) \cap Made(n) = {}
  <2>1. \A i \in MadeBy(n) : i \in Int /\ ~(i < i)
    BY <1>3, BlobSpans
  <2> QED BY <2>1, <1>6, <1>7
<1> QED BY <1>1, <1>3, <1>4, <1>5, <1>6, <1>7

\* The lists of the workers, one behind the other, are in the order of the blobs.
LEMMA InOrder ==
  ASSUME blobs \in Seq(Ids),
         \A w \in Workers : /\ worker[w].next \in Nat /\ worker[w].next <= Begin(w + 1)
                            /\ worker[w].good_snapshots = Kept(blobs, Made(w))
  PROVE  FlattenSeq([i \in 1..NumWorkers |-> worker[i - 1].good_snapshots])
           = Kept(blobs, MadeBy(NumWorkers))
<1> DEFINE n == NumWorkers
           s == [i \in 1..n |-> worker[i - 1].good_snapshots]
           E(g) == [i \in 1..n |-> IF i = 1 THEN s[i] ELSE g[i - 1] \o s[i]]
           C == [i \in 1..n |-> Kept(blobs, MadeBy(i))]
           f == CHOOSE g : g = E(g)
<1>0. n \in Nat /\ n > 0 /\ Workers = 0..(n - 1)
  BY FixToolParameters
<1>1. Len(s) = n
  BY <1>0
<1>2. FlattenSeq(s) = f[n]
  <2> HIDE DEF s, n
  <2>1. FlattenSeq(s) = (CHOOSE g : g = [i \in 1..Len(s) |->
                           IF i = 1 THEN s[i] ELSE g[i - 1] \o s[i]])[Len(s)]
    BY <1>0, <1>1 DEF FlattenSeq
  <2> QED BY <1>1, <2>1
<1>3. ASSUME NEW i \in 1..n
      PROVE  C[i] = IF i = 1 THEN s[i] ELSE C[i - 1] \o s[i]
  <2>1. i - 1 \in Workers /\ i - 1 \in 0..n /\ (i - 1) + 1 = i
    BY <1>0
  <2>2. s[i] = Kept(blobs, Made(i - 1))
    BY <2>1
  <2>3. /\ MadeBy(i) = MadeBy(i - 1) \cup Made(i - 1)
        /\ \A x \in MadeBy(i - 1), y \in Made(i - 1) : x < y
        /\ MadeBy(i - 1) \subseteq DOMAIN blobs /\ MadeBy(0) = {}
    <3> DEFINE j == i - 1
    <3>1. j \in Workers /\ j \in 0..n /\ j + 1 = i
      BY <2>1
    <3> HIDE DEF j
    <3>2. /\ MadeBy(j + 1) = MadeBy(j) \cup Made(j)
          /\ \A x \in MadeBy(j), y \in Made(j) : x < y
          /\ MadeBy(j) \subseteq DOMAIN blobs /\ MadeBy(0) = {}
      BY <3>1, MadeByFacts
    <3> QED BY <3>1, <3>2 DEF j
  <2>4. Made(i - 1) \subseteq DOMAIN blobs
    BY <2>1, MadeFacts
  <2>5. Kept(blobs, MadeBy(i - 1)) \o Kept(blobs, Made(i - 1)) = Kept(blobs, MadeBy(i))
    <3> DEFINE K == MadeBy(i - 1)
               L == Made(i - 1)
    <3>1. K \in SUBSET DOMAIN blobs /\ L \in SUBSET DOMAIN blobs
          /\ \A x \in K, y \in L : x < y
      BY <2>3, <2>4, Zenon
    <3> HIDE DEF K, L
    <3>2. Kept(blobs, K) \o Kept(blobs, L) = Kept(blobs, K \cup L)
      <4>1. \A x \in K, y \in L : x < y
        BY <3>1
      <4> QED BY <3>1, <4>1, KeptCat
    <3> QED BY <3>2, <2>3 DEF K, L
  <2>6. CASE i = 1
    <3>0. i - 1 = 0
      BY <2>6
    <3>1. MadeBy(i - 1) = {}
      BY <3>0, <2>3, Zenon
    <3>2. MadeBy(i) = Made(i - 1)
      BY <3>1, <2>3
    <3> QED BY <2>6, <3>2, <2>2
  <2>7. CASE i # 1
    <3>1. i - 1 \in 1..n
      BY <2>7, <1>0
    <3> QED BY <2>7, <3>1, <2>2, <2>5
  <2> QED BY <2>6, <2>7
<1>11. \A i \in 1..n : C[i] = IF i = 1 THEN s[i] ELSE C[i - 1] \o s[i]
  <2> HIDE DEF C, s
  <2> QED BY <1>3
<1>4. C = E(C)
  <2> HIDE DEF s
  <2> QED BY <1>3
<1>5. f = E(f)
  <2>1. \E g : g = E(g)
    <3> HIDE DEF C, s
    <3> QED BY <1>4
  <2> HIDE DEF s
  <2> QED BY <2>1
<1> HIDE DEF f, s, C
<1>6. \A i \in 1..n : f[i] = IF i = 1 THEN s[i] ELSE f[i - 1] \o s[i]
  BY <1>5
<1> DEFINE P == {0} \cup {i \in 1..n : f[i] = C[i]}
<1>7. 0..n \subseteq P
  <2>1. 0 \in P
    OBVIOUS
  <2>2. ASSUME NEW i \in 0..(n - 1), i \in P PROVE i + 1 \in P
    <3>1. i + 1 \in 1..n /\ (i + 1) - 1 = i
      BY <1>0
    <3>2. CASE i = 0
      <4>1. i + 1 = 1 /\ 1 \in 1..n
        BY <3>1, <3>2
      <4>2. f[1] = s[1]
        BY <4>1, <1>6
      <4>3. C[1] = s[1]
        BY <4>1, <1>11
      <4> QED BY <3>1, <4>1, <4>2, <4>3
    <3>3. CASE i # 0
      <4>1. f[i + 1] = f[i] \o s[i + 1] /\ C[i + 1] = C[i] \o s[i + 1] /\ f[i] = C[i]
        <5>1. f[i] = C[i] /\ i + 1 # 1
          BY <3>3, <2>2
        <5>2. f[i + 1] = f[(i + 1) - 1] \o s[i + 1] /\ C[i + 1] = C[(i + 1) - 1] \o s[i + 1]
          BY <3>1, <5>1, <1>11, <1>6
        <5> QED BY <3>1, <5>1, <5>2
      <4> QED BY <3>1, <4>1
    <3> QED BY <3>2, <3>3
  <2> HIDE DEF P
  <2> QED BY <2>1, <2>2, <1>0, InductionUpTo
<1>8. f[n] = C[n]
  <2>1. n \in 0..n /\ n # 0
    BY <1>0
  <2> QED BY <2>1, <1>7
<1>9. C[n] = Kept(blobs, MadeBy(n))
  BY <1>0 DEF C
<1> QED BY <1>2, <1>8, <1>9 DEF s

-----------------------------------------------------------------------------
(* The invariant holds initially                                             *)

LEMMA FixToolInit == Init => FixToolInv
<1> SUFFICES ASSUME Init PROVE FixToolInv
  OBVIOUS
<1>1. PartitionerInv
  BY InvInit DEF Init
<1>2. FixToolTypeOK
  <2>1. /\ worker \in [Workers -> [state : {"none", "run", "exited"}, next : Nat,
                                   count_update : Nat, good_snapshots : Seq(Ids)]]
        /\ blobs \in Seq(Ids) /\ made_snapshots \in Seq(Ids)
    BY DEF Init
  <2>2. joined \in 0..NumWorkers
    BY FixToolParameters DEF Init
  <2>3. written \in [Groups -> {"none", "absent", "failed", "ok"}]
    BY DEF Init
  <2>4. /\ counters \in [read : Nat, duplicate : Nat, success : Nat, cannot_group : Nat]
        /\ monitor \in [state : {"none", "load", "print", "exited"},
                        stop_monitoring : BOOLEAN, printed : Nat]
        /\ reader \in [input : Nat \ {0}, next : Nat]
    BY DEF Init
  <2>5. /\ phase \in {"read", "make", "stop", "partition", "write", "done"}
        /\ id_seen \subseteq Ids /\ num_blobs_processed \in Nat
        /\ stop_progress_monitor \in BOOLEAN
    BY DEF Init
  <2> QED BY <2>1, <2>2, <2>3, <2>4, <2>5 DEF FixToolTypeOK
<1>3. ReaderInv
  BY DEF Init, ReaderInv, IsInjective, Range
<1>4. WorkerInv
  BY DEF Init, WorkerInv
<1>5. GoodInv
  BY DEF Init, GoodInv, Collecting
<1>6. MonitorInv
  BY DEF Init, MonitorInv, Collecting
<1>7. CorpusInv
  BY DEF Init, CorpusInv, Collecting, PartitionerInit
<1>8. ShardsHoldCorpus
  BY DEF Init, ShardsHoldCorpus
<1> QED BY <1>1, <1>2, <1>3, <1>4, <1>5, <1>6, <1>7, <1>8 DEF FixToolInv

-----------------------------------------------------------------------------
(* The tool uses the partitioner as it is meant to be used                   *)

\* A list without duplicates is one PartitionCorpus may be given.
LEMMA IsOrder ==
  ASSUME NEW s \in Seq(Ids), IsInjective(s)
  PROVE  s \in Orders
<1> DEFINE n == Len(s)
<1>1. n \in Nat /\ DOMAIN s = 1..n /\ s \in [1..n -> Ids]
  OBVIOUS
<1>2. IsFiniteSet(1..n) /\ Cardinality(1..n) = n
  BY <1>1, Intervals
<1>3. s \in Injection(1..n, Ids)
  BY <1>1 DEF Injection, IsInjective
<1>4. IsFiniteSet(Ids)
  BY PartitionerAssumption
<1>5. Cardinality(1..n) <= Cardinality(Ids)
  <2> HIDE DEF n
  <2> QED BY <1>3, <1>4, FS_Injection
<1>6. n \in 0..Cardinality(Ids)
  <2>1. Cardinality(Ids) \in Nat
    BY <1>4, Card
  <2> HIDE DEF n
  <2> QED BY <2>1, <1>1, <1>2, <1>5
<1>7. \A i, j \in DOMAIN s : i # j => s[i] # s[j]
  BY DEF IsInjective
<1> HIDE DEF n
<1> QED BY <1>1, <1>6, <1>7 DEF Orders

LEMMA MadeIsOrder ==
  ASSUME FixToolTypeOK, ReaderInv, CorpusInv, phase \in {"stop", "partition"}
  PROVE  /\ made_snapshots \in Orders /\ IsInjective(made_snapshots)
         /\ Range(made_snapshots) \subseteq Range(blobs)
<1>1. PICK K \in SUBSET DOMAIN blobs : made_snapshots = Kept(blobs, K)
  BY DEF CorpusInv
<1>2. blobs \in Seq(Ids) /\ made_snapshots \in Seq(Ids) /\ IsInjective(blobs)
  BY DEF FixToolTypeOK, ReaderInv
<1>3. IsInjective(made_snapshots)
  BY <1>1, <1>2, KeptInjective
<1>4. Range(made_snapshots) = {blobs[k] : k \in K}
  BY <1>1, <1>2, KeptFacts
<1>5. Range(made_snapshots) \subseteq Range(blobs)
  BY <1>4 DEF Range
<1> QED BY <1>2, <1>3, <1>5, IsOrder

LEMMA PartitionerSteps ==
  ASSUME FixToolInv, [Next]_vars
  PROVE  [PartitionerNext]_partitionerVars
<1>1. CASE UNCHANGED partitionerVars
  BY <1>1
<1>2. CASE JoinMonitor
  <2>1. made_snapshots \in Orders
    BY <1>2, MadeIsOrder DEF FixToolInv, JoinMonitor
  <2> QED BY <1>2, <2>1 DEF JoinMonitor, PartitionerNext
<1>3. CASE PartitionCaller
  BY <1>3 DEF PartitionCaller, PartitionerNext
<1>4. CASE \E t \in Threads : PartitionThread(t)
  BY <1>4 DEF PartitionThread, PartitionerNext
<1>5. CASE MainStep /\ ~JoinMonitor
  BY <1>1, <1>5 DEF MainStep, OpenReader, ReadBlob, NextInput, ReadUnchanged, StartWorkers,
     JoinWorker, CollectSnapshots, MoveToShards, WriteOutputFile, FixupCorpusReturns
<1>6. CASE \E w \in Workers : WorkerStep(w)
  BY <1>1, <1>6 DEF WorkerStep, FixBlob, WorkerReturns, WorkerUnchanged
<1>7. CASE MonitorStep
  BY <1>1, <1>7 DEF MonitorStep, LoadStop, PrintProgress, NoCheckpoint, MonitorUnchanged
<1>8. CASE UNCHANGED vars
  BY <1>1, <1>8 DEF vars
<1> QED BY <1>2, <1>3, <1>4, <1>5, <1>6, <1>7, <1>8 DEF Next

-----------------------------------------------------------------------------
(* What the steps leave alone                                                *)

LEMMA Mappings == [PartitionerNext]_partitionerVars => memory_mappings' = memory_mappings
BY DEF PartitionerNext, partitionerVars, PartitionCorpus, CallerStep, PartitionSnapshots,
   ScheduleGroup, ShutDownPool, JoinPool, PartitionReturns, ThreadStep, WorkLoop,
   TrySummary, TaskReturns

LEMMA WorkerFrame ==
  ASSUME WorkerInv, UNCHANGED <<blobs, worker, num_blobs_processed>>,
         phase = "read" <=> phase' = "read"
  PROVE  WorkerInv'
<1>1. /\ \A i : Begin(i)' = Begin(i)
      /\ \A w : Counted(w)' = Counted(w)
  BY DEF Begin, Counted
<1>2. Processed' = Processed
  BY <1>1 DEF Processed
<1>3. CASE phase = "read"
  BY <1>3 DEF WorkerInv
<1>4. CASE phase # "read"
  BY <1>1, <1>2, <1>4 DEF WorkerInv
<1> QED BY <1>3, <1>4

LEMMA GoodFrame ==
  ASSUME GoodInv, UNCHANGED <<blobs, worker, joined, phase>>,
         counters'.success = counters.success
  PROVE  GoodInv'
<1>1. \A w : Made(w)' = Made(w)
  BY DEF Made, Begin
<1>2. MadeBy(joined)' = MadeBy(joined)
  BY <1>1 DEF MadeBy
<1> QED BY <1>1, <1>2 DEF GoodInv, Collecting

LEMMA GoodLater ==
  ASSUME GoodInv, Collecting, Collecting', UNCHANGED worker
  PROVE  GoodInv'
BY DEF GoodInv, Collecting

LEMMA ReaderFrame ==
  ASSUME ReaderInv, UNCHANGED <<blobs, id_seen>>,
         counters'.read = counters.read, counters'.duplicate = counters.duplicate
  PROVE  ReaderInv'
BY DEF ReaderInv

LEMMA MonitorFrame ==
  ASSUME MonitorInv, UNCHANGED <<monitor, stop_progress_monitor, blobs>>,
         Collecting' <=> Collecting, phase' = "read" => phase = "read"
  PROVE  MonitorInv'
BY DEF MonitorInv

LEMMA ShardsFrame ==
  ASSUME ShardsHoldCorpus, UNCHANGED <<shards, blobs, counters, memory_mappings>>,
         phase' \in {"write", "done"} => phase \in {"write", "done"}
  PROVE  ShardsHoldCorpus'
<1>1. Places' = Places /\ \A p : SnapshotAt(p)' = SnapshotAt(p)
  BY DEF Places, SnapshotAt
<1>2. \A a, b : Compatible(a, b)' <=> Compatible(a, b)
  BY DEF Compatible
<1> QED BY <1>1, <1>2 DEF ShardsHoldCorpus

LEMMA NoShards ==
  ASSUME phase' \notin {"write", "done"} PROVE ShardsHoldCorpus'
BY DEF ShardsHoldCorpus

\* What every step but the partitioner's keeps.
FixToolParts ==
    /\ FixToolTypeOK /\ ReaderInv /\ WorkerInv /\ GoodInv /\ MonitorInv
    /\ CorpusInv /\ ShardsHoldCorpus

-----------------------------------------------------------------------------
(* ReadUniqueCentipedeBlobs                                                  *)

LEMMA ReadStep ==
  ASSUME FixToolInv, OpenReader \/ NextInput
  PROVE  FixToolParts'
<1>0. /\ FixToolTypeOK /\ ReaderInv /\ WorkerInv /\ GoodInv /\ MonitorInv
      /\ CorpusInv /\ ShardsHoldCorpus
  BY DEF FixToolInv
<1>1. /\ UNCHANGED <<phase, blobs, id_seen, counters, partitionerVars, worker,
                     num_blobs_processed, joined, made_snapshots,
                     stop_progress_monitor, monitor, shards, written>>
      /\ phase = "read"
      /\ reader' \in [input : Nat \ {0}, next : Nat]
  <2>1. reader \in [input : Nat \ {0}, next : Nat]
    BY <1>0 DEF FixToolTypeOK
  <2>2. UNCHANGED <<phase, blobs, id_seen, counters, partitionerVars, worker,
                    num_blobs_processed, joined, made_snapshots,
                    stop_progress_monitor, monitor, shards, written>>
    BY Zenon DEF OpenReader, NextInput, ReadUnchanged, makeVars, monitorVars, outputVars
  <2>3. phase = "read"
    BY DEF OpenReader, NextInput, Reading
  <2>4. CASE OpenReader
    BY <2>1, <2>2, <2>3, <2>4 DEF OpenReader
  <2>5. CASE NextInput
    BY <2>1, <2>2, <2>3, <2>5 DEF NextInput
  <2> QED BY <2>4, <2>5
<1>2. FixToolTypeOK'
  BY <1>0, <1>1 DEF FixToolTypeOK
<1>3. ReaderInv' /\ WorkerInv' /\ GoodInv' /\ MonitorInv' /\ ShardsHoldCorpus'
  BY <1>0, <1>1, ReaderFrame, WorkerFrame, GoodFrame, MonitorFrame, NoShards
     DEF Collecting
<1>4. CorpusInv'
  BY <1>0, <1>1 DEF CorpusInv, Collecting, partitionerVars
<1> QED BY <1>2, <1>3, <1>4 DEF FixToolParts

LEMMA ReadBlobStep ==
  ASSUME FixToolInv, ReadBlob
  PROVE  FixToolParts'
<1> DEFINE blob == Inputs[reader.input][reader.next]
           n == Len(blobs)
<1>0. /\ FixToolTypeOK /\ ReaderInv /\ WorkerInv /\ GoodInv /\ MonitorInv
      /\ CorpusInv /\ ShardsHoldCorpus
  BY DEF FixToolInv
<1>1. /\ UNCHANGED <<phase, partitionerVars, worker,
                     num_blobs_processed, joined, made_snapshots,
                     stop_progress_monitor, monitor, shards, written>>
      /\ phase = "read"
  BY DEF ReadBlob, Reading, ReadUnchanged, makeVars, monitorVars, outputVars
<1>2. reader' \in [input : Nat \ {0}, next : Nat] /\ blob \in Ids
  <2>1. reader \in [input : Nat \ {0}, next : Nat]
    BY <1>0 DEF FixToolTypeOK
  <2>2. reader.next \in DOMAIN Inputs[reader.input] /\ reader.input <= Len(Inputs)
    BY DEF ReadBlob, Reading
  <2>3. reader' = [reader EXCEPT !.next = @ + 1]
    BY DEF ReadBlob
  <2>4. Inputs \in Seq(Seq(Ids))
    BY FixToolAssumption
  <2>5. reader' \in [input : Nat \ {0}, next : Nat]
    BY <2>1, <2>3
  <2>6. reader.input \in DOMAIN Inputs
    <3>1. reader.input \in Nat /\ reader.input # 0
      BY <1>0, <2>1 DEF FixToolTypeOK
    <3> QED BY <3>1, <2>2, <2>4
  <2>7. Inputs[reader.input] \in Seq(Ids)
    BY <2>4, <2>6
  <2> QED BY <2>2, <2>5, <2>7
<1>3. /\ blobs \in Seq(Ids) /\ n \in Nat /\ DOMAIN blobs = 1..n
      /\ counters \in [read : Nat, duplicate : Nat, success : Nat, cannot_group : Nat]
      /\ id_seen \subseteq Ids
  BY <1>0 DEF FixToolTypeOK
<1> HIDE DEF blob, n
<1>4. /\ blobs' \in Seq(Ids) /\ id_seen' \subseteq Ids
      /\ counters' \in [read : Nat, duplicate : Nat, success : Nat, cannot_group : Nat]
      /\ counters'.success = counters.success
      /\ counters'.cannot_group = counters.cannot_group
      /\ ReaderInv'
  <2>1. CASE blob \notin id_seen
    <3>1. /\ id_seen' = id_seen \cup {blob} /\ blobs' = Append(blobs, blob)
          /\ counters' = [counters EXCEPT !.read = @ + 1]
      BY <2>1 DEF ReadBlob, blob
    <3>2. /\ blobs' \in Seq(Ids) /\ Len(blobs') = n + 1 /\ DOMAIN blobs' = 1..(n + 1)
          /\ \A i \in 1..n : blobs'[i] = blobs[i]
          /\ blobs'[n + 1] = blob
      BY <3>1, <1>2, <1>3 DEF n
    <3>3. /\ \A i, j \in 1..n : blobs[i] = blobs[j] => i = j
          /\ id_seen = {blobs[i] : i \in 1..n}
          /\ counters.read = n + counters.duplicate
      BY <1>0, <1>3 DEF ReaderInv, IsInjective, Range, n
    <3>4. \A i \in 1..(n + 1) : i \in 1..n \/ i = n + 1
      BY <1>3
    <3>5. \A i, j \in 1..(n + 1) : blobs'[i] = blobs'[j] => i = j
      BY <3>2, <3>3, <3>4, <2>1
    <3>6. id_seen' = {blobs'[i] : i \in 1..(n + 1)}
      <4>1. \A i \in 1..n : i \in 1..(n + 1)
        BY <1>3
      <4>2. n + 1 \in 1..(n + 1)
        BY <1>3
      <4> QED BY <3>1, <3>2, <3>3, <3>4, <4>1, <4>2
    <3>7. counters'.read = (n + 1) + counters'.duplicate
      BY <3>1, <3>3, <1>3
    <3>8. ReaderInv'
      BY <3>2, <3>5, <3>6, <3>7 DEF ReaderInv, IsInjective, Range
    <3> QED BY <3>1, <3>2, <3>8, <1>2, <1>3
  <2>2. CASE blob \in id_seen
    <3>1. /\ UNCHANGED <<blobs, id_seen>>
          /\ counters' = [counters EXCEPT !.read = @ + 1, !.duplicate = @ + 1]
      BY <2>2 DEF ReadBlob, blob
    <3>2. counters.read = n + counters.duplicate
      BY <1>0 DEF ReaderInv, n
    <3>3. counters'.read = n + counters'.duplicate
      BY <3>1, <3>2, <1>3
    <3>4. ReaderInv'
      BY <3>1, <3>3, <1>0 DEF ReaderInv, n
    <3>5. /\ counters' \in [read : Nat, duplicate : Nat, success : Nat, cannot_group : Nat]
          /\ counters'.success = counters.success
          /\ counters'.cannot_group = counters.cannot_group
      <4>1. counters' = [counters EXCEPT !.read = counters.read + 1,
                                         !.duplicate = counters.duplicate + 1]
        BY <3>1
      <4>2. counters.read + 1 \in Nat /\ counters.duplicate + 1 \in Nat
        BY <1>3
      <4> QED BY <4>1, <4>2, <1>3
    <3> QED BY <3>1, <3>4, <3>5, <1>3
  <2> QED BY <2>1, <2>2
<1>5. FixToolTypeOK'
  BY <1>0, <1>1, <1>2, <1>4 DEF FixToolTypeOK
<1>6. WorkerInv'
  BY <1>0, <1>1 DEF WorkerInv
<1>7. GoodInv' /\ MonitorInv' /\ ShardsHoldCorpus'
  BY <1>0, <1>1, <1>4, NoShards DEF GoodInv, MonitorInv, Collecting
<1>8. CorpusInv'
  BY <1>0, <1>1, <1>4 DEF CorpusInv, Collecting, partitionerVars
<1> QED BY <1>4, <1>5, <1>6, <1>7, <1>8 DEF FixToolParts

-----------------------------------------------------------------------------
(* The workers                                                               *)

LEMMA WorkerTypes ==
  ASSUME FixToolTypeOK, NEW w \in Workers
  PROVE  /\ worker[w].state \in {"none", "run", "exited"} /\ worker[w].next \in Nat
         /\ worker[w].count_update \in Nat /\ worker[w].good_snapshots \in Seq(Ids)
BY DEF FixToolTypeOK

LEMMA WorkerRecord ==
  ASSUME NEW q \in [state : {"none", "run", "exited"}, next : Nat,
                    count_update : Nat, good_snapshots : Seq(Ids)],
         NEW y, NEW u, NEW v
  PROVE  [q EXCEPT !.next = y, !.count_update = u, !.good_snapshots = v]
           = [state |-> q.state, next |-> y, count_update |-> u, good_snapshots |-> v]
<1> DEFINE r == [q EXCEPT !.next = y, !.count_update = u, !.good_snapshots = v]
           F == {"state", "next", "count_update", "good_snapshots"}
<1>1. DOMAIN q = F
  OBVIOUS
<1>2. DOMAIN r = F /\ r = [f \in F |-> r[f]]
  BY <1>1
<1>3. r.state = q.state /\ r.next = y /\ r.count_update = u /\ r.good_snapshots = v
  BY <1>1
<1> HIDE DEF r
<1>4. r = [f \in F |-> IF f = "state" THEN q.state ELSE IF f = "next" THEN y
                       ELSE IF f = "count_update" THEN u ELSE v]
  BY <1>2, <1>3
<1> QED BY <1>4 DEF r

LEMMA StartWorkersStep ==
  ASSUME FixToolInv, StartWorkers
  PROVE  FixToolParts'
<1>0. /\ FixToolTypeOK /\ ReaderInv /\ WorkerInv /\ GoodInv /\ MonitorInv
      /\ CorpusInv /\ ShardsHoldCorpus
  BY DEF FixToolInv
<1>1. /\ UNCHANGED <<reader, blobs, id_seen, counters, partitionerVars,
                     num_blobs_processed, joined, made_snapshots,
                     stop_progress_monitor, shards, written>>
      /\ phase = "read" /\ phase' = "make"
      /\ monitor' = [monitor EXCEPT !.state = "load"]
      /\ worker' = [w \in Workers |->
                      [worker[w] EXCEPT !.state = "run", !.next = Begin(w)]]
  BY DEF StartWorkers, outputVars, Begin
<1>2. blobs \in Seq(Ids) /\ \A i : Begin(i)' = Begin(i)
  BY <1>0, <1>1 DEF FixToolTypeOK, Begin
<1>3. \A w \in Workers : Begin(w) \in Nat /\ Begin(w + 1) \in Nat /\ Begin(w) <= Begin(w + 1)
  <2>1. \A w \in Workers : w <= w + 1
    BY FixToolParameters
  <2> QED BY <1>2, <2>1, BlobSpans, FixToolParameters
<1>4. ASSUME NEW w \in Workers
      PROVE  /\ worker'[w].state = "run" /\ worker'[w].next = Begin(w)
             /\ worker'[w].count_update = 0 /\ worker'[w].good_snapshots = <<>>
             /\ worker'[w] \in [state : {"none", "run", "exited"}, next : Nat,
                                count_update : Nat, good_snapshots : Seq(Ids)]
  <2>1. worker[w].count_update = 0 /\ worker[w].good_snapshots = <<>>
    BY <1>0, <1>1 DEF WorkerInv
  <2>2. worker[w] \in [state : {"none", "run", "exited"}, next : Nat,
                       count_update : Nat, good_snapshots : Seq(Ids)]
    BY <1>0 DEF FixToolTypeOK
  <2>3. worker'[w] = [worker[w] EXCEPT !.state = "run", !.next = Begin(w)]
    BY <1>1
  <2>4. Begin(w) \in Nat
    BY <1>3
  <2> QED BY <2>1, <2>2, <2>3, <2>4
<1>5. FixToolTypeOK'
  <2>1. worker' \in [Workers -> [state : {"none", "run", "exited"}, next : Nat,
                                 count_update : Nat, good_snapshots : Seq(Ids)]]
    BY <1>1, <1>4
  <2>2. monitor' \in [state : {"none", "load", "print", "exited"},
                      stop_monitoring : BOOLEAN, printed : Nat]
    BY <1>0, <1>1 DEF FixToolTypeOK
  <2> QED BY <2>1, <2>2, <1>0, <1>1 DEF FixToolTypeOK
<1>6. WorkerInv'
  <2> DEFINE c == [w \in Workers |-> Counted(w)']
  <2>1. \A w \in Workers : Counted(w)' = Begin(w) /\ Begin(w) \in Int
    BY <1>3, <1>4 DEF Counted
  <2>2. c \in [Workers -> Int] /\ \A w \in Workers : c[w] = Begin(w)
    BY <2>1
  <2>3. Processed' = Upto(c)
    BY <1>2 DEF Processed, Upto
  <2> HIDE DEF c
  <2>4. Cardinality(Processed') = 0
    BY <2>2, <2>3, <1>2, UptoNone
  <2>5. num_blobs_processed' = 0
    BY <1>0, <1>1 DEF WorkerInv
  <2>6. ASSUME NEW w \in Workers
        PROVE /\ worker'[w].state \in {"run", "exited"}
              /\ worker'[w].next <= Begin(w + 1)'
              /\ Begin(w)' + worker'[w].count_update <= worker'[w].next
              /\ worker'[w].state = "exited" => worker'[w].next = Begin(w + 1)'
    BY <1>2, <1>3, <1>4
  <2> QED BY <2>4, <2>5, <2>6, <1>1 DEF WorkerInv
<1>7. GoodInv'
  <2>1. joined' = 0 /\ counters'.success = 0
    BY <1>0, <1>1 DEF GoodInv
  <2>2. \A w \in Workers : Made(w)' = {}
    BY <1>2, <1>3, <1>4 DEF Made
  <2>3. 0..(0 - 1) = {} /\ Cardinality({}) = 0
    BY FS_EmptySet
  <2>4. MadeBy(joined)' = {}
    BY <2>1, <2>3 DEF MadeBy
  <2>5. \A w \in Workers : worker'[w].good_snapshots = Kept(blobs, Made(w))'
    BY <1>4, <2>2, KeptNone, ZenonT(60) DEF Kept
  <2>6. \A w \in 0..(joined' - 1) : worker'[w].state = "exited"
    BY <2>1, <2>3
  <2> QED BY <2>1, <2>3, <2>4, <2>5, <2>6, <1>1 DEF GoodInv, Collecting
<1>8. MonitorInv'
  <2>1. monitor'.state = "load" /\ monitor'.stop_monitoring = monitor.stop_monitoring
    BY <1>0, <1>1 DEF FixToolTypeOK
  <2> QED BY <2>1, <1>0, <1>1 DEF MonitorInv, Collecting
<1>9. CorpusInv'
  BY <1>0, <1>1 DEF CorpusInv, Collecting, partitionerVars
<1>10. ReaderInv' /\ ShardsHoldCorpus'
  BY <1>0, <1>1, ReaderFrame, NoShards
<1> QED BY <1>5, <1>6, <1>7, <1>8, <1>9, <1>10 DEF FixToolParts

\* A worker that runs is at work on its blobs, and not joined.
LEMMA RunningWorker ==
  ASSUME FixToolTypeOK, WorkerInv, GoodInv, NEW w \in Workers, worker[w].state = "run"
  PROVE  /\ phase = "make" /\ w \notin 0..(joined - 1)
         /\ blobs \in Seq(Ids)
         /\ Begin(w) \in Nat /\ Begin(w + 1) \in Nat /\ Begin(w + 1) <= Len(blobs)
         /\ \A v \in Workers :
              /\ Begin(v) \in Nat /\ Begin(v + 1) \in Nat
              /\ worker[v].next \in Nat /\ worker[v].count_update \in Nat
              /\ worker[v].next <= Begin(v + 1)
              /\ Begin(v) + worker[v].count_update <= worker[v].next
              /\ Counted(v) \in Int /\ Begin(v) <= Counted(v) /\ Counted(v) <= Begin(v + 1)
         /\ Counted(w) = worker[w].next - worker[w].count_update
         /\ num_blobs_processed = Cardinality(Processed)
         /\ Processed = Upto([v \in Workers |-> Counted(v)])
<1>1. phase # "read"
  BY DEF WorkerInv
<1>2. phase = "make" /\ w \notin 0..(joined - 1)
  BY <1>1 DEF GoodInv, Collecting
<1>3. blobs \in Seq(Ids)
  BY DEF FixToolTypeOK
<1>4. Begin(w) \in Nat /\ Begin(w + 1) \in Nat /\ Begin(w + 1) <= Len(blobs)
  BY <1>3, BlobSpans, FixToolParameters
<1>5. ASSUME NEW v \in Workers
      PROVE  /\ Begin(v) \in Nat /\ Begin(v + 1) \in Nat
             /\ worker[v].next \in Nat /\ worker[v].count_update \in Nat
             /\ worker[v].next <= Begin(v + 1)
             /\ Begin(v) + worker[v].count_update <= worker[v].next
             /\ Counted(v) \in Int /\ Begin(v) <= Counted(v) /\ Counted(v) <= Begin(v + 1)
  <2>1. Begin(v) \in Nat /\ Begin(v + 1) \in Nat
    BY <1>3, BlobSpans, FixToolParameters
  <2>2. worker[v].next \in Nat /\ worker[v].count_update \in Nat
    BY WorkerTypes
  <2>3. /\ worker[v].next <= Begin(v + 1)
        /\ Begin(v) + worker[v].count_update <= worker[v].next
    BY <1>1 DEF WorkerInv
  <2>4. CASE worker[v].state = "exited"
    BY <2>1, <2>2, <2>3, <2>4 DEF Counted
  <2>5. CASE worker[v].state # "exited"
    BY <2>1, <2>2, <2>3, <2>5 DEF Counted
  <2> QED BY <2>1, <2>2, <2>3, <2>4, <2>5
<1>6. Counted(w) = worker[w].next - worker[w].count_update
  BY DEF Counted
<1>7. num_blobs_processed = Cardinality(Processed)
  BY <1>1 DEF WorkerInv
<1>8. Processed = Upto([v \in Workers |-> Counted(v)])
  BY DEF Processed, Upto
<1> QED BY <1>2, <1>3, <1>4, <1>5, <1>6, <1>7, <1>8

LEMMA CountStep ==
  ASSUME FixToolTypeOK, WorkerInv, GoodInv, NEW w \in Workers, worker[w].state = "run",
         NEW k \in Nat, blobs' = blobs, num_blobs_processed' = num_blobs_processed + k,
         \A v \in Workers : v # w => Counted(v)' = Counted(v),
         Counted(w)' = Counted(w) + k, Counted(w) + k <= Begin(w + 1)
  PROVE  num_blobs_processed' = Cardinality(Processed')
<1> DEFINE c == [v \in Workers |-> Counted(v)]
           d == [v \in Workers |-> Counted(v)']
<1>1. /\ blobs \in Seq(Ids)
      /\ \A v \in Workers : Counted(v) \in Int /\ Begin(v) <= Counted(v)
                                               /\ Counted(v) <= Begin(v + 1)
      /\ num_blobs_processed = Cardinality(Processed) /\ Processed = Upto(c)
  BY RunningWorker
<1>2. \A i : Begin(i)' = Begin(i)
  BY DEF Begin
<1>3. Processed' = Upto(d)
  BY <1>2 DEF Processed, Upto
<1>4. d = [c EXCEPT ![w] = c[w] + k]
  OBVIOUS
<1>5. /\ c \in [Workers -> Int] /\ \A v \in Workers : c[v] <= Begin(v + 1)
      /\ Begin(w) <= c[w] /\ c[w] + k <= Begin(w + 1)
  BY <1>1
<1> HIDE DEF c, d
<1>6. Cardinality(Upto([c EXCEPT ![w] = c[w] + k])) = Cardinality(Upto(c)) + k
  BY <1>1, <1>5, UptoGrows
<1> QED BY <1>1, <1>3, <1>4, <1>6

LEMMA FixBlobStep ==
  ASSUME FixToolInv, NEW w \in Workers, FixBlob(w)
  PROVE  FixToolParts'
<1> DEFINE count == worker[w].count_update + 1
           flush == count >= kMinCountUpdateSize
           next == worker[w].next
           k == IF flush THEN count ELSE 0
<1>0. /\ FixToolTypeOK /\ ReaderInv /\ WorkerInv /\ GoodInv /\ MonitorInv
      /\ CorpusInv /\ ShardsHoldCorpus
  BY DEF FixToolInv
<1>1. /\ UNCHANGED <<partitionerVars, phase, reader, blobs, id_seen, joined,
                     made_snapshots, stop_progress_monitor, monitor, shards, written,
                     counters>>
      /\ worker[w].state = "run" /\ next \in Span(w)
      /\ num_blobs_processed' = num_blobs_processed + k
  BY DEF FixBlob, WorkerUnchanged, monitorVars, outputVars
<1>2. PICK good \in {<<>>, <<blobs[next + 1]>>} :
        worker' = [worker EXCEPT
          ![w].next = @ + 1,
          ![w].count_update = IF flush THEN 0 ELSE count,
          ![w].good_snapshots = @ \o good]
  BY DEF FixBlob
<1>3. /\ phase = "make" /\ w \notin 0..(joined - 1)
      /\ blobs \in Seq(Ids)
      /\ Begin(w) \in Nat /\ Begin(w + 1) \in Nat /\ Begin(w + 1) <= Len(blobs)
      /\ \A v \in Workers :
           /\ Begin(v) \in Nat /\ Begin(v + 1) \in Nat
           /\ worker[v].next \in Nat /\ worker[v].count_update \in Nat
           /\ worker[v].next <= Begin(v + 1)
           /\ Begin(v) + worker[v].count_update <= worker[v].next
           /\ Counted(v) \in Int /\ Begin(v) <= Counted(v) /\ Counted(v) <= Begin(v + 1)
      /\ Counted(w) = worker[w].next - worker[w].count_update
  BY <1>0, <1>1, RunningWorker
<1>4. /\ next \in Nat /\ Begin(w) <= next /\ next < Begin(w + 1)
      /\ next + 1 \in DOMAIN blobs /\ worker[w].count_update \in Nat
      /\ Begin(w) + worker[w].count_update <= next
  <2>1. Span(w) = Begin(w)..(Begin(w + 1) - 1) /\ DOMAIN blobs = 1..Len(blobs)
        /\ Len(blobs) \in Nat
    BY <1>3, BlobSpans
  <2>2. next \in Nat /\ worker[w].count_update \in Nat
        /\ Begin(w) + worker[w].count_update <= next
    BY <1>3
  <2> QED BY <2>1, <2>2, <1>1, <1>3, SMTT(30)
<1>5. /\ worker[w].good_snapshots \in Seq(Ids) /\ good \in Seq(Ids)
      /\ worker[w].good_snapshots \o good \in Seq(Ids)
  <2>1. good \in Seq(Ids)
    <3> DEFINE b == blobs[next + 1]
    <3>1. b \in Ids
      BY <1>3, <1>4
    <3>2. good = <<>> \/ good = <<b>>
      BY <1>2
    <3> HIDE DEF b
    <3>3. CASE good = <<>>
      BY <3>3
    <3>4. CASE good = <<b>>
      BY <3>1, <3>4
    <3> QED BY <3>2, <3>3, <3>4
  <2>2. worker[w].good_snapshots \in Seq(Ids)
    BY <1>0, WorkerTypes
  <2> QED BY <2>1, <2>2
<1>6. /\ \A v \in Workers : v # w => worker'[v] = worker[v]
      /\ worker'[w].state = "run" /\ worker'[w].next = next + 1
      /\ worker'[w].count_update = (IF flush THEN 0 ELSE count)
      /\ worker'[w].good_snapshots = worker[w].good_snapshots \o good
      /\ worker' \in [Workers -> [state : {"none", "run", "exited"}, next : Nat,
                                  count_update : Nat, good_snapshots : Seq(Ids)]]
  <2> DEFINE W == [state : {"none", "run", "exited"}, next : Nat,
                   count_update : Nat, good_snapshots : Seq(Ids)]
             x == [state |-> "run", next |-> next + 1,
                   count_update |-> IF flush THEN 0 ELSE count,
                   good_snapshots |-> worker[w].good_snapshots \o good]
  <2>1. worker \in [Workers -> W]
    BY <1>0 DEF FixToolTypeOK
  <2>2. worker' = [worker EXCEPT ![w] = [worker[w] EXCEPT
                     !.next = next + 1,
                     !.count_update = IF flush THEN 0 ELSE count,
                     !.good_snapshots = worker[w].good_snapshots \o good]]
    BY <1>2
  <2>3. next + 1 \in Nat /\ (IF flush THEN 0 ELSE count) \in Nat
    BY <1>4
  <2>4. worker[w] \in W
    BY <2>1
  <2>5. [worker[w] EXCEPT !.next = next + 1,
                     !.count_update = IF flush THEN 0 ELSE count,
                     !.good_snapshots = worker[w].good_snapshots \o good] = x
    <3> DEFINE q == worker[w]
               u == IF flush THEN 0 ELSE count
               v == worker[w].good_snapshots \o good
               y == next + 1
    <3>1. q \in W /\ q.state = "run"
      BY <2>4, <1>1
    <3>2. x = [state |-> "run", next |-> y, count_update |-> u, good_snapshots |-> v]
      OBVIOUS
    <3> HIDE DEF q, u, v, x, y
    <3>3. [q EXCEPT !.next = y, !.count_update = u, !.good_snapshots = v] = x
      <4>1. [q EXCEPT !.next = y, !.count_update = u, !.good_snapshots = v]
              = [state |-> q.state, next |-> y, count_update |-> u, good_snapshots |-> v]
        BY <3>1, WorkerRecord, Zenon
      <4> QED BY <3>1, <3>2, <4>1, Zenon
    <3> QED BY <3>3 DEF q, u, v, y
  <2>6. x \in W
    BY <2>3, <1>5
  <2>7. worker' = [worker EXCEPT ![w] = x]
    BY <2>2, <2>5
  <2>8. x.state = "run" /\ x.next = next + 1
        /\ x.count_update = (IF flush THEN 0 ELSE count)
        /\ x.good_snapshots = worker[w].good_snapshots \o good
    OBVIOUS
  <2> HIDE DEF x, W
  <2>9. worker' \in [Workers -> W] /\ worker'[w] = x
        /\ \A v \in Workers : v # w => worker'[v] = worker[v]
    BY <2>1, <2>6, <2>7
  <2> QED BY <2>8, <2>9 DEF W
<1>7. FixToolTypeOK'
  <2>1. num_blobs_processed' \in Nat
    BY <1>0, <1>1, <1>4, SMTT(30) DEF FixToolTypeOK
  <2> QED BY <2>1, <1>0, <1>1, <1>6 DEF FixToolTypeOK
<1>8. \A i : Begin(i)' = Begin(i)
  BY <1>1 DEF Begin
<1>9. WorkerInv'
  <2>1. k \in Nat /\ Counted(w)' = Counted(w) + k /\ Counted(w) + k <= Begin(w + 1)
    <3>1. Counted(w)' = (next + 1) - (IF flush THEN 0 ELSE count)
      BY <1>6 DEF Counted
    <3>2. CASE flush
      <4>1. k = count /\ Counted(w)' = next + 1 /\ Counted(w) = next - worker[w].count_update
        BY <3>1, <3>2, <1>3, <1>4
      <4>2. count = worker[w].count_update + 1 /\ worker[w].count_update \in Nat /\ next \in Nat
        BY <1>4
      <4>3. next < Begin(w + 1) /\ Begin(w + 1) \in Nat
        BY <1>3, <1>4
      <4> HIDE DEF k, next, flush, count
      <4> QED BY <4>1, <4>2, <4>3
    <3>3. CASE ~flush
      BY <3>1, <3>3, <1>3, <1>4, SMTT(30)
    <3> QED BY <3>2, <3>3
  <2>2. \A v \in Workers : v # w => Counted(v)' = Counted(v)
    BY <1>6 DEF Counted
  <2> HIDE DEF k
  <2>3. num_blobs_processed' = Cardinality(Processed')
    BY <2>1, <2>2, <1>0, <1>1, CountStep
  <2>4. ASSUME NEW v \in Workers
        PROVE /\ worker'[v].state \in {"run", "exited"}
              /\ worker'[v].next <= Begin(v + 1)'
              /\ Begin(v)' + worker'[v].count_update <= worker'[v].next
              /\ worker'[v].state = "exited" => worker'[v].next = Begin(v + 1)'
    <3>1. CASE v = w
      <4>1. /\ worker'[w].state = "run" /\ worker'[w].next = next + 1
            /\ worker'[w].count_update = (IF flush THEN 0 ELSE count)
            /\ Begin(w + 1)' = Begin(w + 1) /\ Begin(w)' = Begin(w)
        BY <1>6, <1>8
      <4>2. next + 1 <= Begin(w + 1)
        BY <1>3, <1>4
      <4>3. Begin(w) + (IF flush THEN 0 ELSE count) <= next + 1
        <5>1. /\ next \in Nat /\ Begin(w) \in Nat /\ Begin(w) <= next
              /\ worker[w].count_update \in Nat /\ count = worker[w].count_update + 1
              /\ Begin(w) + worker[w].count_update <= next
          BY <1>3, <1>4
        <5> HIDE DEF next, flush, count
        <5> QED BY <5>1
      <4> QED BY <3>1, <4>1, <4>2, <4>3
    <3>2. CASE v # w
      <4>1. worker'[v] = worker[v] /\ Begin(v)' = Begin(v) /\ Begin(v + 1)' = Begin(v + 1)
        BY <3>2, <1>6, <1>8
      <4> QED BY <4>1, <1>0, <1>3 DEF WorkerInv
    <3> QED BY <3>1, <3>2
  <2> QED BY <2>3, <2>4, <1>1, <1>3 DEF WorkerInv
<1>10. \A v \in Workers : v # w => Made(v)' = Made(v)
  BY <1>1, <1>6, <1>8 DEF Made
<1>11. worker'[w].good_snapshots = Kept(blobs, Made(w)')
  <2> DEFINE K == Made(w)
             g == worker[w].good_snapshots
  <2>1. /\ K \in SUBSET DOMAIN blobs /\ K \subseteq (Begin(w) + 1)..next
    BY <1>3, MadeFacts
  <2>2. g = Kept(blobs, K)
    BY <1>0, <1>3 DEF GoodInv
  <2>3. Range(g) = {blobs[i] : i \in K}
    <3> HIDE DEF K
    <3> QED BY <2>1, <2>2, <1>3, KeptFacts
  <2>4. next + 1 \notin K /\ \A i \in K : i < next + 1
    BY <2>1, <1>3, <1>4
  <2>5. Made(w)' = {i \in (Begin(w) + 1)..(next + 1) : blobs[i] \in Range(g \o good)}
    BY <1>1, <1>6, <1>8 DEF Made
  <2>6. K = {i \in (Begin(w) + 1)..next : blobs[i] \in Range(g)}
    BY DEF Made
  <2>7. (Begin(w) + 1)..(next + 1) = ((Begin(w) + 1)..next) \cup {next + 1}
    BY <1>3, <1>4
  <2>8. blobs[next + 1] \notin Range(g)
    <3>1. \A i \in K : i \in DOMAIN blobs /\ i # next + 1
      BY <2>1, <2>4
    <3>2. \A i \in K : blobs[i] # blobs[next + 1]
      <4> HIDE DEF K
      <4> QED BY <3>1, <1>0, <1>4 DEF ReaderInv, IsInjective
    <3> HIDE DEF g, K
    <3> QED BY <3>2, <2>3
  <2>9. CASE good = <<>>
    <3>1. g \o good = g
      BY <2>9, <1>5
    <3>2. Made(w)' = K
      BY <3>1, <2>5, <2>6, <2>7, <2>8
    <3> QED BY <3>1, <3>2, <2>2, <1>6
  <2>10. CASE good = <<blobs[next + 1]>>
    <3>1. Range(g \o good) = Range(g) \cup {blobs[next + 1]}
      <4> DEFINE b == blobs[next + 1]
      <4>1. g \in Seq(Ids) /\ b \in Ids /\ good = <<b>>
        BY <2>10, <1>3, <1>4, <1>5
      <4> HIDE DEF g, b
      <4>2. /\ Len(g) \in Nat /\ DOMAIN g = 1..Len(g)
            /\ DOMAIN (g \o <<b>>) = 1..(Len(g) + 1)
            /\ \A i \in 1..Len(g) : (g \o <<b>>)[i] = g[i]
            /\ (g \o <<b>>)[Len(g) + 1] = b
        BY <4>1
      <4>3. 1..(Len(g) + 1) = (1..Len(g)) \cup {Len(g) + 1}
        BY <4>2
      <4> QED BY <4>1, <4>2, <4>3 DEF Range, b
    <3>2. ASSUME NEW i \in (Begin(w) + 1)..next, blobs[i] = blobs[next + 1] PROVE FALSE
      <4>1. i \in DOMAIN blobs /\ i # next + 1
        <5>1. Len(blobs) \in Nat /\ DOMAIN blobs = 1..Len(blobs)
          BY <1>3, BlobSpans
        <5> HIDE DEF next
        <5> QED BY <5>1, <1>3, <1>4
      <4> QED BY <3>2, <4>1, <1>0, <1>4 DEF ReaderInv, IsInjective
    <3>3. Made(w)' = K \cup {next + 1}
      <4> HIDE DEF K, g, next
      <4>1. \A i \in (Begin(w) + 1)..next : blobs[i] \in Range(g \o good) <=> blobs[i] \in Range(g)
        BY <3>1, <3>2
      <4>2. blobs[next + 1] \in Range(g \o good)
        BY <3>1
      <4> QED BY <4>1, <4>2, <2>5, <2>6, <2>7
    <3>4. Kept(blobs, K) \o Kept(blobs, {next + 1}) = Kept(blobs, K \cup {next + 1})
      <4> DEFINE L == {next + 1}
      <4>1. L \in SUBSET DOMAIN blobs
        BY <1>4
      <4>2. \A i \in K, j \in L : i < j
        BY <2>4
      <4> HIDE DEF K, L
      <4>3. Kept(blobs, K) \o Kept(blobs, L) = Kept(blobs, K \cup L)
        BY <4>1, <4>2, <2>1, <1>3, KeptCat
      <4> QED BY <4>3 DEF L
    <3>5. Kept(blobs, {next + 1}) = good
      BY <2>10, <1>3, <1>4, KeptOne
    <3> HIDE DEF K, g
    <3>6. g \o good = Kept(blobs, Made(w)')
      BY <3>3, <3>4, <3>5, <2>2
    <3> QED BY <3>6, <1>6 DEF g
  <2> QED BY <2>9, <2>10, <1>2
<1>12. GoodInv'
  <2>1. \A v \in 0..(joined - 1) : v \in Workers /\ v # w
    BY <1>0, <1>3, FixToolParameters DEF FixToolTypeOK
  <2>2. MadeBy(joined)' = MadeBy(joined)
    BY <1>1, <1>10, <2>1 DEF MadeBy
  <2>3. \A v \in Workers : worker'[v].good_snapshots = Kept(blobs, Made(v)')
    BY <1>0, <1>3, <1>6, <1>10, <1>11 DEF GoodInv
  <2>4. \A v \in 0..(joined' - 1) : worker'[v].state = "exited"
    BY <2>1, <1>0, <1>1, <1>3, <1>6 DEF GoodInv
  <2>5. \A v \in Workers : Kept(blobs, Made(v))' = Kept(blobs, Made(v)')
    BY <1>1 DEF Kept
  <2> QED BY <2>2, <2>3, <2>4, <2>5, <1>0, <1>1, <1>3 DEF GoodInv, Collecting
<1>13. ReaderInv' /\ MonitorInv' /\ ShardsHoldCorpus'
  BY <1>0, <1>1, <1>3, ReaderFrame, MonitorFrame, NoShards DEF Collecting
<1>14. CorpusInv'
  BY <1>0, <1>1, <1>3 DEF CorpusInv, Collecting, partitionerVars
<1> QED BY <1>7, <1>9, <1>12, <1>13, <1>14 DEF FixToolParts

LEMMA WorkerReturnsStep ==
  ASSUME FixToolInv, NEW w \in Workers, WorkerReturns(w)
  PROVE  FixToolParts'
<1> DEFINE next == worker[w].next
           k == worker[w].count_update
<1>0. /\ FixToolTypeOK /\ ReaderInv /\ WorkerInv /\ GoodInv /\ MonitorInv
      /\ CorpusInv /\ ShardsHoldCorpus
  BY DEF FixToolInv
<1>1. /\ UNCHANGED <<partitionerVars, phase, reader, blobs, id_seen, joined,
                     made_snapshots, stop_progress_monitor, monitor, shards, written,
                     counters>>
      /\ worker[w].state = "run" /\ next \notin Span(w)
      /\ num_blobs_processed' = num_blobs_processed + k
      /\ worker' = [worker EXCEPT ![w].state = "exited"]
  BY DEF WorkerReturns, WorkerUnchanged, monitorVars, outputVars
<1>2. /\ phase = "make" /\ w \notin 0..(joined - 1)
      /\ blobs \in Seq(Ids)
      /\ Begin(w) \in Nat /\ Begin(w + 1) \in Nat /\ Begin(w + 1) <= Len(blobs)
      /\ \A v \in Workers :
           /\ Begin(v) \in Nat /\ Begin(v + 1) \in Nat
           /\ worker[v].next \in Nat /\ worker[v].count_update \in Nat
           /\ worker[v].next <= Begin(v + 1)
           /\ Begin(v) + worker[v].count_update <= worker[v].next
           /\ Counted(v) \in Int /\ Begin(v) <= Counted(v) /\ Counted(v) <= Begin(v + 1)
      /\ Counted(w) = next - k
  BY <1>0, <1>1, RunningWorker
<1>3. next \in Nat /\ k \in Nat /\ next = Begin(w + 1)
  <2>1. Span(w) = Begin(w)..(Begin(w + 1) - 1)
    BY <1>2, BlobSpans
  <2>2. next \in Nat /\ k \in Nat /\ next <= Begin(w + 1) /\ Begin(w) + k <= next
    BY <1>2
  <2> HIDE DEF next, k
  <2> QED BY <2>1, <2>2, <1>1, <1>2
<1>4. /\ \A v \in Workers : v # w => worker'[v] = worker[v]
      /\ worker'[w].state = "exited" /\ worker'[w].next = next
      /\ worker'[w].count_update = k
      /\ worker'[w].good_snapshots = worker[w].good_snapshots
      /\ worker' \in [Workers -> [state : {"none", "run", "exited"}, next : Nat,
                                  count_update : Nat, good_snapshots : Seq(Ids)]]
  BY <1>0, <1>1, ZenonT(60) DEF FixToolTypeOK
<1>5. FixToolTypeOK'
  <2>1. num_blobs_processed' \in Nat
    BY <1>0, <1>1, <1>3 DEF FixToolTypeOK
  <2> QED BY <2>1, <1>0, <1>1, <1>4 DEF FixToolTypeOK
<1>6. \A i : Begin(i)' = Begin(i)
  BY <1>1 DEF Begin
<1>7. WorkerInv'
  <2>1. k \in Nat /\ Counted(w)' = Counted(w) + k /\ Counted(w) + k <= Begin(w + 1)
    <3>1. Counted(w)' = next
      BY <1>3, <1>4 DEF Counted
    <3>2. Counted(w) = next - k
      BY <1>2
    <3> HIDE DEF next, k
    <3> QED BY <3>1, <3>2, <1>3
  <2>2. \A v \in Workers : v # w => Counted(v)' = Counted(v)
    BY <1>4 DEF Counted
  <2> HIDE DEF k
  <2>3. num_blobs_processed' = Cardinality(Processed')
    BY <2>1, <2>2, <1>0, <1>1, CountStep
  <2>4. ASSUME NEW v \in Workers
        PROVE /\ worker'[v].state \in {"run", "exited"}
              /\ worker'[v].next <= Begin(v + 1)'
              /\ Begin(v)' + worker'[v].count_update <= worker'[v].next
              /\ worker'[v].state = "exited" => worker'[v].next = Begin(v + 1)'
    <3>1. CASE v = w
      <4>1. /\ worker'[w].state = "exited" /\ worker'[w].next = Begin(w + 1)
            /\ worker'[w].next = worker[w].next
            /\ worker'[w].count_update = worker[w].count_update
            /\ Begin(w + 1)' = Begin(w + 1) /\ Begin(w)' = Begin(w)
        BY <1>3, <1>4, <1>6 DEF k
      <4>2. Begin(w) + worker[w].count_update <= worker[w].next
        BY <1>2
      <4>3. Begin(w + 1) <= Begin(w + 1)
        BY <1>2
      <4> QED BY <3>1, <4>1, <4>2, <4>3
    <3>2. CASE v # w
      <4>1. worker'[v] = worker[v] /\ Begin(v)' = Begin(v) /\ Begin(v + 1)' = Begin(v + 1)
        BY <3>2, <1>4, <1>6
      <4> QED BY <4>1, <1>0, <1>2 DEF WorkerInv
    <3> QED BY <3>1, <3>2
  <2> QED BY <2>3, <2>4, <1>1, <1>2 DEF WorkerInv
<1>8. GoodInv'
  <2>1. \A v \in Workers : Made(v)' = Made(v) /\ worker'[v].good_snapshots = worker[v].good_snapshots
    BY <1>1, <1>4, <1>6 DEF Made
  <2>2. \A v \in 0..(joined - 1) : v \in Workers /\ v # w
    BY <1>0, <1>2, FixToolParameters DEF FixToolTypeOK
  <2>3. MadeBy(joined)' = MadeBy(joined)
    BY <1>1, <2>1, <2>2 DEF MadeBy
  <2>4. \A v \in 0..(joined' - 1) : worker'[v].state = "exited"
    BY <2>2, <1>0, <1>1, <1>2, <1>4 DEF GoodInv
  <2>5. \A v \in Workers : Kept(blobs, Made(v))' = Kept(blobs, Made(v))
    BY <1>1, <2>1 DEF Kept
  <2> QED BY <2>1, <2>3, <2>4, <2>5, <1>0, <1>1, <1>2 DEF GoodInv, Collecting
<1>9. ReaderInv' /\ MonitorInv' /\ ShardsHoldCorpus'
  BY <1>0, <1>1, <1>2, ReaderFrame, MonitorFrame, NoShards DEF Collecting
<1>10. CorpusInv'
  BY <1>0, <1>1, <1>2 DEF CorpusInv, Collecting, partitionerVars
<1> QED BY <1>5, <1>7, <1>8, <1>9, <1>10 DEF FixToolParts

-----------------------------------------------------------------------------
(* The joins                                                                 *)

LEMMA NextBounds ==
  ASSUME FixToolTypeOK, WorkerInv, phase # "read"
  PROVE  \A w \in Workers : worker[w].next \in Nat /\ worker[w].next <= Begin(w + 1)
BY WorkerTypes DEF WorkerInv

LEMMA JoinWorkerStep ==
  ASSUME FixToolInv, JoinWorker
  PROVE  FixToolParts'
<1> DEFINE n == Len(worker[joined].good_snapshots)
<1>0. /\ FixToolTypeOK /\ ReaderInv /\ WorkerInv /\ GoodInv /\ MonitorInv
      /\ CorpusInv /\ ShardsHoldCorpus
  BY DEF FixToolInv
<1>1. /\ UNCHANGED <<partitionerVars, phase, reader, blobs, id_seen, worker,
                     num_blobs_processed, made_snapshots, stop_progress_monitor,
                     monitor, shards, written>>
      /\ phase = "make" /\ joined < NumWorkers /\ worker[joined].state = "exited"
      /\ joined' = joined + 1
      /\ counters' = [counters EXCEPT !.success = @ + n]
  BY DEF JoinWorker, monitorVars, outputVars
<1>2. joined \in Workers /\ joined \in 0..NumWorkers /\ joined \in Nat
  BY <1>0, <1>1, FixToolParameters DEF FixToolTypeOK
<1>3. /\ blobs \in Seq(Ids)
      /\ counters \in [read : Nat, duplicate : Nat, success : Nat, cannot_group : Nat]
  BY <1>0 DEF FixToolTypeOK
<1>4. n = Cardinality(Made(joined)) /\ n \in Nat /\ IsFiniteSet(Made(joined))
  <2>1. Made(joined) \in SUBSET DOMAIN blobs
    BY <1>0, <1>1, <1>2, <1>3, NextBounds, MadeFacts
  <2>2. worker[joined].good_snapshots = Kept(blobs, Made(joined))
    BY <1>0, <1>1, <1>2 DEF GoodInv
  <2> QED BY <2>1, <2>2, <1>3, KeptFacts
<1>5. Cardinality(MadeBy(joined + 1)) = counters.success + n
  <2>1. /\ MadeBy(joined + 1) = MadeBy(joined) \cup Made(joined)
        /\ MadeBy(joined) \cap Made(joined) = {} /\ IsFiniteSet(MadeBy(joined))
    BY <1>0, <1>1, <1>2, <1>3, NextBounds, MadeByFacts
  <2>2. counters.success = Cardinality(MadeBy(joined))
    BY <1>0, <1>1 DEF GoodInv
  <2> HIDE DEF n
  <2> QED BY <2>1, <2>2, <1>4, DisjointUnion
<1> HIDE DEF n
<1>6. /\ counters' \in [read : Nat, duplicate : Nat, success : Nat, cannot_group : Nat]
      /\ counters'.success = counters.success + n
      /\ counters'.read = counters.read /\ counters'.duplicate = counters.duplicate
      /\ counters'.cannot_group = counters.cannot_group
  BY <1>1, <1>3, <1>4
<1>7. FixToolTypeOK'
  <2>1. joined' \in 0..NumWorkers
    BY <1>1, <1>2, FixToolParameters
  <2> QED BY <2>1, <1>0, <1>1, <1>6 DEF FixToolTypeOK
<1>8. GoodInv'
  <2>1. \A w : Made(w)' = Made(w)
    BY <1>1 DEF Made, Begin
  <2>2. MadeBy(joined)' = MadeBy(joined + 1)
    BY <1>1, <2>1 DEF MadeBy
  <2>3. \A w \in 0..(joined' - 1) : w \in 0..(joined - 1) \/ w = joined
    BY <1>1, <1>2
  <2>4. \A w \in 0..(joined' - 1) : worker'[w].state = "exited"
    BY <2>3, <1>0, <1>1 DEF GoodInv
  <2>5. counters'.success = Cardinality(MadeBy(joined)')
    BY <2>2, <1>5, <1>6
  <2>6. \A w \in Workers : Kept(blobs, Made(w))' = Kept(blobs, Made(w))
    BY <1>1, <2>1 DEF Kept
  <2> QED BY <2>4, <2>5, <2>6, <1>0, <1>1 DEF GoodInv, Collecting
<1>9. ReaderInv' /\ WorkerInv' /\ MonitorInv' /\ ShardsHoldCorpus'
  BY <1>0, <1>1, <1>6, ReaderFrame, WorkerFrame, MonitorFrame, NoShards DEF Collecting
<1>10. CorpusInv'
  BY <1>0, <1>1, <1>6 DEF CorpusInv, Collecting, partitionerVars
<1> QED BY <1>7, <1>8, <1>9, <1>10 DEF FixToolParts

\* Every blob is counted when the workers have returned.
LEMMA AllProcessed ==
  ASSUME FixToolTypeOK, WorkerInv, phase # "read",
         \A w \in Workers : worker[w].state = "exited"
  PROVE  num_blobs_processed = Len(blobs)
<1> DEFINE c == [w \in Workers |-> Counted(w)]
<1>1. blobs \in Seq(Ids)
  BY DEF FixToolTypeOK
<1>2. \A w \in Workers : Counted(w) = Begin(w + 1) /\ Begin(w + 1) \in Int
  <2> TAKE w \in Workers
  <2>1. worker[w].next = Begin(w + 1) /\ Begin(w + 1) \in Nat
    BY <1>1, BlobSpans, FixToolParameters DEF WorkerInv
  <2> QED BY <2>1 DEF Counted
<1>3. c \in [Workers -> Int] /\ \A w \in Workers : c[w] = Begin(w + 1)
  BY <1>2
<1>4. Processed = Upto(c)
  BY DEF Processed, Upto
<1> HIDE DEF c
<1>5. Cardinality(Processed) = Len(blobs)
  BY <1>1, <1>3, <1>4, UptoAll
<1> QED BY <1>5 DEF WorkerInv

LEMMA CollectStep ==
  ASSUME FixToolInv, CollectSnapshots
  PROVE  FixToolParts'
<1> DEFINE K == MadeBy(NumWorkers)
<1>0. /\ FixToolTypeOK /\ ReaderInv /\ WorkerInv /\ GoodInv /\ MonitorInv
      /\ CorpusInv /\ ShardsHoldCorpus
  BY DEF FixToolInv
<1>1. /\ UNCHANGED <<partitionerVars, reader, blobs, id_seen, num_blobs_processed,
                     joined, monitor, shards, written, counters>>
      /\ phase = "make" /\ joined = NumWorkers
      /\ made_snapshots' =
           FlattenSeq([i \in 1..NumWorkers |-> worker[i - 1].good_snapshots])
      /\ worker' = [w \in Workers |-> [worker[w] EXCEPT !.good_snapshots = <<>>]]
      /\ stop_progress_monitor' = TRUE
      /\ phase' = "stop"
  BY DEF CollectSnapshots, outputVars
<1>2. /\ blobs \in Seq(Ids)
      /\ \A w \in Workers : worker[w].next \in Nat /\ worker[w].next <= Begin(w + 1)
      /\ \A w \in Workers : worker[w].good_snapshots = Kept(blobs, Made(w))
  BY <1>0, <1>1, NextBounds DEF FixToolTypeOK, GoodInv
<1>3. made_snapshots' = Kept(blobs, K)
  BY <1>1, <1>2, InOrder
<1>4. K \in SUBSET DOMAIN blobs
  <2>1. NumWorkers \in 0..NumWorkers
    BY FixToolParameters
  <2> QED BY <2>1, <1>2, MadeByFacts
<1>5. made_snapshots' \in Seq(Ids) /\ Len(made_snapshots') = Cardinality(K)
  <2> HIDE DEF K
  <2> QED BY <1>2, <1>3, <1>4, KeptFacts
<1>6. counters'.success = Len(made_snapshots')
  BY <1>0, <1>1, <1>5 DEF GoodInv
<1>7. \A w \in Workers : worker[w].state = "exited"
  <2>1. Workers = 0..(joined - 1)
    BY <1>1, FixToolParameters
  <2> QED BY <2>1, <1>0, <1>1 DEF GoodInv
<1>8. /\ worker' \in [Workers -> [state : {"none", "run", "exited"}, next : Nat,
                                  count_update : Nat, good_snapshots : Seq(Ids)]]
      /\ \A w \in Workers : /\ worker'[w].state = worker[w].state
                            /\ worker'[w].next = worker[w].next
                            /\ worker'[w].count_update = worker[w].count_update
  <2>1. <<>> \in Seq(Ids)
    OBVIOUS
  <2> QED BY <2>1, <1>0, <1>1, ZenonT(60) DEF FixToolTypeOK
<1>9. FixToolTypeOK'
  BY <1>0, <1>1, <1>5, <1>8 DEF FixToolTypeOK
<1>10. WorkerInv'
  <2>1. \A i : Begin(i)' = Begin(i)
    BY <1>1 DEF Begin
  <2>2. \A w \in Workers : Counted(w)' = Counted(w)
    BY <1>8 DEF Counted
  <2>3. Processed' = Processed
    BY <2>1, <2>2 DEF Processed
  <2> QED BY <2>1, <2>3, <1>0, <1>1, <1>8 DEF WorkerInv
<1>11. GoodInv'
  BY <1>1, <1>7, <1>8 DEF GoodInv, Collecting
<1>12. MonitorInv'
  BY <1>0, <1>1 DEF MonitorInv, Collecting
<1>13. CorpusInv'
  <2>1. \E L \in SUBSET DOMAIN blobs' : made_snapshots' = Kept(blobs, L)'
    <3> HIDE DEF K
    <3>1. made_snapshots' = [i \in 1..Cardinality(K) |-> blobs'[Nth(K, i)]]
      BY <1>1, <1>3 DEF Kept
    <3> QED BY <3>1, <1>1, <1>4 DEF Kept
  <2>2. pc' = "idle" /\ counters'.cannot_group = 0
    BY <1>0, <1>1 DEF CorpusInv, partitionerVars
  <2> QED BY <2>1, <2>2, <1>1, <1>6 DEF CorpusInv, Collecting
<1>14. ReaderInv' /\ ShardsHoldCorpus'
  BY <1>0, <1>1, ReaderFrame, NoShards
<1> QED BY <1>9, <1>10, <1>11, <1>12, <1>13, <1>14 DEF FixToolParts

LEMMA MonitorStepKeeps ==
  ASSUME FixToolInv, MonitorStep
  PROVE  FixToolParts'
<1>0. /\ FixToolTypeOK /\ ReaderInv /\ WorkerInv /\ GoodInv /\ MonitorInv
      /\ CorpusInv /\ ShardsHoldCorpus
  BY DEF FixToolInv
<1>1. UNCHANGED <<partitionerVars, phase, reader, blobs, id_seen, worker,
                  num_blobs_processed, joined, made_snapshots,
                  stop_progress_monitor, shards, written, counters>>
  BY Zenon DEF MonitorStep, LoadStop, PrintProgress, NoCheckpoint, MonitorUnchanged,
     makeVars, outputVars
<1>2. monitor \in [state : {"none", "load", "print", "exited"},
                   stop_monitoring : BOOLEAN, printed : Nat]
      /\ stop_progress_monitor \in BOOLEAN /\ num_blobs_processed \in Nat
  BY <1>0 DEF FixToolTypeOK
<1>3. /\ monitor' \in [state : {"none", "load", "print", "exited"},
                       stop_monitoring : BOOLEAN, printed : Nat]
      /\ MonitorInv'
  <2>1. CASE LoadStop
    <3>1. /\ monitor.state = "load"
          /\ monitor' = [monitor EXCEPT !.stop_monitoring = stop_progress_monitor,
                                        !.state = "print"]
      BY <2>1 DEF LoadStop
    <3>2. /\ monitor' \in [state : {"none", "load", "print", "exited"},
                           stop_monitoring : BOOLEAN, printed : Nat]
          /\ monitor'.state = "print" /\ monitor'.stop_monitoring = stop_progress_monitor
      BY <3>1, <1>2
    <3> QED BY <3>1, <3>2, <1>0, <1>1 DEF MonitorInv, Collecting
  <2>2. CASE PrintProgress
    <3>1. /\ monitor.state = "print"
          /\ monitor' = [monitor EXCEPT !.printed = num_blobs_processed,
                           !.state = IF monitor.stop_monitoring THEN "exited" ELSE "load"]
      BY <2>2 DEF PrintProgress
    <3>2. /\ monitor' \in [state : {"none", "load", "print", "exited"},
                           stop_monitoring : BOOLEAN, printed : Nat]
          /\ monitor'.state = (IF monitor.stop_monitoring THEN "exited" ELSE "load")
          /\ monitor'.stop_monitoring = monitor.stop_monitoring
          /\ monitor'.printed = num_blobs_processed
      BY <3>1, <1>2
    <3>3. Collecting => num_blobs_processed = Len(blobs)
      <4> SUFFICES ASSUME Collecting PROVE num_blobs_processed = Len(blobs)
        OBVIOUS
      <4>1. phase # "read" /\ \A w \in Workers : worker[w].state = "exited"
        BY <1>0 DEF GoodInv, Collecting
      <4> QED BY <4>1, <1>0, AllProcessed
    <3> QED BY <3>1, <3>2, <3>3, <1>0, <1>1 DEF MonitorInv, Collecting
  <2>3. CASE NoCheckpoint
    <3>1. /\ monitor.state = "print" /\ monitor' = [monitor EXCEPT !.state = "load"]
      BY <2>3 DEF NoCheckpoint
    <3>2. /\ monitor' \in [state : {"none", "load", "print", "exited"},
                           stop_monitoring : BOOLEAN, printed : Nat]
          /\ monitor'.state = "load"
          /\ monitor'.stop_monitoring = monitor.stop_monitoring
      BY <3>1, <1>2
    <3> QED BY <3>1, <3>2, <1>0, <1>1 DEF MonitorInv, Collecting
  <2> QED BY <2>1, <2>2, <2>3 DEF MonitorStep
<1>4. FixToolTypeOK'
  BY <1>0, <1>1, <1>3 DEF FixToolTypeOK
<1>5. ReaderInv' /\ WorkerInv' /\ GoodInv'
  BY <1>0, <1>1, ReaderFrame, WorkerFrame, GoodFrame
<1>6. ShardsHoldCorpus'
  BY <1>0, <1>1, ShardsFrame DEF partitionerVars
<1>7. CorpusInv'
  BY <1>0, <1>1 DEF CorpusInv, Collecting, partitionerVars, CorpusIds, Kept
<1> QED BY <1>3, <1>4, <1>5, <1>6, <1>7 DEF FixToolParts

-----------------------------------------------------------------------------
(* The partition and the output                                              *)

LEMMA JoinMonitorStep ==
  ASSUME FixToolInv, JoinMonitor
  PROVE  FixToolParts'
<1>0. /\ FixToolTypeOK /\ ReaderInv /\ WorkerInv /\ GoodInv /\ MonitorInv
      /\ CorpusInv /\ ShardsHoldCorpus
  BY DEF FixToolInv
<1>1. /\ UNCHANGED <<reader, blobs, id_seen, worker, num_blobs_processed, joined,
                     made_snapshots, stop_progress_monitor, monitor, shards, written,
                     counters>>
      /\ phase = "stop" /\ phase' = "partition"
  BY DEF JoinMonitor, makeVars, monitorVars, outputVars
<1>2. FixToolTypeOK'
  BY <1>0, <1>1 DEF FixToolTypeOK
<1>3. ReaderInv' /\ WorkerInv' /\ GoodInv' /\ MonitorInv' /\ ShardsHoldCorpus'
  BY <1>0, <1>1, ReaderFrame, WorkerFrame, GoodLater, MonitorFrame, NoShards
     DEF Collecting
<1>4. CorpusInv'
  BY <1>0, <1>1 DEF CorpusInv, Collecting, Kept
<1> QED BY <1>2, <1>3, <1>4 DEF FixToolParts

LEMMA PartitionStep ==
  ASSUME FixToolInv, PartitionCaller \/ \E t \in Threads : PartitionThread(t)
  PROVE  FixToolParts'
<1>0. /\ FixToolTypeOK /\ ReaderInv /\ WorkerInv /\ GoodInv /\ MonitorInv
      /\ CorpusInv /\ ShardsHoldCorpus
  BY DEF FixToolInv
<1>1. UNCHANGED <<phase, reader, blobs, id_seen, worker, num_blobs_processed, joined,
                  made_snapshots, stop_progress_monitor, monitor, shards, written,
                  counters>>
  BY Zenon DEF PartitionCaller, PartitionThread, FixToolUnchanged, makeVars, monitorVars,
     outputVars
<1>2. memory_mappings' = memory_mappings /\ (pc = "idle" => pc' = "idle")
  <2>1. CASE PartitionCaller
    BY <2>1 DEF PartitionCaller, CallerStep, PartitionSnapshots, ScheduleGroup,
       ShutDownPool, JoinPool, PartitionReturns
  <2>2. ASSUME NEW t \in Threads, PartitionThread(t)
        PROVE  memory_mappings' = memory_mappings /\ pc' = pc
    BY <2>2 DEF PartitionThread, ThreadStep, WorkLoop, TrySummary, TaskReturns
  <2> QED BY <2>1, <2>2
<1>3. FixToolTypeOK'
  BY <1>0, <1>1 DEF FixToolTypeOK
<1>4. ReaderInv' /\ WorkerInv' /\ GoodInv' /\ MonitorInv' /\ ShardsHoldCorpus'
  BY <1>0, <1>1, <1>2, ReaderFrame, WorkerFrame, GoodFrame, MonitorFrame, ShardsFrame
     DEF Collecting
<1>5. CorpusInv'
  BY <1>0, <1>1, <1>2 DEF CorpusInv, Collecting, Kept
<1> QED BY <1>3, <1>4, <1>5 DEF FixToolParts

LEMMA OutputStep ==
  ASSUME FixToolInv, FixupCorpusReturns \/ \E g \in Groups : WriteOutputFile(g)
  PROVE  FixToolParts'
<1>0. /\ FixToolTypeOK /\ ReaderInv /\ WorkerInv /\ GoodInv /\ MonitorInv
      /\ CorpusInv /\ ShardsHoldCorpus
  BY DEF FixToolInv
<1>1. /\ UNCHANGED <<partitionerVars, reader, blobs, id_seen, worker,
                     num_blobs_processed, joined, made_snapshots,
                     stop_progress_monitor, monitor, shards, counters>>
      /\ phase = "write" /\ phase' \in {"write", "done"}
      /\ written' \in [Groups -> {"none", "absent", "failed", "ok"}]
  <2>1. CASE FixupCorpusReturns
    BY <2>1, <1>0 DEF FixupCorpusReturns, makeVars, monitorVars, outputVars, FixToolTypeOK
  <2>2. ASSUME NEW g \in Groups, WriteOutputFile(g)
        PROVE  /\ UNCHANGED <<partitionerVars, phase, reader, blobs, id_seen, worker,
                              num_blobs_processed, joined, made_snapshots,
                              stop_progress_monitor, monitor, shards, counters>>
               /\ phase = "write"
               /\ written' \in [Groups -> {"none", "absent", "failed", "ok"}]
    BY <2>2, <1>0 DEF WriteOutputFile, makeVars, monitorVars, FixToolTypeOK
  <2> QED BY <2>1, <2>2
<1>2. FixToolTypeOK'
  BY <1>0, <1>1 DEF FixToolTypeOK
<1>3. ReaderInv' /\ WorkerInv' /\ GoodInv' /\ MonitorInv'
  BY <1>0, <1>1, ReaderFrame, WorkerFrame, GoodLater, MonitorFrame DEF Collecting
<1>4. ShardsHoldCorpus'
  BY <1>0, <1>1, ShardsFrame DEF partitionerVars
<1>5. CorpusInv'
  BY <1>0, <1>1 DEF CorpusInv, Collecting
<1> QED BY <1>2, <1>3, <1>4, <1>5 DEF FixToolParts

LEMMA StutterKeeps ==
  ASSUME FixToolInv, UNCHANGED vars
  PROVE  FixToolParts'
<1>0. /\ FixToolTypeOK /\ ReaderInv /\ WorkerInv /\ GoodInv /\ MonitorInv
      /\ CorpusInv /\ ShardsHoldCorpus
  BY DEF FixToolInv
<1>1. UNCHANGED <<phase, reader, blobs, id_seen, worker, num_blobs_processed, joined,
                  made_snapshots, stop_progress_monitor, monitor, shards, written,
                  counters, pc, memory_mappings>>
  BY DEF vars, partitionerVars, makeVars, monitorVars, outputVars
<1>2. FixToolTypeOK'
  BY <1>0, <1>1 DEF FixToolTypeOK
<1>3. ReaderInv' /\ WorkerInv' /\ GoodInv' /\ MonitorInv' /\ ShardsHoldCorpus'
  BY <1>0, <1>1, ReaderFrame, WorkerFrame, GoodFrame, MonitorFrame, ShardsFrame
     DEF Collecting
<1>4. CorpusInv'
  BY <1>0, <1>1 DEF CorpusInv, Collecting, Kept
<1> QED BY <1>2, <1>3, <1>4 DEF FixToolParts

\* Where the snapshots go: each to the group that has it, or to none.
LEMMA GroupMapFacts ==
  ASSUME PartitionerInv, NEW id
  PROVE  /\ GroupMap(id) = {g \in Groups : id \in id_set[g]}
         /\ \A g, h \in GroupMap(id) : g = h
<1>1. \A g, h \in Groups : g # h => id_set[g] \cap id_set[h] = {}
  BY InvGivesGroups DEF GroupsConflictFree
<1>2. \A g, h \in Groups : h > g => g # h
  BY Parameters
<1>3. GroupMap(id) = {g \in Groups : id \in id_set[g]}
  BY <1>1, <1>2 DEF GroupMap
<1> QED BY <1>1, <1>3

LEMMA MoveToShardsStep ==
  ASSUME FixToolInv, MoveToShards
  PROVE  FixToolParts'
<1> DEFINE s == made_snapshots
           K(g) == {i \in DOMAIN s : g \in GroupMap(s[i])}
           left == {i \in DOMAIN s : GroupMap(s[i]) = {}}
           G == {i \in DOMAIN s : GroupMap(s[i]) # {}}
<1>0. /\ FixToolTypeOK /\ ReaderInv /\ WorkerInv /\ GoodInv /\ MonitorInv
      /\ CorpusInv /\ ShardsHoldCorpus /\ PartitionerInv
  BY DEF FixToolInv
<1>1. /\ UNCHANGED <<partitionerVars, reader, blobs, id_seen, worker,
                     num_blobs_processed, joined, stop_progress_monitor, monitor,
                     written>>
      /\ phase = "partition" /\ phase' = "write"
      /\ made_snapshots' = <<>>
      /\ shards' = [g \in Groups |-> Kept(s, K(g))]
      /\ counters' = [counters EXCEPT !.cannot_group = @ + Cardinality(left)]
  BY DEF MoveToShards, makeVars, monitorVars
<1>2. /\ s \in Seq(Ids) /\ IsInjective(s) /\ Range(s) \subseteq Range(blobs)
      /\ blobs \in Seq(Ids)
      /\ Len(s) \in Nat /\ DOMAIN s = 1..Len(s)
      /\ counters \in [read : Nat, duplicate : Nat, success : Nat, cannot_group : Nat]
      /\ counters.success = Len(s) /\ counters.cannot_group = 0
  BY <1>0, <1>1, MadeIsOrder DEF FixToolTypeOK, CorpusInv
<1>3. /\ IsFiniteSet(G) /\ IsFiniteSet(left)
      /\ Cardinality(G) \in Nat /\ Cardinality(left) \in Nat
      /\ Len(s) = Cardinality(G) + Cardinality(left)
  <2>1. IsFiniteSet(DOMAIN s) /\ Cardinality(DOMAIN s) = Len(s)
    BY <1>2, Intervals
  <2>2. G \subseteq DOMAIN s /\ left \subseteq DOMAIN s /\ G \cup left = DOMAIN s
        /\ G \cap left = {}
    OBVIOUS
  <2> HIDE DEF G, left
  <2>3. IsFiniteSet(G) /\ IsFiniteSet(left)
    BY <2>1, <2>2, FS_Subset
  <2>4. Cardinality(G \cup left) = Cardinality(G) + Cardinality(left)
    BY <2>2, <2>3, DisjointUnion
  <2> QED BY <2>1, <2>2, <2>3, <2>4, Card
<1>4. ASSUME NEW g \in Groups
      PROVE  /\ K(g) \in SUBSET DOMAIN s
             /\ IsFiniteSet(K(g)) /\ K(g) \in SUBSET Int /\ Cardinality(K(g)) \in Nat
             /\ DOMAIN shards'[g] = 1..Cardinality(K(g))
             /\ \A i \in 1..Cardinality(K(g)) :
                  /\ shards'[g][i] = s[Nth(K(g), i)]
                  /\ Nth(K(g), i) \in K(g)
             /\ IsInjective(shards'[g])
  <2>1. K(g) \in SUBSET DOMAIN s
    OBVIOUS
  <2>2. shards'[g] = Kept(s, K(g))
    BY <1>1
  <2> HIDE DEF K
  <2>3. /\ IsFiniteSet(K(g)) /\ K(g) \in SUBSET Int /\ Cardinality(K(g)) \in Nat
        /\ DOMAIN Kept(s, K(g)) = 1..Cardinality(K(g))
        /\ \A i \in 1..Cardinality(K(g)) : Kept(s, K(g))[i] = s[Nth(K(g), i)]
    BY <2>1, <1>2, KeptFacts DEF Kept
  <2>4. \A i \in 1..Cardinality(K(g)) : Nth(K(g), i) \in K(g)
    BY <2>3, NthFacts
  <2>5. IsInjective(Kept(s, K(g)))
    BY <2>1, <1>2, KeptInjective
  <2> QED BY <2>1, <2>2, <2>3, <2>4, <2>5
<1> DEFINE P == UNION {{<<g, i>> : i \in 1..Cardinality(K(g))} : g \in Groups}
           f == [p \in P |-> Nth(K(p[1]), p[2])]
<1>5. Places' = P
  <2>1. \A g \in Groups : DOMAIN shards'[g] = 1..Cardinality(K(g))
    BY <1>4
  <2> HIDE DEF K
  <2> QED BY <2>1 DEF Places
<1>6. ASSUME NEW p \in P
      PROVE  /\ p[1] \in Groups /\ p[2] \in 1..Cardinality(K(p[1])) /\ p = <<p[1], p[2]>>
             /\ f[p] \in K(p[1]) /\ f[p] \in DOMAIN s
             /\ SnapshotAt(p)' = s[f[p]] /\ s[f[p]] \in id_set[p[1]]
  <2>1. PICK g \in Groups : p \in {<<g, i>> : i \in 1..Cardinality(K(g))}
    <3> HIDE DEF K
    <3> QED OBVIOUS
  <2>2. PICK i \in 1..Cardinality(K(g)) : p = <<g, i>>
    BY <2>1
  <2>3. p[1] = g /\ p[2] = i
    BY <2>2
  <2>4. f[p] = Nth(K(g), i)
    BY <2>3
  <2>5. f[p] \in K(g) /\ shards'[g][i] = s[f[p]]
    <3> HIDE DEF K, P, f
    <3> QED BY <2>4, <2>2, <1>4
  <2>6. f[p] \in DOMAIN s /\ g \in GroupMap(s[f[p]])
    <3> HIDE DEF f
    <3> QED BY <2>5
  <2> HIDE DEF f, K
  <2>7. s[f[p]] \in id_set[g]
    BY <2>6, <1>0, GroupMapFacts
  <2> QED BY <2>2, <2>3, <2>5, <2>6, <2>7 DEF SnapshotAt
<1>7. \A p, q \in P : SnapshotAt(p)' = SnapshotAt(q)' => p = q
  <2> SUFFICES ASSUME NEW p \in P, NEW q \in P, SnapshotAt(p)' = SnapshotAt(q)'
               PROVE  p = q
    OBVIOUS
  <2> HIDE DEF P, K
  <2>1. f[p] = f[q]
    <3> HIDE DEF f
    <3> QED BY <1>2, <1>6 DEF IsInjective
  <2> HIDE DEF f
  <2>2. s[f[p]] \in id_set[p[1]] /\ s[f[p]] \in id_set[q[1]] /\ p[1] \in Groups /\ q[1] \in Groups
    BY <1>6, <2>1
  <2>3. p[1] = q[1]
    <3>1. \A g, h \in Groups : g # h => id_set[g] \cap id_set[h] = {}
      BY <1>0, InvGivesGroups DEF GroupsConflictFree
    <3> QED BY <2>2, <3>1
  <2> DEFINE g == p[1]
             i == p[2]
             j == q[2]
  <2>4. g \in Groups /\ i \in 1..Cardinality(K(g)) /\ j \in 1..Cardinality(K(g))
        /\ p = <<g, i>> /\ q = <<g, j>>
    BY <1>6, <2>3
  <2>5. shards'[g][i] = shards'[g][j]
    <3>1. SnapshotAt(p)' = shards'[p[1]][p[2]] /\ SnapshotAt(q)' = shards'[q[1]][q[2]]
      BY DEF SnapshotAt
    <3> QED BY <2>3, <3>1
  <2> HIDE DEF g, i, j
  <2>6. i = j
    BY <2>4, <2>5, <1>4 DEF IsInjective
  <2> QED BY <2>4, <2>6
<1>8. Cardinality(P) = Cardinality(G)
  <2>1. f \in [P -> G]
    <3>1. \A p \in P : f[p] \in G
      <4> TAKE p \in P
      <4>1. f[p] \in K(p[1]) /\ f[p] \in DOMAIN s
        BY <1>6
      <4> HIDE DEF f, P
      <4> QED BY <4>1
    <3> HIDE DEF G, P, K
    <3> QED BY <3>1
  <2>2. \A p, q \in P : f[p] = f[q] => p = q
    <3> HIDE DEF f, P, K
    <3> QED BY <1>6, <1>7
  <2>3. \A k \in G : \E p \in P : f[p] = k
    <3> TAKE k \in G
    <3>1. PICK g \in Groups : g \in GroupMap(s[k])
      BY DEF GroupMap
    <3>2. k \in K(g)
      BY <3>1
    <3> HIDE DEF K, G
    <3>3. PICK i \in 1..Cardinality(K(g)) : Nth(K(g), i) = k
      BY <3>2, <1>4, NthOnto
    <3>4. <<g, i>> \in P
      BY <3>1, <3>3
    <3>5. f[<<g, i>>] = k
      BY <3>3, <3>4
    <3> HIDE DEF f, P
    <3> QED BY <3>4, <3>5
  <2> HIDE DEF f, P, G, K
  <2>4. f \in Injection(P, G) /\ f \in Surjection(P, G)
    BY <2>1, <2>2, <2>3 DEF Injection, Surjection, IsInjective
  <2> QED BY <2>4, <1>3, FS_Injection
<1>9. /\ counters' \in [read : Nat, duplicate : Nat, success : Nat, cannot_group : Nat]
      /\ counters'.success = counters.success
      /\ counters'.read = counters.read /\ counters'.duplicate = counters.duplicate
      /\ counters'.cannot_group = Cardinality(left)
  <2> HIDE DEF left
  <2>1. counters' = [counters EXCEPT !.cannot_group = counters.cannot_group + Cardinality(left)]
    BY <1>1
  <2>2. counters.cannot_group + Cardinality(left) = Cardinality(left)
    <3>1. counters.cannot_group = 0 /\ Cardinality(left) \in Nat
      BY <1>2, <1>3
    <3> QED BY <3>1
  <2> QED BY <2>1, <2>2, <1>2, <1>3
<1>10. ShardsHoldCorpus'
  <2> HIDE DEF P, f, G, K, left
  <2>1. \A p, q \in Places' : p # q => SnapshotAt(p)' # SnapshotAt(q)'
    BY <1>5, <1>7
  <2>2. \A p \in Places' : SnapshotAt(p)' \in Range(blobs')
    <3>1. \A p \in P : SnapshotAt(p)' \in Range(s)
      BY <1>6 DEF Range
    <3> QED BY <3>1, <1>1, <1>2, <1>5
  <2>3. counters'.success = Cardinality(Places') + counters'.cannot_group
    BY <1>2, <1>3, <1>5, <1>8, <1>9
  <2>4. counters'.read = Len(blobs') + counters'.duplicate
    BY <1>0, <1>1, <1>9 DEF ReaderInv
  <2>5. ASSUME NEW p \in P, NEW q \in P, p[1] = q[1], p # q
        PROVE  Compatible(SnapshotAt(p), {SnapshotAt(q)})'
    <3> DEFINE a == s[f[p]]
               b == s[f[q]]
    <3>1. SnapshotAt(p)' = a /\ SnapshotAt(q)' = b /\ a # b
      BY <1>6, <1>7, <2>5
    <3>2. p[1] \in Groups /\ a \in id_set[p[1]] /\ b \in id_set[p[1]]
      BY <1>6, <2>5
    <3> HIDE DEF a, b
    <3>3. Compatible(a, id_set[p[1]] \ {a})
      BY <3>2, <1>0 DEF PartitionerInv, GroupInv
    <3>4. memory_mappings' = memory_mappings
      BY <1>1 DEF partitionerVars
    <3> QED BY <3>1, <3>2, <3>3, <3>4 DEF Compatible
  <2> QED BY <2>1, <2>2, <2>3, <2>4, <2>5, <1>5 DEF ShardsHoldCorpus
<1> HIDE DEF P, f, G, K, left
<1>11. FixToolTypeOK'
  <2>1. made_snapshots' \in Seq(Ids)
    BY <1>1
  <2> QED BY <2>1, <1>0, <1>1, <1>9 DEF FixToolTypeOK
<1>12. ReaderInv' /\ WorkerInv' /\ GoodInv' /\ MonitorInv'
  BY <1>0, <1>1, <1>9, ReaderFrame, WorkerFrame, GoodLater, MonitorFrame DEF Collecting
<1>13. CorpusInv'
  BY <1>0, <1>1 DEF CorpusInv, Collecting
<1> QED BY <1>10, <1>11, <1>12, <1>13 DEF FixToolParts

-----------------------------------------------------------------------------
(* Theorems about the tool                                                   *)

LEMMA FixToolStep == FixToolInv /\ [Next]_vars => FixToolInv'
<1> SUFFICES ASSUME FixToolInv, [Next]_vars PROVE FixToolInv'
  OBVIOUS
<1>1. PartitionerInv'
  BY PartitionerSteps, InvStep DEF FixToolInv
<1>2. FixToolParts'
  <2>1. CASE MainStep
    BY <2>1, ReadStep, ReadBlobStep, StartWorkersStep, JoinWorkerStep, CollectStep,
       JoinMonitorStep, MoveToShardsStep, OutputStep DEF MainStep
  <2>2. CASE \E w \in Workers : WorkerStep(w)
    BY <2>2, FixBlobStep, WorkerReturnsStep DEF WorkerStep
  <2>3. CASE MonitorStep
    BY <2>3, MonitorStepKeeps
  <2>4. CASE PartitionCaller \/ \E t \in Threads : PartitionThread(t)
    BY <2>4, PartitionStep
  <2>5. CASE UNCHANGED vars
    BY <2>5, StutterKeeps
  <2> QED BY <2>1, <2>2, <2>3, <2>4, <2>5 DEF Next
<1> QED BY <1>1, <1>2 DEF FixToolParts, FixToolInv

LEMMA FixToolInvGives == FixToolInv => CorpusFromBlobs
<1> SUFFICES ASSUME FixToolInv PROVE CorpusFromBlobs
  OBVIOUS
<1>0. /\ FixToolTypeOK /\ ReaderInv /\ WorkerInv /\ GoodInv /\ MonitorInv
      /\ CorpusInv /\ ShardsHoldCorpus
  BY DEF FixToolInv
<1>1. ASSUME phase = "stop"
      PROVE  /\ num_blobs_processed = Len(blobs)
             /\ counters.success = Len(made_snapshots)
             /\ made_snapshots = Kept(blobs, {i \in DOMAIN blobs :
                                                blobs[i] \in Range(made_snapshots)})
  <2>1. num_blobs_processed = Len(blobs)
    <3>1. phase # "read" /\ \A w \in Workers : worker[w].state = "exited"
      BY <1>0, <1>1 DEF GoodInv, Collecting
    <3> QED BY <3>1, <1>0, AllProcessed
  <2>2. PICK K \in SUBSET DOMAIN blobs : made_snapshots = Kept(blobs, K)
    BY <1>0, <1>1 DEF CorpusInv
  <2>3. Range(made_snapshots) = {blobs[k] : k \in K}
    <3>1. blobs \in Seq(Ids)
      BY <1>0 DEF FixToolTypeOK
    <3>2. Range(Kept(blobs, K)) = {blobs[k] : k \in K}
      BY <3>1, KeptFacts
    <3> QED BY <2>2, <3>2
  <2>4. \A i, j \in DOMAIN blobs : blobs[i] = blobs[j] => i = j
    BY <1>0 DEF ReaderInv, IsInjective
  <2>5. K = {i \in DOMAIN blobs : blobs[i] \in Range(made_snapshots)}
    <3>1. ASSUME NEW i \in DOMAIN blobs, blobs[i] \in Range(made_snapshots) PROVE i \in K
      <4>1. PICK k \in K : blobs[i] = blobs[k]
        BY <3>1, <2>3
      <4>2. i = k
        BY <4>1, <2>4
      <4> QED BY <4>2
    <3>2. \A k \in K : k \in DOMAIN blobs /\ blobs[k] \in Range(made_snapshots)
      BY <2>3
    <3> QED BY <3>1, <3>2
  <2>6. counters.success = Len(made_snapshots)
    BY <1>0, <1>1 DEF CorpusInv
  <2> QED BY <2>1, <2>2, <2>5, <2>6
<1>2. monitor.state = "exited" => monitor.printed = Len(blobs)
  BY <1>0 DEF MonitorInv
<1> QED BY <1>0, <1>1, <1>2 DEF CorpusFromBlobs, MadeFromAllBlobs

LEMMA FixToolInvHolds == Spec => []FixToolInv
<1> QED BY FixToolInit, FixToolStep, PTL DEF Spec

\* FixupCorpus, for any inputs, read errors, number of workers and schedule:
\* what the joins collect is made from all blobs, in their order, and every
\* snapshot that could be made is in one shard or counted as not grouped.
THEOREM CorpusIsMadeFromBlobs == Spec => []CorpusFromBlobs
<1> QED BY FixToolInvHolds, FixToolInvGives, PTL

\* FixupCorpus uses PartitionCorpus as the theorems about it ask: once, on a
\* list without duplicates, and leaving its threads alone.
THEOREM FixToolPartitions == Spec => PartitionerSpec
<1>1. Init => PartitionerInit
  BY DEF Init
<1>2. FixToolInv /\ [Next]_vars => [PartitionerNext]_partitionerVars
  BY PartitionerSteps
<1> QED BY <1>1, <1>2, FixToolInvHolds, PTL DEF Spec, PartitionerSpec

\* So the groups of a run of the tool are sound and its later iterations are
\* idle.
THEOREM FixToolGroupsAreSound == Spec => []GroupingSound /\ LaterIterationsAddNothing
<1> QED BY FixToolPartitions, GroupingIsSound, OneIterationIsEnough, PTL

=============================================================================
