--------------------------- MODULE SpanUtilProofs ---------------------------
(***************************************************************************)
(* Proofs about PartitionEvenly, for lists of any size and any number of   *)
(* spans.                                                                  *)
(*                                                                         *)
(* The starts of the spans are a recursive function, the loop of the code. *)
(* Its values are found in two steps: the closed form solves the recursion *)
(* equation, so the function does; and two solutions agree, by induction.  *)
(* Induction is stated for a set of numbers: the least number outside the  *)
(* set would have its predecessor in it.                                   *)
(***************************************************************************)
EXTENDS SpanUtil, WellFoundedInduction, TLAPS

-----------------------------------------------------------------------------
(* Induction                                                                 *)

\* Every non-empty set of naturals has a least element.
LEMMA LeastElement ==
  ASSUME NEW S \in SUBSET Nat, S # {}
  PROVE  \E n \in S : \A m \in S : n <= m
<1> DEFINE R == {ss \in Nat \X Nat : ss[1] < ss[2]}
<1>1. IsWellFoundedOn(R, Nat)
  BY NatLessThanWellFounded DEF OpToRel
<1> HIDE DEF R
<1>2. PICK x \in S : \A y \in S : ~ (<<y, x>> \in R)
  BY <1>1, WFMin
<1>3. ASSUME NEW y \in S PROVE x <= y
  <2>1. x \in Nat /\ y \in Nat
    OBVIOUS
  <2>2. y < x => <<y, x>> \in R
    BY <2>1 DEF R
  <2> QED BY <1>2, <2>1, <2>2
<1> QED BY <1>3

\* A set that has 0, and with i also i + 1 up to n, has all of 0..n.
LEMMA InductionUpTo ==
  ASSUME NEW n \in Nat, NEW P, 0 \in P,
         \A i \in 0..(n-1) : i \in P => i + 1 \in P
  PROVE  0..n \subseteq P
<1> DEFINE B == {i \in 0..n : i \notin P}
<1> SUFFICES ASSUME B # {} PROVE FALSE
  OBVIOUS
<1>1. PICK m \in B : \A k \in B : m <= k
  BY LeastElement, B \in SUBSET Nat
<1>2. m # 0 /\ m \in 0..n /\ m \notin P
  OBVIOUS
<1>3. m - 1 \in 0..(n-1) /\ ~(m <= m - 1) /\ m - 1 \in 0..n
  BY <1>2
<1>4. m - 1 \in P
  BY <1>1, <1>3
<1> QED BY <1>2, <1>3, <1>4

-----------------------------------------------------------------------------
(* The starts of the spans                                                   *)

LEMMA DivMod ==
  ASSUME NEW size \in Nat, NEW n \in Nat, n > 0
  PROVE  /\ size \div n \in Nat /\ size % n \in 0..(n-1)
         /\ size = n * (size \div n) + (size % n)
  OBVIOUS

LEMMA TimesStep ==
  ASSUME NEW i \in Int, NEW q \in Int PROVE i * q = (i - 1) * q + q
  OBVIOUS

LEMMA TimesMonotonic ==
  ASSUME NEW i \in Nat, NEW j \in Nat, NEW q \in Nat, i <= j
  PROVE  i * q \in Nat /\ j * q \in Nat /\ i * q <= j * q
  OBVIOUS

\* Where span i starts: the first size % n spans are longer by one.
ClosedForm(size, n, i) ==
    i * (size \div n) + (IF i < size % n THEN i ELSE size % n)

LEMMA SpanBeginClosed ==
  ASSUME NEW size \in Nat, NEW n \in Nat, n > 0
  PROVE  SpanBegin(size, n) = [i \in 0..n |-> ClosedForm(size, n, i)]
<1> DEFINE E(g) == [i \in 0..n |->
                      IF i = 0 THEN 0 ELSE g[i-1] + SpanSize(size, n, i-1)]
           C == [i \in 0..n |-> ClosedForm(size, n, i)]
           f == CHOOSE g : g = E(g)
<1>1. SpanBegin(size, n) = f
  BY DEF SpanBegin
<1>2. ASSUME NEW i \in 0..n, i # 0
      PROVE  ClosedForm(size, n, i)
               = ClosedForm(size, n, i-1) + SpanSize(size, n, i-1)
  BY <1>2, DivMod, TimesStep DEF ClosedForm, SpanSize
<1>3. ClosedForm(size, n, 0) = 0
  BY DivMod DEF ClosedForm
<1>4. C = E(C)
  <2>1. \A i \in 0..n : i # 0 => C[i-1] = ClosedForm(size, n, i-1)
    OBVIOUS
  <2> QED BY <2>1, <1>2, <1>3
<1> HIDE DEF C
<1>5. f = E(f)
  BY <1>4
<1> HIDE DEF f
<1> DEFINE P == {i \in 0..n : f[i] = C[i]}
<1>6. 0..n \subseteq P
  <2>0. \A i \in 0..n : f[i] = E(f)[i] /\ C[i] = E(C)[i]
    BY <1>4, <1>5
  <2>1. 0 \in P
    BY <2>0
  <2>2. \A i \in 0..(n-1) : i \in P => i + 1 \in P
    BY <2>0
  <2> QED BY <2>1, <2>2, InductionUpTo
<1>7. \A i \in 0..n : f[i] = C[i]
  BY <1>6
<1>8. f = [i \in 0..n |-> f[i]] /\ C = [i \in 0..n |-> C[i]]
  BY <1>4, <1>5 DEF C
<1>9. f = C
  BY <1>7, <1>8
<1> QED BY <1>1, <1>9 DEF C

\* The spans follow each other from 0 to the end of the list.
LEMMA SpanBeginFacts ==
  ASSUME NEW size \in Nat, NEW n \in Nat, n > 0
  PROVE  /\ SpanBegin(size, n)[0] = 0
         /\ SpanBegin(size, n)[n] = size
         /\ \A i \in 0..n : SpanBegin(size, n)[i] \in Nat
         /\ \A i \in 0..(n-1) :
              /\ SpanSize(size, n, i) \in Nat
              /\ SpanBegin(size, n)[i + 1]
                   = SpanBegin(size, n)[i] + SpanSize(size, n, i)
         /\ \A i, j \in 0..n : i <= j =>
              SpanBegin(size, n)[i] <= SpanBegin(size, n)[j]
<1> DEFINE q == size \div n
           r == size % n
<1>0. q \in Nat /\ r \in 0..(n-1) /\ size = n * q + r
  BY DivMod
<1>1. \A i \in 0..n :
        SpanBegin(size, n)[i] = i * q + (IF i < r THEN i ELSE r)
  BY SpanBeginClosed DEF ClosedForm
<1>2. \A i \in 0..(n-1) : SpanSize(size, n, i) = q + (IF i < r THEN 1 ELSE 0)
  BY DEF SpanSize
<1>3. \A i \in 0..n : i * q \in Nat
  BY <1>0, TimesMonotonic
<1>4. \A i \in 0..(n-1) : (i + 1) * q = i * q + q
  BY <1>0
<1>5. \A i, j \in 0..n : i <= j => i * q <= j * q
  BY <1>0, TimesMonotonic
<1> HIDE DEF q, r
<1>6. SpanBegin(size, n)[0] = 0
  BY <1>0, <1>1
<1>7. SpanBegin(size, n)[n] = size
  BY <1>0, <1>1
<1>8. \A i \in 0..n : SpanBegin(size, n)[i] \in Nat
  BY <1>0, <1>1, <1>3
<1>9. ASSUME NEW i \in 0..(n-1)
      PROVE  /\ SpanSize(size, n, i) \in Nat
             /\ SpanBegin(size, n)[i + 1]
                  = SpanBegin(size, n)[i] + SpanSize(size, n, i)
  BY <1>0, <1>1, <1>2, <1>3, <1>4
<1>10. ASSUME NEW i \in 0..n, NEW j \in 0..n, i <= j
       PROVE  SpanBegin(size, n)[i] <= SpanBegin(size, n)[j]
  BY <1>0, <1>1, <1>3, <1>5, <1>10
<1> QED BY <1>6, <1>7, <1>8, <1>9, <1>10

\* PartitionEvenly gives every element of the list to exactly one span, in
\* order, and the sizes of two spans differ by at most one: no worker thread
\* gets a CPU or a shard of another one, and none is forgotten.
THEOREM PartitionIsEven ==
  ASSUME NEW size \in Nat, NEW n \in Nat, n > 0
  PROVE  /\ UNION {PartitionEvenly(size, n)[i] : i \in 0..(n-1)} = 0..(size-1)
         /\ \A i, j \in 0..(n-1) : i < j =>
              \A x \in PartitionEvenly(size, n)[i],
                 y \in PartitionEvenly(size, n)[j] : x < y
         /\ \A i, j \in 0..(n-1) :
              SpanSize(size, n, i) <= SpanSize(size, n, j) + 1
<1> DEFINE B(i) == SpanBegin(size, n)[i]
           S(i) == PartitionEvenly(size, n)[i]
<1>0. /\ B(0) = 0 /\ B(n) = size
      /\ \A i \in 0..n : B(i) \in Nat
      /\ \A i \in 0..(n-1) : /\ SpanSize(size, n, i) \in Nat
                             /\ B(i + 1) = B(i) + SpanSize(size, n, i)
      /\ \A i, j \in 0..n : i <= j => B(i) <= B(j)
  BY SpanBeginFacts
<1>1. \A i \in 0..(n-1) : S(i) = B(i) .. (B(i + 1) - 1)
  <2>1. \A i \in 0..(n-1) : S(i) = B(i) .. (B(i) + SpanSize(size, n, i) - 1)
    BY DEF PartitionEvenly
  <2>2. \A i \in 0..(n-1) : B(i) + SpanSize(size, n, i) - 1 = B(i + 1) - 1
    BY <1>0
  <2> QED BY <2>1, <2>2
<1> HIDE DEF B, S
<1>2. ASSUME NEW i \in 0..(n-1), NEW x \in S(i) PROVE x \in 0..(size-1)
  <2>1. i + 1 \in 0..n /\ i \in 0..n /\ n \in 0..n /\ 0 \in 0..n
    OBVIOUS
  <2>2. B(i) >= 0 /\ B(i + 1) <= size /\ B(i) \in Nat /\ B(i + 1) \in Nat
    BY <1>0, <2>1
  <2> QED BY <1>1, <1>2, <2>2
<1>3. ASSUME NEW x \in 0..(size-1) PROVE \E i \in 0..(n-1) : x \in S(i)
  <2> DEFINE T == {j \in 0..n : x < B(j)}
  <2>1. n \in T
    BY <1>0
  <2>2. PICK j \in T : \A k \in T : j <= k
    BY <2>1, LeastElement, T \in SUBSET Nat
  <2>3. j \in 1..n
    BY <1>0
  <2>4. j - 1 \in 0..(n-1) /\ j - 1 \in 0..n /\ ~(j <= j - 1) /\ (j - 1) + 1 = j
    BY <2>3
  <2>5. ~(x < B(j - 1)) /\ B(j - 1) \in Nat
    BY <1>0, <2>2, <2>4
  <2>6. x \in B(j - 1) .. (B(j) - 1)
    BY <1>0, <2>5
  <2>7. S(j - 1) = B(j - 1) .. (B(j) - 1)
    BY <1>1, <2>4
  <2>8. x \in S(j - 1)
    BY <2>6, <2>7
  <2> QED BY <2>4, <2>8
<1>4. ASSUME NEW i \in 0..(n-1), NEW j \in 0..(n-1), i < j,
             NEW x \in S(i), NEW y \in S(j)
      PROVE  x < y
  <2>1. i + 1 \in 0..n /\ j \in 0..n /\ i \in 0..n /\ j + 1 \in 0..n
    OBVIOUS
  <2>2. /\ B(i + 1) <= B(j) /\ B(i) \in Nat
        /\ B(i + 1) \in Nat /\ B(j) \in Nat /\ B(j + 1) \in Nat
    BY <1>0, <1>4, <2>1
  <2>3. x \in B(i) .. (B(i + 1) - 1) /\ y \in B(j) .. (B(j + 1) - 1)
    BY <1>1
  <2> QED BY <2>2, <2>3
<1>5. \A i, j \in 0..(n-1) : SpanSize(size, n, i) <= SpanSize(size, n, j) + 1
  BY DivMod DEF SpanSize
<1>6. UNION {S(i) : i \in 0..(n-1)} = 0..(size-1)
  BY <1>2, <1>3
<1> QED BY <1>4, <1>5, <1>6 DEF S

-----------------------------------------------------------------------------
(* Sequences                                                                 *)

LEMMA Cat ==
  ASSUME NEW S, NEW a \in Seq(S), NEW b \in Seq(S)
  PROVE  /\ a \o b \in Seq(S) /\ Len(a \o b) = Len(a) + Len(b)
         /\ \A m \in 1..Len(a) : (a \o b)[m] = a[m]
         /\ \A m \in 1..Len(b) : (a \o b)[Len(a) + m] = b[m]
  OBVIOUS

LEMMA CatCat ==
  ASSUME NEW S, NEW a \in Seq(S), NEW b \in Seq(S), NEW c \in Seq(S)
  PROVE  a \o (b \o c) = (a \o b) \o c
  OBVIOUS

LEMMA Sub ==
  ASSUME NEW S, NEW s \in Seq(S), NEW i \in Nat \ {0}, NEW j \in Nat,
         i <= j + 1, j <= Len(s)
  PROVE  /\ SubSeq(s, i, j) \in Seq(S) /\ Len(SubSeq(s, i, j)) = j - i + 1
         /\ \A m \in 1..(j - i + 1) : SubSeq(s, i, j)[m] = s[i + m - 1]
  OBVIOUS

LEMMA SameSeq ==
  ASSUME NEW S, NEW a \in Seq(S), NEW b \in Seq(S), Len(a) = Len(b),
         \A i \in 1..Len(a) : a[i] = b[i]
  PROVE  a = b
  OBVIOUS

LEMMA CutInTwo ==
  ASSUME NEW S, NEW s \in Seq(S), NEW k \in 0..Len(s)
  PROVE  s = SubSeq(s, 1, k) \o SubSeq(s, k + 1, Len(s))
<1> DEFINE a == SubSeq(s, 1, k)
           b == SubSeq(s, k + 1, Len(s))
<1>1. a \in Seq(S) /\ Len(a) = k /\ \A m \in 1..k : a[m] = s[m]
  BY Sub
<1>2. /\ b \in Seq(S) /\ Len(b) = Len(s) - k
      /\ \A m \in 1..(Len(s) - k) : b[m] = s[k + m]
  BY Sub
<1> HIDE DEF a, b
<1>3. /\ a \o b \in Seq(S) /\ Len(a \o b) = Len(s)
      /\ \A m \in 1..k : (a \o b)[m] = a[m]
      /\ \A m \in 1..(Len(s) - k) : (a \o b)[k + m] = b[m]
  BY <1>1, <1>2, Cat
<1>4. ASSUME NEW m \in 1..Len(s) PROVE (a \o b)[m] = s[m]
  <2>1. CASE m <= k
    BY <2>1, <1>1, <1>3
  <2>2. CASE ~(m <= k)
    <3>1. m - k \in 1..(Len(s) - k) /\ k + (m - k) = m
      BY <2>2
    <3> QED BY <3>1, <1>2, <1>3
  <2> QED BY <2>1, <2>2
<1>5. s = a \o b
  BY <1>3, <1>4, SameSeq
<1> QED BY <1>5 DEF a, b

LEMMA Empty ==
  ASSUME NEW S, NEW s \in Seq(S)
  PROVE  Len(s) \in Nat /\ (s = <<>> <=> Len(s) = 0)
  OBVIOUS

-----------------------------------------------------------------------------
(* Partial sums                                                              *)

\* The recursion has a solution: it is extended by one element at a time.
LEMMA SumsExist ==
  ASSUME NEW s, Len(s) \in Nat
  PROVE  \E g : g = [i \in 0..Len(s) |->
                       IF i = 0 THEN 0 ELSE g[i - 1] + s[i]]
<1> DEFINE n == Len(s)
           Solves(g, k) == g = [i \in 0..k |-> IF i = 0 THEN 0 ELSE g[i - 1] + s[i]]
           P == {k \in 0..n : \E g : Solves(g, k)}
<1>1. 0 \in P
  <2> DEFINE g == [i \in 0..0 |-> 0]
  <2>1. Solves(g, 0)
    OBVIOUS
  <2> HIDE DEF g
  <2>2. \E q : Solves(q, 0)
    BY <2>1
  <2> QED BY <2>2
<1>2. ASSUME NEW k \in 0..(n - 1), k \in P PROVE k + 1 \in P
  <2>1. PICK g : Solves(g, k)
    BY <1>2
  <2> DEFINE h == [i \in 0..(k + 1) |-> IF i = k + 1 THEN g[k] + s[i] ELSE g[i]]
  <2>2. \A i \in 0..k : g[i] = IF i = 0 THEN 0 ELSE g[i - 1] + s[i]
    BY <2>1
  <2>3. \A i \in 0..(k + 1) : h[i] = IF i = 0 THEN 0 ELSE h[i - 1] + s[i]
    BY <2>2
  <2>4. Solves(h, k + 1)
    BY <2>3
  <2> HIDE DEF h
  <2>5. \E q : Solves(q, k + 1)
    BY <2>4
  <2> QED BY <2>5
<1>3. n \in P
  <2>1. n \in Nat /\ n \in 0..n
    OBVIOUS
  <2> HIDE DEF P, n
  <2>2. 0..n \subseteq P
    BY <1>1, <1>2, <2>1, InductionUpTo
  <2> QED BY <2>1, <2>2
<1>4. \E g : Solves(g, n)
  BY <1>3
<1> QED BY <1>4

LEMMA SumsFacts ==
  ASSUME NEW s \in Seq(Nat)
  PROVE  /\ DOMAIN Sums(s) = 0..Len(s)
         /\ Sums(s)[0] = 0
         /\ \A i \in 1..Len(s) : Sums(s)[i] = Sums(s)[i - 1] + s[i]
         /\ \A i \in 0..Len(s) : Sums(s)[i] \in Nat
<1> DEFINE n == Len(s)
           E(g) == [i \in 0..n |-> IF i = 0 THEN 0 ELSE g[i - 1] + s[i]]
           f == CHOOSE g : g = E(g)
<1>0. n \in Nat
  OBVIOUS
<1>1. Sums(s) = f
  BY DEF Sums
<1>2. f = E(f)
  BY SumsExist, <1>0
<1> HIDE DEF f
<1>3. DOMAIN f = 0..n /\ \A i \in 0..n : f[i] = IF i = 0 THEN 0 ELSE f[i - 1] + s[i]
  BY <1>2
<1>4. f[0] = 0 /\ \A i \in 1..n : f[i] = f[i - 1] + s[i]
  BY <1>3, <1>0
<1> DEFINE P == {i \in 0..n : f[i] \in Nat}
<1>5. 0..n \subseteq P
  <2>1. 0 \in P
    BY <1>4
  <2>2. ASSUME NEW i \in 0..(n - 1), i \in P PROVE i + 1 \in P
    <3>1. i + 1 \in 1..n /\ (i + 1) - 1 = i /\ s[i + 1] \in Nat
      OBVIOUS
    <3>2. f[i + 1] = f[i] + s[i + 1]
      BY <3>1, <1>4
    <3> QED BY <3>1, <3>2, <2>2
  <2> HIDE DEF P
  <2> QED BY <1>0, <2>1, <2>2, InductionUpTo
<1> QED BY <1>1, <1>3, <1>4, <1>5

\* Sums of positive numbers are strictly increasing.
LEMMA SumsIncrease ==
  ASSUME NEW s \in Seq(Nat \ {0}), NEW i \in 0..Len(s), NEW j \in 0..Len(s), i < j
  PROVE  Sums(s)[i] < Sums(s)[j]
<1> DEFINE n == Len(s)
           P == {k \in 0..n : i < k => Sums(s)[i] < Sums(s)[k]}
<1>0. s \in Seq(Nat) /\ n \in Nat
  OBVIOUS
<1>1. /\ \A k \in 1..n : Sums(s)[k] = Sums(s)[k - 1] + s[k]
      /\ \A k \in 0..n : Sums(s)[k] \in Nat
  BY <1>0, SumsFacts
<1>2. 0 \in P
  OBVIOUS
<1>3. ASSUME NEW k \in 0..(n - 1), k \in P PROVE k + 1 \in P
  <2>1. k + 1 \in 1..n /\ (k + 1) - 1 = k /\ s[k + 1] \in Nat \ {0} /\ k \in 0..n
    OBVIOUS
  <2>2. Sums(s)[k + 1] = Sums(s)[k] + s[k + 1] /\ Sums(s)[k] \in Nat
        /\ Sums(s)[i] \in Nat
    BY <2>1, <1>1
  <2> QED BY <2>1, <2>2, <1>3
<1>4. j \in P
  BY <1>0, <1>2, <1>3, InductionUpTo
<1> QED BY <1>4

\* A sum of numbers of at most e.
LEMMA SumsBound ==
  ASSUME NEW s \in Seq(Nat), NEW e \in Nat, \A i \in 1..Len(s) : s[i] <= e
  PROVE  Sums(s)[Len(s)] <= e * Len(s)
<1> DEFINE n == Len(s)
           P == {k \in 0..n : Sums(s)[k] <= e * k}
<1>0. n \in Nat
  OBVIOUS
<1>1. /\ Sums(s)[0] = 0
      /\ \A k \in 1..n : Sums(s)[k] = Sums(s)[k - 1] + s[k]
      /\ \A k \in 0..n : Sums(s)[k] \in Nat
  BY <1>0, SumsFacts
<1>2. 0 \in P
  <2>1. e * 0 = 0
    OBVIOUS
  <2> QED BY <1>0, <1>1, <2>1
<1>3. ASSUME NEW k \in 0..(n - 1), k \in P PROVE k + 1 \in P
  <2>1. k + 1 \in 1..n /\ (k + 1) - 1 = k /\ s[k + 1] \in Nat /\ k \in 0..n
    OBVIOUS
  <2>2. Sums(s)[k + 1] = Sums(s)[k] + s[k + 1] /\ Sums(s)[k] \in Nat
    BY <2>1, <1>1
  <2>3. s[k + 1] <= e
    BY <2>1
  <2>4. e * (k + 1) = e * k + e /\ e * k \in Nat
    OBVIOUS
  <2>5. Sums(s)[k] <= e * k
    BY <1>3
  <2> QED BY <2>1, <2>2, <2>3, <2>4, <2>5
<1> HIDE DEF P
<1>4. 0..n \subseteq P
  BY <1>0, <1>2, <1>3, InductionUpTo
<1>5. n \in P
  BY <1>0, <1>4
<1> QED BY <1>5 DEF P

\* The sums of a prefix are sums of the whole.
LEMMA SumsPrefix ==
  ASSUME NEW s \in Seq(Nat), NEW t \in Seq(Nat), Len(s) <= Len(t),
         \A i \in 1..Len(s) : s[i] = t[i]
  PROVE  \A i \in 0..Len(s) : Sums(s)[i] = Sums(t)[i]
<1> DEFINE n == Len(s)
           P == {k \in 0..n : Sums(s)[k] = Sums(t)[k]}
<1>0. n \in Nat /\ Len(t) \in Nat
  OBVIOUS
<1>1. /\ Sums(s)[0] = 0
      /\ \A k \in 1..n : Sums(s)[k] = Sums(s)[k - 1] + s[k]
  BY SumsFacts
<1>2. /\ Sums(t)[0] = 0
      /\ \A k \in 1..Len(t) : Sums(t)[k] = Sums(t)[k - 1] + t[k]
  BY SumsFacts
<1>3. 0 \in P
  BY <1>0, <1>1, <1>2
<1>4. ASSUME NEW k \in 0..(n - 1), k \in P PROVE k + 1 \in P
  <2>1. k + 1 \in 1..n /\ (k + 1) - 1 = k /\ k + 1 \in 1..Len(t)
    BY <1>0
  <2>2. Sums(s)[k + 1] = Sums(s)[k] + s[k + 1] /\ Sums(t)[k + 1] = Sums(t)[k] + t[k + 1]
    BY <2>1, <1>1, <1>2
  <2> QED BY <2>1, <2>2, <1>4
<1>5. 0..n \subseteq P
  BY <1>0, <1>3, <1>4, InductionUpTo
<1> QED BY <1>5

=============================================================================
