----------------------------- MODULE FoldLemmas -----------------------------
(***************************************************************************)
(* Induction for the recursive definitions of the library, and for         *)
(* recursive functions on numbers.  Op is the step of a fold, or what a    *)
(* recursive function does with a number and what it gave before.          *)
(***************************************************************************)
EXTENDS Integers, Sequences, SequencesExt, SequenceTheorems, WellFoundedInduction, TLAPS

CONSTANT Op(_, _)

Fold(b, s) == FoldLeft(Op, b, s)

\* A set of natural numbers with zero and every successor has all of them.
LEMMA NatSetInduction ==
    ASSUME NEW T \in SUBSET Nat, 0 \in T, \A n \in T : n + 1 \in T
    PROVE  T = Nat
  <1> DEFINE R == {ss \in Nat \X Nat : ss[1] < ss[2]}
  <1>1. IsWellFoundedOn(R, Nat)  BY NatLessThanWellFounded DEF OpToRel
  <1>2. SUFFICES ASSUME Nat \ T # {} PROVE FALSE  OBVIOUS
  <1>3. PICK x \in Nat \ T : \A y \in Nat \ T : ~ (<<y, x>> \in R)
    <2> HIDE DEF R
    <2> QED BY <1>1, <1>2, WFMin
  <1>4. x # 0  BY <1>3
  <1>5. x - 1 \in Nat /\ x - 1 < x  BY <1>4
  <1>6. <<x - 1, x>> \in R  BY <1>5
  <1>7. x - 1 \in T  BY <1>3, <1>5, <1>6
  <1>8. x \in T  BY <1>7, <1>5
  <1> QED BY <1>3, <1>8

\* A nonempty set of natural numbers has a least one, and a last if bounded.
LEMMA HasLeast ==
    ASSUME NEW I \in SUBSET Nat, I # {}
    PROVE  \E x \in I : \A y \in I : x <= y
  <1> DEFINE N == {n \in Nat : \A x \in I : ~ (x <= n)}
  <1>1. SUFFICES ASSUME \A x \in I : \E y \in I : ~ (x <= y) PROVE FALSE  OBVIOUS
  <1>2. 0 \in N
    <2>1. 0 \notin I  BY <1>1
    <2> QED  BY <2>1
  <1>3. ASSUME NEW n \in N PROVE n + 1 \in N
    <2>1. n + 1 \in Nat /\ \A x \in I : x \in Nat /\ ~ (x <= n)  OBVIOUS
    <2>2. \A x \in I : n + 1 <= x  BY <2>1
    <2>3. n + 1 \notin I  BY <1>1, <2>2
    <2> QED  BY <2>1, <2>2, <2>3
  <1>4. N = Nat
    <2>1. N \in SUBSET Nat  OBVIOUS
    <2> HIDE DEF N
    <2> QED  BY <1>2, <1>3, <2>1, NatSetInduction
  <1>5. PICK x \in I : x \in Nat  OBVIOUS
  <1> QED  BY <1>4, <1>5

LEMMA HasLast ==
    ASSUME NEW n \in Nat, NEW I \in SUBSET (0..n), I # {}
    PROVE  \E x \in I : \A y \in I : x >= y
  <1> DEFINE J == {j \in 0..n : n - j \in I}
  <1>1. J \in SUBSET Nat  OBVIOUS
  <1>2. \A x \in I : n - x \in J /\ x \in 0..n  OBVIOUS
  <1>3. J # {}  BY <1>2
  <1>4. PICK j \in J : \A k \in J : j <= k
    <2> HIDE DEF J
    <2> QED  BY <1>1, <1>3, HasLeast
  <1>5. \A y \in I : j <= n - y  BY <1>2, <1>4
  <1>6. n - j \in I /\ j \in 0..n  OBVIOUS
  <1> QED  BY <1>2, <1>5, <1>6

\* A set of sequences over S with the empty one and every longer one is Seq(S).
LEMMA SeqSetInduction ==
    ASSUME NEW S, NEW T \in SUBSET Seq(S), <<>> \in T,
           \A s \in T : \A x \in S : Append(s, x) \in T
    PROVE  T = Seq(S)
  <1> DEFINE N == {n \in Nat : \A s \in Seq(S) : Len(s) = n => s \in T}
  <1>1. 0 \in N
    <2>1. \A s \in Seq(S) : Len(s) = 0 => s = <<>>  BY EmptySeq
    <2> QED  BY <2>1
  <1>2. ASSUME NEW n \in N PROVE n + 1 \in N
    <2>1. n \in Nat /\ n + 1 \in Nat /\ n + 1 # 0  OBVIOUS
    <2>2. ASSUME NEW s \in Seq(S), Len(s) = n + 1 PROVE s \in T
      <3>1. s # <<>>  BY <2>1, <2>2
      <3>2. PICK f \in Seq(S), x \in S : s = Append(f, x)
        BY <3>1, SequenceEmptyOrAppend
      <3>3. Len(s) = Len(f) + 1 /\ Len(f) \in Nat  BY <3>2, AppendProperties
      <3>4. Len(f) = n  BY <2>1, <2>2, <3>3
      <3>5. f \in T  BY <3>4
      <3> QED  BY <3>2, <3>5
    <2> QED  BY <2>1, <2>2
  <1>3. N = Nat
    <2>1. N \in SUBSET Nat  OBVIOUS
    <2> HIDE DEF N
    <2> QED  BY <1>1, <1>2, <2>1, NatSetInduction
  <1>4. ASSUME NEW s \in Seq(S) PROVE s \in T
    <2>1. Len(s) \in Nat  OBVIOUS
    <2> QED  BY <1>3, <2>1
  <1> QED  BY <1>4

-----------------------------------------------------------------------------
IsIter(g, b, s, k) ==
    g = [x \in SUBSET (1..k) |-> IF x = {} THEN b ELSE Op(g[x \ {Max(x)}], s[Max(x)])]

LEMMA MaxUpTo ==
    ASSUME NEW k \in Nat, NEW x \in SUBSET (1..k + 1), k + 1 \in x
    PROVE  Max(x) = k + 1
  <1>1. \A y \in x : k + 1 >= y  OBVIOUS
  <1>2. Max(x) \in x /\ \A y \in x : Max(x) >= y  BY <1>1, Zenon DEF Max
  <1>3. Max(x) >= k + 1 /\ Max(x) \in 1..k + 1  BY <1>2
  <1> QED  BY <1>3

LEMMA IterExists ==
    ASSUME NEW b, NEW s
    PROVE  \A k \in Nat : \E g : IsIter(g, b, s, k)
  <1> DEFINE T == {k \in Nat : \E g : IsIter(g, b, s, k)}
  <1>1. 0 \in T
    <2> DEFINE g == [x \in SUBSET (1..0) |-> b]
    <2>1. \A x \in SUBSET (1..0) : x = {}  OBVIOUS
    <2>2. IsIter(g, b, s, 0)  BY <2>1, Zenon DEF IsIter
    <2> QED  BY <2>2
  <1>2. ASSUME NEW k \in T PROVE k + 1 \in T
    <2>1. k \in Nat  OBVIOUS
    <2>2. PICK g : IsIter(g, b, s, k)  OBVIOUS
    <2> DEFINE h == [x \in SUBSET (1..k + 1) |->
                        IF k + 1 \in x THEN Op(g[x \ {k + 1}], s[k + 1]) ELSE g[x]]
    <2>3. ASSUME NEW x \in SUBSET (1..k + 1)
          PROVE  h[x] = IF x = {} THEN b ELSE Op(h[x \ {Max(x)}], s[Max(x)])
      <3>1. CASE k + 1 \in x
        <4>1. Max(x) = k + 1  BY <2>1, <3>1, MaxUpTo
        <4>2. x \ {k + 1} \in SUBSET (1..k + 1)  OBVIOUS
        <4>3. h[x \ {k + 1}] = g[x \ {k + 1}]  BY <4>2
        <4>4. h[x] = Op(g[x \ {k + 1}], s[k + 1])  BY <3>1
        <4> QED  BY <3>1, <4>1, <4>3, <4>4
      <3>2. CASE k + 1 \notin x
        <4>1. x \in SUBSET (1..k)  BY <2>1, <3>2
        <4>2. g[x] = IF x = {} THEN b ELSE Op(g[x \ {Max(x)}], s[Max(x)])
          BY <2>2, <4>1 DEF IsIter
        <4>3. x \ {Max(x)} \in SUBSET (1..k + 1) /\ k + 1 \notin x \ {Max(x)}
          BY <3>2
        <4>4. h[x \ {Max(x)}] = g[x \ {Max(x)}]  BY <4>3
        <4>5. h[x] = g[x]  BY <3>2
        <4> QED  BY <4>2, <4>4, <4>5
      <3> QED  BY <3>1, <3>2
    <2>4. IsIter(h, b, s, k + 1)
      <3>1. h = [x \in SUBSET (1..k + 1) |-> h[x]]  OBVIOUS
      <3> HIDE DEF h
      <3> QED  BY <2>3, <3>1 DEF IsIter
    <2> QED  BY <2>1, <2>4
  <1>3. T = Nat
    <2>1. T \in SUBSET Nat  OBVIOUS
    <2> HIDE DEF T
    <2> QED  BY <1>1, <1>2, <2>1, NatSetInduction
  <1> QED  BY <1>3

\* g[1..k] is what the first k elements of s make of b.
IsFold(g, b, s, n) ==
    /\ g[{}] = b
    /\ \A k \in Nat : k + 1 <= n => g[1..k + 1] = Op(g[1..k], s[k + 1])

LEMMA IterIsFold ==
    ASSUME NEW b, NEW s, NEW n \in Nat, NEW g, IsIter(g, b, s, n)
    PROVE  IsFold(g, b, s, n)
  <1>1. g[{}] = b
    <2>1. {} \in SUBSET (1..n)  OBVIOUS
    <2> QED  BY <2>1 DEF IsIter
  <1>2. ASSUME NEW k \in Nat, k + 1 <= n PROVE g[1..k + 1] = Op(g[1..k], s[k + 1])
    <2>5. \A i \in 1..k + 1 : i \in 1..n  BY <1>2
    <2>6. k + 1 \in 1..k + 1  BY <1>2
    <2>1. (1..k + 1) \in SUBSET (1..n) /\ (1..k + 1) # {} /\ k + 1 \in 1..k + 1
      BY <2>5, <2>6, Zenon
    <2>2. Max(1..k + 1) = k + 1  BY <2>1, MaxUpTo
    <2>3. (1..k + 1) \ {k + 1} = 1..k  OBVIOUS
    <2>4. g[1..k + 1] = Op(g[(1..k + 1) \ {Max(1..k + 1)}], s[Max(1..k + 1)])
      BY <2>1 DEF IsIter
    <2> QED  BY <2>2, <2>3, <2>4
  <1> QED  BY <1>1, <1>2, Zenon DEF IsFold

\* A fold goes from element to element: g has what it has after so many.
LEMMA FoldSteps ==
    ASSUME NEW b, NEW s, NEW n \in Nat, DOMAIN s = 1..n
    PROVE  \E g : Fold(b, s) = g[1..n] /\ IsFold(g, b, s, n)
  <1>1. PICK g : IsIter(g, b, s, n)  BY IterExists
  <1> DEFINE iter == CHOOSE iter : iter = [x \in SUBSET (1..n) |->
                        IF x = {} THEN b ELSE Op(iter[x \ {Max(x)}], s[Max(x)])]
  <1>2. IsIter(iter, b, s, n)  BY <1>1 DEF IsIter
  <1>3. Fold(b, s) = iter[1..n]
    BY Zenon DEF Fold, FoldLeft, MapThenFoldSet
  <1> HIDE DEF iter
  <1>4. IsFold(iter, b, s, n)  BY <1>2, IterIsFold
  <1> QED  BY <1>3, <1>4, Zenon

\* Folding nothing gives the base.
THEOREM FoldEmpty == ASSUME NEW b PROVE Fold(b, <<>>) = b
  <1>1. DOMAIN <<>> = 1..0  OBVIOUS
  <1>2. PICK g : Fold(b, <<>>) = g[1..0] /\ IsFold(g, b, <<>>, 0)
    BY <1>1, FoldSteps
  <1>3. 1..0 = {}  OBVIOUS
  <1> QED  BY <1>2, <1>3 DEF IsFold

\* The last element is folded in last.
THEOREM FoldAppend ==
    ASSUME NEW b, NEW S, NEW s \in Seq(S), NEW x \in S
    PROVE  Fold(b, Append(s, x)) = Op(Fold(b, s), x)
  <1> DEFINE n == Len(s)
             t == Append(s, x)
  <1>1. n \in Nat /\ n + 1 \in Nat /\ DOMAIN s = 1..n /\ DOMAIN t = 1..n + 1  OBVIOUS
  <1>2. (\A i \in 1..n : t[i] = s[i]) /\ t[n + 1] = x  OBVIOUS
  <1> HIDE DEF n, t
  <1>3. PICK g : Fold(b, s) = g[1..n] /\ IsFold(g, b, s, n)
    BY <1>1, FoldSteps
  <1>4. PICK h : Fold(b, t) = h[1..n + 1] /\ IsFold(h, b, t, n + 1)
    BY <1>1, FoldSteps
  <1>5. /\ g[{}] = b
        /\ \A k \in Nat : k + 1 <= n => g[1..k + 1] = Op(g[1..k], s[k + 1])
    BY <1>3 DEF IsFold
  <1>6. /\ h[{}] = b
        /\ \A k \in Nat : k + 1 <= n + 1 => h[1..k + 1] = Op(h[1..k], t[k + 1])
    BY <1>4 DEF IsFold
  <1> DEFINE T == {k \in Nat : k <= n => h[1..k] = g[1..k]}
  <1>7. 0 \in T
    <2>1. 1..0 = {}  OBVIOUS
    <2> QED  BY <2>1, <1>5, <1>6
  <1>8. ASSUME NEW k \in T PROVE k + 1 \in T
    <2>1. SUFFICES ASSUME k + 1 <= n PROVE h[1..k + 1] = g[1..k + 1]  OBVIOUS
    <2>2. k \in Nat /\ k <= n /\ k + 1 <= n + 1 /\ k + 1 \in 1..n  BY <1>1, <2>1
    <2>3. h[1..k] = g[1..k]  BY <2>2
    <2> QED  BY <1>2, <1>5, <1>6, <2>1, <2>2, <2>3
  <1>9. T = Nat
    <2>1. T \in SUBSET Nat  OBVIOUS
    <2> HIDE DEF T
    <2> QED  BY <1>7, <1>8, <2>1, NatSetInduction
  <1>10. h[1..n] = g[1..n]  BY <1>1, <1>9
  <1>11. h[1..n + 1] = Op(h[1..n], t[n + 1])  BY <1>1, <1>6
  <1> QED  BY <1>2, <1>3, <1>4, <1>10, <1>11 DEF t

\* What every step keeps, the fold has.
THEOREM FoldType ==
    ASSUME NEW A, NEW S, NEW b \in A, \A a \in A : \A x \in S : Op(a, x) \in A
    PROVE  \A s \in Seq(S) : Fold(b, s) \in A
  <1> DEFINE T == {s \in Seq(S) : Fold(b, s) \in A}
  <1>1. T \in SUBSET Seq(S)  OBVIOUS
  <1>2. <<>> \in T  BY FoldEmpty
  <1>3. ASSUME NEW s \in T, NEW x \in S PROVE Append(s, x) \in T
    <2>1. s \in Seq(S) /\ Fold(b, s) \in A /\ Append(s, x) \in Seq(S)  OBVIOUS
    <2>2. Fold(b, Append(s, x)) = Op(Fold(b, s), x)  BY <2>1, FoldAppend
    <2> QED  BY <2>1, <2>2
  <1>4. T = Seq(S)
    <2> HIDE DEF T
    <2> QED  BY <1>1, <1>2, <1>3, SeqSetInduction
  <1> QED  BY <1>4

\* To fold a concatenation is to go on with the second part.
THEOREM FoldConcat ==
    ASSUME NEW b, NEW S, NEW s \in Seq(S)
    PROVE  \A t \in Seq(S) : Fold(b, s \o t) = Fold(Fold(b, s), t)
  <1> DEFINE T == {t \in Seq(S) : Fold(b, s \o t) = Fold(Fold(b, s), t)}
  <1>1. T \in SUBSET Seq(S)  OBVIOUS
  <1>2. <<>> \in T
    <2>1. s \o <<>> = s  BY ConcatEmptySeq
    <2> QED  BY <2>1, FoldEmpty
  <1>3. ASSUME NEW t \in T, NEW x \in S PROVE Append(t, x) \in T
    <2>1. /\ t \in Seq(S) /\ Fold(b, s \o t) = Fold(Fold(b, s), t)
          /\ Append(t, x) \in Seq(S) /\ s \o t \in Seq(S)
      OBVIOUS
    <2>2. s \o Append(t, x) = Append(s \o t, x)  BY <2>1
    <2>3. Fold(b, Append(s \o t, x)) = Op(Fold(b, s \o t), x)  BY <2>1, FoldAppend
    <2>4. Fold(Fold(b, s), Append(t, x)) = Op(Fold(Fold(b, s), t), x)  BY <2>1, FoldAppend
    <2> QED  BY <2>1, <2>2, <2>3, <2>4
  <1>4. T = Seq(S)
    <2> HIDE DEF T
    <2> QED  BY <1>1, <1>2, <1>3, SeqSetInduction
  <1> QED  BY <1>4

-----------------------------------------------------------------------------
(* FlattenSeq.                                                             *)

IsFlat(f, ss, n) == f = [i \in 1..n |-> IF i = 1 THEN ss[i] ELSE f[i - 1] \o ss[i]]

LEMMA FlatExists ==
    ASSUME NEW ss
    PROVE  \A n \in Nat : \E f : IsFlat(f, ss, n)
  <1> DEFINE T == {n \in Nat : \E f : IsFlat(f, ss, n)}
  <1>1. 0 \in T
    <2> DEFINE f == [i \in 1..0 |-> 0]
    <2>1. \A i \in 1..0 : FALSE  OBVIOUS
    <2>2. IsFlat(f, ss, 0)  BY <2>1, Zenon DEF IsFlat
    <2> QED  BY <2>2
  <1>2. ASSUME NEW n \in T PROVE n + 1 \in T
    <2>1. n \in Nat  OBVIOUS
    <2>2. PICK f : IsFlat(f, ss, n)  OBVIOUS
    <2> DEFINE h == [i \in 1..n + 1 |->
                        IF i <= n THEN f[i] ELSE IF i = 1 THEN ss[i] ELSE f[i - 1] \o ss[i]]
    <2>3. ASSUME NEW i \in 1..n + 1
          PROVE  h[i] = IF i = 1 THEN ss[i] ELSE h[i - 1] \o ss[i]
      <3>1. i # 1 => i - 1 \in 1..n /\ i - 1 \in 1..n + 1 /\ i - 1 <= n  BY <2>1
      <3>2. i # 1 => h[i - 1] = f[i - 1]  BY <3>1
      <3>3. CASE i <= n
        <4>1. i \in 1..n  BY <2>1, <3>3
        <4>2. f[i] = IF i = 1 THEN ss[i] ELSE f[i - 1] \o ss[i]
          BY <2>2, <4>1 DEF IsFlat
        <4>3. h[i] = f[i]  BY <3>3
        <4> HIDE DEF h
        <4> QED  BY <3>2, <4>2, <4>3
      <3>4. CASE ~(i <= n)
        <4>1. h[i] = IF i = 1 THEN ss[i] ELSE f[i - 1] \o ss[i]  BY <3>4
        <4> HIDE DEF h
        <4> QED  BY <3>2, <4>1
      <3> QED  BY <3>3, <3>4
    <2>4. IsFlat(h, ss, n + 1)
      <3>1. h = [i \in 1..n + 1 |-> h[i]]  OBVIOUS
      <3> HIDE DEF h
      <3> QED  BY <2>3, <3>1 DEF IsFlat
    <2> QED  BY <2>1, <2>4
  <1>3. T = Nat
    <2>1. T \in SUBSET Nat  OBVIOUS
    <2> HIDE DEF T
    <2> QED  BY <1>1, <1>2, <2>1, NatSetInduction
  <1> QED  BY <1>3

\* Two of them agree as far as their sequences do.
LEMMA FlatUnique ==
    ASSUME NEW ss, NEW tt, NEW f, NEW g, NEW n \in Nat, NEW m \in Nat,
           IsFlat(f, ss, n), IsFlat(g, tt, m), n <= m, \A i \in 1..n : ss[i] = tt[i]
    PROVE  \A i \in 1..n : f[i] = g[i]
  <1> DEFINE T == {i \in Nat : i \in 1..n => f[i] = g[i]}
  <1>1. \A i \in 1..n : f[i] = IF i = 1 THEN ss[i] ELSE f[i - 1] \o ss[i]  BY DEF IsFlat
  <1>2. \A i \in 1..m : g[i] = IF i = 1 THEN tt[i] ELSE g[i - 1] \o tt[i]  BY DEF IsFlat
  <1>3. 0 \in T  OBVIOUS
  <1>4. ASSUME NEW i \in T PROVE i + 1 \in T
    <2>1. SUFFICES ASSUME i + 1 \in 1..n PROVE f[i + 1] = g[i + 1]  OBVIOUS
    <2>2. i \in Nat /\ i + 1 \in 1..m /\ (i + 1) - 1 = i /\ ss[i + 1] = tt[i + 1]  BY <2>1
    <2>3. i + 1 # 1 => i \in 1..n  BY <2>1, <2>2
    <2>4. i + 1 # 1 => f[i] = g[i]  BY <2>3
    <2>5. f[i + 1] = IF i + 1 = 1 THEN ss[i + 1] ELSE f[i] \o ss[i + 1]  BY <1>1, <2>1, <2>2
    <2>6. g[i + 1] = IF i + 1 = 1 THEN tt[i + 1] ELSE g[i] \o tt[i + 1]  BY <1>2, <2>2
    <2> QED  BY <2>2, <2>4, <2>5, <2>6
  <1>5. T = Nat
    <2>1. T \in SUBSET Nat  OBVIOUS
    <2> HIDE DEF T
    <2> QED  BY <1>3, <1>4, <2>1, NatSetInduction
  <1> QED  BY <1>5

LEMMA FlattenIsFlat ==
    ASSUME NEW S, NEW ss \in Seq(S), ss # <<>>
    PROVE  \E f : IsFlat(f, ss, Len(ss)) /\ FlattenSeq(ss) = f[Len(ss)]
  <1> DEFINE n == Len(ss)
             flatten == CHOOSE flatten :
                 flatten = [i \in 1..n |-> IF i = 1 THEN ss[i] ELSE flatten[i - 1] \o ss[i]]
  <1>1. n \in Nat /\ n # 0  BY EmptySeq
  <1>2. PICK f : IsFlat(f, ss, n)  BY <1>1, FlatExists
  <1>3. IsFlat(flatten, ss, n)  BY <1>2 DEF IsFlat
  <1>4. FlattenSeq(ss) = flatten[n]  BY <1>1, Zenon DEF FlattenSeq
  <1> HIDE DEF flatten
  <1> QED  BY <1>3, <1>4

LEMMA FlattenEmpty == FlattenSeq(<<>>) = <<>>
  BY DEF FlattenSeq

LEMMA FlattenAppend ==
    ASSUME NEW S, NEW ss \in Seq(Seq(S)), NEW q \in Seq(S)
    PROVE  FlattenSeq(Append(ss, q)) = FlattenSeq(ss) \o q
  <1> DEFINE n == Len(ss)
             tt == Append(ss, q)
  <1>1. /\ n \in Nat /\ n + 1 \in Nat /\ n + 1 \in 1..n + 1 /\ n <= n + 1
        /\ tt \in Seq(Seq(S)) /\ tt # <<>> /\ Len(tt) = n + 1 /\ tt[n + 1] = q
        /\ \A i \in 1..n : ss[i] = tt[i]
    <2>1. n \in Nat  OBVIOUS
    <2>2. n + 1 \in Nat /\ n + 1 \in 1..n + 1 /\ n <= n + 1  BY <2>1
    <2> QED  BY <2>1, <2>2, AppendProperties
  <1> HIDE DEF tt
  <1>2. PICK g : IsFlat(g, tt, n + 1) /\ FlattenSeq(tt) = g[n + 1]  BY <1>1, FlattenIsFlat
  <1>3. g[n + 1] = IF n + 1 = 1 THEN tt[n + 1] ELSE g[(n + 1) - 1] \o tt[n + 1]
    BY <1>1, <1>2, Zenon DEF IsFlat
  <1>4. CASE ss = <<>>
    <2>1. n = 0 /\ FlattenSeq(ss) = <<>>  BY <1>4, FlattenEmpty
    <2>2. FlattenSeq(tt) = q
      <3>1. n + 1 = 1  BY <2>1
      <3> QED  BY <1>1, <1>2, <1>3, <3>1
    <2>3. <<>> \o q = q  BY ConcatEmptySeq
    <2> QED  BY <2>1, <2>2, <2>3 DEF tt
  <1>5. CASE ss # <<>>
    <2>1. n # 0 /\ n \in 1..n /\ n + 1 # 1 /\ (n + 1) - 1 = n  BY <1>5, EmptySeq
    <2>2. PICK f : IsFlat(f, ss, n) /\ FlattenSeq(ss) = f[n]  BY <1>5, FlattenIsFlat
    <2>3. \A i \in 1..n : f[i] = g[i]
      <3> DEFINE m == n + 1
      <3>1. m \in Nat /\ n \in Nat /\ n <= m  BY <1>1
      <3>2. IsFlat(f, ss, n) /\ IsFlat(g, tt, m)  BY <1>2, <2>2
      <3>3. \A i \in 1..n : ss[i] = tt[i]  BY <1>1
      <3> HIDE DEF n, m
      <3> QED  BY <3>1, <3>2, <3>3, FlatUnique
    <2>4. f[n] = g[n]  BY <2>1, <2>3
    <2> QED  BY <1>1, <1>2, <1>3, <2>1, <2>2, <2>4 DEF tt
  <1> QED  BY <1>4, <1>5

LEMMA FlattenType ==
    ASSUME NEW S
    PROVE  \A ss \in Seq(Seq(S)) : FlattenSeq(ss) \in Seq(S)
  <1> DEFINE T == {ss \in Seq(Seq(S)) : FlattenSeq(ss) \in Seq(S)}
  <1>1. T \in SUBSET Seq(Seq(S))  OBVIOUS
  <1>2. <<>> \in T
    <2>1. <<>> \in Seq(Seq(S)) /\ <<>> \in Seq(S)  OBVIOUS
    <2> QED  BY <2>1, FlattenEmpty, Zenon
  <1>3. ASSUME NEW ss \in T, NEW q \in Seq(S) PROVE Append(ss, q) \in T
    <2>1. ss \in Seq(Seq(S)) /\ FlattenSeq(ss) \in Seq(S) /\ Append(ss, q) \in Seq(Seq(S))
      OBVIOUS
    <2>2. FlattenSeq(Append(ss, q)) = FlattenSeq(ss) \o q  BY <2>1, FlattenAppend
    <2> QED  BY <2>1, <2>2, ConcatProperties
  <1>4. T = Seq(Seq(S))
    <2> HIDE DEF T
    <2> QED  BY <1>1, <1>2, <1>3, SeqSetInduction
  <1> QED  BY <1>4

\* A sequence of sequences comes to nothing only if each of them is empty.
LEMMA FlattenNothing ==
    ASSUME NEW S
    PROVE  \A ss \in Seq(Seq(S)) : FlattenSeq(ss) = <<>> <=> \A i \in DOMAIN ss : ss[i] = <<>>
  <1> DEFINE P(ss) == FlattenSeq(ss) = <<>> <=> \A i \in DOMAIN ss : ss[i] = <<>>
             T == {ss \in Seq(Seq(S)) : P(ss)}
  <1>1. T \in SUBSET Seq(Seq(S))  OBVIOUS
  <1>2. <<>> \in T
    <2>1. <<>> \in Seq(Seq(S)) /\ \A i \in DOMAIN <<>> : FALSE  OBVIOUS
    <2> QED  BY <2>1, FlattenEmpty, Zenon
  <1>3. ASSUME NEW ss \in T, NEW q \in Seq(S) PROVE Append(ss, q) \in T
    <2>1. ss \in Seq(Seq(S)) /\ P(ss) /\ Append(ss, q) \in Seq(Seq(S))  OBVIOUS
    <2>2. FlattenSeq(Append(ss, q)) = FlattenSeq(ss) \o q  BY <2>1, FlattenAppend
    <2>3. FlattenSeq(ss) \in Seq(S)  BY <2>1, FlattenType
    <2>4. FlattenSeq(ss) \o q = <<>> <=> FlattenSeq(ss) = <<>> /\ q = <<>>
      <3> DEFINE a == FlattenSeq(ss)
      <3>1. a \in Seq(S)  BY <2>3
      <3> HIDE DEF a
      <3>2. a \o q = <<>> <=> a = <<>> /\ q = <<>>
        <4>1. a \o q = <<>> => Len(a) + Len(q) = 0  BY <3>1, ConcatProperties, EmptySeq
        <4>2. a \o q = <<>> => Len(a) = 0 /\ Len(q) = 0  BY <3>1, <4>1
        <4>3. a \o q = <<>> => a = <<>> /\ q = <<>>  BY <3>1, <4>2, EmptySeq
        <4>4. <<>> \o <<>> = <<>>  OBVIOUS
        <4> QED  BY <4>3, <4>4
      <3> QED  BY <3>2 DEF a
    <2>5. (\A i \in DOMAIN Append(ss, q) : Append(ss, q)[i] = <<>>)
            <=> (\A i \in DOMAIN ss : ss[i] = <<>>) /\ q = <<>>
      <3> DEFINE t == Append(ss, q)
                 n == Len(ss)
      <3>1. n \in Nat /\ DOMAIN ss = 1..n /\ DOMAIN t = 1..n + 1 /\ t[n + 1] = q
            /\ \A i \in 1..n : t[i] = ss[i]
        BY <2>1, AppendProperties
      <3> HIDE DEF t, n
      <3>2. \A i \in 1..n + 1 : i \in 1..n \/ i = n + 1  BY <3>1
      <3>3. n + 1 \in 1..n + 1 /\ \A i \in 1..n : i \in 1..n + 1  BY <3>1
      <3>4. (\A i \in DOMAIN t : t[i] = <<>>) <=> (\A i \in DOMAIN ss : ss[i] = <<>>) /\ q = <<>>
        BY <3>1, <3>2, <3>3
      <3> QED  BY <3>4 DEF t
    <2> QED  BY <2>1, <2>2, <2>4, <2>5
  <1>4. T = Seq(Seq(S))
    <2> HIDE DEF T
    <2> QED  BY <1>1, <1>2, <1>3, SeqSetInduction
  <1> QED  BY <1>4

-----------------------------------------------------------------------------
(* Recursive functions on numbers.                                         *)

\* What holds of a number once it holds of those before it, holds of each.
LEMMA UpToInduction ==
    ASSUME NEW N \in Nat, NEW T \in SUBSET (1..N),
           \A n \in 1..N : (\A m \in 1..n - 1 : m \in T) => n \in T
    PROVE  T = 1..N
  <1> DEFINE I == (1..N) \ T
  <1>1. I \in SUBSET Nat  OBVIOUS
  <1>2. SUFFICES ASSUME I # {} PROVE FALSE  OBVIOUS
  <1>3. PICK n \in I : \A m \in I : n <= m
    <2> HIDE DEF I
    <2> QED  BY <1>1, <1>2, HasLeast
  <1>4. n \in 1..N /\ n \notin T  OBVIOUS
  <1>5. \A m \in 1..n - 1 : m \in 1..N /\ ~ (n <= m)  BY <1>4
  <1>6. \A m \in 1..n - 1 : m \in T  BY <1>3, <1>5
  <1> QED  BY <1>4, <1>6

\* A function whose value looks only at those before it exists.
THEOREM RecursionExists ==
    ASSUME NEW N \in Nat,
           \A n \in 1..N : \A f, g : (\A m \in 1..n - 1 : f[m] = g[m]) => Op(n, f) = Op(n, g)
    PROVE  \E r : r = [n \in 1..N |-> Op(n, r)]
  <1> DEFINE T == {k \in Nat : k <= N => \E r : r = [n \in 1..k |-> Op(n, r)]}
  <1>1. 0 \in T
    <2> DEFINE r == [n \in 1..0 |-> Op(n, n)]
    <2>1. \A n \in 1..0 : FALSE  OBVIOUS
    <2>2. r = [n \in 1..0 |-> Op(n, r)]  BY <2>1, Zenon
    <2> QED  BY <2>2
  <1>2. ASSUME NEW k \in T PROVE k + 1 \in T
    <2>1. k \in Nat /\ k + 1 \in Nat  OBVIOUS
    <2>2. SUFFICES ASSUME k + 1 <= N PROVE \E r : r = [n \in 1..k + 1 |-> Op(n, r)]
      BY <2>1
    <2>3. PICK f : f = [n \in 1..k |-> Op(n, f)]  BY <2>1, <2>2
    <2> DEFINE h == [n \in 1..k + 1 |-> Op(n, f)]
    <2>4. \A n \in 1..k : f[n] = Op(n, f)  BY <2>3
    <2>5. \A n \in 1..k : n \in 1..k + 1  BY <2>1
    <2>6. \A n \in 1..k : h[n] = f[n]  BY <2>4, <2>5, Zenon
    <2>7. \A n \in 1..k + 1 : n \in 1..N /\ \A m \in 1..n - 1 : m \in 1..k  BY <2>1, <2>2
    <2> HIDE DEF h
    <2>8. \A n \in 1..k + 1 : Op(n, f) = Op(n, h)
      <3> SUFFICES ASSUME NEW n \in 1..k + 1 PROVE Op(n, f) = Op(n, h)  OBVIOUS
      <3>1. n \in 1..N /\ \A m \in 1..n - 1 : f[m] = h[m]  BY <2>6, <2>7
      <3> QED  BY <3>1, Zenon
    <2>9. h = [n \in 1..k + 1 |-> Op(n, h)]  BY <2>8, Zenon DEF h
    <2> QED  BY <2>9
  <1>3. T \in SUBSET Nat  OBVIOUS
  <1>4. T = Nat
    <2> HIDE DEF T
    <2> QED  BY <1>1, <1>2, <1>3, NatSetInduction
  <1> QED  BY <1>4
=============================================================================
