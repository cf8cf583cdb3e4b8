---------------------------- MODULE HelperProofs ----------------------------
(***************************************************************************)
(* The functions of ImagePaths and InviteTtl for every input, width and    *)
(* length, and those of Html for pages of any size.  Their folds and their *)
(* recursions are instances of FoldLemmas, and what is proved of all       *)
(* sequences is proved by its induction over sets of them.                 *)
(***************************************************************************)
EXTENDS MCHelpers, SequenceTheorems, FiniteSetTheorems, TLAPS

Splitting == INSTANCE FoldLemmas WITH Op <- SplitStep
Cleaning == INSTANCE FoldLemmas WITH Op <- CleanStep
Slugging == INSTANCE FoldLemmas WITH Op <- SlugStep

Path == Seq(Chars)

-----------------------------------------------------------------------------
(* Sequences.                                                              *)

LEMMA Prefix ==
    ASSUME NEW S, NEW s \in Seq(S), NEW n \in 0..Len(s)
    PROVE  /\ SubSeq(s, 1, n) \in Seq(S) /\ Len(SubSeq(s, 1, n)) = n
           /\ \A i \in 1..n : SubSeq(s, 1, n)[i] = s[i]
  OBVIOUS

LEMMA FrontLast ==
    ASSUME NEW S, NEW s \in Seq(S), s # <<>>
    PROVE  /\ Len(s) \in Nat \ {0}
           /\ Front(s) \in Seq(S) /\ Len(Front(s)) = Len(s) - 1
           /\ \A i \in 1..Len(s) - 1 : Front(s)[i] = s[i]
           /\ Last(s) \in S /\ Last(s) = s[Len(s)]
  <1>1. Len(s) \in Nat \ {0} /\ \A i \in 1..Len(s) : s[i] \in S  BY EmptySeq
  <1>2. Last(s) \in S /\ Last(s) = s[Len(s)]  BY <1>1 DEF Last
  <1>3. Len(s) - 1 \in 0..Len(s)  BY <1>1
  <1> QED  BY <1>1, <1>2, <1>3, Prefix DEF Front

LEMMA MinOf ==
    ASSUME NEW I \in SUBSET Nat, I # {}
    PROVE  Min(I) \in I /\ \A y \in I : Min(I) <= y
  <1>1. \E x \in I : \A y \in I : x <= y  BY Splitting!HasLeast
  <1> QED  BY <1>1, Zenon DEF Min

LEMMA MaxOf ==
    ASSUME NEW n \in Nat, NEW I \in SUBSET (0..n), I # {}
    PROVE  Max(I) \in I /\ \A y \in I : Max(I) >= y
  <1>1. \E x \in I : \A y \in I : x >= y  BY Splitting!HasLast
  <1> QED  BY <1>1, Zenon DEF Max

\* The first and the last that is not c, and the last that is.
LEMMA FirstOther ==
    ASSUME NEW S, NEW s \in Seq(S), NEW c
    PROVE  LET f == SelectInSeq(s, LAMBDA x : x # c)
           IN  /\ f \in 0..Len(s)
               /\ f = 0 <=> \A i \in 1..Len(s) : s[i] = c
               /\ f # 0 => s[f] # c /\ \A i \in 1..Len(s) : i < f => s[i] = c
  <1> DEFINE I == {i \in 1..Len(s) : s[i] # c}
             f == SelectInSeq(s, LAMBDA x : x # c)
  <1>1. f = IF I # {} THEN Min(I) ELSE 0  BY Zenon DEF SelectInSeq
  <1>2. Len(s) \in Nat /\ I \in SUBSET Nat  OBVIOUS
  <1>3. CASE I = {}
    <2>1. \A i \in 1..Len(s) : s[i] = c  BY <1>3
    <2>2. f = 0  BY <1>1, <1>3, Zenon
    <2> HIDE DEF f
    <2>3. /\ f \in 0..Len(s)
          /\ f = 0 <=> \A i \in 1..Len(s) : s[i] = c
          /\ f # 0 => FALSE
      BY <1>2, <2>1, <2>2
    <2> QED  BY <2>3 DEF f
  <1>4. CASE I # {}
    <2>1. Min(I) \in I /\ \A y \in I : Min(I) <= y
      <3> HIDE DEF I
      <3> QED  BY <1>2, <1>4, MinOf
    <2>2. f = Min(I)  BY <1>1, <1>4
    <2>3. f \in 1..Len(s) /\ s[f] # c  BY <2>1, <2>2
    <2>4. \A i \in 1..Len(s) : i < f => s[i] = c  
      <3>1. \A i \in I : ~ (i < f)
        <4>1. \A y \in I : y \in Nat  OBVIOUS
        <4>2. f \in Nat  BY <2>3
        <4>3. \A y \in I : f <= y  BY <2>1, <2>2
        <4> HIDE DEF I, f
        <4> QED  BY <4>1, <4>2, <4>3
      <3> QED  BY <3>1
    <2> HIDE DEF f
    <2>5. /\ f \in 0..Len(s)
          /\ f = 0 <=> \A i \in 1..Len(s) : s[i] = c
          /\ f # 0 => s[f] # c /\ \A i \in 1..Len(s) : i < f => s[i] = c
      BY <1>2, <2>3, <2>4
    <2> QED  BY <2>5 DEF f
  <1> QED  BY <1>3, <1>4

LEMMA LastOther ==
    ASSUME NEW S, NEW s \in Seq(S), NEW c
    PROVE  LET f == SelectLastInSeq(s, LAMBDA x : x # c)
           IN  /\ f \in 0..Len(s)
               /\ f = 0 <=> \A i \in 1..Len(s) : s[i] = c
               /\ f # 0 => s[f] # c /\ \A i \in 1..Len(s) : i > f => s[i] = c
  <1> DEFINE I == {i \in 1..Len(s) : s[i] # c}
             f == SelectLastInSeq(s, LAMBDA x : x # c)
  <1>1. f = IF I # {} THEN Max(I) ELSE 0  BY Zenon DEF SelectLastInSeq
  <1>2. Len(s) \in Nat /\ I \in SUBSET (0..Len(s))  OBVIOUS
  <1>3. CASE I = {}
    <2>1. \A i \in 1..Len(s) : s[i] = c  BY <1>3
    <2>2. f = 0  BY <1>1, <1>3, Zenon
    <2> HIDE DEF f
    <2>3. /\ f \in 0..Len(s)
          /\ f = 0 <=> \A i \in 1..Len(s) : s[i] = c
          /\ f # 0 => FALSE
      BY <1>2, <2>1, <2>2
    <2> QED  BY <2>3 DEF f
  <1>4. CASE I # {}
    <2>1. Max(I) \in I /\ \A y \in I : Max(I) >= y
      <3> HIDE DEF I
      <3> QED  BY <1>2, <1>4, MaxOf
    <2>2. f = Max(I)  BY <1>1, <1>4
    <2>3. f \in 1..Len(s) /\ s[f] # c  BY <2>1, <2>2
    <2>4. \A i \in 1..Len(s) : i > f => s[i] = c  
      <3>1. \A i \in I : ~ (i > f)
        <4>1. \A y \in I : y \in Nat  OBVIOUS
        <4>2. f \in Nat  BY <2>3
        <4>3. \A y \in I : f >= y  BY <2>1, <2>2
        <4> HIDE DEF I, f
        <4> QED  BY <4>1, <4>2, <4>3
      <3> QED  BY <3>1
    <2> HIDE DEF f
    <2>5. /\ f \in 0..Len(s)
          /\ f = 0 <=> \A i \in 1..Len(s) : s[i] = c
          /\ f # 0 => s[f] # c /\ \A i \in 1..Len(s) : i > f => s[i] = c
      BY <1>2, <2>3, <2>4
    <2> QED  BY <2>5 DEF f
  <1> QED  BY <1>3, <1>4

LEMMA LastOne ==
    ASSUME NEW S, NEW s \in Seq(S), NEW c
    PROVE  LET f == LastIndex(s, c)
           IN  /\ f \in 0..Len(s)
               /\ f = 0 <=> \A i \in 1..Len(s) : s[i] # c
               /\ f # 0 => s[f] = c /\ \A i \in 1..Len(s) : i > f => s[i] # c
  <1> DEFINE I == {i \in 1..Len(s) : s[i] = c}
             f == LastIndex(s, c)
  <1>1. f = IF I # {} THEN Max(I) ELSE 0  BY Zenon DEF SelectLastInSeq, LastIndex
  <1>2. Len(s) \in Nat /\ I \in SUBSET (0..Len(s))  OBVIOUS
  <1>3. CASE I = {}
    <2>1. \A i \in 1..Len(s) : s[i] # c  BY <1>3
    <2>2. f = 0  BY <1>1, <1>3, Zenon
    <2> HIDE DEF f
    <2>3. /\ f \in 0..Len(s)
          /\ f = 0 <=> \A i \in 1..Len(s) : s[i] # c
          /\ f # 0 => FALSE
      BY <1>2, <2>1, <2>2
    <2> QED  BY <2>3 DEF f
  <1>4. CASE I # {}
    <2>1. Max(I) \in I /\ \A y \in I : Max(I) >= y
      <3> HIDE DEF I
      <3> QED  BY <1>2, <1>4, MaxOf
    <2>2. f = Max(I)  BY <1>1, <1>4
    <2>3. f \in 1..Len(s) /\ s[f] = c  BY <2>1, <2>2
    <2>4. \A i \in 1..Len(s) : i > f => s[i] # c  
      <3>1. \A i \in I : ~ (i > f)
        <4>1. \A y \in I : y \in Nat  OBVIOUS
        <4>2. f \in Nat  BY <2>3
        <4>3. \A y \in I : f >= y  BY <2>1, <2>2
        <4> HIDE DEF I, f
        <4> QED  BY <4>1, <4>2, <4>3
      <3> QED  BY <3>1
    <2> HIDE DEF f
    <2>5. /\ f \in 0..Len(s)
          /\ f = 0 <=> \A i \in 1..Len(s) : s[i] # c
          /\ f # 0 => s[f] = c /\ \A i \in 1..Len(s) : i > f => s[i] # c
      BY <1>2, <2>3, <2>4
    <2> QED  BY <2>5 DEF f
  <1> QED  BY <1>3, <1>4

\* What is left of s begins and ends with something else than c.
LEMMA TrimProps ==
    ASSUME NEW S, NEW s \in Seq(S), NEW c
    PROVE  /\ Trim(s, c) \in Seq(S)
           /\ Trim(s, c) = <<>> <=> \A i \in 1..Len(s) : s[i] = c
           /\ Trim(s, c) # <<>> =>
                 \E f \in 1..Len(s), l \in 1..Len(s) :
                    /\ f <= l /\ s[f] # c /\ s[l] # c /\ Trim(s, c) = SubSeq(s, f, l)
                    /\ \A i \in 1..Len(s) : i < f \/ i > l => s[i] = c
  <1> DEFINE f == SelectInSeq(s, LAMBDA x : x # c)
             l == SelectLastInSeq(s, LAMBDA x : x # c)
  <1>1. /\ f \in 0..Len(s)
        /\ f = 0 <=> \A i \in 1..Len(s) : s[i] = c
        /\ f # 0 => s[f] # c /\ \A i \in 1..Len(s) : i < f => s[i] = c
    BY FirstOther
  <1>2. /\ l \in 0..Len(s)
        /\ l = 0 <=> \A i \in 1..Len(s) : s[i] = c
        /\ l # 0 => s[l] # c /\ \A i \in 1..Len(s) : i > l => s[i] = c
    BY LastOther
  <1>3. Trim(s, c) = IF f = 0 THEN <<>> ELSE SubSeq(s, f, l)  BY DEF Trim
  <1> HIDE DEF f, l
  <1>4. Len(s) \in Nat  OBVIOUS
  <1>5. CASE f = 0
    BY <1>1, <1>3, <1>5
  <1>6. CASE f # 0
    <2>1. f \in 1..Len(s) /\ l \in 1..Len(s) /\ f <= l  BY <1>1, <1>2, <1>4, <1>6
    <2>2. /\ SubSeq(s, f, l) \in Seq(S)
          /\ Len(SubSeq(s, f, l)) = l - f + 1
      <3>1. f \in Int /\ l \in Int /\ \A i \in f..l : s[i] \in S  BY <1>4, <2>1
      <3> QED  BY <2>1, <3>1, SubSeqProperties
    <2>3. SubSeq(s, f, l) # <<>>
      <3>1. l - f + 1 # 0  BY <2>1
      <3> QED  BY <2>2, <3>1
    <2>4. \A i \in 1..Len(s) : i < f \/ i > l => s[i] = c  BY <1>1, <1>2, <2>1
    <2>5. ~ \A i \in 1..Len(s) : s[i] = c  BY <1>1, <2>1
    <2> QED  BY <1>1, <1>2, <1>3, <1>6, <2>1, <2>2, <2>3, <2>4, <2>5
  <1> QED  BY <1>5, <1>6

LEMMA SameFlatten == \A ss : FlattenSeq(ss) = Splitting!FlattenSeq(ss)
  BY Zenon DEF FlattenSeq, Splitting!FlattenSeq

LEMMA FlattenFacts ==
    ASSUME NEW S
    PROVE  /\ FlattenSeq(<<>>) = <<>>
           /\ \A ss \in Seq(Seq(S)) :
                 /\ FlattenSeq(ss) \in Seq(S)
                 /\ FlattenSeq(ss) = <<>> <=> \A i \in DOMAIN ss : ss[i] = <<>>
                 /\ \A q \in Seq(S) : FlattenSeq(Append(ss, q)) = FlattenSeq(ss) \o q
  <1>1. FlattenSeq(<<>>) = <<>>  BY SameFlatten, Splitting!FlattenEmpty, Zenon
  <1>2. ASSUME NEW ss \in Seq(Seq(S))
        PROVE  /\ FlattenSeq(ss) \in Seq(S)
               /\ FlattenSeq(ss) = <<>> <=> \A i \in DOMAIN ss : ss[i] = <<>>
    BY SameFlatten, Splitting!FlattenType, Splitting!FlattenNothing, Zenon
  <1>3. ASSUME NEW ss \in Seq(Seq(S)), NEW q \in Seq(S)
        PROVE  FlattenSeq(Append(ss, q)) = FlattenSeq(ss) \o q
    BY SameFlatten, Splitting!FlattenAppend, Zenon
  <1> QED  BY <1>1, <1>2, <1>3, Zenon

LEMMA ConcatNothing ==
    ASSUME NEW S, NEW s \in Seq(S), NEW t \in Seq(S)
    PROVE  s \o t = <<>> <=> s = <<>> /\ t = <<>>
  <1>1. s \o t \in Seq(S) /\ Len(s \o t) = Len(s) + Len(t)  BY ConcatProperties
  <1>2. Len(s) \in Nat /\ Len(t) \in Nat  OBVIOUS
  <1>3. s \o t = <<>> <=> Len(s \o t) = 0  BY <1>1, EmptySeq
  <1>4. s = <<>> <=> Len(s) = 0  BY EmptySeq
  <1>5. t = <<>> <=> Len(t) = 0  BY EmptySeq
  <1>6. Len(s) + Len(t) = 0 <=> Len(s) = 0 /\ Len(t) = 0  BY <1>2
  <1> QED  BY <1>1, <1>3, <1>4, <1>5, <1>6, Zenon

-----------------------------------------------------------------------------
(* Parts of paths.                                                         *)

LEMMA SplitFold == \A s : Split(s) = Splitting!Fold(<< <<>> >>, s)
  BY Zenon DEF Split, FoldLeft, MapThenFoldSet, Max, Splitting!Fold, Splitting!FoldLeft,
               Splitting!MapThenFoldSet, Splitting!Max

LEMMA CleanFold == \A s : Clean(s) = Cleaning!Fold(<<>>, Split(s))
  BY Zenon DEF Clean, FoldLeft, MapThenFoldSet, Max, Cleaning!Fold, Cleaning!FoldLeft,
               Cleaning!MapThenFoldSet, Cleaning!Max

\* A path is split into at least one part.
LEMMA SplitType == \A s \in Path : Split(s) \in Seq(Path) /\ Split(s) # <<>>
  <1> DEFINE A == Seq(Path) \ {<<>>}
  <1>1. << <<>> >> \in A  BY DEF Path
  <1>2. ASSUME NEW a \in A, NEW x \in Chars PROVE SplitStep(a, x) \in A
    <2>1. Front(a) \in Seq(Path) /\ Last(a) \in Path  BY FrontLast
    <2>2. Append(Last(a), x) \in Path  BY <2>1 DEF Path
    <2>3. <<>> \in Path  BY DEF Path
    <2>4. Append(a, <<>>) \in A  BY <2>3, AppendProperties
    <2>5. Append(Front(a), Append(Last(a), x)) \in A  BY <2>1, <2>2, AppendProperties
    <2> QED  BY <2>4, <2>5 DEF SplitStep
  <1>3. \A s \in Seq(Chars) : Splitting!Fold(<< <<>> >>, s) \in A
    <2> HIDE DEF A
    <2> QED  BY <1>1, <1>2, Splitting!FoldType
  <1> QED  BY <1>3, SplitFold DEF Path

\* How the depth goes with another part.
LEMMA DepthStep ==
    ASSUME NEW parts \in Seq(Path), NEW part \in Path
    PROVE  LET t == Append(parts, part)
               n == Len(parts)
           IN  /\ Depth(parts, 0) = 0
               /\ \A i \in 0..n : Depth(parts, i) \in Int /\ Depth(t, i) = Depth(parts, i)
               /\ Depth(t, n + 1) = Depth(parts, n) + IF part \in Skipped THEN 0
                                                      ELSE IF part = Up THEN -1 ELSE 1
  <1> DEFINE t == Append(parts, part)
             n == Len(parts)
             N(p, i) == {j \in 1..i : p[j] \notin Skipped \cup {Up}}
             U(p, i) == {j \in 1..i : p[j] = Up}
  <1>1. n \in Nat /\ t[n + 1] = part /\ \A i \in 1..n : t[i] = parts[i]
    BY AppendProperties
  <1> HIDE DEF t, n
  <1>2. ASSUME NEW p, NEW i \in Nat
        PROVE  IsFiniteSet(N(p, i)) /\ IsFiniteSet(U(p, i))
    <2>1. IsFiniteSet(1..i)  BY FS_Interval
    <2> QED  BY <2>1, FS_Subset
  <1>3. ASSUME NEW p, NEW i \in Nat
        PROVE  /\ Cardinality(N(p, i)) \in Nat /\ Cardinality(U(p, i)) \in Nat
               /\ Depth(p, i) = Cardinality(N(p, i)) - Cardinality(U(p, i))
    <2>1. Depth(p, i) = Cardinality(N(p, i)) - Cardinality(U(p, i))  BY DEF Depth
    <2> HIDE DEF N, U
    <2> QED  BY <1>2, <2>1, FS_CardinalityType
  <1>4. Depth(parts, 0) = 0
    <2>1. N(parts, 0) = {} /\ U(parts, 0) = {}  OBVIOUS
    <2> HIDE DEF N, U
    <2>2. Depth(parts, 0) = Cardinality(N(parts, 0)) - Cardinality(U(parts, 0))  BY <1>3
    <2>3. Cardinality({}) = 0  BY FS_EmptySet
    <2>4. 0 - 0 = 0  OBVIOUS
    <2> HIDE DEF N, U
    <2> QED  BY <2>1, <2>2, <2>3, <2>4, Zenon
  <1>5. ASSUME NEW i \in 0..n PROVE Depth(parts, i) \in Int /\ Depth(t, i) = Depth(parts, i)
    <2>1. i \in Nat /\ \A j \in 1..i : t[j] = parts[j]  BY <1>1
    <2>2. N(t, i) = N(parts, i) /\ U(t, i) = U(parts, i)  BY <2>1
    <2> HIDE DEF N, U
    <2> QED  BY <1>3, <2>1, <2>2
  <1>6. Depth(t, n + 1) = Depth(parts, n) + IF part \in Skipped THEN 0
                                            ELSE IF part = Up THEN -1 ELSE 1
    <2>1. Up \notin Skipped  BY DEF Up, Skipped
    <2>2. n + 1 \in Nat /\ n + 1 \notin 1..n /\ 1..n + 1 = (1..n) \cup {n + 1}  BY <1>1
    <2>3. N(t, n + 1) = IF part \in Skipped \cup {Up} THEN N(parts, n)
                        ELSE N(parts, n) \cup {n + 1}
      BY <1>1, <2>2
    <2>4. U(t, n + 1) = IF part = Up THEN U(parts, n) \cup {n + 1} ELSE U(parts, n)
      BY <1>1, <2>2
    <2>5. n + 1 \notin N(parts, n) /\ n + 1 \notin U(parts, n)  BY <2>2
    <2> HIDE DEF N, U
    <2>6. /\ Cardinality(N(parts, n) \cup {n + 1}) = Cardinality(N(parts, n)) + 1
          /\ Cardinality(U(parts, n) \cup {n + 1}) = Cardinality(U(parts, n)) + 1
      BY <1>1, <1>2, <2>5, FS_AddElement
    <2>7. Depth(t, n + 1) = Cardinality(N(t, n + 1)) - Cardinality(U(t, n + 1))
      BY <1>3, <2>2
    <2>8. /\ Cardinality(N(parts, n)) \in Nat /\ Cardinality(U(parts, n)) \in Nat
          /\ Depth(parts, n) = Cardinality(N(parts, n)) - Cardinality(U(parts, n))
      BY <1>1, <1>3
    <2> DEFINE c == Cardinality(N(parts, n))
               d == Cardinality(U(parts, n))
    <2>12. /\ Depth(t, n + 1) = (IF part \in Skipped \cup {Up} THEN c ELSE c + 1)
                                   - (IF part = Up THEN d + 1 ELSE d)
           /\ Depth(parts, n) = c - d /\ c \in Nat /\ d \in Nat
      BY <2>3, <2>4, <2>6, <2>7, <2>8
    <2> HIDE DEF c, d
    <2>9. CASE part \in Skipped
      BY <2>1, <2>9, <2>12
    <2>10. CASE part = Up
      BY <2>1, <2>10, <2>12
    <2>11. CASE part \notin Skipped \cup {Up}
      BY <2>11, <2>12
    <2> QED  BY <2>9, <2>10, <2>11
  <1> QED  BY <1>4, <1>5, <1>6 DEF t, n

\* What cleaning keeps: a walk that stays inside is as long as it is deep and
\* has no ".."; one that leaves has ".." in front for good.
StaysInside(parts) == \A i \in DOMAIN parts : Depth(parts, i) >= 0
Walked(parts, out) ==
    /\ out \in Seq(Path)
    /\ \A i \in DOMAIN out : out[i] \notin Skipped
    /\ StaysInside(parts) => Len(out) = Depth(parts, Len(parts)) /\ \A i \in DOMAIN out : out[i] # Up
    /\ ~ StaysInside(parts) => out # <<>> /\ out[1] = Up

LEMMA CleanWalks ==
    \A parts \in Seq(Path) : Walked(parts, Cleaning!Fold(<<>>, parts))
  <1> DEFINE out(p) == Cleaning!Fold(<<>>, p)
             T == {p \in Seq(Path) : Walked(p, out(p))}
  <1>1. T \in SUBSET Seq(Path)  OBVIOUS
  <1>2. <<>> \in T
    <2>1. out(<<>>) = <<>>  BY Cleaning!FoldEmpty
    <2>2. <<>> \in Seq(Path) /\ <<>> \in Seq(Seq(Path)) /\ DOMAIN <<>> = {} /\ Len(<<>>) = 0
      OBVIOUS
    <2>3. Depth(<<>>, 0) = 0
      <3>1. <<>> \in Path  BY DEF Path
      <3> QED  BY <2>2, <3>1, DepthStep
    <2>4. Walked(<<>>, <<>>)  BY <2>2, <2>3 DEF Walked, StaysInside
    <2> QED  BY <2>1, <2>2, <2>4
  <1>3. ASSUME NEW p \in T, NEW x \in Path PROVE Append(p, x) \in T
    <2> DEFINE t == Append(p, x)
               n == Len(p)
               o == out(p)
    <2>1. p \in Seq(Path) /\ t \in Seq(Path) /\ Walked(p, o)  BY AppendProperties
    <2>2. out(t) = CleanStep(o, x)  BY <2>1, Cleaning!FoldAppend
    <2>3. n \in Nat /\ DOMAIN p = 1..n /\ DOMAIN t = 1..n + 1 /\ Len(t) = n + 1
      BY <2>1, AppendProperties
    <2>4. /\ Depth(p, n) \in Int
          /\ \A i \in 0..n : Depth(t, i) = Depth(p, i)
          /\ Depth(p, 0) = 0
          /\ Depth(t, n + 1) = Depth(p, n) + IF x \in Skipped THEN 0
                                             ELSE IF x = Up THEN -1 ELSE 1
      BY <2>1, <2>3, DepthStep
    <2>5. StaysInside(p) => Depth(p, n) >= 0
      BY <2>3, <2>4 DEF StaysInside
    <2>6. StaysInside(t) <=> StaysInside(p) /\ Depth(t, n + 1) >= 0
      BY <2>3, <2>4 DEF StaysInside
    <2>7. Up \notin Skipped  BY DEF Up, Skipped
    <2>13. /\ o \in Seq(Path)
           /\ \A i \in DOMAIN o : o[i] \notin Skipped
           /\ StaysInside(p) => Len(o) = Depth(p, n) /\ \A i \in DOMAIN o : o[i] # Up
           /\ ~ StaysInside(p) => o # <<>> /\ o[1] = Up
      BY <2>1, Zenon DEF Walked
    <2> DEFINE r == CleanStep(o, x)
    <2>12. SUFFICES Walked(t, r)  BY <2>1, <2>2
    <2> HIDE DEF t, n, o, r
    <2>8. o \in Seq(Path)  BY <2>13
    <2>14. ASSUME /\ r \in Seq(Path)
                  /\ \A i \in DOMAIN r : r[i] \notin Skipped
                  /\ StaysInside(t) => Len(r) = Depth(t, n + 1) /\ \A i \in DOMAIN r : r[i] # Up
                  /\ ~ StaysInside(t) => r # <<>> /\ r[1] = Up
           PROVE  Walked(t, r)
      BY <2>3, <2>14, Zenon DEF Walked
    <2>9. CASE x \in Skipped
      <3>1. r = o  BY <2>7, <2>9 DEF CleanStep, r
      <3>2. Depth(t, n + 1) = Depth(p, n)  BY <2>4, <2>9
      <3>3. StaysInside(t) <=> StaysInside(p)  BY <2>5, <2>6, <3>2
      <3> QED  BY <2>13, <2>3, <3>1, <3>2, <3>3, <2>13, <2>14
    <2>10. CASE x = Up /\ o # <<>> /\ Last(o) # Up
      <3>1. r = Front(o)  BY <2>7, <2>10 DEF CleanStep, r
      <3>2. Depth(t, n + 1) = Depth(p, n) - 1  BY <2>4, <2>7, <2>10
      <3>3. /\ Len(o) \in Nat \ {0} /\ Front(o) \in Seq(Path) /\ Len(Front(o)) = Len(o) - 1
            /\ \A i \in 1..Len(o) - 1 : Front(o)[i] = o[i]
            /\ DOMAIN o = 1..Len(o) /\ DOMAIN Front(o) = 1..Len(o) - 1
            /\ Last(o) = o[Len(o)]
        BY <2>8, <2>10, FrontLast
      <3>4. CASE StaysInside(p)
        <4>1. Len(o) = Depth(p, n)  BY <2>13, <3>4 
        <4>2. StaysInside(t)  BY <2>6, <3>2, <3>3, <3>4, <4>1
        <4> QED  BY <2>13, <2>3, <3>1, <3>2, <3>3, <3>4, <4>1, <4>2, <2>13, <2>14
      <3>5. CASE ~ StaysInside(p)
        <4>1. ~ StaysInside(t) /\ o[1] = Up  BY <2>13, <2>6, <3>5 
        <4>2. Len(o) # 1  BY <2>10, <3>3, <4>1
        <4>3. Len(Front(o)) # 0 /\ Front(o) # <<>> /\ Front(o)[1] = Up
          BY <3>3, <4>1, <4>2
        <4> QED  BY <2>13, <3>1, <3>3, <4>1, <4>3, <2>13, <2>14
      <3> QED  BY <3>4, <3>5
    <2>11. CASE x \notin Skipped /\ ~ (x = Up /\ o # <<>> /\ Last(o) # Up)
      <3>1. r = Append(o, x)  BY <2>11 DEF CleanStep, r
      <3>2. /\ Append(o, x) \in Seq(Path) /\ Append(o, x) # <<>> /\ Len(o) \in Nat
            /\ Len(Append(o, x)) = Len(o) + 1 /\ DOMAIN o = 1..Len(o)
            /\ \A i \in 1..Len(o) : Append(o, x)[i] = o[i]
            /\ Append(o, x)[Len(o) + 1] = x /\ DOMAIN Append(o, x) = 1..Len(o) + 1
        BY <2>8, AppendProperties
      <3>3. \A i \in DOMAIN Append(o, x) : Append(o, x)[i] \notin Skipped
        BY <2>13, <2>11, <3>2 
      <3>4. CASE StaysInside(p) /\ x # Up
        <4>1. StaysInside(t) /\ Depth(t, n + 1) = Depth(p, n) + 1
          BY <2>4, <2>5, <2>6, <2>11, <3>4
        <4>2. Len(o) = Depth(p, n) /\ \A i \in DOMAIN o : o[i] # Up
          BY <2>13, <3>4 
        <4>3. \A i \in DOMAIN Append(o, x) : Append(o, x)[i] # Up
          BY <3>2, <3>4, <4>2
        <4> QED  BY <2>3, <3>1, <3>2, <3>3, <4>1, <4>2, <4>3, <2>13, <2>14
      <3>5. CASE StaysInside(p) /\ x = Up
        <4>1. o = <<>>
          <5>1. \A i \in DOMAIN o : o[i] # Up  BY <2>13, <3>5 
          <5>2. o # <<>> => Len(o) \in DOMAIN o /\ Last(o) = o[Len(o)]
            <6>1. DOMAIN o = 1..Len(o)  BY <2>8
            <6>2. o # <<>> => Len(o) \in Nat \ {0} /\ Last(o) = o[Len(o)]
              BY <2>8, FrontLast
            <6> QED  BY <6>1, <6>2
          <5> QED  BY <2>11, <3>5, <5>1, <5>2
        <4>2. Depth(p, n) = 0  BY <2>13, <3>5, <4>1 
        <4>3. ~ StaysInside(t)  BY <2>4, <2>6, <2>7, <3>5, <4>2
        <4>4. Append(o, x)[1] = Up  BY <3>2, <3>5, <4>1
        <4> QED  BY <3>1, <3>2, <3>3, <4>3, <4>4, <2>13, <2>14
      <3>6. CASE ~ StaysInside(p)
        <4>1. ~ StaysInside(t) /\ o # <<>> /\ o[1] = Up  BY <2>13, <2>6, <3>6 
        <4>2. Append(o, x)[1] = Up
          <5>1. Len(o) # 0  BY <2>8, <4>1, EmptySeq
          <5> QED  BY <3>2, <4>1, <5>1
        <4> QED  BY <3>1, <3>2, <3>3, <4>1, <4>2, <2>13, <2>14
      <3> QED  BY <3>4, <3>5, <3>6
    <2> QED  BY <2>9, <2>10, <2>11
  <1>4. T = Seq(Path)
    <2> HIDE DEF T
    <2> QED  BY <1>1, <1>2, <1>3, Cleaning!SeqSetInduction
  <1> QED  BY <1>4

LEMMA CharsOf ==
    /\ {"/", "\\", ".", "-", "a", "A", "7", " "} \subseteq Chars
    /\ Image \in Path /\ Stamp \in Path /\ Uploads \in Path
  BY DEF Chars, PathChars, Path, Image, Stamp, Uploads

LEMMA ReplaceType ==
    ASSUME NEW s \in Path, NEW old, NEW new \in Chars
    PROVE  /\ ReplaceAll(s, old, new) \in Path /\ Len(ReplaceAll(s, old, new)) = Len(s)
           /\ \A i \in 1..Len(s) : ReplaceAll(s, old, new)[i] = IF s[i] = old THEN new ELSE s[i]
  BY DEF ReplaceAll, Path

\* A path is typed character by character.
LEMMA NameType == NameInit /\ [][NameStep]_filename => [](filename \in Path)
  <1>1. NameInit => filename \in Path  BY DEF NameInit, Path
  <1>2. filename \in Path /\ [NameStep]_filename => (filename \in Path)'
    BY AppendProperties DEF NameStep, Path
  <1> QED  BY <1>1, <1>2, PTL

\* Whatever is typed, cleanImagePath takes it exactly if the walk stays inside
\* and ends below, and then resolveImagePath has nothing more to refuse.
THEOREM AlwaysAcceptsExactlyInside ==
    NameInit /\ [][NameStep]_filename => []AcceptsExactlyInside
  <1>1. filename \in Path => AcceptsExactlyInside
    <2> SUFFICES ASSUME filename \in Path PROVE AcceptsExactlyInside  OBVIOUS
    <2> DEFINE path == ReplaceAll(TrimSpace(filename), "\\", "/")
               parts == Split(path)
               cleaned == Clean(path)
               taken == cleanImagePath(filename)
    <2>1. path \in Path
      <3>1. TrimSpace(filename) \in Path  BY TrimProps DEF TrimSpace, Path
      <3> QED  BY <3>1, CharsOf, ReplaceType
    <2>2. parts \in Seq(Path) /\ parts # <<>>  BY <2>1, SplitType
    <2>3. Walked(parts, cleaned)  BY <2>2, CleanWalks, CleanFold
    <2>4. taken = IF path = <<>> \/ Head(path) = "/" \/ cleaned = <<>> \/ Head(cleaned) = Up
                  THEN Invalid ELSE cleaned
      BY Zenon DEF cleanImagePath
    <2> DEFINE n == Len(parts)
    <2>5. DOMAIN parts = 1..n /\ n \in Nat \ {0}  BY <2>2, EmptySeq
    <2>6. Depth(parts, n) \in Int
      <3>1. \A part \in Path : \A i \in 0..n : Depth(parts, i) \in Int  BY <2>2, DepthStep
      <3>2. n \in 0..n  BY <2>5
      <3> QED  BY <3>1, <3>2, CharsOf
    <2>7. AcceptsExactlyInside <=>
            /\ taken # Invalid <=> /\ path # <<>> /\ Head(path) # "/"
                                   /\ StaysInside(parts) /\ Depth(parts, n) >= 1
            /\ taken # Invalid => /\ Len(taken) = Depth(parts, n)
                                  /\ Up \notin Range(taken) /\ isPathWithinRoot(taken)
      BY Zenon DEF AcceptsExactlyInside, StaysInside
    <2> HIDE DEF path, parts, cleaned, taken, n
    <2>8. /\ cleaned \in Seq(Path)
          /\ StaysInside(parts) => Len(cleaned) = Depth(parts, n) /\ \A i \in DOMAIN cleaned : cleaned[i] # Up
          /\ ~ StaysInside(parts) => cleaned # <<>> /\ cleaned[1] = Up
      BY <2>3 DEF Walked, n
    <2>9. cleaned # <<>> => /\ Head(cleaned) = cleaned[1] /\ 1 \in DOMAIN cleaned
                            /\ Len(cleaned) \in Nat \ {0}
      BY <2>8, EmptySeq
    <2>10. cleaned = <<>> => Len(cleaned) = 0  OBVIOUS
    <2>11. CASE StaysInside(parts)
      <3>1. cleaned = <<>> \/ Head(cleaned) = Up <=> ~ (Depth(parts, n) >= 1)
        BY <2>6, <2>8, <2>9, <2>10, <2>11
      <3>2. Up \notin Range(cleaned)  BY <2>8, <2>11 DEF Range
      <3>3. cleaned # <<>> => isPathWithinRoot(cleaned)
        BY <2>8, <2>9, <2>11 DEF isPathWithinRoot
      <3> QED  BY <2>4, <2>7, <2>8, <2>11, <3>1, <3>2, <3>3 DEF Invalid
    <2>12. CASE ~ StaysInside(parts)
      BY <2>4, <2>7, <2>8, <2>9, <2>12
    <2> QED  BY <2>11, <2>12
  <1> QED  BY <1>1, NameType, PTL

-----------------------------------------------------------------------------
(* What a name becomes.                                                    *)

NoDot(s) == \A i \in DOMAIN s : s[i] # "."
OneDot(s) == \A i \in DOMAIN s, k \in DOMAIN s : s[i] = "." /\ s[k] = "." => i = k

LEMMA DotsOfConcat ==
    ASSUME NEW s \in Path, NEW t \in Path, NoDot(s)
    PROVE  s \o t \in Path /\ (OneDot(t) => OneDot(s \o t)) /\ (NoDot(t) => NoDot(s \o t))
  <1>1. /\ s \o t \in Path /\ Len(s \o t) = Len(s) + Len(t)
        /\ \A i \in 1..Len(s) + Len(t) : (s \o t)[i] = IF i <= Len(s) THEN s[i] ELSE t[i - Len(s)]
    BY ConcatProperties DEF Path
  <1>2. /\ Len(s) \in Nat /\ Len(t) \in Nat /\ DOMAIN s = 1..Len(s) /\ DOMAIN t = 1..Len(t)
        /\ DOMAIN (s \o t) = 1..Len(s) + Len(t)
    BY <1>1 DEF Path
  <1>3. ASSUME NEW i \in 1..Len(s) + Len(t), (s \o t)[i] = "."
        PROVE  i - Len(s) \in 1..Len(t) /\ t[i - Len(s)] = "."
    BY <1>1, <1>2, <1>3 DEF NoDot
  <1>4. OneDot(t) => OneDot(s \o t)
    <2> SUFFICES ASSUME OneDot(t), NEW i \in 1..Len(s) + Len(t), NEW k \in 1..Len(s) + Len(t),
                        (s \o t)[i] = ".", (s \o t)[k] = "."
                 PROVE  i = k
      BY <1>2 DEF OneDot
    <2>1. /\ i - Len(s) \in DOMAIN t /\ t[i - Len(s)] = "."
          /\ k - Len(s) \in DOMAIN t /\ t[k - Len(s)] = "."
      BY <1>2, <1>3
    <2>2. i - Len(s) = k - Len(s)  BY <2>1 DEF OneDot
    <2> QED  BY <1>2, <2>2
  <1>5. NoDot(t) => NoDot(s \o t)
    BY <1>2, <1>3 DEF NoDot
  <1> QED  BY <1>1, <1>4, <1>5

\* A slug is made of letters, digits and dashes.
Slugs == Seq({"a", "7", "-"})

LEMMA SlugFold ==
    \A s : FoldLeft(SlugStep, <<>>, s) = Slugging!Fold(<<>>, s)
  BY Zenon DEF FoldLeft, MapThenFoldSet, Max, Slugging!Fold, Slugging!FoldLeft,
               Slugging!MapThenFoldSet, Slugging!Max

LEMMA SlugFoldType == \A s \in Path : Slugging!Fold(<<>>, s) \in Slugs
  <1>1. <<>> \in Slugs  BY DEF Slugs
  <1>2. ASSUME NEW a \in Slugs, NEW x \in Chars PROVE SlugStep(a, x) \in Slugs
    BY AppendProperties DEF SlugStep, Slugs
  <1>3. \A s \in Seq(Chars) : Slugging!Fold(<<>>, s) \in Slugs
    BY <1>1, <1>2, Slugging!FoldType
  <1> QED  BY <1>3 DEF Path

LEMMA TrimType == ASSUME NEW s \in Path, NEW c PROVE Trim(s, c) \in Path
  BY TrimProps DEF Path

LEMMA SlugFilenameType == \A s \in Path : slugFilename(s) \in Slugs
  <1> SUFFICES ASSUME NEW s \in Path PROVE slugFilename(s) \in Slugs  OBVIOUS
  <1> DEFINE u == ToLower(TrimSpace(s))
  <1>1. u \in Path
    <2>1. TrimSpace(s) \in Path  BY TrimType DEF TrimSpace
    <2> QED  BY <2>1, ReplaceType, CharsOf DEF ToLower
  <1> HIDE DEF u
  <1>2. Slugging!Fold(<<>>, u) \in Slugs  BY <1>1, SlugFoldType
  <1>3. Trim(Slugging!Fold(<<>>, u), "-") \in Slugs  BY <1>2, TrimProps DEF Slugs
  <1> QED  BY <1>3, SlugFold DEF slugFilename, u

LEMMA SlugsArePaths == \A s \in Slugs : s \in Path /\ NoDot(s)
  <1> SUFFICES ASSUME NEW s \in Slugs PROVE s \in Path /\ NoDot(s)  OBVIOUS
  <1>1. \A i \in 1..Len(s) : s[i] \in {"a", "7", "-"}  BY DEF Slugs
  <1>2. \A c \in {"a", "7", "-"} : c \in Chars /\ c # "."  BY CharsOf
  <1>3. s \in [1..Len(s) -> Chars] /\ Len(s) \in Nat /\ DOMAIN s = 1..Len(s)
    BY <1>1, <1>2 DEF Slugs
  <1> QED  BY <1>1, <1>2, <1>3 DEF NoDot, Path

\* A part of a sequence.
LEMMA Middle ==
    ASSUME NEW s \in Path, NEW m \in 1..Len(s) + 1, NEW n \in 0..Len(s)
    PROVE  /\ SubSeq(s, m, n) \in Path
           /\ Len(SubSeq(s, m, n)) = IF m <= n THEN n - m + 1 ELSE 0
           /\ \A i \in 1..n - m + 1 : SubSeq(s, m, n)[i] = s[m + i - 1]
  <1>1. Len(s) \in Nat /\ \A i \in 1..Len(s) : s[i] \in Chars  BY DEF Path
  <1>2. m \in Int /\ n \in Int /\ \A i \in m..n : s[i] \in Chars  BY <1>1
  <1> QED  BY <1>2, SubSeqProperties DEF Path

LEMMA BaseNameType == \A s \in Path : BaseName(s) \in Path
  <1> SUFFICES ASSUME NEW s \in Path PROVE BaseName(s) \in Path  OBVIOUS
  <1> DEFINE u == TrimSpace(s)
             l == SelectLastInSeq(u, LAMBDA x : x # "/")
             t == SubSeq(u, 1, l)
             k == LastIndex(t, "/")
  <1>1. u \in Path  BY TrimType DEF TrimSpace
  <1> HIDE DEF u
  <1>2. l \in 0..Len(u)
    <2>1. u \in Seq(Chars)  BY <1>1 DEF Path
    <2>2. /\ l \in 0..Len(u)
          /\ l = 0 <=> \A i \in 1..Len(u) : u[i] = "/"
          /\ l # 0 => u[l] # "/" /\ \A i \in 1..Len(u) : i > l => u[i] = "/"
      BY <2>1, LastOther
    <2> QED  BY <2>2
  <1>3. Len(u) \in Nat /\ 1 \in 1..Len(u) + 1  BY <1>1 DEF Path
  <1> HIDE DEF l
  <1>4. t \in Path  BY <1>1, <1>2, <1>3, Middle
  <1> HIDE DEF t
  <1>5. Len(t) \in Nat /\ k \in 0..Len(t)  BY <1>4, LastOne DEF Path
  <1> HIDE DEF k
  <1>6. k + 1 \in 1..Len(t) + 1 /\ Len(t) \in 0..Len(t)  BY <1>5
  <1>7. SubSeq(t, k + 1, Len(t)) \in Path  BY <1>4, <1>6, Middle
  <1>8. Base(u) = IF u = <<>> THEN <<".">> ELSE IF t = <<>> THEN <<"/">>
                  ELSE SubSeq(t, k + 1, Len(t))
    BY DEF Base, t, l, k
  <1>9. <<".">> \in Path /\ <<"/">> \in Path /\ Image \in Path
    <2>1. "." \in Chars /\ "/" \in Chars /\ "a" \in Chars  BY CharsOf
    <2>2. \A c \in Chars : <<c>> \in Seq(Chars)  OBVIOUS
    <2> QED  BY <2>1, <2>2 DEF Image, Path
  <1>10. Base(u) \in Path  BY <1>7, <1>8, <1>9
  <1> QED  BY <1>9, <1>10 DEF BaseName, u

\* An extension has one dot, its first character.
LEMMA ExtType ==
    \A s \in Path : Ext(s) \in Path /\ OneDot(Ext(s)) /\ (Ext(s) # <<>> => Ext(s)[1] = ".")
  <1> SUFFICES ASSUME NEW s \in Path
               PROVE  Ext(s) \in Path /\ OneDot(Ext(s)) /\ (Ext(s) # <<>> => Ext(s)[1] = ".")
    OBVIOUS
  <1> DEFINE l == LastIndex(s, ".")
             n == Len(s)
  <1>1. /\ l \in 0..n
        /\ l # 0 => s[l] = "." /\ \A i \in 1..n : i > l => s[i] # "."
    BY LastOne DEF Path
  <1>2. n \in Nat  BY DEF Path
  <1>3. Ext(s) = IF l = 0 THEN <<>> ELSE SubSeq(s, l, n)  BY DEF Ext
  <1> HIDE DEF l, n
  <1>4. CASE l = 0
    <2>1. Ext(s) = <<>> /\ <<>> \in Path /\ DOMAIN <<>> = {}  BY <1>3, <1>4 DEF Path
    <2> QED  BY <2>1 DEF OneDot
  <1>5. CASE l # 0
    <2>1. l \in 1..n /\ n \in 0..n /\ l \in 1..n + 1 /\ l <= n  BY <1>1, <1>2, <1>5
    <2> DEFINE e == SubSeq(s, l, n)
    <2>2. /\ e \in Path /\ Len(e) = n - l + 1
          /\ \A i \in 1..n - l + 1 : e[i] = s[l + i - 1]
      BY <2>1, Middle DEF n
    <2>3. DOMAIN e = 1..n - l + 1  BY <2>2 DEF Path
    <2> HIDE DEF e
    <2>4. e[1] = "."  BY <1>1, <2>1, <2>2
    <2>5. ASSUME NEW i \in 1..n - l + 1, e[i] = "." PROVE i = 1
      <3>1. l + i - 1 \in 1..n /\ (i # 1 => l + i - 1 > l)  BY <2>1, <1>2
      <3> QED  BY <1>1, <2>1, <2>2, <2>5, <3>1
    <2>6. OneDot(e)  BY <2>3, <2>5 DEF OneDot
    <2> QED  BY <1>3, <1>5, <2>2, <2>4, <2>6 DEF e
  <1> QED  BY <1>4, <1>5

LEMMA ReplaceKeepsDots ==
    ASSUME NEW s \in Path, NEW old, NEW new \in Chars, old # ".", new # ".", OneDot(s)
    PROVE  OneDot(ReplaceAll(s, old, new))
  <1> DEFINE r == ReplaceAll(s, old, new)
  <1>1. /\ r \in Path /\ Len(r) = Len(s)
        /\ \A i \in 1..Len(s) : r[i] = IF s[i] = old THEN new ELSE s[i]
    BY ReplaceType
  <1> HIDE DEF r
  <1>2. DOMAIN r = 1..Len(s) /\ DOMAIN s = 1..Len(s)  BY <1>1 DEF Path
  <1>3. OneDot(r)  BY <1>1, <1>2 DEF OneDot
  <1> QED  BY <1>3 DEF r

LEMMA DotWord ==
    LET d == Append(<<".">>, "a")
    IN  <<".">> \o <<"a">> = d /\ d \in Path /\ Len(d) = 2 /\ d[1] = "." /\ d[2] = "a"
  <1>1. <<".">> \in Seq(Chars) /\ "a" \in Chars /\ Len(<<".">>) = 1 /\ <<".">>[1] = "."
    BY DEF Chars, PathChars
  <1> QED  BY <1>1, AppendProperties, AppendIsConcat DEF Path

\* What every stored path begins with.
Timed == Append(Append(Append(<<"a">>, "/"), "7"), "-")

LEMMA TimedProps ==
    /\ Timed = Uploads \o <<"/">> \o Stamp \o <<"-">>
    /\ Timed \in Path /\ Len(Timed) = 4
    /\ Timed[1] = "a" /\ Timed[2] = "/" /\ Timed[3] = "7" /\ Timed[4] = "-"
  <1> DEFINE u == <<"a">>
             v == Append(u, "/")
             w == Append(v, "7")
  <1>1. {"a", "/", "7", "-"} \subseteq Chars  BY CharsOf
  <1>2. u \in Seq(Chars) /\ Len(u) = 1 /\ u[1] = "a"  BY DEF Chars, PathChars
  <1> HIDE DEF u
  <1>8. "a" \in Chars /\ "/" \in Chars /\ "7" \in Chars /\ "-" \in Chars  BY <1>1
  <1>3. /\ v \in Seq(Chars) /\ Len(v) = 2 /\ v[1] = "a" /\ v[2] = "/" /\ v = u \o <<"/">>
    <2>1. v = u \o <<"/">>  BY <1>2, <1>8, AppendIsConcat
    <2>2. /\ v \in Seq(Chars) /\ Len(v) = Len(u) + 1
          /\ \A i \in 1..Len(u) : v[i] = u[i]
          /\ v[Len(u) + 1] = "/"
      <3>1. ASSUME NEW x \in Chars
            PROVE  /\ Append(u, x) \in Seq(Chars) /\ Len(Append(u, x)) = Len(u) + 1
                   /\ \A i \in 1..Len(u) : Append(u, x)[i] = u[i]
                   /\ Append(u, x)[Len(u) + 1] = x
        <4>1. u \in Seq(Chars)  BY <1>2
        <4> QED  BY <4>1, AppendProperties
      <3> QED  BY <1>8, <3>1
    <2> HIDE DEF v
    <2> QED  BY <1>2, <2>1, <2>2
  <1> HIDE DEF v
  <1>4. /\ w \in Seq(Chars) /\ Len(w) = 3 /\ w[1] = "a" /\ w[2] = "/" /\ w[3] = "7"
        /\ w = v \o <<"7">>
    BY <1>8, <1>3, AppendProperties, AppendIsConcat
  <1> HIDE DEF w
  <1> DEFINE t == Append(w, "-")
  <1>5. /\ t \in Seq(Chars) /\ Len(t) = 4
        /\ t[1] = "a" /\ t[2] = "/" /\ t[3] = "7" /\ t[4] = "-"
        /\ t = w \o <<"-">>
    BY <1>8, <1>4, AppendProperties, AppendIsConcat
  <1> HIDE DEF t
  <1>6. t = Timed  BY DEF t, w, v, u, Timed
  <1>7. t = Uploads \o <<"/">> \o Stamp \o <<"-">>
    BY <1>3, <1>4, <1>5 DEF u, Uploads, Stamp
  <1> QED  BY <1>5, <1>6, <1>7 DEF Path

\* The path made of a name: uploads, a slash, the time, a dash, and after that
\* one dot at most.
LEMMA StoredShape ==
    ASSUME NEW name \in Path
    PROVE  LET rest == Slug(name) \o StoredExt(name)
           IN  /\ Slug(name) \in Slugs /\ StoredExt(name) \in Path
               /\ rest \in Path /\ OneDot(rest)
               /\ buildStoredImagePath(name) = Timed \o rest
  <1> DEFINE rest == Slug(name) \o StoredExt(name)
  <1>1. Slug(name) \in Slugs
    <2>1. BaseName(name) \in Path  BY BaseNameType
    <2> DEFINE b == BaseName(name)
               x == ToLower(Ext(b))
    <2>2. TrimSuffix(b, x) \in Path
      <3>1. CASE ~ IsSuffix(x, b)  BY <2>1, <3>1 DEF TrimSuffix
      <3>2. CASE IsSuffix(x, b)
        <4>1. x \in Path  BY <2>1, ExtType, ReplaceType, CharsOf DEF ToLower
        <4> HIDE DEF x, b
        <4>2. Len(x) \in Nat /\ Len(b) \in Nat  BY <2>1, <4>1 DEF Path, b
        <4>3. Len(x) <= Len(b)  BY <4>1, <4>2, <3>2, <2>1 DEF IsSuffix, IsPrefix, Reverse, b, Path
        <4>4. Len(b) - Len(x) \in 0..Len(b) /\ 1 \in 1..Len(b) + 1  BY <4>2, <4>3
        <4>5. SubSeq(b, 1, Len(b) - Len(x)) \in Path  BY <2>1, <4>4, Middle DEF b
        <4> QED  BY <3>2, <4>5 DEF TrimSuffix
      <3> QED  BY <3>1, <3>2
    <2> HIDE DEF x
    <2>3. slugFilename(TrimSuffix(b, x)) \in Slugs  BY <2>2, SlugFilenameType
    <2>4. Image \in Slugs  BY DEF Image, Slugs
    <2> QED  BY <2>3, <2>4 DEF Slug, x
  <1>2. StoredExt(name) \in Path /\ OneDot(StoredExt(name))
    <2> DEFINE e == Ext(BaseName(name))
    <2>1. e \in Path /\ OneDot(e)  BY BaseNameType, ExtType
    <2> HIDE DEF e
    <2>2. ToLower(e) \in Path /\ OneDot(ToLower(e))
      BY <2>1, ReplaceType, ReplaceKeepsDots, CharsOf DEF ToLower
    <2> DEFINE d == <<".">> \o Image
    <2>3. d = Append(<<".">>, "a")  BY DotWord DEF Image
    <2>4. d \in Path /\ OneDot(d)
      <3>1. d \in Path /\ Len(d) = 2 /\ d[1] = "." /\ d[2] = "a"  BY <2>3, DotWord
      <3> HIDE DEF d
      <3>2. DOMAIN d = 1..2  BY <3>1 DEF Path
      <3>3. \A i \in 1..2 : d[i] = "." => i = 1  BY <3>1
      <3> QED  BY <3>1, <3>2, <3>3 DEF OneDot
    <2> QED  BY <2>2, <2>3, <2>4 DEF StoredExt, e
  <1>3. rest \in Path /\ OneDot(rest)
    BY <1>1, <1>2, SlugsArePaths, DotsOfConcat
  <1>4. buildStoredImagePath(name) = Timed \o rest
    <2>1. Uploads \o <<"/">> \o Stamp \o <<"-">> = Timed /\ Timed \in Seq(Chars)
      BY TimedProps DEF Path
    <2>2. Slug(name) \in Seq(Chars) /\ StoredExt(name) \in Seq(Chars)
      BY <1>1, <1>2, SlugsArePaths DEF Path
    <2>3. (Timed \o Slug(name)) \o StoredExt(name) = Timed \o rest
      BY <2>1, <2>2, ConcatAssociative
    <2> QED  BY <2>1, <2>3 DEF buildStoredImagePath
  <1> QED  BY <1>1, <1>2, <1>3, <1>4

-----------------------------------------------------------------------------
(* What the path made of a name becomes.                                   *)

\* A character opens a part or is added to the last one.
LEMMA OpensPart ==
    ASSUME NEW ps \in Seq(Path)
    PROVE  LET q == SplitStep(ps, "/")
           IN  /\ q \in Seq(Path) /\ Len(q) = Len(ps) + 1
               /\ \A j \in 1..Len(ps) : q[j] = ps[j]
               /\ q[Len(ps) + 1] = <<>>
  <1>1. <<>> \in Path  BY DEF Path
  <1> QED  BY <1>1, AppendProperties DEF SplitStep

LEMMA AddsToPart ==
    ASSUME NEW ps \in Seq(Path), ps # <<>>, NEW x \in Chars, x # "/"
    PROVE  LET q == SplitStep(ps, x)
           IN  /\ q \in Seq(Path) /\ Len(q) = Len(ps) /\ ps[Len(ps)] \in Path
               /\ \A j \in 1..Len(ps) - 1 : q[j] = ps[j]
               /\ q[Len(ps)] = Append(ps[Len(ps)], x)
  <1> DEFINE n == Len(ps)
             q == SplitStep(ps, x)
             f == Front(ps)
             p == Append(ps[n], x)
  <1>1. /\ n \in Nat \ {0} /\ f \in Seq(Path) /\ Len(f) = n - 1
        /\ \A i \in 1..n - 1 : f[i] = ps[i]
        /\ Last(ps) \in Path /\ Last(ps) = ps[n]
    BY FrontLast
  <1>2. p \in Path  BY <1>1 DEF Path
  <1>3. q = Append(f, p)  BY <1>1 DEF SplitStep
  <1> HIDE DEF f, p, q, n
  <1>4. /\ q \in Seq(Path) /\ Len(q) = Len(f) + 1 /\ q[Len(f) + 1] = p
        /\ \A j \in 1..Len(f) : q[j] = f[j]
    <2>1. f \in Seq(Path)  BY <1>1
    <2> QED  BY <1>2, <1>3, <2>1, AppendProperties
  <1>5. n - 1 + 1 = n  BY <1>1
  <1>6. /\ q \in Seq(Path) /\ Len(q) = n /\ ps[n] \in Path /\ q[n] = p
        /\ \A j \in 1..n - 1 : q[j] = ps[j]
    BY <1>1, <1>4, <1>5
  <1> QED  BY <1>6 DEF p, q, n

LEMMA AppendDots ==
    ASSUME NEW s \in Path, NEW x \in Chars
    PROVE  /\ NoDot(Append(s, x)) <=> NoDot(s) /\ x # "."
           /\ OneDot(Append(s, x)) <=> IF x = "." THEN NoDot(s) ELSE OneDot(s)
  <1> DEFINE t == Append(s, x)
             n == Len(s)
  <1>1. /\ n \in Nat /\ DOMAIN s = 1..n /\ DOMAIN t = 1..n + 1
        /\ (\A i \in 1..n : t[i] = s[i]) /\ t[n + 1] = x
    BY AppendProperties DEF Path
  <1> HIDE DEF t, n
  <1>2. \A i \in 1..n + 1 : i \in 1..n \/ i = n + 1  BY <1>1
  <1>3. n + 1 \in 1..n + 1 /\ n + 1 \notin 1..n /\ \A i \in 1..n : i \in 1..n + 1  BY <1>1
  <1>4. NoDot(t) <=> NoDot(s) /\ x # "."  BY <1>1, <1>2, <1>3 DEF NoDot
  <1>5. ASSUME x = ".", OneDot(t) PROVE NoDot(s)
    BY <1>1, <1>3, <1>5 DEF OneDot, NoDot
  <1>6. ASSUME x = ".", NoDot(s) PROVE OneDot(t)
    BY <1>1, <1>2, <1>6 DEF OneDot, NoDot
  <1>7. ASSUME x # "." PROVE OneDot(t) <=> OneDot(s)
    BY <1>1, <1>2, <1>3, <1>7 DEF OneDot
  <1> QED  BY <1>4, <1>5, <1>6, <1>7 DEF t

\* What splitting does with the rest of a stored path.
Parted(t, ps) ==
    /\ ps \in Seq(Path) /\ Len(ps) >= 2 /\ ps[1] = Uploads
    /\ Len(ps[2]) >= 2 /\ ps[2][1] = "7" /\ ps[2][2] = "-"
    /\ NoDot(t) => \A j \in DOMAIN ps : NoDot(ps[j])
    /\ OneDot(t) => \A j \in DOMAIN ps : OneDot(ps[j])

LEMMA TimedParted ==
    LET ps == Splitting!Fold(<< <<>> >>, Timed)
    IN  Parted(<<>>, ps) /\ Len(ps) = 2 /\ ps[2] = Stamp \o <<"-">>
  <1> DEFINE p0 == << <<>> >>
             F(s) == Splitting!Fold(p0, s)
             s1 == <<"a">>
             s2 == Append(s1, "/")
             s3 == Append(s2, "7")
             e == Append(<<>>, "7")
             d == Append(e, "-")
  <1>1. "a" \in Chars /\ "/" \in Chars /\ "7" \in Chars /\ "-" \in Chars  BY CharsOf
  <1>2. <<>> \in Seq(Chars) /\ s1 \in Seq(Chars) /\ s1 = Append(<<>>, "a")
    <2>1. \A c \in Chars : <<c>> \in Seq(Chars) /\ <<>> \in Seq(Chars)
                           /\ Append(<<>>, c) = <<>> \o <<c>> /\ <<>> \o <<c>> = <<c>>
      BY AppendIsConcat, ConcatEmptySeq
    <2> QED  BY <1>1, <2>1
  <1>3. s2 \in Seq(Chars) /\ s3 \in Seq(Chars)  BY <1>1, <1>2, AppendProperties
  <1>4. F(<<>>) = p0  BY Splitting!FoldEmpty
  <1>5. /\ F(Append(<<>>, "a")) = SplitStep(F(<<>>), "a")
        /\ F(s2) = SplitStep(F(s1), "/") /\ F(s3) = SplitStep(F(s2), "7")
        /\ F(Timed) = SplitStep(F(s3), "-")
    <2>1. \A s \in Seq(Chars) : \A x \in Chars : F(Append(s, x)) = SplitStep(F(s), x)
      BY Splitting!FoldAppend
    <2> HIDE DEF F
    <2>2. Timed = Append(s3, "-")  BY DEF Timed
    <2> QED  BY <1>1, <1>2, <1>3, <2>1, <2>2
  <1>6. p0 \in Seq(Path) /\ p0 # <<>>  BY DEF Path
  <1>7. Len(p0) = 1 /\ p0[1] = <<>>  OBVIOUS
  <1> DEFINE p1 == F(s1)
             p2 == F(s2)
             p3 == F(s3)
             p4 == F(Timed)
  <1>8. p1 = SplitStep(p0, "a") /\ p2 = SplitStep(p1, "/") /\ p3 = SplitStep(p2, "7")
        /\ p4 = SplitStep(p3, "-")
    BY <1>2, <1>4, <1>5
  <1>9. "a" # "/" /\ "7" # "/" /\ "-" # "/"  OBVIOUS
  <1> HIDE DEF F, p0, p1, p2, p3, p4, s1, s2, s3
  <1>20. p1 \in Seq(Path) /\ p1 # <<>> /\ Len(p1) = 1 /\ p1[1] = s1
    <2>1. /\ p1 \in Seq(Path) /\ Len(p1) = Len(p0)
          /\ p1[Len(p0)] = Append(p0[Len(p0)], "a")
      BY <1>1, <1>6, <1>8, <1>9, AddsToPart
    <2>2. Len(p1) = 1 /\ p1[1] = Append(<<>>, "a")  BY <1>7, <2>1, Zenon
    <2>3. p1 # <<>>  BY <2>1, <2>2, EmptySeq
    <2> QED  BY <1>2, <2>1, <2>2, <2>3, Zenon
  <1>21. p2 \in Seq(Path) /\ p2 # <<>> /\ Len(p2) = 2 /\ p2[1] = s1 /\ p2[2] = <<>>
    <2>1. p1 \in Seq(Path) /\ p1 # <<>>  BY <1>20
    <2>2. /\ p2 \in Seq(Path) /\ Len(p2) = Len(p1) + 1
          /\ \A j \in 1..Len(p1) : p2[j] = p1[j]
          /\ p2[Len(p1) + 1] = <<>>
      BY <2>1, <1>8, OpensPart
    <2> QED  BY <1>20, <2>2
  <1>22. p3 \in Seq(Path) /\ p3 # <<>> /\ Len(p3) = 2 /\ p3[1] = s1 /\ p3[2] = e
    <2>1. p2 \in Seq(Path) /\ p2 # <<>>  BY <1>21
    <2>2. /\ p3 \in Seq(Path) /\ Len(p3) = Len(p2)
          /\ p3[Len(p2)] = Append(p2[Len(p2)], "7")
          /\ \A j \in 1..Len(p2) - 1 : p3[j] = p2[j]
      BY <2>1, <1>1, <1>8, <1>9, AddsToPart
    <2>3. Len(p3) = 2 /\ p3[2] = e /\ p3[1] = s1  BY <1>21, <2>2, 1 \in 1..2 - 1
    <2>4. p3 # <<>>  BY <2>2, <2>3, EmptySeq
    <2> QED  BY <2>2, <2>3, <2>4, Zenon
  <1>10. p4 \in Seq(Path) /\ Len(p4) = 2 /\ p4[1] = s1 /\ p4[2] = d
    <2>1. p3 \in Seq(Path) /\ p3 # <<>>  BY <1>22
    <2>2. /\ p4 \in Seq(Path) /\ Len(p4) = Len(p3)
          /\ p4[Len(p3)] = Append(p3[Len(p3)], "-")
          /\ \A j \in 1..Len(p3) - 1 : p4[j] = p3[j]
      BY <2>1, <1>1, <1>8, <1>9, AddsToPart
    <2>3. Len(p4) = 2 /\ p4[2] = d /\ p4[1] = s1  BY <1>22, <2>2, 1 \in 1..2 - 1
    <2> QED  BY <2>2, <2>3, Zenon
  <1>11. e \in Path /\ Len(e) = 1 /\ e[1] = "7" /\ NoDot(e) /\ OneDot(e)
    <2>1. <<>> \in Path /\ NoDot(<<>>) /\ OneDot(<<>>) /\ "7" # "."
      BY <1>2 DEF Path, NoDot, OneDot
    <2>2. NoDot(e) /\ OneDot(e)  BY <1>1, <2>1, AppendDots
    <2>3. Len(<<>>) = 0  OBVIOUS
    <2>4. e \in Seq(Chars) /\ Len(e) = 1 /\ e[1] = "7"
      BY <1>1, <1>2, <2>3, AppendProperties
    <2> QED  BY <2>2, <2>4 DEF Path
  <1> HIDE DEF e
  <1>12. d \in Path /\ Len(d) = 2 /\ d[1] = "7" /\ d[2] = "-" /\ NoDot(d) /\ OneDot(d)
    <2>1. "-" # "."  OBVIOUS
    <2>2. NoDot(d) /\ OneDot(d)  BY <1>1, <1>11, <2>1, AppendDots
    <2>3. d \in Seq(Chars) /\ Len(d) = 2 /\ d[1] = "7" /\ d[2] = "-"
      <3>1. e \in Seq(Chars)  BY <1>11 DEF Path
      <3>2. /\ d \in Seq(Chars) /\ Len(d) = Len(e) + 1 /\ d[Len(e) + 1] = "-"
            /\ \A i \in 1..Len(e) : d[i] = e[i]
        BY <1>1, <3>1, AppendProperties
      <3> HIDE DEF d
      <3> QED  BY <1>11, <3>2
    <2> QED  BY <2>2, <2>3 DEF Path
  <1>16. d = Stamp \o <<"-">>
    <2>1. \A c \in Chars : Append(<<>>, c) = <<c>>
      <3>1. ASSUME NEW c \in Chars PROVE Append(<<>>, c) = <<c>>
        <4>1. <<>> \in Seq(Chars) /\ <<c>> \in Seq(Chars)  BY <1>2
        <4> QED  BY <4>1, AppendIsConcat, ConcatEmptySeq
      <3> QED  BY <3>1
    <2>2. e = Stamp  BY <1>1, <2>1 DEF e, Stamp
    <2>3. e \in Seq(Chars)  BY <1>11 DEF Path
    <2>4. d = e \o <<"-">>  BY <1>1, <2>3, AppendIsConcat
    <2> QED  BY <2>2, <2>4
  <1> HIDE DEF d
  <1>13. NoDot(s1) /\ OneDot(s1)
    <2>1. <<>> \in Path /\ NoDot(<<>>) /\ OneDot(<<>>) /\ "a" # "."
      BY <1>2 DEF Path, NoDot, OneDot
    <2> QED  BY <1>1, <1>2, <2>1, AppendDots
  <1>14. \A j \in DOMAIN p4 : j = 1 \/ j = 2
    <2>1. DOMAIN p4 = 1..2  BY <1>10
    <2> QED  BY <2>1
  <1>15. Parted(<<>>, p4)
    BY <1>10, <1>12, <1>13, <1>14 DEF Parted, s1, Uploads
  <1>17. Len(p4) = 2 /\ p4[2] = Stamp \o <<"-">>  BY <1>10, <1>16
  <1> QED  BY <1>15, <1>17 DEF p4, F, p0

LEMMA RestParted ==
    \A t \in Path : Parted(t, Splitting!Fold(Splitting!Fold(<< <<>> >>, Timed), t))
  <1> DEFINE b == Splitting!Fold(<< <<>> >>, Timed)
             T == {t \in Path : Parted(t, Splitting!Fold(b, t))}
  <1> HIDE DEF b
  <1>1. T \in SUBSET Seq(Chars)  BY DEF Path
  <1>2. <<>> \in T
    <2>1. <<>> \in Path  BY DEF Path
    <2> QED  BY <2>1, TimedParted, Splitting!FoldEmpty DEF b
  <1>3. ASSUME NEW t \in T, NEW x \in Chars PROVE Append(t, x) \in T
    <2> DEFINE ps == Splitting!Fold(b, t)
               q == SplitStep(ps, x)
               u == Append(t, x)
               n == Len(ps)
    <2>1. t \in Path /\ Parted(t, ps) /\ u \in Path  BY AppendProperties DEF Path
    <2>2. Splitting!Fold(b, u) = q  BY <2>1, Splitting!FoldAppend DEF Path
    <2>3. SUFFICES Parted(u, q)  BY <2>1, <2>2
    <2>4. /\ NoDot(u) <=> NoDot(t) /\ x # "."
          /\ OneDot(u) <=> IF x = "." THEN NoDot(t) ELSE OneDot(t)
      BY <2>1, AppendDots
    <2>5. /\ ps \in Seq(Path) /\ n >= 2 /\ ps[1] = Uploads
          /\ Len(ps[2]) >= 2 /\ ps[2][1] = "7" /\ ps[2][2] = "-"
          /\ NoDot(t) => \A j \in DOMAIN ps : NoDot(ps[j])
          /\ OneDot(t) => \A j \in DOMAIN ps : OneDot(ps[j])
      BY <2>1 DEF Parted
    <2>6. ps # <<>>  BY <2>5
    <2>7. /\ q \in Seq(Path) /\ n \in Nat \ {0}
          /\ x = "/" => /\ Len(q) = n + 1 /\ q[n + 1] = <<>>
                        /\ \A j \in 1..n : q[j] = ps[j]
          /\ x # "/" => /\ Len(q) = n /\ ps[n] \in Path /\ q[n] = Append(ps[n], x)
                        /\ \A j \in 1..n - 1 : q[j] = ps[j]
      <3>1. n \in Nat \ {0}  BY <2>5, <2>6, EmptySeq
      <3>2. CASE x = "/"
        BY <2>5, <3>1, <3>2, OpensPart
      <3>3. CASE x # "/"
        BY <2>5, <2>6, <3>1, <3>3, AddsToPart
      <3> QED  BY <3>2, <3>3
    <2>8. DOMAIN ps = 1..n /\ DOMAIN q = 1..Len(q)  BY <2>5, <2>7
    <2> HIDE DEF ps, q, u, n
    <2>9. CASE x = "/"
      <3>1. NoDot(<<>>) /\ OneDot(<<>>)  BY DEF NoDot, OneDot
      <3>2. 1 \in 1..n /\ 2 \in 1..n /\ n + 1 >= 2  BY <2>5, <2>7
      <3>3. Len(q) >= 2 /\ q[1] = Uploads /\ Len(q[2]) >= 2 /\ q[2][1] = "7" /\ q[2][2] = "-"
        BY <2>5, <2>7, <2>9, <3>2
      <3>4. \A j \in DOMAIN q : (j \in DOMAIN ps /\ q[j] = ps[j]) \/ q[j] = <<>>
        BY <2>7, <2>8, <2>9
      <3>5. /\ NoDot(u) => \A j \in DOMAIN q : NoDot(q[j])
            /\ OneDot(u) => \A j \in DOMAIN q : OneDot(q[j])
        BY <2>4, <2>5, <2>9, <3>1, <3>4
      <3> QED  BY <2>7, <3>3, <3>5 DEF Parted
    <2>10. CASE x # "/"
      <3>1. /\ NoDot(q[n]) <=> NoDot(ps[n]) /\ x # "."
            /\ OneDot(q[n]) <=> IF x = "." THEN NoDot(ps[n]) ELSE OneDot(ps[n])
        <4>1. ps[n] \in Path /\ q[n] = Append(ps[n], x)  BY <2>7, <2>10
        <4> DEFINE p == ps[n]
        <4> HIDE DEF p
        <4>2. /\ NoDot(Append(p, x)) <=> NoDot(p) /\ x # "."
              /\ OneDot(Append(p, x)) <=> IF x = "." THEN NoDot(p) ELSE OneDot(p)
          BY <4>1, AppendDots DEF p
        <4> QED  BY <4>1, <4>2 DEF p
      <3>2. \A j \in DOMAIN q : j \in DOMAIN ps /\ (q[j] = ps[j] \/ j = n)
        BY <2>7, <2>8, <2>10
      <3>3. NoDot(t) => OneDot(t)  BY DEF NoDot, OneDot
      <3>4. NoDot(u) => \A j \in DOMAIN q : NoDot(q[j])
        BY <2>4, <2>5, <3>1, <3>2
      <3>5. OneDot(u) => \A j \in DOMAIN q : OneDot(q[j])
        BY <2>4, <2>5, <3>1, <3>2, <3>3
      <3>6. q[1] = Uploads  BY <2>5, <2>7, <2>10
      <3>7. Len(q[2]) >= 2 /\ q[2][1] = "7" /\ q[2][2] = "-"
        <4>1. CASE n = 2
          <5>1. ps[2] \in Seq(Chars) /\ q[2] = Append(ps[2], x)
            BY <2>7, <2>10, <4>1 DEF Path
          <5>2. /\ Len(q[2]) = Len(ps[2]) + 1 /\ Len(ps[2]) \in Nat
                /\ \A i \in 1..Len(ps[2]) : q[2][i] = ps[2][i]
            BY <5>1, AppendProperties
          <5> QED  BY <2>5, <5>2
        <4>2. CASE n # 2
          <5>1. 2 \in 1..n - 1  BY <2>5, <2>7, <4>2
          <5> QED  BY <2>5, <2>7, <2>10, <5>1
        <4> QED  BY <4>1, <4>2
      <3> QED  BY <2>5, <2>7, <2>10, <3>4, <3>5, <3>6, <3>7 DEF Parted
    <2> QED  BY <2>9, <2>10
  <1>4. T = Seq(Chars)
    <2> HIDE DEF T
    <2> QED  BY <1>1, <1>2, <1>3, Splitting!SeqSetInduction
  <1> QED  BY <1>4 DEF b, Path

\* Without a ".." cleaning removes nothing it has kept, and keeps every name.
Kept(parts, out) ==
    (\A j \in DOMAIN parts : parts[j] # Up) =>
        /\ out \in Seq(Path) /\ Len(out) <= Len(parts)
        /\ \A k \in 1..Len(parts) :
              (\A j \in 1..k : parts[j] \notin Skipped) => k <= Len(out) /\ out[k] = parts[k]

LEMMA CleanKeeps ==
    \A parts \in Seq(Path) : Kept(parts, Cleaning!Fold(<<>>, parts))
  <1> DEFINE out(p) == Cleaning!Fold(<<>>, p)
             T == {p \in Seq(Path) : Kept(p, out(p))}
  <1>1. T \in SUBSET Seq(Path)  OBVIOUS
  <1>2. <<>> \in T
    <2>1. out(<<>>) = <<>>  BY Cleaning!FoldEmpty
    <2>2. <<>> \in Seq(Path) /\ Len(<<>>) = 0  OBVIOUS
    <2>3. Kept(<<>>, <<>>)  BY <2>2 DEF Kept
    <2> QED  BY <2>1, <2>2, <2>3
  <1>3. ASSUME NEW p \in T, NEW x \in Path PROVE Append(p, x) \in T
    <2> DEFINE t == Append(p, x)
               n == Len(p)
               o == out(p)
               r == CleanStep(o, x)
    <2>1. p \in Seq(Path) /\ t \in Seq(Path) /\ Kept(p, o)  BY AppendProperties
    <2>2. out(t) = r  BY <2>1, Cleaning!FoldAppend
    <2>3. SUFFICES Kept(t, r)  BY <2>1, <2>2
    <2>4. /\ n \in Nat /\ DOMAIN p = 1..n /\ DOMAIN t = 1..n + 1 /\ Len(t) = n + 1
          /\ (\A i \in 1..n : t[i] = p[i]) /\ t[n + 1] = x
      BY <2>1, AppendProperties
    <2>5. SUFFICES ASSUME \A j \in DOMAIN t : t[j] # Up
                   PROVE  /\ r \in Seq(Path) /\ Len(r) <= n + 1
                          /\ \A k \in 1..n + 1 : (\A j \in 1..k : t[j] \notin Skipped) =>
                                k <= Len(r) /\ r[k] = t[k]
      BY <2>4, Zenon DEF Kept
    <2>6. x # Up /\ \A j \in DOMAIN p : p[j] # Up  BY <2>4, <2>5
    <2>7. /\ o \in Seq(Path) /\ Len(o) <= n
          /\ \A k \in 1..n : (\A j \in 1..k : p[j] \notin Skipped) =>
                k <= Len(o) /\ o[k] = p[k]
      BY <2>1, <2>6 DEF Kept
    <2> HIDE DEF t, n, o, r
    <2>8. Len(o) \in Nat  BY <2>7
    <2>9. ASSUME NEW k \in 1..n, \A j \in 1..k : t[j] \notin Skipped
          PROVE  k <= Len(o) /\ o[k] = t[k]
      <3>1. \A j \in 1..k : j \in 1..n /\ t[j] = p[j]  BY <2>4
      <3>2. \A j \in 1..k : p[j] \notin Skipped  BY <2>9, <3>1
      <3> QED  BY <2>4, <2>7, <3>2
    <2>10. CASE x \in Skipped
      <3>1. r = o  BY <2>6, <2>10 DEF CleanStep, r
      <3>2. \A k \in 1..n + 1 : k \in 1..n \/ k = n + 1  BY <2>4
      <3>3. n + 1 \in 1..n + 1 /\ t[n + 1] \in Skipped  BY <2>4, <2>10
      <3> QED  BY <2>4, <2>7, <2>8, <2>9, <3>1, <3>2, <3>3
    <2>11. CASE x \notin Skipped
      <3>1. r = Append(o, x)  BY <2>6, <2>11 DEF CleanStep, r
      <3>2. /\ r \in Seq(Path) /\ Len(r) = Len(o) + 1 /\ r[Len(o) + 1] = x
            /\ \A i \in 1..Len(o) : r[i] = o[i]
        BY <2>7, <3>1, AppendProperties
      <3>3. ASSUME NEW k \in 1..n + 1, \A j \in 1..k : t[j] \notin Skipped
            PROVE  k <= Len(r) /\ r[k] = t[k]
        <4>1. CASE k \in 1..n
          BY <2>8, <2>9, <3>2, <3>3, <4>1
        <4>2. CASE k = n + 1
          <5>1. n # 0 => n \in 1..n /\ \A j \in 1..n : t[j] \notin Skipped
            BY <2>4, <3>3, <4>2
          <5>2. n # 0 => n <= Len(o)  BY <2>9, <5>1
          <5>3. Len(o) = n  BY <2>4, <2>7, <2>8, <5>2
          <5> QED  BY <2>4, <3>2, <4>2, <5>3
        <4> QED  BY <2>4, <4>1, <4>2
      <3> QED  BY <2>4, <2>7, <2>8, <3>2, <3>3
    <2> QED  BY <2>10, <2>11
  <1>4. T = Seq(Path)
    <2> HIDE DEF T
    <2> QED  BY <1>1, <1>2, <1>3, Cleaning!SeqSetInduction
  <1> QED  BY <1>4

\* Spaces at the end and backslashes in the rest leave the beginning as it is.
LEMMA NormalizedShape ==
    ASSUME NEW rest \in Path, OneDot(rest)
    PROVE  \E r \in Path :
              /\ OneDot(r)
              /\ ReplaceAll(TrimSpace(Timed \o rest), "\\", "/") = Timed \o r
  <1> DEFINE s == Timed \o rest
             u == TrimSpace(s)
             path == ReplaceAll(u, "\\", "/")
             m == Len(rest)
  <1>1. /\ m \in Nat /\ s \in Path /\ Len(s) = 4 + m
        /\ \A i \in 1..4 : s[i] = Timed[i]
        /\ \A i \in 1..m : s[4 + i] = rest[i]
    <2>1. /\ s \in Seq(Chars) /\ Len(s) = Len(Timed) + Len(rest)
          /\ \A i \in 1..Len(Timed) + Len(rest) :
                s[i] = IF i <= Len(Timed) THEN Timed[i] ELSE rest[i - Len(Timed)]
      BY TimedProps, ConcatProperties DEF Path
    <2>2. m \in Nat /\ Len(Timed) = 4  BY TimedProps DEF Path
    <2> HIDE DEF s, m
    <2>3. s \in Path /\ Len(s) = 4 + m  BY <2>1, <2>2 DEF Path, m
    <2>4. \A i \in 1..4 + m : s[i] = IF i <= 4 THEN Timed[i] ELSE rest[i - 4]
      BY <2>1, <2>2 DEF m
    <2>5. \A i \in 1..m : 4 + i \in 1..4 + m /\ ~ (4 + i <= 4) /\ 4 + i - 4 = i  BY <2>2
    <2>6. \A i \in 1..4 : i \in 1..4 + m /\ i <= 4  BY <2>2
    <2> QED  BY <2>2, <2>3, <2>4, <2>5, <2>6
  <1>2. s[1] = "a" /\ s[2] = "/" /\ s[3] = "7" /\ s[4] = "-"
    <2>1. 1 \in 1..4 /\ 2 \in 1..4 /\ 3 \in 1..4 /\ 4 \in 1..4  OBVIOUS
    <2> QED  BY <1>1, <2>1, TimedProps
  <1> HIDE DEF s, m
  <1>3. PICK l \in 4..4 + m : u = SubSeq(s, 1, l)
    <2>1. 1 \in 1..Len(s) /\ 4 \in 1..Len(s)  BY <1>1
    <2>2. u # <<>> /\ \E f \in 1..Len(s), l \in 1..Len(s) :
                         /\ f <= l /\ u = SubSeq(s, f, l)
                         /\ \A i \in 1..Len(s) : i < f \/ i > l => s[i] = " "
      <3>1. s \in Seq(Chars)  BY <1>1 DEF Path
      <3>2. ~ \A i \in 1..Len(s) : s[i] = " "  BY <1>2, <2>1
      <3> QED  BY <3>1, <3>2, TrimProps DEF TrimSpace
    <2>3. PICK f \in 1..Len(s), l \in 1..Len(s) :
                 /\ f <= l /\ u = SubSeq(s, f, l)
                 /\ \A i \in 1..Len(s) : i < f \/ i > l => s[i] = " "
      BY <2>2
    <2>4. ~ (1 < f) /\ ~ (4 > l)
      <3>1. s[1] # " " /\ s[4] # " "  BY <1>2
      <3> QED  BY <2>1, <2>3, <3>1
    <2>5. f = 1 /\ l \in 4..4 + m  BY <1>1, <2>4
    <2> QED  BY <2>3, <2>5
  <1>4. u \in Path /\ Len(u) = l /\ \A i \in 1..l : u[i] = s[i]
    <2>1. s \in Seq(Chars) /\ l \in 0..Len(s)  BY <1>1 DEF Path
    <2> QED  BY <1>3, <2>1, Prefix DEF Path
  <1> HIDE DEF u
  <1>5. path \in Path /\ Len(path) = l
        /\ \A i \in 1..l : path[i] = IF s[i] = "\\" THEN "/" ELSE s[i]
    <2>1. "/" \in Chars  BY CharsOf
    <2> QED  BY <1>4, <2>1, ReplaceType
  <1> HIDE DEF path
  <1> DEFINE r == SubSeq(path, 5, l)
  <1>6. r \in Path /\ Len(r) = l - 4 /\ \A i \in 1..l - 4 : r[i] = path[4 + i]
    <2>1. 5 \in 1..Len(path) + 1 /\ l \in 0..Len(path) /\ l \in Nat  BY <1>1, <1>5
    <2>2. /\ r \in Path /\ Len(r) = IF 5 <= l THEN l - 5 + 1 ELSE 0
          /\ \A i \in 1..l - 5 + 1 : r[i] = path[5 + i - 1]
      BY <1>5, <2>1, Middle
    <2>3. l - 5 + 1 = l - 4 /\ (~ (5 <= l) => l - 4 = 0)  BY <1>1, <2>1
    <2>4. \A i \in 1..l - 4 : 5 + i - 1 = 4 + i  BY <2>1
    <2> HIDE DEF r
    <2> QED  BY <2>2, <2>3, <2>4
  <1> HIDE DEF r
  <1>7. OneDot(r)
    <2>1. DOMAIN r = 1..l - 4 /\ DOMAIN rest = 1..m  BY <1>6 DEF Path, m
    <2>2. ASSUME NEW i \in 1..l - 4, r[i] = "." PROVE i \in DOMAIN rest /\ rest[i] = "."
      <3>1. 4 + i \in 1..l /\ i \in 1..m  BY <1>1
      <3>2. path[4 + i] = "."  BY <1>6, <2>2
      <3>3. s[4 + i] = "."  BY <1>5, <3>1, <3>2
      <3> QED  BY <1>1, <2>1, <3>1, <3>3
    <2> QED  BY <2>1, <2>2 DEF OneDot
  <1>8. path = Timed \o r
    <2> DEFINE q == Timed \o r
    <2>1. /\ q \in Seq(Chars) /\ Len(q) = Len(Timed) + Len(r)
          /\ \A i \in 1..Len(Timed) + Len(r) :
                q[i] = IF i <= Len(Timed) THEN Timed[i] ELSE r[i - Len(Timed)]
      BY <1>6, TimedProps, ConcatProperties DEF Path
    <2> HIDE DEF q
    <2>2. Len(Timed) = 4 /\ Len(r) = l - 4 /\ l \in Nat  BY <1>1, <1>6, TimedProps
    <2>3. Len(q) = l /\ \A i \in 1..l : q[i] = IF i <= 4 THEN Timed[i] ELSE r[i - 4]
      BY <2>1, <2>2
    <2>4. ASSUME NEW i \in 1..l PROVE path[i] = q[i]
      <3>1. CASE i <= 4
        <4>1. i = 1 \/ i = 2 \/ i = 3 \/ i = 4  BY <3>1
        <4>2. Timed[i] = s[i] /\ s[i] # "\\"  BY <1>2, <4>1, TimedProps
        <4> QED  BY <1>5, <2>3, <3>1, <4>2
      <3>2. CASE ~ (i <= 4)
        <4>1. i - 4 \in 1..l - 4 /\ 4 + (i - 4) = i  BY <2>2, <3>2
        <4>2. r[i - 4] = path[i]  BY <1>6, <4>1
        <4> QED  BY <2>3, <3>2, <4>2
      <3> QED  BY <3>1, <3>2
    <2>5. path \in Seq(Chars)  BY <1>5 DEF Path
    <2>6. path = q  BY <1>5, <2>1, <2>3, <2>4, <2>5, SeqEqual
    <2> QED  BY <2>6 DEF q
  <1> QED  BY <1>6, <1>7, <1>8 DEF path, u, s

\* What cleanImagePath makes of the path of a name.
StoredParts(name) ==
    LET stored == buildStoredImagePath(name)
        parts == Split(ReplaceAll(TrimSpace(stored), "\\", "/"))
        taken == cleanImagePath(stored)
    IN  /\ taken # Invalid /\ Len(taken) >= 2 /\ taken[1] = Uploads /\ taken[2] = parts[2]
        /\ parts[2] \in Path
        /\ Len(parts[2]) >= 2 /\ parts[2][1] = "7" /\ parts[2][2] = "-"

LEMMA NameIsTaken == \A name \in Path : StoredParts(name)
  <1> SUFFICES ASSUME NEW name \in Path PROVE StoredParts(name)  OBVIOUS
  <1> DEFINE stored == buildStoredImagePath(name)
             path == ReplaceAll(TrimSpace(stored), "\\", "/")
             parts == Split(path)
             cleaned == Clean(path)
             taken == cleanImagePath(stored)
  <1>1. PICK rest \in Path : OneDot(rest) /\ stored = Timed \o rest  BY StoredShape
  <1>2. PICK r \in Path : OneDot(r) /\ path = Timed \o r  BY <1>1, NormalizedShape
  <1>3. taken = IF path = <<>> \/ Head(path) = "/" \/ cleaned = <<>> \/ Head(cleaned) = Up
                THEN Invalid ELSE cleaned
    BY Zenon DEF cleanImagePath
  <1> HIDE DEF stored, path, taken
  <1>4. path # <<>> /\ Head(path) # "/"
    <2>1. /\ path \in Seq(Chars) /\ Len(path) = Len(Timed) + Len(r)
          /\ \A i \in 1..Len(Timed) + Len(r) :
                path[i] = IF i <= Len(Timed) THEN Timed[i] ELSE r[i - Len(Timed)]
      BY <1>2, TimedProps, ConcatProperties DEF Path
    <2>2. Len(r) \in Nat /\ Len(Timed) = 4 /\ Timed[1] = "a"  BY TimedProps DEF Path
    <2>3. path[1] = "a" /\ Len(path) # 0  BY <2>1, <2>2
    <2>4. path # <<>>  BY <2>1, <2>3, EmptySeq
    <2> QED  BY <2>1, <2>3, <2>4
  <1>5. Parted(r, parts)
    <2>1. \A s \in Seq(Chars) : Splitting!Fold(<< <<>> >>, Timed \o s)
                                  = Splitting!Fold(Splitting!Fold(<< <<>> >>, Timed), s)
      <3>1. Timed \in Seq(Chars)  BY TimedProps DEF Path
      <3> QED  BY <3>1, Splitting!FoldConcat
    <2>2. parts = Splitting!Fold(Splitting!Fold(<< <<>> >>, Timed), r)
      BY <1>2, <2>1, SplitFold DEF Path
    <2> QED  BY <2>2, RestParted
  <1> HIDE DEF parts
  <1>6. /\ parts \in Seq(Path) /\ Len(parts) >= 2 /\ parts[1] = Uploads
        /\ Len(parts[2]) >= 2 /\ parts[2][1] = "7" /\ parts[2][2] = "-"
        /\ \A j \in DOMAIN parts : OneDot(parts[j])
    BY <1>2, <1>5 DEF Parted
  <1>7. \A j \in DOMAIN parts : parts[j] # Up
    <2>1. DOMAIN Up = {1, 2} /\ Up[1] = "." /\ Up[2] = "."  BY DEF Up
    <2>2. ~ OneDot(Up)  BY <2>1 DEF OneDot
    <2> QED  BY <1>6, <2>2
  <1>8. Kept(parts, cleaned)  BY <1>6, CleanKeeps, CleanFold DEF parts
  <1> HIDE DEF cleaned
  <1>9. /\ cleaned \in Seq(Path)
         /\ \A k \in 1..Len(parts) : (\A j \in 1..k : parts[j] \notin Skipped) =>
               k <= Len(cleaned) /\ cleaned[k] = parts[k]
    BY <1>7, <1>8 DEF Kept
  <1>10. /\ parts[1] \notin Skipped /\ parts[1] # Up
         /\ parts[2] \notin Skipped
    <2>1. Len(<<"a">>) = 1 /\ <<"a">>[1] = "a" /\ <<".">>[1] = "." /\ Len(<<".">>) = 1
          /\ Len(<<>>) = 0 /\ Len(<<".", ".">>) = 2
      OBVIOUS
    <2>2. Uploads \notin Skipped /\ Uploads # Up
      BY <2>1 DEF Uploads, Skipped, Up
    <2>3. \A p \in Skipped : Len(p) \in {0, 1}  BY <2>1 DEF Skipped
    <2> QED  BY <1>6, <2>2, <2>3
  <1>11. Len(cleaned) >= 2 /\ cleaned[1] = Uploads /\ cleaned[2] = parts[2]
    <2>1. \A j \in 1..2 : j = 1 \/ j = 2  OBVIOUS
    <2>2. \A j \in 1..2 : parts[j] \notin Skipped  BY <1>10, <2>1
    <2>3. 1 \in 1..Len(parts) /\ 2 \in 1..Len(parts)  BY <1>6
    <2>4. \A j \in 1..1 : j \in 1..2  OBVIOUS
    <2> QED  BY <1>6, <1>9, <2>2, <2>3, <2>4
  <1>12. taken = cleaned /\ taken # Invalid
    <2>1. cleaned # <<>> /\ Head(cleaned) = cleaned[1]  BY <1>9, <1>11, EmptySeq
    <2> QED  BY <1>3, <1>4, <1>6, <1>10, <1>11, <2>1 DEF Invalid
  <1>13. parts[2] \in Path /\ Len(parts[2]) >= 2 /\ parts[2][1] = "7" /\ parts[2][2] = "-"
    <2>1. 2 \in 1..Len(parts)  BY <1>6
    <2> QED  BY <1>6, <2>1
  <1> QED  BY <1>11, <1>12, <1>13, Zenon DEF StoredParts, parts, path, taken, stored

\* Whatever a file is called, cleanImagePath takes the path that
\* buildStoredImagePath makes of the name, below uploads in a place of its time.
THEOREM AlwaysStoredPathTaken ==
    NameInit /\ [][NameStep]_filename => []StoredPathTaken
  <1>1. filename \in Path => StoredPathTaken
    <2> SUFFICES ASSUME filename \in Path PROVE StoredPathTaken  OBVIOUS
    <2> DEFINE stored == buildStoredImagePath(filename)
               parts == Split(ReplaceAll(TrimSpace(stored), "\\", "/"))
               taken == cleanImagePath(stored)
    <2>1. StoredPathTaken <=> /\ taken # Invalid /\ Len(taken) >= 2 /\ taken[1] = Uploads
                              /\ IsPrefix(Stamp \o <<"-">>, taken[2])
      BY Zenon DEF StoredPathTaken
    <2>2. /\ taken # Invalid /\ Len(taken) >= 2 /\ taken[1] = Uploads /\ taken[2] = parts[2]
          /\ parts[2] \in Path
          /\ Len(parts[2]) >= 2 /\ parts[2][1] = "7" /\ parts[2][2] = "-"
      BY NameIsTaken DEF StoredParts
    <2> HIDE DEF stored, parts, taken
    <2>3. IsPrefix(Stamp \o <<"-">>, parts[2])
      <3> DEFINE p == parts[2]
                 q == Stamp \o <<"-">>
      <3>1. p \in Path  BY <2>2
      <3>2. Stamp \in Seq(Chars) /\ "-" \in Chars /\ Len(Stamp) = 1 /\ Stamp[1] = "7"
        BY CharsOf DEF Stamp, Path
      <3>3. q = Append(Stamp, "-")
        BY <3>2, AppendIsConcat
      <3> HIDE DEF q
      <3>4. q \in Seq(Chars) /\ Len(q) = 2 /\ q[1] = "7" /\ q[2] = "-"
        <4>1. ASSUME NEW c \in Chars
              PROVE  /\ Append(Stamp, c) \in Seq(Chars)
                     /\ Len(Append(Stamp, c)) = Len(Stamp) + 1
                     /\ Append(Stamp, c)[Len(Stamp) + 1] = c
                     /\ \A i \in 1..Len(Stamp) : Append(Stamp, c)[i] = Stamp[i]
          <5>1. Stamp \in Seq(Chars)  BY <3>2
          <5> QED  BY <5>1, AppendProperties
        <4> QED  BY <3>2, <3>3, <4>1
      <3>5. /\ SubSeq(q, 1, 2) \in Seq(Chars) /\ Len(SubSeq(q, 1, 2)) = 2
            /\ \A i \in 1..2 : SubSeq(q, 1, 2)[i] = q[i]
        <4>1. 2 \in 0..Len(q)  BY <3>4
        <4> QED  BY <3>4, <4>1, Prefix
      <3>6. /\ SubSeq(p, 1, 2) \in Seq(Chars) /\ Len(SubSeq(p, 1, 2)) = 2
            /\ \A i \in 1..2 : SubSeq(p, 1, 2)[i] = p[i]
        <4>1. p \in Seq(Chars) /\ 2 \in 0..Len(p)  BY <2>2, <3>1 DEF Path
        <4> QED  BY <4>1, Prefix
      <3>7. \A i \in 1..2 : p[i] = q[i]
        <4>1. \A i \in 1..2 : i = 1 \/ i = 2  OBVIOUS
        <4> QED  BY <2>2, <3>4, <4>1
      <3>8. SubSeq(q, 1, 2) = SubSeq(p, 1, 2)
        BY <3>5, <3>6, <3>7, SeqEqual
      <3> QED  BY <2>2, <3>4, <3>8 DEF IsPrefix, q
    <2> QED  BY <2>1, <2>2, <2>3
  <1> QED  BY <1>1, NameType, PTL

-----------------------------------------------------------------------------
(* The words of a name.                                                    *)

Word == {"a", "7"}
Wordy(low) == {i \in DOMAIN low : low[i] \in Word}
CharAt(low, i) ==
    IF i \notin Wordy(low) THEN <<>>
    ELSE IF i - 1 \in Wordy(low) \/ \A j \in Wordy(low) : j >= i THEN <<low[i]>>
    ELSE <<"-", low[i]>>
Chopped(low) == [i \in DOMAIN low |-> CharAt(low, i)]
WordsIn(low) == FlattenSeq(Chopped(low))

LEMMA WordsOfLow == \A s : WordsOf(s) = WordsIn(ToLower(s))
  BY Zenon DEF WordsOf, WordsIn, Chopped, CharAt, Wordy, Word

LEMMA WordyFacts ==
    ASSUME NEW s \in Path, NEW x \in Chars
    PROVE  /\ Wordy(s) \in SUBSET (1..Len(s))
           /\ Wordy(Append(s, x)) = IF x \in Word THEN Wordy(s) \cup {Len(s) + 1} ELSE Wordy(s)
  <1> DEFINE t == Append(s, x)
             n == Len(s)
  <1>1. /\ n \in Nat /\ DOMAIN s = 1..n /\ DOMAIN t = 1..n + 1
        /\ (\A i \in 1..n : t[i] = s[i]) /\ t[n + 1] = x
    BY AppendProperties DEF Path
  <1> HIDE DEF t, n
  <1>2. \A i \in 1..n + 1 : i \in 1..n \/ i = n + 1  BY <1>1
  <1>3. n + 1 \in 1..n + 1 /\ \A i \in 1..n : i \in 1..n + 1  BY <1>1
  <1>4. Wordy(t) = {i \in 1..n + 1 : t[i] \in Word}  BY <1>1 DEF Wordy
  <1>5. Wordy(s) = {i \in 1..n : s[i] \in Word}  BY <1>1 DEF Wordy
  <1>6. Wordy(t) = IF x \in Word THEN Wordy(s) \cup {n + 1} ELSE Wordy(s)
    BY <1>1, <1>2, <1>3, <1>4, <1>5
  <1>7. Wordy(s) \in SUBSET (1..n)  BY <1>5
  <1> QED  BY <1>6, <1>7 DEF t, n

LEMMA ChoppedType == \A s \in Path : Chopped(s) \in Seq(Path) /\ Len(Chopped(s)) = Len(s)
  <1> SUFFICES ASSUME NEW s \in Path
               PROVE  Chopped(s) \in Seq(Path) /\ Len(Chopped(s)) = Len(s)
    OBVIOUS
  <1>1. /\ Len(s) \in Nat /\ DOMAIN s = 1..Len(s) /\ \A i \in 1..Len(s) : s[i] \in Chars
    BY DEF Path
  <1>2. \A c \in Chars : <<>> \in Path /\ <<c>> \in Path  BY DEF Path
  <1>3. \A c \in Chars : <<"-", c>> \in Path
    <2>1. \A c \in Chars : \A d \in Chars : <<d, c>> \in Path  BY DEF Path
    <2> QED  BY <2>1, CharsOf
  <1>4. \A i \in 1..Len(s) : CharAt(s, i) \in Path  BY <1>1, <1>2, <1>3 DEF CharAt
  <1> DEFINE c == [i \in 1..Len(s) |-> CharAt(s, i)]
  <1>5. Chopped(s) = c  BY <1>1 DEF Chopped
  <1>6. c \in Seq(Path) /\ Len(c) = Len(s)  BY <1>1, <1>4
  <1> QED  BY <1>5, <1>6

\* The last character of s belongs to a word.
EndsWordy(s) == Len(s) \in Wordy(s)

NextWords(s, x) ==
    IF x \notin Word THEN <<>>
    ELSE IF EndsWordy(s) \/ WordsIn(s) = <<>> THEN <<x>>
    ELSE <<"-", x>>

LEMMA WordsNone ==
    /\ WordsIn(<<>>) = <<>>
    /\ \A s \in Path : WordsIn(s) \in Path /\ (WordsIn(s) = <<>> <=> Wordy(s) = {})
  <1>1. WordsIn(<<>>) = <<>>
    <2>1. Chopped(<<>>) = <<>>
      <3>1. DOMAIN <<>> = {}  OBVIOUS
      <3>2. <<>> \in Path  BY DEF Path
      <3>3. Chopped(<<>>) \in Seq(Path) /\ Len(Chopped(<<>>)) = 0
        <4>1. Len(<<>>) = 0  OBVIOUS
        <4> QED  BY <3>2, <4>1, ChoppedType
      <3> QED  BY <3>3, EmptySeq
    <2>2. FlattenSeq(<<>>) = <<>>  BY FlattenFacts
    <2> QED  BY <2>1, <2>2 DEF WordsIn
  <1>2. ASSUME NEW s \in Path
        PROVE  WordsIn(s) \in Path /\ (WordsIn(s) = <<>> <=> Wordy(s) = {})
    <2> DEFINE c == Chopped(s)
               n == Len(s)
    <2>1. c \in Seq(Seq(Chars)) /\ Len(c) = n  BY ChoppedType DEF Path
    <2>2. FlattenSeq(c) \in Seq(Chars)
          /\ (FlattenSeq(c) = <<>> <=> \A i \in DOMAIN c : c[i] = <<>>)
      BY <2>1, FlattenFacts
    <2>3. /\ n \in Nat /\ DOMAIN s = 1..n  BY DEF Path
    <2>4. \A i \in 1..n : c[i] = CharAt(s, i)  BY <2>3 DEF Chopped
    <2>5. DOMAIN c = 1..n  BY <2>1
    <2>6. \A i \in 1..n : CharAt(s, i) = <<>> <=> i \notin Wordy(s)
      <3>1. \A a : <<a>> # <<>> /\ <<"-", a>> # <<>>  OBVIOUS
      <3> QED  BY <3>1, Zenon DEF CharAt
    <2>7. Wordy(s) \subseteq 1..n  BY <2>3 DEF Wordy
    <2> HIDE DEF c, n
    <2>8. (\A i \in DOMAIN c : c[i] = <<>>) <=> Wordy(s) = {}  BY <2>4, <2>5, <2>6, <2>7
    <2> QED  BY <2>2, <2>8 DEF WordsIn, c, Path
  <1> QED  BY <1>1, <1>2

\* A longer text has the same words, or one character more in them.
LEMMA WordsStep ==
    ASSUME NEW s \in Path, NEW x \in Chars
    PROVE  /\ WordsIn(Append(s, x)) = WordsIn(s) \o NextWords(s, x)
           /\ EndsWordy(Append(s, x)) <=> x \in Word
  <1> DEFINE t == Append(s, x)
             n == Len(s)
             c == Chopped(s)
             q == NextWords(s, x)
             d == Append(c, q)
             e == Chopped(t)
  <1>1. /\ n \in Nat /\ DOMAIN s = 1..n /\ DOMAIN t = 1..n + 1 /\ t \in Path /\ Len(t) = n + 1
        /\ (\A i \in 1..n : t[i] = s[i]) /\ t[n + 1] = x
    BY AppendProperties DEF Path
  <1>2. /\ Wordy(s) \in SUBSET (1..n)
        /\ Wordy(t) = IF x \in Word THEN Wordy(s) \cup {n + 1} ELSE Wordy(s)
    BY WordyFacts
  <1>3. EndsWordy(t) <=> x \in Word
    <2>1. n + 1 \notin 1..n  BY <1>1
    <2>2. EndsWordy(t) <=> n + 1 \in Wordy(t)  BY <1>1 DEF EndsWordy
    <2> HIDE DEF n, t
    <2> QED  BY <1>2, <2>1, <2>2
  <1>4. /\ c \in Seq(Path) /\ Len(c) = n /\ \A i \in 1..n : c[i] = CharAt(s, i)
    BY <1>1, ChoppedType DEF Chopped
  <1>5. e \in Seq(Path) /\ Len(e) = n + 1 /\ \A i \in 1..n + 1 : e[i] = CharAt(t, i)
    BY <1>1, ChoppedType DEF Chopped
  <1>6. EndsWordy(s) <=> n \in Wordy(s)  BY DEF EndsWordy
  <1>7. WordsIn(s) = <<>> <=> Wordy(s) = {}  BY WordsNone
  <1> HIDE DEF t, n, c, e
  <1>8. q \in Path
    <2>1. <<>> \in Path /\ <<x>> \in Path  BY DEF Path
    <2>2. <<"-", x>> \in Path
      <3>1. \A a \in Chars : <<a, x>> \in Path  BY DEF Path
      <3> QED  BY <3>1, CharsOf
    <2> QED  BY <2>1, <2>2 DEF NextWords
  <1> HIDE DEF q
  <1>9. /\ d \in Seq(Path) /\ Len(d) = n + 1 /\ d[n + 1] = q
        /\ \A i \in 1..n : d[i] = c[i]
    BY <1>4, <1>8, AppendProperties
  <1> HIDE DEF d
  <1>10. CharAt(t, n + 1) = q
    <2>1. CASE x \notin Word
      <3>1. n + 1 \notin Wordy(t)  BY <1>1, <1>2, <2>1
      <3> QED  BY <2>1, <3>1 DEF CharAt, NextWords, q
    <2>2. CASE x \in Word
      <3>1. n + 1 \in Wordy(t) /\ n + 1 - 1 = n  BY <1>1, <1>2, <2>2
      <3>2. n \in Wordy(t) <=> n \in Wordy(s)  BY <1>1, <1>2
      <3>3. (\A j \in Wordy(t) : j >= n + 1) <=> Wordy(s) = {}
        <4>1. \A j \in 1..n : ~ (j >= n + 1)  BY <1>1
        <4>2. n + 1 >= n + 1  BY <1>1
        <4> QED  BY <1>2, <2>2, <4>1, <4>2
      <3> QED  BY <1>1, <1>6, <1>7, <2>2, <3>1, <3>2, <3>3 DEF CharAt, NextWords, q
    <2> QED  BY <2>1, <2>2
  <1>11. ASSUME NEW i \in 1..n PROVE CharAt(t, i) = CharAt(s, i)
    <2>1. i \in Nat /\ i <= n /\ i - 1 <= n /\ i # n + 1 /\ i - 1 # n + 1  BY <1>1
    <2>2. i \in Wordy(t) <=> i \in Wordy(s)  BY <1>2, <2>1
    <2>3. i - 1 \in Wordy(t) <=> i - 1 \in Wordy(s)  BY <1>2, <2>1
    <2>4. n + 1 >= i  BY <1>1, <2>1
    <2>5. (\A j \in Wordy(t) : j >= i) <=> \A j \in Wordy(s) : j >= i  BY <1>2, <2>4
    <2>6. t[i] = s[i]  BY <1>1
    <2> QED  BY <2>2, <2>3, <2>5, <2>6 DEF CharAt
  <1>12. ASSUME NEW i \in 1..n + 1 PROVE e[i] = d[i]
    <2>1. CASE i = n + 1  BY <1>5, <1>9, <1>10, <2>1
    <2>2. CASE i # n + 1
      <3>1. i \in 1..n  BY <1>1, <2>2
      <3> QED  BY <1>4, <1>5, <1>9, <1>11, <3>1
    <2> QED  BY <2>1, <2>2
  <1>13. e = d  BY <1>5, <1>9, <1>12, SeqEqual
  <1>14. FlattenSeq(Append(c, q)) = FlattenSeq(c) \o q
    <2>1. c \in Seq(Seq(Chars)) /\ q \in Seq(Chars)  BY <1>4, <1>8 DEF Path
    <2> QED  BY <2>1, FlattenFacts
  <1>15. WordsIn(t) = WordsIn(s) \o q  BY <1>13, <1>14 DEF WordsIn, d, e, c
  <1> QED  BY <1>3, <1>15 DEF t, q

\* What comes before or after a text leaves its words as they are, or adds to them.
Wordless(s) == Wordy(s) = {}

LEMMA ConcatAppend ==
    ASSUME NEW S, NEW s \in Seq(S), NEW t \in Seq(S), NEW x \in S
    PROVE  s \o t \in Seq(S) /\ Append(t, x) \in Seq(S) /\ s \o Append(t, x) = Append(s \o t, x)
  <1>1. s \o t \in Seq(S) /\ Append(t, x) \in Seq(S)  BY ConcatProperties, AppendProperties
  <1>2. <<x>> \in Seq(S)  OBVIOUS
  <1>3. Append(t, x) = t \o <<x>> /\ Append(s \o t, x) = (s \o t) \o <<x>>
    BY <1>1, AppendIsConcat
  <1> QED  BY <1>1, <1>2, <1>3, ConcatAssociative

Around(s, t) ==
    /\ \E w \in Path : WordsIn(s \o t) = WordsIn(s) \o w
    /\ Wordless(t) => WordsIn(s \o t) = WordsIn(s)
    /\ Wordless(s) => /\ WordsIn(s \o t) = WordsIn(t)
                      /\ EndsWordy(s \o t) <=> EndsWordy(t)

LEMMA WordsAround == \A s \in Path : \A t \in Path : Around(s, t)
  <1> SUFFICES ASSUME NEW s \in Path PROVE \A t \in Path : Around(s, t)  OBVIOUS
  <1> DEFINE T == {t \in Path : Around(s, t)}
  <1>1. T \in SUBSET Seq(Chars)  BY DEF Path
  <1>2. <<>> \in T
    <2>1. <<>> \in Path /\ s \o <<>> = s  BY ConcatEmptySeq, EmptySeq DEF Path
    <2>2. WordsIn(s) \in Path /\ (WordsIn(s) = <<>> <=> Wordy(s) = {})  BY WordsNone
    <2>3. WordsIn(s) \o <<>> = WordsIn(s)  BY <2>2, ConcatEmptySeq DEF Path
    <2>4. WordsIn(<<>>) = <<>>  BY WordsNone
    <2>5. Wordy(<<>>) = {}  BY DEF Wordy
    <2>6. Wordless(s) => ~ EndsWordy(s) /\ ~ EndsWordy(<<>>)
      BY <2>5 DEF Wordless, EndsWordy
    <2>7. Around(s, <<>>)
      BY <2>1, <2>2, <2>3, <2>4, <2>6 DEF Around, Wordless
    <2> QED  BY <2>1, <2>7
  <1>3. ASSUME NEW t \in T, NEW x \in Chars PROVE Append(t, x) \in T
    <2> DEFINE u == Append(t, x)
               a == s \o t
    <2>1. t \in Path /\ Around(s, t)  OBVIOUS
    <2>2. u \in Path /\ a \in Path /\ s \o u = Append(a, x)
      BY <2>1, ConcatAppend DEF Path
    <2>3. /\ WordsIn(s \o u) = WordsIn(a) \o NextWords(a, x)
          /\ EndsWordy(s \o u) <=> x \in Word
      BY <2>2, WordsStep
    <2>4. /\ WordsIn(u) = WordsIn(t) \o NextWords(t, x)
          /\ EndsWordy(u) <=> x \in Word
      BY <2>1, WordsStep
    <2>5. Wordy(u) = IF x \in Word THEN Wordy(t) \cup {Len(t) + 1} ELSE Wordy(t)
      BY <2>1, WordyFacts
    <2>6. NextWords(a, x) \in Path
      <3>1. <<>> \in Path /\ <<x>> \in Path  BY DEF Path
      <3>2. <<"-", x>> \in Path
        <4>1. \A c \in Chars : <<c, x>> \in Path  BY DEF Path
        <4> QED  BY <4>1, CharsOf
      <3> QED  BY <3>1, <3>2 DEF NextWords
    <2>7. WordsIn(s) \in Path /\ WordsIn(a) \in Path  BY <2>2, WordsNone
    <2> HIDE DEF u, a
    <2>8. \E w \in Path : WordsIn(s \o u) = WordsIn(s) \o w
      <3>1. PICK w \in Path : WordsIn(a) = WordsIn(s) \o w  BY <2>1 DEF Around, a
      <3>2. w \o NextWords(a, x) \in Path  BY <2>6, ConcatProperties DEF Path
      <3>3. WordsIn(s \o u) = WordsIn(s) \o (w \o NextWords(a, x))
        <4>1. WordsIn(s) \in Seq(Chars) /\ w \in Seq(Chars) /\ NextWords(a, x) \in Seq(Chars)
          BY <2>6, <2>7 DEF Path
        <4>2. (WordsIn(s) \o w) \o NextWords(a, x) = WordsIn(s) \o (w \o NextWords(a, x))
          BY <4>1, ConcatAssociative
        <4> QED  BY <2>3, <3>1, <4>2
      <3> QED  BY <3>2, <3>3
    <2>9. ASSUME Wordless(u) PROVE WordsIn(s \o u) = WordsIn(s)
      <3>1. x \notin Word /\ Wordless(t)  BY <2>5, <2>9 DEF Wordless
      <3>2. NextWords(a, x) = <<>>  BY <3>1 DEF NextWords
      <3>3. WordsIn(a) = WordsIn(s)  BY <2>1, <3>1 DEF Around, a
      <3>4. WordsIn(s) \o <<>> = WordsIn(s)  BY <2>7, ConcatEmptySeq DEF Path
      <3> QED  BY <2>3, <3>2, <3>3, <3>4
    <2>10. ASSUME Wordless(s)
           PROVE  WordsIn(s \o u) = WordsIn(u) /\ (EndsWordy(s \o u) <=> EndsWordy(u))
      <3>1. WordsIn(a) = WordsIn(t) /\ (EndsWordy(a) <=> EndsWordy(t))
        BY <2>1, <2>10 DEF Around, a
      <3>2. NextWords(a, x) = NextWords(t, x)  BY <3>1 DEF NextWords
      <3> QED  BY <2>3, <2>4, <3>1, <3>2
    <2>11. Around(s, u)  BY <2>8, <2>9, <2>10 DEF Around
    <2> QED  BY <2>2, <2>11 DEF u
  <1>4. T = Seq(Chars)
    <2> HIDE DEF T
    <2> QED  BY <1>1, <1>2, <1>3, Splitting!SeqSetInduction
  <1> QED  BY <1>4 DEF Path

-----------------------------------------------------------------------------
(* A slug is the words of what it is made of.                              *)

LEMMA TwoConcats ==
    ASSUME NEW S, NEW a \in Seq(S), NEW w \in Seq(S), NEW b \in Seq(S)
    PROVE  /\ (a \o w) \o b \in Seq(S) /\ Len((a \o w) \o b) = Len(a) + Len(w) + Len(b)
           /\ \A i \in 1..Len(a) : ((a \o w) \o b)[i] = a[i]
           /\ \A i \in 1..Len(w) : ((a \o w) \o b)[Len(a) + i] = w[i]
           /\ \A i \in 1..Len(b) : ((a \o w) \o b)[Len(a) + Len(w) + i] = b[i]
  <1> DEFINE s == a \o w
             t == s \o b
  <1>1. Len(a) \in Nat /\ Len(w) \in Nat /\ Len(b) \in Nat  OBVIOUS
  <1>2. /\ s \in Seq(S) /\ Len(s) = Len(a) + Len(w)
        /\ \A i \in 1..Len(a) + Len(w) : s[i] = IF i <= Len(a) THEN a[i] ELSE w[i - Len(a)]
    BY ConcatProperties
  <1> HIDE DEF s
  <1>3. /\ t \in Seq(S) /\ Len(t) = Len(s) + Len(b)
        /\ \A i \in 1..Len(s) + Len(b) : t[i] = IF i <= Len(s) THEN s[i] ELSE b[i - Len(s)]
    <2>1. s \in Seq(S)  BY <1>2
    <2> QED  BY <2>1, ConcatProperties
  <1> HIDE DEF t
  <1>4. \A i \in 1..Len(a) : t[i] = a[i]  BY <1>1, <1>2, <1>3
  <1>5. ASSUME NEW i \in 1..Len(w) PROVE t[Len(a) + i] = w[i]
    <2>1. Len(a) + i \in 1..Len(s) /\ ~ (Len(a) + i <= Len(a)) /\ Len(a) + i - Len(a) = i
      BY <1>1, <1>2
    <2> QED  BY <1>1, <1>2, <1>3, <2>1
  <1>6. ASSUME NEW i \in 1..Len(b) PROVE t[Len(a) + Len(w) + i] = b[i]
    <2>1. /\ Len(s) + i \in 1..Len(s) + Len(b) /\ ~ (Len(s) + i <= Len(s))
          /\ Len(s) + i - Len(s) = i
      BY <1>1, <1>2
    <2> QED  BY <1>2, <1>3, <2>1
  <1> QED  BY <1>2, <1>3, <1>4, <1>5, <1>6 DEF t, s

\* Trim takes what is c at both ends, and nothing else.
LEMMA TrimExact ==
    ASSUME NEW S, NEW c, NEW a \in Seq(S), NEW w \in Seq(S), NEW b \in Seq(S),
           \A i \in 1..Len(a) : a[i] = c, \A i \in 1..Len(b) : b[i] = c,
           w # <<>>, w[1] # c, w[Len(w)] # c
    PROVE  Trim((a \o w) \o b, c) = w
  <1> DEFINE s == (a \o w) \o b
             x == Len(a)
             y == Len(w)
             z == Len(b)
  <1>1. /\ s \in Seq(S) /\ Len(s) = x + y + z
        /\ \A i \in 1..x : s[i] = a[i]
        /\ \A i \in 1..y : s[x + i] = w[i]
        /\ \A i \in 1..z : s[x + y + i] = b[i]
    BY TwoConcats
  <1>2. x \in Nat /\ y \in Nat \ {0} /\ z \in Nat  BY EmptySeq
  <1>3. /\ \A i \in 1..x : a[i] = c
        /\ \A i \in 1..z : b[i] = c
        /\ w[1] # c /\ w[y] # c /\ w \in Seq(S)
    OBVIOUS
  <1> HIDE DEF s
  <1>4. /\ Trim(s, c) = <<>> <=> \A i \in 1..Len(s) : s[i] = c
        /\ Trim(s, c) # <<>> =>
              \E f \in 1..Len(s), l \in 1..Len(s) :
                 /\ f <= l /\ s[f] # c /\ s[l] # c /\ Trim(s, c) = SubSeq(s, f, l)
                 /\ \A i \in 1..Len(s) : i < f \/ i > l => s[i] = c
    <2>1. s \in Seq(S)  BY <1>1
    <2> QED  BY <2>1, TrimProps
  <1> HIDE DEF x, y, z
  <1>5. x + 1 \in 1..Len(s) /\ x + y \in 1..Len(s) /\ s[x + 1] # c /\ s[x + y] # c
    <2>1. 1 \in 1..y /\ y \in 1..y  BY <1>2
    <2>2. s[x + 1] = w[1] /\ s[x + y] = w[y]  BY <1>1, <2>1
    <2> QED  BY <1>1, <1>2, <1>3, <2>2
  <1>6. PICK f \in 1..Len(s), l \in 1..Len(s) :
                 /\ f <= l /\ s[f] # c /\ s[l] # c /\ Trim(s, c) = SubSeq(s, f, l)
                 /\ \A i \in 1..Len(s) : i < f \/ i > l => s[i] = c
    BY <1>4, <1>5
  <1>7. f = x + 1
    <2>1. ~ (x + 1 < f)  BY <1>5, <1>6
    <2>2. f \notin 1..x  BY <1>1, <1>3, <1>6
    <2>3. f \in Nat /\ 1 <= f  BY <1>1, <1>2, <1>6
    <2> QED  BY <1>2, <2>1, <2>2, <2>3
  <1>8. l = x + y
    <2>1. ~ (x + y > l)  BY <1>5, <1>6
    <2>2. ASSUME l > x + y PROVE FALSE
      <3>1. l - (x + y) \in 1..z /\ x + y + (l - (x + y)) = l  BY <1>1, <1>2, <1>6, <2>2
      <3>2. s[x + y + (l - (x + y))] = b[l - (x + y)]  BY <1>1, <3>1
      <3> QED  BY <1>3, <1>6, <3>1, <3>2
    <2>3. l \in Nat  BY <1>1, <1>2, <1>6
    <2> QED  BY <1>2, <2>1, <2>2, <2>3
  <1>9. /\ SubSeq(s, f, l) \in Seq(S) /\ Len(SubSeq(s, f, l)) = y
        /\ \A i \in 1..y : SubSeq(s, f, l)[i] = s[x + i]
    <2>1. f \in Int /\ l \in Int /\ l - f + 1 = y /\ f <= l  BY <1>1, <1>2, <1>6, <1>7, <1>8
    <2>2. \A i \in f..l : s[i] \in S  BY <1>1, <1>2
    <2>3. /\ SubSeq(s, f, l) \in Seq(S)
          /\ Len(SubSeq(s, f, l)) = IF f <= l THEN l - f + 1 ELSE 0
          /\ \A i \in 1..l - f + 1 : SubSeq(s, f, l)[i] = s[f + i - 1]
      BY <2>1, <2>2, SubSeqProperties
    <2>4. \A i \in 1..y : f + i - 1 = x + i  BY <1>2, <1>7
    <2> QED  BY <2>1, <2>3, <2>4
  <1>10. SubSeq(s, f, l) = w
    <2> DEFINE q == SubSeq(s, f, l)
    <2> HIDE DEF q
    <2>1. q \in Seq(S) /\ Len(q) = Len(w) /\ \A i \in 1..Len(q) : q[i] = w[i]
      BY <1>1, <1>9 DEF q, y
    <2>2. q = w  BY <1>3, <2>1, SeqEqual
    <2> QED  BY <2>2 DEF q
  <1> QED  BY <1>6, <1>10 DEF s

\* s is m between a and b, which have nothing but c.
Framed(s, m, c, a, b) ==
    /\ s = (a \o m) \o b
    /\ \A i \in 1..Len(a) : a[i] = c
    /\ \A i \in 1..Len(b) : b[i] = c

LEMMA TrimSplit ==
    ASSUME NEW S, NEW s \in Seq(S), NEW c
    PROVE  \E a \in Seq(S), b \in Seq(S) : Framed(s, Trim(s, c), c, a, b)
  <1> DEFINE m == Trim(s, c)
             n == Len(s)
  <1>1. /\ m \in Seq(S)
        /\ m = <<>> <=> \A i \in 1..n : s[i] = c
        /\ m # <<>> =>
              \E f \in 1..n, l \in 1..n :
                 /\ f <= l /\ s[f] # c /\ s[l] # c /\ m = SubSeq(s, f, l)
                 /\ \A i \in 1..n : i < f \/ i > l => s[i] = c
    BY TrimProps
  <1>2. n \in Nat /\ <<>> \in Seq(S) /\ Len(<<>>) = 0  BY EmptySeq
  <1> HIDE DEF m
  <1>3. CASE m = <<>>
    <2>1. (s \o m) \o <<>> = s  BY <1>3, ConcatEmptySeq
    <2>2. \A i \in 1..Len(<<>>) : <<>>[i] = c  BY <1>2
    <2> QED  BY <1>1, <1>2, <1>3, <2>1, <2>2 DEF m, Framed
  <1>4. CASE m # <<>>
    <2>1. PICK f \in 1..n, l \in 1..n :
                 /\ f <= l /\ m = SubSeq(s, f, l)
                 /\ \A i \in 1..n : i < f \/ i > l => s[i] = c
      BY <1>1, <1>4
    <2> DEFINE a == SubSeq(s, 1, f - 1)
               b == SubSeq(s, l + 1, n)
    <2>2. /\ a \in Seq(S) /\ Len(a) = f - 1 /\ \A i \in 1..f - 1 : a[i] = s[i]
      <3>1. f - 1 \in 0..Len(s)  BY <1>2
      <3> QED  BY <3>1, Prefix
    <2>3. b \in Seq(S) /\ \A i \in 1..Len(b) : b[i] = s[l + i] /\ l + i > l /\ l + i \in 1..n
      <3>1. l + 1 \in Int /\ n \in Int  BY <1>2
      <3>2. \A i \in l + 1..n : s[i] \in S  BY <1>2
      <3>3. /\ b \in Seq(S) /\ Len(b) = IF l + 1 <= n THEN n - (l + 1) + 1 ELSE 0
            /\ \A i \in 1..n - (l + 1) + 1 : b[i] = s[l + 1 + i - 1]
        BY <3>1, <3>2, SubSeqProperties
      <3> HIDE DEF b, n
      <3>4. Len(b) = n - l  BY <1>2, <2>1, <3>3
      <3>5. \A i \in 1..n - l : i \in 1..n - (l + 1) + 1 /\ l + 1 + i - 1 = l + i
        BY <1>2, <2>1
      <3>6. \A i \in 1..n - l : l + i > l /\ l + i \in 1..n  BY <1>2, <2>1
      <3> QED  BY <3>3, <3>4, <3>5, <3>6
    <2>4. a \o m = SubSeq(s, 1, l)
      <3>1. 1 \in 1..Len(s) + 1 /\ f - 1 \in 1 - 1..Len(s) /\ l \in f - 1..Len(s)
        BY <1>2, <2>1
      <3>2. SubSeq(s, 1, f - 1) \o SubSeq(s, f - 1 + 1, l) = SubSeq(s, 1, l)
        BY <3>1, ConcatAdjacentSubSeq
      <3>3. f - 1 + 1 = f  BY <1>2
      <3> QED  BY <2>1, <3>2, <3>3
    <2>5. (a \o m) \o b = s
      <3>1. 1 \in 1..Len(s) + 1 /\ l \in 1 - 1..Len(s) /\ n \in l..Len(s)
        BY <1>2, <2>1
      <3>2. SubSeq(s, 1, l) \o SubSeq(s, l + 1, n) = SubSeq(s, 1, n)
        BY <3>1, ConcatAdjacentSubSeq
      <3>3. SubSeq(s, 1, n) = s  BY SubSeqFull
      <3> QED  BY <2>4, <3>2, <3>3
    <2> HIDE DEF a, b, n
    <2>6. \A i \in 1..Len(a) : a[i] = c
      <3>1. \A i \in 1..f - 1 : i \in 1..n /\ i < f  BY <1>2, <2>1
      <3> QED  BY <2>1, <2>2, <3>1
    <2>7. \A i \in 1..Len(b) : b[i] = c  BY <2>1, <2>3
    <2> QED  BY <2>2, <2>3, <2>5, <2>6, <2>7 DEF m, Framed
  <1> QED  BY <1>3, <1>4

LEMMA LowerConcat ==
    ASSUME NEW s \in Path, NEW t \in Path
    PROVE  ToLower(s \o t) = ToLower(s) \o ToLower(t)
  <1> DEFINE u == s \o t
             a == ToLower(s)
             b == ToLower(t)
             c == ToLower(u)
             d == a \o b
  <1>1. /\ u \in Path /\ Len(u) = Len(s) + Len(t)
        /\ \A i \in 1..Len(s) + Len(t) : u[i] = IF i <= Len(s) THEN s[i] ELSE t[i - Len(s)]
    BY ConcatProperties DEF Path
  <1>2. Len(s) \in Nat /\ Len(t) \in Nat  BY DEF Path
  <1> HIDE DEF u
  <1>3. "a" \in Chars  BY CharsOf
  <1>4. a \in Path /\ Len(a) = Len(s) /\ \A i \in 1..Len(s) : a[i] = IF s[i] = "A" THEN "a" ELSE s[i]
    BY <1>3, ReplaceType DEF ToLower
  <1>5. b \in Path /\ Len(b) = Len(t) /\ \A i \in 1..Len(t) : b[i] = IF t[i] = "A" THEN "a" ELSE t[i]
    BY <1>3, ReplaceType DEF ToLower
  <1>6. c \in Path /\ Len(c) = Len(u) /\ \A i \in 1..Len(u) : c[i] = IF u[i] = "A" THEN "a" ELSE u[i]
    BY <1>1, <1>3, ReplaceType DEF ToLower
  <1> HIDE DEF a, b, c
  <1>7. /\ d \in Seq(Chars) /\ Len(d) = Len(a) + Len(b)
        /\ \A i \in 1..Len(a) + Len(b) : d[i] = IF i <= Len(a) THEN a[i] ELSE b[i - Len(a)]
    <2>1. a \in Seq(Chars) /\ b \in Seq(Chars)  BY <1>4, <1>5 DEF Path
    <2> QED  BY <2>1, ConcatProperties
  <1> HIDE DEF d
  <1>8. ASSUME NEW i \in 1..Len(u) PROVE c[i] = d[i]
    <2>1. CASE i <= Len(s)
      <3>1. i \in 1..Len(s)  BY <2>1
      <3>2. c[i] = IF s[i] = "A" THEN "a" ELSE s[i]  BY <1>1, <1>6, <2>1
      <3>3. d[i] = a[i]  BY <1>1, <1>4, <1>5, <1>7, <2>1
      <3> QED  BY <1>4, <3>1, <3>2, <3>3
    <2>2. CASE ~ (i <= Len(s))
      <3> DEFINE j == i - Len(s)
      <3>1. j \in 1..Len(t)  BY <1>1, <1>2, <2>2
      <3>2. c[i] = IF t[j] = "A" THEN "a" ELSE t[j]  BY <1>1, <1>6, <2>2
      <3>3. d[i] = b[j]  BY <1>1, <1>4, <1>5, <1>7, <2>2
      <3> HIDE DEF j
      <3> QED  BY <1>5, <3>1, <3>2, <3>3
    <2> QED  BY <2>1, <2>2
  <1>9. c \in Seq(Chars) /\ Len(c) = Len(d)  BY <1>1, <1>4, <1>5, <1>6, <1>7 DEF Path
  <1>10. c = d  BY <1>6, <1>7, <1>8, <1>9, SeqEqual
  <1> QED  BY <1>10 DEF d, c, b, a, u

\* Blanks around a text are no part of its words.
LEMMA WordsOfTrimmed == \A s \in Path : WordsOf(TrimSpace(s)) = WordsOf(s)
  <1> SUFFICES ASSUME NEW s \in Path PROVE WordsOf(TrimSpace(s)) = WordsOf(s)  OBVIOUS
  <1> DEFINE m == TrimSpace(s)
  <1>1. m \in Path  BY TrimType DEF TrimSpace
  <1>2. PICK a \in Path, b \in Path : Framed(s, m, " ", a, b)
    <2>1. s \in Seq(Chars)  BY DEF Path
    <2>2. \E a \in Seq(Chars), b \in Seq(Chars) : Framed(s, Trim(s, " "), " ", a, b)
      BY <2>1, TrimSplit, Zenon
    <2> QED  BY <2>2 DEF TrimSpace, Path
  <1> HIDE DEF m
  <1>3. ASSUME NEW t \in Path, \A i \in 1..Len(t) : t[i] = " "
        PROVE  ToLower(t) \in Path /\ Wordless(ToLower(t))
    <2>1. /\ ToLower(t) \in Path /\ Len(ToLower(t)) = Len(t)
          /\ \A i \in 1..Len(t) : ToLower(t)[i] = IF t[i] = "A" THEN "a" ELSE t[i]
      <3>1. "a" \in Chars  BY CharsOf
      <3> QED  BY <3>1, ReplaceType DEF ToLower
    <2>2. DOMAIN ToLower(t) = 1..Len(t)  BY <2>1 DEF Path
    <2>3. " " # "A" /\ " " \notin Word  BY DEF Word
    <2>4. \A i \in DOMAIN ToLower(t) : ToLower(t)[i] \notin Word  BY <1>3, <2>1, <2>2, <2>3
    <2> QED  BY <2>1, <2>4 DEF Wordless, Wordy
  <1>4. ToLower(m) \in Path  BY <1>1, CharsOf, ReplaceType DEF ToLower
  <1>5. a \o m \in Path  BY <1>1, ConcatProperties DEF Path
  <1>6. ToLower(s) = (ToLower(a) \o ToLower(m)) \o ToLower(b)
    BY <1>1, <1>2, <1>5, LowerConcat DEF Framed
  <1> DEFINE x == ToLower(a)
             y == ToLower(m)
             z == ToLower(b)
  <1>7. x \in Path /\ Wordless(x) /\ z \in Path /\ Wordless(z) /\ y \in Path
    BY <1>2, <1>3, <1>4 DEF Framed
  <1>8. ToLower(s) = (x \o y) \o z  BY <1>6
  <1> HIDE DEF x, y, z
  <1>9. WordsIn(x \o y) = WordsIn(y)  BY <1>7, WordsAround DEF Around
  <1>10. x \o y \in Path  BY <1>7, ConcatProperties DEF Path
  <1>11. WordsIn((x \o y) \o z) = WordsIn(x \o y)  BY <1>7, <1>10, WordsAround DEF Around
  <1> QED  BY <1>8, <1>9, <1>11, WordsOfLow DEF y, m

\* What the fold of slugFilename makes of a text: its words, with a dash before
\* or after them.
Dashed(v, out, ends) ==
    /\ v = <<>> => out \in {<<>>, <<"-">>}
    /\ v # <<>> => /\ v[1] \in Word /\ v[Len(v)] \in Word
                   /\ \E lead \in {<<>>, <<"-">>} :
                         out = (lead \o v) \o (IF ends THEN <<>> ELSE <<"-">>)

LEMMA SlugDashed == \A s \in Path : Dashed(WordsIn(s), Slugging!Fold(<<>>, s), EndsWordy(s))
  <1> DEFINE F(s) == Slugging!Fold(<<>>, s)
             T == {s \in Path : Dashed(WordsIn(s), F(s), EndsWordy(s))}
  <1>1. T \in SUBSET Seq(Chars)  BY DEF Path
  <1>2. <<>> \in T
    <2>1. F(<<>>) = <<>>  BY Slugging!FoldEmpty
    <2>2. WordsIn(<<>>) = <<>> /\ <<>> \in Path  BY WordsNone, EmptySeq DEF Path
    <2> QED  BY <2>1, <2>2 DEF Dashed
  <1>3. ASSUME NEW s \in T, NEW x \in Chars PROVE Append(s, x) \in T
    <2> DEFINE v == WordsIn(s)
               t == Append(s, x)
               out == F(s)
               r == F(t)
               w == WordsIn(t)
               ends == EndsWordy(s)
    <2>1. s \in Path /\ t \in Path /\ v \in Path /\ Dashed(v, out, ends)
      BY AppendProperties, WordsNone DEF Path
    <2>2. w = v \o NextWords(s, x) /\ (EndsWordy(t) <=> x \in Word)  BY <2>1, WordsStep
    <2>3. r = SlugStep(out, x)  BY <2>1, Slugging!FoldAppend DEF Path
    <2>4. "-" \in Chars /\ "-" \notin Word /\ <<>> \in Seq(Chars)  BY CharsOf, EmptySeq DEF Word
    <2>5. <<"-">> \in Seq(Chars) /\ <<x>> \in Seq(Chars) /\ <<"-", x>> \in Seq(Chars)
      <3>1. \A c, d \in Chars : <<c>> \in Seq(Chars) /\ <<c, d>> \in Seq(Chars)  OBVIOUS
      <3> QED  BY <2>4, <3>1
    <2>6. r = IF x \in Word THEN Append(out, x)
              ELSE IF out # <<>> /\ Last(out) = "-" THEN out ELSE Append(out, "-")
      BY <2>3 DEF SlugStep, Word
    <2>7. NextWords(s, x) = IF x \notin Word THEN <<>> ELSE IF ends \/ v = <<>> THEN <<x>> ELSE <<"-", x>>
      BY DEF NextWords
    <2> HIDE DEF F, v, out, r, w, ends, t
    <2>8. v \in Seq(Chars)  BY <2>1 DEF Path
    <2>9. SUFFICES Dashed(w, r, x \in Word)
      <3>1. EndsWordy(t) = (x \in Word)  BY <2>2 DEF EndsWordy
      <3>2. Append(s, x) \in T <=> t \in Path /\ Dashed(w, r, EndsWordy(t))
        BY Zenon DEF r, w, t
      <3> QED  BY <2>1, <3>1, <3>2, Zenon
    <2>10. CASE v = <<>>
      <3>1. out \in {<<>>, <<"-">>}  BY <2>1, <2>10 DEF Dashed
      <3>2. CASE x \notin Word
        <4>1. w = <<>>  BY <2>2, <2>7, <2>10, <3>2
        <4>2. r = <<"-">>
          <5>1. Append(<<>>, "-") = <<"-">> /\ Last(<<"-">>) = "-" /\ <<"-">> # <<>>
            BY DEF Last
          <5> QED  BY <2>6, <3>1, <3>2, <5>1
        <4> QED  BY <4>1, <4>2 DEF Dashed
      <3>3. CASE x \in Word
        <4>1. w = <<x>>
          <5>1. <<>> \o <<x>> = <<x>>  BY <2>5, ConcatEmptySeq
          <5> QED  BY <2>2, <2>7, <2>10, <3>3, <5>1
        <4>2. r = (out \o <<x>>) \o <<>>
          <5>1. out \in Seq(Chars)  BY <2>4, <2>5, <3>1
          <5>2. Append(out, x) = out \o <<x>> /\ out \o <<x>> \in Seq(Chars)
            BY <2>5, <5>1, AppendIsConcat, ConcatProperties
          <5>3. (out \o <<x>>) \o <<>> = out \o <<x>>  BY <5>2, ConcatEmptySeq
          <5> QED  BY <2>6, <3>3, <5>2, <5>3
        <4>3. <<x>> # <<>> /\ <<x>>[1] = x /\ Len(<<x>>) = 1  OBVIOUS
        <4> QED  BY <3>1, <3>3, <4>1, <4>2, <4>3 DEF Dashed
      <3> QED  BY <3>2, <3>3
    <2>11. CASE v # <<>>
      <3> DEFINE tail == IF ends THEN <<>> ELSE <<"-">>
      <3>1. /\ v[1] \in Word /\ v[Len(v)] \in Word
            /\ \E lead \in {<<>>, <<"-">>} : out = (lead \o v) \o tail
        BY <2>1, <2>11 DEF Dashed
      <3>2. PICK lead \in {<<>>, <<"-">>} : out = (lead \o v) \o tail  BY <3>1
      <3>3. lead \in Seq(Chars) /\ tail \in Seq(Chars)  BY <2>4, <2>5
      <3> DEFINE z == lead \o v
      <3>4. z \in Seq(Chars) /\ z \o <<>> = z
        <4>1. z \in Seq(Chars)  BY <2>8, <3>3, ConcatProperties
        <4> HIDE DEF z
        <4> QED  BY <4>1, ConcatEmptySeq
      <3>5. out \in Seq(Chars) /\ out = z \o tail
        <4> HIDE DEF z, tail
        <4> QED  BY <3>2, <3>3, <3>4, ConcatProperties DEF z
      <3>6. Len(v) \in Nat \ {0}  BY <2>8, <2>11, EmptySeq
      <3>7. z # <<>> /\ Last(z) = v[Len(v)]
        <4>1. Len(z) = Len(lead) + Len(v) /\ z[Len(lead) + Len(v)] = v[Len(v)]
          <5>1. /\ Len(z) = Len(lead) + Len(v)
                /\ \A i \in 1..Len(lead) + Len(v) :
                      z[i] = IF i <= Len(lead) THEN lead[i] ELSE v[i - Len(lead)]
            BY <2>8, <3>3, ConcatProperties
          <5>2. Len(lead) \in Nat  BY <3>3
          <5>3. /\ Len(lead) + Len(v) \in 1..Len(lead) + Len(v)
                /\ ~ (Len(lead) + Len(v) <= Len(lead))
                /\ Len(lead) + Len(v) - Len(lead) = Len(v)
            BY <3>6, <5>2
          <5> HIDE DEF z
          <5> QED  BY <5>1, <5>3
        <4>2. Len(lead) \in Nat  BY <3>3
        <4> HIDE DEF z
        <4>3. Len(z) # 0  BY <3>6, <4>1, <4>2
        <4> QED  BY <4>1, <4>3 DEF Last
      <3>8. CASE x \notin Word
        <4>1. w = v
          <5>1. v \o <<>> = v  BY <2>8, ConcatEmptySeq
          <5> QED  BY <2>2, <2>7, <3>8, <5>1
        <4>2. r = z \o <<"-">>
          <5>1. CASE ends
            <6>1. out = z  BY <3>4, <3>5, <5>1
            <6>2. Last(out) # "-"  BY <2>4, <3>1, <3>7, <6>1
            <6>3. Append(z, "-") = z \o <<"-">>  BY <2>4, <3>4, AppendIsConcat
            <6> QED  BY <2>6, <3>8, <6>1, <6>2, <6>3
          <5>2. CASE ~ ends
            <6>1. out = z \o <<"-">>  BY <3>5, <5>2
            <6>2. out = Append(z, "-")  BY <2>4, <3>4, <6>1, AppendIsConcat
            <6>3. out # <<>> /\ Last(out) = "-"
              <7>1. /\ Len(Append(z, "-")) = Len(z) + 1 /\ Append(z, "-") # <<>>
                    /\ Append(z, "-")[Len(z) + 1] = "-"
                BY <2>4, <3>4, AppendProperties
              <7> HIDE DEF z
              <7> QED  BY <6>2, <7>1 DEF Last
            <6> QED  BY <2>6, <3>8, <6>1, <6>3
          <5> QED  BY <5>1, <5>2
        <4> QED  BY <2>11, <3>1, <3>8, <4>1, <4>2 DEF Dashed
      <3>9. CASE x \in Word
        <4> DEFINE q == IF ends THEN <<x>> ELSE <<"-", x>>
        <4>1. w = v \o q  BY <2>2, <2>7, <2>11, <3>9
        <4>2. q \in Seq(Chars) /\ Len(q) \in Nat \ {0} /\ q[Len(q)] = x /\ tail \o <<x>> = q
          <5>1. CASE ends
            <6>1. <<>> \o <<x>> = <<x>>  BY <2>5, ConcatEmptySeq
            <6>2. Len(<<x>>) = 1 /\ <<x>>[1] = x  OBVIOUS
            <6> QED  BY <2>5, <5>1, <6>1, <6>2
          <5>2. CASE ~ ends
            <6>1. <<"-">> \o <<x>> = <<"-", x>>
              <7>1. Append(<<"-">>, x) = <<"-", x>>
                <8> DEFINE d == <<"-">>
                           p == Append(d, x)
                           k == <<"-", x>>
                <8>1. d \in Seq(Chars) /\ Len(d) = 1 /\ d[1] = "-"  BY <2>5
                <8>2. k \in Seq(Chars) /\ Len(k) = 2 /\ k[1] = "-" /\ k[2] = x  BY <2>5
                <8> HIDE DEF d, k
                <8>3. /\ p \in Seq(Chars) /\ Len(p) = Len(d) + 1 /\ p[Len(d) + 1] = x
                      /\ \A i \in 1..Len(d) : p[i] = d[i]
                  <9>1. d \in Seq(Chars)  BY <8>1
                  <9>2. x \in Chars  OBVIOUS
                  <9> QED  BY <9>1, <9>2, AppendProperties
                <8> HIDE DEF p
                <8>4. Len(p) = 2 /\ p[1] = "-" /\ p[2] = x  BY <8>1, <8>3
                <8>5. \A i \in 1..2 : i = 1 \/ i = 2  OBVIOUS
                <8>6. \A i \in 1..Len(p) : p[i] = k[i]  BY <8>2, <8>4, <8>5
                <8>7. p = k  BY <8>2, <8>3, <8>4, <8>6, SeqEqual
                <8> QED  BY <8>7 DEF p, d, k
              <7> QED  BY <2>5, <7>1, AppendIsConcat
            <6>2. Len(<<"-", x>>) = 2 /\ <<"-", x>>[2] = x  OBVIOUS
            <6> QED  BY <2>5, <5>2, <6>1, <6>2
          <5> QED  BY <5>1, <5>2
        <4> HIDE DEF q, tail
        <4>3. /\ w \in Seq(Chars) /\ Len(w) = Len(v) + Len(q)
              /\ \A i \in 1..Len(v) + Len(q) : w[i] = IF i <= Len(v) THEN v[i] ELSE q[i - Len(v)]
          BY <2>8, <4>1, <4>2, ConcatProperties
        <4>4. w # <<>> /\ w[1] = v[1] /\ w[Len(w)] = x
          <5>1. 1 \in 1..Len(v) + Len(q) /\ 1 <= Len(v)  BY <3>6, <4>2
          <5>2. /\ Len(v) + Len(q) \in 1..Len(v) + Len(q) /\ ~ (Len(v) + Len(q) <= Len(v))
                /\ Len(v) + Len(q) - Len(v) = Len(q) /\ Len(v) + Len(q) # 0
            BY <3>6, <4>2
          <5> QED  BY <4>2, <4>3, <5>1, <5>2
        <4>5. r = (lead \o w) \o <<>>
          <5>1. r = Append(out, x)  BY <2>6, <3>9
          <5>2. r = out \o <<x>>  BY <3>5, <5>1, AppendIsConcat
          <5>3. (z \o tail) \o <<x>> = z \o (tail \o <<x>>)
            BY <2>5, <3>3, <3>4, ConcatAssociative
          <5>4. (lead \o v) \o q = lead \o (v \o q)
            <6>1. v \in Seq(Chars) /\ lead \in Seq(Chars) /\ q \in Seq(Chars)
              BY <2>8, <3>3, <4>2
            <6> QED  BY <6>1, ConcatAssociative
          <5>5. r = lead \o w  BY <3>5, <4>1, <4>2, <5>2, <5>3, <5>4
          <5>6. lead \o w \in Seq(Chars)  BY <3>3, <4>3, ConcatProperties
          <5>7. (lead \o w) \o <<>> = lead \o w  BY <5>6, ConcatEmptySeq
          <5> QED  BY <5>5, <5>7
        <4> QED  BY <3>1, <3>9, <4>4, <4>5 DEF Dashed
      <3> QED  BY <3>8, <3>9
    <2> QED  BY <2>10, <2>11
  <1>4. T = Seq(Chars)
    <2> HIDE DEF T
    <2> QED  BY <1>1, <1>2, <1>3, Splitting!SeqSetInduction
  <1> QED  BY <1>4 DEF Path

\* A slug is the words of a text.
LEMMA SlugIsWords == \A s \in Path : slugFilename(s) = WordsOf(s)
  <1> SUFFICES ASSUME NEW s \in Path PROVE slugFilename(s) = WordsOf(s)  OBVIOUS
  <1> DEFINE low == ToLower(TrimSpace(s))
             v == WordsIn(low)
             out == Slugging!Fold(<<>>, low)
             ends == EndsWordy(low)
             tail == IF ends THEN <<>> ELSE <<"-">>
  <1>1. low \in Path
    <2>1. TrimSpace(s) \in Path  BY TrimType DEF TrimSpace
    <2> QED  BY <2>1, ReplaceType, CharsOf DEF ToLower
  <1>2. slugFilename(s) = Trim(out, "-")  BY SlugFold DEF slugFilename
  <1>3. WordsOf(s) = v  BY WordsOfTrimmed, WordsOfLow, Zenon
  <1> HIDE DEF low
  <1>4. v \in Seq(Chars) /\ Dashed(v, out, ends)  BY <1>1, WordsNone, SlugDashed DEF Path
  <1>5. out \in Seq(Chars)  BY <1>1, SlugFoldType, SlugsArePaths DEF Path
  <1>6. "-" \in Chars /\ "-" \notin Word /\ <<>> \in Seq(Chars) /\ Len(<<>>) = 0
    BY CharsOf, EmptySeq DEF Word
  <1>7. <<"-">> \in Seq(Chars)
    <2>1. \A c \in Chars : <<c>> \in Seq(Chars)  OBVIOUS
    <2> QED  BY <1>6, <2>1
  <1>8. ASSUME NEW d \in {<<>>, <<"-">>} PROVE d \in Seq(Chars) /\ \A i \in 1..Len(d) : d[i] = "-"
    <2>1. Len(<<"-">>) = 1 /\ <<"-">>[1] = "-" /\ \A i \in 1..1 : i = 1  OBVIOUS
    <2>2. \A i \in 1..0 : FALSE  OBVIOUS
    <2> QED  BY <1>6, <1>7, <2>1, <2>2
  <1> HIDE DEF out, v, ends
  <1>9. CASE v = <<>>
    <2>1. out \in {<<>>, <<"-">>}  BY <1>4, <1>9 DEF Dashed
    <2>2. \A i \in 1..Len(out) : out[i] = "-"  BY <1>8, <2>1
    <2>3. Trim(out, "-") = <<>>  BY <1>5, <2>2, TrimProps
    <2> QED  BY <1>2, <1>3, <1>9, <2>3
  <1>10. CASE v # <<>>
    <2>1. /\ v[1] # "-" /\ v[Len(v)] # "-"
          /\ \E lead \in {<<>>, <<"-">>} : out = (lead \o v) \o tail
      BY <1>4, <1>6, <1>10 DEF Dashed
    <2>2. PICK lead \in {<<>>, <<"-">>} : out = (lead \o v) \o tail  BY <2>1
    <2>3. tail \in {<<>>, <<"-">>}  OBVIOUS
    <2> HIDE DEF tail
    <2>4. /\ lead \in Seq(Chars) /\ tail \in Seq(Chars)
          /\ \A i \in 1..Len(lead) : lead[i] = "-"
          /\ \A i \in 1..Len(tail) : tail[i] = "-"
      BY <1>8, <2>3
    <2>5. Trim((lead \o v) \o tail, "-") = v
      BY <1>4, <1>10, <2>1, <2>4, TrimExact
    <2> QED  BY <1>2, <1>3, <2>2, <2>5
  <1> QED  BY <1>9, <1>10

-----------------------------------------------------------------------------
(* Beginnings and ends.                                                    *)

LEMMA PrefixOfConcat ==
    ASSUME NEW a \in Path, NEW b \in Path
    PROVE  /\ IsPrefix(a, a \o b) /\ SubSeq(a \o b, 1, Len(a)) = a
  <1> DEFINE s == a \o b
             q == SubSeq(s, 1, Len(a))
  <1>1. /\ s \in Seq(Chars) /\ Len(s) = Len(a) + Len(b)
        /\ \A i \in 1..Len(a) + Len(b) : s[i] = IF i <= Len(a) THEN a[i] ELSE b[i - Len(a)]
    BY ConcatProperties DEF Path
  <1>2. Len(a) \in Nat /\ Len(b) \in Nat /\ a \in Seq(Chars)  BY DEF Path
  <1> HIDE DEF s
  <1>3. q \in Seq(Chars) /\ Len(q) = Len(a) /\ \A i \in 1..Len(a) : q[i] = s[i]
    <2>1. s \in Seq(Chars)  BY <1>1
    <2>2. Len(a) \in 0..Len(s)  BY <1>1, <1>2
    <2> QED  BY <2>1, <2>2, Prefix
  <1> HIDE DEF q
  <1>4. \A i \in 1..Len(q) : q[i] = a[i]  BY <1>1, <1>2, <1>3
  <1>5. q = a  BY <1>2, <1>3, <1>4, SeqEqual
  <1>6. SubSeq(a, 1, Len(a)) = a  BY <1>2, SubSeqFull
  <1>7. Len(a) <= Len(s)  BY <1>1, <1>2
  <1> QED  BY <1>5, <1>6, <1>7 DEF IsPrefix, q, s

LEMMA Reversed ==
    ASSUME NEW s \in Path
    PROVE  /\ Reverse(s) \in Seq(Chars) /\ Len(Reverse(s)) = Len(s)
           /\ \A i \in 1..Len(s) : Reverse(s)[i] = s[Len(s) - i + 1]
  <1>1. Len(s) \in Nat /\ \A i \in 1..Len(s) : s[i] \in Chars  BY DEF Path
  <1>2. \A i \in 1..Len(s) : Len(s) - i + 1 \in 1..Len(s)  BY <1>1
  <1>3. \A i \in 1..Len(s) : s[Len(s) - i + 1] \in Chars  BY <1>1, <1>2
  <1> QED  BY <1>1, <1>3 DEF Reverse

LEMMA SuffixIs ==
    ASSUME NEW x \in Path, NEW s \in Path
    PROVE  IsSuffix(x, s) <=> /\ Len(x) <= Len(s)
                              /\ \A i \in 1..Len(x) : s[Len(s) - Len(x) + i] = x[i]
  <1> DEFINE p == Reverse(x)
             q == Reverse(s)
             m == Len(x)
             n == Len(s)
             y == SubSeq(p, 1, m)
             z == SubSeq(q, 1, m)
  <1>1. m \in Nat /\ n \in Nat  BY DEF Path
  <1>2. /\ p \in Seq(Chars) /\ Len(p) = m /\ \A i \in 1..m : p[i] = x[m - i + 1]
    BY Reversed
  <1>3. /\ q \in Seq(Chars) /\ Len(q) = n /\ \A i \in 1..n : q[i] = s[n - i + 1]
    BY Reversed
  <1> HIDE DEF p, q, m, n
  <1>4. IsSuffix(x, s) <=> m <= n /\ y = z  BY <1>2, <1>3 DEF IsSuffix, IsPrefix, p, q
  <1>5. SUFFICES ASSUME m <= n
                 PROVE  y = z <=> \A i \in 1..m : s[n - m + i] = x[i]
    BY <1>4 DEF m, n
  <1>6. y \in Seq(Chars) /\ Len(y) = m /\ \A i \in 1..m : y[i] = p[i]
    <2>1. p \in Seq(Chars) /\ m \in 0..Len(p)  BY <1>1, <1>2
    <2> QED  BY <2>1, Prefix
  <1>7. z \in Seq(Chars) /\ Len(z) = m /\ \A i \in 1..m : z[i] = q[i]
    <2>1. q \in Seq(Chars) /\ m \in 0..Len(q)  BY <1>1, <1>3, <1>5
    <2> QED  BY <2>1, Prefix
  <1> HIDE DEF y, z
  <1>8. y = z <=> \A i \in 1..m : p[i] = q[i]
    <2>1. ASSUME \A i \in 1..m : p[i] = q[i] PROVE y = z
      <3>1. \A i \in 1..Len(y) : y[i] = z[i]  BY <1>6, <1>7, <2>1
      <3> QED  BY <1>6, <1>7, <3>1, SeqEqual
    <2>2. ASSUME y = z PROVE \A i \in 1..m : p[i] = q[i]  BY <1>6, <1>7, <2>2
    <2> QED  BY <2>1, <2>2
  <1>9. ASSUME NEW i \in 1..m
        PROVE  /\ m - i + 1 \in 1..m
               /\ p[i] = x[m - i + 1] /\ q[i] = s[n - m + (m - i + 1)]
    <2>1. m - i + 1 \in 1..m /\ i \in 1..n /\ n - m + (m - i + 1) = n - i + 1  BY <1>1, <1>5
    <2> QED  BY <1>2, <1>3, <2>1
  <1>10. ASSUME \A i \in 1..m : s[n - m + i] = x[i] PROVE \A i \in 1..m : p[i] = q[i]
    BY <1>9, <1>10
  <1>11. ASSUME \A i \in 1..m : p[i] = q[i], NEW i \in 1..m PROVE s[n - m + i] = x[i]
    <2> DEFINE j == m - i + 1
    <2>1. j \in 1..m /\ m - j + 1 = i  BY <1>1
    <2> HIDE DEF j
    <2>2. p[j] = x[m - j + 1] /\ q[j] = s[n - m + (m - j + 1)]  BY <1>9, <2>1
    <2> QED  BY <1>11, <2>1, <2>2
  <1> QED  BY <1>8, <1>10, <1>11

LEMMA SuffixOfConcat ==
    ASSUME NEW a \in Path, NEW b \in Path
    PROVE  IsSuffix(b, a \o b)
  <1> DEFINE s == a \o b
  <1>1. /\ s \in Path /\ Len(s) = Len(a) + Len(b)
        /\ \A i \in 1..Len(a) + Len(b) : s[i] = IF i <= Len(a) THEN a[i] ELSE b[i - Len(a)]
    BY ConcatProperties DEF Path
  <1>2. Len(a) \in Nat /\ Len(b) \in Nat  BY DEF Path
  <1> HIDE DEF s
  <1>3. Len(b) <= Len(s) /\ Len(s) - Len(b) = Len(a)  BY <1>1, <1>2
  <1>4. ASSUME NEW i \in 1..Len(b) PROVE s[Len(s) - Len(b) + i] = b[i]
    <2>1. /\ Len(a) + i \in 1..Len(a) + Len(b) /\ ~ (Len(a) + i <= Len(a))
          /\ Len(a) + i - Len(a) = i
      BY <1>2
    <2> QED  BY <1>1, <1>3, <2>1
  <1> QED  BY <1>1, <1>3, <1>4, SuffixIs DEF s

\* TrimSuffix cuts off the extension if it finds it as it is, and nothing if it
\* has another case.
LEMMA SuffixTrimmed ==
    ASSUME NEW p \in Path, NEW e \in Path, NEW x \in Path, Len(x) = Len(e)
    PROVE  TrimSuffix(p \o e, x) = IF x = e THEN p ELSE p \o e
  <1> DEFINE s == p \o e
  <1>1. /\ s \in Path /\ Len(s) = Len(p) + Len(e)
        /\ \A i \in 1..Len(p) + Len(e) : s[i] = IF i <= Len(p) THEN p[i] ELSE e[i - Len(p)]
    BY ConcatProperties DEF Path
  <1>2. Len(p) \in Nat /\ Len(e) \in Nat  BY DEF Path
  <1>3. IsSuffix(e, s) /\ SubSeq(s, 1, Len(p)) = p  BY SuffixOfConcat, PrefixOfConcat
  <1> HIDE DEF s
  <1>4. CASE x = e
    <2>1. Len(s) - Len(x) = Len(p)  BY <1>1, <1>2, <1>4
    <2> QED  BY <1>3, <1>4, <2>1 DEF TrimSuffix, s
  <1>5. CASE x # e
    <2>1. ASSUME IsSuffix(x, s) PROVE FALSE
      <3>1. \A i \in 1..Len(x) : s[Len(s) - Len(x) + i] = x[i]  BY <1>1, <2>1, SuffixIs
      <3>2. ASSUME NEW i \in 1..Len(x) PROVE x[i] = e[i]
        <4>1. /\ Len(p) + i \in 1..Len(p) + Len(e) /\ ~ (Len(p) + i <= Len(p))
              /\ Len(p) + i - Len(p) = i /\ Len(s) - Len(x) + i = Len(p) + i
          BY <1>1, <1>2
        <4> QED  BY <1>1, <3>1, <4>1
      <3>3. x \in Seq(Chars) /\ e \in Seq(Chars)  BY DEF Path
      <3>4. x = e  BY <3>2, <3>3, SeqEqual
      <3> QED  BY <1>5, <3>4
    <2> QED  BY <1>5, <2>1 DEF TrimSuffix, s
  <1> QED  BY <1>4, <1>5

-----------------------------------------------------------------------------
(* A name without slashes.                                                 *)

Plainly(s) == \A i \in 1..Len(s) : s[i] \notin {"/", "\\"}
EndsDark(s) == s # <<>> /\ s[Len(s)] # " "

LEMMA PlainConcat ==
    ASSUME NEW s \in Path, NEW t \in Path
    PROVE  /\ s \o t \in Path
           /\ Plainly(s \o t) <=> Plainly(s) /\ Plainly(t)
           /\ t # <<>> => (EndsDark(s \o t) <=> EndsDark(t))
  <1> DEFINE u == s \o t
             m == Len(s)
             n == Len(t)
  <1>1. /\ u \in Path /\ Len(u) = m + n
        /\ \A i \in 1..m + n : u[i] = IF i <= m THEN s[i] ELSE t[i - m]
    BY ConcatProperties DEF Path
  <1>2. m \in Nat /\ n \in Nat  BY DEF Path
  <1>3. t # <<>> => n # 0  BY EmptySeq DEF Path
  <1> HIDE DEF u
  <1>4. \A i \in 1..m : i \in 1..m + n /\ u[i] = s[i]  BY <1>1, <1>2 DEF m, n
  <1>5. ASSUME NEW i \in 1..n PROVE m + i \in 1..m + n /\ u[m + i] = t[i]
    <2> DEFINE k == m + i
    <2>1. k \in 1..m + n /\ ~ (k <= m) /\ k - m = i  BY <1>2
    <2> HIDE DEF m, n, k
    <2>2. u[k] = t[i]  BY <1>1, <2>1
    <2> QED  BY <2>1, <2>2 DEF k
  <1>6. ASSUME NEW i \in 1..m + n, i \notin 1..m PROVE i - m \in 1..n /\ u[i] = t[i - m]
    <2>1. ~ (i <= m) /\ i - m \in 1..n  BY <1>2, <1>6
    <2> HIDE DEF m, n
    <2> QED  BY <1>1, <2>1
  <1>7. u = <<>> => Len(u) = 0  OBVIOUS
  <1>8. /\ Plainly(u) <=> \A i \in 1..m + n : u[i] \notin {"/", "\\"}
        /\ Plainly(s) <=> \A i \in 1..m : s[i] \notin {"/", "\\"}
        /\ Plainly(t) <=> \A i \in 1..n : t[i] \notin {"/", "\\"}
    BY <1>1 DEF Plainly
  <1>9. EndsDark(u) <=> u # <<>> /\ u[m + n] # " "  BY <1>1 DEF EndsDark
  <1>10. EndsDark(t) <=> t # <<>> /\ t[n] # " "  BY DEF EndsDark
  <1> HIDE DEF m, n
  <1>11. Plainly(u) <=> Plainly(s) /\ Plainly(t)
    <2>1. ASSUME Plainly(u) PROVE Plainly(s) /\ Plainly(t)  BY <1>4, <1>5, <1>8, <2>1
    <2>2. ASSUME Plainly(s), Plainly(t) PROVE Plainly(u)
      BY <1>4, <1>6, <1>8, <2>2
    <2> QED  BY <2>1, <2>2
  <1>12. t # <<>> => (EndsDark(u) <=> EndsDark(t))
    <2> SUFFICES ASSUME t # <<>> PROVE EndsDark(u) <=> EndsDark(t)  OBVIOUS
    <2>1. n \in 1..n /\ m + n # 0  BY <1>2, <1>3
    <2> QED  BY <1>1, <1>5, <1>7, <1>9, <1>10, <2>1
  <1> QED  BY <1>1, <1>11, <1>12 DEF u

LEMMA LowerPlain ==
    ASSUME NEW s \in Path
    PROVE  /\ ToLower(s) \in Path /\ Len(ToLower(s)) = Len(s)
           /\ Plainly(s) => Plainly(ToLower(s))
           /\ EndsDark(s) => EndsDark(ToLower(s))
           /\ (ToLower(s) = <<>> <=> s = <<>>)
           /\ (ToLower(s) = s <=> "A" \notin Range(s))
  <1> DEFINE t == ToLower(s)
             n == Len(s)
  <1>1. "a" \in Chars  BY CharsOf
  <1>2. t \in Path /\ Len(t) = n /\ \A i \in 1..n : t[i] = IF s[i] = "A" THEN "a" ELSE s[i]
    BY <1>1, ReplaceType DEF ToLower
  <1>3. n \in Nat /\ (s = <<>> <=> n = 0) /\ DOMAIN s = 1..n
    <2>1. s \in Seq(Chars)  BY DEF Path
    <2> QED  BY <2>1, EmptySeq
  <1> HIDE DEF t
  <1>4. t = <<>> <=> n = 0
    <2>1. t \in Seq(Chars)  BY <1>2 DEF Path
    <2> QED  BY <1>2, <2>1, EmptySeq
  <1>5. Plainly(s) => Plainly(t)
    <2>1. "a" \notin {"/", "\\"}  OBVIOUS
    <2> QED  BY <1>2, <2>1 DEF Plainly
  <1>6. EndsDark(s) => EndsDark(t)
    <2>1. s # <<>> => n \in 1..n  BY <1>3
    <2> QED  BY <1>2, <1>3, <1>4, <2>1 DEF EndsDark
  <1>7. ASSUME "A" \notin Range(s) PROVE t = s
    <2>1. \A i \in 1..n : t[i] = s[i]  BY <1>2, <1>3, <1>7 DEF Range
    <2>2. t \in Seq(Chars) /\ s \in Seq(Chars) /\ Len(t) = Len(s)  BY <1>2 DEF Path
    <2> QED  BY <1>2, <2>1, <2>2, SeqEqual
  <1>8. ASSUME t = s PROVE "A" \notin Range(s)
    <2>1. \A i \in 1..n : s[i] # "A"  BY <1>2, <1>8
    <2> QED  BY <1>3, <2>1 DEF Range
  <1> QED  BY <1>2, <1>3, <1>4, <1>5, <1>6, <1>7, <1>8 DEF t, n

\* A text is what comes before its extension, and its extension.
LEMMA ExtSplit == \A s \in Path : \E p \in Path : s = p \o Ext(s)
  <1> SUFFICES ASSUME NEW s \in Path PROVE \E p \in Path : s = p \o Ext(s)  OBVIOUS
  <1> DEFINE l == LastIndex(s, ".")
             n == Len(s)
  <1>1. l \in 0..n /\ n \in Nat  BY LastOne DEF Path
  <1>2. Ext(s) = IF l = 0 THEN <<>> ELSE SubSeq(s, l, n)  BY DEF Ext
  <1>3. s \in Seq(Chars)  BY DEF Path
  <1> HIDE DEF l
  <1>4. CASE l = 0
    <2>1. s \o <<>> = s  BY <1>3, ConcatEmptySeq
    <2> QED  BY <1>2, <1>4, <2>1
  <1>5. CASE l # 0
    <2> DEFINE p == SubSeq(s, 1, l - 1)
    <2>1. l - 1 \in 0..Len(s)  BY <1>1, <1>5
    <2>2. p \in Seq(Chars)  BY <1>3, <2>1, Prefix
    <2>3. p \o SubSeq(s, l - 1 + 1, n) = SubSeq(s, 1, n)
      <3>1. 1 \in 1..Len(s) + 1 /\ l - 1 \in 1 - 1..Len(s) /\ n \in l - 1..Len(s)
        BY <1>1, <1>5
      <3> QED  BY <1>3, <3>1, ConcatAdjacentSubSeq
    <2>4. l - 1 + 1 = l  BY <1>1
    <2>5. SubSeq(s, 1, n) = s  BY <1>3, SubSeqFull
    <2>6. s = p \o Ext(s)  BY <1>2, <1>5, <2>3, <2>4, <2>5
    <2> HIDE DEF p
    <2> QED  BY <2>2, <2>6 DEF Path
  <1> QED  BY <1>4, <1>5

\* The base of a name without slashes is the name without the blanks around it,
\* or another one.
LEMMA PlainBase ==
    ASSUME NEW s \in Path, Plainly(s)
    PROVE  LET b == BaseName(s) IN b \in Path /\ Plainly(b) /\ EndsDark(b)
  <1> DEFINE u == TrimSpace(s)
             l == SelectLastInSeq(u, LAMBDA x : x # "/")
             t == SubSeq(u, 1, l)
  <1>1. Image \in Path /\ Plainly(Image) /\ EndsDark(Image)
    <2>1. Image \in Path /\ Len(Image) = 1 /\ Image[1] = "a" /\ Image # <<>>
      BY CharsOf DEF Image
    <2>2. \A i \in 1..1 : i = 1  OBVIOUS
    <2> QED  BY <2>1, <2>2 DEF Plainly, EndsDark
  <1>2. u \in Path /\ (u # <<>> => Plainly(u) /\ EndsDark(u))
    <2>1. s \in Seq(Chars)  BY DEF Path
    <2> DEFINE c == " "
    <2> HIDE DEF c
    <2>2. /\ Trim(s, c) \in Seq(Chars)
          /\ Trim(s, c) # <<>> =>
                \E f \in 1..Len(s), k \in 1..Len(s) :
                    /\ f <= k /\ s[f] # c /\ s[k] # c /\ Trim(s, c) = SubSeq(s, f, k)
                    /\ \A i \in 1..Len(s) : i < f \/ i > k => s[i] = c
      BY <2>1, TrimProps
    <2>3. ASSUME NEW f \in 1..Len(s), NEW k \in 1..Len(s), f <= k, s[k] # c
          PROVE  Plainly(SubSeq(s, f, k)) /\ EndsDark(SubSeq(s, f, k))
      <3> DEFINE q == SubSeq(s, f, k)
      <3>1. Len(s) \in Nat /\ f \in 1..Len(s) + 1 /\ k \in 0..Len(s)  BY <2>1
      <3>2. /\ q \in Path /\ Len(q) = IF f <= k THEN k - f + 1 ELSE 0
            /\ \A i \in 1..k - f + 1 : q[i] = s[f + i - 1]
        BY <3>1, Middle
      <3> HIDE DEF q
      <3>3. \A i \in 1..k - f + 1 : f + i - 1 \in 1..Len(s)  BY <3>1
      <3>4. Plainly(q)  BY <2>3, <3>2, <3>3 DEF Plainly
      <3>5. k - f + 1 \in 1..k - f + 1 /\ f + (k - f + 1) - 1 = k /\ k - f + 1 # 0
        BY <2>3
      <3>6. q[Len(q)] = s[k] /\ q # <<>>  BY <2>3, <3>2, <3>5
      <3>7. EndsDark(q)  BY <2>3, <3>6 DEF EndsDark, c
      <3> QED  BY <3>4, <3>7 DEF q
    <2>4. u = Trim(s, c)  BY DEF TrimSpace, c
    <2> QED  BY <2>2, <2>3, <2>4 DEF Path
  <1> HIDE DEF u
  <1>3. u # <<>> => Base(u) = u
    <2> SUFFICES ASSUME u # <<>> PROVE Base(u) = u  OBVIOUS
    <2>1. u \in Seq(Chars) /\ Plainly(u) /\ Len(u) \in Nat \ {0}  BY <1>2, EmptySeq DEF Path
    <2>2. l = Len(u)
      <3>1. /\ l \in 0..Len(u)
            /\ l = 0 <=> \A i \in 1..Len(u) : u[i] = "/"
            /\ l # 0 => u[l] # "/" /\ \A i \in 1..Len(u) : i > l => u[i] = "/"
        BY <2>1, LastOther
      <3> HIDE DEF l
      <3>2. Len(u) \in 1..Len(u) /\ u[Len(u)] # "/"  BY <2>1 DEF Plainly
      <3> QED  BY <2>1, <3>1, <3>2
    <2> HIDE DEF l
    <2>3. t = u  BY <2>1, <2>2, SubSeqFull
    <2>4. LastIndex(u, "/") = 0
      <3>1. /\ LastIndex(u, "/") \in 0..Len(u)
            /\ LastIndex(u, "/") = 0 <=> \A i \in 1..Len(u) : u[i] # "/"
        BY <2>1, LastOne
      <3> QED  BY <2>1, <3>1 DEF Plainly
    <2>5. Base(u) = IF u = <<>> THEN <<".">> ELSE IF t = <<>> THEN <<"/">>
                    ELSE SubSeq(t, LastIndex(t, "/") + 1, Len(t))
      BY DEF Base, t, l
    <2> HIDE DEF t
    <2>6. SubSeq(u, 0 + 1, Len(u)) = u  BY <2>1, SubSeqFull
    <2> QED  BY <2>3, <2>4, <2>5, <2>6
  <1>4. u = <<>> => Base(u) = <<".">>  BY DEF Base
  <1>5. BaseName(s) = IF Base(u) = <<".">> THEN Image ELSE Base(u)  BY DEF BaseName, u
  <1> QED  BY <1>1, <1>2, <1>3, <1>4, <1>5

LEMMA PlainParts ==
    ASSUME NEW s \in Path, Plainly(s)
    PROVE  /\ Slug(s) \in Path /\ Plainly(Slug(s))
           /\ StoredExt(s) \in Path /\ Plainly(StoredExt(s)) /\ EndsDark(StoredExt(s))
  <1> DEFINE b == BaseName(s)
             e == Ext(b)
  <1>1. b \in Path /\ Plainly(b) /\ EndsDark(b)  BY PlainBase
  <1> HIDE DEF b
  <1>2. e \in Path  BY <1>1, ExtType
  <1>3. Plainly(e) /\ (e # <<>> => EndsDark(e))
    <2>1. PICK p \in Path : b = p \o e  BY <1>1, ExtSplit
    <2> HIDE DEF e
    <2> QED  BY <1>1, <1>2, <2>1, PlainConcat
  <1> HIDE DEF e
  <1>4. /\ ToLower(e) \in Path /\ Plainly(ToLower(e))
        /\ (e # <<>> => EndsDark(ToLower(e))) /\ (ToLower(e) = <<>> <=> e = <<>>)
    BY <1>2, <1>3, LowerPlain
  <1>5. LET d == <<".">> \o Image IN d \in Path /\ Plainly(d) /\ EndsDark(d)
    <2> DEFINE d == <<".">> \o Image
    <2>1. d \in Path /\ Len(d) = 2 /\ d[1] = "." /\ d[2] = "a"
      BY DotWord DEF Image
    <2> HIDE DEF d
    <2>2. \A i \in 1..2 : i = 1 \/ i = 2  OBVIOUS
    <2>3. d # <<>>  BY <2>1
    <2>4. Plainly(d) /\ EndsDark(d)  BY <2>1, <2>2, <2>3 DEF Plainly, EndsDark
    <2> QED  BY <2>1, <2>4 DEF d
  <1>6. StoredExt(s) = IF ToLower(e) = <<>> THEN <<".">> \o Image ELSE ToLower(e)
    BY DEF StoredExt, e, b
  <1>7. Slug(s) \in Slugs  BY StoredShape
  <1>8. Slug(s) \in Path /\ Plainly(Slug(s))
    <2>1. \A i \in 1..Len(Slug(s)) : Slug(s)[i] \in {"a", "7", "-"}  BY <1>7 DEF Slugs
    <2>2. \A c \in {"a", "7", "-"} : c \notin {"/", "\\"}  OBVIOUS
    <2> QED  BY <1>7, <2>1, <2>2, SlugsArePaths DEF Plainly
  <1> QED  BY <1>4, <1>5, <1>6, <1>8

\* Cleaning changes nothing of the path of such a name.
LEMMA NothingNormalized ==
    ASSUME NEW rest \in Path, Plainly(rest), EndsDark(rest)
    PROVE  ReplaceAll(TrimSpace(Timed \o rest), "\\", "/") = Timed \o rest
  <1> DEFINE w == Timed \o rest
             c == " "
  <1>1. Timed \in Seq(Chars) /\ rest \in Seq(Chars) /\ Len(Timed) = 4
    BY TimedProps DEF Path
  <1>2. /\ w \in Seq(Chars) /\ Len(w) = Len(Timed) + Len(rest)
        /\ \A i \in 1..Len(Timed) + Len(rest) :
              w[i] = IF i <= Len(Timed) THEN Timed[i] ELSE rest[i - Len(Timed)]
    BY <1>1, ConcatProperties
  <1>3. Len(rest) \in Nat  BY <1>1
  <1>4. EndsDark(w)
    <2>1. Timed \in Path /\ rest # <<>>  BY TimedProps DEF EndsDark
    <2> QED  BY <2>1, PlainConcat
  <1> HIDE DEF w
  <1>5. w # <<>> /\ w[1] # " " /\ w[Len(w)] # " "
    <2>1. 1 \in 1..Len(Timed) + Len(rest) /\ 1 <= Len(Timed)  BY <1>1, <1>3
    <2>2. w[1] = "a"  BY <1>2, <2>1, TimedProps
    <2> QED  BY <1>4, <2>2 DEF EndsDark
  <1>6. TrimSpace(w) = w
    <2>1. <<>> \in Seq(Chars) /\ \A i \in 1..Len(<<>>) : <<>>[i] = " "  OBVIOUS
    <2>2. Trim((<<>> \o w) \o <<>>, " ") = w
      BY <1>2, <1>5, <2>1, TrimExact
    <2>3. (<<>> \o w) \o <<>> = w  BY <1>2, ConcatEmptySeq
    <2> QED  BY <2>2, <2>3 DEF TrimSpace
  <1>7. \A i \in 1..Len(w) : w[i] # "\\"
    <2> SUFFICES ASSUME NEW i \in 1..Len(w) PROVE w[i] # "\\"  OBVIOUS
    <2>1. CASE i <= Len(Timed)
      <3>1. i = 1 \/ i = 2 \/ i = 3 \/ i = 4  BY <1>1, <2>1
      <3> QED  BY <1>2, <2>1, <3>1, TimedProps
    <2>2. CASE ~ (i <= Len(Timed))
      <3>1. i - Len(Timed) \in 1..Len(rest)  BY <1>1, <1>2, <1>3, <2>2
      <3>2. w[i] = rest[i - Len(Timed)]  BY <1>2, <2>2
      <3> QED  BY <3>1, <3>2 DEF Plainly
    <2> QED  BY <2>1, <2>2
  <1>8. ReplaceAll(w, "\\", "/") = w
    <2> DEFINE r == ReplaceAll(w, "\\", "/")
    <2>1. /\ r \in Path /\ Len(r) = Len(w)
          /\ \A i \in 1..Len(w) : r[i] = IF w[i] = "\\" THEN "/" ELSE w[i]
      <3>1. w \in Path /\ "/" \in Chars  BY <1>2, CharsOf DEF Path
      <3> QED  BY <3>1, ReplaceType
    <2> HIDE DEF r
    <2>2. \A i \in 1..Len(r) : r[i] = w[i]  BY <1>7, <2>1
    <2>3. r \in Seq(Chars)  BY <2>1 DEF Path
    <2>4. r = w  BY <1>2, <2>1, <2>2, <2>3, SeqEqual
    <2> QED  BY <2>4 DEF r
  <1> QED  BY <1>6, <1>8 DEF w

\* Nor does splitting make more than one part of it, below uploads.
AddedTo(t, ps) ==
    Plainly(t) => /\ ps \in Seq(Path) /\ Len(ps) = 2 /\ ps[2] \in Path
                  /\ ps[2] = (Stamp \o <<"-">>) \o t

LEMMA RestAdded ==
    \A t \in Path : AddedTo(t, Splitting!Fold(Splitting!Fold(<< <<>> >>, Timed), t))
  <1> DEFINE b == Splitting!Fold(<< <<>> >>, Timed)
             h == Stamp \o <<"-">>
             T == {t \in Path : AddedTo(t, Splitting!Fold(b, t))}
  <1>1. b \in Seq(Path) /\ Len(b) = 2 /\ b[2] = h
    BY TimedParted DEF Parted
  <1>2. h \in Path
    <2>1. 2 \in 1..Len(b)  BY <1>1
    <2>2. b[2] \in Path  BY <1>1, <2>1
    <2> QED  BY <1>1, <2>2
  <1> HIDE DEF b, h
  <1>3. T \in SUBSET Seq(Chars)  BY DEF Path
  <1>4. <<>> \in T
    <2>1. <<>> \in Path /\ h \o <<>> = h  BY <1>2, EmptySeq, ConcatEmptySeq DEF Path
    <2>2. Splitting!Fold(b, <<>>) = b  BY Splitting!FoldEmpty
    <2> QED  BY <1>1, <1>2, <2>1, <2>2 DEF AddedTo, h
  <1>5. ASSUME NEW t \in T, NEW x \in Chars PROVE Append(t, x) \in T
    <2> DEFINE ps == Splitting!Fold(b, t)
               q == SplitStep(ps, x)
               u == Append(t, x)
    <2>1. t \in Seq(Chars) /\ t \in Path /\ AddedTo(t, ps)  BY DEF Path
    <2>2. Splitting!Fold(b, u) = q  BY <2>1, Splitting!FoldAppend
    <2>3. u \in Path  BY <2>1, AppendProperties DEF Path
    <2>4. SUFFICES ASSUME Plainly(u)
                   PROVE  q \in Seq(Path) /\ Len(q) = 2 /\ q[2] \in Path /\ q[2] = h \o u
      BY <2>2, <2>3 DEF AddedTo, h
    <2>5. Plainly(t) /\ x # "/"
      <3>1. /\ Len(u) = Len(t) + 1 /\ u[Len(t) + 1] = x /\ \A i \in 1..Len(t) : u[i] = t[i]
        BY <2>1, AppendProperties
      <3>2. Len(t) \in Nat  BY <2>1
      <3> HIDE DEF u
      <3>3. Len(t) + 1 \in 1..Len(u) /\ \A i \in 1..Len(t) : i \in 1..Len(u)  BY <3>1, <3>2
      <3> QED  BY <2>4, <3>1, <3>3 DEF Plainly
    <2>6. ps \in Seq(Path) /\ Len(ps) = 2 /\ ps[2] \in Path /\ ps[2] = h \o t
      BY <2>1, <2>5 DEF AddedTo, h
    <2> HIDE DEF ps, q
    <2>7. /\ q \in Seq(Path) /\ Len(q) = Len(ps)
          /\ q[Len(ps)] = Append(ps[Len(ps)], x)
      <3>1. ps \in Seq(Path)  BY <2>6
      <3>2. ps # <<>>
        <4>1. Len(<<>>) = 0  OBVIOUS
        <4>2. Len(ps) = 2  BY <2>6
        <4> QED  BY <4>1, <4>2
      <3> QED  BY <2>5, <3>1, <3>2, AddsToPart DEF q
    <2>8. h \o u = Append(h \o t, x)
      <3>1. h \in Seq(Chars)  BY <1>2 DEF Path
      <3> QED  BY <2>1, <3>1, ConcatAppend
    <2>9. q[2] \in Path
      <3>1. 2 \in 1..Len(q)  BY <2>6, <2>7
      <3> QED  BY <2>7, <3>1
    <2> HIDE DEF u
    <2> QED  BY <2>6, <2>7, <2>8, <2>9
  <1>6. T = Seq(Chars)
    <2> HIDE DEF T
    <2> QED  BY <1>3, <1>4, <1>5, Splitting!SeqSetInduction
  <1> QED  BY <1>6 DEF b, Path

\* The file of a name without slashes: the time, its slug and its extension.
LEMMA StoredFile ==
    ASSUME NEW s \in Path, Plainly(s)
    PROVE  cleanImagePath(buildStoredImagePath(s))[2]
              = (Stamp \o <<"-">>) \o (Slug(s) \o StoredExt(s))
  <1> DEFINE rest == Slug(s) \o StoredExt(s)
             stored == buildStoredImagePath(s)
             parts == Split(ReplaceAll(TrimSpace(stored), "\\", "/"))
  <1>1. /\ Slug(s) \in Path /\ Plainly(Slug(s))
        /\ StoredExt(s) \in Path /\ Plainly(StoredExt(s)) /\ EndsDark(StoredExt(s))
    BY PlainParts
  <1>2. rest \in Path /\ Plainly(rest) /\ EndsDark(rest)
    <2>1. StoredExt(s) # <<>>  BY <1>1 DEF EndsDark
    <2> QED  BY <1>1, <2>1, PlainConcat
  <1>3. stored = Timed \o rest  BY StoredShape
  <1>4. cleanImagePath(stored)[2] = parts[2]  BY NameIsTaken DEF StoredParts
  <1> HIDE DEF rest, stored
  <1>5. parts = Splitting!Fold(<< <<>> >>, Timed \o rest)
    BY <1>2, <1>3, NothingNormalized, SplitFold
  <1>6. Splitting!Fold(<< <<>> >>, Timed \o rest)
          = Splitting!Fold(Splitting!Fold(<< <<>> >>, Timed), rest)
    <2>1. Timed \in Seq(Chars) /\ rest \in Seq(Chars)  BY <1>2, TimedProps DEF Path
    <2> QED  BY <2>1, Splitting!FoldConcat
  <1> HIDE DEF parts
  <1>7. parts[2] = (Stamp \o <<"-">>) \o rest
    BY <1>2, <1>5, <1>6, RestAdded DEF AddedTo
  <1> QED  BY <1>4, <1>7 DEF stored, rest

\* A name of any length is stored under its words and its extension: of what
\* slugFilename, TrimSuffix and cleanImagePath do to it nothing more is lost.
THEOREM AlwaysNameAndExtensionKept ==
    NameInit /\ [][NameStep]_filename => []NameAndExtensionKept
  <1>1. filename \in Path => NameAndExtensionKept
    <2> SUFFICES ASSUME filename \in Path, Range(filename) \cap {"/", "\\"} = {}
                 PROVE  LET ext == Ext(BaseName(filename))
                            stem == WordsOf(TrimSuffix(BaseName(filename), ext))
                            file == cleanImagePath(buildStoredImagePath(filename))[2]
                        IN  /\ IsPrefix(Stamp \o <<"-">> \o stem, file)
                            /\ IsSuffix(ToLower(ext), file)
                            /\ "A" \notin Range(ext) /\ stem # <<>> /\ ext # <<>> =>
                                   file = Stamp \o <<"-">> \o stem \o ext
      BY Zenon DEF NameAndExtensionKept
    <2> DEFINE b == BaseName(filename)
               e == Ext(b)
               x == ToLower(e)
               stem == WordsOf(TrimSuffix(b, e))
               slugged == slugFilename(TrimSuffix(b, x))
               h == Stamp \o <<"-">>
               s == Slug(filename)
               d == StoredExt(filename)
               file == cleanImagePath(buildStoredImagePath(filename))[2]
    <2>1. Plainly(filename)
      <3>1. DOMAIN filename = 1..Len(filename)  BY DEF Path
      <3> QED  BY <3>1 DEF Plainly, Range
    <2>2. file = h \o (s \o d)  BY <2>1, StoredFile
    <2>3. s \in Path /\ d \in Path  BY <2>1, PlainParts
    <2>4. s = IF slugged = <<>> THEN Image ELSE slugged  BY DEF Slug
    <2>5. d = IF x = <<>> THEN <<".">> \o Image ELSE x  BY DEF StoredExt
    <2>6. h \in Path
      <3>1. "-" \in Chars /\ Stamp \in Seq(Chars)  BY CharsOf DEF Path
      <3>2. h = Append(Stamp, "-")  BY <3>1, AppendIsConcat
      <3> HIDE DEF h
      <3> QED  BY <3>1, <3>2, AppendProperties DEF Path
    <2>7. b \in Path /\ e \in Path  BY <2>1, PlainBase, ExtType
    <2>8. PICK p \in Path : b = p \o e  BY <2>7, ExtSplit
    <2> HIDE DEF b, h, s, d, file
    <2>9. TrimSuffix(p \o e, e) = p  BY <2>7, SuffixTrimmed
    <2>10. x \in Path /\ Len(x) = Len(e) /\ (x = e <=> "A" \notin Range(e)) /\ (x = <<>> <=> e = <<>>)
      <3> HIDE DEF e
      <3> QED  BY <2>7, LowerPlain
    <2> HIDE DEF e, x
    <2>11. TrimSuffix(p \o e, x) = IF x = e THEN p ELSE p \o e
      BY <2>7, <2>10, SuffixTrimmed
    <2>12. stem = WordsOf(p)  BY <2>8, <2>9
    <2>13. slugged = IF x = e THEN WordsOf(p) ELSE WordsOf(p \o e)
      <3>1. p \o e \in Path  BY <2>7, ConcatProperties DEF Path
      <3> QED  BY <2>8, <2>11, <3>1, SlugIsWords
    <2> HIDE DEF stem, slugged
    <2>14. stem \in Path /\ \E w \in Path : slugged = stem \o w
      <3>1. ToLower(p) \in Path /\ ToLower(e) \in Path  BY <2>7, LowerPlain
      <3>2. WordsOf(p) \in Path  BY <3>1, WordsNone, WordsOfLow
      <3>3. \E w \in Path : WordsOf(p \o e) = WordsOf(p) \o w
        <4>1. ToLower(p \o e) = ToLower(p) \o ToLower(e)  BY <2>7, LowerConcat
        <4>2. \E w \in Path : WordsIn(ToLower(p) \o ToLower(e)) = WordsIn(ToLower(p)) \o w
          BY <3>1, WordsAround DEF Around
        <4> QED  BY <4>1, <4>2, WordsOfLow
      <3>4. <<>> \in Path /\ WordsOf(p) \o <<>> = WordsOf(p)
        BY <3>2, EmptySeq, ConcatEmptySeq DEF Path
      <3> QED  BY <2>12, <2>13, <3>2, <3>3, <3>4
    <2>15. \E w \in Path : s = stem \o w
      <3>1. CASE slugged = <<>>
        <4>1. stem = <<>>
          <5>1. PICK w \in Path : slugged = stem \o w  BY <2>14
          <5>2. stem \in Seq(Chars) /\ w \in Seq(Chars)  BY <2>14 DEF Path
          <5> QED  BY <3>1, <5>1, <5>2, ConcatNothing
        <4>2. Image \in Path /\ <<>> \o Image = Image  BY CharsOf, ConcatEmptySeq DEF Path
        <4> QED  BY <2>4, <3>1, <4>1, <4>2
      <3>2. CASE slugged # <<>>
        BY <2>4, <2>14, <3>2
      <3> QED  BY <3>1, <3>2
    <2>16. PICK w \in Path : s = stem \o w  BY <2>15
    <2>17. /\ h \o stem \in Path /\ w \o d \in Path /\ s \o d \in Path /\ h \o s \in Path
      BY <2>3, <2>6, <2>14, ConcatProperties DEF Path
    <2>18. ASSUME NEW u \in Path, NEW v \in Path, NEW t \in Path
           PROVE  (u \o v) \o t = u \o (v \o t)
      <3>1. u \in Seq(Chars) /\ v \in Seq(Chars) /\ t \in Seq(Chars)  BY DEF Path
      <3> QED  BY <3>1, ConcatAssociative
    <2>19. IsPrefix(h \o stem, file)
      <3>1. s \o d = stem \o (w \o d)
        <4>1. (stem \o w) \o d = stem \o (w \o d)
          <5>1. stem \in Path /\ w \in Path /\ d \in Path  BY <2>3, <2>14
          <5> QED  BY <2>18, <5>1
        <4> QED  BY <2>16, <4>1
      <3>2. file = (h \o stem) \o (w \o d)
        <4>1. (h \o stem) \o (w \o d) = h \o (stem \o (w \o d))
          BY <2>6, <2>14, <2>17, <2>18
        <4> QED  BY <2>2, <3>1, <4>1
      <3> QED  BY <2>17, <3>2, PrefixOfConcat
    <2>20. IsSuffix(x, file)
      <3>1. file = (h \o s) \o d  BY <2>2, <2>3, <2>6, <2>18
      <3>2. CASE x # <<>>
        BY <2>3, <2>5, <2>17, <3>1, <3>2, SuffixOfConcat
      <3>3. CASE x = <<>>
        <4>1. file \in Path  BY <2>3, <2>17, <3>1, ConcatProperties DEF Path
        <4>2. <<>> \in Path /\ file \o <<>> = file
          BY <4>1, EmptySeq, ConcatEmptySeq DEF Path
        <4> QED  BY <3>3, <4>1, <4>2, SuffixOfConcat
      <3> QED  BY <3>2, <3>3
    <2>21. ASSUME "A" \notin Range(e), stem # <<>>, e # <<>> PROVE file = h \o stem \o e
      <3>1. x = e  BY <2>10, <2>21
      <3>2. slugged = stem  BY <2>12, <2>13, <3>1
      <3>3. s = stem /\ d = e  BY <2>4, <2>5, <2>21, <3>1, <3>2
      <3>4. (h \o stem) \o e = h \o (stem \o e)
        BY <2>6, <2>7, <2>14, <2>18
      <3> QED  BY <2>2, <3>3, <3>4
    <2> QED  BY <2>19, <2>20, <2>21 DEF h, stem, x, e, b, file
  <1> QED  BY <1>1, NameType, PTL

-----------------------------------------------------------------------------
(* The life of an invite.                                                  *)

HoursInv == hours \in Nat

\* A natural number that fits is kept by the conversion, and none grows.
LEMMA Wraps ==
    ASSUME NEW x \in Nat
    PROVE  /\ x <= MaxInt => int64(x) = x
           /\ int64(x) \in Int /\ int64(x) <= x
  <1> DEFINE w == 2 * (MaxInt + 1)
             y == x + MaxInt + 1
  <1>1. w \in Nat \ {0} /\ y \in Nat  BY TtlAssumption
  <1>2. y % w \in Nat /\ y % w <= y  BY <1>1
  <1>3. ASSUME x <= MaxInt PROVE y % w = y  BY <1>1, <1>3, TtlAssumption
  <1>4. int64(x) = (y % w) - (MaxInt + 1)  BY DEF int64
  <1> HIDE DEF w
  <1> QED  BY <1>1, <1>2, <1>3, <1>4, TtlAssumption

\* An invite ends when it was asked to, as long as the nanoseconds fit, and
\* without an end it was asked for so or does not fit (inviteCreateHandler).
THEOREM TtlAlwaysHonoured == TtlInit /\ [][TtlStep]_hours => []TtlHonoured
  <1>1. TtlInit => HoursInv  BY DEF TtlInit, HoursInv
  <1>2. HoursInv /\ [TtlStep]_hours => HoursInv'  BY DEF TtlStep, HoursInv
  <1>3. HoursInv => TtlHonoured
    <2> SUFFICES ASSUME HoursInv PROVE TtlHonoured  OBVIOUS
    <2> DEFINE asked == hours * Hour
    <2>1. asked \in Nat /\ (asked = 0 <=> hours = 0)  BY TtlAssumption, Z3 DEF HoursInv
    <2>2. /\ asked <= MaxInt => Duration(hours) = asked
          /\ Duration(hours) \in Int /\ Duration(hours) <= asked
      BY <2>1, Wraps DEF Duration
    <2> HIDE DEF asked
    <2>3. /\ asked <= MaxInt => ExpiresAfter(Duration(hours)) = IF hours = 0 THEN NoEnd ELSE asked
          /\ ExpiresAfter(Duration(hours)) = NoEnd => hours = 0 \/ asked > MaxInt
          /\ ExpiresAfter(Duration(hours)) # NoEnd => ExpiresAfter(Duration(hours)) <= asked
      BY <2>1, <2>2, TtlAssumption DEF ExpiresAfter, NoEnd
    <2> QED  BY <2>3 DEF TtlHonoured, asked
  <1> QED  BY <1>1, <1>2, <1>3, PTL

-----------------------------------------------------------------------------
(* Html: what a page is made of.                                           *)

\* Arguments that are not lists, with children among the first m nodes.
PlainUpTo(m) ==
    {nil} \cup {Text(s) : s \in Words} \cup {Raw(s) : s \in Words}
    \cup {Attr(k, v) : k \in Keys, v \in Words} \cup {UrlAttr(k, u) : k \in Keys, u \in Urls}
    \cup {Child(n) : n \in 1..m}
Args(m) == PlainUpTo(m) \cup {Ch(c) : c \in Seq(PlainUpTo(m))}

\* A node whose children are among the first m.
Node(m) ==
    [Name : Tags \cup {""},
     Attrs : UNION {[K -> Words] : K \in SUBSET Keys},
     DynamicAttrs : UNION {[K -> Urls] : K \in SUBSET Keys},
     Children : Seq(1..m), text : Words \cup {""}, raw : Words \cup {""}]

\* Every node is what its arguments make, and refers to nodes made before it;
\* Nil() is the only one without a tag.
AnyNode == UNION {Node(m) : m \in Nat}
AnyMade == [tag : Tags \cup {""}, args : UNION {Seq(Args(m)) : m \in Nat}]
HtmlInv ==
    /\ heap \in Seq(AnyNode) /\ made \in Seq(AnyMade)
    /\ Len(heap) = Len(made) /\ Len(heap) >= 1
    /\ \A n \in 1..Len(heap) :
          /\ heap[n] \in Node(n - 1) /\ heap[n] = NewNode(made[n].tag, made[n].args)
          /\ made[n].args \in Seq(Args(n - 1)) /\ (made[n].tag = "" => n = 1)
    /\ heap[1] = Nil /\ made[1].tag = ""

Plains == INSTANCE FoldLemmas WITH Op <- Plain
Inits == INSTANCE FoldLemmas WITH Op <- NodeInit

LEMMA PlainFold ==
    \A s, ops : FoldLeft(Plain, s, ops) = Plains!Fold(s, ops)
  BY Zenon DEF FoldLeft, MapThenFoldSet, Max, Plains!Fold, Plains!FoldLeft,
               Plains!MapThenFoldSet, Plains!Max

LEMMA InitFold ==
    \A s, args : FoldLeft(NodeInit, s, args) = Inits!Fold(s, args)
  BY Zenon DEF FoldLeft, MapThenFoldSet, Max, Inits!Fold, Inits!FoldLeft,
               Inits!MapThenFoldSet, Inits!Max

LEMMA AssignedType ==
    ASSUME NEW V, NEW a \in UNION {[K -> V] : K \in SUBSET Keys}, NEW k \in Keys, NEW v \in V
    PROVE  Assigned(a, k, v) \in UNION {[K -> V] : K \in SUBSET Keys}
  <1>1. PICK K \in SUBSET Keys : a \in [K -> V]  OBVIOUS
  <1>2. Assigned(a, k, v) \in [K \cup {k} -> V]  BY <1>1 DEF Assigned
  <1>3. K \cup {k} \in SUBSET Keys  BY <1>1
  <1> QED  BY <1>2, <1>3

LEMMA PlainType ==
    ASSUME NEW m \in Nat, NEW s \in Node(m), NEW o \in PlainUpTo(m)
    PROVE  Plain(s, o) \in Node(m)
  <1>1. CASE o = nil  BY <1>1 DEF Plain, nil
  <1>2. CASE \E x \in Words : o = Text(x)
    <2>1. PICK x \in Words : o = Text(x)  BY <1>2
    <2>2. Plain(s, o) = [s EXCEPT !.text = x]  BY <2>1 DEF Plain, Text
    <2> QED  BY <2>2 DEF Node
  <1>3. CASE \E x \in Words : o = Raw(x)
    <2>1. PICK x \in Words : o = Raw(x)  BY <1>3
    <2>2. Plain(s, o) = [s EXCEPT !.raw = x]  BY <2>1 DEF Plain, Raw
    <2> QED  BY <2>2 DEF Node
  <1>4. CASE \E k \in Keys, v \in Words : o = Attr(k, v)
    <2>1. PICK k \in Keys, v \in Words : o = Attr(k, v)  BY <1>4
    <2>2. Plain(s, o) = [s EXCEPT !.Attrs = Assigned(@, k, v)]  BY <2>1 DEF Plain, Attr
    <2>3. Assigned(s.Attrs, k, v) \in UNION {[K -> Words] : K \in SUBSET Keys}
      BY AssignedType DEF Node
    <2> QED  BY <2>2, <2>3 DEF Node
  <1>5. CASE \E k \in Keys, u \in Urls : o = UrlAttr(k, u)
    <2>1. PICK k \in Keys, u \in Urls : o = UrlAttr(k, u)  BY <1>5
    <2>2. Plain(s, o) = [s EXCEPT !.DynamicAttrs = Assigned(@, k, u)]  BY <2>1 DEF Plain, UrlAttr
    <2>3. Assigned(s.DynamicAttrs, k, u) \in UNION {[K -> Urls] : K \in SUBSET Keys}
      BY AssignedType DEF Node
    <2> QED  BY <2>2, <2>3 DEF Node
  <1>6. CASE \E n \in 1..m : o = Child(n)
    <2>1. PICK n \in 1..m : o = Child(n)  BY <1>6
    <2>2. Plain(s, o) = [s EXCEPT !.Children = Append(@, n)]  BY <2>1 DEF Plain, Child
    <2>3. Append(s.Children, n) \in Seq(1..m)  BY AppendProperties DEF Node
    <2> QED  BY <2>2, <2>3 DEF Node
  <1> QED  BY <1>1, <1>2, <1>3, <1>4, <1>5, <1>6 DEF PlainUpTo

LEMMA PlainsType ==
    ASSUME NEW m \in Nat, NEW s \in Node(m)
    PROVE  \A ops \in Seq(PlainUpTo(m)) : Plains!Fold(s, ops) \in Node(m)
  <1>1. \A a \in Node(m) : \A o \in PlainUpTo(m) : Plain(a, o) \in Node(m)  BY PlainType
  <1> QED  BY <1>1, Plains!FoldType

\* An argument is a list, or else it is not.
LEMMA ListOrNot ==
    ASSUME NEW m, NEW o \in Args(m)
    PROVE  \/ o.op = "list" /\ o.c \in Seq(PlainUpTo(m))
           \/ o.op # "list" /\ o \in PlainUpTo(m)
  <1>1. \A p \in PlainUpTo(m) : p.op # "list"
    BY DEF PlainUpTo, nil, Text, Raw, Attr, UrlAttr, Child
  <1>2. \A c : Ch(c).op = "list" /\ Ch(c).c = c  BY DEF Ch
  <1> QED  BY <1>1, <1>2 DEF Args

LEMMA InitType ==
    ASSUME NEW m \in Nat, NEW s \in Node(m), NEW o \in Args(m)
    PROVE  NodeInit(s, o) \in Node(m)
  <1>1. CASE o.op = "list" /\ o.c \in Seq(PlainUpTo(m))
    <2>1. NodeInit(s, o) = Plains!Fold(s, o.c)  BY <1>1, PlainFold, Zenon DEF NodeInit
    <2> QED  BY <1>1, <2>1, PlainsType
  <1>2. CASE o.op # "list" /\ o \in PlainUpTo(m)
    <2>1. NodeInit(s, o) = Plain(s, o)  BY <1>2 DEF NodeInit
    <2> QED  BY <1>2, <2>1, PlainType
  <1> QED  BY <1>1, <1>2, ListOrNot

LEMMA EmptyType == ASSUME NEW m \in Nat, NEW tag \in Tags \cup {""} PROVE EmptyNode(tag) \in Node(m)
  <1>1. \A V : NoAttrs \in UNION {[K -> V] : K \in SUBSET Keys}
    <2>1. \A V : NoAttrs \in [{} -> V]  BY DEF NoAttrs
    <2>2. {} \in SUBSET Keys  OBVIOUS
    <2> QED  BY <2>1, <2>2, Zenon
  <1>2. <<>> \in Seq(1..m)  BY EmptySeq
  <1> QED  BY <1>1, <1>2 DEF EmptyNode, Node

LEMMA NewNodeType ==
    ASSUME NEW m \in Nat, NEW tag \in Tags \cup {""}
    PROVE  \A args \in Seq(Args(m)) : NewNode(tag, args) \in Node(m)
  <1>1. \A a \in Node(m) : \A o \in Args(m) : NodeInit(a, o) \in Node(m)  BY InitType
  <1>2. \A args \in Seq(Args(m)) : Inits!Fold(EmptyNode(tag), args) \in Node(m)
    BY <1>1, EmptyType, Inits!FoldType
  <1> QED  BY <1>2, InitFold, Zenon DEF NewNode

LEMMA SingletonType ==
    ASSUME NEW S, NEW x \in S
    PROVE  <<x>> \in Seq(S)
  OBVIOUS

LEMMA PairType ==
    ASSUME NEW S, NEW x \in S, NEW y \in S
    PROVE  <<x, y>> \in Seq(S)
  OBVIOUS

LEMMA BoundedType ==
    ASSUME NEW S, NEW n, NEW c \in BoundedSeq(S, n)
    PROVE  c \in Seq(S)
  <1>1. PICK m \in 0..n : c \in [1..m -> S]  BY Zenon DEF BoundedSeq, SeqOf
  <1>2. m \in Nat  BY <1>1
  <1> QED  BY <1>1, <1>2

LEMMA ArgumentsType ==
    ASSUME HtmlInv
    PROVE  Arguments \subseteq Seq(Args(Len(heap)))
  <1> DEFINE m == Len(heap)
  <1>1. m \in Nat /\ DOMAIN heap = 1..m
    <2>1. heap \in Seq(AnyNode)  BY DEF HtmlInv
    <2> QED  BY <2>1
  <1> HIDE DEF m
  <1>2. PlainArgs = PlainUpTo(m)  BY <1>1 DEF PlainArgs, PlainUpTo
  <1>3. \A p \in PlainArgs : p \in Args(m)  BY <1>2 DEF Args
  <1>4. \A n : \A c \in BoundedSeq(PlainArgs, n) : Ch(c) \in Args(m)
    BY <1>2, BoundedType DEF Args
  <1>6. SUFFICES ASSUME NEW a \in Arguments PROVE a \in Seq(Args(m))  BY DEF m
  <1>7. CASE a = <<>>  BY <1>7, EmptySeq
  <1>8. CASE \E p \in PlainArgs : a = <<p>>  BY <1>3, <1>8, SingletonType
  <1>9. CASE \E c \in BoundedSeq(PlainArgs, MaxList) : a = <<Ch(c)>>
    BY <1>4, <1>9, SingletonType
  <1>10. CASE \E p \in PlainArgs, c \in BoundedSeq(PlainArgs, MaxList - 1) : a = <<p, Ch(c)>>
    BY <1>3, <1>4, <1>10, PairType
  <1> QED  BY <1>6, <1>7, <1>8, <1>9, <1>10 DEF Arguments

LEMMA HtmlInvariant == HtmlInit /\ [][HtmlStep]_<<heap, made>> => []HtmlInv
  <1>1. HtmlInit => HtmlInv
    <2> SUFFICES ASSUME HtmlInit PROVE HtmlInv  OBVIOUS
    <2>1. Nil \in Node(0)  BY EmptyType DEF Nil
    <2>2. Nil \in AnyNode  BY <2>1 DEF AnyNode
    <2>3. heap = <<Nil>> /\ heap \in Seq(AnyNode)  BY <2>2, SingletonType DEF HtmlInit
    <2>4. [tag |-> "", args |-> <<>>] \in AnyMade
      <3>1. <<>> \in Seq(Args(0))  BY EmptySeq
      <3> QED  BY <3>1 DEF AnyMade
    <2>5. made = <<[tag |-> "", args |-> <<>>]>> /\ made \in Seq(AnyMade)
      BY <2>4, SingletonType DEF HtmlInit
    <2>6. Len(heap) = 1 /\ heap[1] = Nil  BY <2>3
    <2>7. Len(made) = 1 /\ made[1].tag = "" /\ made[1].args = <<>>  BY <2>5
    <2>8. NewNode("", <<>>) = Nil  BY InitFold, Inits!FoldEmpty, Zenon DEF NewNode, Nil
    <2>9. <<>> \in Seq(Args(0))  BY EmptySeq
    <2>10. 1 - 1 = 0 /\ \A n \in 1..1 : n = 1  OBVIOUS
    <2> HIDE DEF HtmlInit
    <2>11. ASSUME NEW n \in 1..Len(heap)
           PROVE  /\ heap[n] \in Node(n - 1) /\ heap[n] = NewNode(made[n].tag, made[n].args)
                  /\ made[n].args \in Seq(Args(n - 1)) /\ (made[n].tag = "" => n = 1)
      <3>1. n = 1  BY <2>6, <2>10
      <3>2. heap[n] = Nil /\ made[n].tag = "" /\ made[n].args = <<>> /\ n - 1 = 0
        BY <3>1, <2>6, <2>7, <2>10
      <3> QED  BY <3>1, <3>2, <2>1, <2>8, <2>9, Zenon
    <2>12. heap \in Seq(AnyNode) /\ made \in Seq(AnyMade)  BY <2>3, <2>5
    <2>13. Len(heap) = Len(made) /\ Len(heap) >= 1  
      <3>1. Len(heap) = 1  BY <2>6
      <3>2. Len(made) = 1  BY <2>7
      <3>3. 1 >= 1  OBVIOUS
      <3> QED  BY <3>1, <3>2, <3>3, Zenon
    <2> QED  BY <2>6, <2>7, <2>11, <2>12, <2>13, Zenon DEF HtmlInv
  <1>2. HtmlInv /\ [HtmlStep]_<<heap, made>> => HtmlInv'
    <2> SUFFICES ASSUME HtmlInv, [HtmlStep]_<<heap, made>> PROVE HtmlInv'  OBVIOUS
    <2>1. CASE UNCHANGED <<heap, made>>  BY <2>1 DEF HtmlInv
    <2>2. CASE HtmlStep
      <3>1. PICK tag \in Tags, args \in Arguments : Make(tag, args)  BY <2>2 DEF HtmlStep
      <3> DEFINE m == Len(heap)
                 s == NewNode(tag, args)
                 r == [tag |-> tag, args |-> args]
      <3>2. heap \in Seq(AnyNode) /\ made \in Seq(AnyMade) /\ m = Len(made) /\ m >= 1
        BY DEF HtmlInv
      <3>3. m \in Nat /\ m + 1 \in Nat /\ (m + 1) - 1 = m  BY <3>2
      <3>4. heap' = Append(heap, s) /\ made' = Append(made, r)  BY <3>1 DEF Make
      <3>5. args \in Seq(Args(m))  BY ArgumentsType
      <3>6. s \in Node(m)  BY <3>3, <3>5, NewNodeType
      <3>7. s \in AnyNode  BY <3>3, <3>6 DEF AnyNode
      <3>8. r \in AnyMade  BY <3>3, <3>5 DEF AnyMade
      <3>9. r.tag = tag /\ r.args = args /\ r.tag # ""  BY HtmlAssumption
      <3>10. s = NewNode(r.tag, r.args)  BY <3>9
      <3> HIDE DEF m, s, r
      <3>11. /\ heap' \in Seq(AnyNode) /\ Len(heap') = m + 1 /\ heap'[m + 1] = s
             /\ \A n \in 1..m : heap'[n] = heap[n]
        BY <3>2, <3>4, <3>7, AppendProperties DEF m
      <3>12. /\ made' \in Seq(AnyMade) /\ Len(made') = m + 1 /\ made'[m + 1] = r
             /\ \A n \in 1..m : made'[n] = made[n]
        BY <3>2, <3>4, <3>8, AppendProperties
      <3>13. ASSUME NEW n \in 1..m + 1
             PROVE  /\ heap'[n] \in Node(n - 1) /\ heap'[n] = NewNode(made'[n].tag, made'[n].args)
                    /\ made'[n].args \in Seq(Args(n - 1)) /\ (made'[n].tag = "" => n = 1)
        <4>1. CASE n = m + 1
          BY <3>3, <3>5, <3>6, <3>9, <3>10, <3>11, <3>12, <4>1
        <4>2. CASE n # m + 1
          <5>1. n \in 1..m  BY <3>3, <4>2
          <5>2. heap'[n] = heap[n] /\ made'[n] = made[n]  BY <3>11, <3>12, <5>1
          <5> QED  BY <5>1, <5>2 DEF HtmlInv, m
        <4> QED  BY <4>1, <4>2
      <3>14. heap'[1] = Nil /\ made'[1].tag = ""
        <4>1. 1 \in 1..m  BY <3>2, <3>3
        <4> QED  BY <3>11, <3>12, <4>1 DEF HtmlInv
      <3>15. Len(heap') = Len(made') /\ Len(heap') >= 1  BY <3>2, <3>3, <3>11, <3>12
      <3> QED  BY <3>11, <3>12, <3>13, <3>14, <3>15 DEF HtmlInv
    <2> QED  BY <2>1, <2>2
  <1> QED  BY <1>1, <1>2, PTL

-----------------------------------------------------------------------------
(* Html: the recursion of RenderCtx.                                       *)

Inner(s, page) == [i \in DOMAIN s.Children |-> page[s.Children[i]]]
Contents(s, page) == Shown("text", s.text) \o Shown("raw", s.raw) \o FlattenSeq(Inner(s, page))
Show(base, n, page) == Tagged(heap[n], base, Contents(heap[n], page))
ShowRooted(n, page) == Show(<<Root>>, n, page)
ShowBare(n, page) == Show(<<>>, n, page)
InsideStep(n, in) == {n} \cup UNION {in[c] : c \in Range(heap[n].Children)}

Rooting == INSTANCE FoldLemmas WITH Op <- ShowRooted
Baring == INSTANCE FoldLemmas WITH Op <- ShowBare
Entering == INSTANCE FoldLemmas WITH Op <- InsideStep

LEMMA HeapFacts ==
    ASSUME HtmlInv
    PROVE  /\ Len(heap) \in Nat /\ DOMAIN heap = 1..Len(heap)
           /\ \A n \in 1..Len(heap) :
                 /\ n \in Nat /\ n - 1 \in Nat /\ heap[n] \in Node(n - 1)
                 /\ DOMAIN heap[n].Children = 1..Len(heap[n].Children)
                 /\ Len(heap[n].Children) \in Nat
                 /\ \A i \in 1..Len(heap[n].Children) : heap[n].Children[i] \in 1..n - 1
  <1>1. heap \in Seq(AnyNode)  BY DEF HtmlInv
  <1>2. Len(heap) \in Nat /\ DOMAIN heap = 1..Len(heap)  BY <1>1
  <1>3. ASSUME NEW n \in 1..Len(heap)
        PROVE  /\ n \in Nat /\ n - 1 \in Nat /\ heap[n] \in Node(n - 1)
               /\ DOMAIN heap[n].Children = 1..Len(heap[n].Children)
               /\ Len(heap[n].Children) \in Nat
               /\ \A i \in 1..Len(heap[n].Children) : heap[n].Children[i] \in 1..n - 1
    <2>1. heap[n] \in Node(n - 1)  BY DEF HtmlInv
    <2>2. heap[n].Children \in Seq(1..n - 1)  BY <2>1 DEF Node
    <2>3. n \in Nat /\ n - 1 \in Nat  BY <1>2
    <2> QED  BY <2>1, <2>2, <2>3
  <1> QED  BY <1>2, <1>3

\* What a node holds is rendered before it.
LEMMA InnerLooksBack ==
    ASSUME HtmlInv, NEW n \in 1..Len(heap), NEW f, NEW g, \A m \in 1..n - 1 : f[m] = g[m]
    PROVE  Inner(heap[n], f) = Inner(heap[n], g)
  <1>1. \A i \in DOMAIN heap[n].Children : f[heap[n].Children[i]] = g[heap[n].Children[i]]
    BY HeapFacts
  <1> QED  BY <1>1, Zenon DEF Inner

LEMMA ShowLooksBack ==
    ASSUME HtmlInv, NEW n \in 1..Len(heap), NEW f, NEW g, \A m \in 1..n - 1 : f[m] = g[m],
           NEW base
    PROVE  Show(base, n, f) = Show(base, n, g)
  <1>1. Inner(heap[n], f) = Inner(heap[n], g)  BY InnerLooksBack
  <1> QED  BY <1>1, Zenon DEF Show, Contents

\* A page is what its equation says.
IsPage(page, base) == page = [n \in DOMAIN heap |-> Show(base, n, page)]

LEMMA PageIs ==
    ASSUME NEW base, \E r : IsPage(r, base)
    PROVE  IsPage(RenderCtx(base), base)
  <1> DEFINE r == CHOOSE r : r = [n \in DOMAIN heap |->
                    Tagged(heap[n], base, Shown("text", heap[n].text) \o Shown("raw", heap[n].raw)
                        \o FlattenSeq([i \in DOMAIN heap[n].Children |-> r[heap[n].Children[i]]]))]
  <1>1. IsPage(r, base)  BY Zenon DEF IsPage, Show, Contents, Inner
  <1>2. RenderCtx(base) = r  BY Zenon DEF RenderCtx
  <1> HIDE DEF r
  <1> QED  BY <1>1, <1>2

LEMMA RootedPage == ASSUME HtmlInv PROVE IsPage(RenderCtx(<<Root>>), <<Root>>)
  <1> DEFINE N == Len(heap)
  <1>1. N \in Nat /\ DOMAIN heap = 1..N  BY HeapFacts
  <1>2. ASSUME NEW n \in 1..N, NEW f, NEW g, \A m \in 1..n - 1 : f[m] = g[m]
        PROVE  ShowRooted(n, f) = ShowRooted(n, g)
    <2>1. \A base : Show(base, n, f) = Show(base, n, g)  BY <1>2, ShowLooksBack
    <2> QED  BY <2>1, Zenon DEF ShowRooted
  <1> HIDE DEF N
  <1>3. \E r : r = [n \in 1..N |-> ShowRooted(n, r)]
    BY <1>1, <1>2, Rooting!RecursionExists
  <1>4. \E r : IsPage(r, <<Root>>)  BY <1>1, <1>3, Zenon DEF IsPage, ShowRooted
  <1> QED  BY <1>4, PageIs

LEMMA BarePage == ASSUME HtmlInv PROVE IsPage(RenderCtx(<<>>), <<>>)
  <1> DEFINE N == Len(heap)
  <1>1. N \in Nat /\ DOMAIN heap = 1..N  BY HeapFacts
  <1>2. ASSUME NEW n \in 1..N, NEW f, NEW g, \A m \in 1..n - 1 : f[m] = g[m]
        PROVE  ShowBare(n, f) = ShowBare(n, g)
    <2>1. \A base : Show(base, n, f) = Show(base, n, g)  BY <1>2, ShowLooksBack
    <2> QED  BY <2>1, Zenon DEF ShowBare
  <1> HIDE DEF N
  <1>3. \E r : r = [n \in 1..N |-> ShowBare(n, r)]
    BY <1>1, <1>2, Baring!RecursionExists
  <1>4. \E r : IsPage(r, <<>>)  BY <1>1, <1>3, Zenon DEF IsPage, ShowBare
  <1> QED  BY <1>4, PageIs

LEMMA InsideIs ==
    ASSUME HtmlInv
    PROVE  Inside = [n \in DOMAIN heap |-> InsideStep(n, Inside)]
  <1> DEFINE N == Len(heap)
             r == CHOOSE r : r = [n \in DOMAIN heap |->
                                    {n} \cup UNION {r[c] : c \in Range(heap[n].Children)}]
  <1>1. N \in Nat /\ DOMAIN heap = 1..N  BY HeapFacts
  <1>2. ASSUME NEW n \in 1..N, NEW f, NEW g, \A m \in 1..n - 1 : f[m] = g[m]
        PROVE  InsideStep(n, f) = InsideStep(n, g)
    <2>1. \A c \in Range(heap[n].Children) : f[c] = g[c]
      BY <1>2, HeapFacts DEF Range
    <2> QED  BY <2>1, Zenon DEF InsideStep
  <1> HIDE DEF N
  <1>3. \E in : in = [n \in 1..N |-> InsideStep(n, in)]
    BY <1>1, <1>2, Entering!RecursionExists
  <1>4. r = [n \in DOMAIN heap |-> InsideStep(n, r)]
    BY <1>1, <1>3, Zenon DEF InsideStep
  <1>5. Inside = r  BY Zenon DEF Inside
  <1> HIDE DEF r
  <1> QED  BY <1>4, <1>5

-----------------------------------------------------------------------------
(* Html: tokens.                                                           *)

Strs == Words \cup Urls \cup {Root}
ShownValue == [by : {"plain", "url"}, v : Seq(Strs)]
Tok ==
    [tok : {"text", "raw"}, s : Words]
    \cup [tok : {"open"}, tag : Tags \cup {""},
          attrs : UNION {[K -> ShownValue] : K \in SUBSET Keys}]
    \cup [tok : {"close"}, tag : Tags \cup {""}]

LEMMA ShownType ==
    ASSUME NEW kind \in {"text", "raw"}, NEW s \in Words \cup {""}
    PROVE  Shown(kind, s) \in Seq(Tok) /\ (Shown(kind, s) = <<>> <=> s = "")
  <1>1. CASE s = ""
    <2>1. Shown(kind, s) = <<>>  BY <1>1 DEF Shown
    <2> QED  BY <1>1, <2>1, EmptySeq
  <1>2. CASE s # ""
    <2>1. [tok |-> kind, s |-> s] \in Tok  BY <1>2 DEF Tok
    <2>2. Shown(kind, s) = <<[tok |-> kind, s |-> s]>>  BY <1>2 DEF Shown
    <2>3. <<[tok |-> kind, s |-> s]>> # <<>>  OBVIOUS
    <2> QED  BY <1>2, <2>1, <2>2, <2>3, SingletonType
  <1> QED  BY <1>1, <1>2

LEMMA ResolvedType ==
    ASSUME NEW base \in {<<>>, <<Root>>}, NEW u \in Urls
    PROVE  Resolved(base, u) \in Seq(Strs)
  <1>1. u \in Strs /\ Root \in Strs  BY DEF Strs
  <1>2. <<u>> \in Seq(Strs)  BY <1>1, SingletonType
  <1>3. base \in Seq(Strs)  BY <1>1, SingletonType, EmptySeq
  <1> QED  BY <1>2, <1>3, ConcatProperties DEF Resolved

LEMMA AttrsType ==
    ASSUME NEW m, NEW s \in Node(m), NEW base \in {<<>>, <<Root>>}
    PROVE  AttrsShown(s, base) \in UNION {[K -> ShownValue] : K \in SUBSET Keys}
  <1> DEFINE K == DOMAIN s.Attrs \cup DOMAIN s.DynamicAttrs
  <1>1. /\ s.Attrs \in UNION {[J -> Words] : J \in SUBSET Keys}
        /\ s.DynamicAttrs \in UNION {[J -> Urls] : J \in SUBSET Keys}
    BY DEF Node
  <1>2. DOMAIN s.Attrs \in SUBSET Keys /\ \A k \in DOMAIN s.Attrs : s.Attrs[k] \in Words
    BY <1>1
  <1>3. /\ DOMAIN s.DynamicAttrs \in SUBSET Keys
        /\ \A k \in DOMAIN s.DynamicAttrs : s.DynamicAttrs[k] \in Urls
    BY <1>1
  <1>4. K \in SUBSET Keys  BY <1>2, <1>3
  <1>5. ASSUME NEW k \in K
        PROVE  ShownAttr(s, base, k) \in ShownValue
    <2>1. CASE k \in DOMAIN s.Attrs
      <3>1. s.Attrs[k] \in Strs  BY <1>2, <2>1 DEF Strs
      <3>2. <<s.Attrs[k]>> \in Seq(Strs)  BY <3>1, SingletonType
      <3> QED  BY <2>1, <3>2 DEF ShownAttr, ShownValue
    <2>2. CASE k \notin DOMAIN s.Attrs
      <3>1. s.DynamicAttrs[k] \in Urls  BY <1>3, <1>5, <2>2
      <3>2. Resolved(base, s.DynamicAttrs[k]) \in Seq(Strs)  BY <3>1, ResolvedType
      <3> QED  BY <2>2, <3>2 DEF ShownAttr, ShownValue
    <2> QED  BY <2>1, <2>2
  <1>6. AttrsShown(s, base) \in [K -> ShownValue]  BY <1>5 DEF AttrsShown
  <1> HIDE DEF K
  <1> QED  BY <1>4, <1>6

LEMMA TaggedType ==
    ASSUME NEW m, NEW s \in Node(m), NEW base \in {<<>>, <<Root>>}, NEW c \in Seq(Tok)
    PROVE  /\ Tagged(s, base, c) \in Seq(Tok)
           /\ Tagged(s, base, c) = <<>> <=>
                 c = <<>> /\ DOMAIN s.Attrs = {} /\ DOMAIN s.DynamicAttrs = {}
  <1> DEFINE attrs == AttrsShown(s, base)
             o == [tok |-> "open", tag |-> s.Name, attrs |-> attrs]
             e == [tok |-> "close", tag |-> s.Name]
  <1>1. s.Name \in Tags \cup {""}  BY DEF Node
  <1>2. o \in Tok /\ e \in Tok  BY <1>1, AttrsType DEF Tok
  <1>3. DOMAIN attrs = DOMAIN s.Attrs \cup DOMAIN s.DynamicAttrs  BY DEF AttrsShown
  <1>4. Tagged(s, base, c) = IF DOMAIN attrs = {} /\ c = <<>> THEN <<>> ELSE (<<o>> \o c) \o <<e>>
    BY Zenon DEF Tagged, Enclosed
  <1> HIDE DEF o, e, attrs
  <1>5. <<o>> \in Seq(Tok) /\ <<e>> \in Seq(Tok) /\ Len(<<e>>) = 1
    <2>1. <<o>> \in Seq(Tok) /\ <<e>> \in Seq(Tok)  BY <1>2, SingletonType
    <2> QED  BY <2>1
  <1>6. <<o>> \o c \in Seq(Tok)  BY <1>5, ConcatProperties
  <1>7. (<<o>> \o c) \o <<e>> \in Seq(Tok) /\ (<<o>> \o c) \o <<e>> # <<>>
    <2> DEFINE a == <<o>> \o c
               b == <<e>>
    <2>1. a \in Seq(Tok) /\ b \in Seq(Tok) /\ Len(b) = 1  BY <1>5, <1>6
    <2> HIDE DEF a, b
    <2>2. a \o b \in Seq(Tok) /\ Len(a \o b) = Len(a) + Len(b)  BY <2>1, ConcatProperties
    <2>3. Len(a) \in Nat  BY <2>1
    <2>4. Len(a \o b) # 0  BY <2>1, <2>2, <2>3
    <2>5. a \o b # <<>>  BY <2>4, EmptySeq
    <2> QED  BY <2>2, <2>5 DEF a, b
  <1>8. <<>> \in Seq(Tok)  BY EmptySeq
  <1>9. CASE DOMAIN attrs = {} /\ c = <<>>
    <2>1. Tagged(s, base, c) = <<>>  BY <1>4, <1>9, Zenon
    <2> QED  BY <1>3, <1>8, <1>9, <2>1
  <1>10. CASE ~ (DOMAIN attrs = {} /\ c = <<>>)
    <2>1. Tagged(s, base, c) = (<<o>> \o c) \o <<e>>  BY <1>4, <1>10, Zenon
    <2>2. ~ (c = <<>> /\ DOMAIN s.Attrs = {} /\ DOMAIN s.DynamicAttrs = {})  BY <1>3, <1>10
    <2> QED  BY <1>7, <2>1, <2>2, Zenon
  <1> QED  BY <1>9, <1>10

LEMMA ContentsType ==
    ASSUME HtmlInv, NEW n \in 1..Len(heap), NEW page, \A m \in 1..n - 1 : page[m] \in Seq(Tok)
    PROVE  /\ Inner(heap[n], page) \in Seq(Seq(Tok))
           /\ Shown("text", heap[n].text) \in Seq(Tok) /\ Shown("raw", heap[n].raw) \in Seq(Tok)
           /\ FlattenSeq(Inner(heap[n], page)) \in Seq(Tok)
           /\ Contents(heap[n], page) \in Seq(Tok)
           /\ Contents(heap[n], page) = <<>> <=>
                 /\ heap[n].text = "" /\ heap[n].raw = ""
                 /\ \A c \in Range(heap[n].Children) : page[c] = <<>>
  <1> DEFINE s == heap[n]
             k == Len(s.Children)
             in == Inner(s, page)
             a == Shown("text", s.text)
             b == Shown("raw", s.raw)
             c == FlattenSeq(in)
  <1>1. /\ s \in Node(n - 1) /\ DOMAIN s.Children = 1..k /\ k \in Nat
        /\ \A i \in 1..k : s.Children[i] \in 1..n - 1
    BY HeapFacts
  <1>2. s.text \in Words \cup {""} /\ s.raw \in Words \cup {""}  BY <1>1 DEF Node
  <1>3. a \in Seq(Tok) /\ (a = <<>> <=> s.text = "")  BY <1>2, ShownType
  <1>4. b \in Seq(Tok) /\ (b = <<>> <=> s.raw = "")  BY <1>2, ShownType
  <1>5. in \in Seq(Seq(Tok))
    <2>1. \A i \in 1..k : page[s.Children[i]] \in Seq(Tok)  BY <1>1
    <2>2. in = [i \in 1..k |-> page[s.Children[i]]]  BY <1>1, Zenon DEF Inner
    <2> HIDE DEF in, k, s
    <2>3. k \in Nat  BY <1>1
    <2>4. in \in [1..k -> Seq(Tok)]  BY <2>1, <2>2
    <2> QED  BY <2>3, <2>4
  <1>6. c \in Seq(Tok)  BY <1>5, FlattenFacts, Zenon
  <1>7. c = <<>> <=> \A x \in Range(s.Children) : page[x] = <<>>
    <2>1. c = <<>> <=> \A i \in DOMAIN in : in[i] = <<>>  BY <1>5, FlattenFacts, Zenon
    <2>2. DOMAIN in = DOMAIN s.Children /\ \A i \in DOMAIN in : in[i] = page[s.Children[i]]
      BY DEF Inner
    <2> HIDE DEF in, c, s
    <2> QED  BY <2>1, <2>2, Zenon DEF Range
  <1>8. Contents(s, page) = (a \o b) \o c  BY Zenon DEF Contents
  <1> HIDE DEF a, b, c, in, k
  <1>9. a \o b \in Seq(Tok) /\ (a \o b = <<>> <=> a = <<>> /\ b = <<>>)
    BY <1>3, <1>4, ConcatProperties, ConcatNothing
  <1>10. (a \o b) \o c \in Seq(Tok)  BY <1>6, <1>9, ConcatProperties
  <1>11. (a \o b) \o c = <<>> <=> a \o b = <<>> /\ c = <<>>
    BY <1>6, <1>9, ConcatNothing
  <1>12. Contents(s, page) = <<>> <=>
            s.text = "" /\ s.raw = "" /\ \A x \in Range(s.Children) : page[x] = <<>>
    BY <1>3, <1>4, <1>7, <1>8, <1>9, <1>11, Zenon
  <1> QED  BY <1>3, <1>4, <1>5, <1>6, <1>8, <1>10, <1>12, Zenon DEF s, in, a, b, c

LEMMA PagesType ==
    ASSUME HtmlInv, NEW base \in {<<>>, <<Root>>}, NEW page, IsPage(page, base)
    PROVE  \A n \in 1..Len(heap) : page[n] \in Seq(Tok)
  <1> DEFINE T == {n \in 1..Len(heap) : page[n] \in Seq(Tok)}
  <1>1. Len(heap) \in Nat /\ DOMAIN heap = 1..Len(heap)  BY HeapFacts
  <1>2. ASSUME NEW n \in 1..Len(heap), \A m \in 1..n - 1 : m \in T PROVE n \in T
    <2>1. \A m \in 1..n - 1 : page[m] \in Seq(Tok)  BY <1>2
    <2>2. Contents(heap[n], page) \in Seq(Tok)  BY <2>1, ContentsType
    <2>3. heap[n] \in Node(n - 1)  BY HeapFacts
    <2>4. Tagged(heap[n], base, Contents(heap[n], page)) \in Seq(Tok)  BY <2>2, <2>3, TaggedType
    <2>5. page[n] = Tagged(heap[n], base, Contents(heap[n], page))
      BY <1>1, Zenon DEF IsPage, Show
    <2> QED  BY <2>4, <2>5
  <1>3. T \in SUBSET (1..Len(heap))  OBVIOUS
  <1>4. T = 1..Len(heap)
    <2> HIDE DEF T
    <2> QED  BY <1>1, <1>2, <1>3, Plains!UpToInduction
  <1> QED  BY <1>4

\* A node's own part in its page.
LEMMA PageOf ==
    ASSUME HtmlInv, NEW base \in {<<>>, <<Root>>}, NEW page, IsPage(page, base),
           NEW n \in 1..Len(heap)
    PROVE  /\ page[n] = Tagged(heap[n], base, Contents(heap[n], page))
           /\ page[n] = <<>> <=>
                 Bare(heap[n]) /\ \A c \in Range(heap[n].Children) : page[c] = <<>>
  <1>1. DOMAIN heap = 1..Len(heap) /\ heap[n] \in Node(n - 1) /\ n - 1 \in Nat
        /\ \A m \in 1..n - 1 : m \in 1..Len(heap)
    BY HeapFacts
  <1>2. page[n] = Tagged(heap[n], base, Contents(heap[n], page))
    BY <1>1, Zenon DEF IsPage, Show
  <1>3. \A m \in 1..n - 1 : page[m] \in Seq(Tok)  BY <1>1, PagesType
  <1>4. /\ Contents(heap[n], page) \in Seq(Tok)
        /\ Contents(heap[n], page) = <<>> <=>
                 /\ heap[n].text = "" /\ heap[n].raw = ""
                 /\ \A c \in Range(heap[n].Children) : page[c] = <<>>
    BY <1>3, ContentsType
  <1>5. Tagged(heap[n], base, Contents(heap[n], page)) = <<>> <=>
           /\ Contents(heap[n], page) = <<>>
           /\ DOMAIN heap[n].Attrs = {} /\ DOMAIN heap[n].DynamicAttrs = {}
    BY <1>1, <1>4, TaggedType
  <1> QED  BY <1>2, <1>4, <1>5, Zenon DEF Bare

\* An element is left out exactly if nothing inside it was given anything to
\* show, for trees of any depth and any texts and attributes (RenderCtx).
THEOREM AlwaysOnlyEmptyDisappears ==
    HtmlInit /\ [][HtmlStep]_<<heap, made>> => []OnlyEmptyDisappears
  <1>1. HtmlInv => OnlyEmptyDisappears
    <2> SUFFICES ASSUME HtmlInv PROVE OnlyEmptyDisappears  OBVIOUS
    <2> DEFINE page == RenderCtx(<<Root>>)
               in == Inside
               N == Len(heap)
               T == {n \in 1..N : page[n] = <<>> <=> \A m \in in[n] : Bare(heap[m])}
    <2>1. N \in Nat /\ DOMAIN heap = 1..N  BY HeapFacts
    <2>2. IsPage(page, <<Root>>)  BY RootedPage
    <2>3. \A n \in 1..N : in[n] = {n} \cup UNION {in[c] : c \in Range(heap[n].Children)}
      BY <2>1, InsideIs, Zenon DEF InsideStep
    <2> HIDE DEF page, in
    <2>4. ASSUME NEW n \in 1..N, \A m \in 1..n - 1 : m \in T PROVE n \in T
      <3>1. \A c \in Range(heap[n].Children) : c \in 1..n - 1  BY HeapFacts DEF Range
      <3>2. \A c \in Range(heap[n].Children) : page[c] = <<>> <=> \A m \in in[c] : Bare(heap[m])
        BY <2>4, <3>1
      <3>3. page[n] = <<>> <=>
               Bare(heap[n]) /\ \A c \in Range(heap[n].Children) : page[c] = <<>>
        BY <2>2, PageOf
      <3>4. (\A m \in in[n] : Bare(heap[m])) <=>
               Bare(heap[n]) /\ \A c \in Range(heap[n].Children) : \A m \in in[c] : Bare(heap[m])
        <4>1. in[n] = {n} \cup UNION {in[c] : c \in Range(heap[n].Children)}  BY <2>3
        <4>2. \A m : m \in in[n] <=> m = n \/ \E c \in Range(heap[n].Children) : m \in in[c]
          BY <4>1
        <4> QED  BY <4>2, Zenon
      <3> QED  BY <3>2, <3>3, <3>4, Zenon
    <2>5. T \in SUBSET (1..N)  OBVIOUS
    <2>6. T = 1..N
      <3> HIDE DEF T
      <3> QED  BY <2>1, <2>4, <2>5, Plains!UpToInduction
    <2> QED  BY <2>1, <2>6 DEF OnlyEmptyDisappears, page, in
  <1> QED  BY <1>1, HtmlInvariant, PTL

-----------------------------------------------------------------------------
(* Html: a page with a root and without.                                   *)

AllRooted(s) == [i \in DOMAIN s |-> Rooted(s[i])]

LEMMA RootedType == \A t \in Tok : Rooted(t) \in Tok /\ (t.tok # "open" => Rooted(t) = t)
  <1> SUFFICES ASSUME NEW t \in Tok
               PROVE  Rooted(t) \in Tok /\ (t.tok # "open" => Rooted(t) = t)
    OBVIOUS
  <1>1. CASE t.tok # "open"  BY <1>1 DEF Rooted
  <1>2. CASE t.tok = "open"
    <2>1. t \in [tok : {"open"}, tag : Tags \cup {""},
                 attrs : UNION {[K -> ShownValue] : K \in SUBSET Keys}]
      BY <1>2 DEF Tok
    <2>2. PICK K \in SUBSET Keys : t.attrs \in [K -> ShownValue]  BY <2>1
    <2> DEFINE a == [k \in DOMAIN t.attrs |-> RootedAttr(t.attrs[k])]
    <2>3. <<Root>> \in Seq(Strs)
      <3>1. Root \in Strs  BY DEF Strs
      <3> QED  BY <3>1, SingletonType
    <2>4. \A x \in Seq(Strs) : <<Root>> \o x \in Seq(Strs)  BY <2>3, ConcatProperties
    <2>5. a \in [K -> ShownValue]
      <3>1. \A x \in ShownValue : RootedAttr(x) \in ShownValue
        BY <2>4 DEF RootedAttr, ShownValue
      <3> QED  BY <2>2, <3>1
    <2>6. Rooted(t) = [t EXCEPT !.attrs = a]  BY <1>2 DEF Rooted
    <2> HIDE DEF a
    <2>7. Rooted(t) \in [tok : {"open"}, tag : Tags \cup {""},
                         attrs : UNION {[J -> ShownValue] : J \in SUBSET Keys}]
      BY <2>1, <2>5, <2>6
    <2> QED  BY <1>2, <2>7 DEF Tok
  <1> QED  BY <1>1, <1>2

LEMMA AllRootedType ==
    ASSUME NEW s \in Seq(Tok)
    PROVE  /\ AllRooted(s) \in Seq(Tok) /\ Len(AllRooted(s)) = Len(s)
           /\ \A i \in 1..Len(s) : AllRooted(s)[i] = Rooted(s[i])
  <1>1. DOMAIN s = 1..Len(s) /\ Len(s) \in Nat /\ \A i \in 1..Len(s) : s[i] \in Tok  OBVIOUS
  <1>2. AllRooted(s) = [i \in 1..Len(s) |-> Rooted(s[i])]  BY <1>1, Zenon DEF AllRooted
  <1>3. \A i \in 1..Len(s) : Rooted(s[i]) \in Tok  BY <1>1, RootedType
  <1> QED  BY <1>1, <1>2, <1>3

LEMMA AllRootedConcat ==
    ASSUME NEW s \in Seq(Tok), NEW t \in Seq(Tok)
    PROVE  AllRooted(s \o t) = AllRooted(s) \o AllRooted(t)
  <1> DEFINE u == s \o t
             n == Len(s)
             m == Len(t)
             a == AllRooted(s)
             b == AllRooted(t)
             v == a \o b
             w == AllRooted(u)
  <1>1. n \in Nat /\ m \in Nat  OBVIOUS
  <1>2. u \in Seq(Tok) /\ Len(u) = n + m  BY ConcatProperties
  <1>3. \A i \in 1..n + m : u[i] = IF i <= n THEN s[i] ELSE t[i - n]  BY ConcatProperties
  <1>4. a \in Seq(Tok) /\ Len(a) = n /\ \A i \in 1..n : a[i] = Rooted(s[i])
    BY AllRootedType
  <1>5. b \in Seq(Tok) /\ Len(b) = m /\ \A i \in 1..m : b[i] = Rooted(t[i])
    BY AllRootedType
  <1>6. w \in Seq(Tok) /\ Len(w) = n + m /\ \A i \in 1..n + m : w[i] = Rooted(u[i])
    BY <1>2, AllRootedType
  <1> HIDE DEF a, b, u, w
  <1>7. v \in Seq(Tok) /\ Len(v) = n + m
    <2>1. v \in Seq(Tok) /\ Len(v) = Len(a) + Len(b)  BY <1>4, <1>5, ConcatProperties
    <2> QED  BY <1>4, <1>5, <2>1
  <1>8. \A i \in 1..n + m : v[i] = IF i <= n THEN a[i] ELSE b[i - n]
    BY <1>4, <1>5, ConcatProperties
  <1> HIDE DEF v, n, m
  <1>9. ASSUME NEW i \in 1..n + m PROVE w[i] = v[i]
    <2>1. CASE i <= n
      <3>1. i \in 1..n  BY <1>1, <2>1
      <3>2. u[i] = s[i] /\ v[i] = a[i]  BY <1>3, <1>8, <2>1
      <3> QED  BY <1>4, <1>6, <3>1, <3>2
    <2>2. CASE ~ (i <= n)
      <3>1. i - n \in 1..m  BY <1>1, <2>2
      <3>2. u[i] = t[i - n] /\ v[i] = b[i - n]  BY <1>3, <1>8, <2>2
      <3> QED  BY <1>5, <1>6, <3>1, <3>2
    <2> QED  BY <2>1, <2>2
  <1>10. w = v  BY <1>6, <1>7, <1>9, SeqEqual
  <1> QED  BY <1>10 DEF w, v, u, a, b

LEMMA AllRootedNothing ==
    /\ AllRooted(<<>>) = <<>>
    /\ \A s \in Seq(Tok) : AllRooted(s) = <<>> <=> s = <<>>
  <1>1. ASSUME NEW s \in Seq(Tok) PROVE AllRooted(s) = <<>> <=> s = <<>>
    BY AllRootedType, EmptySeq
  <1>2. <<>> \in Seq(Tok)  BY EmptySeq
  <1> QED  BY <1>1, <1>2

LEMMA AllRootedOne ==
    ASSUME NEW t \in Tok
    PROVE  AllRooted(<<t>>) = <<Rooted(t)>>
  BY DEF AllRooted

LEMMA AllRootedFlatten ==
    \A ss \in Seq(Seq(Tok)) :
        /\ [i \in DOMAIN ss |-> AllRooted(ss[i])] \in Seq(Seq(Tok))
        /\ AllRooted(FlattenSeq(ss)) = FlattenSeq([i \in DOMAIN ss |-> AllRooted(ss[i])])
  <1> DEFINE E(ss) == [i \in DOMAIN ss |-> AllRooted(ss[i])]
             T == {ss \in Seq(Seq(Tok)) : AllRooted(FlattenSeq(ss)) = FlattenSeq(E(ss))}
  <1>1. ASSUME NEW ss \in Seq(Seq(Tok)) PROVE E(ss) \in Seq(Seq(Tok))
    <2>1. DOMAIN ss = 1..Len(ss) /\ Len(ss) \in Nat /\ \A i \in 1..Len(ss) : ss[i] \in Seq(Tok)
      OBVIOUS
    <2>2. \A i \in 1..Len(ss) : AllRooted(ss[i]) \in Seq(Tok)  BY <2>1, AllRootedType
    <2> QED  BY <2>1, <2>2
  <1>2. <<>> \in T
    <2>1. E(<<>>) = <<>>  OBVIOUS
    <2>2. <<>> \in Seq(Seq(Tok))  BY EmptySeq
    <2>3. FlattenSeq(<<>>) = <<>>  BY FlattenFacts
    <2> QED  BY <2>1, <2>2, <2>3, AllRootedNothing, Zenon
  <1>3. ASSUME NEW ss \in T, NEW q \in Seq(Tok) PROVE Append(ss, q) \in T
    <2> DEFINE tt == Append(ss, q)
               n == Len(ss)
    <2>1. ss \in Seq(Seq(Tok)) /\ AllRooted(FlattenSeq(ss)) = FlattenSeq(E(ss))  OBVIOUS
    <2>2. /\ tt \in Seq(Seq(Tok)) /\ FlattenSeq(ss) \in Seq(Tok)
          /\ FlattenSeq(tt) = FlattenSeq(ss) \o q
      BY <2>1, FlattenFacts, AppendProperties
    <2>3. AllRooted(FlattenSeq(tt)) = FlattenSeq(E(ss)) \o AllRooted(q)
      BY <2>1, <2>2, AllRootedConcat
    <2>4. E(tt) = Append(E(ss), AllRooted(q))
      <3> DEFINE a == E(tt)
                 b == E(ss)
                 c == Append(b, AllRooted(q))
      <3>1. a \in Seq(Seq(Tok)) /\ b \in Seq(Seq(Tok))  BY <1>1, <2>1, <2>2
      <3>2. DOMAIN tt = 1..n + 1 /\ tt[n + 1] = q /\ n \in Nat /\ DOMAIN ss = 1..n
            /\ \A i \in 1..n : tt[i] = ss[i]
        BY <2>1, AppendProperties
      <3> HIDE DEF tt, n
      <3>3. DOMAIN a = 1..n + 1 /\ \A i \in 1..n + 1 : a[i] = AllRooted(tt[i])  BY <3>2
      <3>4. DOMAIN b = 1..n /\ \A i \in 1..n : b[i] = AllRooted(ss[i])  BY <3>2
      <3> HIDE DEF a, b
      <3>5. Len(a) = n + 1 /\ Len(b) = n  BY <3>1, <3>2, <3>3, <3>4
      <3>6. AllRooted(q) \in Seq(Tok)  BY AllRootedType
      <3>7. c \in Seq(Seq(Tok)) /\ Len(c) = Len(b) + 1 /\ c[Len(b) + 1] = AllRooted(q)
            /\ \A i \in 1..Len(b) : c[i] = b[i]
        BY <3>1, <3>6, AppendProperties
      <3> HIDE DEF c
      <3>8. ASSUME NEW i \in 1..n + 1 PROVE a[i] = c[i]
        <4>1. CASE i = n + 1  BY <3>2, <3>3, <3>5, <3>7, <4>1
        <4>2. CASE i # n + 1
          <5>1. i \in 1..n  BY <3>2, <4>2
          <5> QED  BY <3>2, <3>3, <3>4, <3>5, <3>7, <5>1
        <4> QED  BY <4>1, <4>2
      <3>9. a = c  BY <3>1, <3>5, <3>7, <3>8, SeqEqual
      <3> QED  BY <3>9 DEF a, b, c
    <2>5. FlattenSeq(Append(E(ss), AllRooted(q))) = FlattenSeq(E(ss)) \o AllRooted(q)
      BY <1>1, <2>1, AllRootedType, FlattenFacts
    <2> QED  BY <2>2, <2>3, <2>4, <2>5
  <1>4. T \in SUBSET Seq(Seq(Tok))  OBVIOUS
  <1>5. T = Seq(Seq(Tok))
    <2> HIDE DEF T
    <2> QED  BY <1>2, <1>3, <1>4, Plains!SeqSetInduction
  <1> QED  BY <1>1, <1>5

\* Under a root only what a URL attribute was given has it.
LEMMA AttrsRooted ==
    ASSUME NEW m, NEW s \in Node(m)
    PROVE  LET a == AttrsShown(s, <<>>)
           IN  AttrsShown(s, <<Root>>) = [k \in DOMAIN a |-> RootedAttr(a[k])]
  <1>1. \A u : Head(<<u>>) = u /\ <<>> \o <<u>> = <<u>>  OBVIOUS
  <1>2. \A u : Resolved(<<>>, u) = <<u>>  BY <1>1, Zenon DEF Resolved
  <1>3. \A u : Resolved(<<Root>>, u) = IF u \in Local THEN <<Root>> \o <<u>> ELSE <<u>>
    BY Zenon DEF Resolved
  <1>4. ASSUME NEW k PROVE ShownAttr(s, <<Root>>, k) = RootedAttr(ShownAttr(s, <<>>, k))
    <2>1. CASE k \in DOMAIN s.Attrs
      <3>1. /\ ShownAttr(s, <<>>, k) = [by |-> "plain", v |-> <<s.Attrs[k]>>]
            /\ ShownAttr(s, <<Root>>, k) = [by |-> "plain", v |-> <<s.Attrs[k]>>]
        BY <2>1, Zenon DEF ShownAttr
      <3> QED  BY <3>1 DEF RootedAttr
    <2>2. CASE k \notin DOMAIN s.Attrs
      <3> DEFINE u == s.DynamicAttrs[k]
      <3>1. /\ ShownAttr(s, <<>>, k) = [by |-> "url", v |-> <<u>>]
            /\ ShownAttr(s, <<Root>>, k) = [by |-> "url", v |-> Resolved(<<Root>>, u)]
        BY <1>2, <2>2, Zenon DEF ShownAttr
      <3> HIDE DEF u
      <3>2. RootedAttr([by |-> "url", v |-> <<u>>]) =
              IF u \in Local THEN [by |-> "url", v |-> <<Root>> \o <<u>>]
                             ELSE [by |-> "url", v |-> <<u>>]
        BY <1>1 DEF RootedAttr
      <3> QED  BY <1>3, <3>1, <3>2, Zenon
    <2> QED  BY <2>1, <2>2
  <1> QED  BY <1>4, Zenon DEF AttrsShown

LEMMA ShownRooted ==
    ASSUME NEW kind \in {"text", "raw"}, NEW s \in Words \cup {""}
    PROVE  AllRooted(Shown(kind, s)) = Shown(kind, s)
  <1>1. CASE s = ""  BY <1>1, AllRootedNothing DEF Shown
  <1>2. CASE s # ""
    <2> DEFINE t == [tok |-> kind, s |-> s]
    <2>1. t \in Tok /\ t.tok # "open"  BY <1>2 DEF Tok
    <2>2. Shown(kind, s) = <<t>>  BY <1>2 DEF Shown
    <2> HIDE DEF t
    <2> QED  BY <2>1, <2>2, RootedType, AllRootedOne
  <1> QED  BY <1>1, <1>2

LEMMA TaggedRooted ==
    ASSUME NEW m, NEW s \in Node(m), NEW c \in Seq(Tok)
    PROVE  AllRooted(Tagged(s, <<>>, c)) = Tagged(s, <<Root>>, AllRooted(c))
  <1> DEFINE a == AttrsShown(s, <<>>)
             b == AttrsShown(s, <<Root>>)
             o == [tok |-> "open", tag |-> s.Name, attrs |-> a]
             p == [tok |-> "open", tag |-> s.Name, attrs |-> b]
             e == [tok |-> "close", tag |-> s.Name]
  <1>1. s.Name \in Tags \cup {""}  BY DEF Node
  <1>2. a \in UNION {[K -> ShownValue] : K \in SUBSET Keys}
        /\ b \in UNION {[K -> ShownValue] : K \in SUBSET Keys}
    BY AttrsType
  <1>3. b = [k \in DOMAIN a |-> RootedAttr(a[k])]
    BY AttrsRooted
  <1>4. DOMAIN a = DOMAIN b  BY Zenon DEF AttrsShown
  <1>5. Tagged(s, <<>>, c) = IF DOMAIN a = {} /\ c = <<>> THEN <<>> ELSE (<<o>> \o c) \o <<e>>
    BY Zenon DEF Tagged, Enclosed
  <1>6. Tagged(s, <<Root>>, AllRooted(c)) =
           IF DOMAIN b = {} /\ AllRooted(c) = <<>> THEN <<>> ELSE (<<p>> \o AllRooted(c)) \o <<e>>
    BY Zenon DEF Tagged, Enclosed
  <1> HIDE DEF a, b
  <1>7. o \in Tok /\ e \in Tok  BY <1>1, <1>2 DEF Tok
  <1>8. Rooted(o) = p  BY <1>3 DEF Rooted
  <1>9. Rooted(e) = e  BY DEF Rooted
  <1> HIDE DEF o, p, e
  <1>10. <<o>> \in Seq(Tok) /\ <<e>> \in Seq(Tok)  BY <1>7, SingletonType
  <1>11. AllRooted((<<o>> \o c) \o <<e>>) = (<<p>> \o AllRooted(c)) \o <<e>>
    <2>1. <<o>> \o c \in Seq(Tok)  BY <1>10, ConcatProperties
    <2>2. AllRooted((<<o>> \o c) \o <<e>>) = AllRooted(<<o>> \o c) \o AllRooted(<<e>>)
      BY <1>10, <2>1, AllRootedConcat
    <2>3. AllRooted(<<o>> \o c) = AllRooted(<<o>>) \o AllRooted(c)
      BY <1>10, AllRootedConcat
    <2>4. AllRooted(<<o>>) = <<p>>  BY <1>7, <1>8, AllRootedOne
    <2>5. AllRooted(<<e>>) = <<e>>  BY <1>7, <1>9, AllRootedOne
    <2> QED  BY <2>2, <2>3, <2>4, <2>5, Zenon
  <1>12. AllRooted(c) = <<>> <=> c = <<>>  BY AllRootedNothing
  <1>13. AllRooted(<<>>) = <<>>  BY AllRootedNothing
  <1> QED  BY <1>4, <1>5, <1>6, <1>11, <1>12, <1>13, Zenon

LEMMA ContentsRooted ==
    ASSUME HtmlInv, NEW n \in 1..Len(heap), NEW bare, NEW page,
           \A m \in 1..n - 1 : bare[m] \in Seq(Tok) /\ page[m] = AllRooted(bare[m])
    PROVE  AllRooted(Contents(heap[n], bare)) = Contents(heap[n], page)
  <1> DEFINE s == heap[n]
             in == Inner(s, bare)
             a == Shown("text", s.text)
             b == Shown("raw", s.raw)
             c == FlattenSeq(in)
  <1>1. s.text \in Words \cup {""} /\ s.raw \in Words \cup {""}
    <2>1. s \in Node(n - 1)  BY HeapFacts
    <2> QED  BY <2>1 DEF Node
  <1>2. in \in Seq(Seq(Tok)) /\ a \in Seq(Tok) /\ b \in Seq(Tok) /\ c \in Seq(Tok)
    BY ContentsType
  <1>3. Inner(s, page) = [i \in DOMAIN in |-> AllRooted(in[i])]
    <2>1. DOMAIN in = DOMAIN s.Children /\ \A i \in DOMAIN in : in[i] = bare[s.Children[i]]
      BY Zenon DEF Inner
    <2>2. \A i \in DOMAIN s.Children : page[s.Children[i]] = AllRooted(bare[s.Children[i]])
      BY HeapFacts
    <2> HIDE DEF in
    <2> QED  BY <2>1, <2>2, Zenon DEF Inner
  <1>4. AllRooted(c) = FlattenSeq(Inner(s, page))  BY <1>2, <1>3, AllRootedFlatten
  <1>5. AllRooted(a) = a /\ AllRooted(b) = b  BY <1>1, ShownRooted
  <1>6. Contents(s, bare) = (a \o b) \o c  BY Zenon DEF Contents
  <1>7. Contents(s, page) = (a \o b) \o FlattenSeq(Inner(s, page))  BY Zenon DEF Contents
  <1> HIDE DEF a, b, c, in, s
  <1>8. a \o b \in Seq(Tok)  BY <1>2, ConcatProperties
  <1>9. AllRooted((a \o b) \o c) = AllRooted(a \o b) \o AllRooted(c)
    BY <1>2, <1>8, AllRootedConcat
  <1>10. AllRooted(a \o b) = AllRooted(a) \o AllRooted(b)  BY <1>2, AllRootedConcat
  <1>11. AllRooted(Contents(s, bare)) = Contents(s, page)
    BY <1>4, <1>5, <1>6, <1>7, <1>9, <1>10, Zenon
  <1> QED  BY <1>11 DEF s

\* A page under a root is the page without one, with the root put once before every
\* local URL that a URL attribute was given, at any depth, and nothing else changed,
\* for trees of any depth and whatever texts and plain attributes hold (RenderCtx).
THEOREM AlwaysRootReachesAll ==
    HtmlInit /\ [][HtmlStep]_<<heap, made>> => []RootReachesAll
  <1>1. HtmlInv => RootReachesAll
    <2> SUFFICES ASSUME HtmlInv PROVE RootReachesAll  OBVIOUS
    <2> DEFINE page == RenderCtx(<<Root>>)
               bare == RenderCtx(<<>>)
               N == Len(heap)
               T == {n \in 1..N : page[n] = AllRooted(bare[n])}
    <2>1. N \in Nat /\ DOMAIN heap = 1..N  BY HeapFacts
    <2>2. IsPage(page, <<Root>>) /\ IsPage(bare, <<>>)  BY RootedPage, BarePage
    <2> HIDE DEF page, bare
    <2>3. \A n \in 1..N : bare[n] \in Seq(Tok)  BY <2>2, PagesType
    <2>4. ASSUME NEW n \in 1..N, \A m \in 1..n - 1 : m \in T PROVE n \in T
      <3>1. \A m \in 1..n - 1 : bare[m] \in Seq(Tok) /\ page[m] = AllRooted(bare[m])
        <4>1. \A m \in 1..n - 1 : m \in 1..N  BY <2>1
        <4> QED  BY <2>3, <2>4, <4>1
      <3>2. AllRooted(Contents(heap[n], bare)) = Contents(heap[n], page)
        BY <3>1, ContentsRooted
      <3>3. bare[n] = Tagged(heap[n], <<>>, Contents(heap[n], bare))  BY <2>2, PageOf
      <3>4. page[n] = Tagged(heap[n], <<Root>>, Contents(heap[n], page))  BY <2>2, PageOf
      <3>5. heap[n] \in Node(n - 1)  BY HeapFacts
      <3>6. Contents(heap[n], bare) \in Seq(Tok)  BY <3>1, ContentsType
      <3>7. AllRooted(bare[n]) = page[n]  BY <3>2, <3>3, <3>4, <3>5, <3>6, TaggedRooted
      <3> QED  BY <3>7
    <2>5. T \in SUBSET (1..N)  OBVIOUS
    <2>6. T = 1..N
      <3> HIDE DEF T
      <3> QED  BY <2>1, <2>4, <2>5, Plains!UpToInduction
    <2>7. page = [n \in DOMAIN heap |-> page[n]]  BY <2>2, Zenon DEF IsPage
    <2>8. page = [n \in DOMAIN heap |-> [i \in DOMAIN bare[n] |-> Rooted(bare[n][i])]]
      BY <2>1, <2>6, <2>7, Zenon DEF AllRooted
    <2> QED  BY <2>8 DEF RootReachesAll, page, bare
  <1> QED  BY <1>1, HtmlInvariant, PTL

-----------------------------------------------------------------------------
(* Html: lists, nil and Nil().                                             *)

Keeping == INSTANCE FoldLemmas WITH Op <- KeepSome

LEMMA KeepFold ==
    \A b, ops : FoldLeft(KeepSome, b, ops) = Keeping!Fold(b, ops)
  BY Zenon DEF FoldLeft, MapThenFoldSet, Max, Keeping!Fold, Keeping!FoldLeft,
               Keeping!MapThenFoldSet, Keeping!Max

LEMMA MapType ==
    ASSUME NEW S, NEW T, NEW F, \A y \in S : F[y] \in T, NEW s \in Seq(S)
    PROVE  [i \in DOMAIN s |-> F[s[i]]] \in Seq(T)
  <1> DEFINE n == Len(s)
             b == [i \in DOMAIN s |-> F[s[i]]]
  <1>1. n \in Nat /\ DOMAIN s = 1..n /\ \A i \in 1..n : s[i] \in S  OBVIOUS
  <1>2. b = [i \in 1..n |-> F[s[i]]]  BY <1>1
  <1>3. \A i \in 1..n : F[s[i]] \in T  BY <1>1
  <1> HIDE DEF n, b
  <1>4. b \in Seq(T)  BY <1>1, <1>2, <1>3
  <1> QED  BY <1>4 DEF b

LEMMA MapAppend ==
    ASSUME NEW S, NEW T, NEW F, \A y \in S : F[y] \in T, NEW s \in Seq(S), NEW x \in S
    PROVE  /\ [i \in DOMAIN s |-> F[s[i]]] \in Seq(T)
           /\ [i \in DOMAIN Append(s, x) |-> F[Append(s, x)[i]]]
                = Append([i \in DOMAIN s |-> F[s[i]]], F[x])
  <1> DEFINE n == Len(s)
             t == Append(s, x)
             a == [i \in DOMAIN t |-> F[t[i]]]
             b == [i \in DOMAIN s |-> F[s[i]]]
             c == Append(b, F[x])
  <1>1. n \in Nat /\ DOMAIN s = 1..n /\ \A i \in 1..n : s[i] \in S  OBVIOUS
  <1>2. /\ t \in Seq(S) /\ DOMAIN t = 1..n + 1 /\ t[n + 1] = x
        /\ \A i \in 1..n : t[i] = s[i]
    BY AppendProperties
  <1> HIDE DEF t, n
  <1>3. b = [i \in 1..n |-> F[s[i]]] /\ a = [i \in 1..n + 1 |-> F[t[i]]]  BY <1>1, <1>2
  <1>4. \A i \in 1..n + 1 : t[i] \in S  BY <1>1, <1>2
  <1>5. (\A i \in 1..n : F[s[i]] \in T) /\ \A i \in 1..n + 1 : F[t[i]] \in T  BY <1>1, <1>4
  <1> HIDE DEF a, b
  <1>6. b \in Seq(T) /\ Len(b) = n /\ \A i \in 1..n : b[i] = F[s[i]]  BY <1>1, <1>3, <1>5
  <1>7. a \in Seq(T) /\ Len(a) = n + 1 /\ \A i \in 1..n + 1 : a[i] = F[t[i]]  BY <1>1, <1>3, <1>5
  <1>8. /\ c \in Seq(T) /\ Len(c) = n + 1 /\ c[n + 1] = F[x]
        /\ \A i \in 1..n : c[i] = b[i]
    BY <1>6, AppendProperties
  <1> HIDE DEF c
  <1>9. ASSUME NEW i \in 1..n + 1 PROVE a[i] = c[i]
    <2>1. CASE i = n + 1  BY <1>2, <1>7, <1>8, <2>1
    <2>2. CASE i # n + 1
      <3>1. i \in 1..n  BY <1>1, <2>2
      <3> QED  BY <1>2, <1>6, <1>7, <1>8, <3>1
    <2> QED  BY <2>1, <2>2
  <1>10. a = c  BY <1>7, <1>8, <1>9, SeqEqual
  <1> QED  BY <1>6, <1>10 DEF a, b, c, t

\* What an argument adds to OneByOne.
Each(o) == IF o.op = "list" THEN o.c ELSE <<o>>

LEMMA OneByOneAppend ==
    ASSUME NEW m, NEW args \in Seq(Args(m)), NEW o \in Args(m)
    PROVE  /\ OneByOne(args) \in Seq(PlainUpTo(m)) /\ Each(o) \in Seq(PlainUpTo(m))
           /\ OneByOne(Append(args, o)) = OneByOne(args) \o Each(o)
  <1> DEFINE S == Seq(PlainUpTo(m))
             F == [x \in Args(m) |-> Each(x)]
             E(t) == [i \in DOMAIN t |-> F[t[i]]]
  <1>1. ASSUME NEW x \in Args(m) PROVE F[x] \in S /\ F[x] = Each(x)
    <2>1. Each(x) \in S  BY ListOrNot, SingletonType DEF Each
    <2> QED  BY <2>1
  <1>2. ASSUME NEW t \in Seq(Args(m)) PROVE OneByOne(t) = FlattenSeq(E(t))
    <2>1. \A i \in DOMAIN t : F[t[i]] = Each(t[i])
      <3>1. \A i \in DOMAIN t : t[i] \in Args(m)  OBVIOUS
      <3> QED  BY <1>1, <3>1
    <2>2. E(t) = [i \in DOMAIN t |-> IF t[i].op = "list" THEN t[i].c ELSE <<t[i]>>]
      BY <2>1, Zenon DEF Each
    <2> QED  BY <2>2, Zenon DEF OneByOne
  <1> HIDE DEF F
  <1>3. E(args) \in Seq(S) /\ E(Append(args, o)) = Append(E(args), F[o])
    BY <1>1, MapAppend
  <1>4. Append(args, o) \in Seq(Args(m))  BY AppendProperties
  <1>5. /\ OneByOne(args) = FlattenSeq(E(args))
        /\ OneByOne(Append(args, o)) = FlattenSeq(Append(E(args), F[o]))
    BY <1>2, <1>3, <1>4
  <1>6. FlattenSeq(Append(E(args), F[o])) = FlattenSeq(E(args)) \o F[o]
        /\ FlattenSeq(E(args)) \in S
    <2> HIDE DEF E
    <2> QED  BY <1>1, <1>3, FlattenFacts
  <1> QED  BY <1>1, <1>5, <1>6

LEMMA OneByOneNone == OneByOne(<<>>) = <<>>
  <1>1. [i \in DOMAIN <<>> |-> IF <<>>[i].op = "list" THEN <<>>[i].c ELSE << <<>>[i] >>] = <<>>
    OBVIOUS
  <1> QED  BY <1>1, FlattenFacts, Zenon DEF OneByOne

\* A list does what its elements do in its place.
LEMMA ListsUnroll ==
    ASSUME NEW m, NEW s
    PROVE  \A args \in Seq(Args(m)) :
              /\ OneByOne(args) \in Seq(PlainUpTo(m))
              /\ Inits!Fold(s, args) = Plains!Fold(s, OneByOne(args))
  <1> DEFINE T == {args \in Seq(Args(m)) :
                      /\ OneByOne(args) \in Seq(PlainUpTo(m))
                      /\ Inits!Fold(s, args) = Plains!Fold(s, OneByOne(args))}
  <1>1. T \in SUBSET Seq(Args(m))  OBVIOUS
  <1>2. <<>> \in T
    <2>1. OneByOne(<<>>) = <<>> /\ <<>> \in Seq(PlainUpTo(m)) /\ <<>> \in Seq(Args(m))
      BY OneByOneNone, EmptySeq
    <2>2. Inits!Fold(s, <<>>) = s /\ Plains!Fold(s, <<>>) = s
      BY Inits!FoldEmpty, Plains!FoldEmpty, Zenon
    <2> QED  BY <2>1, <2>2, Zenon
  <1>3. ASSUME NEW args \in T, NEW o \in Args(m) PROVE Append(args, o) \in T
    <2> DEFINE ops == OneByOne(args)
               a == Plains!Fold(s, ops)
    <2>1. args \in Seq(Args(m)) /\ ops \in Seq(PlainUpTo(m)) /\ Inits!Fold(s, args) = a
          /\ Append(args, o) \in Seq(Args(m))
      BY AppendProperties
    <2>2. OneByOne(Append(args, o)) = ops \o Each(o) /\ Each(o) \in Seq(PlainUpTo(m))
      BY <2>1, OneByOneAppend
    <2>3. Inits!Fold(s, Append(args, o)) = NodeInit(a, o)  BY <2>1, Inits!FoldAppend
    <2> HIDE DEF ops
    <2>4. Plains!Fold(s, ops \o Each(o)) = Plains!Fold(a, Each(o))
      BY <2>1, <2>2, Plains!FoldConcat
    <2>5. NodeInit(a, o) = Plains!Fold(a, Each(o))
      <3> HIDE DEF a
      <3>1. CASE o.op = "list"
        BY <3>1, PlainFold, Zenon DEF NodeInit, Each
      <3>2. CASE o.op # "list" /\ o \in PlainUpTo(m)
        <4>1. Append(<<>>, o) = <<o>>  OBVIOUS
        <4>2. Plains!Fold(a, <<>>) = a  BY Plains!FoldEmpty, Zenon
        <4>3. <<>> \in Seq(PlainUpTo(m))  BY EmptySeq
        <4>4. Plains!Fold(a, Append(<<>>, o)) = Plain(Plains!Fold(a, <<>>), o)
          BY <3>2, <4>3, Plains!FoldAppend
        <4> QED  BY <3>2, <4>1, <4>2, <4>4, Zenon DEF NodeInit, Each
      <3> QED  BY <3>1, <3>2, ListOrNot
    <2>6. ops \o Each(o) \in Seq(PlainUpTo(m))  BY <2>1, <2>2, ConcatProperties
    <2>7. Inits!Fold(s, Append(args, o)) = Plains!Fold(s, OneByOne(Append(args, o)))
      BY <2>2, <2>3, <2>4, <2>5, Zenon
    <2>8. OneByOne(Append(args, o)) \in Seq(PlainUpTo(m))  BY <2>2, <2>6, Zenon
    <2> QED  BY <2>1, <2>7, <2>8
  <1>4. T = Seq(Args(m))
    <2> HIDE DEF T
    <2> QED  BY <1>1, <1>2, <1>3, Plains!SeqSetInduction
  <1> QED  BY <1>4

\* On arguments that are no lists the two folds are one.
LEMMA PlainInits ==
    ASSUME NEW m, NEW s
    PROVE  \A ops \in Seq(PlainUpTo(m)) : Inits!Fold(s, ops) = Plains!Fold(s, ops)
  <1> DEFINE P == PlainUpTo(m)
             T == {ops \in Seq(P) : Inits!Fold(s, ops) = Plains!Fold(s, ops)}
  <1>1. T \in SUBSET Seq(P)  OBVIOUS
  <1>2. <<>> \in T
    <2>1. Inits!Fold(s, <<>>) = s /\ Plains!Fold(s, <<>>) = s
      BY Inits!FoldEmpty, Plains!FoldEmpty, Zenon
    <2>2. <<>> \in Seq(P)  BY EmptySeq
    <2> QED  BY <2>1, <2>2
  <1>3. ASSUME NEW ops \in T, NEW o \in P PROVE Append(ops, o) \in T
    <2>1. ops \in Seq(P) /\ Append(ops, o) \in Seq(P)  BY AppendProperties
    <2>2. Inits!Fold(s, ops) = Plains!Fold(s, ops)  OBVIOUS
    <2>3. Inits!Fold(s, Append(ops, o)) = NodeInit(Inits!Fold(s, ops), o)
      BY <2>1, Inits!FoldAppend
    <2>4. Plains!Fold(s, Append(ops, o)) = Plain(Plains!Fold(s, ops), o)
      BY <2>1, Plains!FoldAppend
    <2>5. o.op # "list"  BY DEF PlainUpTo, nil, Text, Raw, Attr, UrlAttr, Child
    <2>6. \A a : NodeInit(a, o) = Plain(a, o)  BY <2>5, Zenon DEF NodeInit
    <2> QED  BY <2>1, <2>2, <2>3, <2>4, <2>6, Zenon
  <1>4. T = Seq(P)
    <2> HIDE DEF T
    <2> QED  BY <1>1, <1>2, <1>3, Plains!SeqSetInduction
  <1> QED  BY <1>4

\* Two nodes that show the same, given the pages of their children.
Alike(a, b, page) ==
    /\ a.Name = b.Name /\ a.Attrs = b.Attrs /\ a.DynamicAttrs = b.DynamicAttrs
    /\ a.text = b.text /\ a.raw = b.raw
    /\ FlattenSeq(Inner(a, page)) = FlattenSeq(Inner(b, page))

LEMMA InnerType ==
    ASSUME NEW m \in Nat, NEW page, \A c \in 1..m : page[c] \in Seq(Tok), NEW a \in Node(m),
           NEW c \in 1..m
    PROVE  LET b == Plain(a, Child(c))
           IN  /\ FlattenSeq(Inner(a, page)) \in Seq(Tok)
               /\ FlattenSeq(Inner(b, page)) = FlattenSeq(Inner(a, page)) \o page[c]
  <1> DEFINE b == Plain(a, Child(c))
  <1>1. a.Children \in Seq(1..m)  BY DEF Node
  <1>2. b = [a EXCEPT !.Children = Append(@, c)]  BY DEF Plain, Child
  <1>3. b.Children = Append(a.Children, c)  BY <1>2 DEF Node
  <1> HIDE DEF b
  <1>4. /\ Inner(a, page) \in Seq(Seq(Tok))
        /\ Inner(b, page) = Append(Inner(a, page), page[c])
    <2> DEFINE ch == a.Children
    <2>1. Inner(a, page) = [i \in DOMAIN ch |-> page[ch[i]]]  BY Zenon DEF Inner
    <2>2. Inner(b, page) = [i \in DOMAIN Append(ch, c) |-> page[Append(ch, c)[i]]]
      BY <1>3, Zenon DEF Inner
    <2> DEFINE S == 1..m
               Toks == Seq(Tok)
    <2>3. ch \in Seq(S)  BY <1>1
    <2>4. c \in S  OBVIOUS
    <2>5. \A y \in S : page[y] \in Toks  OBVIOUS
    <2> HIDE DEF ch, S, Toks
    <2>6. /\ [i \in DOMAIN ch |-> page[ch[i]]] \in Seq(Toks)
          /\ [i \in DOMAIN Append(ch, c) |-> page[Append(ch, c)[i]]]
                = Append([i \in DOMAIN ch |-> page[ch[i]]], page[c])
      <3>1. \A F : (\A y \in S : F[y] \in Toks) => [i \in DOMAIN ch |-> F[ch[i]]] \in Seq(Toks)
        BY <2>3, MapType
      <3>2. \A F : (\A y \in S : F[y] \in Toks) =>
                [i \in DOMAIN Append(ch, c) |-> F[Append(ch, c)[i]]]
                = Append([i \in DOMAIN ch |-> F[ch[i]]], F[c])
        BY <2>3, <2>4, MapAppend
      <3> QED  BY <2>5, <3>1, <3>2, Zenon
    <2> QED  BY <2>1, <2>2, <2>6, Zenon DEF Toks
  <1>5. page[c] \in Seq(Tok)  OBVIOUS
  <1>6. FlattenSeq(Append(Inner(a, page), page[c])) = FlattenSeq(Inner(a, page)) \o page[c]
        /\ FlattenSeq(Inner(a, page)) \in Seq(Tok)
    BY <1>4, <1>5, FlattenFacts
  <1> QED  BY <1>4, <1>6 DEF b

LEMMA PlainAlike ==
    ASSUME NEW m \in Nat, NEW page, \A c \in 1..m : page[c] \in Seq(Tok),
           NEW a \in Node(m), NEW b \in Node(m), Alike(a, b, page), NEW o \in PlainUpTo(m)
    PROVE  Alike(Plain(a, o), Plain(b, o), page)
  <1>1. CASE o = nil  BY <1>1 DEF Plain, nil
  <1>2. CASE \E x \in Words : o = Text(x)
    <2>1. PICK x \in Words : o = Text(x)  BY <1>2
    <2>2. Plain(a, o) = [a EXCEPT !.text = x] /\ Plain(b, o) = [b EXCEPT !.text = x]
      BY <2>1 DEF Plain, Text
    <2> QED  BY <2>2 DEF Node, Alike, Inner
  <1>3. CASE \E x \in Words : o = Raw(x)
    <2>1. PICK x \in Words : o = Raw(x)  BY <1>3
    <2>2. Plain(a, o) = [a EXCEPT !.raw = x] /\ Plain(b, o) = [b EXCEPT !.raw = x]
      BY <2>1 DEF Plain, Raw
    <2> QED  BY <2>2 DEF Node, Alike, Inner
  <1>4. CASE \E k \in Keys, v \in Words : o = Attr(k, v)
    <2>1. PICK k \in Keys, v \in Words : o = Attr(k, v)  BY <1>4
    <2>2. /\ Plain(a, o) = [a EXCEPT !.Attrs = Assigned(@, k, v)]
          /\ Plain(b, o) = [b EXCEPT !.Attrs = Assigned(@, k, v)]
      BY <2>1 DEF Plain, Attr
    <2> DEFINE new == Assigned(a.Attrs, k, v)
    <2>3. new = Assigned(b.Attrs, k, v)  BY DEF Alike
    <2>4. Plain(a, o) = [a EXCEPT !.Attrs = new] /\ Plain(b, o) = [b EXCEPT !.Attrs = new]
      BY <2>2, <2>3
    <2> HIDE DEF new
    <2> QED  BY <2>4 DEF Node, Alike, Inner
  <1>5. CASE \E k \in Keys, u \in Urls : o = UrlAttr(k, u)
    <2>1. PICK k \in Keys, u \in Urls : o = UrlAttr(k, u)  BY <1>5
    <2>2. /\ Plain(a, o) = [a EXCEPT !.DynamicAttrs = Assigned(@, k, u)]
          /\ Plain(b, o) = [b EXCEPT !.DynamicAttrs = Assigned(@, k, u)]
      BY <2>1 DEF Plain, UrlAttr
    <2> DEFINE new == Assigned(a.DynamicAttrs, k, u)
    <2>3. new = Assigned(b.DynamicAttrs, k, u)  BY DEF Alike
    <2>4. /\ Plain(a, o) = [a EXCEPT !.DynamicAttrs = new]
          /\ Plain(b, o) = [b EXCEPT !.DynamicAttrs = new]
      BY <2>2, <2>3
    <2> HIDE DEF new
    <2> QED  BY <2>4 DEF Node, Alike, Inner
  <1>6. CASE \E n \in 1..m : o = Child(n)
    <2>1. PICK n \in 1..m : o = Child(n)  BY <1>6
    <2>2. /\ Plain(a, o) = [a EXCEPT !.Children = Append(@, n)]
          /\ Plain(b, o) = [b EXCEPT !.Children = Append(@, n)]
      BY <2>1 DEF Plain, Child
    <2>3. /\ FlattenSeq(Inner(Plain(a, o), page)) = FlattenSeq(Inner(a, page)) \o page[n]
          /\ FlattenSeq(Inner(Plain(b, o), page)) = FlattenSeq(Inner(b, page)) \o page[n]
      BY <2>1, InnerType
    <2>4. FlattenSeq(Inner(Plain(a, o), page)) = FlattenSeq(Inner(Plain(b, o), page))
      BY <2>3 DEF Alike
    <2> QED  BY <2>2, <2>4 DEF Node, Alike
  <1> QED  BY <1>1, <1>2, <1>3, <1>4, <1>5, <1>6 DEF PlainUpTo

\* Nil() shows nothing.
LEMMA NilPage ==
    ASSUME HtmlInv, NEW base \in {<<>>, <<Root>>}, NEW page, IsPage(page, base)
    PROVE  page[1] = <<>>
  <1>1. heap[1] = Nil /\ 1 \in 1..Len(heap)
    <2>1. heap[1] = Nil /\ Len(heap) >= 1  BY DEF HtmlInv
    <2>2. Len(heap) \in Nat  BY HeapFacts
    <2> QED  BY <2>1, <2>2
  <1>2. Bare(Nil) /\ Range(Nil.Children) = {}
    BY DEF Bare, Nil, EmptyNode, NoAttrs, Range
  <1> QED  BY <1>1, <1>2, PageOf

LEMMA NothingAlike ==
    ASSUME HtmlInv, NEW m \in 0..Len(heap), NEW page, page[1] = <<>>,
           \A c \in 1..m : page[c] \in Seq(Tok),
           NEW a \in Node(m), NEW o \in PlainUpTo(m), IsNothing(o)
    PROVE  Alike(Plain(a, o), a, page)
  <1>1. CASE o = nil  BY <1>1 DEF Plain, nil, Alike
  <1>2. CASE o # nil
    <2>1. o.op # "nil"
      BY <1>2 DEF PlainUpTo, nil, Text, Raw, Attr, UrlAttr, Child
    <2>2. o.op = "child" /\ made[o.n].tag = ""  BY <2>1 DEF IsNothing
    <2>3. PICK n \in 1..m : o = Child(n)
      <3>1. o.op = "child"  BY <2>2
      <3>2. o # nil /\ \A x : o # Text(x) /\ o # Raw(x)  BY <3>1 DEF nil, Text, Raw
      <3>3. \A k, v : o # Attr(k, v) /\ o # UrlAttr(k, v)  BY <3>1 DEF Attr, UrlAttr
      <3> QED  BY <3>2, <3>3 DEF PlainUpTo
    <2>4. m \in Nat /\ n \in 1..Len(heap)  BY HeapFacts
    <2>5. n = 1
      <3>1. o.n = n  BY <2>3 DEF Child
      <3> QED  BY <2>2, <2>4, <3>1 DEF HtmlInv
    <2>6. Plain(a, o) = [a EXCEPT !.Children = Append(@, n)]  BY <2>3 DEF Plain, Child
    <2>7. FlattenSeq(Inner(Plain(a, o), page)) = FlattenSeq(Inner(a, page)) \o page[n]
          /\ FlattenSeq(Inner(a, page)) \in Seq(Tok)
      BY <2>3, <2>4, InnerType
    <2>8. FlattenSeq(Inner(a, page)) \o <<>> = FlattenSeq(Inner(a, page))
      BY <2>7, ConcatEmptySeq
    <2>9. FlattenSeq(Inner(Plain(a, o), page)) = FlattenSeq(Inner(a, page))
      BY <2>5, <2>7, <2>8
    <2> QED  BY <2>6, <2>9 DEF Node, Alike
  <1> QED  BY <1>1, <1>2

\* Without what is nothing, a node's arguments make a node that shows the same.
LEMMA KeptAlike ==
    ASSUME HtmlInv, NEW m \in 0..Len(heap), NEW page, page[1] = <<>>,
           \A c \in 1..m : page[c] \in Seq(Tok), NEW s \in Node(m)
    PROVE  \A ops \in Seq(PlainUpTo(m)) :
              /\ Keeping!Fold(<<>>, ops) \in Seq(PlainUpTo(m))
              /\ Alike(Plains!Fold(s, ops), Plains!Fold(s, Keeping!Fold(<<>>, ops)), page)
  <1> DEFINE P == PlainUpTo(m)
             Left(ops) == Keeping!Fold(<<>>, ops)
             Good(ops) == /\ Left(ops) \in Seq(P)
                          /\ Alike(Plains!Fold(s, ops), Plains!Fold(s, Left(ops)), page)
             T == {ops \in Seq(P) : Good(ops)}
  <1>1. T \in SUBSET Seq(P)  OBVIOUS
  <1>2. <<>> \in T
    <2>1. Left(<<>>) = <<>>  BY Keeping!FoldEmpty, Zenon
    <2>2. <<>> \in Seq(P)  BY EmptySeq
    <2>3. \A a : Alike(a, a, page)  BY DEF Alike
    <2> QED  BY <2>1, <2>2, <2>3, Zenon
  <1>3. ASSUME NEW ops \in T, NEW o \in P PROVE Append(ops, o) \in T
    <2> DEFINE a == Plains!Fold(s, ops)
               k == Left(ops)
               b == Plains!Fold(s, k)
    <2>1. ops \in Seq(P) /\ k \in Seq(P) /\ Alike(a, b, page)  OBVIOUS
    <2>2. m \in Nat  BY HeapFacts
    <2>3. a \in Node(m) /\ b \in Node(m)  BY <2>1, <2>2, PlainsType
    <2>4. Append(ops, o) \in Seq(P) /\ Append(k, o) \in Seq(P)  BY <2>1, AppendProperties
    <2>5. Plains!Fold(s, Append(ops, o)) = Plain(a, o)  BY <2>1, Plains!FoldAppend
    <2>6. Left(Append(ops, o)) = KeepSome(k, o)  BY <2>1, Keeping!FoldAppend
    <2>7. Good(Append(ops, o))
      <3>1. CASE IsNothing(o)
        <4>1. Left(Append(ops, o)) = k  BY <2>6, <3>1, Zenon DEF KeepSome
        <4> HIDE DEF a, b, k
        <4>2. Alike(Plain(a, o), a, page)  BY <2>3, <3>1, NothingAlike
        <4>3. Alike(Plain(a, o), b, page)  BY <2>1, <4>2, Zenon DEF Alike
        <4>4. Plains!Fold(s, k) = b  BY DEF b
        <4> QED  BY <2>1, <2>5, <4>1, <4>3, <4>4, Zenon
      <3>2. CASE ~ IsNothing(o)
        <4>1. Left(Append(ops, o)) = Append(k, o)  BY <2>6, <3>2, Zenon DEF KeepSome
        <4>2. Plains!Fold(s, Append(k, o)) = Plain(b, o)  BY <2>1, Plains!FoldAppend
        <4> HIDE DEF a, b, k
        <4>3. Alike(Plain(a, o), Plain(b, o), page)  BY <2>1, <2>2, <2>3, PlainAlike
        <4> QED  BY <2>4, <2>5, <4>1, <4>2, <4>3, Zenon
      <3> QED  BY <3>1, <3>2
    <2> QED  BY <2>4, <2>7, Zenon
  <1>4. T = Seq(P)
    <2> HIDE DEF T
    <2> QED  BY <1>1, <1>2, <1>3, Plains!SeqSetInduction
  <1> QED  BY <1>4

\* A node shows what it would show had it been given its arguments one by one,
\* lists taken apart and nil and Nil() left out, whatever the lists hold and
\* wherever they stand (NewNode, Ch, If).
THEOREM AlwaysListsLeaveNoTrace ==
    HtmlInit /\ [][HtmlStep]_<<heap, made>> => []ListsLeaveNoTrace
  <1>1. HtmlInv => ListsLeaveNoTrace
    <2> SUFFICES ASSUME HtmlInv PROVE ListsLeaveNoTrace  OBVIOUS
    <2> DEFINE page == RenderCtx(<<Root>>)
    <2>1. IsPage(page, <<Root>>)  BY RootedPage
    <2>2. Len(heap) \in Nat /\ DOMAIN heap = 1..Len(heap)  BY HeapFacts
    <2> HIDE DEF page
    <2>3. page[1] = <<>>  BY <2>1, NilPage
    <2>4. \A n \in 1..Len(heap) : page[n] \in Seq(Tok)  BY <2>1, PagesType
    <2>5. ASSUME NEW n \in 1..Len(heap)
          PROVE  LET t == NewNode(made[n].tag, Unrolled(made[n].args))
                 IN  page[n] = Tagged(t, <<Root>>, Contents(t, page))
      <3> DEFINE m == n - 1
                 e == EmptyNode(made[n].tag)
                 args == made[n].args
                 ops == OneByOne(args)
                 kept == Unrolled(args)
                 s == heap[n]
                 t == NewNode(made[n].tag, kept)
      <3>1. m \in Nat /\ m \in 0..Len(heap) /\ \A c \in 1..m : c \in 1..Len(heap)  BY <2>2
      <3>2. args \in Seq(Args(m)) /\ s = NewNode(made[n].tag, args)  BY DEF HtmlInv
      <3>3. made[n].tag \in Tags \cup {""}
        <4>1. made \in Seq(AnyMade) /\ Len(heap) = Len(made)  BY DEF HtmlInv
        <4>2. made[n] \in AnyMade  BY <4>1
        <4> QED  BY <4>2 DEF AnyMade
      <3>4. e \in Node(m)  BY <3>1, <3>3, EmptyType
      <3> HIDE DEF m, e
      <3>5. ops \in Seq(PlainUpTo(m)) /\ Inits!Fold(e, args) = Plains!Fold(e, ops)
        BY <3>2, ListsUnroll
      <3>6. s = Plains!Fold(e, ops)  BY <3>2, <3>5, InitFold, Zenon DEF NewNode, e
      <3>7. kept = Keeping!Fold(<<>>, ops)  BY KeepFold, Zenon DEF Unrolled
      <3> HIDE DEF ops, kept, args, s
      <3>8. /\ kept \in Seq(PlainUpTo(m))
            /\ Alike(Plains!Fold(e, ops), Plains!Fold(e, kept), page)
        <4>1. \A c \in 1..m : page[c] \in Seq(Tok)  BY <2>4, <3>1
        <4>2. /\ Keeping!Fold(<<>>, ops) \in Seq(PlainUpTo(m))
              /\ Alike(Plains!Fold(e, ops), Plains!Fold(e, Keeping!Fold(<<>>, ops)), page)
          BY <2>3, <3>1, <3>4, <3>5, <4>1, KeptAlike
        <4> QED  BY <3>7, <4>2, Zenon
      <3>9. t = Plains!Fold(e, kept)
        <4>1. t = Inits!Fold(e, kept)  BY InitFold, Zenon DEF NewNode, e
        <4>2. Inits!Fold(e, kept) = Plains!Fold(e, kept)  BY <3>8, PlainInits, Zenon
        <4> QED  BY <4>1, <4>2
      <3> HIDE DEF t
      <3>10. Alike(s, t, page)  BY <3>6, <3>8, <3>9, Zenon
      <3>11. AttrsShown(s, <<Root>>) = AttrsShown(t, <<Root>>)
        BY <3>10, Zenon DEF Alike, AttrsShown, ShownAttr
      <3>12. Contents(s, page) = Contents(t, page)  BY <3>10, Zenon DEF Alike, Contents
      <3>13. s.Name = t.Name  BY <3>10 DEF Alike
      <3>14. Tagged(s, <<Root>>, Contents(s, page)) = Tagged(t, <<Root>>, Contents(t, page))
        BY <3>11, <3>12, <3>13, Zenon DEF Tagged, Enclosed
      <3>15. page[n] = Tagged(s, <<Root>>, Contents(s, page))  BY <2>1, PageOf DEF s
      <3>16. page[n] = Tagged(t, <<Root>>, Contents(t, page))  BY <3>14, <3>15
      <3> QED  BY <3>16, Zenon DEF t, kept, args
    <2> QED  BY <2>2, <2>5, Zenon DEF ListsLeaveNoTrace, Contents, Inner, page
  <1> QED  BY <1>1, HtmlInvariant, PTL
=============================================================================
