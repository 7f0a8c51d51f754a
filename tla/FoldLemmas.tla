----------------------------- MODULE FoldLemmas -----------------------------
(***************************************************************************)
(* FoldLeft one element at a time, for an operator that takes no more than *)
(* what was folded and the next element: what a replay of records, or of   *)
(* events, rests on. A module with such a fold instantiates this one with  *)
(* its operator. Induction is over a set of naturals, which needs no more  *)
(* than that the order of the naturals is well-founded. And finite sets    *)
(* sorted by an order, of which a replay of events or decisions is a fold. *)
(***************************************************************************)
EXTENDS SequencesExt, SequenceTheorems, FiniteSetTheorems, WellFoundedInduction, TLAPS

CONSTANT op(_, _)

Fold(base, s) == FoldLeft(op, base, s)

Less == {p \in Nat \X Nat : p[1] < p[2]}

\* A set of naturals with 0, and with the successor of all it has, is all of them.
LEMMA InductionOnSet ==
    ASSUME NEW P, 0 \in P, \A n \in Nat : n \in P => n + 1 \in P
    PROVE  \A n \in Nat : n \in P
<1> DEFINE Out == {n \in Nat : n \notin P}
<1>1. SUFFICES ASSUME Out # {} PROVE FALSE
  OBVIOUS
<1>2. IsWellFoundedOn(Less, Nat)
  BY NatLessThanWellFounded, Zenon DEF OpToRel, Less
<1>3. PICK n \in Out : \A m \in Out : <<m, n>> \notin Less
  <2>1. Out \subseteq Nat
    OBVIOUS
  <2> HIDE DEF Out
  <2>2. QED
    BY <1>1, <1>2, <2>1, WFMin
<1>4. n \in Nat /\ n \notin P
  OBVIOUS
<1>5. n # 0 /\ n - 1 \in Nat /\ (n - 1) + 1 = n
  BY <1>4
<1>6. <<n - 1, n>> \in Less
  BY <1>4, <1>5 DEF Less
<1>7. n - 1 \in P
  BY <1>3, <1>5, <1>6
<1>8. QED
  BY <1>4, <1>5, <1>7

\* A set of sequences with the empty one, and with all that are one element longer than one
\* of its own, has all of them.
LEMMA InductionOnSeq ==
    ASSUME NEW S, NEW P, <<>> \in P,
           \A s \in Seq(S), x \in S : s \in P => Append(s, x) \in P
    PROVE  \A s \in Seq(S) : s \in P
<1> DEFINE Q == {n \in Nat : \A s \in Seq(S) : Len(s) = n => s \in P}
<1>1. 0 \in Q
  BY EmptySeq
<1>2. ASSUME NEW n \in Nat, n \in Q PROVE n + 1 \in Q
  <2>1. ASSUME NEW s \in Seq(S), Len(s) = n + 1 PROVE s \in P
    <3>1. s # <<>>
      BY <2>1, EmptySeq
    <3>2. PICK u \in Seq(S), x \in S : s = Append(u, x)
      BY <3>1, SequenceEmptyOrAppend
    <3>3. Len(u) = n
      BY <2>1, <3>2, AppendProperties, LenProperties
    <3>4. QED
      BY <1>2, <3>2, <3>3
  <2>2. QED
    BY <2>1
<1> HIDE DEF Q
<1>3. \A n \in Nat : n \in Q
  BY <1>1, <1>2, InductionOnSet
<1>4. QED
  BY <1>3, LenProperties DEF Q

-----------------------------------------------------------------------------
\* The function that FoldLeft asks for, on the subsets of D.
Folds(g, base, s, D) ==
    g = [T \in SUBSET D |-> IF T = {} THEN base ELSE op(g[T \ {Max(T)}], s[Max(T)])]

LEMMA MaxOfInterval ==
    ASSUME NEW n \in Nat, NEW T \in SUBSET (1 .. n + 1), n + 1 \in T
    PROVE  Max(T) = n + 1
<1>1. \A x \in T : (\A y \in T : x >= y) => x = n + 1
  OBVIOUS
<1>2. \A y \in T : n + 1 >= y
  OBVIOUS
<1>3. QED
  BY <1>1, <1>2 DEF Max

\* Such a function exists.
LEMMA FoldsExist ==
    ASSUME NEW base, NEW s, NEW n \in Nat
    PROVE  \E g : Folds(g, base, s, 1 .. n)
<1> DEFINE P == {k \in Nat : \E g : Folds(g, base, s, 1 .. k)}
<1>1. 0 \in P
  <2> DEFINE g == [T \in SUBSET (1 .. 0) |-> base]
  <2>1. \A T \in SUBSET (1 .. 0) : T = {}
    OBVIOUS
  <2>2. Folds(g, base, s, 1 .. 0)
    BY <2>1 DEF Folds
  <2>3. QED
    BY <2>2
<1>2. ASSUME NEW k \in Nat, k \in P PROVE k + 1 \in P
  <2>1. PICK g : Folds(g, base, s, 1 .. k)
    BY <1>2
  <2> DEFINE h == [T \in SUBSET (1 .. k + 1) |->
                      IF k + 1 \in T THEN op(g[T \ {k + 1}], s[k + 1]) ELSE g[T]]
             Next(T) == IF T = {} THEN base ELSE op(h[T \ {Max(T)}], s[Max(T)])
  <2>2. ASSUME NEW T \in SUBSET (1 .. k + 1) PROVE h[T] = Next(T)
    <3>1. CASE k + 1 \in T
      <4>1. Max(T) = k + 1 /\ T # {}
        BY <3>1, MaxOfInterval
      <4>2. T \ {k + 1} \in SUBSET (1 .. k + 1) /\ k + 1 \notin T \ {k + 1}
        OBVIOUS
      <4>3. h[T \ {k + 1}] = g[T \ {k + 1}] /\ h[T] = op(g[T \ {k + 1}], s[k + 1])
        BY <3>1, <4>2
      <4>4. QED
        BY <4>1, <4>3
    <3>2. CASE k + 1 \notin T
      <4>1. T \in SUBSET (1 .. k) /\ h[T] = g[T]
        BY <3>2
      <4>2. g[T] = IF T = {} THEN base ELSE op(g[T \ {Max(T)}], s[Max(T)])
        BY <2>1, <4>1 DEF Folds
      <4>3. T \ {Max(T)} \in SUBSET (1 .. k + 1) /\ k + 1 \notin T \ {Max(T)}
        BY <3>2
      <4>4. h[T \ {Max(T)}] = g[T \ {Max(T)}]
        BY <4>3
      <4>5. QED
        BY <4>1, <4>2, <4>4
    <3>3. QED
      BY <3>1, <3>2
  <2>3. h = [T \in SUBSET (1 .. k + 1) |-> h[T]]
    OBVIOUS
  <2> HIDE DEF h
  <2>4. h = [T \in SUBSET (1 .. k + 1) |-> Next(T)]
    BY <2>2, <2>3
  <2>5. Folds(h, base, s, 1 .. k + 1)
    BY <2>4 DEF Folds
  <2>6. QED
    BY <2>5
<1> HIDE DEF P
<1>3. n \in P
  BY <1>1, <1>2, InductionOnSet
<1>4. QED
  BY <1>3 DEF P

\* On an interval its value depends on nothing but the elements that are folded.
LEMMA FoldsAgree ==
    ASSUME NEW base, NEW s, NEW t, NEW m \in Nat, NEW n \in Nat, NEW g, NEW h,
           Folds(g, base, s, 1 .. m), Folds(h, base, t, 1 .. n),
           m <= n, \A i \in 1 .. m : s[i] = t[i]
    PROVE  g[1 .. m] = h[1 .. m]
<1> DEFINE P == {k \in Nat : k <= m => g[1 .. k] = h[1 .. k]}
<1>1. 0 \in P
  <2>1. 1 .. 0 = {} /\ {} \in SUBSET (1 .. m) /\ {} \in SUBSET (1 .. n)
    OBVIOUS
  <2>2. g[{}] = base /\ h[{}] = base
    BY <2>1 DEF Folds
  <2>3. QED
    BY <2>1, <2>2
<1>2. ASSUME NEW k \in Nat, k \in P PROVE k + 1 \in P
  <2>1. SUFFICES ASSUME k + 1 <= m PROVE g[1 .. k + 1] = h[1 .. k + 1]
    OBVIOUS
  <2> DEFINE T == 1 .. k + 1
  <2>2. k + 1 \in 1 .. m /\ k + 1 \in T
    BY <2>1
  <2>3. T \in SUBSET (1 .. m) /\ T \in SUBSET (1 .. n) /\ T # {}
    <3>1. \A i \in T : i \in 1 .. m /\ i \in 1 .. n
      BY <2>1
    <3>2. QED
      BY <2>2, <3>1
  <2>4. Max(T) = k + 1
    BY MaxOfInterval
  <2>5. T \ {k + 1} = 1 .. k
    OBVIOUS
  <2> HIDE DEF T
  <2>6. g[T] = op(g[T \ {k + 1}], s[k + 1]) /\ h[T] = op(h[T \ {k + 1}], t[k + 1])
    BY <2>3, <2>4 DEF Folds
  <2>7. g[1 .. k] = h[1 .. k] /\ s[k + 1] = t[k + 1]
    BY <1>2, <2>1, <2>2
  <2>8. QED
    BY <2>5, <2>6, <2>7 DEF T
<1> HIDE DEF P
<1>3. m \in P
  BY <1>1, <1>2, InductionOnSet
<1>4. QED
  BY <1>3 DEF P

\* FoldLeft takes its value at the whole of the domain.
LEMMA FoldIsValue ==
    ASSUME NEW base, NEW s, NEW n \in Nat, DOMAIN s = 1 .. n
    PROVE  \E g : Folds(g, base, s, 1 .. n) /\ Fold(base, s) = g[1 .. n]
<1> DEFINE iter == CHOOSE g : Folds(g, base, s, 1 .. n)
<1>1. Folds(iter, base, s, 1 .. n)
  BY FoldsExist
<1>2. Fold(base, s) = iter[1 .. n]
  BY DEF Fold, FoldLeft, MapThenFoldSet, Folds
<1>3. QED
  BY <1>1, <1>2

\* Nothing folded.
THEOREM FoldEmpty == ASSUME NEW base PROVE Fold(base, <<>>) = base
<1>1. DOMAIN <<>> = 1 .. 0
  OBVIOUS
<1>2. PICK g : Folds(g, base, <<>>, 1 .. 0) /\ Fold(base, <<>>) = g[1 .. 0]
  BY <1>1, FoldIsValue
<1>3. 1 .. 0 = {} /\ {} \in SUBSET (1 .. 0)
  OBVIOUS
<1>4. QED
  BY <1>2, <1>3 DEF Folds

\* One more element is folded last.
THEOREM FoldAppend ==
    ASSUME NEW base, NEW S, NEW s \in Seq(S), NEW x \in S
    PROVE  Fold(base, Append(s, x)) = op(Fold(base, s), x)
<1> DEFINE n == Len(s)
           t == Append(s, x)
<1>1. /\ n \in Nat /\ DOMAIN s = 1 .. n /\ DOMAIN t = 1 .. n + 1
      /\ t[n + 1] = x /\ \A i \in 1 .. n : t[i] = s[i]
  BY AppendProperties, LenProperties
<1> HIDE DEF n, t
<1>2. PICK g : Folds(g, base, s, 1 .. n) /\ Fold(base, s) = g[1 .. n]
  BY <1>1, FoldIsValue
<1>3. PICK h : Folds(h, base, t, 1 .. n + 1) /\ Fold(base, t) = h[1 .. n + 1]
  BY <1>1, FoldIsValue
<1>4. g[1 .. n] = h[1 .. n]
  BY <1>1, <1>2, <1>3, FoldsAgree
<1> DEFINE T == 1 .. n + 1
<1>5. T \in SUBSET (1 .. n + 1) /\ T # {} /\ n + 1 \in T /\ T \ {n + 1} = 1 .. n
  BY <1>1
<1> HIDE DEF T
<1>6. Max(T) = n + 1
  BY <1>1, <1>5, MaxOfInterval
<1>7. h[T] = op(h[T \ {n + 1}], t[n + 1])
  BY <1>3, <1>5, <1>6 DEF Folds
<1>8. QED
  BY <1>1, <1>2, <1>3, <1>4, <1>5, <1>7 DEF T, t

-----------------------------------------------------------------------------
\* A finite set in the order of the pairs in R: the element at k has k - 1 before it.
Rank(S, R, x) == Cardinality({y \in S : <<y, x>> \in R})

SortedBy(S, R) == [k \in 1 .. Cardinality(S) |-> CHOOSE x \in S : Rank(S, R, x) = k - 1]

\* R is a strict order on S that is total.
Orders(R, S) ==
    /\ \A x, y \in S : x # y => <<x, y>> \in R \/ <<y, x>> \in R
    /\ \A x \in S : <<x, x>> \notin R
    /\ \A x, y, z \in S : <<x, y>> \in R /\ <<y, z>> \in R => <<x, z>> \in R

LEMMA RankGrows ==
    ASSUME NEW S, NEW R, IsFiniteSet(S), Orders(R, S)
    PROVE  /\ \A x \in S : Rank(S, R, x) \in 0 .. Cardinality(S) - 1
           /\ \A x, y \in S : <<x, y>> \in R => Rank(S, R, x) < Rank(S, R, y)
<1> DEFINE Below(x) == {y \in S : <<y, x>> \in R}
<1>1. ASSUME NEW x \in S PROVE IsFiniteSet(Below(x)) /\ Cardinality(Below(x)) \in Nat
  <2>1. Below(x) \subseteq S
    OBVIOUS
  <2> HIDE DEF Below
  <2>2. QED
    BY <2>1, FS_Subset, FS_CardinalityType
<1>2. ASSUME NEW x \in S, NEW T, IsFiniteSet(T), x \in T, Below(x) \subseteq T
      PROVE  Cardinality(Below(x)) < Cardinality(T)
  <2>1. x \notin Below(x)
    BY <1>2 DEF Orders
  <2>2. Below(x) \subseteq T \ {x}
    BY <1>2, <2>1
  <2>3. IsFiniteSet(T \ {x}) /\ Cardinality(T \ {x}) = Cardinality(T) - 1 /\ Cardinality(T) \in Nat
    BY <1>2, FS_RemoveElement, FS_CardinalityType
  <2> HIDE DEF Below
  <2>4. Cardinality(Below(x)) <= Cardinality(T \ {x})
    BY <2>2, <2>3, FS_Subset
  <2>5. QED
    BY <1>1, <2>3, <2>4
<1>3. \A x \in S : Rank(S, R, x) = Cardinality(Below(x))
  BY DEF Rank
<1>4. ASSUME NEW x \in S PROVE Rank(S, R, x) \in 0 .. Cardinality(S) - 1
  <2>1. Below(x) \subseteq S /\ Cardinality(S) \in Nat
    BY FS_CardinalityType
  <2> HIDE DEF Below
  <2>2. Cardinality(Below(x)) < Cardinality(S)
    BY <1>2, <2>1
  <2>3. QED
    BY <1>1, <1>3, <2>1, <2>2
<1>5. ASSUME NEW x \in S, NEW y \in S, <<x, y>> \in R PROVE Rank(S, R, x) < Rank(S, R, y)
  <2>1. x \in Below(y) /\ Below(x) \subseteq Below(y)
    BY <1>5 DEF Orders
  <2>2. IsFiniteSet(Below(y))
    BY <1>1
  <2> HIDE DEF Below
  <2>3. QED
    BY <1>2, <1>3, <2>1, <2>2
<1>6. QED
  BY <1>4, <1>5

\* Sorting gives each element once, in the order.
THEOREM SortedEnumerates ==
    ASSUME NEW S, NEW R, IsFiniteSet(S), Orders(R, S)
    PROVE  /\ SortedBy(S, R) \in Seq(S) /\ Len(SortedBy(S, R)) = Cardinality(S)
           /\ \A x \in S : \E k \in 1 .. Cardinality(S) : SortedBy(S, R)[k] = x
           /\ \A j, k \in 1 .. Cardinality(S) :
                 j < k => <<SortedBy(S, R)[j], SortedBy(S, R)[k]>> \in R
           /\ \A k \in 1 .. Cardinality(S) : Rank(S, R, SortedBy(S, R)[k]) = k - 1
<1> DEFINE n == Cardinality(S)
           rank == [x \in S |-> Rank(S, R, x)]
           s == SortedBy(S, R)
<1>1. n \in Nat
  BY FS_CardinalityType
<1>2. /\ \A x \in S : Rank(S, R, x) \in 0 .. n - 1
      /\ \A x, y \in S : <<x, y>> \in R => Rank(S, R, x) < Rank(S, R, y)
  BY RankGrows
<1> HIDE DEF n
<1>3. \A x, y \in S : Rank(S, R, x) = Rank(S, R, y) => x = y
  <2>1. SUFFICES ASSUME NEW x \in S, NEW y \in S, Rank(S, R, x) = Rank(S, R, y), x # y
                 PROVE  FALSE
    OBVIOUS
  <2>2. <<x, y>> \in R \/ <<y, x>> \in R
    BY <2>1 DEF Orders
  <2>3. QED
    BY <1>1, <1>2, <2>1, <2>2
<1>4. \A k \in 1 .. n : \E x \in S : Rank(S, R, x) = k - 1
  <2>1. rank \in Injection(S, 0 .. n - 1)
    BY <1>2, <1>3 DEF Injection, IsInjective
  <2>2. IsFiniteSet(0 .. n - 1) /\ Cardinality(0 .. n - 1) = n
    BY <1>1, FS_Interval
  <2>3. rank \in Surjection(S, 0 .. n - 1)
    <3>1. Cardinality(S) = Cardinality(0 .. n - 1)
      BY <2>2 DEF n
    <3> HIDE DEF rank
    <3>2. QED
      BY <2>1, <2>2, <3>1, FS_Injection
  <2>4. \A k \in 1 .. n : k - 1 \in 0 .. n - 1
    BY <1>1
  <2>5. \A j \in 0 .. n - 1 : \E x \in S : rank[x] = j
    BY <2>3 DEF Surjection
  <2>6. QED
    BY <2>4, <2>5
<1>5. s = [k \in 1 .. n |-> CHOOSE x \in S : Rank(S, R, x) = k - 1]
  BY DEF SortedBy, n
<1> HIDE DEF s
<1>6. \A k \in 1 .. n : s[k] \in S /\ Rank(S, R, s[k]) = k - 1
  BY <1>4, <1>5
<1>7. s \in Seq(S) /\ Len(s) = n
  BY <1>1, <1>5, <1>6
<1>8. ASSUME NEW x \in S PROVE \E k \in 1 .. n : s[k] = x
  <2> DEFINE k == Rank(S, R, x) + 1
  <2>1. k \in 1 .. n /\ k - 1 = Rank(S, R, x)
    BY <1>1, <1>2
  <2>2. s[k] \in S /\ Rank(S, R, s[k]) = Rank(S, R, x)
    BY <1>6, <2>1
  <2>3. s[k] = x
    BY <1>3, <2>2
  <2>4. QED
    BY <2>1, <2>3
<1>9. ASSUME NEW j \in 1 .. n, NEW k \in 1 .. n, j < k PROVE <<s[j], s[k]>> \in R
  <2>1. s[j] \in S /\ s[k] \in S /\ Rank(S, R, s[j]) = j - 1 /\ Rank(S, R, s[k]) = k - 1
    BY <1>6
  <2>2. s[j] # s[k] /\ <<s[k], s[j]>> \notin R
    BY <1>1, <1>2, <1>9, <2>1
  <2>3. QED
    BY <2>1, <2>2 DEF Orders
<1>10. QED
  BY <1>6, <1>7, <1>8, <1>9 DEF s, n

\* T is what R puts first in S.
IsBefore(T, S, R) == T \subseteq S /\ \A x \in T, y \in S \ T : <<x, y>> \in R

\* What the order puts first is sorted first, as if it were alone.
THEOREM SortedPrefix ==
    ASSUME NEW S, NEW R, IsFiniteSet(S), Orders(R, S), NEW T, IsBefore(T, S, R)
    PROVE  /\ Cardinality(T) \in 0 .. Cardinality(S)
           /\ \A k \in 1 .. Cardinality(T) : SortedBy(S, R)[k] = SortedBy(T, R)[k]
           /\ \A k \in 1 .. Cardinality(S) : k <= Cardinality(T) <=> SortedBy(S, R)[k] \in T
<1> DEFINE n == Cardinality(S)
           m == Cardinality(T)
           s == SortedBy(S, R)
           t == SortedBy(T, R)
<1>1. T \subseteq S /\ IsFiniteSet(T) /\ m \in Nat /\ n \in Nat /\ m <= n
  BY FS_Subset, FS_CardinalityType DEF IsBefore
<1>2. Orders(R, T)
  BY <1>1 DEF Orders
<1>3. \A x \in T : Rank(T, R, x) = Rank(S, R, x)
  <2>1. ASSUME NEW x \in T PROVE {y \in T : <<y, x>> \in R} = {y \in S : <<y, x>> \in R}
    <3>1. \A y \in S \ T : <<y, x>> \notin R
      BY <1>1, <2>1 DEF Orders, IsBefore
    <3>2. QED
      BY <1>1, <3>1
  <2>2. QED
    BY <2>1 DEF Rank
<1>4. \A x, y \in S : Rank(S, R, x) = Rank(S, R, y) => x = y
  <2>1. ASSUME NEW x \in S, NEW y \in S, <<x, y>> \in R
        PROVE  Rank(S, R, x) # Rank(S, R, y)
    <3>1. /\ Rank(S, R, x) \in 0 .. n - 1 /\ Rank(S, R, y) \in 0 .. n - 1
          /\ Rank(S, R, x) < Rank(S, R, y)
      BY <2>1, RankGrows
    <3>2. QED
      BY <1>1, <3>1
  <2>2. QED
    BY <2>1 DEF Orders
<1> HIDE DEF n, m, s, t
<1>5. /\ \A k \in 1 .. n : s[k] \in S /\ Rank(S, R, s[k]) = k - 1
      /\ \A k \in 1 .. m : t[k] \in T /\ Rank(T, R, t[k]) = k - 1
      /\ \A x \in T : \E k \in 1 .. m : t[k] = x
  <2>1. /\ s \in Seq(S) /\ Len(s) = n
        /\ \A k \in 1 .. n : Rank(S, R, s[k]) = k - 1
    BY <1>1, SortedEnumerates DEF n, s
  <2>2. /\ t \in Seq(T) /\ Len(t) = m
        /\ \A x \in T : \E k \in 1 .. m : t[k] = x
        /\ \A k \in 1 .. m : Rank(T, R, t[k]) = k - 1
    BY <1>1, <1>2, SortedEnumerates DEF m, t
  <2>3. QED
    BY <2>1, <2>2
<1>6. ASSUME NEW k \in 1 .. m PROVE k \in 1 .. n /\ s[k] = t[k]
  BY <1>1, <1>3, <1>4, <1>5
<1>7. ASSUME NEW k \in 1 .. n, s[k] \in T PROVE k <= m
  <2>1. PICK j \in 1 .. m : t[j] = s[k]
    BY <1>5, <1>7
  <2>2. s[j] = s[k] /\ j \in 1 .. n
    BY <1>6, <2>1
  <2>3. j - 1 = k - 1
    BY <1>5, <2>2
  <2>4. QED
    BY <2>3
<1>8. ASSUME NEW k \in 1 .. n, k <= m PROVE s[k] \in T
  BY <1>5, <1>6, <1>8
<1>9. QED
  BY <1>1, <1>6, <1>7, <1>8 DEF n, m, s, t

IsAfter(e, S, R) ==
    /\ e \notin S /\ <<e, e>> \notin R
    /\ \A x \in S : <<x, e>> \in R /\ <<e, x>> \notin R /\ <<x, x>> \notin R

\* An element after all others comes last, and changes nothing in the order of the others.
THEOREM SortedAppend ==
    ASSUME NEW S, NEW R, IsFiniteSet(S), NEW e, IsAfter(e, S, R)
    PROVE  SortedBy(S \cup {e}, R) = Append(SortedBy(S, R), e)
<1> DEFINE n == Cardinality(S)
           T == S \cup {e}
           At(U, k) == CHOOSE x \in U : Rank(U, R, x) = k - 1
<1> USE DEF IsAfter
<1>1. n \in Nat /\ Cardinality(T) = n + 1
  BY FS_CardinalityType, FS_AddElement
<1>2. \A x \in S : Rank(T, R, x) = Rank(S, R, x) /\ Rank(S, R, x) \in Nat
  <2>1. ASSUME NEW x \in S PROVE {y \in T : <<y, x>> \in R} = {y \in S : <<y, x>> \in R}
    OBVIOUS
  <2>2. ASSUME NEW x \in S PROVE Rank(S, R, x) \in Nat
    <3>1. {y \in S : <<y, x>> \in R} \subseteq S
      OBVIOUS
    <3>2. QED
      BY <3>1, FS_CardinalityType, FS_Subset DEF Rank
  <2>3. QED
    BY <2>1, <2>2 DEF Rank
<1>3. Rank(T, R, e) = n
  <2>1. {y \in T : <<y, e>> \in R} = S
    OBVIOUS
  <2>2. QED
    BY <2>1 DEF Rank
<1>4. \A x \in S : Rank(S, R, x) < n
  <2>1. TAKE x \in S
  <2>2. {y \in S : <<y, x>> \in R} \subseteq S \ {x}
    BY <2>1
  <2>3. Cardinality(S \ {x}) = n - 1 /\ IsFiniteSet(S \ {x})
    BY FS_RemoveElement
  <2>4. Cardinality({y \in S : <<y, x>> \in R}) <= n - 1
    <3> DEFINE B == {y \in S : <<y, x>> \in R}
    <3>1. B \subseteq S \ {x} /\ IsFiniteSet(S \ {x})
      BY <2>2, <2>3
    <3> HIDE DEF B
    <3>2. Cardinality(B) <= Cardinality(S \ {x})
      BY <3>1, FS_Subset
    <3>3. QED
      BY <2>3, <3>2 DEF B
  <2>5. Rank(S, R, x) \in Nat
    BY <1>2
  <2>6. QED
    BY <1>1, <2>4, <2>5 DEF Rank
<1>5. ASSUME NEW k \in 1 .. n
      PROVE  At(T, k) = At(S, k)
  <2>1. \A x : (x \in T /\ Rank(T, R, x) = k - 1) <=> (x \in S /\ Rank(S, R, x) = k - 1)
    <3>1. n # k - 1
      BY <1>1, <1>5
    <3> HIDE DEF n
    <3>2. QED
      BY <1>2, <1>3, <3>1
  <2> HIDE DEF T
  <2>2. QED
    BY <2>1, Zenon
<1>6. At(T, n + 1) = e
  <2>1. \A x : (x \in T /\ Rank(T, R, x) = (n + 1) - 1) <=> x = e
    <3>1. (n + 1) - 1 = n
      BY <1>1
    <3>2. \A x \in S : Rank(S, R, x) # n
      BY <1>1, <1>2, <1>4
    <3> HIDE DEF n
    <3>3. QED
      BY <1>2, <1>3, <3>1, <3>2
  <2> HIDE DEF T, n
  <2>2. QED
    BY <2>1
<1>7. SortedBy(S, R) = [k \in 1 .. n |-> At(S, k)] /\ SortedBy(T, R) = [k \in 1 .. n + 1 |-> At(T, k)]
  BY <1>1 DEF SortedBy
<1> HIDE DEF n, At, T
<1>8. Append(SortedBy(S, R), e)
        = [k \in 1 .. n + 1 |-> IF k = n + 1 THEN e ELSE SortedBy(S, R)[k]]
  BY <1>1, <1>7
<1>9. Append(SortedBy(S, R), e) = SortedBy(T, R)
  BY <1>1, <1>5, <1>6, <1>7, <1>8
<1>10. QED
  BY <1>9 DEF T

=============================================================================
