------------------------------ MODULE FoldFacts ------------------------------
(***************************************************************************)
(* What a fold over a sequence does, whatever is folded: a module          *)
(* instantiates this one with its own operator.  Induction over the        *)
(* naturals is stated of a set, so that it can be cited without an         *)
(* operator as its argument.                                               *)
(***************************************************************************)
EXTENDS Integers, SequencesExt, SequenceTheorems, WellFoundedInduction, TLAPS

CONSTANT Op(_, _, _)   \* from a parameter, the value so far and the next element

Fold(p, base, s) == FoldLeft(LAMBDA v, x : Op(p, v, x), base, s)

-----------------------------------------------------------------------------
Below == {pair \in Nat \X Nat : pair[1] < pair[2]}

\* Every set of naturals that is not empty has a least element.
LEMMA LeastNatural ==
  ASSUME NEW T, T \subseteq Nat, T # {}
  PROVE  \E x \in T : \A y \in T : x <= y
<1>1. IsWellFoundedOn(Below, Nat)
  <2>1. OpToRel(<, Nat) = Below
    BY DEF OpToRel, Below
  <2> QED
    BY <2>1, NatLessThanWellFounded
<1>2. PICK x \in T : \A y \in T : ~(<<y, x>> \in Below)
  BY <1>1, WFMin
<1>3. ASSUME NEW y \in T PROVE x <= y
  <2>1. ~(<<y, x>>[1] < <<y, x>>[2])
    BY <1>2, <1>3 DEF Below
  <2> QED
    BY <2>1
<1> QED
  BY <1>3

\* Induction over the naturals, about a set.
THEOREM SetInduction ==
  ASSUME NEW T, 0 \in T, \A n \in Nat : n \in T => n + 1 \in T
  PROVE  Nat \subseteq T
<1>1. SUFFICES ASSUME Nat \ T # {} PROVE FALSE
  OBVIOUS
<1>2. PICK n \in Nat \ T : \A m \in Nat \ T : n <= m
  BY <1>1, LeastNatural
<1>3. n # 0 /\ n - 1 \in Nat
  BY <1>2
<1> QED
  BY <1>2, <1>3

-----------------------------------------------------------------------------
\* The function a fold over the indices 1..n of s is computed with.
Folding(iter, p, base, s, n) ==
    iter = [S \in SUBSET (1..n) |->
               IF S = {} THEN base ELSE Op(p, iter[S \ {Max(S)}], s[Max(S)])]

\* The largest of a set that holds the bound of its elements is the bound.
LEMMA MaxOfNext ==
  ASSUME NEW n \in Nat, NEW S \in SUBSET (1..(n + 1)), n + 1 \in S
  PROVE  Max(S) = n + 1
<1>1. \A y \in S : n + 1 >= y
  OBVIOUS
<1>2. \A x \in S : (\A y \in S : x >= y) => x = n + 1
  BY <1>1
<1> QED
  BY <1>1, <1>2 DEF Max

\* That function exists.
LEMMA FoldingExists ==
  ASSUME NEW p, NEW base, NEW s
  PROVE  \A n \in Nat : \E iter : Folding(iter, p, base, s, n)
<1> DEFINE T == {n \in Nat : \E iter : Folding(iter, p, base, s, n)}
<1>1. 0 \in T
  <2>1. SUBSET (1..0) = {{}}
    OBVIOUS
  <2>2. Folding([S \in {{}} |-> base], p, base, s, 0)
    BY <2>1 DEF Folding
  <2> QED
    BY <2>2
<1>2. ASSUME NEW n \in Nat, n \in T PROVE n + 1 \in T
  <2>1. PICK iter : Folding(iter, p, base, s, n)
    BY <1>2
  <2> DEFINE next == [S \in SUBSET (1..(n + 1)) |->
                         IF n + 1 \in S THEN Op(p, iter[S \ {n + 1}], s[n + 1]) ELSE iter[S]]
  <2>2. ASSUME NEW S \in SUBSET (1..(n + 1))
        PROVE  next[S] = IF S = {} THEN base ELSE Op(p, next[S \ {Max(S)}], s[Max(S)])
    <3>1. CASE n + 1 \in S
      <4>1. Max(S) = n + 1
        BY <3>1, MaxOfNext
      <4>2. S \ {n + 1} \in SUBSET (1..(n + 1)) /\ n + 1 \notin S \ {n + 1}
        OBVIOUS
      <4>3. next[S \ {n + 1}] = iter[S \ {n + 1}]
        BY <4>2
      <4> QED
        BY <4>1, <4>3, <3>1
    <3>2. CASE n + 1 \notin S
      <4>1. S \in SUBSET (1..n)
        BY <3>2
      <4>2. next[S] = iter[S] /\ next[S \ {Max(S)}] = iter[S \ {Max(S)}]
        BY <3>2
      <4>3. iter[S] = IF S = {} THEN base ELSE Op(p, iter[S \ {Max(S)}], s[Max(S)])
        BY <2>1, <4>1 DEF Folding
      <4> QED
        BY <4>2, <4>3
    <3> QED
      BY <3>1, <3>2
  <2>3. Folding(next, p, base, s, n + 1)
    <3>1. [S \in SUBSET (1..(n + 1)) |-> next[S]] =
          [S \in SUBSET (1..(n + 1)) |->
              IF S = {} THEN base ELSE Op(p, next[S \ {Max(S)}], s[Max(S)])]
      BY <2>2
    <3>2. next = [S \in SUBSET (1..(n + 1)) |-> next[S]]
      OBVIOUS
    <3> HIDE DEF next
    <3> QED
      BY <3>1, <3>2 DEF Folding
  <2> QED
    BY <2>3
<1>3. Nat \subseteq T
  <2> HIDE DEF T
  <2> QED
    BY <1>1, <1>2, SetInduction
<1> QED
  BY <1>3

\* One step of it: the values are those of the folds over the prefixes.
LEMMA FoldingStep ==
  ASSUME NEW p, NEW base, NEW s, NEW n \in Nat, NEW iter, Folding(iter, p, base, s, n)
  PROVE  /\ iter[1..0] = base
         /\ \A k \in Nat : k + 1 <= n => iter[1..(k + 1)] = Op(p, iter[1..k], s[k + 1])
<1>1. iter[1..0] = base
  BY DEF Folding
<1>2. ASSUME NEW k \in Nat, k + 1 <= n PROVE iter[1..(k + 1)] = Op(p, iter[1..k], s[k + 1])
  <2>1. 1..(k + 1) \in SUBSET (1..n) /\ k + 1 \in 1..(k + 1)
    BY <1>2
  <2>2. Max(1..(k + 1)) = k + 1
    BY <2>1, MaxOfNext
  <2>3. (1..(k + 1)) \ {k + 1} = 1..k
    OBVIOUS
  <2> QED
    BY <2>1, <2>2, <2>3 DEF Folding
<1> QED
  BY <1>1, <1>2

\* The values of the folds over the prefixes of s.
Prefixed(f, p, base, s) ==
    /\ f[0] = base /\ f[Len(s)] = Fold(p, base, s)
    /\ \A k \in Nat : k + 1 <= Len(s) => f[k + 1] = Op(p, f[k], s[k + 1])

\* A fold is the last of the values it has over the prefixes of the sequence.
LEMMA FoldByPrefixes ==
  ASSUME NEW p, NEW base, NEW E, NEW s \in Seq(E)
  PROVE  \E f : Prefixed(f, p, base, s)
<1> DEFINE it == CHOOSE iter : Folding(iter, p, base, s, Len(s))
           f == [k \in Nat |-> it[1..k]]
<1>1. Len(s) \in Nat /\ DOMAIN s = 1..Len(s)
  OBVIOUS
<1>2. Folding(it, p, base, s, Len(s))
  BY <1>1, FoldingExists
<1>3. Fold(p, base, s) = it[1..Len(s)]
  BY <1>1 DEF Fold, FoldLeft, MapThenFoldSet, Folding
<1> HIDE DEF it
<1>4. /\ it[1..0] = base
      /\ \A k \in Nat : k + 1 <= Len(s) => it[1..(k + 1)] = Op(p, it[1..k], s[k + 1])
  BY <1>1, <1>2, FoldingStep
<1>5. Prefixed(f, p, base, s)
  BY <1>1, <1>3, <1>4 DEF Prefixed
<1> QED
  BY <1>5

-----------------------------------------------------------------------------
\* A fold over nothing, and over one element more.
THEOREM FoldEmpty ==
  ASSUME NEW p, NEW base
  PROVE  Fold(p, base, <<>>) = base
<1>1. <<>> \in Seq({}) /\ Len(<<>>) = 0
  OBVIOUS
<1>2. PICK f : Prefixed(f, p, base, <<>>)
  BY <1>1, FoldByPrefixes
<1> QED
  BY <1>1, <1>2 DEF Prefixed

\* A fold over one element more is a step from the fold so far.
THEOREM FoldAppend ==
  ASSUME NEW p, NEW base, NEW E, NEW s \in Seq(E), NEW x \in E
  PROVE  Fold(p, base, Append(s, x)) = Op(p, Fold(p, base, s), x)
<1> DEFINE longer == Append(s, x)
           n == Len(s)
<1>1. longer \in Seq(E) /\ Len(longer) = n + 1 /\ longer[n + 1] = x /\ n \in Nat
      /\ \A i \in 1..n : longer[i] = s[i]
  OBVIOUS
<1>2. PICK f : Prefixed(f, p, base, s)
  BY FoldByPrefixes
<1>3. PICK g : Prefixed(g, p, base, longer)
  <2> HIDE DEF longer
  <2> QED
    BY <1>1, FoldByPrefixes
<1> HIDE DEF longer, n
<1> DEFINE T == {k \in Nat : k <= n => f[k] = g[k]}
<1>4. 0 \in T
  BY <1>2, <1>3 DEF Prefixed
<1>5. ASSUME NEW k \in Nat, k \in T PROVE k + 1 \in T
  <2>1. SUFFICES ASSUME k + 1 <= n PROVE f[k + 1] = g[k + 1]
    OBVIOUS
  <2>2. f[k + 1] = Op(p, f[k], s[k + 1])
    BY <1>2, <2>1 DEF Prefixed, n
  <2>3. g[k + 1] = Op(p, g[k], longer[k + 1])
    BY <1>1, <1>3, <2>1 DEF Prefixed
  <2>4. longer[k + 1] = s[k + 1] /\ f[k] = g[k]
    BY <1>1, <1>5, <2>1
  <2> QED
    BY <2>2, <2>3, <2>4
<1>6. Nat \subseteq T
  <2> HIDE DEF T
  <2> QED
    BY <1>4, <1>5, SetInduction
<1>7. f[n] = g[n] /\ f[n] = Fold(p, base, s)
  BY <1>1, <1>2, <1>6 DEF Prefixed, n
<1>8. g[n + 1] = Op(p, g[n], longer[n + 1]) /\ g[n + 1] = Fold(p, base, longer)
  BY <1>1, <1>3 DEF Prefixed
<1> QED
  BY <1>1, <1>7, <1>8 DEF longer

\* What one step keeps, a fold keeps.
THEOREM FoldInvariant ==
  ASSUME NEW p, NEW I, NEW E, NEW base \in I, \A v \in I, x \in E : Op(p, v, x) \in I, NEW s \in Seq(E)
  PROVE  Fold(p, base, s) \in I
<1>1. PICK f : Prefixed(f, p, base, s)
  BY FoldByPrefixes
<1> DEFINE T == {n \in Nat : n <= Len(s) => f[n] \in I}
<1>2. 0 \in T
  BY <1>1 DEF Prefixed
<1>3. ASSUME NEW n \in Nat, n \in T PROVE n + 1 \in T
  <2>1. SUFFICES ASSUME n + 1 <= Len(s) PROVE f[n + 1] \in I
    OBVIOUS
  <2>2. f[n + 1] = Op(p, f[n], s[n + 1])
    BY <1>1, <2>1 DEF Prefixed
  <2>3. f[n] \in I /\ s[n + 1] \in E
    BY <1>3, <2>1
  <2> QED
    BY <2>2, <2>3
<1>4. Nat \subseteq T
  <2> HIDE DEF T
  <2> QED
    BY <1>2, <1>3, SetInduction
<1> QED
  BY <1>1, <1>4 DEF Prefixed

\* A step that appends the elements of A, and no other.
Selective(p, E, A) == \A v \in Seq(E), x \in E : Op(p, v, x) = IF x \in A THEN Append(v, x) ELSE v

\* A fold by such steps selects the elements of A in their order.
SelectsUpTo(g, n, r, s, A) ==
    /\ g \in [1..Len(r) -> 1..n]
    /\ \A i \in 1..Len(r) : r[i] = s[g[i]]
    /\ \A i, j \in 1..Len(r) : i < j => g[i] < g[j]
    /\ \A k \in 1..n : s[k] \in A <=> \E i \in 1..Len(r) : g[i] = k

Selects(r, s, A) == \E g : SelectsUpTo(g, Len(s), r, s, A)

\* A fold that appends the elements of a set, and no other, returns a selection.
THEOREM FoldSelects ==
  ASSUME NEW p, NEW E, NEW A, NEW s \in Seq(E),
         Selective(p, E, A)
  PROVE  Fold(p, <<>>, s) \in Seq(E) /\ Selects(Fold(p, <<>>, s), s, A)
<1> USE DEF Selective
<1>1. PICK f : Prefixed(f, p, <<>>, s)
  BY FoldByPrefixes
<1> DEFINE T == {n \in Nat : n <= Len(s) => f[n] \in Seq(E) /\ \E g : SelectsUpTo(g, n, f[n], s, A)}
<1>2. 0 \in T
  <2>1. f[0] = <<>> /\ f[0] \in Seq(E) /\ Len(f[0]) = 0 /\ 1..0 = {}
    BY <1>1 DEF Prefixed
  <2>2. SelectsUpTo([i \in {} |-> 0], 0, f[0], s, A)
    BY <2>1 DEF SelectsUpTo
  <2> QED
    BY <2>1, <2>2
<1>3. ASSUME NEW n \in Nat, n \in T PROVE n + 1 \in T
  <2>1. SUFFICES ASSUME n + 1 <= Len(s)
                 PROVE  f[n + 1] \in Seq(E) /\ \E g : SelectsUpTo(g, n + 1, f[n + 1], s, A)
    OBVIOUS
  <2>2. f[n] \in Seq(E) /\ n <= Len(s) /\ s[n + 1] \in E
    BY <1>3, <2>1
  <2>3. PICK g : SelectsUpTo(g, n, f[n], s, A)
    BY <1>3, <2>2
  <2>4. f[n + 1] = IF s[n + 1] \in A THEN Append(f[n], s[n + 1]) ELSE f[n]
    BY <1>1, <2>1, <2>2 DEF Prefixed
  <2>5. CASE s[n + 1] \notin A
    <3>1. f[n + 1] = f[n]
      BY <2>4, <2>5
    <3>2. SelectsUpTo(g, n + 1, f[n + 1], s, A)
      <4>1. \A k \in 1..(n + 1) : k \in 1..n \/ k = n + 1
        OBVIOUS
      <4>2. \A i \in 1..Len(f[n]) : g[i] \in 1..n /\ g[i] # n + 1
        BY <2>3 DEF SelectsUpTo
      <4>3. g \in [1..Len(f[n]) -> 1..(n + 1)]
        BY <2>3 DEF SelectsUpTo
      <4>4. \A k \in 1..(n + 1) : s[k] \in A <=> \E i \in 1..Len(f[n]) : g[i] = k
        BY <2>3, <2>5, <4>1, <4>2 DEF SelectsUpTo
      <4> QED
        BY <2>3, <3>1, <4>3, <4>4 DEF SelectsUpTo
    <3> QED
      BY <2>2, <3>1, <3>2
  <2>6. CASE s[n + 1] \in A
    <3> DEFINE m == Len(f[n])
               h == [i \in 1..(m + 1) |-> IF i = m + 1 THEN n + 1 ELSE g[i]]
    <3>1. f[n + 1] = Append(f[n], s[n + 1]) /\ m \in Nat
      BY <2>2, <2>4, <2>6
    <3>2. Len(f[n + 1]) = m + 1 /\ f[n + 1][m + 1] = s[n + 1] /\ f[n + 1] \in Seq(E)
          /\ \A i \in 1..m : f[n + 1][i] = f[n][i]
      BY <2>2, <3>1
    <3> HIDE DEF m
    <3>3. g \in [1..m -> 1..n] /\ (\A i \in 1..m : f[n][i] = s[g[i]])
          /\ (\A i, j \in 1..m : i < j => g[i] < g[j])
          /\ (\A k \in 1..n : s[k] \in A <=> \E i \in 1..m : g[i] = k)
      BY <2>3 DEF SelectsUpTo, m
    <3>4. h[m + 1] = n + 1 /\ \A i \in 1..m : h[i] = g[i] /\ h[i] \in 1..n
      BY <3>1, <3>3
    <3>5. h \in [1..(m + 1) -> 1..(n + 1)]
      BY <3>1, <3>3
    <3> HIDE DEF h
    <3>6. \A i \in 1..(m + 1) : i \in 1..m \/ i = m + 1
      BY <3>1
    <3>7. \A i \in 1..(m + 1) : f[n + 1][i] = s[h[i]]
      BY <3>1, <3>2, <3>3, <3>4, <3>6
    <3>8. \A i, j \in 1..(m + 1) : i < j => h[i] < h[j]
      <4>1. TAKE i, j \in 1..(m + 1)
      <4>2. HAVE i < j
      <4>3. i \in 1..m
        BY <4>2, <3>1
      <4>4. CASE j = m + 1
        BY <4>3, <4>4, <3>4
      <4>5. CASE j \in 1..m
        BY <4>2, <4>3, <4>5, <3>3, <3>4
      <4> QED
        BY <4>4, <4>5, <3>6
    <3>9. \A k \in 1..(n + 1) : s[k] \in A <=> \E i \in 1..(m + 1) : h[i] = k
      <4>1. TAKE k \in 1..(n + 1)
      <4>2. CASE k = n + 1
        BY <4>2, <2>6, <3>1, <3>4
      <4>3. CASE k \in 1..n
        <5>1. h[m + 1] # k
          BY <4>3, <3>4
        <5>2. (\E i \in 1..(m + 1) : h[i] = k) <=> \E i \in 1..m : h[i] = k
          BY <5>1, <3>1, <3>6
        <5>3. (\E i \in 1..m : h[i] = k) <=> \E i \in 1..m : g[i] = k
          BY <3>4
        <5> QED
          BY <4>3, <5>2, <5>3, <3>3
      <4> QED
        BY <4>2, <4>3
    <3>10. SelectsUpTo(h, n + 1, f[n + 1], s, A)
      BY <3>2, <3>5, <3>7, <3>8, <3>9 DEF SelectsUpTo
    <3> QED
      BY <3>2, <3>10
  <2> QED
    BY <2>5, <2>6
<1>4. Nat \subseteq T
  <2> HIDE DEF T
  <2> QED
    BY <1>2, <1>3, SetInduction
<1>5. Len(s) \in Nat
  OBVIOUS
<1>6. f[Len(s)] \in Seq(E) /\ \E g : SelectsUpTo(g, Len(s), f[Len(s)], s, A)
  BY <1>4, <1>5
<1> QED
  BY <1>1, <1>6 DEF Prefixed, Selects

\* The elements of a selection are those of the list that are selected.
THEOREM SelectedElements ==
  ASSUME NEW E, NEW A, NEW s \in Seq(E), NEW r \in Seq(E), Selects(r, s, A)
  PROVE  Range(r) = Range(s) \intersect A
<1>1. PICK g : SelectsUpTo(g, Len(s), r, s, A)
  BY DEF Selects
<1>2. Len(s) \in Nat /\ Len(r) \in Nat /\ DOMAIN s = 1..Len(s) /\ DOMAIN r = 1..Len(r)
  OBVIOUS
<1>3. ASSUME NEW i \in 1..Len(r) PROVE r[i] \in Range(s) \intersect A
  <2>1. g[i] \in 1..Len(s) /\ r[i] = s[g[i]]
    BY <1>1 DEF SelectsUpTo
  <2>2. s[g[i]] \in A
    BY <1>1, <2>1 DEF SelectsUpTo
  <2> QED
    BY <1>2, <2>1, <2>2 DEF Range
<1>4. ASSUME NEW k \in 1..Len(s), s[k] \in A PROVE s[k] \in Range(r)
  <2>1. PICK i \in 1..Len(r) : g[i] = k
    BY <1>1, <1>4 DEF SelectsUpTo
  <2>2. r[i] = s[k]
    BY <1>1, <2>1 DEF SelectsUpTo
  <2> QED
    BY <1>2, <2>2 DEF Range
<1> QED
  BY <1>2, <1>3, <1>4 DEF Range

-----------------------------------------------------------------------------
\* Such a fold, of a list whose elements of A are those after the k-th.
IsRest(r, E, s, k) ==
    r \in Seq(E) /\ Len(r) = Len(s) - k /\ \A i \in 1..(Len(s) - k) : r[i] = s[k + i]

\* When the elements of the set are those behind a place, the rest from there on is selected.
THEOREM FoldSelectsSuffix ==
  ASSUME NEW p, NEW E, NEW A, NEW s \in Seq(E), NEW k \in 0..Len(s),
         Selective(p, E, A), \A i \in 1..Len(s) : s[i] \in A <=> i > k
  PROVE  IsRest(Fold(p, <<>>, s), E, s, k)
<1> USE DEF Selective
<1>1. PICK f : Prefixed(f, p, <<>>, s)
  BY FoldByPrefixes
<1> DEFINE Holds(m) == /\ f[m] \in Seq(E)
                       /\ IF m <= k THEN f[m] = <<>>
                          ELSE Len(f[m]) = m - k /\ \A i \in 1..(m - k) : f[m][i] = s[k + i]
           T == {m \in Nat : m <= Len(s) => Holds(m)}
<1>0. k \in Nat /\ Len(s) \in Nat
  OBVIOUS
<1>2. 0 \in T
  <2>1. f[0] = <<>> /\ <<>> \in Seq(E) /\ 0 <= k
    BY <1>0, <1>1 DEF Prefixed
  <2> QED
    BY <2>1
<1>3. ASSUME NEW m \in Nat, m \in T PROVE m + 1 \in T
  <2>1. SUFFICES ASSUME m + 1 <= Len(s) PROVE Holds(m + 1)
    OBVIOUS
  <2>2. Holds(m) /\ s[m + 1] \in E /\ m + 1 \in 1..Len(s)
    BY <1>0, <1>3, <2>1
  <2>3. f[m + 1] = IF m + 1 > k THEN Append(f[m], s[m + 1]) ELSE f[m]
    BY <1>1, <2>1, <2>2 DEF Prefixed
  <2>4. CASE m + 1 <= k
    <3>1. f[m + 1] = f[m] /\ m <= k
      BY <1>0, <2>3, <2>4
    <3> QED
      BY <2>2, <2>4, <3>1
  <2>5. CASE m + 1 > k
    <3>1. f[m] \in Seq(E) /\ f[m + 1] = Append(f[m], s[m + 1])
      BY <2>2, <2>3, <2>5
    <3>2. Len(f[m]) = m - k /\ \A i \in 1..(m - k) : f[m][i] = s[k + i]
      <4>1. CASE m <= k
        <5>1. m = k /\ f[m] = <<>>
          BY <1>0, <2>2, <2>5, <4>1
        <5>2. m - k = 0 /\ Len(f[m]) = 0
          BY <1>0, <5>1
        <5> QED
          BY <5>2
      <4>2. CASE ~(m <= k)
        BY <2>2, <4>2
      <4> QED
        BY <4>1, <4>2
    <3> DEFINE d == m - k
               r == f[m]
    <3>3. d \in Nat /\ m + 1 - k = d + 1 /\ k + (d + 1) = m + 1
      BY <1>0, <2>5
    <3>4. Append(r, s[m + 1]) \in Seq(E) /\ Len(Append(r, s[m + 1])) = d + 1
          /\ Append(r, s[m + 1])[d + 1] = s[m + 1]
          /\ \A i \in 1..d : Append(r, s[m + 1])[i] = r[i]
      <4>1. r \in Seq(E) /\ Len(r) = d /\ s[m + 1] \in E
        BY <2>2, <3>1, <3>2
      <4> HIDE DEF r, d
      <4> QED
        BY <4>1
    <3>5. \A i \in 1..d : r[i] = s[k + i]
      BY <3>2
    <3> HIDE DEF d, r
    <3>6. \A i \in 1..(d + 1) : f[m + 1][i] = s[k + i]
      <4>1. \A i \in 1..(d + 1) : i \in 1..d \/ i = d + 1
        BY <3>3
      <4> QED
        BY <3>1, <3>3, <3>4, <3>5, <4>1 DEF r
    <3> QED
      BY <2>5, <3>1, <3>3, <3>4, <3>6, <1>0 DEF r
  <2> QED
    BY <1>0, <2>4, <2>5
<1>4. Nat \subseteq T
  <2> HIDE DEF T
  <2> QED
    BY <1>2, <1>3, SetInduction
<1>5. Holds(Len(s)) /\ f[Len(s)] = Fold(p, <<>>, s)
  <2>1. Len(s) \in T
    BY <1>0, <1>4
  <2>2. Holds(Len(s))
    BY <1>0, <2>1
  <2> HIDE DEF Holds
  <2> QED
    BY <1>1, <2>2 DEF Prefixed
<1>6. CASE Len(s) <= k
  <2>1. Len(s) - k = 0 /\ f[Len(s)] = <<>>
    BY <1>0, <1>5, <1>6
  <2>2. Len(f[Len(s)]) = 0 /\ f[Len(s)] \in Seq(E)
    BY <2>1
  <2> QED
    BY <1>5, <2>1, <2>2 DEF IsRest
<1>7. CASE ~(Len(s) <= k)
  BY <1>5, <1>7 DEF IsRest
<1> QED
  BY <1>6, <1>7

\* A selection is no longer than the list.
THEOREM SelectionIsShorter ==
  ASSUME NEW p, NEW E, NEW A, NEW s \in Seq(E),
         Selective(p, E, A)
  PROVE  Len(Fold(p, <<>>, s)) <= Len(s)
<1> USE DEF Selective
<1>1. PICK f : Prefixed(f, p, <<>>, s)
  BY FoldByPrefixes
<1> DEFINE T == {m \in Nat : m <= Len(s) => f[m] \in Seq(E) /\ Len(f[m]) <= m}
<1>2. 0 \in T
  <2>1. f[0] = <<>>
    BY <1>1 DEF Prefixed
  <2>2. f[0] \in Seq(E) /\ Len(f[0]) = 0
    BY <2>1
  <2> QED
    BY <2>2
<1>3. ASSUME NEW m \in Nat, m \in T PROVE m + 1 \in T
  <2>1. SUFFICES ASSUME m + 1 <= Len(s) PROVE f[m + 1] \in Seq(E) /\ Len(f[m + 1]) <= m + 1
    OBVIOUS
  <2>2. f[m] \in Seq(E) /\ Len(f[m]) <= m /\ s[m + 1] \in E
    BY <1>3, <2>1
  <2>3. f[m + 1] = IF s[m + 1] \in A THEN Append(f[m], s[m + 1]) ELSE f[m]
    BY <1>1, <2>1, <2>2 DEF Prefixed
  <2>4. CASE s[m + 1] \in A
    BY <2>2, <2>3, <2>4
  <2>5. CASE s[m + 1] \notin A
    BY <2>2, <2>3, <2>5
  <2> QED
    BY <2>4, <2>5
<1>4. Nat \subseteq T
  <2> HIDE DEF T
  <2> QED
    BY <1>2, <1>3, SetInduction
<1> QED
  BY <1>1, <1>4 DEF Prefixed

\* To select twice is to select by both sets.
THEOREM SelectTwice ==
  ASSUME NEW p, NEW q, NEW both, NEW E, NEW A, NEW B, NEW s \in Seq(E),
         Selective(p, E, A), Selective(q, E, B), Selective(both, E, A \intersect B)
  PROVE  Fold(p, <<>>, Fold(q, <<>>, s)) = Fold(both, <<>>, s)
<1> USE DEF Selective
<1>1. PICK f : Prefixed(f, q, <<>>, s)
  BY FoldByPrefixes
<1>2. PICK g : Prefixed(g, both, <<>>, s)
  BY FoldByPrefixes
<1> DEFINE T == {m \in Nat : m <= Len(s) => f[m] \in Seq(E) /\ g[m] \in Seq(E) /\ Fold(p, <<>>, f[m]) = g[m]}
<1>3. 0 \in T
  <2>1. f[0] = <<>> /\ g[0] = <<>> /\ <<>> \in Seq(E)
    BY <1>1, <1>2 DEF Prefixed
  <2> QED
    BY <2>1, FoldEmpty
<1>4. ASSUME NEW m \in Nat, m \in T PROVE m + 1 \in T
  <2>1. SUFFICES ASSUME m + 1 <= Len(s)
                 PROVE  f[m + 1] \in Seq(E) /\ g[m + 1] \in Seq(E) /\ Fold(p, <<>>, f[m + 1]) = g[m + 1]
    OBVIOUS
  <2> DEFINE x == s[m + 1]
  <2>2. f[m] \in Seq(E) /\ g[m] \in Seq(E) /\ Fold(p, <<>>, f[m]) = g[m] /\ x \in E
    BY <1>4, <2>1
  <2>3. f[m + 1] = IF x \in B THEN Append(f[m], x) ELSE f[m]
    BY <1>1, <2>1, <2>2 DEF Prefixed
  <2>4. g[m + 1] = IF x \in A /\ x \in B THEN Append(g[m], x) ELSE g[m]
    BY <1>2, <2>1, <2>2 DEF Prefixed
  <2> HIDE DEF x
  <2>5. CASE x \in B
    <3>1. Fold(p, <<>>, Append(f[m], x)) = Op(p, Fold(p, <<>>, f[m]), x)
      BY <2>2, FoldAppend
    <3>2. Op(p, g[m], x) = IF x \in A THEN Append(g[m], x) ELSE g[m]
      BY <2>2
    <3>3. Append(f[m], x) \in Seq(E) /\ Append(g[m], x) \in Seq(E)
      BY <2>2
    <3> QED
      BY <2>2, <2>3, <2>4, <2>5, <3>1, <3>2, <3>3
  <2>6. CASE x \notin B
    BY <2>2, <2>3, <2>4, <2>6
  <2> QED
    BY <2>5, <2>6
<1>5. Nat \subseteq T
  <2> HIDE DEF T
  <2> QED
    BY <1>3, <1>4, SetInduction
<1>6. Len(s) \in Nat
  OBVIOUS
<1>7. Fold(p, <<>>, f[Len(s)]) = g[Len(s)]
  BY <1>5, <1>6
<1> QED
  BY <1>1, <1>2, <1>7 DEF Prefixed
==============================================================================
