---------------------------- MODULE EventStoreProofs ----------------------------
(***************************************************************************)
(* The event log numbers the events of a session from 1 on, and a client   *)
(* that pages through them misses none, whatever the constants.  Before    *)
(* it, what the other proofs need as well: the facts on filters of lists,  *)
(* on lists without repetition and on the largest of bounded numbers.      *)
(***************************************************************************)
EXTENDS EventStore, SequenceTheorems, FiniteSetTheorems, TLAPS

-----------------------------------------------------------------------------
\* Filters of lists, as folds.

\* There are n numbers from 1 to n.
LEMMA CountUpTo ==
  ASSUME NEW n \in Nat
  PROVE  IsFiniteSet(1..n) /\ Cardinality(1..n) = n
<1>1. IsFiniteSet(1..n) /\ Cardinality(1..n) = IF 1 > n THEN 0 ELSE n - 1 + 1
  BY FS_Interval
<1> QED
  BY <1>1

FKeep == INSTANCE FoldFacts WITH Op <- Keep

\* The filter of a list, as the fold the facts are about.
LEMMA OnlyIsFold == \A s, A : Only(s, A) = FKeep!Fold(A, <<>>, s)
  BY DEF Only, FKeep!Fold, FKeep!FoldLeft, FoldLeft, FKeep!MapThenFoldSet, MapThenFoldSet, FKeep!Max, Max

\* Keep appends what is in the set and nothing else.
LEMMA KeepIsSelective == \A A, E : FKeep!Selective(A, E, A)
  BY DEF Keep, FKeep!Selective

\* The filter of a list holds its elements that are in the set, in their order.
LEMMA OnlySelects ==
  ASSUME NEW E, NEW A, NEW s \in Seq(E)
  PROVE  /\ Only(s, A) \in Seq(E) /\ FKeep!Selects(Only(s, A), s, A)
         /\ Range(Only(s, A)) = Range(s) \intersect A
<1>1. Only(s, A) \in Seq(E) /\ FKeep!Selects(Only(s, A), s, A)
  <2>1. FKeep!Fold(A, <<>>, s) \in Seq(E) /\ FKeep!Selects(FKeep!Fold(A, <<>>, s), s, A)
    BY KeepIsSelective, FKeep!FoldSelects
  <2> QED
    BY <2>1, OnlyIsFold
<1>2. FKeep!Range(Only(s, A)) = FKeep!Range(s) \intersect A
  BY <1>1, FKeep!SelectedElements
<1> QED
  BY <1>1, <1>2 DEF Range, FKeep!Range

\* A filter is of the same elements and no longer.
LEMMA OnlyIsShorter ==
  ASSUME NEW E, NEW A, NEW s \in Seq(E)
  PROVE  Only(s, A) \in Seq(E) /\ Len(Only(s, A)) <= Len(s)
<1>1. FKeep!Fold(A, <<>>, s) \in Seq(E)
  BY KeepIsSelective, FKeep!FoldSelects
<1>2. Len(FKeep!Fold(A, <<>>, s)) <= Len(s)
  BY KeepIsSelective, FKeep!SelectionIsShorter
<1> QED
  BY <1>1, <1>2, OnlyIsFold

\* The filter of a list with one element more.
LEMMA OnlyAppend ==
  ASSUME NEW E, NEW A, NEW s \in Seq(E), NEW x \in E
  PROVE  Only(Append(s, x), A) = IF x \in A THEN Append(Only(s, A), x) ELSE Only(s, A)
<1>1. FKeep!Fold(A, <<>>, Append(s, x)) = Keep(A, FKeep!Fold(A, <<>>, s), x)
  BY FKeep!FoldAppend
<1> QED
  BY <1>1, OnlyIsFold DEF Keep

\* Two filters are one by both sets.
LEMMA OnlyOnly ==
  ASSUME NEW E, NEW A, NEW B, NEW s \in Seq(E)
  PROVE  Only(Only(s, B), A) = Only(s, A \intersect B)
<1>1. FKeep!Fold(A, <<>>, FKeep!Fold(B, <<>>, s)) = FKeep!Fold(A \intersect B, <<>>, s)
  <2>1. FKeep!Selective(A, E, A) /\ FKeep!Selective(B, E, B)
        /\ FKeep!Selective(A \intersect B, E, A \intersect B)
    BY KeepIsSelective
  <2> QED
    BY <2>1, FKeep!SelectTwice
<1> QED
  BY <1>1, OnlyIsFold

\* A filter by what stands behind a place of the list is the rest of the list.
LEMMA OnlySuffix ==
  ASSUME NEW E, NEW A, NEW s \in Seq(E), NEW k \in 0..Len(s), \A i \in 1..Len(s) : s[i] \in A <=> i > k
  PROVE  FKeep!IsRest(Only(s, A), E, s, k)
<1>1. FKeep!IsRest(FKeep!Fold(A, <<>>, s), E, s, k)
  BY KeepIsSelective, FKeep!FoldSelectsSuffix
<1> QED
  BY <1>1, OnlyIsFold

\* The elements of a list, of one more, and of the rest of it.
LEMMA RangeFacts ==
  ASSUME NEW E, NEW s \in Seq(E)
  PROVE  /\ Range(s) \subseteq E /\ (s # <<>> <=> Range(s) # {})
         /\ \A x : Range(Append(s, x)) = Range(s) \union {x}
         /\ s # <<>> => /\ Head(s) \in Range(s) /\ Tail(s) \in Seq(E)
                        /\ Range(s) = Range(Tail(s)) \union {Head(s)}
<1>1. Len(s) \in Nat /\ DOMAIN s = 1..Len(s) /\ \A i \in 1..Len(s) : s[i] \in E
  OBVIOUS
<1>2. Range(s) \subseteq E /\ (s # <<>> <=> Range(s) # {})
  <2>1. s # <<>> => 1 \in 1..Len(s)
    OBVIOUS
  <2> QED
    BY <1>1, <2>1 DEF Range
<1>3. ASSUME NEW x PROVE Range(Append(s, x)) = Range(s) \union {x}
  <2> DEFINE r == Append(s, x)
             n == Len(s)
  <2>1. DOMAIN r = 1..(n + 1) /\ r[n + 1] = x /\ \A i \in 1..n : r[i] = s[i]
    OBVIOUS
  <2>2. 1..(n + 1) = (1..n) \union {n + 1}
    BY <1>1
  <2> HIDE DEF r, n
  <2>3. Range(r) = {r[i] : i \in 1..n} \union {x}
    BY <2>1, <2>2 DEF Range
  <2>4. Range(s) = {r[i] : i \in 1..n}
    BY <1>1, <2>1 DEF Range, n
  <2> QED
    BY <2>3, <2>4 DEF r
<1>4. ASSUME s # <<>>
      PROVE  Head(s) \in Range(s) /\ Tail(s) \in Seq(E) /\ Range(s) = Range(Tail(s)) \union {Head(s)}
  <2>1. 1 \in 1..Len(s) /\ Head(s) = s[1] /\ Tail(s) \in Seq(E)
    BY <1>4
  <2>2. /\ DOMAIN Tail(s) = 1..(Len(s) - 1) /\ \A i \in 1..(Len(s) - 1) : Tail(s)[i] = s[i + 1]
        /\ \A i \in 1..Len(s) : i = 1 \/ i - 1 \in 1..(Len(s) - 1)
        /\ \A i \in 1..(Len(s) - 1) : i + 1 \in 1..Len(s)
    BY <1>1, <1>4
  <2>3. \A i \in 1..Len(s) : i = 1 \/ s[i] = Tail(s)[i - 1]
    BY <2>2
  <2>4. Range(s) \subseteq Range(Tail(s)) \union {s[1]}
    <3>1. ASSUME NEW i \in 1..Len(s), i # 1 PROVE s[i] \in Range(Tail(s))
      <4>1. i - 1 \in DOMAIN Tail(s) /\ s[i] = Tail(s)[i - 1]
        BY <2>2, <2>3, <3>1
      <4> QED
        BY <4>1 DEF Range
    <3> QED
      BY <1>1, <3>1 DEF Range
  <2>5. Range(Tail(s)) \subseteq Range(s)
    BY <1>1, <2>2 DEF Range
  <2>6. s[1] \in Range(s)
    BY <1>1, <2>1 DEF Range
  <2> QED
    BY <2>1, <2>4, <2>5, <2>6
<1> QED
  BY <1>2, <1>3, <1>4

\* The largest of numbers that have a bound.
LEMMA LargestOfBounded ==
  ASSUME NEW n \in Nat, NEW S, S \subseteq 0..n, S # {}
  PROVE  Max(S) \in S /\ \A x \in S : Max(S) >= x
<1> DEFINE T == {n - x : x \in S}
<1>1. T \subseteq Nat /\ T # {}
  <2>1. \A x \in S : n - x \in Nat
    OBVIOUS
  <2> QED
    BY <2>1
<1>2. PICK m \in T : \A y \in T : m <= y
  <2> HIDE DEF T
  <2> QED
    BY <1>1, FKeep!LeastNatural
<1>3. PICK k \in S : m = n - k
  BY <1>2
<1>4. \A x \in S : k >= x
  <2>1. \A x \in S : n - k <= n - x
    BY <1>2, <1>3
  <2>2. \A x \in S : x \in 0..n /\ k \in 0..n
    BY <1>3
  <2> QED
    BY <2>1, <2>2
<1> QED
  BY <1>3, <1>4 DEF Max

\* A finite set of numbers has a bound.
LEMMA FiniteHaveBound ==
  ASSUME NEW S, IsFiniteSet(S), S \subseteq Nat
  PROVE  \E b \in Nat : S \subseteq 0..b
<1>1. PICK n \in Nat : ExistsSurjection(1..n, S)
  BY FS_NatSurjection
<1>2. PICK f \in [1..n -> S] : \A x \in S : \E i \in 1..n : f[i] = x
  BY <1>1 DEF ExistsSurjection, Surjection
<1> DEFINE T == {k \in Nat : k <= n => \E b \in Nat : \A i \in 1..k : f[i] <= b}
<1>3. 0 \in T
  OBVIOUS
<1>4. ASSUME NEW k \in Nat, k \in T PROVE k + 1 \in T
  <2>1. SUFFICES ASSUME k + 1 <= n PROVE \E b \in Nat : \A i \in 1..(k + 1) : f[i] <= b
    OBVIOUS
  <2>2. PICK b \in Nat : \A i \in 1..k : f[i] <= b
    BY <1>4, <2>1
  <2>3. k + 1 \in 1..n /\ \A i \in 1..k : i \in 1..n
    BY <2>1
  <2>4. \A i \in 1..n : f[i] \in Nat
    OBVIOUS
  <2>5. f[k + 1] + b \in Nat
    BY <2>3, <2>4
  <2>6. \A i \in 1..(k + 1) : i \in 1..k \/ i = k + 1
    OBVIOUS
  <2>7. \A i \in 1..(k + 1) : f[i] <= f[k + 1] + b
    BY <2>2, <2>3, <2>4, <2>6
  <2> QED
    BY <2>5, <2>7
<1>5. Nat \subseteq T
  <2> HIDE DEF T
  <2> QED
    BY <1>3, <1>4, FKeep!SetInduction
<1>6. PICK b \in Nat : \A i \in 1..n : f[i] <= b
  <2>1. n \in T
    BY <1>5
  <2>2. n <= n
    OBVIOUS
  <2> QED
    BY <2>1, <2>2
<1>7. S \subseteq 0..b
  BY <1>2, <1>6
<1> QED
  BY <1>7

\* No element of the list is there twice.
Distinct(s) == \A i, j \in 1..Len(s) : s[i] = s[j] => i = j

\* A list cut in two.
LEMMA CutFacts ==
  ASSUME NEW E, NEW s \in Seq(E), Distinct(s), NEW k \in 0..Len(s)
  PROVE  /\ SubSeq(s, 1, k) \in Seq(E) /\ Len(SubSeq(s, 1, k)) = k
         /\ SubSeq(s, k + 1, Len(s)) \in Seq(E) /\ Len(SubSeq(s, k + 1, Len(s))) = Len(s) - k
         /\ Distinct(SubSeq(s, 1, k)) /\ Distinct(SubSeq(s, k + 1, Len(s)))
         /\ Range(SubSeq(s, 1, k)) \subseteq Range(s)
         /\ Range(SubSeq(s, k + 1, Len(s))) = Range(s) \ Range(SubSeq(s, 1, k))
<1> DEFINE n == Len(s)
           f == SubSeq(s, 1, k)
           r == SubSeq(s, k + 1, Len(s))
<1>1. n \in Nat /\ k \in 0..n /\ DOMAIN s = 1..n /\ \A i \in 1..n : s[i] \in E
  OBVIOUS
<1> HIDE DEF n
<1>2. f \in Seq(E) /\ Len(f) = k /\ \A i \in 1..k : f[i] = s[i]
  <2>1. \A i \in 1..k : s[i] \in E
    BY <1>1
  <2>2. f \in Seq(E) /\ Len(f) = (IF 1 <= k THEN k - 1 + 1 ELSE 0)
        /\ \A i \in 1..(k - 1 + 1) : f[i] = s[1 + i - 1]
    <3>1. 1 \in Int /\ k \in Int
      BY <1>1
    <3> QED
      BY <2>1, <3>1, SubSeqProperties
  <2> QED
    BY <1>1, <2>2
<1>3. r \in Seq(E) /\ Len(r) = n - k /\ \A i \in 1..(n - k) : r[i] = s[k + i]
  <2>1. \A i \in (k + 1)..n : s[i] \in E
    BY <1>1
  <2>2. r \in Seq(E) /\ Len(r) = (IF k + 1 <= n THEN n - (k + 1) + 1 ELSE 0)
        /\ \A i \in 1..(n - (k + 1) + 1) : r[i] = s[(k + 1) + i - 1]
    <3>1. k + 1 \in Int /\ n \in Int /\ r = SubSeq(s, k + 1, n)
      BY <1>1 DEF n
    <3> HIDE DEF r
    <3> QED
      BY <2>1, <3>1, SubSeqProperties
  <2> HIDE DEF r
  <2> QED
    BY <1>1, <2>2
<1> HIDE DEF f, r
<1>4. DOMAIN f = 1..k /\ DOMAIN r = 1..(n - k)
  BY <1>2, <1>3
<1>5. \A i, j \in 1..n : s[i] = s[j] => i = j
  BY DEF Distinct, n
<1>6. \A i \in 1..k : i \in 1..n
  BY <1>1
<1>7. \A i \in 1..(n - k) : k + i \in 1..n
  BY <1>1
<1>8. Distinct(f)
  BY <1>2, <1>5, <1>6 DEF Distinct
<1>9. Distinct(r)
  <2>1. ASSUME NEW i \in 1..(n - k), NEW j \in 1..(n - k), r[i] = r[j] PROVE i = j
    <3>1. k + i = k + j
      BY <1>3, <1>5, <1>7, <2>1
    <3> QED
      BY <1>1, <3>1
  <2> QED
    BY <1>3, <2>1 DEF Distinct
<1>10. Range(f) \subseteq Range(s)
  BY <1>1, <1>2, <1>4, <1>6 DEF Range
<1>11. \A i \in 1..n : i \in 1..k \/ (i - k \in 1..(n - k) /\ k + (i - k) = i)
  BY <1>1
<1>12. Range(r) = Range(s) \ Range(f)
  <2>1. ASSUME NEW i \in 1..(n - k) PROVE r[i] \in Range(s) \ Range(f)
    <3>1. r[i] = s[k + i] /\ k + i \in 1..n
      BY <1>3, <1>7
    <3>2. \A j \in 1..k : s[j] # s[k + i]
      <4>1. \A j \in 1..k : j # k + i
        BY <1>1
      <4> QED
        BY <1>5, <1>6, <3>1, <4>1
    <3> QED
      BY <1>1, <1>2, <1>4, <3>1, <3>2 DEF Range
  <2>2. ASSUME NEW i \in 1..n, s[i] \notin Range(f) PROVE s[i] \in Range(r)
    <3>1. i \notin 1..k
      BY <1>2, <1>4, <2>2 DEF Range
    <3>2. i - k \in 1..(n - k) /\ r[i - k] = s[i]
      BY <1>3, <1>11, <3>1
    <3> QED
      BY <1>4, <3>2 DEF Range
  <2> QED
    BY <1>1, <1>4, <2>1, <2>2 DEF Range
<1> QED
  BY <1>2, <1>3, <1>8, <1>9, <1>10, <1>12 DEF f, r, n

\* The filter of such a list is one.
LEMMA OnlyIsDistinct ==
  ASSUME NEW E, NEW A, NEW s \in Seq(E), Distinct(s)
  PROVE  Distinct(Only(s, A))
<1> DEFINE r == Only(s, A)
<1>1. r \in Seq(E) /\ FKeep!Selects(r, s, A)
  BY OnlySelects
<1> HIDE DEF r
<1>2. PICK g : FKeep!SelectsUpTo(g, Len(s), r, s, A)
  BY <1>1 DEF FKeep!Selects
<1>3. /\ g \in [1..Len(r) -> 1..Len(s)] /\ \A i \in 1..Len(r) : r[i] = s[g[i]]
      /\ \A i, j \in 1..Len(r) : i < j => g[i] < g[j]
  BY <1>2 DEF FKeep!SelectsUpTo
<1>4. ASSUME NEW i \in 1..Len(r), NEW j \in 1..Len(r), r[i] = r[j] PROVE i = j
  <2>1. g[i] = g[j] /\ g[i] \in 1..Len(s)
    BY <1>3, <1>4 DEF Distinct
  <2>2. ~(i < j) /\ ~(j < i)
    <3>1. Len(s) \in Nat
      OBVIOUS
    <3>2. g[i] \in Int /\ ~(g[i] < g[j]) /\ ~(g[j] < g[i])
      BY <2>1, <3>1
    <3> QED
      BY <1>3, <3>2
  <2>3. Len(r) \in Nat
    BY <1>1
  <2> QED
    BY <2>2, <2>3
<1> QED
  BY <1>4 DEF Distinct, r

-----------------------------------------------------------------------------
\* The events of a session bear the numbers 1 to n, and a client was given those from 1 on.
Numbered(s) ==
    /\ \A i \in 1..Len(Of(s)) : Of(s)[i].seq = i
    /\ \A i \in 1..Len(seen[s]) : seen[s][i] = i
    /\ Len(seen[s]) <= Len(Of(s))

LogInv ==
    /\ rows \in Seq(EventRows) /\ lastId \in 0..MaxRows /\ Len(rows) <= lastId
    /\ fts \subseteq 1..lastId /\ opened \in BOOLEAN
    /\ seen \in [LogSessions -> Seq(1..MaxRows)]
    /\ \A s \in LogSessions : Numbered(s)

\* The events of a session are events, and no more than all.
LEMMA EventsOfSession ==
  ASSUME rows \in Seq(EventRows), NEW s
  PROVE  Of(s) \in Seq(EventRows) /\ Len(Of(s)) <= Len(rows)
  BY OnlyIsShorter DEF Of

\* The first state of the log has the invariant.
LEMMA LogInitially == LogInit => LogInv
<1> SUFFICES ASSUME LogInit PROVE LogInv
  OBVIOUS
<1>1. PICK s \in LogSessions, ty \in LogTypes, old \in {0, 1} :
          /\ rows = IF old = 0 THEN <<>> ELSE <<[id |-> 1, session |-> s, seq |-> 1, type |-> ty]>>
          /\ lastId = old
  BY DEF LogInit
<1>2. MaxRows \in Nat /\ MaxRows >= 1
  BY LogAssumption
<1>3. fts = {} /\ opened = FALSE /\ seen = [t \in LogSessions |-> <<>>]
  BY DEF LogInit
<1>4. \A t \in LogSessions : seen[t] = <<>> /\ Len(seen[t]) = 0
  BY <1>3
<1>5. seen \in [LogSessions -> Seq(1..MaxRows)]
  BY <1>3
<1>6. CASE old = 0
  <2>1. rows = <<>> /\ rows \in Seq(EventRows) /\ lastId = 0
    BY <1>1, <1>6
  <2>2. Len(rows) = 0
    BY <2>1
  <2>3. ASSUME NEW t \in LogSessions PROVE Numbered(t)
    <3>1. Of(t) \in Seq(EventRows) /\ Len(Of(t)) <= 0
      BY <2>1, <2>2, EventsOfSession
    <3>2. Len(Of(t)) = 0
      BY <3>1
    <3> QED
      BY <1>4, <3>2 DEF Numbered
  <2>4. lastId \in 0..MaxRows /\ Len(rows) <= lastId
    BY <1>2, <2>1, <2>2
  <2> QED
    BY <1>3, <1>5, <2>1, <2>3, <2>4 DEF LogInv
<1>7. CASE old = 1
  <2> DEFINE row == [id |-> 1, session |-> s, seq |-> 1, type |-> ty]
  <2>1. row \in EventRows /\ row.seq = 1
    BY <1>2 DEF EventRows
  <2>2. rows = Append(<<>>, row) /\ lastId = 1
    BY <1>1, <1>7
  <2> HIDE DEF row
  <2>3. rows \in Seq(EventRows) /\ Len(rows) = 1
    BY <2>1, <2>2
  <2>4. ASSUME NEW t \in LogSessions PROVE Numbered(t)
    <3> DEFINE A == {r \in EventRows : r.session = t}
    <3>1. Only(<<>>, A) = <<>>
      <4>1. <<>> \in Seq(EventRows) /\ Len(<<>>) = 0
        OBVIOUS
      <4>2. Only(<<>>, A) \in Seq(EventRows) /\ Len(Only(<<>>, A)) <= 0
        BY <4>1, OnlyIsShorter
      <4> QED
        BY <4>2
    <3>2. Of(t) = Append(<<>>, row) \/ Of(t) = <<>>
      <4>1. <<>> \in Seq(EventRows)
        OBVIOUS
      <4>2. Of(t) = IF row \in A THEN Append(<<>>, row) ELSE <<>>
        <5>1. Of(t) = Only(rows, A)
          BY DEF Of
        <5> HIDE DEF A
        <5>2. Only(Append(<<>>, row), A) = IF row \in A THEN Append(Only(<<>>, A), row) ELSE Only(<<>>, A)
          <6> DEFINE none == <<>>
          <6>1. none \in Seq(EventRows)
            OBVIOUS
          <6> HIDE DEF none
          <6>2. Only(Append(none, row), A) = IF row \in A THEN Append(Only(none, A), row) ELSE Only(none, A)
            BY <2>1, <6>1, OnlyAppend
          <6> QED
            BY <6>2 DEF none
        <5> QED
          BY <2>2, <3>1, <5>1, <5>2
      <4> QED
        BY <4>2
    <3>3. CASE Of(t) = Append(<<>>, row)
      <4>1. Len(Of(t)) = 1 /\ Of(t)[1] = row
        BY <3>3
      <4>2. \A i \in 1..1 : i = 1
        OBVIOUS
      <4> QED
        BY <1>4, <2>1, <4>1, <4>2 DEF Numbered
    <3>4. CASE Of(t) = <<>>
      <4>1. Len(Of(t)) = 0
        BY <3>4
      <4> QED
        BY <1>4, <4>1 DEF Numbered
    <3> QED
      BY <3>2, <3>3, <3>4
  <2>5. lastId \in 0..MaxRows /\ Len(rows) <= lastId
    BY <1>2, <2>2, <2>3
  <2> QED
    BY <1>3, <1>5, <2>3, <2>4, <2>5 DEF LogInv
<1> QED
  BY <1>6, <1>7

\* The number of the next event.
LEMMA NextSeqFollows ==
  ASSUME LogInv, NEW s \in LogSessions
  PROVE  NextSeq(s) = Len(Of(s)) + 1
<1> DEFINE n == Len(Of(s))
           S == {0} \union {r.seq : r \in Range(Of(s))}
<1>1. Of(s) \in Seq(EventRows) /\ \A i \in 1..n : Of(s)[i].seq = i
  BY EventsOfSession DEF LogInv, Numbered
<1>2. n \in Nat /\ DOMAIN Of(s) = 1..n
  BY <1>1
<1>3. S = {0} \union {Of(s)[i].seq : i \in 1..n}
  BY <1>2 DEF Range
<1>4. S = 0..n
  <2>1. {Of(s)[i].seq : i \in 1..n} = 1..n
    BY <1>1
  <2>2. 0..n = {0} \union (1..n)
    BY <1>2
  <2> HIDE DEF S, n
  <2> QED
    BY <1>3, <2>1, <2>2
<1>5. Max(0..n) = n
  <2> HIDE DEF n
  <2>1. n \in 0..n /\ \A y \in 0..n : n >= y
    BY <1>2
  <2>2. \A x \in 0..n : (\A y \in 0..n : x >= y) => x = n
    BY <1>2, <2>1
  <2> QED
    BY <2>1, <2>2 DEF Max
<1> QED
  BY <1>4, <1>5 DEF NextSeq

\* A page holds the events that follow the last one the client has.
LEMMA PageFollows ==
  ASSUME LogInv, NEW s \in LogSessions, NEW k, k = Len(seen[s])
  PROVE  LET got == GetEvents(s, k, Page) IN
         /\ got \in Seq(EventRows) /\ k + Len(got) <= Len(Of(s))
         /\ \A i \in 1..Len(got) : got[i].seq = k + i
<1> DEFINE A == {r \in EventRows : r.seq > k}
           n == Len(Of(s))
           after == Only(Of(s), A)
           m == Min({Page, HardCap, Len(after)})
<1>1. Of(s) \in Seq(EventRows) /\ \A i \in 1..n : Of(s)[i].seq = i
  BY EventsOfSession DEF LogInv, Numbered
<1>2. n \in Nat /\ k \in 0..n
  BY <1>1 DEF LogInv, Numbered
<1>3. \A i \in 1..n : Of(s)[i] \in A <=> i > k
  BY <1>1
<1>4. /\ after \in Seq(EventRows) /\ Len(after) = n - k
      /\ \A i \in 1..(n - k) : after[i] = Of(s)[k + i]
  <2> DEFINE list == Of(s)
  <2>1. list \in Seq(EventRows) /\ k \in 0..Len(list)
    BY <1>1, <1>2
  <2>2. \A i \in 1..Len(list) : list[i] \in A <=> i > k
    BY <1>3
  <2>3. after = Only(list, A) /\ n = Len(list)
    OBVIOUS
  <2> HIDE DEF A, list, after, n
  <2>4. FKeep!IsRest(Only(list, A), EventRows, list, k)
    BY <2>1, <2>2, OnlySuffix
  <2> QED
    BY <2>3, <2>4 DEF list, FKeep!IsRest
<1> HIDE DEF n, A
<1>5. \A i \in 1..(n - k) : k + i \in 1..n
  BY <1>2
<1>6. \A i \in 1..(n - k) : after[i].seq = k + i
  BY <1>1, <1>4, <1>5
<1> HIDE DEF after
<1>7. m \in 0..Len(after)
  <2> DEFINE S == {Page, HardCap, Len(after)}
  <2>1. Page \in Nat /\ HardCap \in Nat /\ Len(after) \in Nat
    BY <1>4, LogAssumption
  <2>2. \E x \in S : \A y \in S : x <= y
    BY <2>1
  <2>3. Min(S) \in S /\ \A y \in S : Min(S) <= y
    <3> HIDE DEF S
    <3> QED
      BY <2>2 DEF Min
  <2>4. m \in Nat /\ m <= Len(after)
    BY <2>1, <2>3
  <2> QED
    BY <2>1, <2>4
<1>8. GetEvents(s, k, Page) = SubSeq(after, 1, m)
  BY DEF GetEvents, after, A
<1> HIDE DEF m
<1>9. SubSeq(after, 1, m) \in Seq(EventRows) /\ Len(SubSeq(after, 1, m)) = m
      /\ \A i \in 1..m : SubSeq(after, 1, m)[i] = after[i]
  BY <1>4, <1>7
<1>10. k + m <= n /\ \A i \in 1..m : i \in 1..(n - k)
  BY <1>2, <1>4, <1>7
<1> QED
  BY <1>6, <1>8, <1>9, <1>10 DEF n

\* Every step of the log keeps the invariant.
LEMMA LogStep == LogInv /\ [LogNext]_logVars => LogInv'
<1> SUFFICES ASSUME LogInv, [LogNext]_logVars PROVE LogInv'
  OBVIOUS
<1>0. /\ rows \in Seq(EventRows) /\ lastId \in 0..MaxRows /\ Len(rows) <= lastId /\ Len(rows) \in Nat
      /\ fts \subseteq 1..lastId /\ opened \in BOOLEAN
      /\ seen \in [LogSessions -> Seq(1..MaxRows)]
      /\ MaxRows \in Nat
  BY LogAssumption DEF LogInv
<1>1. ASSUME NEW s \in LogSessions, NEW ty \in LogTypes, AppendEvent(s, ty) PROVE LogInv'
  <2> DEFINE n == Len(Of(s))
             row == [id |-> lastId + 1, session |-> s, seq |-> n + 1, type |-> ty]
  <2>1. rows' = Append(rows, row) /\ lastId < MaxRows /\ lastId' = lastId + 1
        /\ fts' = fts \union {lastId + 1} /\ UNCHANGED <<opened, seen>>
    BY <1>1, NextSeqFollows DEF AppendEvent
  <2>2. n \in Nat /\ n <= Len(rows) /\ Of(s) \in Seq(EventRows)
    BY <1>0, EventsOfSession
  <2> HIDE DEF n
  <2>3. lastId + 1 \in 1..MaxRows /\ n + 1 \in 1..MaxRows
    BY <1>0, <2>1, <2>2
  <2>4. row \in EventRows /\ row.seq = n + 1 /\ row.session = s
    BY <2>3 DEF EventRows
  <2> HIDE DEF row
  <2>5. rows' \in Seq(EventRows) /\ Len(rows') = Len(rows) + 1
    BY <1>0, <2>1, <2>4
  <2>6. ASSUME NEW t \in LogSessions PROVE Numbered(t)'
    <3> DEFINE A == {r \in EventRows : r.session = t}
    <3>1. Of(t)' = IF row \in A THEN Append(Of(t), row) ELSE Of(t)
      BY <1>0, <2>1, <2>4, OnlyAppend DEF Of
    <3>2. row \in A <=> t = s
      BY <2>4
    <3>3. Numbered(t) /\ seen'[t] = seen[t]
      BY <2>1 DEF LogInv
    <3> HIDE DEF A
    <3>4. CASE t # s
      BY <3>1, <3>2, <3>3, <3>4 DEF Numbered
    <3>5. CASE t = s
      <4>1. Of(s)' = Append(Of(s), row)
        BY <3>1, <3>2, <3>5
      <4>2. Len(Of(s)') = n + 1 /\ Of(s)'[n + 1] = row /\ \A i \in 1..n : Of(s)'[i] = Of(s)[i]
        BY <2>2, <4>1 DEF n
      <4>3. \A i \in 1..n : Of(s)[i].seq = i
        BY <3>3, <3>5 DEF Numbered, n
      <4>4. \A i \in 1..(n + 1) : i \in 1..n \/ i = n + 1
        BY <2>2
      <4>5. \A i \in 1..(n + 1) : Of(s)'[i].seq = i
        BY <2>4, <4>2, <4>3, <4>4
      <4>6. Len(seen[s]) <= n /\ Len(seen[s]) \in Nat
        BY <1>0, <3>3, <3>5 DEF Numbered, n
      <4>7. Len(seen[s]) <= n + 1
        BY <2>2, <4>6
      <4> QED
        BY <3>3, <3>5, <4>2, <4>5, <4>7 DEF Numbered
    <3> QED
      BY <3>4, <3>5
  <2>7. fts' \subseteq 1..lastId' /\ lastId' \in 0..MaxRows /\ Len(rows') <= lastId'
    BY <1>0, <2>1, <2>3, <2>5
  <2> QED
    BY <1>0, <2>1, <2>5, <2>6, <2>7 DEF LogInv
<1>2. ASSUME NEW s \in LogSessions, Poll(s) PROVE LogInv'
  <2> DEFINE k == Len(seen[s])
             got == GetEvents(s, k, Page)
             more == [i \in DOMAIN got |-> got[i].seq]
  <2>1. seen[s] \in Seq(1..MaxRows) /\ Numbered(s) /\ k \in Nat
    BY <1>0 DEF LogInv
  <2>2. Cursor(s) = k
    <3>1. CASE seen[s] = <<>>
      BY <3>1 DEF Cursor
    <3>2. CASE seen[s] # <<>>
      <4>1. k \in 1..k
        BY <2>1, <3>2
      <4>2. Last(seen[s]) = seen[s][k]
        BY DEF Last
      <4> QED
        BY <2>1, <3>2, <4>1, <4>2 DEF Cursor, Numbered
    <3> QED
      BY <3>1, <3>2
  <2>3. seen' = [seen EXCEPT ![s] = seen[s] \o more] /\ UNCHANGED <<rows, lastId, fts, opened>>
    BY <1>2, <2>2 DEF Poll
  <2>4. /\ got \in Seq(EventRows) /\ k + Len(got) <= Len(Of(s))
        /\ \A i \in 1..Len(got) : got[i].seq = k + i
    BY PageFollows
  <2>5. \A r \in EventRows : r.seq \in 1..MaxRows
    BY DEF EventRows
  <2>6. DOMAIN got = 1..Len(got) /\ Len(got) \in Nat /\ \A i \in 1..Len(got) : got[i] \in EventRows
    BY <2>4
  <2> HIDE DEF got
  <2>7. more \in Seq(1..MaxRows) /\ Len(more) = Len(got) /\ \A i \in 1..Len(more) : more[i] = k + i
    BY <2>4, <2>5, <2>6
  <2> DEFINE all == seen[s] \o more
  <2> HIDE DEF more
  <2>8. /\ all \in Seq(1..MaxRows) /\ Len(all) = k + Len(more)
        /\ \A i \in 1..k : all[i] = seen[s][i]
        /\ \A i \in 1..Len(more) : all[k + i] = more[i]
    <3> DEFINE old == seen[s]
    <3>1. old \in Seq(1..MaxRows) /\ k = Len(old) /\ all = old \o more
      BY <2>1
    <3> HIDE DEF old, k, all
    <3>2. (old \o more) \in Seq(1..MaxRows) /\ Len(old \o more) = Len(old) + Len(more)
      BY <2>7, <3>1, ConcatProperties
    <3>3. \A i \in 1..Len(old) : (old \o more)[i] = old[i]
      BY <2>7, <3>1
    <3>4. \A i \in 1..Len(more) : (old \o more)[Len(old) + i] = more[i]
      BY <2>7, <3>1, ConcatProperties
    <3> QED
      BY <3>1, <3>2, <3>3, <3>4 DEF old
  <2> HIDE DEF all
  <2>9. ASSUME NEW i \in 1..Len(all) PROVE all[i] = i
    <3>1. CASE i \in 1..k
      BY <2>1, <2>8, <3>1 DEF Numbered
    <3>2. CASE i \notin 1..k
      <4> DEFINE j == i - k
      <4>1. j \in 1..Len(more) /\ k + j = i
        BY <2>1, <2>6, <2>7, <2>8, <3>2
      <4> HIDE DEF j
      <4> QED
        BY <2>7, <2>8, <4>1
    <3> QED
      BY <3>1, <3>2
  <2>10. seen' \in [LogSessions -> Seq(1..MaxRows)] /\ seen'[s] = all
         /\ \A t \in LogSessions : t # s => seen'[t] = seen[t]
    BY <1>0, <2>3, <2>8 DEF all
  <2>11. \A t : Of(t)' = Of(t)
    BY <2>3 DEF Of
  <2>12. ASSUME NEW t \in LogSessions PROVE Numbered(t)'
    <3>1. CASE t = s
      BY <2>1, <2>4, <2>7, <2>8, <2>9, <2>10, <2>11, <3>1 DEF Numbered
    <3>2. CASE t # s
      BY <2>10, <2>11, <3>2 DEF LogInv, Numbered
    <3> QED
      BY <3>1, <3>2
  <2> QED
    BY <1>0, <2>3, <2>10, <2>12 DEF LogInv
<1>3. ASSUME NEW s \in LogSessions, DeleteSession(s) PROVE LogInv'
  <2> DEFINE B == {r \in EventRows : r.session # s}
  <2>1. rows' = Only(rows, B) /\ seen' = [seen EXCEPT ![s] = <<>>] /\ UNCHANGED <<lastId, fts, opened>>
    BY <1>3 DEF DeleteSession
  <2>2. rows' \in Seq(EventRows) /\ Len(rows') <= Len(rows)
    <3> HIDE DEF B
    <3> QED
      BY <1>0, <2>1, OnlyIsShorter
  <2>3. Len(rows') <= lastId'
    <3>1. Len(rows') \in Nat
      BY <2>2
    <3> QED
      BY <1>0, <2>1, <2>2, <3>1
  <2>4. ASSUME NEW t \in LogSessions PROVE Numbered(t)'
    <3> DEFINE A == {r \in EventRows : r.session = t}
    <3>1. Of(t)' = Only(rows, A \intersect B)
      <4>1. Of(t)' = Only(Only(rows, B), A)
        BY <2>1 DEF Of
      <4> HIDE DEF A, B
      <4> QED
        BY <1>0, <4>1, OnlyOnly
    <3>2. CASE t # s
      <4>1. A \intersect B = A
        BY <3>2
      <4>2. Of(t)' = Of(t)
        BY <3>1, <4>1 DEF Of
      <4> HIDE DEF A, B
      <4>3. seen'[t] = seen[t]
        BY <1>0, <2>1, <3>2
      <4> QED
        BY <4>2, <4>3 DEF LogInv, Numbered
    <3>3. CASE t = s
      <4> HIDE DEF A, B
      <4>1. Of(t)' \in Seq(EventRows)
        BY <1>0, <3>1, OnlyIsShorter
      <4>2. seen'[t] = <<>>
        BY <1>0, <2>1, <3>3
      <4>3. Len(seen'[t]) = 0
        BY <4>2
      <4>4. \A i \in 1..Len(Of(t)') : Of(t)'[i].seq = i
        <5>1. A \intersect B = {}
          BY <3>3 DEF A, B
        <5>2. Of(t)' = Only(rows, {})
          BY <3>1, <5>1
        <5>3. Len(Only(rows, {})) = Len(rows) - Len(rows)
          <6> DEFINE none == {}
                     m == Len(rows)
          <6>1. m \in 0..Len(rows)
            BY <1>0
          <6>2. \A i \in 1..Len(rows) : rows[i] \in none <=> i > m
            BY <1>0
          <6> HIDE DEF none, m
          <6>3. FKeep!IsRest(Only(rows, none), EventRows, rows, m)
            BY <1>0, <6>1, <6>2, OnlySuffix
          <6> QED
            BY <6>3 DEF FKeep!IsRest, none, m
        <5>4. Len(Of(t)') = 0
          BY <1>0, <5>2, <5>3
        <5> QED
          BY <5>4
      <4>5. 0 <= Len(Of(t)')
        BY <4>1
      <4> QED
        BY <4>3, <4>4, <4>5 DEF Numbered
    <3> QED
      BY <3>2, <3>3
  <2>5. seen' \in [LogSessions -> Seq(1..MaxRows)]
    BY <1>0, <2>1
  <2> QED
    BY <1>0, <2>1, <2>2, <2>3, <2>4, <2>5 DEF LogInv
<1>4. ASSUME UNCHANGED <<rows, lastId, seen>>, fts' \subseteq fts, opened' \in BOOLEAN PROVE LogInv'
  <2>1. \A t : Of(t)' = Of(t)
    BY <1>4 DEF Of
  <2> QED
    BY <1>0, <1>4, <2>1 DEF LogInv, Numbered
<1>5. CASE EnsureDb
  <2>1. fts' \subseteq fts
    BY <1>5 DEF EnsureDb
  <2> QED
    BY <1>4, <1>5, <2>1 DEF EnsureDb
<1>6. CASE ProcessEnds
  BY <1>4, <1>6 DEF ProcessEnds
<1>7. CASE UNCHANGED logVars
  BY <1>0, <1>4, <1>7 DEF logVars
<1> QED
  BY <1>1, <1>2, <1>3, <1>5, <1>6, <1>7 DEF LogNext

\* What the invariant says of the log to a reader.
LEMMA LogIsTyped == LogInv => LogTypeOK /\ PagingMissesNothing
<1> SUFFICES ASSUME LogInv PROVE LogTypeOK /\ PagingMissesNothing
  OBVIOUS
<1>1. ASSUME NEW s \in LogSessions
      PROVE  DOMAIN seen[s] = 1..Len(seen[s]) /\ DOMAIN Of(s) = 1..Len(Of(s))
  <2>1. Of(s) \in Seq(EventRows) /\ seen[s] \in Seq(1..MaxRows)
    BY EventsOfSession DEF LogInv
  <2> QED
    BY <2>1
<1> QED
  BY <1>1 DEF LogInv, LogTypeOK, PagingMissesNothing, Numbered

\* The log keeps its types, and a client that pages through a session with the last number
\* it has gets every event once and in order (get_events, append_event), across restarts
\* and deletions.
THEOREM PagesAreComplete == LogSpec => [](LogTypeOK /\ PagingMissesNothing)
<1>1. LogInit => LogInv
  BY LogInitially
<1>2. LogInv /\ [LogNext]_logVars => LogInv'
  BY LogStep
<1>3. LogInv => LogTypeOK /\ PagingMissesNothing
  BY LogIsTyped
<1> QED
  BY <1>1, <1>2, <1>3, PTL DEF LogSpec
=============================================================================
