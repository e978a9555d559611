---------------------------- MODULE SelfCareProofs ----------------------------
(***************************************************************************)
(* The parts by which the program looks after itself, proved for every     *)
(* value of their constants: an inductive invariant for each of the nine   *)
(* parts, and the properties of their sum.                                 *)
(***************************************************************************)
EXTENDS MCSelfCare, EventStoreProofs

-------------------------------------------------------------------------------
\* The larger and the smaller of two numbers.
LEMMA LargerOfTwo == \A a, b \in Int : Max({a, b}) = IF a >= b THEN a ELSE b
<1> SUFFICES ASSUME NEW a \in Int, NEW b \in Int PROVE Max({a, b}) = IF a >= b THEN a ELSE b
  OBVIOUS
<1> DEFINE m == IF a >= b THEN a ELSE b
<1>1. m \in {a, b} /\ \A y \in {a, b} : m >= y
  OBVIOUS
<1>2. \A x \in {a, b} : (\A y \in {a, b} : x >= y) => x = m
  OBVIOUS
<1> HIDE DEF m
<1>3. Max({a, b}) = m
  BY <1>1, <1>2 DEF Max
<1> QED
  BY <1>3 DEF m

\* The smaller of two numbers.
LEMMA SmallerOfTwo == \A a, b \in Int : Min({a, b}) = IF a <= b THEN a ELSE b
<1> SUFFICES ASSUME NEW a \in Int, NEW b \in Int PROVE Min({a, b}) = IF a <= b THEN a ELSE b
  OBVIOUS
<1> DEFINE m == IF a <= b THEN a ELSE b
<1>1. m \in {a, b} /\ \A y \in {a, b} : m <= y
  OBVIOUS
<1>2. \A x \in {a, b} : (\A y \in {a, b} : x <= y) => x = m
  OBVIOUS
<1> HIDE DEF m
<1>3. Min({a, b}) = m
  BY <1>1, <1>2 DEF Min
<1> QED
  BY <1>3 DEF m

\* Two filters of a list are one when they agree on what is in it.
LEMMA OnlyOfRange ==
  ASSUME NEW E, NEW s \in Seq(E), NEW A, NEW B, \A i \in 1..Len(s) : s[i] \in A <=> s[i] \in B
  PROVE  Only(s, A) = Only(s, B)
<1>1. PICK f : FKeep!Prefixed(f, A, <<>>, s)
  BY FKeep!FoldByPrefixes
<1>2. PICK g : FKeep!Prefixed(g, B, <<>>, s)
  BY FKeep!FoldByPrefixes
<1> DEFINE T == {n \in Nat : n <= Len(s) => f[n] = g[n]}
<1>3. 0 \in T
  BY <1>1, <1>2 DEF FKeep!Prefixed
<1>4. ASSUME NEW n \in Nat, n \in T PROVE n + 1 \in T
  <2>1. SUFFICES ASSUME n + 1 <= Len(s) PROVE f[n + 1] = g[n + 1]
    OBVIOUS
  <2>2. f[n + 1] = Keep(A, f[n], s[n + 1])
    BY <1>1, <2>1 DEF FKeep!Prefixed
  <2>3. g[n + 1] = Keep(B, g[n], s[n + 1])
    BY <1>2, <2>1 DEF FKeep!Prefixed
  <2>4. f[n] = g[n] /\ (s[n + 1] \in A <=> s[n + 1] \in B)
    BY <1>4, <2>1
  <2> QED
    BY <2>2, <2>3, <2>4 DEF Keep
<1>5. Nat \subseteq T
  <2> HIDE DEF T
  <2> QED
    BY <1>3, <1>4, FKeep!SetInduction
<1>6. f[Len(s)] = FKeep!Fold(A, <<>>, s) /\ g[Len(s)] = FKeep!Fold(B, <<>>, s)
  BY <1>1, <1>2 DEF FKeep!Prefixed
<1>7. f[Len(s)] = g[Len(s)]
  BY <1>5
<1> QED
  BY <1>6, <1>7, OnlyIsFold

-------------------------------------------------------------------------------
\* Automatic recovery: a restart is counted before it is awaited.

HealthRecords == [status : {"unknown", "healthy", "failed", "recovering"}, restarts : 0..max_restarts]
CheckRecords == [pc : {"off", "next", "delay", "restart", "sleep"}, todo : Seq(Services), size : Nat,
                 at : SUBSET Objects, real : BOOLEAN]

Registered(o) == o[2] <= Current(o[1])
Recovered == UNION {checks[t].at : t \in CheckTasks}

\* Who has decided to restart an object and has not done so yet.
Deciding(o) == {t \in CheckTasks : checks[t].pc = "delay" /\ o \in checks[t].at}
CountedRestarts(o) == IF Registered(o) THEN health[o[1]][o[2]].restarts ELSE 0

\* What a check works on is registered; it holds an object only while it recovers it.
CheckStands(t) ==
    /\ Range(checks[t].todo) \subseteq Range(order)
    /\ \A o \in checks[t].at : Registered(o) /\ checks[t].at = {o}
    /\ checks[t].pc \notin {"delay", "restart"} => checks[t].at = {}

RecTyped ==
    /\ order \in Seq(Services) /\ IsInjective(order)
    /\ health \in [Services -> Seq(HealthRecords)]
    /\ strategy \subseteq Services /\ default \in BOOLEAN /\ running \in BOOLEAN
    /\ checks \in [CheckTasks -> CheckRecords]
    /\ restarted \in [Objects -> Nat] /\ cut \subseteq Objects

RecInv ==
    /\ RecTyped
    /\ \A s \in Services : Current(s) <= MaxObjects /\ (s \in Range(order) => Current(s) > 0)
    /\ \A t \in CheckTasks : CheckStands(t)
    /\ running \/ checks[Monitor].pc = "off"
    /\ \A o \in Objects : restarted[o] + Cardinality(Deciding(o)) <= CountedRestarts(o)
    /\ \A o \in Objects : Registered(o) /\ health[o[1]][o[2]].status = "recovering" => o \in cut \union Recovered

\* The first state has the invariant.
LEMMA RecInitially == RecInit => RecInv
<1> SUFFICES ASSUME RecInit PROVE RecInv
  OBVIOUS
<1>1. order = <<>> /\ Range(order) = {} /\ Range(Off.todo) = {} /\ IsInjective(order)
  BY DEF RecInit, Range, Off, IsInjective
<1>2. RecTyped
  <2>1. Off \in CheckRecords
    BY DEF Off, CheckRecords
  <2>2. checks \in [CheckTasks -> CheckRecords]
    BY <2>1 DEF RecInit
  <2>3. order \in Seq(Services) /\ health \in [Services -> Seq(HealthRecords)]
    BY DEF RecInit
  <2> QED
    BY <1>1, <2>2, <2>3 DEF RecInit, RecTyped
<1>3. ASSUME NEW o \in Objects PROVE Cardinality(Deciding(o)) = 0 /\ ~Registered(o)
  <2>1. Deciding(o) = {}
    BY DEF RecInit, Deciding, Off
  <2> QED
    BY <2>1, FS_EmptySet DEF RecInit, Registered, Current, Objects
<1>4. \A s \in Services : Current(s) = 0
  BY DEF RecInit, Current
<1> QED
  BY <1>1, <1>2, <1>3, <1>4, RecAssumption DEF RecInit, RecInv, CheckStands, Off, CheckTasks, CountedRestarts

\* The tasks that check are finitely many.
LEMMA DecidingIsFinite ==
  ASSUME NEW o
  PROVE  IsFiniteSet(Deciding(o)) /\ Cardinality(Deciding(o)) \in Nat
<1>1. IsFiniteSet(CheckTasks)
  BY RecAssumption, FS_AddElement DEF CheckTasks
<1>2. Deciding(o) \subseteq CheckTasks
  BY DEF Deciding
<1> QED
  BY <1>1, <1>2, FS_Subset, FS_CardinalityType

\* What was written into an object, and that no other changed.
Wrote(o, r) ==
    /\ health' \in [Services -> Seq(HealthRecords)]
    /\ \A s \in Services : Current(s)' = Current(s)
    /\ \A p \in Objects : Registered(p)' = Registered(p)
                          /\ (Registered(p) => health'[p[1]][p[2]] = IF p = o THEN r ELSE health[p[1]][p[2]])

\* One more element makes the count one more at most.
LEMMA OneMore ==
  ASSUME NEW S, IsFiniteSet(S), NEW x
  PROVE  Cardinality(S \union {x}) <= Cardinality(S) + 1 /\ IsFiniteSet(S \union {x})
         /\ Cardinality(S \union {x}) \in Nat /\ Cardinality(S) \in Nat
  BY FS_AddElement, FS_CardinalityType

\* One object changes.
LEMMA ObjectChanges ==
  ASSUME RecInv, NEW o \in Objects, Registered(o), NEW r \in HealthRecords,
         health' = [health EXCEPT ![o[1]][o[2]] = r]
  PROVE  Wrote(o, r)
<1> DEFINE s == o[1]  i == o[2]  one == health[s]  new == [one EXCEPT ![i] = r]
<1>1. s \in Services /\ i \in 1..Len(one) /\ one \in Seq(HealthRecords) /\ health \in [Services -> Seq(HealthRecords)]
      /\ o = <<s, i>>
  BY DEF RecInv, RecTyped, Objects, Registered, Current
<1>2. new \in Seq(HealthRecords) /\ Len(new) = Len(one) /\ \A j \in 1..Len(one) : new[j] = IF j = i THEN r ELSE one[j]
  <2> HIDE DEF one, i
  <2> QED
    BY <1>1
<1>3. health' = [health EXCEPT ![s] = new]
  OBVIOUS
<1> HIDE DEF new, one, s, i
<1>4. \A x \in Services : health'[x] = IF x = s THEN new ELSE health[x]
  BY <1>1, <1>3
<1>5. \A x \in Services : Current(x)' = Current(x)
  BY <1>1, <1>2, <1>4 DEF Current, one
<1>6. ASSUME NEW p \in Objects
      PROVE  Registered(p)' = Registered(p)
             /\ (Registered(p) => health'[p[1]][p[2]] = IF p = o THEN r ELSE health[p[1]][p[2]])
  <2>1. p[1] \in Services /\ p[2] \in 1..MaxObjects /\ p = <<p[1], p[2]>>
    BY DEF Objects
  <2>2. Registered(p)' = Registered(p)
    BY <1>5, <2>1 DEF Registered
  <2>3. Registered(p) /\ p[1] = s => p[2] \in 1..Len(one)
    BY <2>1 DEF Registered, Current, one
  <2> QED
    BY <1>1, <1>2, <1>4, <2>1, <2>2, <2>3 DEF one
<1> QED
  BY <1>1, <1>2, <1>3, <1>5, <1>6 DEF Wrote

\* A task that decides nothing leaves the count of who decides.
LEMMA NobodyDecides ==
  ASSUME RecInv, NEW t \in CheckTasks, NEW c \in CheckRecords, checks' = [checks EXCEPT ![t] = c],
         c.pc # "delay" \/ c.at = {}, NEW o
  PROVE  Cardinality(Deciding(o)') <= Cardinality(Deciding(o))
         /\ Cardinality(Deciding(o)') \in Nat /\ Cardinality(Deciding(o)) \in Nat
         /\ (t \in Deciding(o) => Cardinality(Deciding(o)') + 1 <= Cardinality(Deciding(o)))
<1>1. Deciding(o)' \subseteq Deciding(o) \ {t}
  BY DEF RecInv, RecTyped, Deciding
<1>2. IsFiniteSet(Deciding(o)) /\ Cardinality(Deciding(o)) \in Nat
  BY DecidingIsFinite
<1>3. IsFiniteSet(Deciding(o) \ {t}) /\ Cardinality(Deciding(o) \ {t}) \in Nat
  BY <1>2, FS_Subset, FS_CardinalityType
<1>4. Cardinality(Deciding(o)') <= Cardinality(Deciding(o) \ {t}) /\ Cardinality(Deciding(o)') \in Nat
  BY <1>1, <1>3, FS_Subset, FS_CardinalityType
<1>5. Cardinality(Deciding(o) \ {t}) = IF t \in Deciding(o) THEN Cardinality(Deciding(o)) - 1 ELSE Cardinality(Deciding(o))
  BY <1>2, FS_RemoveElement
<1> QED
  BY <1>2, <1>3, <1>4, <1>5

\* What is checked is what was registered.
LEMMA BegunStands ==
  ASSUME RecInv, NEW names, NEW c, c = Begun(names)
  PROVE  c \in CheckRecords /\ Range(c.todo) \subseteq Range(order) /\ c.at = {} /\ c.pc = "next"
<1>1. Only(order, names) \in Seq(Services) /\ Range(Only(order, names)) \subseteq Range(order)
      /\ Len(order) \in Nat
  BY OnlySelects DEF RecInv, RecTyped
<1> QED
  BY <1>1 DEF Begun, Off, CheckRecords

\* A check that begins or ends, and recovers nothing.
LEMMA CheckMoves ==
  ASSUME RecInv, NEW t \in CheckTasks, NEW c \in CheckRecords, checks' = [checks EXCEPT ![t] = c],
         checks[t].at = {}, c.at = {}, Range(c.todo) \subseteq Range(order), c.pc \notin {"delay", "restart"},
         UNCHANGED <<order, health, strategy, default, restarted, cut>>, running' \in {running, TRUE}, t = Monitor => running' \/ c.pc = "off"
  PROVE  RecInv'
<1>1. RecTyped' /\ \A u \in CheckTasks : checks'[u] = IF u = t THEN c ELSE checks[u]
  BY DEF RecInv, RecTyped
<1>2. \A o : Registered(o)' = Registered(o) /\ CountedRestarts(o)' = CountedRestarts(o)
  BY DEF Registered, Current, CountedRestarts
<1>3. \A u \in CheckTasks : CheckStands(u)'
  BY <1>1, <1>2 DEF RecInv, CheckStands
<1>4. Recovered' = Recovered
  BY <1>1 DEF Recovered
<1>5. running' \/ checks'[Monitor].pc = "off"
  BY <1>1 DEF RecInv, CheckTasks
<1>6. ASSUME NEW o \in Objects PROVE restarted'[o] + Cardinality(Deciding(o)') <= CountedRestarts(o)'
  <2>1. /\ Cardinality(Deciding(o)') <= Cardinality(Deciding(o))
        /\ Cardinality(Deciding(o)') \in Nat /\ Cardinality(Deciding(o)) \in Nat
    BY NobodyDecides
  <2>2. restarted[o] + Cardinality(Deciding(o)) <= CountedRestarts(o) /\ restarted[o] \in Nat
        /\ CountedRestarts(o) \in Int
    <3>1. Registered(o) => health[o[1]][o[2]] \in HealthRecords
      BY DEF RecInv, RecTyped, Registered, Current, Objects
    <3> QED
      BY <3>1, RecAssumption DEF RecInv, RecTyped, CountedRestarts, HealthRecords
  <2> QED
    BY <1>2, <2>1, <2>2
<1>7. \A s \in Services : Current(s)' <= MaxObjects /\ (s \in Range(order') => Current(s)' > 0)
  BY DEF RecInv, Current
<1>8. \A o \in Objects : Registered(o)' /\ health'[o[1]][o[2]].status = "recovering" => o \in (cut \union Recovered)'
  BY <1>2, <1>4 DEF RecInv
<1> QED
  BY <1>1, <1>3, <1>5, <1>6, <1>7, <1>8 DEF RecInv

\* A service is registered, for the first time or again.
LEMMA RegisterKeeps ==
  ASSUME RecInv, NEW s \in Services, NEW own \in BOOLEAN, RegisterService(s, own)
  PROVE  RecInv'
<1> DEFINE new == [status |-> "unknown", restarts |-> 0]
           k == Current(s)
<1>1. /\ order \in Seq(Services) /\ health \in [Services -> Seq(HealthRecords)] /\ k \in Nat
      /\ \A x \in Services : health[x] \in Seq(HealthRecords) /\ Current(x) \in Nat
      /\ MaxObjects \in Nat /\ max_restarts \in Nat /\ k < MaxObjects
  BY RecAssumption DEF RecInv, RecTyped, Current, RegisterService
<1>2. new \in HealthRecords
  BY <1>1 DEF HealthRecords
<1>3. order' \in Seq(Services) /\ IsInjective(order') /\ Range(order') = Range(order) \union {s}
  <2>1. CASE s \in Range(order)
    BY <1>1, <2>1 DEF RecInv, RecTyped, RegisterService
  <2>2. CASE s \notin Range(order)
    <3>1. order' = Append(order, s) /\ IsInjective(order)
      BY <2>2 DEF RecInv, RecTyped, RegisterService
    <3>2. Range(Append(order, s)) = Range(order) \union {s}
      BY <1>1, RangeFacts
    <3>3. IsInjective(Append(order, s))
      <4> DEFINE m == Len(order)  long == Append(order, s)
      <4>1. m \in Nat /\ DOMAIN order = 1..m /\ DOMAIN long = 1..(m + 1) /\ long[m + 1] = s
            /\ \A i \in 1..m : long[i] = order[i] /\ order[i] # s
        BY <1>1, <2>2 DEF Range
      <4> HIDE DEF m, long
      <4>2. \A i \in 1..(m + 1) : i \in 1..m \/ i = m + 1
        BY <4>1
      <4>3. \A a, b \in 1..(m + 1) : long[a] = long[b] => a = b
        BY <3>1, <4>1, <4>2 DEF IsInjective
      <4> QED
        BY <4>1, <4>3 DEF IsInjective, long
    <3> QED
      BY <1>1, <3>1, <3>2, <3>3
  <2> QED
    BY <2>1, <2>2
<1>4. /\ health' \in [Services -> Seq(HealthRecords)] /\ Current(s)' = k + 1 /\ health'[s][k + 1] = new
      /\ \A j \in 1..k : health'[s][j] = health[s][j]
      /\ \A x \in Services : x # s => health'[x] = health[x]
  <2> DEFINE one == health[s]  long == Append(one, new)
  <2>1. one \in Seq(HealthRecords) /\ k = Len(one)
    BY <1>1 DEF Current
  <2>2. long \in Seq(HealthRecords) /\ Len(long) = k + 1 /\ long[k + 1] = new /\ \A j \in 1..k : long[j] = one[j]
    <3> HIDE DEF one, new, k
    <3> QED
      BY <1>2, <2>1
  <2>3. health' = [health EXCEPT ![s] = long]
    BY DEF RegisterService
  <2> HIDE DEF long, one, new
  <2> QED
    BY <1>1, <2>1, <2>2, <2>3 DEF Current, one
<1> HIDE DEF new
<1>5. \A x \in Services : Current(x)' = IF x = s THEN k + 1 ELSE Current(x)
  BY <1>4 DEF Current
<1> HIDE DEF k
<1>6. UNCHANGED <<default, running, checks, restarted, cut>> /\ strategy' \subseteq Services /\ k = Current(s)
  BY DEF RegisterService, RecInv, RecTyped, k
<1>7. RecTyped'
  BY <1>3, <1>4, <1>6 DEF RecInv, RecTyped
<1>8. ASSUME NEW o \in Objects
      PROVE  /\ o[1] \in Services /\ o[2] \in 1..MaxObjects
             /\ Registered(o) => Registered(o)' /\ health'[o[1]][o[2]] = health[o[1]][o[2]]
             /\ ~Registered(o) /\ Registered(o)' => health'[o[1]][o[2]] = new
  <2>1. o[1] \in Services /\ o[2] \in 1..MaxObjects
    BY DEF Objects
  <2>2. Registered(o) <=> o[2] <= Current(o[1])
    BY DEF Registered
  <2>3. Registered(o)' <=> o[2] <= Current(o[1])'
    BY DEF Registered
  <2> DEFINE x == o[1]  j == o[2]
  <2>4. /\ x \in Services /\ j \in 1..MaxObjects /\ (Registered(o) <=> j <= Current(x))
        /\ (Registered(o)' <=> j <= Current(x)')
    BY <2>1, <2>2, <2>3
  <2> HIDE DEF x, j
  <2>5. CASE x = s
    <3>1. Registered(o) => j \in 1..k
      BY <1>1, <1>6, <2>4, <2>5
    <3>2. ~Registered(o) /\ Registered(o)' => j = k + 1
      BY <1>1, <1>4, <1>6, <2>4, <2>5
    <3>3. Registered(o) => Registered(o)'
      BY <1>1, <1>4, <1>6, <2>4, <2>5
    <3>4. Registered(o) => health'[x][j] = health[x][j]
      BY <1>4, <2>5, <3>1
    <3>5. ~Registered(o) /\ Registered(o)' => health'[x][j] = new
      BY <1>4, <2>5, <3>2
    <3> QED
      BY <2>1, <3>3, <3>4, <3>5 DEF x, j
  <2>6. CASE x # s
    <3>1. Current(x)' = Current(x) /\ health'[x] = health[x]
      BY <1>4, <1>5, <2>4, <2>6
    <3>2. Registered(o)' <=> Registered(o)
      BY <2>4, <3>1
    <3> QED
      BY <2>1, <3>1, <3>2 DEF x, j
  <2> QED
    BY <2>5, <2>6
<1>9. \A t \in CheckTasks : CheckStands(t)'
  <2>1. \A t \in CheckTasks : checks[t].at \subseteq Objects
    BY DEF RecInv, RecTyped, CheckRecords
  <2> QED
    BY <1>3, <1>6, <1>8, <2>1 DEF RecInv, CheckStands
<1>10. ASSUME NEW o \in Objects PROVE restarted'[o] + Cardinality(Deciding(o)') <= CountedRestarts(o)'
  <2>1. Deciding(o)' = Deciding(o) /\ restarted'[o] = restarted[o]
    BY <1>6 DEF Deciding
  <2>2. CountedRestarts(o)' = CountedRestarts(o)
    BY <1>8 DEF CountedRestarts, new
  <2> QED
    BY <2>1, <2>2 DEF RecInv
<1>11. \A x \in Services : Current(x)' <= MaxObjects /\ (x \in Range(order') => Current(x)' > 0)
  BY <1>1, <1>3, <1>5, <1>6 DEF RecInv
<1>12. ASSUME NEW o \in Objects, Registered(o)', health'[o[1]][o[2]].status = "recovering"
       PROVE  o \in (cut \union Recovered)'
  <2>1. Recovered' = Recovered
    BY <1>6 DEF Recovered
  <2> QED
    BY <1>6, <1>8, <1>12, <2>1 DEF RecInv, new
<1> QED
  BY <1>6, <1>7, <1>9, <1>10, <1>11, <1>12 DEF RecInv

\* A check recovers an object, or gives it up, or is told how its restart ended: what it
\* writes is no lower count, and "recovering" is only written by who recovers.
LEMMA RecoveryMoves ==
  ASSUME RecInv, NEW t \in CheckTasks, NEW c \in CheckRecords, checks' = [checks EXCEPT ![t] = c],
         NEW o \in Objects, Registered(o), NEW r \in HealthRecords,
         health' = [health EXCEPT ![o[1]][o[2]] = r],
         \/ r.restarts = health[o[1]][o[2]].restarts /\ (c.pc # "delay" \/ c.at = {})
         \/ r.restarts = health[o[1]][o[2]].restarts + 1 /\ c.at = {o},
         r.status = "recovering" => o \in c.at,
         checks[t].at \subseteq {o}, c.at \subseteq {o}, running \/ t # Monitor,
         Range(c.todo) \subseteq Range(order), c.pc \notin {"delay", "restart"} => c.at = {},
         UNCHANGED <<order, strategy, default, running, restarted, cut>>
  PROVE  RecInv'
<1>1. /\ health' \in [Services -> Seq(HealthRecords)]
      /\ \A s \in Services : Current(s)' = Current(s)
      /\ \A p \in Objects : Registered(p)' = Registered(p)
                            /\ (Registered(p) => health'[p[1]][p[2]] = IF p = o THEN r ELSE health[p[1]][p[2]])
  <2>1. Wrote(o, r)
    BY ObjectChanges
  <2> QED
    BY <2>1 DEF Wrote
<1>2. RecTyped' /\ \A u \in CheckTasks : checks'[u] = IF u = t THEN c ELSE checks[u]
  BY <1>1 DEF RecInv, RecTyped
<1>3. \A u \in CheckTasks : CheckStands(u)'
  <2>1. \A u \in CheckTasks : checks[u].at \subseteq Objects
    BY DEF RecInv, RecTyped, CheckRecords
  <2> QED
    BY <1>1, <1>2, <2>1 DEF RecInv, CheckStands
<1>4. running' \/ checks'[Monitor].pc = "off"
  BY <1>2 DEF RecInv, CheckTasks
<1>5. ASSUME NEW p \in Objects PROVE restarted'[p] + Cardinality(Deciding(p)') <= CountedRestarts(p)'
  <2>1. /\ restarted[p] + Cardinality(Deciding(p)) <= CountedRestarts(p) /\ restarted[p] \in Nat
        /\ CountedRestarts(p) \in Int /\ IsFiniteSet(Deciding(p)) /\ Cardinality(Deciding(p)) \in Nat
    <3>1. Registered(p) => health[p[1]][p[2]] \in HealthRecords
      BY DEF RecInv, RecTyped, Registered, Current, Objects
    <3>2. restarted[p] + Cardinality(Deciding(p)) <= CountedRestarts(p) /\ restarted[p] \in Nat
      BY DEF RecInv, RecTyped
    <3>3. CountedRestarts(p) \in Int
      BY <3>1, RecAssumption DEF CountedRestarts, HealthRecords
    <3> QED
      BY <3>2, <3>3, DecidingIsFinite
  <2>2. CountedRestarts(p)' = IF p = o THEN r.restarts ELSE CountedRestarts(p)
    BY <1>1 DEF CountedRestarts
  <2>3. p = o => CountedRestarts(p) = health[o[1]][o[2]].restarts
    BY DEF CountedRestarts
  <2>4. Cardinality(Deciding(p) \union {t}) <= Cardinality(Deciding(p)) + 1
        /\ IsFiniteSet(Deciding(p) \union {t}) /\ Cardinality(Deciding(p) \union {t}) \in Nat
    BY <2>1, OneMore
  <2>5. CASE c.pc # "delay" \/ c.at = {}
    <3>1. Cardinality(Deciding(p)') <= Cardinality(Deciding(p)) /\ Cardinality(Deciding(p)') \in Nat
      BY <2>5, NobodyDecides
    <3>2. CountedRestarts(p) <= CountedRestarts(p)' /\ CountedRestarts(p)' \in Int
      BY <2>1, <2>2, <2>3 DEF HealthRecords
    <3> QED
      BY <2>1, <3>1, <3>2
  <2>6. CASE r.restarts = health[o[1]][o[2]].restarts + 1 /\ c.at = {o}
    <3>1. CASE p = o
      <4>1. Deciding(p)' \subseteq Deciding(p) \union {t}
        BY <1>2 DEF Deciding
      <4>2. Cardinality(Deciding(p)') <= Cardinality(Deciding(p)) + 1 /\ Cardinality(Deciding(p)') \in Nat
        BY <2>1, <2>4, <4>1, FS_Subset, FS_CardinalityType
      <4> QED
        BY <2>1, <2>2, <2>3, <2>6, <3>1, <4>2
    <3>2. CASE p # o
      <4>1. Deciding(p)' \subseteq Deciding(p)
        BY <1>2, <2>6, <3>2 DEF Deciding
      <4>2. Cardinality(Deciding(p)') <= Cardinality(Deciding(p)) /\ Cardinality(Deciding(p)') \in Nat
        BY <2>1, <4>1, FS_Subset, FS_CardinalityType
      <4> QED
        BY <2>1, <2>2, <3>2, <4>2
    <3> QED
      BY <3>1, <3>2
  <2> QED
    BY <2>5, <2>6
<1>6. \A s \in Services : Current(s)' <= MaxObjects /\ (s \in Range(order') => Current(s)' > 0)
  BY <1>1 DEF RecInv
<1>7. ASSUME NEW p \in Objects, Registered(p)', health'[p[1]][p[2]].status = "recovering"
      PROVE  p \in (cut \union Recovered)'
  <2>1. CASE p = o
    <3>1. o \in checks'[t].at
      BY <1>1, <1>2, <1>7, <2>1
    <3> QED
      BY <2>1, <3>1 DEF Recovered
  <2>2. CASE p # o
    <3>1. p \in cut \union Recovered
      BY <1>1, <1>7, <2>2 DEF RecInv
    <3>2. p \in Recovered => p \in Recovered'
      BY <1>2, <2>2 DEF Recovered
    <3> QED
      BY <3>1, <3>2
  <2> QED
    BY <2>1, <2>2
<1> QED
  BY <1>2, <1>3, <1>4, <1>5, <1>6, <1>7 DEF RecInv

\* Every step of the recovery keeps the invariant.
LEMMA RecStep == RecInv /\ [RecNext]_recVars => RecInv'
<1> SUFFICES ASSUME RecInv, [RecNext]_recVars PROVE RecInv'
  OBVIOUS
<1>0. /\ order \in Seq(Services) /\ health \in [Services -> Seq(HealthRecords)]
      /\ checks \in [CheckTasks -> CheckRecords] /\ running \in BOOLEAN /\ restarted \in [Objects -> Nat]
      /\ Monitor \in CheckTasks /\ Callers \subseteq CheckTasks
      /\ max_restarts \in Nat /\ MaxObjects \in Nat
  BY RecAssumption DEF RecInv, RecTyped, CheckTasks
<1>00. ASSUME NEW t \in CheckTasks
       PROVE  /\ checks[t] \in CheckRecords /\ CheckStands(t) /\ checks[t].todo \in Seq(Services)
              /\ checks[t].size \in Nat /\ checks[t].at \subseteq Objects /\ checks[t].real \in BOOLEAN
              /\ \A o \in checks[t].at : Registered(o) /\ health[o[1]][o[2]] \in HealthRecords
  <2>1. checks[t] \in CheckRecords /\ CheckStands(t)
    BY <1>0 DEF RecInv
  <2>2. checks[t].at \subseteq Objects
    BY <2>1 DEF CheckRecords
  <2>3. \A o \in checks[t].at : Registered(o) /\ health[o[1]][o[2]] \in HealthRecords
    BY <1>0, <2>1, <2>2 DEF CheckStands, Registered, Current, Objects
  <2> QED
    BY <2>1, <2>2, <2>3 DEF CheckRecords
<1>1. ASSUME NEW s \in Services, NEW own \in BOOLEAN, RegisterService(s, own) PROVE RecInv'
  BY <1>1, RegisterKeeps
\* Steps that leave what is checked and what was restarted alone.
<1>000. ASSUME UNCHANGED <<order, health, strategy, running, checks, restarted, cut>>, default' \in BOOLEAN
        PROVE  RecInv'
  <2>1. RecTyped'
    BY <1>000 DEF RecInv, RecTyped
  <2>2. \A s \in Services : Current(s)' <= MaxObjects /\ (s \in Range(order)' => Current(s)' > 0)
    BY <1>000 DEF RecInv, Current, Range
  <2>3. ASSUME NEW t \in CheckTasks PROVE CheckStands(t)'
    <3>1. CheckStands(t)
      BY DEF RecInv
    <3> QED
      BY <1>000, <3>1 DEF CheckStands, Registered, Current, Range
  <2>4. running' \/ checks'[Monitor].pc = "off"
    BY <1>000 DEF RecInv
  <2>5. ASSUME NEW o \in Objects
        PROVE  /\ restarted'[o] + Cardinality(Deciding(o)') <= CountedRestarts(o)'
               /\ Registered(o)' /\ health'[o[1]][o[2]].status = "recovering" => o \in cut' \union Recovered'
    <3>1. /\ restarted[o] + Cardinality(Deciding(o)) <= CountedRestarts(o)
          /\ Registered(o) /\ health[o[1]][o[2]].status = "recovering" => o \in cut \union Recovered
      BY DEF RecInv
    <3>2. /\ Deciding(o)' = Deciding(o) /\ CountedRestarts(o)' = CountedRestarts(o)
          /\ Registered(o)' = Registered(o) /\ Recovered' = Recovered
      BY <1>000 DEF Deciding, CountedRestarts, Registered, Current, Recovered
    <3> QED
      BY <1>000, <3>1, <3>2
  <2> QED
    BY <2>1, <2>2, <2>3, <2>4, <2>5 DEF RecInv
<1>2. ASSUME SetDefaultRestartStrategy PROVE RecInv'
  BY <1>000, <1>2 DEF SetDefaultRestartStrategy
<1>3. ASSUME NEW t \in Callers, NEW names, CheckHealth(t, names) PROVE RecInv'
  <2>1. checks[t].at = {}
    BY <1>0, <1>3 DEF RecInv, CheckStands, CheckHealth
  <2> DEFINE c == Begun(names)
  <2>2. c \in CheckRecords /\ Range(c.todo) \subseteq Range(order) /\ c.at = {} /\ c.pc = "next"
    BY BegunStands
  <2>3. /\ checks' = [checks EXCEPT ![t] = c] /\ t \in CheckTasks /\ t # Monitor
        /\ UNCHANGED <<order, health, strategy, default, running, restarted, cut>>
    BY <1>0, <1>3, RecAssumption DEF CheckHealth
  <2> HIDE DEF c
  <2> QED
    BY <2>1, <2>2, <2>3, CheckMoves
<1>4. ASSUME NEW t \in CheckTasks, CheckNext(t) PROVE RecInv'
  <2> DEFINE s == Head(checks[t].todo)
             o == <<s, Current(s)>>
             old == health[s][Current(s)]
             to(found) == [old EXCEPT !.status = found]
             moved == [checks[t] EXCEPT !.todo = Tail(@)]
             decided == [checks[t] EXCEPT !.todo = Tail(@), !.pc = "delay", !.at = {o}]
  <2>1. checks[t].todo # <<>> /\ checks[t].pc = "next"
    BY <1>4 DEF CheckNext
  <2>2. s \in Services /\ s \in Range(order) /\ Tail(checks[t].todo) \in Seq(Services)
        /\ Range(Tail(checks[t].todo)) \subseteq Range(order)
    <3>1. Head(checks[t].todo) \in Range(checks[t].todo) /\ Tail(checks[t].todo) \in Seq(Services)
          /\ Range(Tail(checks[t].todo)) \subseteq Range(checks[t].todo) /\ Range(order) \subseteq Services
      BY <1>0, <1>00, <2>1, RangeFacts
    <3> QED
      BY <1>00, <3>1 DEF CheckStands
  <2>3. o \in Objects /\ Registered(o) /\ old \in HealthRecords /\ o[1] = s /\ o[2] = Current(s)
    <3>1. Current(s) \in 1..MaxObjects /\ Current(s) = Len(health[s])
      BY <1>0, <2>2 DEF RecInv, Current
    <3>2. old \in HealthRecords
      BY <1>0, <2>2, <3>1
    <3> QED
      BY <2>2, <3>1, <3>2 DEF Objects, Registered
  <2>4. checks[t].at = {}
    BY <1>00, <2>1 DEF CheckStands
  <2>5. moved \in CheckRecords /\ moved.at = {} /\ moved.pc = "next" /\ moved.todo = Tail(checks[t].todo)
    BY <1>00, <2>1, <2>2, <2>4 DEF CheckRecords
  <2>6. decided \in CheckRecords /\ decided.at = {o} /\ decided.pc = "delay" /\ decided.todo = Tail(checks[t].todo)
    BY <1>00, <2>2, <2>3 DEF CheckRecords
  <2>7. UNCHANGED <<order, strategy, default, running, restarted, cut>> /\ (running \/ t # Monitor)
    BY <1>4, <2>1 DEF CheckNext, RecInv
  <2>8. ASSUME NEW found \in {"healthy", "failed"}, SetStatus(o, found),
               checks' = [checks EXCEPT ![t].todo = Tail(@)]
        PROVE  RecInv'
    <3>1. checks' = [checks EXCEPT ![t] = moved]
      BY <2>8
    <3>2. to(found) \in HealthRecords /\ to(found).restarts = old.restarts /\ to(found).status = found
      BY <2>3 DEF HealthRecords
    <3>3. health' = [health EXCEPT ![o[1]][o[2]] = to(found)]
      BY <2>8 DEF SetStatus
    <3> HIDE DEF moved, to, o, old
    <3>4. old = health[o[1]][o[2]]
      BY DEF o, old
    <3> QED
      BY <2>2, <2>3, <2>4, <2>5, <2>7, <3>1, <3>2, <3>3, <3>4, RecoveryMoves
  <2>9. ASSUME old.restarts < max_restarts, CountRestart(o), 
               checks' = [[checks EXCEPT ![t].todo = Tail(@)] EXCEPT ![t].pc = "delay", ![t].at = {o}]
        PROVE  RecInv'
    <3> DEFINE r == [status |-> "recovering", restarts |-> old.restarts + 1]
    <3>1. checks' = [checks EXCEPT ![t] = decided]
      BY <1>0, <2>9
    <3> HIDE DEF o, old
    <3>2. r \in HealthRecords /\ r.restarts = old.restarts + 1 /\ r.status = "recovering"
      BY <1>0, <2>3, <2>9 DEF HealthRecords
    <3>3. health' = [health EXCEPT ![o[1]][o[2]] = r]
      BY <2>9 DEF CountRestart, old, o
    <3> HIDE DEF decided, r
    <3>5. old = health[o[1]][o[2]]
      BY DEF o, old
    <3> QED
      BY <2>2, <2>3, <2>4, <2>6, <2>7, <3>1, <3>2, <3>3, <3>5, RecoveryMoves
  <2> QED
    BY <1>4, <2>8, <2>9 DEF CheckNext
<1>5. ASSUME NEW t \in CheckTasks, CheckEnds(t) PROVE RecInv'
  <2> DEFINE c == [Off EXCEPT !.pc = IF t = Monitor THEN "sleep" ELSE "off"]
  <2>1. checks[t].at = {} /\ (t = Monitor => running)
    BY <1>00, <1>5 DEF CheckStands, CheckEnds, RecInv
  <2>2. c \in CheckRecords /\ c.at = {} /\ c.todo = <<>> /\ c.pc \in {"sleep", "off"}
        /\ (t = Monitor \/ c.pc = "off")
    <3>1. Off \in CheckRecords /\ Off.at = {} /\ Off.todo = <<>>
      BY DEF Off, CheckRecords
    <3> QED
      BY <3>1 DEF CheckRecords
  <2>3. Range(c.todo) \subseteq Range(order)
    BY <2>2 DEF Range
  <2>4. checks' = [checks EXCEPT ![t] = c] /\ UNCHANGED <<order, health, strategy, default, running, restarted, cut>>
    BY <1>5 DEF CheckEnds
  <2> HIDE DEF c
  <2> QED
    BY <1>0, <2>1, <2>2, <2>3, <2>4, CheckMoves
<1>6. ASSUME NEW t \in CheckTasks, DelayOver(t) PROVE RecInv'
  <2>1. PICK o \in checks[t].at :
            /\ restarted' = [restarted EXCEPT ![o] = @ + 1]
            /\ checks' = [checks EXCEPT ![t].pc = "restart", ![t].real = o[1] \in strategy \/ default]
    BY <1>6 DEF DelayOver
  <2> DEFINE c == [checks[t] EXCEPT !.pc = "restart", !.real = o[1] \in strategy \/ default]
  <2>2. checks' = [checks EXCEPT ![t] = c]
    BY <1>0, <2>1
  <2>3. c \in CheckRecords /\ c.pc = "restart" /\ c.at = checks[t].at /\ c.todo = checks[t].todo /\ o \in Objects
    <3>1. (o[1] \in strategy \/ default) \in BOOLEAN
      BY DEF RecInv, RecTyped
    <3> QED
      BY <1>00, <3>1 DEF CheckRecords
  <2>4. checks[t].pc = "delay" /\ UNCHANGED <<order, health, strategy, default, running, cut>>
    BY <1>6 DEF DelayOver
  <2> HIDE DEF c
  <2>5. RecTyped' /\ \A u \in CheckTasks : checks'[u] = IF u = t THEN c ELSE checks[u]
    <3>1. restarted' \in [Objects -> Nat]
      BY <1>0, <2>1, <2>3
    <3>2. checks' \in [CheckTasks -> CheckRecords] /\ \A u \in CheckTasks : checks'[u] = IF u = t THEN c ELSE checks[u]
      BY <1>0, <2>2, <2>3
    <3> QED
      BY <2>4, <3>1, <3>2 DEF RecInv, RecTyped
  <2>6. \A p : Registered(p)' = Registered(p) /\ CountedRestarts(p)' = CountedRestarts(p)
    BY <2>4 DEF Registered, Current, CountedRestarts
  <2>7. \A u \in CheckTasks : CheckStands(u)'
    BY <1>00, <2>3, <2>4, <2>5, <2>6 DEF CheckStands
  <2>8. running' \/ checks'[Monitor].pc = "off"
    BY <1>0, <2>4, <2>5 DEF RecInv
  <2>9. ASSUME NEW p \in Objects PROVE restarted'[p] + Cardinality(Deciding(p)') <= CountedRestarts(p)'
    <3>1. restarted[p] + Cardinality(Deciding(p)) <= CountedRestarts(p) /\ restarted[p] \in Nat
          /\ CountedRestarts(p) \in Int
      <4>1. Registered(p) => health[p[1]][p[2]] \in HealthRecords
        BY <1>0 DEF Registered, Current, Objects
      <4> QED
        BY <1>0, <4>1 DEF RecInv, CountedRestarts, HealthRecords
    <3>2. /\ Cardinality(Deciding(p)') <= Cardinality(Deciding(p))
          /\ Cardinality(Deciding(p)') \in Nat /\ Cardinality(Deciding(p)) \in Nat
          /\ (t \in Deciding(p) => Cardinality(Deciding(p)') + 1 <= Cardinality(Deciding(p)))
      BY <2>2, <2>3, NobodyDecides
    <3>3. p = o => t \in Deciding(p) /\ restarted'[p] = restarted[p] + 1
      BY <1>0, <2>1, <2>4 DEF Deciding
    <3>4. p # o => restarted'[p] = restarted[p]
      BY <1>0, <2>1
    <3> QED
      BY <2>6, <3>1, <3>2, <3>3, <3>4
  <2>10. Recovered' = Recovered
    BY <2>3, <2>5 DEF Recovered
  <2>11. \A p \in Objects : Registered(p)' /\ health'[p[1]][p[2]].status = "recovering" => p \in (cut \union Recovered)'
    BY <2>4, <2>6, <2>10 DEF RecInv
  <2>12. \A s \in Services : Current(s)' <= MaxObjects /\ (s \in Range(order') => Current(s)' > 0)
    BY <2>4 DEF RecInv, Current
  <2> QED
    BY <2>5, <2>7, <2>8, <2>9, <2>11, <2>12 DEF RecInv
<1>7. ASSUME NEW t \in CheckTasks, NEW ok \in BOOLEAN, RestartReturns(t, ok) PROVE RecInv'
  <2> DEFINE c == [checks[t] EXCEPT !.pc = "next", !.at = {}, !.real = FALSE]
  <2>1. PICK o \in checks[t].at : Outcome(o, ok)
    BY <1>7 DEF RestartReturns
  <2>2. checks' = [checks EXCEPT ![t] = c] /\ UNCHANGED <<order, strategy, default, running, restarted, cut>>
        /\ checks[t].pc = "restart"
    BY <1>0, <1>7 DEF RestartReturns
  <2>3. PICK found \in {"healthy", "failed"} : SetStatus(o, found)
    BY <2>1 DEF Outcome
  <2> DEFINE r == [health[o[1]][o[2]] EXCEPT !.status = found]
  <2>4. o \in Objects /\ Registered(o) /\ r \in HealthRecords /\ r.restarts = health[o[1]][o[2]].restarts
        /\ r.status = found /\ health' = [health EXCEPT ![o[1]][o[2]] = r]
    BY <1>00, <2>3 DEF SetStatus, HealthRecords
  <2>5. c \in CheckRecords /\ c.at = {} /\ c.pc = "next" /\ c.todo = checks[t].todo
    BY <1>00 DEF CheckRecords
  <2>6. (running \/ t # Monitor) /\ Range(c.todo) \subseteq Range(order)
    BY <1>00, <2>2, <2>5 DEF RecInv, CheckStands
  <2> HIDE DEF c, r
  <2>7. checks[t].at = {o}
    BY <1>00 DEF CheckStands
  <2> QED
    BY <2>2, <2>3, <2>4, <2>5, <2>6, <2>7, RecoveryMoves
<1>8. ASSUME StartMonitoring PROVE RecInv'
  <2>1. checks[Monitor].at = {} /\ running' = TRUE
    BY <1>0, <1>00, <1>8 DEF RecInv, CheckStands, StartMonitoring
  <2> DEFINE c == Begun(Services)
  <2>2. c \in CheckRecords /\ Range(c.todo) \subseteq Range(order) /\ c.at = {} /\ c.pc = "next"
    BY BegunStands
  <2>3. /\ checks' = [checks EXCEPT ![Monitor] = c] /\ running' \in {running, TRUE} /\ running'
        /\ UNCHANGED <<order, health, strategy, default, restarted, cut>>
    BY <1>8 DEF StartMonitoring
  <2> HIDE DEF c
  <2> QED
    BY <1>0, <2>1, <2>2, <2>3, CheckMoves
<1>9. ASSUME StopMonitoring PROVE RecInv'
  <2>1. /\ running' = FALSE /\ cut' = cut \union checks[Monitor].at /\ checks' = [checks EXCEPT ![Monitor] = Off]
        /\ UNCHANGED <<order, health, strategy, default, restarted>>
    BY <1>9 DEF StopMonitoring
  <2>2. Off \in CheckRecords /\ Off.at = {} /\ Off.todo = <<>> /\ Off.pc = "off" /\ Range(Off.todo) = {}
    BY DEF Off, CheckRecords, Range
  <2>3. checks[Monitor].at \subseteq Objects
    BY <1>0, <1>00
  <2>4. RecTyped' /\ \A u \in CheckTasks : checks'[u] = IF u = Monitor THEN Off ELSE checks[u]
    BY <1>0, <2>1, <2>2, <2>3 DEF RecInv, RecTyped
  <2>5. \A p : Registered(p)' = Registered(p) /\ CountedRestarts(p)' = CountedRestarts(p)
    BY <2>1 DEF Registered, Current, CountedRestarts
  <2>6. \A u \in CheckTasks : CheckStands(u)'
    BY <1>00, <2>1, <2>2, <2>4, <2>5 DEF CheckStands
  <2>7. ASSUME NEW p \in Objects PROVE restarted'[p] + Cardinality(Deciding(p)') <= CountedRestarts(p)'
    <3>1. restarted[p] + Cardinality(Deciding(p)) <= CountedRestarts(p) /\ restarted[p] \in Nat
          /\ CountedRestarts(p) \in Int
      <4>1. Registered(p) => health[p[1]][p[2]] \in HealthRecords
        BY <1>0 DEF Registered, Current, Objects
      <4> QED
        BY <1>0, <4>1 DEF RecInv, CountedRestarts, HealthRecords
    <3>2. /\ Cardinality(Deciding(p)') <= Cardinality(Deciding(p))
          /\ Cardinality(Deciding(p)') \in Nat /\ Cardinality(Deciding(p)) \in Nat
      BY <1>0, <2>1, <2>2, NobodyDecides
    <3> QED
      BY <2>1, <2>5, <3>1, <3>2
  <2>8. (cut \union Recovered)' = cut \union Recovered
    BY <1>0, <2>1, <2>2, <2>4 DEF Recovered
  <2>9. \A p \in Objects : Registered(p)' /\ health'[p[1]][p[2]].status = "recovering" => p \in (cut \union Recovered)'
    BY <2>1, <2>5, <2>8 DEF RecInv
  <2>10. \A s \in Services : Current(s)' <= MaxObjects /\ (s \in Range(order') => Current(s)' > 0)
    BY <2>1 DEF RecInv, Current
  <2> QED
    BY <1>0, <2>2, <2>4, <2>6, <2>7, <2>9, <2>10 DEF RecInv
<1>10. ASSUME MonitorWakes PROVE RecInv'
  <2>1. checks[Monitor].at = {} /\ running
    BY <1>0, <1>00, <1>10 DEF RecInv, CheckStands, MonitorWakes
  <2> DEFINE c == Begun(Services)
  <2>2. c \in CheckRecords /\ Range(c.todo) \subseteq Range(order) /\ c.at = {} /\ c.pc = "next"
    BY BegunStands
  <2>3. /\ checks' = [checks EXCEPT ![Monitor] = c] /\ running' \in {running, TRUE} /\ running'
        /\ UNCHANGED <<order, health, strategy, default, restarted, cut>>
    BY <1>10, <2>1 DEF MonitorWakes
  <2> HIDE DEF c
  <2> QED
    BY <1>0, <2>1, <2>2, <2>3, CheckMoves
<1>11. ASSUME UNCHANGED recVars PROVE RecInv'
  BY <1>000, <1>11 DEF recVars, RecInv, RecTyped
<1> QED
  BY <1>1, <1>2, <1>3, <1>4, <1>5, <1>6, <1>7, <1>8, <1>9, <1>10, <1>11 DEF RecNext

\* What the invariant says of the recovery to a reader.
LEMMA RecIsTyped == RecInv => RecTypeOK /\ RestartsBounded /\ RecoveringIsTrue
<1> SUFFICES ASSUME RecInv PROVE RecTypeOK /\ RestartsBounded /\ RecoveringIsTrue
  OBVIOUS
<1>1. RecTypeOK
  BY DEF RecInv, RecTyped, RecTypeOK, HealthRecords, CheckRecords
<1>2. ASSUME NEW o \in Objects PROVE restarted[o] <= max_restarts
  <2>1. restarted[o] + Cardinality(Deciding(o)) <= CountedRestarts(o) /\ restarted[o] \in Nat
        /\ Cardinality(Deciding(o)) \in Nat
    BY DecidingIsFinite DEF RecInv, RecTyped
  <2>2. CountedRestarts(o) \in 0..max_restarts
    <3>1. Registered(o) => health[o[1]][o[2]] \in HealthRecords
      BY DEF RecInv, RecTyped, Registered, Current, Objects
    <3> QED
      BY <3>1, RecAssumption DEF CountedRestarts, HealthRecords
  <2> QED
    BY <2>1, <2>2, RecAssumption
<1>3. RecoveringIsTrue
  <2>1. ASSUME NEW s \in Services, NEW i \in 1..MaxObjects, i <= Current(s), health[s][i].status = "recovering"
        PROVE  <<s, i>> \in cut \union UNION {checks[t].at : t \in CheckTasks}
    <3>1. <<s, i>> \in Objects /\ Registered(<<s, i>>)
      BY <2>1 DEF Objects, Registered
    <3> QED
      BY <2>1, <3>1 DEF RecInv, Recovered
  <2> QED
    BY <2>1 DEF RecoveringIsTrue
<1> QED
  BY <1>1, <1>2, <1>3 DEF RestartsBounded

-------------------------------------------------------------------------------
\* Self repair: what the tracker counted is in the history or being reported.

\* What a value is lowered to.
LEMMA DownIs ==
  ASSUME NEW x \in Nat, NEW by \in Nat, NEW floor \in Nat
  PROVE  /\ Down(x, by, floor) \in Nat /\ Down(x, by, floor) >= floor
         /\ Down(x, by, floor) = floor \/ Down(x, by, floor) <= x - by
<1> DEFINE low == IF x > by THEN x - by ELSE 0
<1>1. low \in Nat /\ (low = 0 \/ low = x - by) /\ Down(x, by, floor) = Max({floor, low})
  BY DEF Down
<1> HIDE DEF low
<1>2. Max({floor, low}) = IF floor >= low THEN floor ELSE low
  BY <1>1, LargerOfTwo
<1> QED
  BY <1>1, <1>2

\* A strategy that says it worked has cooled.
LEMMA StrategyIsHonest ==
  ASSUME NEW c \in Thermal, NEW sev, NEW ctx, RunStrategy(c, sev, ctx).end = "ok"
  PROVE  Safe(RunStrategy(c, sev, ctx).ctx)
<1>1. HasStrategy(c, sev)
  BY DEF RunStrategy, Attempt
<1>2. RunStrategy(c, sev, ctx) = CoolDown(ctx)
  BY <1>1 DEF RunStrategy, Thermal
<1>3. \A x : Calm(x) = "ok" => Safe(x)
  BY DEF Calm
<1> QED
  BY <1>1, <1>2, <1>3 DEF CoolDown, Attempt

\* What the workflow has cooled stays safe under the strategy that runs after it.
LEMMA CooledStaysSafe ==
  ASSUME NEW t \in Nat, t < 70, NEW ctx \in [temp : {t}, vram : Vrams, crowded : BOOLEAN],
         CoolDown(ctx).end # "raises"
  PROVE  Safe(CoolDown(ctx).ctx)
<1> DEFINE v == ctx.vram
           one == [ctx EXCEPT !.temp = IF Got(ctx.temp) >= 70 THEN Down(@, 20, 45) ELSE @,
                              !.vram = IF Got(ctx.vram) >= 85 THEN Down(@, 20, 50) ELSE @]
           two == [one EXCEPT !.temp = Down(@, 15, 45), !.vram = Down(@, 15, 40)]
           switch == Got(ctx.temp) >= 80 \/ Got(ctx.vram) >= 95
<1>1. ctx.temp = t /\ t # MissingKey /\ Got(t) = t /\ v \in Vrams
  BY RepairAssumption DEF Got
<1>2. one.temp = t /\ one.vram = IF Got(v) >= 85 THEN Down(v, 20, 50) ELSE v
  BY <1>1
<1>3. CoolDown(ctx) = IF MissingKey \in {one.temp, one.vram} THEN Attempt("raises", one)
                      ELSE IF switch THEN Attempt(Calm(two), two) ELSE Attempt(Calm(one), one)
  BY DEF CoolDown
<1>4. one.vram # MissingKey
  BY <1>3 DEF Attempt
<1>5. v # MissingKey /\ v \in 0..100 /\ Got(v) = v
  BY <1>1, <1>2, <1>4, RepairAssumption DEF Got
<1>6. Down(v, 20, 50) \in Nat /\ Down(v, 20, 50) < 85
  <2>1. \A x \in 0..100 : Down(x, 20, 50) \in Nat /\ Down(x, 20, 50) < 85
    <3> TAKE x \in 0..100
    <3>1. x \in Nat /\ 20 \in Nat /\ 50 \in Nat
      OBVIOUS
    <3>2. Down(x, 20, 50) \in Nat /\ (Down(x, 20, 50) = 50 \/ Down(x, 20, 50) <= x - 20)
      BY <3>1, DownIs
    <3> QED
      BY <3>2
  <2> QED
    BY <1>5, <2>1
<1>7. one.vram \in Nat /\ one.vram < 85 /\ Got(one.vram) = one.vram
  BY <1>2, <1>4, <1>5, <1>6 DEF Got
<1>8. Safe(one)
  BY <1>1, <1>2, <1>7 DEF Safe
<1>9. two.temp = Down(t, 15, 45) /\ two.vram = Down(one.vram, 15, 40)
  BY <1>2
<1> HIDE DEF one, two, switch
<1>10. two.temp \in Nat /\ two.temp < 70 /\ two.vram \in Nat /\ two.vram < 85
  <2>1. t \in Nat /\ one.vram \in Nat /\ 15 \in Nat /\ 45 \in Nat /\ 40 \in Nat
    BY <1>7
  <2>2. Down(t, 15, 45) \in Nat /\ (Down(t, 15, 45) = 45 \/ Down(t, 15, 45) <= t - 15)
    BY <2>1, DownIs
  <2>3. Down(one.vram, 15, 40) \in Nat /\ (Down(one.vram, 15, 40) = 40 \/ Down(one.vram, 15, 40) <= one.vram - 15)
    BY <2>1, DownIs
  <2> QED
    BY <1>7, <1>9, <2>2, <2>3
<1>11. Safe(two)
  BY <1>10, RepairAssumption DEF Safe, Got
<1>12. CoolDown(ctx) = Attempt(Calm(one), one) \/ CoolDown(ctx) = Attempt(Calm(two), two)
  BY <1>1, <1>3, <1>4, <1>2
<1> QED
  BY <1>8, <1>11, <1>12 DEF Attempt

\* A workflow that says it worked has cooled.
LEMMA WorkflowCools ==
  ASSUME NEW c \in Thermal, NEW sev \in Severities, NEW ctx \in RepairContexts, RunWorkflow(c, sev, ctx).end = "ok"
  PROVE  /\ c = "resource_exhaustion" /\ sev >= 2
         /\ \E t \in Nat : /\ t < 70
                           /\ RunWorkflow(c, sev, ctx).ctx \in [temp : {t}, vram : Vrams, crowded : BOOLEAN]
<1> DEFINE cooled == IF Got(ctx.temp) >= 80 THEN Down(Down(Down(ctx.temp, 25, 45), 10, 45), 15, 45)
                     ELSE Down(Got(ctx.temp), 25, 45)
<1>1. HasWorkflow(c, sev)
  BY DEF RunWorkflow, Attempt
<1>2. c = "resource_exhaustion" /\ sev >= 2
  BY <1>1 DEF HasWorkflow, Thermal
<1>3. RunWorkflow(c, sev, ctx) = Attempt(IF cooled < 70 THEN "ok" ELSE "no", [ctx EXCEPT !.temp = cooled])
  BY <1>1 DEF RunWorkflow
<1>4. cooled \in Nat
  <2>1. Got(ctx.temp) \in Nat /\ (Got(ctx.temp) >= 80 => ctx.temp \in Nat)
    BY RepairAssumption DEF RepairContexts, Got
  <2> QED
    BY <2>1, DownIs
<1> HIDE DEF cooled
<1>5. cooled < 70
  BY <1>3 DEF Attempt
<1>6. [ctx EXCEPT !.temp = cooled] \in [temp : {cooled}, vram : Vrams, crowded : BOOLEAN]
  BY DEF RepairContexts
<1> QED
  BY <1>2, <1>3, <1>4, <1>5, <1>6 DEF Attempt

\* A thermal repair that completes leaves a context that is safe, whichever attempt was
\* the one that counts.
LEMMA CompletedRepairsCool ==
  ASSUME NEW e \in RepairEndings, e.category \in Thermal, e.result.end = "ok"
  PROVE  Safe(e.result.ctx)
<1>1. PICK c \in Categories, sev \in Severities, ctx \in RepairContexts, workflows \in BOOLEAN :
          e = [category |-> c, result |-> Lifecycle(c, sev, ctx, workflows)]
  BY DEF RepairEndings
<1> DEFINE w == IF workflows THEN RunWorkflow(c, sev, ctx) ELSE Attempt("no", ctx)
           s == RunStrategy(c, sev, w.ctx)
           first == IF workflows THEN w.end ELSE s.end
<1>2. c \in Thermal /\ e.result = Lifecycle(c, sev, ctx, workflows)
      /\ Lifecycle(c, sev, ctx, workflows) = IF s.end = "raises" THEN s
             ELSE IF first = "ok" THEN Attempt("ok", s.ctx) ELSE RunStrategy(c, sev, s.ctx)
  BY <1>1 DEF Lifecycle
<1>3. s.end # "raises"
  BY <1>2
<1>4. CASE first = "ok"
  <2>1. e.result.ctx = s.ctx
    BY <1>2, <1>3, <1>4 DEF Attempt
  <2>2. CASE workflows
    <3>1. c = "resource_exhaustion" /\ sev >= 2
          /\ \E t \in Nat : t < 70 /\ w.ctx \in [temp : {t}, vram : Vrams, crowded : BOOLEAN]
      BY <1>2, <1>4, <2>2, WorkflowCools
    <3>2. s = CoolDown(w.ctx)
      BY <1>2, <3>1 DEF RunStrategy, HasStrategy, Severities
    <3> QED
      BY <1>3, <2>1, <3>1, <3>2, CooledStaysSafe
  <2>3. CASE ~workflows
    BY <1>2, <1>4, <2>1, <2>3, StrategyIsHonest
  <2> QED
    BY <2>2, <2>3
<1>5. CASE first # "ok"
  BY <1>2, <1>3, <1>5, StrategyIsHonest
<1> QED
  BY <1>4, <1>5

RepairRecords == [category : Categories, status : Outcomes]
LoopsStand == \A o \in Owners : loops[o].running => loops[o].alive > 0
Reporting(c, o) ==
    {t \in RepairTasks : repair[t].pc = "reporting" /\ repair[t].category = c /\ repair[t].status = o}
Recorded(c, o) == Only(history, {[category |-> c, status |-> o]})

RepairInv == RepairTypeOK /\ LedgersAgree /\ CompletedIsCool /\ LoopsStand

\* The ledgers in the terms of the proof.
LEMMA LedgersRead ==
  LedgersAgree <=> \A c \in Categories, o \in Outcomes :
                       counts[c][o] = Len(Recorded(c, o)) + Cardinality(Reporting(c, o))
  BY DEF LedgersAgree, Recorded, Reporting

\* The first state has the invariant.
LEMMA RepairInitially == RepairInit => RepairInv
<1> SUFFICES ASSUME RepairInit PROVE RepairInv
  OBVIOUS
<1>1. None \in [pc : {"none", "degrading", "finalizing", "reporting"}, category : Categories, status : Outcomes]
  BY DEF None, Categories, Outcomes
<1>2. repair \in [RepairTasks -> [pc : {"none", "degrading", "finalizing", "reporting"},
                                  category : Categories, status : Outcomes]]
  BY <1>1 DEF RepairInit
<1>3. history = <<>> /\ repair_snapshots = <<>> /\ Len(repair_snapshots) = 0
  BY DEF RepairInit
<1>4. loops \in [Owners -> [running : BOOLEAN, alive : 0..MaxLoops]]
  BY RepairAssumption DEF RepairInit
<1>5. counts \in [Categories -> [Outcomes -> Nat]]
  BY DEF RepairInit
<1>6. RepairTypeOK
  BY <1>2, <1>3, <1>4, <1>5, RepairAssumption DEF RepairInit, RepairTypeOK
<1>7. ASSUME NEW c \in Categories, NEW o \in Outcomes
      PROVE  counts[c][o] = Len(Recorded(c, o)) + Cardinality(Reporting(c, o))
  <2>1. Reporting(c, o) = {}
    BY DEF RepairInit, Reporting, None
  <2>2. <<>> \in Seq(RepairRecords)
    OBVIOUS
  <2>3. Recorded(c, o) \in Seq(RepairRecords) /\ Len(Recorded(c, o)) <= Len(<<>>)
    BY <1>3, <2>2, OnlyIsShorter DEF Recorded
  <2>4. Len(Recorded(c, o)) = 0
    BY <2>3
  <2> QED
    BY <2>1, <2>4, FS_EmptySet DEF RepairInit
<1> QED
  BY <1>6, <1>7, LedgersRead DEF RepairInit, RepairInv, CompletedIsCool, LoopsStand

\* Nothing that the ledgers are about has moved.
LEMMA LedgersStay ==
  ASSUME RepairInv, UNCHANGED <<history, counts>>,
         \A c \in Categories, o \in Outcomes : Reporting(c, o)' = Reporting(c, o)
  PROVE  LedgersAgree'
<1>1. \A c, o : Recorded(c, o)' = Recorded(c, o)
  BY DEF Recorded
<1> QED
  BY <1>1, LedgersRead DEF RepairInv, LedgersAgree, Reporting, Recorded

\* What a repair appends to the history.
LEMMA HistoryGrows ==
  ASSUME history \in Seq(RepairRecords), NEW r \in RepairRecords, history' = Append(history, r),
         NEW c \in Categories, NEW o \in Outcomes
  PROVE  /\ history' \in Seq(RepairRecords) /\ Len(Recorded(c, o)) \in Nat
         /\ Len(Recorded(c, o)') = Len(Recorded(c, o)) + IF r.category = c /\ r.status = o THEN 1 ELSE 0
<1> DEFINE A == {[category |-> c, status |-> o]}
<1>1. Recorded(c, o) = Only(history, A) /\ Recorded(c, o)' = Only(Append(history, r), A)
  BY DEF Recorded
<1>2. Only(history, A) \in Seq(RepairRecords)
  BY OnlyIsShorter
<1>3. Only(Append(history, r), A) = IF r \in A THEN Append(Only(history, A), r) ELSE Only(history, A)
  BY OnlyAppend
<1>4. r \in A <=> r.category = c /\ r.status = o
  BY DEF RepairRecords
<1> HIDE DEF A
<1> QED
  BY <1>1, <1>2, <1>3, <1>4

\* A snapshot more, and no more than are kept.
LEMMA SnapshotsFit ==
  ASSUME RepairInv, NEW level \in {"healthy", "warning", "critical"}, Record(level)
  PROVE  repair_snapshots' \in Seq({"healthy", "warning", "critical"}) /\ Len(repair_snapshots') <= MaxSnapshots
<1> DEFINE E == {"healthy", "warning", "critical"}
           s == Append(repair_snapshots, level)
           n == Len(repair_snapshots)
           k == Max({1, n + 2 - MaxSnapshots})
<1>1. repair_snapshots \in Seq(E) /\ n \in Nat /\ n <= MaxSnapshots /\ MaxSnapshots \in Nat \ {0}
  BY RepairAssumption DEF RepairInv, RepairTypeOK
<1>2. s \in Seq(E) /\ Len(s) = n + 1
  <2> HIDE DEF E
  <2>1. level \in E
    BY DEF E
  <2> QED
    BY <1>1, <2>1
<1>3. k \in 1..(n + 1) /\ n + 1 - k + 1 <= MaxSnapshots
  BY <1>1, LargerOfTwo
<1>4. repair_snapshots' = SubSeq(s, k, n + 1)
  BY DEF Record
<1> HIDE DEF E, s, n, k
<1>5. SubSeq(s, k, n + 1) \in Seq(E) /\ Len(SubSeq(s, k, n + 1)) = n + 1 - k + 1
  <2>1. \A i \in k..(n + 1) : i \in 1..Len(s)
    BY <1>1, <1>2, <1>3
  <2> QED
    BY <1>1, <1>2, <1>3, <2>1, SubSeqProperties
<1> QED
  BY <1>3, <1>4, <1>5 DEF E

\* The types of a task's record when it changes.
RepairStates == [pc : {"none", "degrading", "finalizing", "reporting"}, category : Categories, status : Outcomes]

\* Every step of the repairs keeps the invariant.
LEMMA RepairStep == RepairInv /\ [RepairNext]_repairVars => RepairInv'
<1> SUFFICES ASSUME RepairInv, [RepairNext]_repairVars PROVE RepairInv'
  OBVIOUS
<1>0. /\ repair \in [RepairTasks -> RepairStates] /\ history \in Seq(RepairRecords)
      /\ counts \in [Categories -> [Outcomes -> Nat]]
      /\ loops \in [Owners -> [running : BOOLEAN, alive : 0..MaxLoops]] /\ MaxLoops \in Nat
      /\ calmed \subseteq {TRUE} /\ unverified \subseteq Categories
  BY RepairAssumption DEF RepairInv, RepairTypeOK, RepairStates, RepairRecords, CompletedIsCool
<1>01. \A c \in Categories, o \in Outcomes : counts[c][o] = Len(Recorded(c, o)) + Cardinality(Reporting(c, o))
  BY LedgersRead DEF RepairInv
<1>02. None \in RepairStates /\ None.pc = "none"
  BY DEF None, RepairStates, Categories, Outcomes
<1>03. ASSUME NEW c, NEW o
       PROVE  IsFiniteSet(Reporting(c, o)) /\ Cardinality(Reporting(c, o)) \in Nat
  <2>1. Reporting(c, o) \subseteq RepairTasks /\ IsFiniteSet(RepairTasks)
    BY RepairAssumption DEF Reporting
  <2> QED
    BY <2>1, FS_Subset, FS_CardinalityType
<1>1. ASSUME NEW t \in RepairTasks, NEW e \in RepairEndings, RepairThreat(t, e) PROVE RepairInv'
  <2> DEFINE new == [pc |-> IF e.result.end = "ok" THEN "finalizing" ELSE "degrading", category |-> e.category,
                     status |-> IF e.result.end = "ok" THEN "completed" ELSE "degraded"]
  <2>1. /\ repair' = [repair EXCEPT ![t] = new] /\ repair[t].pc = "none"
        /\ calmed' = IF e.result.end = "ok" /\ e.category \in Thermal THEN calmed \union {Safe(e.result.ctx)} ELSE calmed
        /\ unverified' = IF e.result.end = "ok" /\ ~Verify(e.category, e.result.ctx)
                         THEN unverified \union {e.category} ELSE unverified
        /\ UNCHANGED <<history, counts, loops, repair_snapshots>>
    BY <1>1 DEF RepairThreat
  <2>2. e.category \in Categories
    BY DEF RepairEndings
  <2>3. new \in RepairStates /\ new.pc # "reporting"
    BY <2>2 DEF RepairStates, Outcomes
  <2>4. calmed' \subseteq {TRUE}
    <3>1. e.result.end = "ok" /\ e.category \in Thermal => Safe(e.result.ctx) = TRUE
      BY CompletedRepairsCool DEF Safe
    <3> QED
      BY <1>0, <2>1, <3>1
  <2> HIDE DEF new
  <2>5. repair' \in [RepairTasks -> RepairStates] /\ \A u \in RepairTasks : repair'[u] = IF u = t THEN new ELSE repair[u]
    BY <1>0, <2>1, <2>3
  <2>6. \A c \in Categories, o \in Outcomes : Reporting(c, o)' = Reporting(c, o)
    BY <2>1, <2>3, <2>5 DEF Reporting
  <2>7. LedgersAgree'
    BY <2>1, <2>6, LedgersStay
  <2>8. unverified' \subseteq Categories
    BY <1>0, <2>1, <2>2
  <2>9. RepairTypeOK'
    BY <2>1, <2>4, <2>5, <2>8 DEF RepairInv, RepairTypeOK, RepairStates
  <2> QED
    BY <2>1, <2>4, <2>7, <2>9 DEF RepairInv, CompletedIsCool, LoopsStand
<1>2. ASSUME NEW t \in RepairTasks, DegradationTold(t) PROVE RepairInv'
  <2>1. repair' = [repair EXCEPT ![t] = [@ EXCEPT !.pc = "finalizing"]] /\ repair[t].pc = "degrading"
        /\ UNCHANGED <<history, counts, loops, repair_snapshots, calmed, unverified>>
    BY <1>2 DEF DegradationTold
  <2>2. [repair[t] EXCEPT !.pc = "finalizing"] \in RepairStates /\ [repair[t] EXCEPT !.pc = "finalizing"].pc = "finalizing"
    BY <1>0 DEF RepairStates
  <2>3. repair' \in [RepairTasks -> RepairStates]
        /\ \A u \in RepairTasks : repair'[u] = IF u = t THEN [repair[t] EXCEPT !.pc = "finalizing"] ELSE repair[u]
    BY <1>0, <2>1, <2>2
  <2>4. \A c \in Categories, o \in Outcomes : Reporting(c, o)' = Reporting(c, o)
    BY <2>1, <2>2, <2>3 DEF Reporting
  <2>5. LedgersAgree'
    BY <2>1, <2>4, LedgersStay
  <2>6. RepairTypeOK'
    BY <2>1, <2>3 DEF RepairInv, RepairTypeOK, RepairStates
  <2> QED
    BY <2>1, <2>5, <2>6 DEF RepairInv, CompletedIsCool, LoopsStand
<1>3. ASSUME NEW t \in RepairTasks, Finalize(t) PROVE RepairInv'
  <2> DEFINE r == repair[t]
             entry == [category |-> r.category, status |-> r.status]
  <2>1. r \in RepairStates /\ r.category \in Categories /\ r.status \in Outcomes /\ entry \in RepairRecords
    BY <1>0 DEF RepairStates, RepairRecords
  <2>2. /\ r.pc = "finalizing" /\ counts' = [counts EXCEPT ![r.category][r.status] = @ + 1]
        /\ UNCHANGED <<loops, repair_snapshots, calmed, unverified>>
    BY <1>3 DEF Finalize, Counted
  <2>3. counts' \in [Categories -> [Outcomes -> Nat]]
        /\ \A c \in Categories, o \in Outcomes :
               counts'[c][o] = counts[c][o] + IF c = r.category /\ o = r.status THEN 1 ELSE 0
    <3> HIDE DEF r
    <3> QED
      BY <1>0, <2>1, <2>2
  <2>4. CASE r.status = "degraded"
    <3>1. history' = Append(history, entry) /\ repair' = [repair EXCEPT ![t] = None]
      BY <1>3, <2>4 DEF Finalize
    <3>2. repair' \in [RepairTasks -> RepairStates] /\ \A u \in RepairTasks : repair'[u] = IF u = t THEN None ELSE repair[u]
      BY <1>0, <1>02, <3>1
    <3>3. ASSUME NEW c \in Categories, NEW o \in Outcomes
          PROVE  counts'[c][o] = Len(Recorded(c, o)') + Cardinality(Reporting(c, o)')
      <4>1. Reporting(c, o)' = Reporting(c, o)
        BY <1>02, <2>2, <3>2 DEF Reporting
      <4>2. /\ Len(Recorded(c, o)) \in Nat
            /\ Len(Recorded(c, o)') = Len(Recorded(c, o)) + IF entry.category = c /\ entry.status = o THEN 1 ELSE 0
        <5> HIDE DEF entry
        <5> QED
          BY <1>0, <2>1, <3>1, HistoryGrows
      <4>3. entry.category = r.category /\ entry.status = r.status
        OBVIOUS
      <4> HIDE DEF entry, r
      <4> QED
        BY <1>01, <1>03, <2>3, <4>1, <4>2, <4>3
    <3>4. LedgersAgree'
      BY <3>3 DEF LedgersAgree, Recorded, Reporting
    <3>5. history' \in Seq(RepairRecords)
      <4> HIDE DEF entry
      <4> QED
        BY <1>0, <2>1, <3>1
    <3>6. RepairTypeOK'
      BY <2>2, <2>3, <3>2, <3>5 DEF RepairInv, RepairTypeOK, RepairStates, RepairRecords
    <3> QED
      BY <2>2, <3>4, <3>6 DEF RepairInv, CompletedIsCool, LoopsStand
  <2>5. CASE r.status # "degraded"
    <3> DEFINE new == [r EXCEPT !.pc = "reporting"]
    <3>1. history' = history /\ repair' = [repair EXCEPT ![t] = new]
      BY <1>3, <2>5 DEF Finalize
    <3>2. new \in RepairStates /\ new.pc = "reporting" /\ new.category = r.category /\ new.status = r.status
      BY <2>1 DEF RepairStates
    <3> HIDE DEF new
    <3>3. repair' \in [RepairTasks -> RepairStates] /\ \A u \in RepairTasks : repair'[u] = IF u = t THEN new ELSE repair[u]
      BY <1>0, <3>1, <3>2
    <3>4. ASSUME NEW c \in Categories, NEW o \in Outcomes
          PROVE  counts'[c][o] = Len(Recorded(c, o)') + Cardinality(Reporting(c, o)')
      <4>1. Reporting(c, o)' = IF c = r.category /\ o = r.status THEN Reporting(c, o) \union {t} ELSE Reporting(c, o)
        BY <2>2, <3>2, <3>3 DEF Reporting
      <4>2. t \notin Reporting(c, o)
        BY <2>2 DEF Reporting
      <4>3. Cardinality(Reporting(c, o) \union {t}) = Cardinality(Reporting(c, o)) + 1
        BY <1>03, <4>2, FS_AddElement
      <4>4. Recorded(c, o)' = Recorded(c, o)
        BY <3>1 DEF Recorded
      <4>5. Len(Recorded(c, o)) \in Nat
        <5>1. Recorded(c, o) \in Seq(RepairRecords)
          BY <1>0, OnlyIsShorter DEF Recorded
        <5> QED
          BY <5>1
      <4>6. CASE c = r.category /\ o = r.status
        <5>1. Reporting(c, o)' = Reporting(c, o) \union {t} /\ counts'[c][o] = counts[c][o] + 1
          BY <2>3, <4>1, <4>6
        <5> HIDE DEF r
        <5> QED
          BY <1>01, <1>03, <4>3, <4>4, <4>5, <5>1
      <4>7. CASE ~(c = r.category /\ o = r.status)
        <5>1. Reporting(c, o)' = Reporting(c, o) /\ counts'[c][o] = counts[c][o] + 0
          BY <2>3, <4>1, <4>7
        <5> HIDE DEF r
        <5> QED
          BY <1>01, <1>03, <4>4, <4>5, <5>1
      <4> QED
        BY <4>6, <4>7
    <3>5. LedgersAgree'
      BY <3>4 DEF LedgersAgree, Recorded, Reporting
    <3>6. RepairTypeOK'
      BY <1>0, <2>2, <2>3, <3>1, <3>3 DEF RepairInv, RepairTypeOK, RepairStates, RepairRecords
    <3> QED
      BY <2>2, <3>5, <3>6 DEF RepairInv, CompletedIsCool, LoopsStand
  <2> QED
    BY <2>4, <2>5
<1>4. ASSUME NEW t \in RepairTasks, RepairReturns(t) PROVE RepairInv'
  <2> DEFINE r == repair[t]
             entry == [category |-> r.category, status |-> r.status]
  <2>1. r \in RepairStates /\ r.category \in Categories /\ r.status \in Outcomes /\ entry \in RepairRecords
    BY <1>0 DEF RepairStates, RepairRecords
  <2>2. /\ r.pc = "reporting" /\ history' = Append(history, entry) /\ repair' = [repair EXCEPT ![t] = None]
        /\ UNCHANGED <<counts, loops, repair_snapshots, calmed, unverified>>
    BY <1>4 DEF RepairReturns
  <2>3. repair' \in [RepairTasks -> RepairStates] /\ \A u \in RepairTasks : repair'[u] = IF u = t THEN None ELSE repair[u]
    BY <1>0, <1>02, <2>2
  <2>4. ASSUME NEW c \in Categories, NEW o \in Outcomes
        PROVE  counts'[c][o] = Len(Recorded(c, o)') + Cardinality(Reporting(c, o)')
    <3>1. Reporting(c, o)' = IF c = r.category /\ o = r.status THEN Reporting(c, o) \ {t} ELSE Reporting(c, o)
      BY <1>02, <2>2, <2>3 DEF Reporting
    <3>2. c = r.category /\ o = r.status => t \in Reporting(c, o)
      BY <2>2 DEF Reporting
    <3>3. t \in Reporting(c, o) => Cardinality(Reporting(c, o) \ {t}) = Cardinality(Reporting(c, o)) - 1
      BY <1>03, FS_RemoveElement
    <3>4. /\ Len(Recorded(c, o)) \in Nat
          /\ Len(Recorded(c, o)') = Len(Recorded(c, o)) + IF entry.category = c /\ entry.status = o THEN 1 ELSE 0
      <4> HIDE DEF entry
      <4> QED
        BY <1>0, <2>1, <2>2, HistoryGrows
    <3>5. entry.category = r.category /\ entry.status = r.status
      OBVIOUS
    <3> HIDE DEF entry, r
    <3> QED
      BY <1>01, <1>03, <2>2, <3>1, <3>2, <3>3, <3>4, <3>5
  <2>5. LedgersAgree'
    BY <2>4 DEF LedgersAgree, Recorded, Reporting
  <2>6. history' \in Seq(RepairRecords)
    <3> HIDE DEF entry
    <3> QED
      BY <1>0, <2>1, <2>2
  <2>7. RepairTypeOK'
    BY <2>2, <2>3, <2>6 DEF RepairInv, RepairTypeOK, RepairStates, RepairRecords
  <2> QED
    BY <2>2, <2>5, <2>7 DEF RepairInv, CompletedIsCool, LoopsStand
\* The loops.
<1>5. ASSUME NEW o \in Owners, NEW new \in [running : BOOLEAN, alive : 0..MaxLoops], new.running => new.alive > 0,
             loops' = [loops EXCEPT ![o] = new],
             UNCHANGED <<repair, history, counts, repair_snapshots, calmed, unverified>>
      PROVE  RepairInv'
  <2>1. loops' \in [Owners -> [running : BOOLEAN, alive : 0..MaxLoops]] /\ LoopsStand'
    BY <1>0, <1>5 DEF RepairInv, LoopsStand
  <2>2. LedgersAgree'
    BY <1>5 DEF RepairInv, LedgersAgree
  <2> QED
    BY <1>5, <2>1, <2>2 DEF RepairInv, RepairTypeOK, CompletedIsCool
<1>6. ASSUME NEW level \in {"healthy", "warning", "critical"}, Record(level),
             UNCHANGED <<repair, history, counts, loops, calmed, unverified>>
      PROVE  RepairInv'
  <2>1. LedgersAgree'
    BY <1>6 DEF RepairInv, LedgersAgree
  <2>2. repair_snapshots' \in Seq({"healthy", "warning", "critical"}) /\ Len(repair_snapshots') <= MaxSnapshots
    BY <1>6, SnapshotsFit
  <2> QED
    BY <1>6, <2>1, <2>2 DEF RepairInv, RepairTypeOK, CompletedIsCool, LoopsStand
<1>7. ASSUME NEW o \in Owners, StartLoop(o) PROVE RepairInv'
  <2> DEFINE new == [running |-> TRUE, alive |-> loops[o].alive + 1]
  <2>1. loops' = [loops EXCEPT ![o] = new] /\ loops[o].alive < MaxLoops
        /\ UNCHANGED <<repair, history, counts, repair_snapshots, calmed, unverified>>
    BY <1>7 DEF StartLoop
  <2>2. new \in [running : BOOLEAN, alive : 0..MaxLoops] /\ new.alive > 0
    BY <1>0, <2>1
  <2> HIDE DEF new
  <2> QED
    BY <1>5, <2>1, <2>2
<1>8. ASSUME NEW o \in Owners, StopLoop(o) PROVE RepairInv'
  <2> DEFINE new == [running |-> FALSE, alive |-> loops[o].alive - 1]
  <2>1. loops' = [loops EXCEPT ![o] = new] /\ loops[o].running
        /\ UNCHANGED <<repair, history, counts, repair_snapshots, calmed, unverified>>
    BY <1>8 DEF StopLoop
  <2>2. new \in [running : BOOLEAN, alive : 0..MaxLoops] /\ ~new.running
    BY <1>0, <2>1 DEF RepairInv, LoopsStand
  <2> HIDE DEF new
  <2> QED
    BY <1>5, <2>1, <2>2
<1>9. ASSUME NEW o \in Owners, LoopTurns(o) PROVE RepairInv'
  <2>1. CASE loops[o].running
    BY <1>6, <1>9, <2>1 DEF LoopTurns
  <2>2. CASE ~loops[o].running
    <3> DEFINE new == [loops[o] EXCEPT !.alive = @ - 1]
    <3>1. loops' = [loops EXCEPT ![o] = new] /\ loops[o].alive > 0
          /\ UNCHANGED <<repair, history, counts, repair_snapshots, calmed, unverified>>
      BY <1>9, <2>2 DEF LoopTurns
    <3>2. new \in [running : BOOLEAN, alive : 0..MaxLoops] /\ ~new.running
      BY <1>0, <2>2, <3>1
    <3> HIDE DEF new
    <3> QED
      BY <1>5, <3>1, <3>2
  <2> QED
    BY <2>1, <2>2
<1>10. ASSUME NEW level \in Statuses, ManualHealthCheck(level) PROVE RepairInv'
  <2>1. level \in {"healthy", "warning", "critical"}
    BY DEF Statuses, Status
  <2> QED
    BY <1>6, <1>10, <2>1 DEF ManualHealthCheck
<1>11. ASSUME UNCHANGED repairVars PROVE RepairInv'
  <2>1. UNCHANGED <<repair, history, counts, loops, repair_snapshots, calmed, unverified>>
    BY <1>11 DEF repairVars
  <2>2. LedgersAgree'
    BY <2>1 DEF RepairInv, LedgersAgree
  <2>3. RepairTypeOK'
    BY <2>1 DEF RepairInv, RepairTypeOK
  <2> QED
    BY <2>1, <2>2, <2>3 DEF RepairInv, CompletedIsCool, LoopsStand
<1> QED
  BY <1>1, <1>2, <1>3, <1>4, <1>7, <1>8, <1>9, <1>10, <1>11 DEF RepairNext

-------------------------------------------------------------------------------
\* The immune system: what weighs enough is answered at once.

Weigh(p, sum, t) == sum + 2 * t.severity
FWeigh == INSTANCE FoldFacts WITH Op <- Weigh

\* Any one severity, and any two, weigh as much as the whole at most.
Outweighs(v, n, found) ==
    /\ v \in Nat
    /\ \A i \in 1..n : v >= 2 * found[i].severity
    /\ \A i, j \in 1..n : i # j => v >= 2 * found[i].severity + 2 * found[j].severity

\* What the threats weigh together is at least what any one or two of them weigh.
LEMMA WeightOfAll ==
  ASSUME NEW found \in Seq(Threats)
  PROVE  Outweighs(FoldLeft(LAMBDA sum, t : sum + 2 * t.severity, 0, found), Len(found), found)
<1>1. Len(found) \in Nat /\ \A i \in 1..Len(found) : found[i].severity \in 0..3
  <2>1. \A t \in Threats : t.severity \in 0..3
    BY DEF Threats, LOW, CRITICAL
  <2>2. Len(found) \in Nat /\ \A i \in 1..Len(found) : found[i] \in Threats
    OBVIOUS
  <2> QED
    BY <2>1, <2>2
<1>2. PICK f : FWeigh!Prefixed(f, 0, 0, found)
  BY FWeigh!FoldByPrefixes
<1> DEFINE T == {n \in Nat : n <= Len(found) => Outweighs(f[n], n, found)}
<1>3. 0 \in T
  BY <1>2 DEF FWeigh!Prefixed, Outweighs
<1>4. ASSUME NEW n \in Nat, n \in T PROVE n + 1 \in T
  <2>1. SUFFICES ASSUME n + 1 <= Len(found) PROVE Outweighs(f[n + 1], n + 1, found)
    OBVIOUS
  <2>2. f[n + 1] = f[n] + 2 * found[n + 1].severity
    BY <1>2, <2>1 DEF FWeigh!Prefixed, Weigh
  <2>3. Outweighs(f[n], n, found)
    BY <1>4, <2>1
  <2>4. \A i \in 1..(n + 1) : found[i].severity \in 0..3
    BY <1>1, <2>1
  <2> DEFINE sev(i) == found[i].severity
  <2>5. /\ f[n] \in Nat /\ f[n + 1] = f[n] + 2 * sev(n + 1)
        /\ \A i \in 1..(n + 1) : sev(i) \in 0..3
        /\ \A i \in 1..n : f[n] >= 2 * sev(i)
        /\ \A i, j \in 1..n : i # j => f[n] >= 2 * sev(i) + 2 * sev(j)
    BY <2>2, <2>3, <2>4 DEF Outweighs
  <2>6. \A i \in 1..(n + 1) : i \in 1..n \/ i = n + 1
    OBVIOUS
  <2> HIDE DEF sev
  <2>7. f[n + 1] \in Nat /\ n + 1 \in 1..(n + 1) /\ sev(n + 1) \in Nat /\ f[n + 1] >= f[n]
    BY <2>5
  <2>8. ASSUME NEW i \in 1..n
        PROVE  sev(i) \in Nat /\ f[n + 1] >= 2 * sev(i) /\ f[n + 1] >= 2 * sev(i) + 2 * sev(n + 1)
    <3> DEFINE a == sev(i)  b == sev(n + 1)  w == f[n]
    <3>1. a \in 0..3 /\ b \in 0..3 /\ w >= 2 * a
      BY <2>5, <2>6
    <3>2. w \in Nat /\ f[n + 1] = w + 2 * b
      BY <2>5
    <3> HIDE DEF a, b, w
    <3>3. a \in Nat /\ w + 2 * b >= 2 * a /\ w + 2 * b >= 2 * a + 2 * b
      BY <3>1, <3>2
    <3> QED
      BY <3>2, <3>3 DEF a, b
  <2>9. ASSUME NEW i \in 1..n, NEW j \in 1..n, i # j
        PROVE  f[n + 1] >= 2 * sev(i) + 2 * sev(j)
    <3>1. f[n] >= 2 * sev(i) + 2 * sev(j)
      BY <2>5, <2>9
    <3>2. sev(i) \in Nat /\ sev(j) \in Nat
      BY <2>8
    <3>3. f[n] \in Nat /\ f[n + 1] \in Nat /\ f[n + 1] >= f[n]
      BY <2>5, <2>7
    <3> QED
      BY <3>1, <3>2, <3>3
  <2>10. f[n + 1] >= 2 * sev(n + 1)
    BY <2>5, <2>7
  <2>11. \A i \in 1..(n + 1) : f[n + 1] >= 2 * sev(i)
    BY <2>6, <2>8, <2>10
  <2>12. ASSUME NEW i \in 1..(n + 1), NEW j \in 1..(n + 1), i # j PROVE f[n + 1] >= 2 * sev(i) + 2 * sev(j)
    <3>1. CASE i \in 1..n /\ j \in 1..n
      BY <2>9, <2>12, <3>1
    <3>2. CASE i = n + 1
      BY <2>6, <2>7, <2>8, <2>12, <3>2
    <3>3. CASE j = n + 1
      BY <2>6, <2>7, <2>8, <2>12, <3>3
    <3> QED
      BY <2>6, <3>1, <3>2, <3>3
  <2> QED
    BY <2>7, <2>11, <2>12 DEF Outweighs, sev
<1>5. Nat \subseteq T
  <2> HIDE DEF T
  <2> QED
    BY <1>3, <1>4, FKeep!SetInduction
<1>6. FWeigh!Fold(0, 0, found) = FoldLeft(LAMBDA sum, t : sum + 2 * t.severity, 0, found)
  BY DEF Weigh, FWeigh!Fold, FWeigh!FoldLeft, FoldLeft, FWeigh!MapThenFoldSet, MapThenFoldSet,
         FWeigh!Max, Max
<1>7. f[Len(found)] = FWeigh!Fold(0, 0, found)
  BY <1>2 DEF FWeigh!Prefixed
<1>8. Outweighs(f[Len(found)], Len(found), found)
  BY <1>1, <1>5
<1> QED
  BY <1>6, <1>7, <1>8

\* A CRITICAL threat, or two HIGH ones, weigh six tenths at least.
LEMMA WeightOfTheWorst ==
  ASSUME NEW found \in Seq(Threats),
         \/ \E i \in 1..Len(found) : found[i].severity = CRITICAL
         \/ \E i, j \in 1..Len(found) : i # j /\ found[i].severity = HIGH /\ found[j].severity = HIGH
  PROVE  Penalty(found) \in {6, 7, 8}
<1> DEFINE sum == FoldLeft(LAMBDA v, t : v + 2 * t.severity, 0, found)
<1>1. Outweighs(sum, Len(found), found)
  BY WeightOfAll
<1>2. Penalty(found) = Min({8, sum})
  BY DEF Penalty
<1> HIDE DEF sum
<1>3. sum \in Nat /\ sum >= 6
  BY <1>1 DEF Outweighs, CRITICAL, HIGH
<1> QED
  BY <1>2, <1>3, SmallerOfTwo

\* Whatever the other scores, so much is critical.
LEMMA HeavyIsCritical ==
  ASSUME NEW ctx, NEW found, Penalty(found) \in {6, 7, 8}
  PROVE  IsCritical(ctx, found)
<1> DEFINE g == GpuScore(ctx)
           c == ContextScore(ctx)
           l == LoopScore(ctx)
           i == InferenceScore(ctx)
           p == Penalty(found)
<1>1. g \in 0..300
  BY DEF GpuScore
<1>2. c \in 0..300
  BY DEF ContextScore
<1>3. l \in 0..300
  BY DEF LoopScore
<1>4. i \in 0..230
  BY DEF InferenceScore
<1>5. Overall(ctx, found) = (25 * g + 20 * c + 15 * l + 20 * i + 20 * 30 * (10 - p)) * (10 - p)
  BY DEF Overall
<1> HIDE DEF g, c, l, i, p
<1>6. p = 6 \/ p = 7 \/ p = 8
  BY DEF p
<1> QED
  BY <1>1, <1>2, <1>3, <1>4, <1>5, <1>6 DEF IsCritical

-----------------------------------------------------------------------------
\* What the detectors find are threats.

\* A finding of a category, or none.
LEMMA RaisedIsTyped ==
  ASSUME NEW found, NEW c \in ThreatCategories, NEW s \in 0..3
  PROVE  Raise(found, c, s) \in Seq(Threats)
<1>1. Threat(c, s) \in Threats
  BY DEF Threat, Threats, LOW, CRITICAL
<1> HIDE DEF Threat, Threats
<1> QED
  BY <1>1 DEF Raise

\* Dangerous commands, and those at the program itself, are at most two threats.
LEMMA CommandsAreTyped ==
  ASSUME NEW ctx
  PROVE  DangerousCommand(ctx) \in Seq(Threats) /\ BodyProtection(ctx) \in Seq(Threats)
<1>1. \A c \in ThreatCategories, s \in 0..3 : Threat(c, s) \in Threats
  BY DEF Threat, Threats, LOW, CRITICAL
<1>2. \A t \in Threats : [i \in 1..2 |-> t] \in Seq(Threats) /\ <<t>> \in Seq(Threats)
  <2>1. TAKE t \in Threats
  <2>2. [i \in 1..2 |-> t] \in [1..2 -> Threats] /\ 2 \in Nat
    OBVIOUS
  <2> QED
    BY <2>2
<1>3. <<>> \in Seq(Threats)
  OBVIOUS
<1>4. {"guardrail_violation", "body_harm"} \subseteq ThreatCategories /\ {MEDIUM, HIGH, CRITICAL} \subseteq 0..3
  BY DEF ThreatCategories, MEDIUM, HIGH, CRITICAL
<1> QED
  BY <1>1, <1>2, <1>3, <1>4 DEF DangerousCommand, BodyProtection

\* So are the findings of the other detectors, and of all together.
LEMMA DetectedIsTyped ==
  ASSUME NEW ctx
  PROVE  /\ Detected(ctx) \in Seq(Threats) /\ PromptInjection(ctx) \in Seq(Threats)
         /\ ContextCollapse(ctx) \in Seq(Threats) /\ SecretExposure(ctx) \in Seq(Threats)
         /\ SelfModification(ctx) \in Seq(Threats)
<1> DEFINE TS == Seq(Threats)
<1>0. /\ {"prompt_injection", "context_overflow", "resource_exhaustion", "vram_oom", "loop_detected",
          "repetition", "performance_degradation", "self_degradation", "secret_exposure",
          "guardrail_violation", "inference_engine_kill", "model_switch_violation"} \subseteq ThreatCategories
      /\ MEDIUM \in 0..3 /\ HIGH \in 0..3 /\ CRITICAL \in 0..3
  BY DEF ThreatCategories, MEDIUM, HIGH, CRITICAL
<1>1. PromptInjection(ctx) \in TS
  BY <1>0, RaisedIsTyped DEF PromptInjection
<1>2. ContextCollapse(ctx) \in TS
  BY <1>0, RaisedIsTyped DEF ContextCollapse
<1>3. \A a, b \in TS : a \o b \in TS
  OBVIOUS
<1> HIDE DEF TS
<1>4. ResourceExhaustion(ctx) \in TS
  <2> DEFINE sev == IF ctx.temp >= 88 THEN CRITICAL ELSE IF ctx.temp >= 80 THEN HIGH ELSE MEDIUM
  <2>1. sev \in 0..3
    BY <1>0
  <2>2. ResourceExhaustion(ctx) = Raise(ctx.temp >= 70, "resource_exhaustion", sev)
                                  \o Raise(ctx.vram >= 95, "vram_oom", HIGH)
    BY DEF ResourceExhaustion
  <2> HIDE DEF sev
  <2>3. Raise(ctx.temp >= 70, "resource_exhaustion", sev) \in TS /\ Raise(ctx.vram >= 95, "vram_oom", HIGH) \in TS
    BY <1>0, <2>1, RaisedIsTyped DEF TS
  <2> QED
    BY <1>3, <2>2, <2>3
<1>5. LoopDetection(ctx) \in TS
  <2> DEFINE sev == IF ctx.loops >= 10 THEN HIGH ELSE MEDIUM
  <2>1. sev \in 0..3
    BY <1>0
  <2>2. LoopDetection(ctx) = Raise(ctx.loops >= 5, "loop_detected", sev)
                             \o Raise(ctx.repeats >= 3, "repetition", MEDIUM)
    BY DEF LoopDetection
  <2> HIDE DEF sev
  <2>3. Raise(ctx.loops >= 5, "loop_detected", sev) \in TS /\ Raise(ctx.repeats >= 3, "repetition", MEDIUM) \in TS
    BY <1>0, <2>1, RaisedIsTyped DEF TS
  <2> QED
    BY <1>3, <2>2, <2>3
<1>6. PerformanceDegradation(ctx) \in TS
  BY <1>0, RaisedIsTyped DEF PerformanceDegradation, TS
<1>7. SelfDegradation(ctx) \in TS
  BY <1>0, RaisedIsTyped DEF SelfDegradation, TS
<1>8. SecretExposure(ctx) \in TS
  BY <1>0, RaisedIsTyped DEF SecretExposure, TS
<1>9. SelfModification(ctx) \in TS
  BY <1>0, RaisedIsTyped DEF SelfModification, TS
<1>10. InferenceEngineProtection(ctx) \in TS
  BY <1>0, RaisedIsTyped DEF InferenceEngineProtection, TS
<1>11. ModelFailover(ctx) \in TS
  BY <1>0, RaisedIsTyped DEF ModelFailover, TS
<1>12. DangerousCommand(ctx) \in TS /\ BodyProtection(ctx) \in TS
  BY CommandsAreTyped DEF TS
<1>13. Detected(ctx) \in TS
  <2>1. PromptInjection(ctx) \o ContextCollapse(ctx) \o ResourceExhaustion(ctx)
        \o LoopDetection(ctx) \o PerformanceDegradation(ctx) \o SelfDegradation(ctx) \in TS
    BY <1>1, <1>2, <1>3, <1>4, <1>5, <1>6, <1>7
  <2> QED
    BY <1>3, <1>8, <1>9, <1>10, <1>11, <1>12, <2>1 DEF Detected
<1> QED
  BY <1>1, <1>2, <1>8, <1>9, <1>13 DEF TS

-----------------------------------------------------------------------------
\* The threats that need no answer any more, or are not that bad.
Answered == {t \in Threats : t.severity = CRITICAL => t.resolved}

\* A threat that is resolved needs none.
LEMMA ResolvedNeedNone ==
  \A t \in Threats : [t EXCEPT !.resolved = TRUE] \in Answered
<1> SUFFICES ASSUME NEW t \in Threats PROVE [t EXCEPT !.resolved = TRUE] \in Answered
  OBVIOUS
<1> DEFINE u == [t EXCEPT !.resolved = TRUE]
<1>1. u \in Threats
  BY DEF Threats
<1>2. u.resolved = TRUE
  BY DEF Threats
<1> HIDE DEF u
<1>3. u \in Answered
  BY <1>1, <1>2 DEF Answered
<1> QED
  BY <1>3 DEF u

ImmuneInv ==
    /\ active \in Seq(Threats)
    /\ threats \in Seq(Answered) /\ Len(threats) <= MaxEntries
    /\ responses \in 0..MaxResponses
    /\ effectiveness \in [ThreatCategories -> [ThreatActions -> 0..responses]]
    /\ monitor \in [running : BOOLEAN, alive : 0..MaxMonitors] /\ (monitor.running => monitor.alive > 0)
    /\ \A i, j \in DOMAIN active : active[i].severity = HIGH /\ active[j].severity = HIGH => i = j

\* The first state of the immune system has the invariant.
LEMMA ImmuneInitially == ImmuneInit => ImmuneInv
<1> SUFFICES ASSUME ImmuneInit PROVE ImmuneInv
  OBVIOUS
<1>1. MaxEntries \in Nat /\ MaxResponses \in Nat /\ MaxMonitors \in Nat
  BY ImmuneAssumption
<1>2. <<>> \in Seq(Threats) /\ <<>> \in Seq(Answered) /\ Len(<<>>) = 0 /\ DOMAIN <<>> = {}
  OBVIOUS
<1> QED
  BY <1>1, <1>2 DEF ImmuneInit, ImmuneInv

\* The memory keeps the last entries.
LEMMA MemoryFits ==
  ASSUME NEW E, NEW s \in Seq(E), NEW n \in Nat
  PROVE  LastEntries(s, n) \in Seq(E) /\ Len(LastEntries(s, n)) <= n
<1> DEFINE first == IF Len(s) > n THEN Len(s) - n + 1 ELSE 1
<1>1. Len(s) \in Nat
  OBVIOUS
<1>2. first \in 1..(Len(s) + 1) /\ Len(s) - first + 1 <= n
  BY <1>1
<1>3. LastEntries(s, n) = SubSeq(s, first, Len(s))
  BY DEF LastEntries
<1> HIDE DEF first
<1>4. SubSeq(s, first, Len(s)) \in Seq(E) /\ Len(SubSeq(s, first, Len(s))) = Len(s) - first + 1
  BY <1>1, <1>2, SubSeqProperties
<1> QED
  BY <1>2, <1>3, <1>4

\* Responses are counted, and counted again by category and action.
LEMMA ResolvedIsCounted ==
  ASSUME ImmuneInv, NEW found \in Seq(Threats), Resolve(found)
  PROVE  /\ responses' \in 0..MaxResponses
         /\ effectiveness' \in [ThreatCategories -> [ThreatActions -> 0..responses']]
<1> DEFINE hits(c, a) == {i \in DOMAIN found : found[i].category = c /\ SelectAction(found[i]) = a}
<1>0. MaxResponses \in Nat
  BY ImmuneAssumption
<1>1. Len(found) \in Nat /\ DOMAIN found = 1..Len(found)
  OBVIOUS
<1>2. \A c, a : Cardinality(hits(c, a)) \in 0..Len(found)
  <2>1. TAKE c, a
  <2>2. IsFiniteSet(1..Len(found)) /\ Cardinality(1..Len(found)) = Len(found)
    BY <1>1, CountUpTo
  <2>3. hits(c, a) \in SUBSET (1..Len(found))
    BY <1>1
  <2> HIDE DEF hits
  <2> QED
    BY <1>1, <2>2, <2>3, FS_Subset, FS_CardinalityType
<1>3. responses' = responses + Len(found) /\ responses + Len(found) <= MaxResponses
  BY DEF Resolve
<1>4. effectiveness' = [c \in ThreatCategories |-> [a \in ThreatActions |-> effectiveness[c][a] + Cardinality(hits(c, a))]]
  BY DEF Resolve
<1> HIDE DEF hits
<1>5. responses \in 0..MaxResponses /\ effectiveness \in [ThreatCategories -> [ThreatActions -> 0..responses]]
  BY DEF ImmuneInv
<1>6. \A c \in ThreatCategories, a \in ThreatActions :
          effectiveness[c][a] + Cardinality(hits(c, a)) \in 0..(responses + Len(found))
  BY <1>1, <1>2, <1>5
<1> QED
  BY <1>0, <1>1, <1>3, <1>4, <1>5, <1>6

\* A check leaves no threat that weighs enough unanswered.
LEMMA CheckAnswers ==
  ASSUME ImmuneInv, NEW ctx, CheckImmuneHealth(ctx), UNCHANGED monitor
  PROVE  ImmuneInv'
<1> DEFINE found == Detected(ctx)
           answered == [i \in DOMAIN found |-> [found[i] EXCEPT !.resolved = TRUE]]
<1>0. MaxEntries \in Nat /\ threats \in Seq(Answered)
  BY ImmuneAssumption DEF ImmuneInv
<1>1. found \in Seq(Threats)
  BY DetectedIsTyped
<1>2. CASE IsCritical(ctx, found)
  <2>1. Resolve(found) /\ threats' = Remember(answered) /\ active' = <<>>
    BY <1>2 DEF CheckImmuneHealth
  <2> HIDE DEF found
  <2>2. answered \in Seq(Answered)
    <3>1. \A i \in 1..Len(found) : [found[i] EXCEPT !.resolved = TRUE] \in Answered
      BY <1>1, ResolvedNeedNone
    <3>2. DOMAIN found = 1..Len(found) /\ Len(found) \in Nat
      BY <1>1
    <3> QED
      BY <3>1, <3>2
  <2> HIDE DEF answered
  <2>3. threats \o answered \in Seq(Answered)
    BY <1>0, <2>2
  <2>4. threats' \in Seq(Answered) /\ Len(threats') <= MaxEntries
    BY <1>0, <2>1, <2>3, MemoryFits DEF Remember
  <2> QED
    BY <1>1, <2>1, <2>4, ResolvedIsCounted DEF ImmuneInv
<1>3. CASE ~IsCritical(ctx, found)
  <2>1. threats' = Remember(found) /\ active' = found /\ UNCHANGED <<responses, effectiveness>>
    BY <1>3 DEF CheckImmuneHealth
  <2>2. /\ \A i \in 1..Len(found) : found[i].severity # CRITICAL
        /\ \A i, j \in 1..Len(found) : found[i].severity = HIGH /\ found[j].severity = HIGH => i = j
    BY <1>1, <1>3, WeightOfTheWorst, HeavyIsCritical
  <2> HIDE DEF found
  <2>3. found \in Seq(Answered) /\ DOMAIN found = 1..Len(found)
    BY <1>1, <2>2 DEF Answered
  <2>4. threats \o found \in Seq(Answered)
    BY <1>0, <2>3
  <2>5. threats' \in Seq(Answered) /\ Len(threats') <= MaxEntries
    BY <1>0, <2>1, <2>4, MemoryFits DEF Remember
  <2> QED
    BY <1>1, <2>1, <2>2, <2>3, <2>5 DEF ImmuneInv
<1> QED
  BY <1>2, <1>3

\* Every step of the immune system keeps the invariant.
LEMMA ImmuneStep == ImmuneInv /\ [ImmuneNext]_immuneVars => ImmuneInv'
<1> SUFFICES ASSUME ImmuneInv, [ImmuneNext]_immuneVars PROVE ImmuneInv'
  OBVIOUS
<1>0. MaxResponses \in Nat /\ MaxMonitors \in Nat
  BY ImmuneAssumption
<1>1. ASSUME NEW ctx \in ImmuneContexts, CheckCalled(ctx) PROVE ImmuneInv'
  BY <1>1, CheckAnswers DEF CheckCalled
<1>2. ASSUME NEW ctx \in ImmuneContexts, RespondInSdk(ctx) PROVE ImmuneInv'
  <2>1. PICK n : /\ n \in Nat /\ responses + n <= MaxResponses /\ responses' = responses + n
                 /\ UNCHANGED <<active, threats, effectiveness, monitor>>
    <3>1. PromptInjection(ctx) \in Seq(Threats) /\ ContextCollapse(ctx) \in Seq(Threats)
          /\ DangerousCommand(ctx) \o SecretExposure(ctx) \o SelfModification(ctx) \in Seq(Threats)
      BY DetectedIsTyped, CommandsAreTyped
    <3>2. Len(PromptInjection(ctx)) \in Nat /\ Len(ContextCollapse(ctx)) \in Nat
          /\ Len(DangerousCommand(ctx) \o SecretExposure(ctx) \o SelfModification(ctx)) \in Nat
          /\ Len(<<DangerousCommand(ctx)[1]>>) \in Nat
      BY <3>1
    <3> QED
      BY <1>2, <3>2 DEF RespondInSdk
  <2>2. responses \in 0..MaxResponses /\ effectiveness \in [ThreatCategories -> [ThreatActions -> 0..responses]]
    BY DEF ImmuneInv
  <2>3. responses' \in 0..MaxResponses /\ effectiveness' \in [ThreatCategories -> [ThreatActions -> 0..responses']]
    BY <1>0, <2>1, <2>2
  <2> QED
    BY <2>1, <2>3 DEF ImmuneInv
<1>3. ASSUME RespondToThreats PROVE ImmuneInv'
  <2>1. /\ Resolve(active) /\ active' = <<>> /\ UNCHANGED monitor
        /\ threats' = [i \in DOMAIN threats |->
               IF i > Len(threats) - Len(active) THEN [threats[i] EXCEPT !.resolved = TRUE] ELSE threats[i]]
    BY <1>3 DEF RespondToThreats
  <2>2. threats \in Seq(Answered) /\ active \in Seq(Threats) /\ Len(threats) <= MaxEntries
    BY DEF ImmuneInv
  <2>3. \A i \in 1..Len(threats) : threats[i] \in Answered /\ [threats[i] EXCEPT !.resolved = TRUE] \in Answered
    <3>1. \A i \in 1..Len(threats) : threats[i] \in Answered
      BY <2>2
    <3> QED
      BY <3>1, ResolvedNeedNone DEF Answered
  <2>4. DOMAIN threats = 1..Len(threats) /\ Len(threats) \in Nat
    BY <2>2
  <2>5. threats' \in Seq(Answered) /\ Len(threats') = Len(threats)
    BY <2>1, <2>3, <2>4
  <2> QED
    BY <2>1, <2>2, <2>5, ResolvedIsCounted DEF ImmuneInv
<1>4. ASSUME StartImmuneMonitor PROVE ImmuneInv'
  BY <1>0, <1>4 DEF StartImmuneMonitor, ImmuneInv
<1>5. ASSUME StopImmuneMonitor PROVE ImmuneInv'
  BY <1>0, <1>5 DEF StopImmuneMonitor, ImmuneInv
<1>6. ASSUME MonitorTurns PROVE ImmuneInv'
  <2>1. CASE monitor.running
    BY <1>6, <2>1, CheckAnswers DEF MonitorTurns
  <2>2. CASE ~monitor.running
    <3>1. monitor.alive > 0 /\ monitor' = [monitor EXCEPT !.alive = @ - 1]
          /\ UNCHANGED <<active, threats, effectiveness, responses>>
      BY <1>6, <2>2 DEF MonitorTurns
    <3> QED
      BY <1>0, <2>2, <3>1 DEF ImmuneInv
  <2> QED
    BY <2>1, <2>2
<1>7. ASSUME UNCHANGED immuneVars PROVE ImmuneInv'
  BY <1>7 DEF immuneVars, ImmuneInv
<1> QED
  BY <1>1, <1>2, <1>3, <1>4, <1>5, <1>6, <1>7 DEF ImmuneNext

\* What the invariant says of the immune system to a reader.
LEMMA ImmuneIsTyped == ImmuneInv => ImmuneTypeOK /\ CriticalIsAnswered
<1> SUFFICES ASSUME ImmuneInv PROVE ImmuneTypeOK /\ CriticalIsAnswered
  OBVIOUS
<1>1. MaxResponses \in Nat
  BY ImmuneAssumption
<1>2. threats \in Seq(Threats) /\ \A i \in DOMAIN threats : threats[i] \in Answered
  BY DEF ImmuneInv, Answered
<1>3. ImmuneTypeOK
  BY <1>1, <1>2 DEF ImmuneInv, ImmuneTypeOK
<1>4. \A t \in ToSet(threats) : t.severity = CRITICAL => t.resolved
  BY <1>2 DEF ToSet, Answered
<1> QED
  BY <1>3, <1>4 DEF ImmuneInv, CriticalIsAnswered

-------------------------------------------------------------------------------
\* Heat: the limits stay in what the GPU allows, and a hot GPU is throttled.

\* A number that is kept between two others.
LEMMA BetweenIs ==
  ASSUME NEW low \in Int, NEW n \in Int, NEW high \in Int, low <= high
  PROVE  Between(low, n, high) = IF n > high THEN high ELSE IF n < low THEN low ELSE n
<1>1. Min({n, high}) = IF n <= high THEN n ELSE high
  BY SmallerOfTwo
<1>2. Min({n, high}) \in Int
  BY <1>1
<1>3. Between(low, n, high) = IF low >= Min({n, high}) THEN low ELSE Min({n, high})
  BY <1>2, LargerOfTwo DEF Between
<1> QED
  BY <1>1, <1>3

\* A cycle that found the GPU hot has left no more than a little of a cold time.
ThermalInv ==
    /\ limits \in [power : MinPower..OptimalPower, clock : MinClock..OptimalClock]
    /\ device \in MinPower..OptimalPower
    /\ pid \in [integral : -50..50, error : Int, began : BOOLEAN]
    /\ ~pid.began => pid.integral = 0 /\ pid.error = 0
    /\ paced /\ pid.error >= 4 => pid.integral >= -10
    /\ status.count \in Nat /\ optimized \in Nat /\ status.count + optimized <= MaxCycles

\* The first state of the regulation has the invariant.
LEMMA ThermalInitially == ThermalInit => ThermalInv
<1> SUFFICES ASSUME ThermalInit PROVE ThermalInv
  OBVIOUS
<1>1. MaxCycles \in Nat
  BY ThermalAssumption
<1>2. FreshPID.integral = 0 /\ FreshPID.error = 0 /\ FreshPID \in [integral : -50..50, error : Int, began : BOOLEAN]
  BY DEF FreshPID
<1> QED
  BY <1>1, <1>2 DEF ThermalInit, ThermalInv, Limits, MinPower, OptimalPower, MinClock, OptimalClock

\* The integral of a cycle.
LEMMA IntegralIs ==
  ASSUME ThermalInv, NEW error \in Int, NEW dt \in {0, 1, 2, 5, 10}
  PROVE  /\ Integral(error, dt) \in -50..50
         /\ dt = 10 /\ error >= 3 => Integral(error, dt) >= -20
         /\ dt = 10 /\ error >= 3 /\ paced /\ pid.error >= 4 => Integral(error, dt) >= 20
         /\ dt = 10 /\ error >= 4 => Integral(error, dt) >= -10
         /\ dt = 1 /\ error >= 3 /\ ~pid.began => Integral(error, dt) >= 3
<1> DEFINE n == pid.integral + error * dt
<1>1. pid.integral \in -50..50 /\ (~pid.began => pid.integral = 0 /\ pid.error = 0)
      /\ (paced /\ pid.error >= 4 => pid.integral >= -10) /\ pid.error \in Int
  BY DEF ThermalInv
<1>2. /\ n \in Int /\ (dt = 10 => n = pid.integral + 10 * error)
      /\ (dt = 1 => n = pid.integral + error)
  BY <1>1
<1>3. Integral(error, dt) = Between(-50, n, 50)
  BY DEF Integral, IntegralLimit
<1> HIDE DEF n
<1>5. Integral(error, dt) = IF n > 50 THEN 50 ELSE IF n < -50 THEN -50 ELSE n
  BY <1>2, <1>3, BetweenIs
<1> QED
  BY <1>1, <1>2, <1>5

\* What the controller says is a number; from six degrees on it says to throttle, and from
\* three when the cycles are an interval apart.
LEMMA ControlIs ==
  ASSUME ThermalInv, NEW error \in Int, NEW dt \in {0, 1, 2, 5, 10}
  PROVE  /\ Control(error, dt) \in Int
         /\ error >= 6 => Control(error, dt) >= 10
         /\ paced /\ (pid.began => dt = 10) /\ (~pid.began => dt = 1) /\ error >= 3 => Control(error, dt) >= 10
<1> DEFINE i == Integral(error, dt)
           n == error - pid.error
           d == Between(-10 * dt, n, 10 * dt)
           slope == IF dt > 0 THEN (10 * d) \div dt ELSE 0
<1>1. /\ i \in -50..50 /\ (dt = 10 /\ error >= 3 => i >= -20)
      /\ (dt = 10 /\ error >= 3 /\ paced /\ pid.error >= 4 => i >= 20)
      /\ (dt = 1 /\ error >= 3 /\ ~pid.began => i >= 3)
  BY IntegralIs
<1>2. pid.error \in Int /\ (~pid.began => pid.error = 0)
  BY DEF ThermalInv
<1>3. Control(error, dt) = 40 * error + 2 * i + slope
  <2>1. -DerivativeLimit * dt = -10 * dt /\ DerivativeLimit * dt = 10 * dt
    BY DEF DerivativeLimit
  <2> QED
    BY <2>1 DEF Control
<1>4. d = IF n > 10 * dt THEN 10 * dt ELSE IF n < -10 * dt THEN -10 * dt ELSE n
  <2>1. 10 * dt \in Int /\ -10 * dt \in Int /\ -10 * dt <= 10 * dt
    OBVIOUS
  <2> QED
    BY <1>2, <2>1, BetweenIs
<1>5. n \in Int /\ (pid.error <= 3 /\ error >= 3 => n >= 0)
  BY <1>2
<1> HIDE DEF i, n, d
<1>6. /\ slope \in Int /\ slope >= -100
      /\ (dt \in {1, 10} /\ n >= 0 => slope >= 0)
  <2>0. CASE dt = 0
    BY <2>0
  <2>1. CASE dt = 1
    BY <1>4, <1>5, <2>1
  <2>2. CASE dt = 2
    BY <1>4, <1>5, <2>2
  <2>3. CASE dt = 5
    BY <1>4, <1>5, <2>3
  <2>4. CASE dt = 10
    BY <1>4, <1>5, <2>4
  <2> QED
    BY <2>0, <2>1, <2>2, <2>3, <2>4
<1> HIDE DEF slope
<1>7. ASSUME paced, pid.began => dt = 10, ~pid.began => dt = 1, error >= 3
      PROVE  40 * error + 2 * i + slope >= 10
  <2>1. CASE pid.began /\ pid.error >= 4
    BY <1>1, <1>6, <1>7, <2>1
  <2>2. CASE pid.began /\ pid.error <= 3
    BY <1>1, <1>5, <1>6, <1>7, <2>2
  <2>3. CASE ~pid.began
    BY <1>1, <1>2, <1>5, <1>6, <1>7, <2>3
  <2> QED
    BY <1>2, <2>1, <2>2, <2>3
<1> QED
  BY <1>1, <1>3, <1>6, <1>7

\* The limits that follow.
LEMMA RegulatedIs ==
  ASSUME ThermalInv, NEW control \in Int
  PROVE  /\ Regulated(control).limits \in [power : MinPower..OptimalPower, clock : MinClock..OptimalClock]
         /\ control >= 10 => /\ Regulated(control).action = "throttle"
                             /\ Regulated(control).limits.power <= limits.power
<1> DEFINE p == limits.power
           c == limits.clock
           size == Abs(control)
<1>1. p \in 200..400 /\ c \in 1950..2250 /\ limits \in [power : MinPower..OptimalPower, clock : MinClock..OptimalClock]
  BY DEF ThermalInv, MinPower, OptimalPower, MinClock, OptimalClock
<1>2. size \in Nat /\ (control >= 10 => size = control)
  BY DEF Abs
<1>3. CASE size < 10
  BY <1>1, <1>2, <1>3 DEF Regulated
<1>4. CASE size >= 10 /\ control > 0
  <2> DEFINE less == (2 * p - size) \div 2
             slower == (4 * c - size) \div 4
             new == [power |-> Max({MinPower, less}), clock |-> Max({MinClock, slower})]
  <2>1. Regulated(control) = [limits |-> new, action |-> "throttle"]
    BY <1>2, <1>4 DEF Regulated
  <2> HIDE DEF size, p, c
  <2>2. less \in Int /\ less <= p /\ slower \in Int /\ slower <= c
    BY <1>1, <1>2, <1>4
  <2> HIDE DEF less, slower
  <2>3. Max({MinPower, less}) \in 200..p /\ Max({MinClock, slower}) \in 1950..c
    BY <1>1, <2>2, LargerOfTwo DEF MinPower, MinClock
  <2>4. new \in [power : 200..400, clock : 1950..2250] /\ new.power <= p
    BY <1>1, <2>3
  <2> HIDE DEF new
  <2> QED
    BY <2>1, <2>4 DEF MinPower, OptimalPower, MinClock, OptimalClock, p
<1>5. CASE size >= 10 /\ control <= 0
  <2> DEFINE more == (2 * p + size) \div 2
             faster == (4 * c + size) \div 4
             new == [power |-> Min({OptimalPower, more}), clock |-> Min({OptimalClock, faster})]
  <2>1. Regulated(control) = [limits |-> new, action |-> "relax"]
    BY <1>2, <1>5 DEF Regulated
  <2> HIDE DEF size, p, c
  <2>2. more \in Int /\ more >= p /\ faster \in Int /\ faster >= c
    BY <1>1, <1>2
  <2> HIDE DEF more, faster
  <2>3. Min({OptimalPower, more}) \in p..400 /\ Min({OptimalClock, faster}) \in c..2250
    BY <1>1, <2>2, SmallerOfTwo DEF OptimalPower, OptimalClock
  <2>4. new \in [power : 200..400, clock : 1950..2250]
    BY <1>1, <2>3
  <2> HIDE DEF new
  <2> QED
    BY <1>5, <2>1, <2>4 DEF MinPower, OptimalPower, MinClock, OptimalClock
<1> QED
  BY <1>2, <1>3, <1>4, <1>5

\* The number of steps of a loop is a number.
LEMMA StepsIs ==
  ASSUME NEW a \in Int, NEW b \in Int, NEW s \in Nat \ {0}, NEW t \in Nat \ {0}
  PROVE  Steps(a, s, b, t) \in Nat
<1> DEFINE x == (a + s - 1) \div s
           y == (b + t - 1) \div t
<1>1. x \in Int /\ y \in Int
  OBVIOUS
<1>2. Steps(a, s, b, t) = Max({0, Min({x, y})})
  BY DEF Steps
<1> HIDE DEF x, y
<1>3. Min({x, y}) \in Int
  BY <1>1, SmallerOfTwo
<1>4. Max({0, Min({x, y})}) \in Nat
  BY <1>3, LargerOfTwo
<1> QED
  BY <1>2, <1>4

\* The limits that an optimization sets are those of the GPU.
LEMMA OptimizedIs ==
  ASSUME ThermalInv, NEW temp \in Int
  PROVE  Optimized(temp) \in [power : MinPower..OptimalPower, clock : MinClock..OptimalClock]
<1> DEFINE p == limits.power
           c == limits.clock
           over == 10 * (temp - Target)
           under == 10 * (Target - 5 - temp)
           a == Steps(p - MinPower, 25, over, 20)
           b == Steps(OptimalPower - p, 25, under, 15)
           d == Steps(c - MinClock, 50, over, 10)
           e == Steps(OptimalClock - c, 50, under, 8)
           reduced == Max({MinPower, p - 25 * a})
           raised == Min({OptimalPower, p + 25 * b})
           slower == Max({MinClock, c - 50 * d})
           faster == Min({OptimalClock, c + 50 * e})
<1>1. p \in 200..400 /\ c \in 1950..2250
      /\ limits \in [power : MinPower..OptimalPower, clock : MinClock..OptimalClock]
  BY DEF ThermalInv, MinPower, OptimalPower, MinClock, OptimalClock
<1>2. over \in Int /\ under \in Int /\ p - MinPower \in Int /\ OptimalPower - p \in Int
      /\ c - MinClock \in Int /\ OptimalClock - c \in Int
  BY <1>1 DEF Target, MinPower, OptimalPower, MinClock, OptimalClock
<1>3. Optimized(temp) =
          IF temp > Target THEN [power |-> reduced, clock |-> IF reduced > MinPower THEN c ELSE slower]
          ELSE IF temp < Target - 5 THEN [power |-> raised, clock |-> IF raised = OptimalPower THEN c ELSE faster]
          ELSE limits
  BY DEF Optimized
<1> HIDE DEF over, under, p, c
<1>4. a \in Nat /\ b \in Nat /\ d \in Nat /\ e \in Nat
  <2>1. \A n \in {25, 20, 15, 50, 10, 8} : n \in Nat \ {0}
    OBVIOUS
  <2>2. a \in Nat
    BY <1>2, <2>1, StepsIs
  <2>3. b \in Nat
    BY <1>2, <2>1, StepsIs
  <2>4. d \in Nat
    BY <1>2, <2>1, StepsIs
  <2>5. e \in Nat
    BY <1>2, <2>1, StepsIs
  <2> QED
    BY <2>2, <2>3, <2>4, <2>5
<1> HIDE DEF a, b, d, e
<1> DEFINE w == p - 25 * a
           x == c - 50 * d
           y == p + 25 * b
           z == c + 50 * e
<1>9. w \in Int /\ w <= 400 /\ x \in Int /\ x <= 2250 /\ y \in Int /\ y >= 200 /\ z \in Int /\ z >= 1950
  BY <1>1, <1>4
<1>10. reduced = Max({200, w}) /\ slower = Max({1950, x}) /\ raised = Min({400, y}) /\ faster = Min({2250, z})
  BY DEF MinPower, MinClock, OptimalPower, OptimalClock
<1> HIDE DEF w, x, y, z, reduced, raised, slower, faster
<1>5. reduced \in 200..400 /\ slower \in 1950..2250
  <2>1. Max({200, w}) = IF 200 >= w THEN 200 ELSE w
    BY <1>9, LargerOfTwo
  <2>2. Max({1950, x}) = IF 1950 >= x THEN 1950 ELSE x
    BY <1>9, LargerOfTwo
  <2>3. reduced \in 200..400
    BY <1>9, <1>10, <2>1
  <2>4. slower \in 1950..2250
    BY <1>9, <1>10, <2>2
  <2> QED
    BY <2>3, <2>4
<1>6. raised \in 200..400 /\ faster \in 1950..2250
  <2>1. Min({400, y}) = IF 400 <= y THEN 400 ELSE y
    BY <1>9, SmallerOfTwo
  <2>2. Min({2250, z}) = IF 2250 <= z THEN 2250 ELSE z
    BY <1>9, SmallerOfTwo
  <2>3. raised \in 200..400
    BY <1>9, <1>10, <2>1
  <2>4. faster \in 1950..2250
    BY <1>9, <1>10, <2>2
  <2> QED
    BY <2>3, <2>4
<1>7. [power |-> reduced, clock |-> IF reduced > MinPower THEN c ELSE slower] \in [power : 200..400, clock : 1950..2250]
  BY <1>1, <1>5
<1>8. [power |-> raised, clock |-> IF raised = OptimalPower THEN c ELSE faster] \in [power : 200..400, clock : 1950..2250]
  BY <1>1, <1>6
<1> QED
  BY <1>1, <1>3, <1>7, <1>8 DEF MinPower, OptimalPower, MinClock, OptimalClock

\* A cycle of the monitor.
LEMMA CycleRegulates ==
  ASSUME ThermalInv, NEW gpu \in GPUTemps, NEW cpu, NEW nvml, NEW gap \in Gaps, Regulate(gpu, cpu, nvml, gap)
  PROVE  /\ ThermalInv'
         /\ pid'.error >= 6 \/ (paced' /\ pid'.error >= 3)
            => status'.action = "throttle" /\ limits'.power <= limits.power
<1> DEFINE error == gpu - Target
           dt == Step(gap)
           did == Regulated(Control(error, dt))
           i == Integral(error, dt)
           L == [power : MinPower..OptimalPower, clock : MinClock..OptimalClock]
           hot == error >= 6 \/ (paced' /\ error >= 3)
<1>1. error \in Int /\ MaxCycles \in Nat
  BY ThermalAssumption DEF Target
<1>2. /\ status.count + optimized < MaxCycles /\ pid' = [integral |-> i, error |-> error, began |-> TRUE]
      /\ limits' = IF nvml = "missing" THEN limits ELSE did.limits
      /\ device' = IF nvml = "works" THEN did.limits.power ELSE device
      /\ status'.count = status.count + 1 /\ status'.action = did.action /\ optimized' = optimized
  BY DEF Regulate
<1>3. paced' => paced /\ (pid.began => dt = 10) /\ (~pid.began => dt = 1)
  BY DEF Regulate, Step, CycleLength
<1>4. dt \in {0, 1, 2, 5, 10}
  BY ThermalAssumption DEF Step
<1> HIDE DEF error, dt
<1>5. i \in -50..50 /\ (dt = 10 /\ error >= 4 => i >= -10) /\ (dt = 1 /\ error >= 3 /\ ~pid.began => i >= 3)
  BY <1>1, <1>4, IntegralIs
<1>6. did.limits \in L /\ (hot => did.action = "throttle" /\ did.limits.power <= limits.power)
  BY <1>1, <1>3, <1>4, ControlIs, RegulatedIs
<1> HIDE DEF did, i
<1>7. pid' \in [integral : -50..50, error : Int, began : BOOLEAN] /\ pid'.error = error /\ pid'.integral = i /\ pid'.began
  BY <1>1, <1>2, <1>5
<1>8. limits' \in L /\ device' \in MinPower..OptimalPower
  BY <1>2, <1>6 DEF ThermalInv
<1>9. limits \in L /\ limits.power \in Int /\ status.count \in Nat /\ optimized \in Nat
  BY DEF ThermalInv, MinPower, OptimalPower
<1>10. hot => limits'.power <= limits.power
  BY <1>2, <1>6, <1>9
<1>11. paced' /\ error >= 4 => i >= -10
  BY <1>1, <1>3, <1>5
<1>12. status'.count \in Nat /\ optimized' \in Nat /\ status'.count + optimized' <= MaxCycles
  BY <1>1, <1>2, <1>9
<1>13. ThermalInv'
  BY <1>7, <1>8, <1>11, <1>12 DEF ThermalInv
<1> QED
  BY <1>2, <1>6, <1>7, <1>10, <1>13

\* Every step of the regulation keeps the invariant.
LEMMA ThermalStep == ThermalInv /\ [ThermalNext]_thermalVars => ThermalInv'
<1> SUFFICES ASSUME ThermalInv, [ThermalNext]_thermalVars PROVE ThermalInv'
  OBVIOUS
<1>0. MaxCycles \in Nat
  BY ThermalAssumption
<1>1. ASSUME NEW gpu \in GPUTemps, NEW cpu \in CPUTemps, NEW nvml, NEW gap \in Gaps, Regulate(gpu, cpu, nvml, gap)
      PROVE  ThermalInv'
  BY <1>1, CycleRegulates
<1>2. ASSUME NEW temp \in GPUTemps, NEW nvml, Optimize(temp, nvml) PROVE ThermalInv'
  <2>1. temp \in Int
    BY ThermalAssumption
  <2>2. Optimized(temp) \in [power : MinPower..OptimalPower, clock : MinClock..OptimalClock]
    BY <2>1, OptimizedIs
  <2>3. /\ status.count + optimized < MaxCycles /\ optimized' = optimized + 1
        /\ limits' = Optimized(temp) /\ device' = (IF nvml = "works" THEN Optimized(temp).power ELSE device)
        /\ UNCHANGED <<pid, status, paced>>
    BY <1>2 DEF Optimize
  <2>4. limits' \in [power : MinPower..OptimalPower, clock : MinClock..OptimalClock] /\ device' \in MinPower..OptimalPower
    BY <2>2, <2>3 DEF ThermalInv
  <2>5. optimized' \in Nat /\ status'.count + optimized' <= MaxCycles
    BY <1>0, <2>3 DEF ThermalInv
  <2> QED
    BY <2>3, <2>4, <2>5 DEF ThermalInv
<1>3. ASSUME ResetThermal PROVE ThermalInv'
  <2>1. FreshPID.integral = 0 /\ FreshPID.error = 0 /\ FreshPID \in [integral : -50..50, error : Int, began : BOOLEAN]
    BY DEF FreshPID
  <2> QED
    BY <1>3, <2>1 DEF ResetThermal, ThermalInv, Limits, MinPower, OptimalPower, MinClock, OptimalClock
<1>4. ASSUME UNCHANGED thermalVars PROVE ThermalInv'
  BY <1>4 DEF thermalVars, ThermalInv
<1> QED
  BY <1>1, <1>2, <1>3, <1>4 DEF ThermalNext

\* What the invariant says of the regulation to a reader.
LEMMA ThermalIsTyped == ThermalInv => ThermalTypeOK
<1>1. HealthScore \in 1..10
  BY DEF HealthScore
<1> QED
  BY <1>1 DEF ThermalInv, ThermalTypeOK

\* A step that measures a hot GPU throttles it.
LEMMA HotStep ==
  ASSUME ThermalInv, [ThermalNext]_thermalVars, status'.count > status.count,
         pid'.error >= 6 \/ (paced' /\ pid'.error >= 3)
  PROVE  status'.action = "throttle" /\ limits'.power <= limits.power
<1>1. status.count \in Nat
  BY DEF ThermalInv
<1>2. PICK gpu \in GPUTemps, cpu \in CPUTemps, nvml \in {"works", "fails", "missing"}, gap \in Gaps :
        Regulate(gpu, cpu, nvml, gap)
  BY <1>1 DEF ThermalNext, Optimize, ResetThermal, thermalVars
<1> QED
  BY <1>2, CycleRegulates

-------------------------------------------------------------------------------
\* Metabolism: who listens knows the levels.
LevelSet == {"normal", "warning", "critical", "emergency"}
HealthNews == {<<"resource.health", l>> : l \in LevelSet}
ContextNews == {<<"context", l, Recommended(l)>> : l \in LevelSet}
Announcements == HealthNews \union ContextNews

\* What is told of a kind ends with the last level, and repeats none.
Told(news, last) ==
    /\ (IF news = <<>> THEN "normal" ELSE Last(news)[2]) = last
    /\ \A i \in 1..(Len(news) - 1) : news[i][2] # news[i + 1][2]

MetabolismInv ==
    /\ tokens \in 0..MaxPercent /\ lastHealth \in LevelSet /\ lastContext \in LevelSet
    /\ published \in Seq(Announcements) /\ Len(published) <= MaxPublished
    /\ metabolism_snapshots \in Nat /\ metabolism_snapshots <= MaxPublished
    /\ warned \in Nat /\ warned <= 2 * metabolism_snapshots
    /\ Told(Only(published, HealthNews), lastHealth) /\ Told(Only(published, ContextNews), lastContext)

\* The levels, in the order of their rank.
LEMMA LevelsAre == Range(Levels) = LevelSet /\ \A n \in 1..4 : Levels[n] \in LevelSet
  BY DEF Levels, Range, LevelSet

\* The worst of some levels is one.
LEMMA WorstIsLevel ==
  ASSUME NEW alerts, alerts \subseteq LevelSet
  PROVE  Worst(alerts) \in LevelSet
<1> DEFINE S == {1} \union {Rank(a) : a \in alerts}
<1>1. \A a \in LevelSet : Rank(a) \in 1..4
  <2>1. \A a \in LevelSet : \E n \in 1..4 : Levels[n] = a
    BY DEF Levels, LevelSet
  <2> QED
    BY <2>1 DEF Rank
<1>2. S \subseteq 0..4 /\ S \subseteq 1..4 /\ S # {}
  BY <1>1
<1>3. Worst(alerts) = Levels[Max(S)]
  BY DEF Worst
<1> HIDE DEF S
<1>4. Max(S) \in S
  BY <1>2, LargestOfBounded
<1> QED
  BY <1>2, <1>3, <1>4, LevelsAre

\* A value has a level.
LEMMA LevelIsOne ==
  ASSUME NEW value, NEW warning, NEW critical
  PROVE  Level(value, warning, critical) \in LevelSet
  BY DEF Level, LevelSet

\* So have all values of a reading.
LEMMA HealthIsLevel ==
  ASSUME NEW r
  PROVE  ResourceHealth(r) \in LevelSet
<1>1. (IF r.gpu >= 90 THEN "emergency" ELSE Level(r.gpu, 70, 85)) \in LevelSet
  BY LevelIsOne DEF LevelSet
<1>2. Level(r.vram, 80, 90) \in LevelSet /\ Level(r.power, 95, 1000) \in LevelSet /\ Level(r.disk, 80, 90) \in LevelSet
  BY LevelIsOne
<1>3. {IF r.gpu >= 90 THEN "emergency" ELSE Level(r.gpu, 70, 85),
       Level(r.vram, 80, 90), Level(r.power, 95, 1000), Level(r.disk, 80, 90)} \subseteq LevelSet
  BY <1>1, <1>2
<1> QED
  BY <1>3, WorstIsLevel DEF ResourceHealth

\* A level that is new is told.
LEMMA TellingKeeps ==
  ASSUME NEW E, NEW news \in Seq(E), NEW last, NEW e \in E, Told(news, last), e[2] # last
  PROVE  Told(Append(news, e), e[2])
<1> DEFINE n == Len(news)
           more == Append(news, e)
<1>1. /\ n \in Nat /\ more \in Seq(E) /\ Len(more) = n + 1 /\ more[n + 1] = e /\ more # <<>>
      /\ \A i \in 1..n : more[i] = news[i]
  <2>1. n \in Nat /\ more \in Seq(E) /\ Len(more) = n + 1 /\ more[n + 1] = e
    OBVIOUS
  <2>2. \A i \in 1..n : more[i] = news[i]
    OBVIOUS
  <2> HIDE DEF more, n
  <2>3. more # <<>>
    BY <2>1
  <2> QED
    BY <2>1, <2>2, <2>3
<1>2. Last(more) = e
  BY <1>1 DEF Last
<1>3. \A i \in 1..(n - 1) : news[i][2] # news[i + 1][2]
  BY DEF Told
<1>4. n # 0 => news[n][2] = last
  BY DEF Told, Last
<1> HIDE DEF n, more
<1>5. ASSUME NEW i \in 1..(Len(more) - 1) PROVE more[i][2] # more[i + 1][2]
  <2>1. i \in 1..n
    BY <1>1, <1>5
  <2>2. CASE i = n
    BY <1>1, <1>4, <2>1, <2>2
  <2>3. CASE i < n
    <3>1. i \in 1..(n - 1) /\ i + 1 \in 1..n
      BY <1>1, <2>1, <2>3
    <3> QED
      BY <1>1, <1>3, <2>1, <3>1
  <2> QED
    BY <1>1, <2>1, <2>2, <2>3
<1>6. Told(more, e[2])
  BY <1>1, <1>2, <1>5 DEF Told
<1> QED
  BY <1>6 DEF more

\* The first state of the metabolism has the invariant.
LEMMA MetabolismInitially == MetabolismInit => MetabolismInv
<1> SUFFICES ASSUME MetabolismInit PROVE MetabolismInv
  OBVIOUS
<1>1. MaxPublished \in Nat /\ 0 \in 0..MaxPercent
  BY MetabolismAssumption
<1>2. \A A : Only(<<>>, A) = <<>>
  BY OnlyIsFold, FKeep!FoldEmpty
<1>3. <<>> \in Seq(Announcements) /\ Len(<<>>) = 0
  OBVIOUS
<1>4. Told(<<>>, "normal")
  BY DEF Told
<1>5. /\ tokens = 0 /\ lastHealth = "normal" /\ lastContext = "normal" /\ published = <<>>
      /\ metabolism_snapshots = 0 /\ warned = 0
  BY DEF MetabolismInit
<1>6. "normal" \in LevelSet
  BY DEF LevelSet
<1>7. Told(Only(published, HealthNews), lastHealth) /\ Told(Only(published, ContextNews), lastContext)
  BY <1>2, <1>4, <1>5
<1> QED
  BY <1>1, <1>3, <1>5, <1>6, <1>7 DEF MetabolismInv

\* Health is told to those who listen for it.
LEMMA HealthIsTold ==
  ASSUME MetabolismInv, NEW l \in LevelSet, Len(published) < MaxPublished,
         published' = IF l # lastHealth THEN Append(published, <<"resource.health", l>>) ELSE published
  PROVE  /\ published' \in Seq(Announcements) /\ Len(published') <= MaxPublished
         /\ Told(Only(published', HealthNews), l) /\ Only(published', ContextNews) = Only(published, ContextNews)
<1> DEFINE e == <<"resource.health", l>>
<1>0. MaxPublished \in Nat /\ published \in Seq(Announcements) /\ Told(Only(published, HealthNews), lastHealth)
  BY MetabolismAssumption DEF MetabolismInv
<1>1. e \in HealthNews /\ e \in Announcements /\ e[2] = l /\ e \notin ContextNews
  BY DEF HealthNews, ContextNews, Announcements
<1>2. published' = IF l # lastHealth THEN Append(published, e) ELSE published
  OBVIOUS
<1> HIDE DEF e
<1>3. CASE l = lastHealth
  BY <1>0, <1>2, <1>3
<1>4. CASE l # lastHealth
  <2>1. published' = Append(published, e)
    BY <1>2, <1>4
  <2>2. published' \in Seq(Announcements) /\ Len(published') <= MaxPublished
    BY <1>0, <1>1, <2>1
  <2>3. Only(published', HealthNews) = Append(Only(published, HealthNews), e)
    BY <1>0, <1>1, <2>1, OnlyAppend
  <2>4. Only(published', ContextNews) = Only(published, ContextNews)
    <3>1. Only(Append(published, e), ContextNews) =
              IF e \in ContextNews THEN Append(Only(published, ContextNews), e) ELSE Only(published, ContextNews)
      BY <1>0, <1>1, OnlyAppend
    <3> QED
      BY <1>1, <2>1, <3>1
  <2>5. Only(published, HealthNews) \in Seq(Announcements)
    BY <1>0, OnlyIsShorter
  <2>6. Told(Append(Only(published, HealthNews), e), l)
    BY <1>0, <1>1, <1>4, <2>5, TellingKeeps
  <2> QED
    BY <2>2, <2>3, <2>4, <2>6
<1> QED
  BY <1>3, <1>4

\* So is the level of the context.
LEMMA ContextIsTold ==
  ASSUME MetabolismInv, NEW l \in LevelSet, Len(published) < MaxPublished,
         published' = IF l # lastContext THEN Append(published, <<"context", l, Recommended(l)>>) ELSE published
  PROVE  /\ published' \in Seq(Announcements) /\ Len(published') <= MaxPublished
         /\ Told(Only(published', ContextNews), l) /\ Only(published', HealthNews) = Only(published, HealthNews)
<1> DEFINE e == <<"context", l, Recommended(l)>>
<1>0. MaxPublished \in Nat /\ published \in Seq(Announcements) /\ Told(Only(published, ContextNews), lastContext)
  BY MetabolismAssumption DEF MetabolismInv
<1>1. e \in ContextNews /\ e \in Announcements /\ e[2] = l /\ e \notin HealthNews
  BY DEF HealthNews, ContextNews, Announcements
<1>2. published' = IF l # lastContext THEN Append(published, e) ELSE published
  OBVIOUS
<1> HIDE DEF e
<1>3. CASE l = lastContext
  BY <1>0, <1>2, <1>3
<1>4. CASE l # lastContext
  <2>1. published' = Append(published, e)
    BY <1>2, <1>4
  <2>2. published' \in Seq(Announcements) /\ Len(published') <= MaxPublished
    BY <1>0, <1>1, <2>1
  <2>3. Only(published', ContextNews) = Append(Only(published, ContextNews), e)
    BY <1>0, <1>1, <2>1, OnlyAppend
  <2>4. Only(published', HealthNews) = Only(published, HealthNews)
    <3>1. Only(Append(published, e), HealthNews) =
              IF e \in HealthNews THEN Append(Only(published, HealthNews), e) ELSE Only(published, HealthNews)
      BY <1>0, <1>1, OnlyAppend
    <3> QED
      BY <1>1, <2>1, <3>1
  <2>5. Only(published, ContextNews) \in Seq(Announcements)
    BY <1>0, OnlyIsShorter
  <2>6. Told(Append(Only(published, ContextNews), e), l)
    BY <1>0, <1>1, <1>4, <2>5, TellingKeeps
  <2> QED
    BY <2>2, <2>3, <2>4, <2>6
<1> QED
  BY <1>3, <1>4

\* Every step of the metabolism keeps the invariant.
LEMMA MetabolismStep == MetabolismInv /\ [MetabolismNext]_metabolismVars => MetabolismInv'
<1> SUFFICES ASSUME MetabolismInv, [MetabolismNext]_metabolismVars PROVE MetabolismInv'
  OBVIOUS
<1>0. MaxPublished \in Nat /\ MaxPercent \in Nat /\ TokenCounts \subseteq 0..MaxPercent
  BY MetabolismAssumption
<1>1. ASSUME NEW r, AssessHealth(r) PROVE MetabolismInv'
  <2> DEFINE l == ResourceHealth(r)
  <2>1. l \in LevelSet
    BY HealthIsLevel
  <2>2. /\ Len(published) < MaxPublished /\ metabolism_snapshots < MaxPublished
        /\ published' = IF l # lastHealth THEN Append(published, <<"resource.health", l>>) ELSE published
        /\ lastHealth' = l /\ metabolism_snapshots' = metabolism_snapshots + 1
        /\ warned' = warned + (IF l = "normal" THEN 0 ELSE 1) + (IF r.gpu > 80 THEN 1 ELSE 0)
        /\ UNCHANGED <<tokens, lastContext>>
    BY <1>1 DEF AssessHealth, Changed
  <2> HIDE DEF l
  <2>3. /\ published' \in Seq(Announcements) /\ Len(published') <= MaxPublished
        /\ Told(Only(published', HealthNews), l) /\ Only(published', ContextNews) = Only(published, ContextNews)
    BY <2>1, <2>2, HealthIsTold
  <2>4. /\ metabolism_snapshots' \in Nat /\ metabolism_snapshots' <= MaxPublished
        /\ warned' \in Nat /\ warned' <= 2 * metabolism_snapshots'
    BY <1>0, <2>2 DEF MetabolismInv
  <2> QED
    BY <2>1, <2>2, <2>3, <2>4 DEF MetabolismInv
<1>2. ASSUME NEW percent \in TokenCounts, UpdateContextBudget(percent) PROVE MetabolismInv'
  <2> DEFINE l == ContextLevel(percent)
  <2>1. l \in LevelSet
    BY LevelIsOne DEF ContextLevel, LevelSet
  <2>2. /\ Len(published) < MaxPublished /\ tokens' = percent /\ lastContext' = l
        /\ published' = IF l # lastContext THEN Append(published, <<"context", l, Recommended(l)>>) ELSE published
        /\ UNCHANGED <<lastHealth, metabolism_snapshots, warned>>
    BY <1>2 DEF UpdateContextBudget
  <2> HIDE DEF l
  <2>3. /\ published' \in Seq(Announcements) /\ Len(published') <= MaxPublished
        /\ Told(Only(published', ContextNews), l) /\ Only(published', HealthNews) = Only(published, HealthNews)
    BY <2>1, <2>2, ContextIsTold
  <2> QED
    BY <1>0, <2>1, <2>2, <2>3 DEF MetabolismInv
<1>3. ASSUME NEW percent \in TokenCounts, RecordTokens(percent) PROVE MetabolismInv'
  <2>1. tokens' \in 0..MaxPercent
    BY <1>0, <1>3 DEF RecordTokens, MetabolismInv
  <2> QED
    BY <1>3, <2>1 DEF RecordTokens, MetabolismInv
<1>4. ASSUME UNCHANGED metabolismVars PROVE MetabolismInv'
  BY <1>4 DEF metabolismVars, MetabolismInv
<1> QED
  BY <1>1, <1>2, <1>3, <1>4 DEF MetabolismNext

\* The news of a kind.
LEMMA NewsOf ==
  ASSUME published \in Seq(Announcements)
  PROVE  EventsOf("resource.health") = Only(published, HealthNews) /\ EventsOf("context") = Only(published, ContextNews)
<1>1. \A e \in Announcements : (e[1] = "resource.health" <=> e \in HealthNews) /\ (e[1] = "context" <=> e \in ContextNews)
  BY DEF Announcements, HealthNews, ContextNews
<1>2. \A i \in 1..Len(published) : published[i] \in Announcements /\ published[i] \in Range(published)
  BY DEF Range
<1>3. Only(published, {e \in Range(published) : e[1] = "resource.health"}) = Only(published, HealthNews)
  BY <1>1, <1>2, OnlyOfRange
<1>4. Only(published, {e \in Range(published) : e[1] = "context"}) = Only(published, ContextNews)
  BY <1>1, <1>2, OnlyOfRange
<1> QED
  BY <1>3, <1>4 DEF EventsOf

\* What the invariant says of the metabolism to a reader.
LEMMA MetabolismIsTyped == MetabolismInv => MetabolismTypeOK /\ ListenersKnow
<1> SUFFICES ASSUME MetabolismInv PROVE MetabolismTypeOK /\ ListenersKnow
  OBVIOUS
<1>1. MetabolismTypeOK
  BY LevelsAre DEF MetabolismInv, MetabolismTypeOK
<1>2. EventsOf("resource.health") = Only(published, HealthNews) /\ EventsOf("context") = Only(published, ContextNews)
  BY NewsOf DEF MetabolismInv
<1>3. Told(EventsOf("resource.health"), lastHealth) /\ Told(EventsOf("context"), lastContext)
  BY <1>2 DEF MetabolismInv
<1> QED
  BY <1>1, <1>3 DEF ListenersKnow, Announced, Told

-------------------------------------------------------------------------------
\* The sum over the models, one of them a time.

Tally(t) == FoldSet(LAMBDA m, n : n + t[m], 0, LearntModels)

Picked(s) == CHOOSE x \in s : TRUE
Few(n) == {s \in SUBSET LearntModels : Cardinality(s) <= n}
Tallying(g, t, D) == g = [s \in D |-> IF s = {} THEN 0 ELSE g[s \ {Picked(s)}] + t[Picked(s)]]

\* A set of models and one without the model that is picked.
LEMMA OneLess ==
  ASSUME NEW s \in SUBSET LearntModels, NEW n \in Nat, Cardinality(s) <= n + 1, s # {}
  PROVE  /\ Picked(s) \in s /\ s \ {Picked(s)} \in SUBSET LearntModels
         /\ Cardinality(s \ {Picked(s)}) <= n
<1>1. Picked(s) \in s
  BY DEF Picked
<1>2. IsFiniteSet(s)
  BY ImprovementAssumption, FS_Subset
<1>3. Cardinality(s) \in Nat /\ Cardinality(s \ {Picked(s)}) = Cardinality(s) - 1
  BY <1>1, <1>2, FS_CardinalityType, FS_RemoveElement
<1> QED
  BY <1>1, <1>3

\* The only set without a member is the empty one.
LEMMA OnlyTheEmptyHasNone ==
  ASSUME NEW s \in SUBSET LearntModels, Cardinality(s) <= 0
  PROVE  s = {}
<1>1. IsFiniteSet(s)
  BY ImprovementAssumption, FS_Subset
<1> QED
  BY <1>1, FS_CardinalityType, FS_EmptySet

\* The function the sum is computed with exists.
LEMMA TallyingExists ==
  ASSUME NEW t
  PROVE  \E g : Tallying(g, t, SUBSET LearntModels)
<1> DEFINE T == {n \in Nat : \E g : Tallying(g, t, Few(n))}
<1>1. 0 \in T
  <2> DEFINE g == [s \in Few(0) |-> 0]
  <2>1. \A s \in Few(0) : s = {}
    BY OnlyTheEmptyHasNone DEF Few
  <2>2. [s \in Few(0) |-> 0] = [s \in Few(0) |-> IF s = {} THEN 0 ELSE g[s \ {Picked(s)}] + t[Picked(s)]]
    BY <2>1
  <2>3. g = [s \in Few(0) |-> 0]
    OBVIOUS
  <2> HIDE DEF g
  <2>4. Tallying(g, t, Few(0))
    BY <2>2, <2>3 DEF Tallying
  <2> QED
    BY <2>4
<1>2. ASSUME NEW n \in Nat, n \in T PROVE n + 1 \in T
  <2>1. PICK g : Tallying(g, t, Few(n))
    BY <1>2
  <2> DEFINE next(s) == IF s = {} THEN 0 ELSE g[s \ {Picked(s)}] + t[Picked(s)]
             h == [s \in Few(n + 1) |-> next(s)]
  <2>2. \A s \in Few(n) : g[s] = next(s)
    BY <2>1 DEF Tallying
  <2>3. \A s \in Few(n) : s \in Few(n + 1)
    <3>1. \A s \in SUBSET LearntModels : Cardinality(s) \in Nat
      BY ImprovementAssumption, FS_Subset, FS_CardinalityType
    <3> QED
      BY <3>1 DEF Few
  <2>4. \A s \in Few(n + 1) : s # {} => s \ {Picked(s)} \in Few(n)
    BY OneLess DEF Few
  <2>5. ASSUME NEW s \in Few(n + 1), s # {} PROVE h[s \ {Picked(s)}] = g[s \ {Picked(s)}]
    <3>1. s \ {Picked(s)} \in Few(n)
      BY <2>4, <2>5
    <3> HIDE DEF next
    <3> QED
      BY <2>2, <2>3, <3>1
  <2>6. \A s \in Few(n + 1) : h[s] = IF s = {} THEN 0 ELSE h[s \ {Picked(s)}] + t[Picked(s)]
    <3>1. \A s \in Few(n + 1) : h[s] = next(s)
      OBVIOUS
    <3> HIDE DEF h
    <3> QED
      BY <2>5, <3>1
  <2>7. h = [s \in Few(n + 1) |-> h[s]]
    OBVIOUS
  <2> HIDE DEF h
  <2>8. Tallying(h, t, Few(n + 1))
    BY <2>6, <2>7 DEF Tallying
  <2> QED
    BY <2>8
<1>3. Nat \subseteq T
  <2> HIDE DEF T
  <2> QED
    BY <1>1, <1>2, FKeep!SetInduction
<1>4. Cardinality(LearntModels) \in Nat /\ Few(Cardinality(LearntModels)) = SUBSET LearntModels
  <2>1. \A s \in SUBSET LearntModels : Cardinality(s) <= Cardinality(LearntModels)
    BY ImprovementAssumption, FS_Subset
  <2> QED
    BY <2>1, ImprovementAssumption, FS_CardinalityType DEF Few
<1> QED
  BY <1>3, <1>4

\* The sum is the value for all models.
LEMMA TallyIs ==
  ASSUME NEW t
  PROVE  \E g : Tally(t) = g[LearntModels] /\ Tallying(g, t, SUBSET LearntModels)
<1> DEFINE g == CHOOSE f : Tallying(f, t, SUBSET LearntModels)
<1>1. Tallying(g, t, SUBSET LearntModels)
  BY TallyingExists
<1>2. Tally(t) = g[LearntModels]
  BY DEF Tally, FoldSet, MapThenFoldSet, Tallying, Picked
<1> QED
  BY <1>1, <1>2

\* A model with one task more.
LEMMA TallyGrows ==
  ASSUME NEW t \in [LearntModels -> Nat], NEW a \in LearntModels
  PROVE  Tally(t) \in Nat /\ Tally([t EXCEPT ![a] = @ + 1]) = Tally(t) + 1
<1> DEFINE u == [t EXCEPT ![a] = @ + 1]
<1>0. \A m \in LearntModels : t[m] \in Nat /\ u[m] = t[m] + IF m = a THEN 1 ELSE 0
  OBVIOUS
<1> HIDE DEF u
<1>1. PICK g : Tally(t) = g[LearntModels] /\ Tallying(g, t, SUBSET LearntModels)
  BY TallyIs
<1>2. PICK h : Tally(u) = h[LearntModels] /\ Tallying(h, u, SUBSET LearntModels)
  BY TallyIs
<1>3. \A s \in SUBSET LearntModels : /\ g[s] = IF s = {} THEN 0 ELSE g[s \ {Picked(s)}] + t[Picked(s)]
                                     /\ h[s] = IF s = {} THEN 0 ELSE h[s \ {Picked(s)}] + u[Picked(s)]
  BY <1>1, <1>2 DEF Tallying
<1> DEFINE agree(s) == g[s] \in Nat /\ h[s] = g[s] + IF a \in s THEN 1 ELSE 0
           T == {n \in Nat : \A s \in Few(n) : agree(s)}
<1>4. 0 \in T
  <2>1. \A s \in Few(0) : s = {} /\ s \in SUBSET LearntModels
    BY OnlyTheEmptyHasNone DEF Few
  <2>2. agree({})
    BY <1>3
  <2> QED
    BY <2>1, <2>2
<1>5. ASSUME NEW n \in Nat, n \in T PROVE n + 1 \in T
  <2>1. SUFFICES ASSUME NEW s \in Few(n + 1) PROVE agree(s)
    OBVIOUS
  <2>2. CASE s = {}
    <3>1. g[s] = 0 /\ h[s] = 0
      BY <1>3, <2>2
    <3> QED
      BY <2>2, <3>1
  <2>3. CASE s # {}
    <3> DEFINE x == Picked(s)
               r == s \ {x}
    <3>1. s \in SUBSET LearntModels /\ x \in s /\ x \in LearntModels /\ r \in Few(n)
      BY <2>3, OneLess DEF Few
    <3>2. agree(r)
      BY <1>5, <3>1
    <3>3. g[s] = g[r] + t[x] /\ h[s] = h[r] + u[x]
      BY <1>3, <2>3, <3>1
    <3>4. t[x] \in Nat /\ u[x] = t[x] + IF x = a THEN 1 ELSE 0
      BY <1>0, <3>1
    <3>5. a \in s <=> (a \in r \/ x = a)
      BY <3>1
    <3>6. ~(a \in r /\ x = a)
      OBVIOUS
    <3> HIDE DEF x, r
    <3> QED
      BY <3>2, <3>3, <3>4, <3>5, <3>6
  <2> QED
    BY <2>2, <2>3
<1>6. Nat \subseteq T
  <2> HIDE DEF T
  <2> QED
    BY <1>4, <1>5, FKeep!SetInduction
<1>7. LearntModels \in Few(Cardinality(LearntModels)) /\ Cardinality(LearntModels) \in Nat
  BY ImprovementAssumption, FS_CardinalityType DEF Few
<1>8. agree(LearntModels)
  BY <1>6, <1>7
<1> QED
  BY <1>1, <1>2, <1>8 DEF u

\* No tasks at all.
LEMMA TallyOfNone == Tally([m \in LearntModels |-> 0]) = 0
<1> DEFINE t == [m \in LearntModels |-> 0]
<1>0. \A m \in LearntModels : t[m] = 0
  OBVIOUS
<1> HIDE DEF t
<1>1. PICK g : Tally(t) = g[LearntModels] /\ Tallying(g, t, SUBSET LearntModels)
  BY TallyIs
<1>2. \A s \in SUBSET LearntModels : g[s] = IF s = {} THEN 0 ELSE g[s \ {Picked(s)}] + t[Picked(s)]
  BY <1>1 DEF Tallying
<1> DEFINE T == {n \in Nat : \A s \in Few(n) : g[s] = 0}
<1>3. 0 \in T
  BY <1>2, OnlyTheEmptyHasNone DEF Few
<1>4. ASSUME NEW n \in Nat, n \in T PROVE n + 1 \in T
  <2>1. SUFFICES ASSUME NEW s \in Few(n + 1), s # {} PROVE g[s] = 0
    BY <1>2 DEF Few
  <2>2. s \in SUBSET LearntModels /\ Picked(s) \in LearntModels /\ s \ {Picked(s)} \in Few(n)
    BY <2>1, OneLess DEF Few
  <2>3. g[s \ {Picked(s)}] = 0 /\ t[Picked(s)] = 0
    BY <1>0, <1>4, <2>2
  <2>4. g[s] = g[s \ {Picked(s)}] + t[Picked(s)]
    BY <1>2, <2>1, <2>2
  <2> QED
    BY <2>3, <2>4
<1>5. Nat \subseteq T
  <2> HIDE DEF T
  <2> QED
    BY <1>3, <1>4, FKeep!SetInduction
<1>6. LearntModels \in Few(Cardinality(LearntModels)) /\ Cardinality(LearntModels) \in Nat
  BY ImprovementAssumption, FS_CardinalityType DEF Few
<1> QED
  BY <1>1, <1>5, <1>6 DEF t
-----------------------------------------------------------------------------
\* Self improvement: what is in the experience was counted.
MetaStates == [tasks : [LearntModels -> Nat], successes : [LearntModels -> Nat],
               total : Nat, improvements : Nat]
Lines == [session : LearntSessions, success : BOOLEAN, failed : BOOLEAN]
Handlings == [at : {"open"}] \union [at : {"started", "evaluated", "recorded"}, of : Sessions]

MetaAddsUp(v) ==
    /\ v \in MetaStates
    /\ v.total = Tally(v.tasks) /\ v.improvements <= v.total
    /\ \A m \in LearntModels : v.successes[m] <= v.tasks[m]
    /\ (\A m \in LearntModels : v.tasks[m] = 0) <=> v.total = 0

KeptLines == Only(experience, Lines)

CountedFirst ==
    /\ meta # Torn /\ ~relearnt => Len(KeptLines) <= meta.total
    /\ \A l \in Range(KeptLines) : ~l.failed => benchmarks[l.session] # Absent

FilesInv ==
    /\ meta = Torn \/ MetaAddsUp(meta)
    /\ benchmarks \in [LearntSessions -> {Absent, Torn} \union [success : BOOLEAN]]
    /\ experience \in Seq(Lines \union {Torn}) /\ Len(experience) <= MaxLines
    /\ relearnt \in BOOLEAN
    /\ CountedFirst

ImprovementInv ==
    /\ FilesInv
    /\ handling \in [LearntSessions -> Handlings]
    /\ tornWrites \in 0..MaxTornWrites

\* A torn record is none of the others.
LEMMA TornIsNone ==
  /\ \A v \in MetaStates : v # Torn
  /\ \A l \in Lines : l # Torn
  /\ Torn # Absent /\ \A b \in BOOLEAN : [success |-> b] # Absent
<1>1. DOMAIN Torn = {"torn"} /\ DOMAIN Absent = {"absent"}
  BY DEF Torn, Absent
<1>2. \A v \in MetaStates : "total" \in DOMAIN v
  BY DEF MetaStates
<1>3. \A l \in Lines : "session" \in DOMAIN l
  BY DEF Lines
<1>4. \A b \in BOOLEAN : DOMAIN [success |-> b] = {"success"}
  OBVIOUS
<1>5. "total" # "torn" /\ "session" # "torn" /\ "torn" # "absent" /\ "success" # "absent"
  OBVIOUS
<1> HIDE DEF Torn, Absent, MetaStates, Lines
<1>6. \A v \in MetaStates : v # Torn
  BY <1>1, <1>2, <1>5
<1>7. \A l \in Lines : l # Torn
  BY <1>1, <1>3, <1>5
<1>8. Torn # Absent
  BY <1>1, <1>5
<1>9. \A b \in BOOLEAN : [success |-> b] # Absent
  BY <1>1, <1>4, <1>5
<1> QED
  BY <1>6, <1>7, <1>8, <1>9

\* Meta-learning that starts anew adds up.
LEMMA NewMetaAddsUp == MetaAddsUp(NewMeta)
<1>1. Tally([m \in LearntModels |-> 0]) = 0
  BY TallyOfNone
<1>2. NewMeta.tasks = [m \in LearntModels |-> 0] /\ NewMeta.successes = [m \in LearntModels |-> 0]
      /\ NewMeta.total = 0 /\ NewMeta.improvements = 0 /\ NewMeta \in MetaStates
  BY DEF NewMeta, MetaStates
<1> QED
  BY <1>1, <1>2 DEF MetaAddsUp

\* What a session adds still adds up.
LEMMA LearntAddsUp ==
  ASSUME meta = Torn \/ MetaAddsUp(meta), NEW what \in Sessions
  PROVE  /\ MetaAddsUp(Learnt(what))
         /\ meta # Torn => Learnt(what).total = meta.total + 1
<1> DEFINE read == IF meta = Torn THEN NewMeta ELSE meta
           one(b) == IF b THEN 1 ELSE 0
           a == what.model
           n == one(what.success)
           k == one(Score(what) > 50)
           new == Learnt(what)
<1>1. MetaAddsUp(read) /\ (meta # Torn => read = meta)
  BY NewMetaAddsUp
<1>2. a \in LearntModels /\ n \in {0, 1} /\ k \in {0, 1}
  BY DEF Sessions
<1>3. new = [tasks |-> [read.tasks EXCEPT ![a] = @ + 1], successes |-> [read.successes EXCEPT ![a] = @ + n],
             total |-> read.total + 1, improvements |-> read.improvements + k]
  BY DEF Learnt
<1> HIDE DEF read, n, k, a, new
<1>4. /\ read.tasks \in [LearntModels -> Nat] /\ read.successes \in [LearntModels -> Nat]
      /\ read.total \in Nat /\ read.improvements \in Nat /\ read.improvements <= read.total
      /\ read.total = Tally(read.tasks) /\ \A m \in LearntModels : read.successes[m] <= read.tasks[m]
  BY <1>1 DEF MetaAddsUp, MetaStates
<1>5. /\ new.tasks = [read.tasks EXCEPT ![a] = @ + 1] /\ new.successes = [read.successes EXCEPT ![a] = @ + n]
      /\ new.total = read.total + 1 /\ new.improvements = read.improvements + k
  BY <1>3
<1>6. /\ new.tasks \in [LearntModels -> Nat] /\ new.successes \in [LearntModels -> Nat]
      /\ new.tasks[a] = read.tasks[a] + 1
      /\ \A m \in LearntModels : new.successes[m] <= new.tasks[m]
  BY <1>2, <1>4, <1>5
<1>7. new \in MetaStates
  <2>1. new.total \in Nat /\ new.improvements \in Nat
    BY <1>2, <1>4, <1>5
  <2>2. new = [tasks |-> new.tasks, successes |-> new.successes, total |-> new.total, improvements |-> new.improvements]
    BY <1>3, <1>5
  <2> QED
    BY <1>6, <2>1, <2>2 DEF MetaStates
<1>8. new.total = Tally(new.tasks)
  BY <1>2, <1>4, <1>5, TallyGrows
<1>9. new.improvements <= new.total /\ new.total # 0 /\ new.tasks[a] # 0
  BY <1>2, <1>4, <1>5, <1>6
<1>10. MetaAddsUp(new)
  BY <1>2, <1>6, <1>7, <1>8, <1>9 DEF MetaAddsUp
<1> QED
  BY <1>1, <1>5, <1>10 DEF new

\* A line that is appended is kept, unless one of the two is torn.
LEMMA AppendedIs ==
  ASSUME NEW lines \in Seq(Lines \union {Torn}), NEW line \in Lines \union {Torn}
  PROVE  /\ Appended(lines, line) \in Seq(Lines \union {Torn}) /\ Len(Appended(lines, line)) <= Len(lines) + 1
         /\ \/ Only(Appended(lines, line), Lines) = Only(lines, Lines)
            \/ line \in Lines /\ Only(Appended(lines, line), Lines) = Append(Only(lines, Lines), line)
<1> DEFINE E == Lines \union {Torn}
<1>1. Len(lines) \in Nat
  OBVIOUS
<1>2. CASE Appended(lines, line) = lines
  BY <1>1, <1>2
<1>3. CASE Appended(lines, line) = Append(lines, line)
  <2> HIDE DEF E
  <2>1. lines \in Seq(E) /\ line \in E
    BY DEF E
  <2>2. Append(lines, line) \in Seq(E) /\ Len(Append(lines, line)) = Len(lines) + 1
    BY <2>1
  <2>3. Only(Append(lines, line), Lines) = IF line \in Lines THEN Append(Only(lines, Lines), line) ELSE Only(lines, Lines)
    BY <2>1, OnlyAppend
  <2> QED
    BY <1>1, <1>3, <2>2, <2>3 DEF E
<1> QED
  BY <1>2, <1>3 DEF Appended

\* Writes of a session, whole or in part: the experience is the last of them.
LEMMA WrittenKeeps ==
  ASSUME FilesInv, Room, NEW s \in LearntSessions, handling[s].of \in Sessions,
         NEW done, NEW torn, Written(s, done, torn),
         "experience" \in done =>
             torn = {} /\ "meta" \in done /\ (~handling[s].of.failed => "benchmark" \in done)
  PROVE  FilesInv'
<1> DEFINE what == handling[s].of
           line == [session |-> s, success |-> what.success, failed |-> what.failed]
           E == Lines \union {Torn}
           new == Learnt(what)
           before == KeptLines
           after == KeptLines'
<1>1. what \in Sessions /\ line \in Lines /\ MaxLines \in Nat /\ what.success \in BOOLEAN
  BY ImprovementAssumption DEF Sessions, Lines
<1>2. /\ meta' = (IF "meta" \in torn THEN Torn ELSE IF "meta" \in done THEN new ELSE meta)
      /\ relearnt' = (relearnt \/ (meta = Torn /\ "meta" \in done))
      /\ benchmarks' = IF "benchmark" \in torn THEN [benchmarks EXCEPT ![s] = Torn]
                       ELSE IF "benchmark" \in done THEN [benchmarks EXCEPT ![s] = [success |-> what.success]]
                       ELSE benchmarks
      /\ experience' = IF "experience" \in torn THEN Appended(experience, Torn)
                       ELSE IF "experience" \in done THEN Appended(experience, line) ELSE experience
  BY DEF Written
<1>3. /\ meta = Torn \/ MetaAddsUp(meta)
      /\ benchmarks \in [LearntSessions -> {Absent, Torn} \union [success : BOOLEAN]]
      /\ experience \in Seq(E) /\ Len(experience) <= MaxLines /\ Len(experience) < MaxLines
      /\ relearnt \in BOOLEAN /\ CountedFirst
  BY DEF FilesInv, Room
<1>4. MetaAddsUp(new) /\ (meta # Torn => new.total = meta.total + 1)
  BY <1>1, <1>3, LearntAddsUp
<1> HIDE DEF new
<1>5. meta' = Torn \/ MetaAddsUp(meta')
  BY <1>2, <1>3, <1>4
<1>6. /\ benchmarks' \in [LearntSessions -> {Absent, Torn} \union [success : BOOLEAN]]
      /\ \A r \in LearntSessions : benchmarks[r] # Absent => benchmarks'[r] # Absent
      /\ "benchmark" \in done => benchmarks'[s] # Absent
  <2> DEFINE B == {Absent, Torn} \union [success : BOOLEAN]
             won == [success |-> what.success]
  <2>1. Torn \in B /\ won \in B /\ Torn # Absent /\ won # Absent
    BY <1>1, TornIsNone
  <2> HIDE DEF B, won
  <2>2. PICK b \in B : /\ b # Absent
                       /\ \/ benchmarks' = [benchmarks EXCEPT ![s] = b]
                          \/ benchmarks' = benchmarks /\ "benchmark" \notin done
    BY <1>2, <2>1 DEF won
  <2>3. benchmarks \in [LearntSessions -> B]
    BY <1>3 DEF B
  <2>4. benchmarks' \in [LearntSessions -> B]
    BY <2>2, <2>3
  <2>5. \A r \in LearntSessions : benchmarks[r] # Absent => benchmarks'[r] # Absent
    BY <2>2, <2>3
  <2>6. "benchmark" \in done => benchmarks'[s] # Absent
    BY <2>2, <2>3
  <2> QED
    BY <2>4, <2>5, <2>6 DEF B
<1> HIDE DEF line
<1>7. /\ experience' \in Seq(E) /\ Len(experience') <= MaxLines
      /\ \/ after = before
         \/ "experience" \in done /\ torn = {} /\ after = Append(before, line)
  <2>1. Len(experience) \in Nat
    BY <1>3
  <2>2. /\ Appended(experience, Torn) \in Seq(E) /\ Len(Appended(experience, Torn)) <= Len(experience) + 1
        /\ \/ Only(Appended(experience, Torn), Lines) = before
           \/ Torn \in Lines /\ Only(Appended(experience, Torn), Lines) = Append(before, Torn)
    BY <1>3, AppendedIs DEF KeptLines
  <2>3. /\ Appended(experience, line) \in Seq(E) /\ Len(Appended(experience, line)) <= Len(experience) + 1
        /\ \/ Only(Appended(experience, line), Lines) = before
           \/ Only(Appended(experience, line), Lines) = Append(before, line)
    BY <1>1, <1>3, AppendedIs DEF KeptLines
  <2>4. Torn \notin Lines
    BY TornIsNone
  <2>5. after = Only(experience', Lines)
    BY DEF KeptLines
  <2> HIDE DEF E, before, after
  <2>6. CASE "experience" \in torn
    <3>1. experience' = Appended(experience, Torn)
      BY <1>2, <2>6
    <3> QED
      BY <1>1, <1>3, <2>1, <2>2, <2>4, <2>5, <3>1
  <2>7. CASE "experience" \notin torn /\ "experience" \in done
    <3>1. experience' = Appended(experience, line) /\ torn = {}
      BY <1>2, <2>7
    <3> QED
      BY <1>1, <1>3, <2>1, <2>3, <2>5, <2>7, <3>1
  <2>8. CASE "experience" \notin torn /\ "experience" \notin done
    <3>1. experience' = experience
      BY <1>2, <2>8
    <3> QED
      BY <1>3, <2>5, <2>8, <3>1 DEF before, KeptLines
  <2> QED
    BY <2>6, <2>7, <2>8
<1>8. before \in Seq(Lines)
  <2>1. before \in Seq(E) /\ Range(before) = Range(experience) \intersect Lines
    BY <1>3, OnlySelects DEF KeptLines
  <2> QED
    BY <2>1 DEF Range
<1> HIDE DEF before, after, what
<1>9. ASSUME meta' # Torn, ~relearnt' PROVE Len(after) <= meta'.total
  <2>1. ~relearnt /\ ~(meta = Torn /\ "meta" \in done) /\ "meta" \notin torn
    BY <1>2, <1>9
  <2>2. meta # Torn /\ Len(before) <= meta.total
    BY <1>2, <1>3, <1>9, <2>1 DEF CountedFirst, before
  <2>3. Len(before) \in Nat /\ meta.total \in Nat
    BY <1>3, <1>8, <2>2 DEF MetaAddsUp, MetaStates
  <2>4. CASE after = before
    <3>1. meta'.total = meta.total \/ meta'.total = meta.total + 1
      BY <1>2, <1>4, <2>1, <2>2
    <3> QED
      BY <2>2, <2>3, <2>4, <3>1
  <2>5. CASE "experience" \in done /\ after = Append(before, line)
    <3>1. meta'.total = meta.total + 1
      BY <1>2, <1>4, <2>1, <2>2, <2>5
    <3>2. Len(after) = Len(before) + 1
      BY <1>1, <1>8, <2>5
    <3> QED
      BY <2>2, <2>3, <3>1, <3>2
  <2> QED
    BY <1>7, <2>4, <2>5
<1>10. ASSUME NEW l \in Range(after), ~l.failed PROVE benchmarks'[l.session] # Absent
  <2>1. \A r \in Range(before) : r \in Lines /\ r.session \in LearntSessions
    <3>1. \A r \in Lines : r.session \in LearntSessions
      BY DEF Lines
    <3> HIDE DEF Lines
    <3>2. Range(before) \subseteq Lines
      BY <1>8, RangeFacts
    <3> QED
      BY <3>1, <3>2
  <2>2. CASE l \in Range(before)
    <3>1. benchmarks[l.session] # Absent
      BY <1>3, <1>10, <2>2 DEF CountedFirst, before
    <3> QED
      BY <1>6, <2>1, <2>2, <3>1
  <2>3. CASE l \notin Range(before)
    <3>1. "experience" \in done /\ after = Append(before, line)
      BY <1>7, <1>10, <2>3
    <3>2. l = line
      BY <1>1, <1>8, <1>10, <2>3, <3>1, RangeFacts
    <3>3. l.session = s /\ l.failed = what.failed
      BY <3>2 DEF line
    <3> QED
      BY <1>6, <1>10, <3>1, <3>3 DEF what
  <2> QED
    BY <2>2, <2>3
<1>11. relearnt' \in BOOLEAN
  BY <1>2, <1>3
<1>12. CountedFirst'
  BY <1>9, <1>10 DEF CountedFirst, after
<1> QED
  BY <1>5, <1>6, <1>7, <1>11, <1>12 DEF FilesInv

\* The first state of the improvement has the invariant.
LEMMA ImprovementInitially == ImprovementInit => ImprovementInv
<1> SUFFICES ASSUME ImprovementInit PROVE ImprovementInv
  OBVIOUS
<1>1. meta = NewMeta /\ MetaAddsUp(meta) /\ meta.total = 0
  BY NewMetaAddsUp DEF ImprovementInit, NewMeta
<1>2. benchmarks \in [LearntSessions -> {Absent, Torn} \union [success : BOOLEAN]]
  BY DEF ImprovementInit
<1>3. handling \in [LearntSessions -> Handlings]
  BY DEF ImprovementInit, Handlings
<1>4. experience = <<>> /\ relearnt = FALSE /\ tornWrites = 0 /\ MaxLines \in Nat /\ MaxTornWrites \in Nat
  BY ImprovementAssumption DEF ImprovementInit
<1> HIDE DEF ImprovementInit
<1>5. experience \in Seq(Lines \union {Torn}) /\ Len(experience) <= MaxLines
  BY <1>4
<1>6. KeptLines \in Seq(Lines \union {Torn}) /\ Range(KeptLines) = Range(experience) \intersect Lines
  BY <1>5, OnlySelects DEF KeptLines
<1>7. Range(experience) = {}
  BY <1>4 DEF Range
<1>8. Range(KeptLines) = {} /\ Len(KeptLines) = 0
  BY <1>6, <1>7 DEF Range
<1>9. CountedFirst
  BY <1>1, <1>8 DEF CountedFirst
<1>10. tornWrites \in 0..MaxTornWrites /\ relearnt \in BOOLEAN
  <2>1. tornWrites \in 0..MaxTornWrites
    BY <1>4
  <2>2. relearnt \in BOOLEAN
    BY <1>4
  <2> QED
    BY <2>1, <2>2
<1>11. FilesInv
  BY <1>1, <1>2, <1>5, <1>9, <1>10 DEF FilesInv
<1> QED
  BY <1>3, <1>10, <1>11 DEF ImprovementInv

\* The writes of a session end with the experience.
LEMMA ExperienceIsLast ==
  ASSUME NEW what \in Sessions
  PROVE  /\ "experience" \in Range(Writes(what)) /\ "meta" \in Range(Writes(what))
         /\ ~what.failed => "benchmark" \in Range(Writes(what))
         /\ \A n \in 0..2 : n < Len(Writes(what)) => "experience" \notin Range(SubSeq(Writes(what), 1, n))
<1>1. CASE what.failed
  <2>1. Writes(what) = <<"meta", "experience">>
    BY <1>1 DEF Writes
  <2>2. \A n \in 0..2 : n < 2 => \A i \in 1..n : SubSeq(<<"meta", "experience">>, 1, n)[i] = "meta"
    OBVIOUS
  <2>3. \A n \in 0..2 : n < 2 => Len(SubSeq(<<"meta", "experience">>, 1, n)) = n
    OBVIOUS
  <2>4. <<"meta", "experience">>[1] = "meta" /\ <<"meta", "experience">>[2] = "experience"
        /\ DOMAIN <<"meta", "experience">> = 1..2
    OBVIOUS
  <2> QED
    BY <1>1, <2>1, <2>2, <2>3, <2>4 DEF Range
<1>2. CASE ~what.failed
  <2> DEFINE w == <<"meta", "benchmark", "experience">>
  <2>1. Writes(what) = w
    BY <1>2 DEF Writes
  <2>2. \A n \in 0..2 : n < 3 => \A i \in 1..n : SubSeq(w, 1, n)[i] \in {"meta", "benchmark"}
    OBVIOUS
  <2>3. \A n \in 0..2 : n < 3 => Len(SubSeq(w, 1, n)) = n
    OBVIOUS
  <2>4. w[1] = "meta" /\ w[2] = "benchmark" /\ w[3] = "experience" /\ DOMAIN w = 1..3 /\ Len(w) = 3
    OBVIOUS
  <2>5. \A n \in 0..2 : n < 3 => DOMAIN SubSeq(w, 1, n) = 1..n
    OBVIOUS
  <2> HIDE DEF w
  <2> QED
    BY <1>2, <2>1, <2>2, <2>3, <2>4, <2>5 DEF Range
<1> QED
  BY <1>1, <1>2

\* A session is recorded, or the process dies while it is.
LEMMA RecordKeeps ==
  ASSUME ImprovementInv, NEW s \in LearntSessions, RecordSession(s)
  PROVE  FilesInv'
<1>1. FilesInv /\ handling \in [LearntSessions -> Handlings] /\ handling[s].at = "evaluated" /\ Room
  BY DEF ImprovementInv, RecordSession
<1>2. handling[s].of \in Sessions
  BY <1>1 DEF Handlings
<1>3. Written(s, Range(Writes(handling[s].of)), {})
  BY DEF RecordSession
<1> HIDE DEF ImprovementInv, RecordSession
<1> QED
  BY <1>1, <1>2, <1>3, ExperienceIsLast, WrittenKeeps

\* A process that dies between two writes, or in one, has not written the experience.
LEMMA CrashKeeps ==
  ASSUME ImprovementInv, ImprovementCrash
  PROVE  FilesInv' /\ tornWrites' \in 0..MaxTornWrites
<1>1. FilesInv /\ handling \in [LearntSessions -> Handlings] /\ tornWrites \in 0..MaxTornWrites
      /\ MaxTornWrites \in Nat
  BY ImprovementAssumption DEF ImprovementInv
<1>2. CASE UNCHANGED <<meta, benchmarks, experience, tornWrites, relearnt>>
  BY <1>1, <1>2 DEF FilesInv, CountedFirst, KeptLines
<1>3. CASE ~UNCHANGED <<meta, benchmarks, experience, tornWrites, relearnt>>
  <2>1. PICK s \in LearntSessions, n \in 0..2, in \in BOOLEAN :
             /\ handling[s].at = "evaluated" /\ Room
             /\ n < Len(Writes(handling[s].of)) /\ (in => tornWrites < MaxTornWrites)
             /\ LET writes == Writes(handling[s].of) IN
                Written(s, Range(SubSeq(writes, 1, n)), IF in THEN {writes[n + 1]} ELSE {})
             /\ tornWrites' = tornWrites + (IF in THEN 1 ELSE 0)
    BY <1>3 DEF ImprovementCrash
  <2> DEFINE writes == Writes(handling[s].of)
             done == Range(SubSeq(writes, 1, n))
             torn == IF in THEN {writes[n + 1]} ELSE {}
  <2>2. handling[s].of \in Sessions
    BY <1>1, <2>1 DEF Handlings
  <2>3. "experience" \notin done /\ Written(s, done, torn)
    BY <2>1, <2>2, ExperienceIsLast
  <2>4. tornWrites' \in 0..MaxTornWrites
    BY <1>1, <2>1
  <2> HIDE DEF done, torn, writes
  <2>5. FilesInv'
    BY <1>1, <2>1, <2>2, <2>3, WrittenKeeps
  <2> QED
    BY <2>4, <2>5
<1> QED
  BY <1>2, <1>3

\* Every step of the improvement keeps the invariant.
LEMMA ImprovementStep == ImprovementInv /\ [ImprovementNext]_improvementVars => ImprovementInv'
<1> SUFFICES ASSUME ImprovementInv, [ImprovementNext]_improvementVars PROVE ImprovementInv'
  OBVIOUS
<1>0. FilesInv /\ handling \in [LearntSessions -> Handlings] /\ tornWrites \in 0..MaxTornWrites
  BY DEF ImprovementInv
<1>a. ASSUME UNCHANGED <<meta, benchmarks, experience, tornWrites, relearnt>>
      PROVE  FilesInv' /\ tornWrites' \in 0..MaxTornWrites
  BY <1>0, <1>a DEF FilesInv, CountedFirst, KeptLines
<1>1. CASE UNCHANGED improvementVars
  BY <1>0, <1>1, <1>a DEF improvementVars, ImprovementInv
<1>2. ASSUME NEW s \in LearntSessions, NEW what \in Endings \intersect Ended, SessionEnds(s, what)
      PROVE  ImprovementInv'
  <2>1. what \in Sessions /\ [at |-> IF what.failed THEN "evaluated" ELSE "started", of |-> what] \in Handlings
    BY <1>2 DEF Ended, Handlings
  <2>2. handling' \in [LearntSessions -> Handlings]
    BY <1>0, <1>2, <2>1 DEF SessionEnds
  <2> QED
    BY <1>2, <1>a, <2>2 DEF SessionEnds, ImprovementInv
<1>3. ASSUME NEW s \in LearntSessions, Evaluated(s) PROVE ImprovementInv'
  <2>1. handling[s] \in [at : {"started", "evaluated", "recorded"}, of : Sessions]
    BY <1>0, <1>3 DEF Evaluated, Handlings
  <2>2. [handling[s] EXCEPT !.at = "evaluated"] \in Handlings
    BY <2>1 DEF Handlings
  <2>3. handling' \in [LearntSessions -> Handlings]
    BY <1>0, <1>3, <2>2 DEF Evaluated
  <2> QED
    BY <1>3, <1>a, <2>3 DEF Evaluated, ImprovementInv
<1>4. ASSUME NEW s \in LearntSessions, TickFails(s) \/ SessionLearnt(s) PROVE ImprovementInv'
  <2>1. handling' = [handling EXCEPT ![s] = [at |-> "open"]] /\ [at |-> "open"] \in Handlings
        /\ UNCHANGED <<meta, benchmarks, experience, tornWrites, relearnt>>
    BY <1>4 DEF TickFails, SessionLearnt, Handlings
  <2>2. handling' \in [LearntSessions -> Handlings]
    BY <1>0, <2>1
  <2> QED
    BY <2>1, <1>a, <2>2 DEF ImprovementInv
<1>5. ASSUME NEW s \in LearntSessions, RecordSession(s) PROVE ImprovementInv'
  <2>1. handling[s] \in [at : {"started", "evaluated", "recorded"}, of : Sessions]
    BY <1>0, <1>5 DEF RecordSession, Handlings
  <2>2. [handling[s] EXCEPT !.at = "recorded"] \in Handlings
    BY <2>1 DEF Handlings
  <2>3. handling' \in [LearntSessions -> Handlings] /\ tornWrites' = tornWrites
    BY <1>0, <1>5, <2>2 DEF RecordSession
  <2>4. FilesInv'
    BY <1>5, RecordKeeps
  <2> QED
    BY <1>0, <2>3, <2>4 DEF ImprovementInv
<1>6. ASSUME ImprovementCrash PROVE ImprovementInv'
  <2>1. handling' \in [LearntSessions -> Handlings]
    BY <1>6 DEF ImprovementCrash, Handlings
  <2>2. FilesInv' /\ tornWrites' \in 0..MaxTornWrites
    BY <1>6, CrashKeeps
  <2> QED
    BY <2>1, <2>2 DEF ImprovementInv
<1> QED
  BY <1>1, <1>2, <1>3, <1>4, <1>5, <1>6 DEF ImprovementNext

\* What is read of a list is in it.
LEMMA FirstOfAreIn ==
  ASSUME NEW A, NEW q \in Seq(A), NEW k \in Nat
  PROVE  LET head == SubSeq(q, 1, IF Len(q) < k THEN Len(q) ELSE k) IN
         head \in Seq(A) /\ Range(head) \subseteq Range(q)
<1> DEFINE n == IF Len(q) < k THEN Len(q) ELSE k
           head == SubSeq(q, 1, n)
<1>1. n \in 0..Len(q) /\ Len(q) \in Nat
  OBVIOUS
<1> HIDE DEF n
<1>2. Len(head) = n /\ \A i \in 1..n : head[i] = q[i]
  BY <1>1
<1>3. head \in Seq(A)
  BY <1>1
<1>4. DOMAIN head = 1..n /\ DOMAIN q = 1..Len(q)
  BY <1>2, <1>3
<1> HIDE DEF head
<1>5. Range(head) \subseteq Range(q)
  BY <1>1, <1>2, <1>4 DEF Range
<1> QED
  BY <1>3, <1>5 DEF head, n

\* What the invariant says of the improvement to a reader.
LEMMA ImprovementIsTyped == ImprovementInv => ImprovementTypeOK /\ ExperienceIsCounted
<1> SUFFICES ASSUME ImprovementInv PROVE ImprovementTypeOK /\ ExperienceIsCounted
  OBVIOUS
<1> DEFINE E == Lines \union {Torn}
           lines == Readable(experience)
<1>0. /\ meta = Torn \/ MetaAddsUp(meta)
      /\ experience \in Seq(E) /\ Len(experience) <= MaxLines /\ CountedFirst
      /\ handling \in [LearntSessions -> Handlings] /\ tornWrites \in 0..MaxTornWrites
  BY DEF ImprovementInv, FilesInv
<1>1. lines = KeptLines
  <2>1. Range(experience) \subseteq E
    BY <1>0, RangeFacts
  <2>2. Range(experience) \intersect (Range(experience) \ {Torn}) = Range(experience) \intersect Lines
    BY <2>1, TornIsNone
  <2>3. experience \in Seq(E)
    BY <1>0
  <2> HIDE DEF E
  <2>4. Only(experience, Range(experience) \ {Torn}) = Only(experience, Lines)
    <3>1. \A i \in 1..Len(experience) :
             experience[i] \in Range(experience) \ {Torn} <=> experience[i] \in Lines
      <4>1. \A i \in 1..Len(experience) : experience[i] \in Range(experience)
        BY <2>3 DEF Range
      <4> QED
        BY <2>2, <4>1
    <3> QED
      BY <2>3, <3>1, OnlyOfRange
  <2> QED
    BY <2>4 DEF Readable, KeptLines
<1>2. ExperienceIsCounted
  BY <1>0, <1>1 DEF ExperienceIsCounted, CountedFirst
<1>3. meta # Torn => /\ meta.total = FoldSet(LAMBDA m, n : n + meta.tasks[m], 0, LearntModels)
                     /\ \A m \in LearntModels : meta.successes[m] <= meta.tasks[m]
                     /\ meta.improvements <= meta.total
  BY <1>0 DEF MetaAddsUp, Tally
<1>4. meta # Torn => (Rankings = {}) = (meta.total = 0)
  <2>1. SUFFICES ASSUME meta # Torn PROVE (Rankings = {}) <=> (meta.total = 0)
    BY DEF Rankings
  <2>2. \A m \in LearntModels : meta.tasks[m] \in Nat
    BY <1>0, <2>1 DEF MetaAddsUp, MetaStates
  <2>3. Rankings = {} <=> \A m \in LearntModels : meta.tasks[m] = 0
    BY <2>1, <2>2 DEF Rankings
  <2> QED
    BY <1>0, <2>1, <2>3 DEF MetaAddsUp
<1>5. \A s \in LearntSessions : handling[s].at \in {"open", "started", "evaluated", "recorded"}
  BY <1>0 DEF Handlings
<1>6. ASSUME NEW success \in BOOLEAN, NEW k \in 1..2
      PROVE  Range(QueryExperience(success, k)) \subseteq Range(GetExperience(2 * k))
  <2> DEFINE loaded == GetExperience(2 * k)
             wanted == {l \in Range(loaded) : l.success = success}
             found == Only(loaded, wanted)
  <2>1. lines \in Seq(E)
    <3> HIDE DEF E
    <3> QED
      BY <1>0, <1>1, OnlySelects DEF KeptLines
  <2>2. 2 * k \in Nat /\ k \in Nat
    OBVIOUS
  <2> DEFINE j == 2 * k
  <2> HIDE DEF E, j
  <2>3. SubSeq(lines, 1, IF Len(lines) < j THEN Len(lines) ELSE j) \in Seq(E)
    BY <2>1, <2>2, FirstOfAreIn DEF j
  <2>4. loaded = SubSeq(lines, 1, IF Len(lines) < j THEN Len(lines) ELSE j)
    BY DEF GetExperience, j
  <2>5. loaded \in Seq(E)
    BY <2>3, <2>4
  <2>6. QueryExperience(success, k) = SubSeq(found, 1, IF Len(found) < k THEN Len(found) ELSE k)
    BY DEF QueryExperience
  <2> HIDE DEF loaded, wanted
  <2>7. found \in Seq(E) /\ Range(found) \subseteq Range(loaded)
    BY <2>5, OnlySelects
  <2> HIDE DEF found
  <2>8. Range(QueryExperience(success, k)) \subseteq Range(found)
    BY <2>2, <2>6, <2>7, FirstOfAreIn
  <2> QED
    BY <2>7, <2>8 DEF loaded
<1>7. ImprovementTypeOK
  BY <1>0, <1>3, <1>4, <1>5, <1>6 DEF ImprovementTypeOK
<1> QED
  BY <1>2, <1>7

-------------------------------------------------------------------------------
\* Self modification: what reads "rolled_back" is restored.
FileContents == Requests \union {"original", "broken", NoFile}
RequestStates == [form : Forms, target : Targets, plan : [original : FileContents \union {"none", "lacking"}],
                  status : {"pending", "completed", "failed", "rolled_back"}]

\* How a request may end whose file held "from" before and "content" after.
Ends(r, from, ending, content) ==
    /\ ending = "rolled_back" =>
          /\ r.plan # NoPlan
          /\ IF WritesBack(r) THEN content = r.plan.original ELSE content \in {from, "broken"}
    /\ ending = "failed" => r.plan = NoPlan \/ WritesBack(r)

ModificationInv ==
    /\ DOMAIN requests \subseteq Requests /\ requests \in [DOMAIN requests -> RequestStates]
    /\ contents \in [Targets -> FileContents]
    /\ completed \subseteq Requests

\* The first state of the modifier has the invariant.
LEMMA ModificationInitially == ModificationInit => ModificationInv
<1> SUFFICES ASSUME ModificationInit PROVE ModificationInv
  OBVIOUS
<1>1. DOMAIN << >> = {} /\ << >> \in [{} -> RequestStates]
  OBVIOUS
<1>2. contents \in [Targets -> {"original", NoFile}]
  BY DEF ModificationInit
<1>3. {"original", NoFile} \subseteq FileContents
  BY DEF FileContents
<1>4. contents \in [Targets -> FileContents]
  BY <1>2, <1>3
<1> QED
  BY <1>1, <1>4 DEF ModificationInit, ModificationInv

\* What a write that failed is followed by.
LEMMA RollbackIs ==
  ASSUME NEW r \in RequestStates, NEW from \in FileContents, NEW content \in {from, "broken"},
         NEW outcome \in WriteOutcomes
  PROVE  LET undone == RolledBack(r, content, outcome) IN
         /\ undone.status \in {"failed", "rolled_back"} /\ undone.content \in FileContents
         /\ Ends(r, from, undone.status, undone.content)
<1> DEFINE undone == RolledBack(r, content, outcome)
<1>1. r.plan \in [original : FileContents \union {"none", "lacking"}]
  BY DEF RequestStates
<1>2. r.plan \notin {NoPlan, Lacking} => r.plan.original \in FileContents
  <2>1. r.plan = [original |-> r.plan.original] /\ r.plan.original \in FileContents \union {"none", "lacking"}
    BY <1>1
  <2> QED
    BY <2>1 DEF NoPlan, Lacking
<1>3. "broken" \in FileContents
  BY DEF FileContents
<1>4. undone.status = (IF r.plan = NoPlan \/ (WritesBack(r) /\ outcome # "written") THEN "failed" ELSE "rolled_back")
      /\ undone.content = (IF WritesBack(r) THEN AfterWrite(r.plan.original, outcome, content) ELSE content)
  BY DEF RolledBack
<1> HIDE DEF undone
<1> SUFFICES undone.status \in {"failed", "rolled_back"} /\ undone.content \in FileContents
             /\ Ends(r, from, undone.status, undone.content)
  BY DEF undone
<1>5. CASE WritesBack(r)
  <2>1. r.plan # NoPlan /\ r.plan.original \in FileContents
    BY <1>2, <1>5 DEF WritesBack
  <2>2. outcome = "written" => AfterWrite(r.plan.original, outcome, content) = r.plan.original
    BY DEF AfterWrite
  <2>3. AfterWrite(r.plan.original, outcome, content) \in FileContents
    BY <1>3, <2>1 DEF AfterWrite
  <2> QED
    BY <1>4, <1>5, <2>1, <2>2, <2>3 DEF Ends
<1>6. CASE ~WritesBack(r)
  BY <1>3, <1>4, <1>6 DEF Ends
<1> QED
  BY <1>5, <1>6

\* A request that is carried out.
LEMMA ExecutionRestores ==
  ASSUME ModificationInv, NEW id \in Requests, NEW outcome, Execute(id, outcome)
  PROVE  /\ ModificationInv' /\ DOMAIN requests' = DOMAIN requests
         /\ \A i \in DOMAIN requests :
               LET r == requests'[i] IN
               r.status # requests[i].status => Ends(r, contents[r.target], r.status, contents'[r.target])
<1> DEFINE r == requests[id]
           did == Modified(r, id, outcome)
<1>1. id \in DOMAIN requests /\ r \in RequestStates /\ requests \in [DOMAIN requests -> RequestStates]
      /\ contents \in [Targets -> FileContents] /\ completed \subseteq Requests /\ DOMAIN requests \subseteq Requests
  BY DEF Execute, Stored, ModificationInv
<1>2. r.target \in Targets /\ contents[r.target] \in FileContents
  BY <1>1 DEF RequestStates
<1>3. did.content \in FileContents /\ (did.fails => did.content \in {contents[r.target], "broken"})
  <2>1. id \in FileContents /\ "broken" \in FileContents
    BY DEF FileContents
  <2> QED
    BY <1>2, <2>1 DEF Modified, AfterWrite
<1>4. PICK end, content :
          /\ end \in {"completed", "failed", "rolled_back"} /\ content \in FileContents
          /\ Ends(r, contents[r.target], end, content)
          /\ requests' = [requests EXCEPT ![id].status = end]
          /\ contents' = [contents EXCEPT ![r.target] = content]
          /\ completed' \subseteq completed \union {id}
  <2>1. CASE did.fails
    <3>1. PICK rollback \in WriteOutcomes :
              /\ requests' = [requests EXCEPT ![id].status = RolledBack(r, did.content, rollback).status]
              /\ contents' = [contents EXCEPT ![r.target] = RolledBack(r, did.content, rollback).content]
              /\ completed' = completed
      BY <2>1 DEF Execute
    <3> DEFINE undone == RolledBack(r, did.content, rollback)
               from == contents[r.target]
    <3>0. from \in FileContents /\ did.content \in {from, "broken"}
      BY <1>2, <1>3, <2>1
    <3> HIDE DEF did, r
    <3>2. /\ undone.status \in {"failed", "rolled_back"} /\ undone.content \in FileContents
          /\ Ends(r, from, undone.status, undone.content)
      <4> HIDE DEF from
      <4> QED
        BY <1>1, <3>0, RollbackIs
    <3> QED
      BY <3>1, <3>2
  <2>2. CASE ~did.fails
    <3>1. /\ requests' = [requests EXCEPT ![id].status = "completed"]
          /\ contents' = [contents EXCEPT ![r.target] = did.content]
          /\ completed' = completed \union {id}
      BY <2>2 DEF Execute
    <3> HIDE DEF did, r
    <3>2. Ends(r, contents[r.target], "completed", did.content)
      BY DEF Ends
    <3> QED
      BY <1>3, <3>1, <3>2
  <2> QED
    BY <2>1, <2>2
<1> DEFINE new == [r EXCEPT !.status = end]
<1>5. /\ new \in RequestStates /\ new.form = r.form /\ new.target = r.target /\ new.plan = r.plan
      /\ new.status = end
  BY <1>1, <1>4 DEF RequestStates
<1>6. requests' = [requests EXCEPT ![id] = new]
  BY <1>4
<1> HIDE DEF did, new
<1>7. /\ DOMAIN requests' = DOMAIN requests /\ requests' \in [DOMAIN requests -> RequestStates]
      /\ requests'[id] = new /\ \A i \in DOMAIN requests : i # id => requests'[i] = requests[i]
  <2> HIDE DEF r
  <2> QED
    BY <1>1, <1>5, <1>6
<1>8. contents' \in [Targets -> FileContents] /\ contents'[r.target] = content
  <2> HIDE DEF r
  <2> QED
    BY <1>1, <1>2, <1>4
<1>9. completed' \subseteq Requests
  BY <1>1, <1>4
<1>10. ModificationInv'
  BY <1>1, <1>7, <1>8, <1>9 DEF ModificationInv
<1> HIDE DEF r
<1>11. ASSUME NEW i \in DOMAIN requests, requests'[i].status # requests[i].status
       PROVE  Ends(requests'[i], contents[requests'[i].target], requests'[i].status, contents'[requests'[i].target])
  <2>1. i = id
    BY <1>7, <1>11
  <2>2. requests'[i] = new /\ contents'[new.target] = content
    BY <1>5, <1>7, <1>8, <2>1
  <2>3. Ends(new, contents[new.target], end, content)
    BY <1>4, <1>5 DEF Ends, WritesBack
  <2> QED
    BY <1>5, <2>2, <2>3
<1> QED
  BY <1>7, <1>10, <1>11

\* A request is submitted: it is pending, whatever it was before.
LEMMA SubmitKeeps ==
  ASSUME ModificationInv, NEW id \in Requests, NEW risk, NEW form \in Forms, NEW target \in Targets,
         NEW plan \in {NoPlan, Lacking, [original |-> contents[target]], [original |-> "original"]},
         Submit(id, risk, form, target, plan)
  PROVE  /\ ModificationInv'
         /\ \A i \in DOMAIN requests : i # id => requests'[i] = requests[i]
         /\ requests'[id].status = "pending"
<1> DEFINE new == [form |-> form, target |-> target, plan |-> plan, status |-> "pending"]
           D == DOMAIN requests \union {id}
<1>0. requests \in [DOMAIN requests -> RequestStates] /\ DOMAIN requests \subseteq Requests
      /\ contents \in [Targets -> FileContents]
  BY DEF ModificationInv
<1>1. new \in RequestStates /\ new.status = "pending"
  <2>1. contents[target] \in FileContents /\ "original" \in FileContents
    BY <1>0 DEF FileContents
  <2>2. plan \in [original : FileContents \union {"none", "lacking"}]
    BY <2>1 DEF NoPlan, Lacking
  <2> QED
    BY <2>2 DEF RequestStates
<1>2. requests' = [i \in D |-> IF i = id THEN new ELSE requests[i]] /\ UNCHANGED <<contents, completed>>
  BY DEF Submit
<1> HIDE DEF new
<1>3. DOMAIN requests' = D /\ requests' \in [D -> RequestStates] /\ requests'[id] = new
      /\ \A i \in DOMAIN requests : i # id => requests'[i] = requests[i]
  BY <1>0, <1>1, <1>2
<1>4. D \subseteq Requests
  BY <1>0
<1> HIDE DEF D
<1>5. ModificationInv'
  BY <1>2, <1>3, <1>4 DEF ModificationInv
<1> QED
  BY <1>1, <1>3, <1>5

\* A modifier of another root knows no request.
LEMMA OtherRootKeeps ==
  ASSUME ModificationInv, OtherRoot
  PROVE  ModificationInv' /\ DOMAIN requests' = {}
<1>1. requests' = << >> /\ completed' = {} /\ contents' = contents
  BY DEF OtherRoot
<1>2. DOMAIN << >> = {} /\ << >> \in [{} -> RequestStates]
  OBVIOUS
<1> QED
  BY <1>1, <1>2 DEF ModificationInv

\* Every step of the modifier keeps the invariant.
LEMMA ModificationStep == ModificationInv /\ [ModificationNext]_modificationVars => ModificationInv'
<1> SUFFICES ASSUME ModificationInv, [ModificationNext]_modificationVars PROVE ModificationInv'
  OBVIOUS
<1>1. ASSUME NEW id \in Requests, NEW risk, NEW form \in Forms, NEW target \in Targets,
             NEW plan \in {NoPlan, Lacking, [original |-> contents[target]], [original |-> "original"]},
             Submit(id, risk, form, target, plan)
      PROVE  ModificationInv'
  BY <1>1, SubmitKeeps
<1>2. ASSUME NEW id \in Requests, NEW outcome, Execute(id, outcome) PROVE ModificationInv'
  BY <1>2, ExecutionRestores
<1>3. ASSUME NEW target \in Targets, NEW content \in {"original", NoFile}, Edited(target, content) PROVE ModificationInv'
  <2>1. content \in FileContents
    BY DEF FileContents
  <2>2. contents' = [contents EXCEPT ![target] = content] /\ UNCHANGED <<requests, completed>>
    BY <1>3 DEF Edited
  <2> QED
    BY <2>1, <2>2 DEF ModificationInv
<1>4. ASSUME NEW passing, RunSelfTests(passing) PROVE ModificationInv'
  BY <1>4 DEF RunSelfTests, ModificationInv
<1>5. ASSUME OtherRoot PROVE ModificationInv'
  BY <1>5, OtherRootKeeps
<1>6. ASSUME UNCHANGED modificationVars PROVE ModificationInv'
  BY <1>6 DEF modificationVars, ModificationInv
<1> QED
  BY <1>1, <1>2, <1>3, <1>4, <1>5, <1>6 DEF ModificationNext

\* What the invariant says of the modifier to a reader.
LEMMA ModificationIsTyped == ModificationInv => ModificationTypeOK
<1> SUFFICES ASSUME ModificationInv PROVE ModificationTypeOK
  OBVIOUS
<1>1. \A id \in DOMAIN requests : requests[id] \in RequestStates
  BY DEF ModificationInv
<1> QED
  BY <1>1 DEF ModificationInv, ModificationTypeOK, RequestStates, FileContents

\* What a step that ends a request leaves behind.
Restored ==
    \A id \in Requests \intersect DOMAIN requests \intersect DOMAIN requests' :
        LET r == requests'[id]
            becomes(ending) == r.status = ending /\ requests[id].status # ending
        IN
        /\ becomes("rolled_back") =>
              /\ r.plan # NoPlan
              /\ IF WritesBack(r) THEN contents'[r.target] = r.plan.original
                 ELSE contents'[r.target] \in {contents[r.target], "broken"}
        /\ becomes("failed") => r.plan = NoPlan \/ WritesBack(r)

\* A request that becomes "rolled_back" left its target as its plan says.
LEMMA RollbackStep == ModificationInv /\ [ModificationNext]_modificationVars => Restored
<1> SUFFICES ASSUME ModificationInv, [ModificationNext]_modificationVars,
                    NEW i \in Requests \intersect DOMAIN requests \intersect DOMAIN requests',
                    requests'[i].status \in {"rolled_back", "failed"}, requests'[i].status # requests[i].status
             PROVE  Ends(requests'[i], contents[requests'[i].target], requests'[i].status, contents'[requests'[i].target])
  BY DEF Restored, Ends
<1>0. requests' # requests
  OBVIOUS
<1>1. ASSUME NEW id \in Requests, NEW risk, NEW form \in Forms, NEW target \in Targets,
             NEW plan \in {NoPlan, Lacking, [original |-> contents[target]], [original |-> "original"]},
             Submit(id, risk, form, target, plan)
      PROVE  FALSE
  BY <1>1, SubmitKeeps
<1>2. ASSUME NEW id \in Requests, NEW outcome, Execute(id, outcome)
      PROVE  Ends(requests'[i], contents[requests'[i].target], requests'[i].status, contents'[requests'[i].target])
  BY <1>2, ExecutionRestores
<1>3. ASSUME OtherRoot PROVE FALSE
  BY <1>3, OtherRootKeeps
<1> QED
  BY <1>0, <1>1, <1>2, <1>3 DEF ModificationNext, Edited, RunSelfTests, modificationVars

-------------------------------------------------------------------------------
\* Compaction: nothing falls out between the summaries and what is kept.

Grow(p, n, m) == n + m.size
FGrow == INSTANCE FoldFacts WITH Op <- Grow

\* What comes before a message, as the fold the facts are about.
LEMMA BeforeIsFold == \A past, i : Before(past, i) = FGrow!Fold(0, 0, SubSeq(past, 1, i - 1))
  BY DEF Before, Grow, FGrow!Fold, FGrow!FoldLeft, FoldLeft, FGrow!MapThenFoldSet, MapThenFoldSet,
         FGrow!Max, Max

\* The tokens of a history are a number.
LEMMA TokensAreCounted ==
  ASSUME NEW past \in Seq(Messages)
  PROVE  Total(past) \in Nat
<1> DEFINE n == Len(past)
           head == SubSeq(past, 1, n)
<1>1. head \in Seq(Messages) /\ n \in Nat
  BY SubSeqProperties
<1>2. \A m \in Messages : m.size \in Nat
  BY CompactionAssumption DEF Messages
<1>3. Total(past) = FGrow!Fold(0, 0, head)
  <2>1. Total(past) = FGrow!Fold(0, 0, SubSeq(past, 1, n + 1 - 1))
    BY BeforeIsFold DEF Total
  <2>2. n + 1 - 1 = n
    BY <1>1
  <2> QED
    BY <2>1, <2>2
<1> HIDE DEF head
<1>4. \A v \in Nat, m \in Messages : Grow(0, v, m) \in Nat
  BY <1>2 DEF Grow
<1>5. FGrow!Fold(0, 0, head) \in Nat
  BY <1>1, <1>4, FGrow!FoldInvariant
<1> QED
  BY <1>3, <1>5

-----------------------------------------------------------------------------
\* Runs of one role.
Role(past, i) == past[i].role

\* What it is to be a run.
LEMMA RunIs ==
  ASSUME NEW past, NEW end \in Nat, NEW r \in Runs(past, end)
  PROVE  /\ r[1] \in 1..end /\ r[2] \in 1..end /\ r = <<r[1], r[2]>> /\ r[1] <= r[2]
         /\ \A i \in r[1]..r[2] : Role(past, i) = Role(past, r[1])
         /\ r[1] = 1 \/ Role(past, r[1] - 1) # Role(past, r[1])
         /\ r[2] = end \/ Role(past, r[2] + 1) # Role(past, r[1])
  BY DEF Runs, Role

\* Two runs are apart, or one.
LEMMA RunsAreApart ==
  ASSUME NEW past, NEW end \in Nat, NEW r \in Runs(past, end), NEW q \in Runs(past, end),
         r[1] <= q[1]
  PROVE  r[2] < q[1] \/ r = q
<1> DEFINE role(i) == Role(past, i)
           a == r[1]
           b == r[2]
           c == q[1]
           d == q[2]
<1>1. /\ a \in 1..end /\ b \in 1..end /\ r = <<a, b>> /\ a <= b
      /\ \A i \in a..b : role(i) = role(a)
      /\ b = end \/ role(b + 1) # role(a)
  BY RunIs
<1>2. /\ c \in 1..end /\ d \in 1..end /\ q = <<c, d>> /\ c <= d
      /\ \A i \in c..d : role(i) = role(c)
      /\ c = 1 \/ role(c - 1) # role(c)
      /\ d = end \/ role(d + 1) # role(c)
  BY RunIs
<1> SUFFICES ASSUME ~(b < c) PROVE r = q
  OBVIOUS
<1> HIDE DEF role, a, b, c, d
<1>3. a = c
  <2>1. SUFFICES ASSUME a # c PROVE FALSE
    OBVIOUS
  <2>2. a <= c
    BY DEF a, c
  <2>3. c \in a..b /\ c - 1 \in a..b /\ c # 1
    BY <1>1, <1>2, <2>1, <2>2
  <2> QED
    BY <1>1, <1>2, <2>3
<1>4. b = d
  <2>1. SUFFICES ASSUME b # d PROVE FALSE
    OBVIOUS
  <2>2. CASE b < d
    <3>1. b + 1 \in c..d /\ b # end
      BY <1>1, <1>2, <1>3, <2>2
    <3> QED
      BY <1>1, <1>2, <1>3, <3>1
  <2>3. CASE d < b
    <3>1. d + 1 \in a..b /\ d # end
      BY <1>1, <1>2, <1>3, <2>3
    <3> QED
      BY <1>1, <1>2, <1>3, <3>1
  <2> QED
    BY <1>1, <1>2, <2>1, <2>2, <2>3
<1> QED
  BY <1>1, <1>2, <1>3, <1>4

\* The last run is of the last of its role.
LEMMA LastRunIsAGroup ==
  ASSUME NEW past, NEW end \in Nat \ {0}
  PROVE  \E r \in Groups(past, end) : r[2] = end
<1> DEFINE role(i) == past[i].role
           T == {k \in 1..end : \A i \in k..end : role(i) = role(end)}
<1>1. end \in T
  OBVIOUS
<1>2. PICK a \in T : \A k \in T : a <= k
  <2>1. T \subseteq Nat /\ T # {}
    BY <1>1
  <2> HIDE DEF T
  <2> QED
    BY <2>1, FKeep!LeastNatural
<1>3. a \in 1..end /\ \A i \in a..end : role(i) = role(end)
  OBVIOUS
<1>4. a = 1 \/ role(a - 1) # role(end)
  <2>1. SUFFICES ASSUME a # 1, role(a - 1) = role(end) PROVE FALSE
    OBVIOUS
  <2>2. a - 1 \in 1..end /\ \A i \in (a - 1)..end : i = a - 1 \/ i \in a..end
    BY <1>3, <2>1
  <2>3. a - 1 \in T
    <3> HIDE DEF role
    <3> QED
      BY <1>3, <2>1, <2>2
  <2>4. a <= a - 1
    BY <1>2, <2>3
  <2> QED
    BY <1>3, <2>4
<1> HIDE DEF T
<1>5. role(a) = role(end)
  BY <1>3
<1>6. <<a, end>> \in Runs(past, end)
  <2>1. <<a, end>> \in (1..end) \X (1..end) /\ a <= end
    BY <1>3
  <2>2. \A i \in a..end : role(i) = role(a)
    BY <1>3, <1>5
  <2>3. a = 1 \/ role(a - 1) # role(a)
    BY <1>4, <1>5
  <2> QED
    BY <2>1, <2>2, <2>3 DEF Runs
<1>7. ASSUME NEW later \in Runs(past, end), later[1] > a, role(later[1]) = role(a) PROVE FALSE
  <2>1. later[1] \in 1..end /\ (later[1] = 1 \/ role(later[1] - 1) # role(later[1]))
    BY RunIs DEF Role
  <2>2. later[1] - 1 \in a..end /\ later[1] # 1
    BY <1>3, <1>7, <2>1
  <2> QED
    BY <1>3, <1>5, <1>7, <2>1, <2>2
<1>8. <<a, end>> \in Groups(past, end)
  BY <1>6, <1>7 DEF Groups
<1> QED
  BY <1>8

\* What the summaries tell of the history they are of.
Joined(s, first) ==
    /\ Max({x.to : x \in s}) + 1 = first
    /\ \A x, y \in s : x # y => x.to < y.from \/ y.to < x.from

\* The summaries of what is before the cut leave no gap and do not overlap.
LEMMA SummariesJoin ==
  ASSUME NEW past, NEW end \in Nat \ {0}
  PROVE  Joined(Summaries(past, end), end + 1)
<1> DEFINE s == Summaries(past, end)
           made(r) == [from |-> r[1], to |-> r[2]]
           ends == {x.to : x \in s}
<1>1. s = {made(r) : r \in Groups(past, end)} /\ Groups(past, end) \subseteq Runs(past, end)
  BY DEF Summaries, Groups
<1>2. \A r : made(r).from = r[1] /\ made(r).to = r[2]
  OBVIOUS
<1> HIDE DEF s, made
<1>3. end \in ends
  <2>1. PICK r \in Groups(past, end) : r[2] = end
    BY LastRunIsAGroup
  <2>2. made(r) \in s /\ made(r).to = end
    BY <1>1, <1>2, <2>1
  <2> QED
    BY <2>2
<1>4. ends \subseteq 0..end
  <2>1. \A r \in Groups(past, end) : r[2] \in 1..end
    BY <1>1, RunIs
  <2> QED
    BY <1>1, <1>2, <2>1
<1> HIDE DEF ends
<1>5. Max(ends) = end
  <2>1. Max(ends) \in ends /\ Max(ends) >= end
    BY <1>3, <1>4, LargestOfBounded
  <2>2. Max(ends) \in 0..end
    BY <1>4, <2>1
  <2> QED
    BY <2>1, <2>2
<1>6. ASSUME NEW x \in s, NEW y \in s, x # y PROVE x.to < y.from \/ y.to < x.from
  <2>1. PICK r \in Groups(past, end), q \in Groups(past, end) : x = made(r) /\ y = made(q)
    BY <1>1
  <2>2. r # q /\ r \in Runs(past, end) /\ q \in Runs(past, end)
    BY <1>1, <1>6, <2>1
  <2>3. r[1] \in 1..end /\ q[1] \in 1..end
    BY <2>2, RunIs
  <2>4. r[2] < q[1] \/ q[2] < r[1]
    BY <2>2, <2>3, RunsAreApart
  <2> QED
    BY <1>2, <2>1, <2>4
<1> QED
  BY <1>5, <1>6 DEF Joined, ends, s

-----------------------------------------------------------------------------
SnapshotSet == [compaction_needed : BOOLEAN,
                status : {"critical", "compress", "checkpoint", "warning", "healthy"}]

CompactionInv ==
    /\ messages \in Seq(Messages) /\ used \in Nat
    /\ snapshots \in Seq(SnapshotSet) /\ Len(snapshots) <= MaxResults
    /\ tiers.recent \intersect tiers.summary = {}
    /\ compactions \in 0..MaxResults /\ cache \subseteq {Text(m) : m \in Messages}
    /\ result.relevant \subseteq 1..Len(messages)
    /\ NoGapAtTheCut

\* The first state of the compaction has the invariant.
LEMMA CompactionInitially == CompactionInit => CompactionInv
<1> SUFFICES ASSUME CompactionInit PROVE CompactionInv
  OBVIOUS
<1>1. MaxResults \in Nat
  BY CompactionAssumption
<1>2. <<>> \in Seq(Messages) /\ <<>> \in Seq(SnapshotSet) /\ Len(<<>>) = 0
  OBVIOUS
<1>3. NoResult.summaries = {} /\ NoResult.relevant = {} /\ NoTiers.recent = {}
  BY DEF NoResult, NoTiers
<1> QED
  BY <1>1, <1>2, <1>3 DEF CompactionInit, CompactionInv, NoGapAtTheCut

\* A result that was forgotten has no gap.
LEMMA ForgottenHasNoGap ==
  ASSUME result' = NoResult
  PROVE  NoGapAtTheCut' /\ result'.relevant = {}
  BY DEF NoResult, NoGapAtTheCut

\* The first event that is kept.
LEMMA CutIs ==
  ASSUME NEW past \in Seq(Messages), Cut(past) # 1
  PROVE  Cut(past) \in 2..Len(past)
<1> DEFINE n == Len(past)
           C == {i \in 1..n : Before(past, i) < RecentTokens}
           S == {1} \union C
<1>1. n + 1 \in Nat /\ S \subseteq 0..(n + 1) /\ S # {} /\ Cut(past) = Max(S)
  BY DEF Cut
<1>2. C \subseteq 1..n /\ (1 \in S /\ \A i \in S : i = 1 \/ i \in C)
  OBVIOUS
<1> HIDE DEF n, C, S
<1>3. Max(S) \in S
  BY <1>1, LargestOfBounded
<1>4. Max(S) \in 1..n /\ Max(S) # 1
  BY <1>1, <1>2, <1>3
<1>5. n \in Nat
  BY DEF n
<1>6. Max(S) \in 2..n
  BY <1>4, <1>5
<1> QED
  BY <1>1, <1>6 DEF n

\* What compress returns joins.
LEMMA CompressJoins ==
  ASSUME messages \in Seq(Messages), Compress
  PROVE  NoGapAtTheCut' /\ result'.relevant = {}
<1> DEFINE n == Len(messages)
           from == Cut(messages)
           stops == CannotBeSummed(messages, from - 1)
<1>1. result' = Compressed(messages, MaxTokens) /\ messages' = messages /\ n \in Nat
  BY DEF Compress
<1>2. CASE Total(messages) <= MaxTokens \/ from = 1 \/ stops
  <2>1. result'.summaries = {} /\ result'.relevant = {}
    BY <1>1, <1>2 DEF Compressed, Trimmed, NoResult
  <2> QED
    BY <2>1 DEF NoGapAtTheCut
<1>3. CASE ~(Total(messages) <= MaxTokens) /\ from # 1 /\ ~stops
  <2> DEFINE s == Summaries(messages, from - 1)
             kept == Span(from, n)
  <2>1. result' = [NoResult EXCEPT !.kept = kept, !.summaries = s]
    BY <1>1, <1>3 DEF Compressed
  <2>2. from \in 2..n
    BY <1>3, CutIs
  <2> HIDE DEF from, n
  <2>3. Joined(s, from)
    <3>1. from - 1 \in Nat \ {0} /\ from - 1 + 1 = from
      BY <2>2
    <3> QED
      BY <3>1, SummariesJoin
  <2>4. kept[1] = from /\ Last(kept) = n
    <3>1. n - from + 1 \in Nat /\ n - from + 1 >= 1 /\ n \in Nat /\ from \in Nat
      BY <1>1, <2>2
    <3>2. kept = [i \in 1..(n - from + 1) |-> from + i - 1]
      BY DEF Span
    <3>3. Len(kept) = n - from + 1
      BY <3>1, <3>2
    <3> QED
      BY <3>1, <3>2, <3>3 DEF Last
  <2> HIDE DEF kept, s
  <2>5. result'.kept = kept /\ result'.summaries = s /\ result'.relevant = {}
    BY <2>1 DEF NoResult
  <2>6. NoGapAtTheCut'
    BY <1>1, <2>3, <2>4, <2>5 DEF NoGapAtTheCut, Joined, n
  <2> QED
    BY <2>5, <2>6
<1> QED
  BY <1>2, <1>3

\* A vector stands for a message.
LEMMA RelevantIsThere ==
  ASSUME CompactionInv, NEW queryUp, NEW down, SemanticCompress(queryUp, down)
  PROVE  CompactionInv'
<1> DEFINE n == Len(messages)
           embedded == IF queryUp THEN {i \in 1..n : Text(messages[i]) \in cache \/ i \notin down} ELSE {}
           vectors == Only(Span(1, n), embedded)
           scores == [v \in 1..Len(vectors) |-> IF messages[vectors[v]].matters THEN 1 ELSE 0]
           found == IF embedded = {} THEN 1..n ELSE MostRelevant(scores, TopK)
<1>1. /\ result' = [NoResult EXCEPT !.relevant = found]
      /\ cache' = cache \union {Text(messages[i]) : i \in embedded}
      /\ UNCHANGED <<messages, used, snapshots, tiers, compactions>>
  BY DEF SemanticCompress
<1>2. n \in Nat /\ messages \in Seq(Messages) /\ embedded \subseteq 1..n
  BY DEF CompactionInv
<1> HIDE DEF embedded
<1>3. Len(vectors) \in Nat /\ Len(vectors) <= n
  <2>1. Span(1, n) \in Seq(Int) /\ Len(Span(1, n)) = n
    <3>1. Span(1, n) = [i \in 1..n |-> 1 + i - 1]
      <4>1. n - 1 + 1 = n
        BY <1>2
      <4> QED
        BY <4>1 DEF Span
    <3> QED
      BY <1>2, <3>1
  <2>2. Only(Span(1, n), embedded) \in Seq(Int) /\ Len(Only(Span(1, n), embedded)) <= Len(Span(1, n))
    BY <2>1, OnlyIsShorter
  <2> QED
    BY <2>1, <2>2
<1> HIDE DEF vectors
<1>4. Len(scores) = Len(vectors)
  BY <1>3
<1> HIDE DEF scores, n
<1>5. found \subseteq 1..n
  BY <1>2, <1>3, <1>4 DEF MostRelevant
<1> HIDE DEF found
<1>6. result'.relevant = found /\ result'.summaries = {}
  BY <1>1 DEF NoResult
<1>7. NoGapAtTheCut'
  BY <1>6 DEF NoGapAtTheCut
<1>8. cache' \subseteq {Text(m) : m \in Messages}
  <2>1. \A i \in embedded : messages[i] \in Messages
    BY <1>2 DEF n
  <2> QED
    BY <1>1, <2>1 DEF CompactionInv
<1> QED
  BY <1>1, <1>5, <1>6, <1>7, <1>8 DEF CompactionInv, n

\* Every step of the compaction keeps the invariant.
LEMMA CompactionStep == CompactionInv /\ [CompactionNext]_compactionVars => CompactionInv'
<1> SUFFICES ASSUME CompactionInv, [CompactionNext]_compactionVars PROVE CompactionInv'
  OBVIOUS
<1>0. MaxResults \in Nat /\ messages \in Seq(Messages)
  BY CompactionAssumption DEF CompactionInv
<1>1. ASSUME NEW m \in Messages, AddMessage(m) PROVE CompactionInv'
  <2>1. messages' \in Seq(Messages)
    <3> HIDE DEF Messages
    <3> QED
      BY <1>0, <1>1 DEF AddMessage
  <2>2. NoGapAtTheCut' /\ result'.relevant = {}
    BY <1>1, ForgottenHasNoGap DEF AddMessage
  <2> QED
    BY <1>1, <2>1, <2>2 DEF AddMessage, CompactionInv
<1>2. ASSUME RecordUsage PROVE CompactionInv'
  <2>1. used' \in Nat
    BY <1>0, <1>2, TokensAreCounted DEF RecordUsage
  <2>2. NoGapAtTheCut' /\ result'.relevant = {}
    BY <1>2, ForgottenHasNoGap DEF RecordUsage
  <2> QED
    BY <1>2, <2>1, <2>2 DEF RecordUsage, CompactionInv
<1>3. ASSUME GetSnapshot PROVE CompactionInv'
  <2> DEFINE new == [compaction_needed |-> ShouldCompact, status |-> UsageStatus]
  <2>1. new \in SnapshotSet
    BY DEF SnapshotSet, ShouldCompact, UsageStatus
  <2>2. /\ Len(snapshots) < MaxResults /\ snapshots' = Append(snapshots, new) /\ result' = NoResult
        /\ UNCHANGED <<messages, used, tiers, compactions, cache>>
    BY <1>3 DEF GetSnapshot
  <2> HIDE DEF new, SnapshotSet
  <2>3. snapshots' \in Seq(SnapshotSet) /\ Len(snapshots') <= MaxResults
    BY <1>0, <2>1, <2>2 DEF CompactionInv
  <2>4. NoGapAtTheCut' /\ result'.relevant = {}
    BY <2>2, ForgottenHasNoGap
  <2> QED
    BY <2>2, <2>3, <2>4 DEF CompactionInv
<1>4. ASSUME Compress PROVE CompactionInv'
  <2>1. NoGapAtTheCut' /\ result'.relevant = {}
    BY <1>0, <1>4, CompressJoins
  <2> QED
    BY <1>4, <2>1 DEF Compress, CompactionInv
<1>5. ASSUME CompactContext PROVE CompactionInv'
  <2> DEFINE n == Len(messages)
             older == 1..(n - RecentCount)
             of(role) == {i \in older : messages[i].role = role}
  <2>1. /\ compactions < MaxResults /\ compactions' = compactions + 1 /\ result' = NoResult
        /\ tiers'.recent = {i \in 1..n : i > n - RecentCount}
        /\ tiers'.summary = FirstOf(of("user"), PerKind) \union FirstOf(of("assistant"), PerKind)
        /\ UNCHANGED <<messages, used, snapshots, cache>>
    BY <1>5 DEF CompactContext
  <2>2. tiers'.summary \subseteq older
    BY <2>1 DEF FirstOf
  <2>3. n \in Nat /\ RecentCount \in Nat
    BY <1>0, CompactionAssumption
  <2>4. tiers'.recent \intersect tiers'.summary = {}
    <3>1. ASSUME NEW i \in tiers'.recent, i \in tiers'.summary PROVE FALSE
      <4>1. i \in 1..n /\ i > n - RecentCount /\ i \in 1..(n - RecentCount)
        BY <2>1, <2>2, <3>1
      <4> HIDE DEF n
      <4> QED
        BY <2>3, <4>1
    <3> QED
      BY <3>1
  <2>5. compactions' \in 0..MaxResults
    BY <1>0, <2>1 DEF CompactionInv
  <2>6. NoGapAtTheCut' /\ result'.relevant = {}
    BY <2>1, ForgottenHasNoGap
  <2> QED
    BY <2>1, <2>4, <2>5, <2>6 DEF CompactionInv
<1>6. ASSUME NEW queryUp, NEW down, SemanticCompress(queryUp, down) PROVE CompactionInv'
  BY <1>6, RelevantIsThere
<1>7. ASSUME UNCHANGED compactionVars PROVE CompactionInv'
  BY <1>7 DEF compactionVars, CompactionInv, NoGapAtTheCut
<1> QED
  BY <1>1, <1>2, <1>3, <1>4, <1>5, <1>6, <1>7 DEF CompactionNext

\* What the invariant says of the compaction to a reader.
LEMMA CompactionIsTyped == CompactionInv => CompactionTypeOK /\ NoGapAtTheCut
<1> SUFFICES ASSUME CompactionInv PROVE CompactionTypeOK
  BY DEF CompactionInv
<1>1. Range(messages) \subseteq Messages
  BY RangeFacts DEF CompactionInv
<1> QED
  BY <1>1 DEF CompactionInv, CompactionTypeOK

-------------------------------------------------------------------------------
\* Constraints: what an update loses is recorded.
MetricSet == {<<"context_tokens", TokensOf[c]>> : c \in Contexts}
             \union {<<"constraint_count", Cardinality(S)>> : S \in SUBSET Constraints}
DriftSet == [type : {"constraint_loss", "context_overflow", "repetition"}, lost : SUBSET Constraints]

ConstraintInv ==
    /\ constraints \subseteq Constraints /\ shown.constraints \subseteq constraints
    /\ curated.critical \subseteq Critical /\ curated.optional \subseteq Optional
    /\ metrics \in Seq(MetricSet) /\ Len(metrics) <= KeptMetrics
    /\ drifts \in Seq(DriftSet)

\* The first state of the constraints has the invariant.
LEMMA ConstraintInitially == ConstraintInit => ConstraintInv
<1> SUFFICES ASSUME ConstraintInit PROVE ConstraintInv
  OBVIOUS
<1>1. KeptMetrics \in Nat
  BY ConstraintAssumption
<1>2. <<>> \in Seq(MetricSet) /\ <<>> \in Seq(DriftSet) /\ Len(<<>>) = 0
  OBVIOUS
<1> QED
  BY <1>1, <1>2 DEF ConstraintInit, ConstraintInv, NotShown

\* Newest keeps the last ones.
LEMMA NewestFit ==
  ASSUME NEW E, NEW s \in Seq(E), NEW n \in Nat
  PROVE  Newest(s, n) \in Seq(E) /\ Len(Newest(s, n)) <= n
<1> DEFINE first == IF Len(s) > n THEN Len(s) - n + 1 ELSE 1
<1>1. Len(s) \in Nat
  OBVIOUS
<1>2. first \in 1..(Len(s) + 1) /\ Len(s) - first + 1 <= n
  BY <1>1
<1>3. Newest(s, n) = SubSeq(s, first, Len(s))
  BY DEF Newest
<1> HIDE DEF first
<1>4. SubSeq(s, first, Len(s)) \in Seq(E) /\ Len(SubSeq(s, first, Len(s))) = Len(s) - first + 1
  BY <1>1, <1>2, SubSeqProperties
<1> QED
  BY <1>2, <1>3, <1>4

\* What an update finds.
LEMMA FoundIs ==
  ASSUME constraints \subseteq Constraints, NEW new \in SUBSET Constraints
  PROVE  /\ Found(new) \in Seq(DriftSet)
         /\ new # {} /\ constraints \ new # {} =>
               \E d \in DriftSet : Found(new) = <<d>> /\ d.lost = constraints \ new
<1> DEFINE loss == [type |-> "constraint_loss", lost |-> constraints \ new]
           overflow == [type |-> "context_overflow", lost |-> {}]
           repeat == [type |-> "repetition", lost |-> {}]
<1>1. loss \in DriftSet /\ overflow \in DriftSet /\ repeat \in DriftSet /\ loss.lost = constraints \ new
  BY DEF DriftSet
<1>2. Drift(new, constraints) \in {<<loss>>, <<overflow>>, <<repeat>>, <<>>}
      /\ (constraints \ new # {} => Drift(new, constraints) = <<loss>>)
  BY DEF Drift
<1> HIDE DEF loss, overflow, repeat
<1>3. <<loss>> \in Seq(DriftSet) /\ <<overflow>> \in Seq(DriftSet) /\ <<repeat>> \in Seq(DriftSet) /\ <<>> \in Seq(DriftSet)
  BY <1>1
<1>4. Found(new) \in Seq(DriftSet)
  BY <1>2, <1>3 DEF Found
<1>5. new # {} /\ constraints \ new # {} => Found(new) = <<loss>>
  BY <1>2 DEF Found
<1> QED
  BY <1>1, <1>4, <1>5

\* An update keeps the types, and records what it loses.
LEMMA UpdateRecords ==
  ASSUME ConstraintInv, NEW newContext \in Contexts, NEW new \in SUBSET Constraints, UpdateContext(newContext, new)
  PROVE  /\ ConstraintInv'
         /\ constraints \ constraints' # {} => drifts' # drifts /\ Last(drifts').lost = constraints \ constraints'
<1> DEFINE kept == IF new = {} THEN constraints ELSE new
           a == <<"context_tokens", TokensOf[newContext]>>
           b == <<"constraint_count", Cardinality(kept)>>
<1>1. /\ drifts' = drifts \o Found(new) /\ constraints' = kept /\ shown' = NotShown /\ curated' = curated
      /\ metrics' = Newest(metrics \o <<a, b>>, KeptMetrics)
  BY DEF UpdateContext
<1>2. constraints \subseteq Constraints /\ drifts \in Seq(DriftSet) /\ metrics \in Seq(MetricSet) /\ KeptMetrics \in Nat
  BY ConstraintAssumption DEF ConstraintInv
<1>3. kept \subseteq Constraints
  BY <1>2
<1>4. a \in MetricSet /\ b \in MetricSet
  BY <1>3 DEF MetricSet
<1> HIDE DEF a, b
<1>5. metrics' \in Seq(MetricSet) /\ Len(metrics') <= KeptMetrics
  <2>1. <<a, b>> \in Seq(MetricSet)
    BY <1>4
  <2>2. metrics \o <<a, b>> \in Seq(MetricSet)
    BY <1>2, <2>1
  <2> QED
    BY <1>1, <1>2, <2>2, NewestFit
<1>6. drifts' \in Seq(DriftSet)
  BY <1>1, <1>2, FoundIs
<1>7. ConstraintInv'
  BY <1>1, <1>3, <1>5, <1>6 DEF ConstraintInv, NotShown
<1>8. ASSUME constraints \ constraints' # {}
      PROVE  drifts' # drifts /\ Last(drifts').lost = constraints \ constraints'
  <2>1. new # {} /\ constraints' = new
    BY <1>1, <1>8
  <2>2. PICK d \in DriftSet : Found(new) = <<d>> /\ d.lost = constraints \ new
    BY <1>2, <1>8, <2>1, FoundIs
  <2>3. drifts' = drifts \o <<d>>
    BY <1>1, <2>2
  <2>4. Len(drifts') = Len(drifts) + 1 /\ drifts'[Len(drifts) + 1] = d /\ Len(drifts) \in Nat
    BY <1>2, <2>3
  <2>5. drifts' # drifts
    BY <2>4
  <2>6. Last(drifts') = d
    BY <2>4 DEF Last
  <2> QED
    BY <2>1, <2>2, <2>5, <2>6
<1> QED
  BY <1>7, <1>8

\* What is shown is of the session.
LEMMA ShownIsOfTheSession ==
  ASSUME ConstraintInv, NEW ranking \in SetToAllKPermutations(Constraints), GetCuratedContext(ranking)
  PROVE  ConstraintInv'
<1> DEFINE critical == constraints \intersect curated.critical
           optional == constraints \ critical
           taken(i) == critical \union {ranking[j] : j \in 1..i}
           fits == {i \in 1..Len(ranking) : \A j \in 1..i : 10 * Tokens(taken(j - 1)) < 7 * MaxContext}
           n == Max({0} \union fits)
<1>1. /\ Range(ranking) = optional /\ shown'.constraints = taken(n)
      /\ UNCHANGED <<constraints, context, curated, metrics, drifts>>
  BY DEF GetCuratedContext
<1>2. Len(ranking) \in Nat /\ DOMAIN ranking = 1..Len(ranking)
  <2>1. PICK s \in SUBSET Constraints : ranking \in SetToSeqs(s)
    BY DEF SetToAllKPermutations
  <2>2. ranking \in [1..Cardinality(s) -> s]
    BY <2>1 DEF SetToSeqs
  <2>3. Cardinality(s) \in Nat
    BY ConstraintAssumption, FS_Subset, FS_CardinalityType DEF Constraints
  <2> QED
    BY <2>2, <2>3
<1>3. n \in 0..Len(ranking)
  <2> DEFINE S == {0} \union fits
  <2>1. S \subseteq 0..Len(ranking) /\ S # {}
    BY <1>2
  <2> HIDE DEF S
  <2>2. Max(S) \in S
    BY <1>2, <2>1, LargestOfBounded
  <2> QED
    BY <2>1, <2>2 DEF S
<1> HIDE DEF n, fits
<1>4. taken(n) \subseteq constraints
  <2>1. \A j \in 1..n : ranking[j] \in optional
    BY <1>1, <1>2, <1>3 DEF Range
  <2> QED
    BY <2>1
<1> QED
  BY <1>1, <1>4 DEF ConstraintInv

\* Every step of the constraints keeps the invariant.
LEMMA ConstraintStep == ConstraintInv /\ [ConstraintNext]_constraintVars => ConstraintInv'
<1> SUFFICES ASSUME ConstraintInv, [ConstraintNext]_constraintVars PROVE ConstraintInv'
  OBVIOUS
<1>1. ASSUME NEW initial \in SUBSET Constraints, StartSession(initial) PROVE ConstraintInv'
  BY <1>1 DEF StartSession, ConstraintInv, NotShown, Constraints
<1>2. ASSUME NEW newContext \in Contexts, NEW new \in SUBSET Constraints, UpdateContext(newContext, new)
      PROVE  ConstraintInv'
  BY <1>2, UpdateRecords
<1>3. ASSUME NEW ranking \in SetToAllKPermutations(Constraints), GetCuratedContext(ranking) PROVE ConstraintInv'
  BY <1>3, ShownIsOfTheSession
<1>4. ASSUME UNCHANGED constraintVars PROVE ConstraintInv'
  BY <1>4 DEF constraintVars, ConstraintInv
<1> QED
  BY <1>1, <1>2, <1>3, <1>4 DEF ConstraintNext

\* What the invariant says of the constraints to a reader.
LEMMA ConstraintIsTyped == ConstraintInv => ConstraintTypeOK
<1>1. ConstraintHealth \in {"healthy", "warning", "critical"}
  BY DEF ConstraintHealth
<1> QED
  BY <1>1 DEF ConstraintInv, ConstraintTypeOK

\* An update that loses constraints records them.
LEMMA LossStep ==
  ASSUME ConstraintInv, [ConstraintNext]_constraintVars, context' # "none", constraints \ constraints' # {}
  PROVE  drifts' # drifts /\ Last(drifts').lost = constraints \ constraints'
<1>1. PICK newContext \in Contexts, new \in SUBSET Constraints : UpdateContext(newContext, new)
  BY DEF ConstraintNext, StartSession, GetCuratedContext, constraintVars
<1> QED
  BY <1>1, UpdateRecords

-------------------------------------------------------------------------------
\* The sum of the parts.

CareInv ==
    /\ part \in {"recovery", "repair", "immune", "thermal", "metabolism", "improvement",
                 "modification", "compaction", "constraints"}
    /\ RecInv /\ RepairInv /\ ImmuneInv /\ ThermalInv /\ MetabolismInv
    /\ ImprovementInv /\ ModificationInv /\ CompactionInv /\ ConstraintInv

\* Every part starts in its invariant.
LEMMA CareInitially == Init => CareInv
<1> SUFFICES ASSUME Init PROVE CareInv
  OBVIOUS
<1>1. RecInv /\ RepairInv /\ ImmuneInv
  BY RecInitially, RepairInitially, ImmuneInitially DEF Init
<1>2. ThermalInv /\ MetabolismInv /\ ImprovementInv
  BY ThermalInitially, MetabolismInitially, ImprovementInitially DEF Init
<1>3. ModificationInv /\ CompactionInv /\ ConstraintInv
  BY ModificationInitially, CompactionInitially, ConstraintInitially DEF Init
<1>4. part \in {"recovery", "repair", "immune", "thermal", "metabolism", "improvement",
                "modification", "compaction", "constraints"}
  BY DEF Init
<1> QED
  BY <1>1, <1>2, <1>3, <1>4 DEF CareInv

\* A step of the sum is, for every part, a step of it or none.
LEMMA PartsMove ==
  ASSUME [Next]_careVars
  PROVE  /\ part' = part
         /\ [RecNext]_recVars /\ [RepairNext]_repairVars /\ [ImmuneNext]_immuneVars
         /\ [ThermalNext]_thermalVars /\ [MetabolismNext]_metabolismVars
         /\ [ImprovementNext]_improvementVars /\ [ModificationNext]_modificationVars
         /\ [CompactionNext]_compactionVars /\ [ConstraintNext]_constraintVars
<1>1. CASE RecPart
  BY <1>1 DEF RecPart
<1>2. CASE RepairPart
  BY <1>2 DEF RepairPart
<1>3. CASE ImmunePart
  BY <1>3 DEF ImmunePart
<1>4. CASE ThermalPart
  BY <1>4 DEF ThermalPart
<1>5. CASE MetabolismPart
  BY <1>5 DEF MetabolismPart
<1>6. CASE ImprovementPart
  BY <1>6 DEF ImprovementPart
<1>7. CASE ModificationPart
  BY <1>7 DEF ModificationPart
<1>8. CASE CompactionPart
  BY <1>8 DEF CompactionPart
<1>9. CASE ConstraintPart
  BY <1>9 DEF ConstraintPart
<1>10. CASE UNCHANGED careVars
  BY <1>10 DEF careVars
<1> QED
  BY <1>1, <1>2, <1>3, <1>4, <1>5, <1>6, <1>7, <1>8, <1>9, <1>10 DEF Next

\* Every step of the sum keeps the invariant.
LEMMA CareStep == CareInv /\ [Next]_careVars => CareInv'
<1> SUFFICES ASSUME CareInv, [Next]_careVars PROVE CareInv'
  OBVIOUS
<1> USE PartsMove DEF CareInv
<1>1. RecInv' /\ RepairInv' /\ ImmuneInv'
  BY RecStep, RepairStep, ImmuneStep
<1>2. ThermalInv' /\ MetabolismInv' /\ ImprovementInv'
  BY ThermalStep, MetabolismStep, ImprovementStep
<1>3. ModificationInv' /\ CompactionInv' /\ ConstraintInv'
  BY ModificationStep, CompactionStep, ConstraintStep
<1> QED
  BY <1>1, <1>2, <1>3

\* Every part keeps its inductive invariant, in every behaviour.
THEOREM PartsKeepInvariants == Spec => []CareInv
  BY CareInitially, CareStep, PTL DEF Spec

\* Every part keeps its types and bounds.
THEOREM CareIsTyped == Spec => []CareTypeOK
<1>1. CareInv => CareTypeOK
  <2> SUFFICES ASSUME CareInv PROVE CareTypeOK
    OBVIOUS
  <2>1. RecTypeOK /\ RepairTypeOK /\ ImmuneTypeOK
    BY RecIsTyped, ImmuneIsTyped DEF CareInv, RepairInv
  <2>2. ThermalTypeOK /\ MetabolismTypeOK /\ ImprovementTypeOK
    BY ThermalIsTyped, MetabolismIsTyped, ImprovementIsTyped DEF CareInv
  <2>3. ModificationTypeOK /\ CompactionTypeOK /\ ConstraintTypeOK
    BY ModificationIsTyped, CompactionIsTyped, ConstraintIsTyped DEF CareInv
  <2>4. part \in {"recovery", "repair", "immune", "thermal", "metabolism", "improvement",
                  "modification", "compaction", "constraints"}
    BY DEF CareInv
  <2> QED
    BY <2>1, <2>2, <2>3, <2>4 DEF CareTypeOK
<1> QED
  BY <1>1, PartsKeepInvariants, PTL

\* What is broken is attended to, by checks that overlap, and what is said of it is true:
\* restarts are bounded, nothing recovers that nobody recovers, the repairs that were
\* counted are those of the history, a repair of heat ends cool and a critical threat is
\* answered at once.
THEOREM FaultsAreAlwaysAttended == Spec => []FaultsAreAttended
<1>1. CareInv => FaultsAreAttended
  BY RecIsTyped, ImmuneIsTyped DEF CareInv, FaultsAreAttended, RepairInv
<1> QED
  BY <1>1, PartsKeepInvariants, PTL

\* What was measured, learnt or summed up is not lost on the way: listeners know the last
\* levels, experience was counted before it was written, through crashes between two
\* writes and in one, and no event falls between the summaries and what is kept.
THEOREM KnowledgeIsAlwaysKept == Spec => []KnowledgeIsKept
<1>1. CareInv => KnowledgeIsKept
  BY MetabolismIsTyped, ImprovementIsTyped, CompactionIsTyped DEF CareInv, KnowledgeIsKept
<1> QED
  BY <1>1, PartsKeepInvariants, PTL

\* Corrections correct: a GPU that is too hot is throttled by the step that measures it, three
\* degrees above the target while one loop runs and six whatever runs; a change that comes to
\* read "rolled_back" is undone as far as its plan says how; and an update that loses
\* constraints says which.
THEOREM CorrectionsAlwaysHold == Spec => CorrectionsHold
<1>1. CareInv /\ [Next]_careVars =>
        [status'.count > status.count /\ (pid'.error >= 6 \/ (paced' /\ pid'.error >= 3))
         => status'.action = "throttle" /\ limits'.power <= limits.power]_thermalVars
  <2> SUFFICES ASSUME CareInv, [Next]_careVars, status'.count > status.count,
                      pid'.error >= 6 \/ (paced' /\ pid'.error >= 3)
               PROVE  status'.action = "throttle" /\ limits'.power <= limits.power
    OBVIOUS
  <2> QED
    BY PartsMove, HotStep DEF CareInv
<1>2. CareInv /\ [Next]_careVars => [Restored]_modificationVars
  <2> SUFFICES ASSUME CareInv, [Next]_careVars PROVE Restored
    OBVIOUS
  <2> QED
    BY PartsMove, RollbackStep DEF CareInv
<1>3. CareInv /\ [Next]_careVars =>
        [context' # "none" /\ constraints \ constraints' # {}
         => drifts' # drifts /\ Last(drifts').lost = constraints \ constraints']_constraintVars
  <2> SUFFICES ASSUME CareInv, [Next]_careVars, context' # "none", constraints \ constraints' # {}
               PROVE  drifts' # drifts /\ Last(drifts').lost = constraints \ constraints'
    OBVIOUS
  <2> QED
    BY PartsMove, LossStep DEF CareInv
<1>4. Spec => HotIsThrottled
  BY <1>1, PartsKeepInvariants, PTL DEF Spec, HotIsThrottled
<1>5. Spec => RolledBackIsRestored
  BY <1>2, PartsKeepInvariants, PTL DEF Spec, RolledBackIsRestored, Restored
<1>6. Spec => LossIsRecorded
  BY <1>3, PartsKeepInvariants, PTL DEF Spec, LossIsRecorded
<1> QED
  BY <1>4, <1>5, <1>6 DEF CorrectionsHold
================================================================================
