----------------------------- MODULE SignalsProofs -----------------------------
(***************************************************************************)
(* The parts that carry signals and work keep their invariants, whatever   *)
(* the constants: one inductive invariant for each part, and their sum.    *)
(* The parts share no state, so a step of one leaves the others' alone.    *)
(***************************************************************************)
EXTENDS MCSignals, EventStoreProofs

-----------------------------------------------------------------------------
\* The event bus: whom a publish owes an event it is still going to call.

\* What a publish will still do about a subscription.
Due(fr, id) ==
    \/ id[2] = fr.filter /\ id[1] \in Range(fr.todo)
    \/ id[2] # "*" /\ (fr.filter = "*" \/ id[2] \in Range(fr.rest))

\* Whom a publish owes a call is subscribed, matches, and is still to be called.
FrameFits(fr, subscribed) ==
    /\ fr \in Frame /\ "*" \notin Range(fr.rest)
    /\ \A id \in fr.owed : /\ id \in subscribed /\ Due(fr, id)
                           /\ id[2] = "*" \/ <<id[2], fr.type>> \in Matching

BusInv ==
    /\ subs \in [Filters -> Seq(Subscribers)] /\ keys \in Seq(Filters) /\ "*" \notin Range(keys)
    /\ \A f \in Filters : f = "*" \/ subs[f] = <<>> \/ f \in Range(keys)
    /\ frames \in Seq({fr \in Frame : FrameFits(fr, Subscribed)})
    /\ missed = {}

\* The first state of the bus has the invariant.
LEMMA BusInitially == BusInit => BusInv
  BY BusAssumption DEF BusInit, BusInv, Range

\* A frame that stays where it is in its publish, and owes no more than it did.
LEMMA FitsOn ==
  ASSUME NEW fr, NEW before, FrameFits(fr, before), NEW new \in Frame, NEW now,
         new.type = fr.type, new.filter = fr.filter, new.rest = fr.rest, new.owed \subseteq fr.owed,
         new.owed \subseteq now,
         \A id \in new.owed : id[2] = fr.filter /\ id[1] \in Range(fr.todo) => id[1] \in Range(new.todo)
  PROVE  FrameFits(new, now)
  BY DEF FrameFits, Due

\* Every step of the bus keeps the invariant.
LEMMA BusStep == BusInv /\ [BusNext]_busVars => BusInv'
<1> SUFFICES ASSUME BusInv, [BusNext]_busVars PROVE BusInv'
  OBVIOUS
<1> DEFINE Fits == {fr \in Frame : FrameFits(fr, Subscribed)}
           n == Len(frames)
<1>0. /\ frames \in Seq(Fits) /\ n \in Nat /\ DOMAIN frames = 1..n
      /\ \A i \in 1..n : frames[i] \in Frame /\ FrameFits(frames[i], Subscribed)
  BY DEF BusInv
<1>01. /\ subs \in [Filters -> Seq(Subscribers)] /\ keys \in Seq(Filters) /\ "*" \notin Range(keys)
       /\ "*" \in Filters /\ missed = {}
  BY BusAssumption DEF BusInv
<1>02. \A f \in Filters : f = "*" \/ subs[f] = <<>> \/ f \in Range(keys)
  BY DEF BusInv
<1>03. ASSUME NEW fr \in Frame
       PROVE  /\ fr.type \in EventTypes /\ fr.filter \in Filters /\ fr.rest \in Seq(Filters)
              /\ fr.todo \in Seq(Subscribers) /\ fr.size \in Nat
              /\ fr.iter \in {"live", "dropped", "deleted"} /\ fr.calling \in BOOLEAN
              /\ fr.owed \in SUBSET SubIds
  BY DEF Frame
<1>04. frames # <<>> => n \in 1..n /\ Top \in Frame /\ FrameFits(Top, Subscribed) /\ Top = frames[n]
  BY <1>0 DEF Top
<1> HIDE DEF n
\* More subscribers.
<1>1. ASSUME NEW s \in Subscribers, NEW f \in Filters, Subscribe(s, f) PROVE BusInv'
  <2>1. keys' \in Seq(Filters) /\ "*" \notin Range(keys') /\ Range(keys) \subseteq Range(keys')
        /\ (f = "*" \/ f \in Range(keys'))
    <3>1. CASE f = "*" \/ f \in Range(keys)
      BY <1>1, <1>01, <3>1 DEF Subscribe
    <3>2. CASE ~(f = "*" \/ f \in Range(keys))
      <4>1. keys' = Append(keys, f)
        BY <1>1, <3>2 DEF Subscribe
      <4>2. Range(keys') = Range(keys) \union {f}
        BY <1>01, <4>1, RangeFacts
      <4> QED
        BY <1>01, <3>2, <4>1, <4>2
    <3> QED
      BY <3>1, <3>2
  <2>2. CASE s \in Range(subs[f])
    BY <1>0, <1>01, <1>02, <1>1, <2>1, <2>2 DEF BusInv, Subscribe, Subscribed
  <2>3. CASE s \notin Range(subs[f])
    <3>1. subs' = [subs EXCEPT ![f] = Append(@, s)] /\ frames' = WithKey(f, s) /\ missed' = missed
      BY <1>1, <2>3 DEF Subscribe
    <3>2. subs' \in [Filters -> Seq(Subscribers)] /\ \A g \in Filters : Range(subs[g]) \subseteq Range(subs'[g])
      <4>1. Append(subs[f], s) \in Seq(Subscribers) /\ Range(subs[f]) \subseteq Range(Append(subs[f], s))
        <5>1. subs[f] \in Seq(Subscribers)
          BY <1>01
        <5> QED
          BY <5>1, RangeFacts
      <4> QED
        BY <1>01, <3>1, <4>1
    <3>3. Subscribed \subseteq Subscribed'
      BY <3>2 DEF Subscribed, SubIds
    <3>4. ASSUME NEW i \in 1..n PROVE frames'[i] \in Frame /\ FrameFits(frames'[i], Subscribed')
      <4> DEFINE fr == frames[i]
                 todo == Append(fr.todo, s)
                 new == [fr EXCEPT !.todo = todo]
      <4>1. fr \in Frame /\ FrameFits(fr, Subscribed) /\ fr.todo \in Seq(Subscribers)
        BY <1>0, <1>03
      <4>2. todo \in Seq(Subscribers) /\ Range(fr.todo) \subseteq Range(todo)
        BY <4>1, RangeFacts
      <4>3. frames'[i] = IF Iterating(fr, f) THEN new ELSE fr
        BY <1>0, <3>1 DEF WithKey
      <4>4. fr.owed \subseteq Subscribed'
        BY <3>3, <4>1 DEF FrameFits
      <4> HIDE DEF fr, todo
      <4>5. new \in Frame /\ new.type = fr.type /\ new.filter = fr.filter /\ new.rest = fr.rest
            /\ new.owed = fr.owed /\ new.todo = todo
        BY <4>1, <4>2 DEF Frame
      <4> HIDE DEF new
      <4>6. FrameFits(new, Subscribed') /\ FrameFits(fr, Subscribed')
        BY <4>1, <4>2, <4>4, <4>5, FitsOn
      <4> QED
        BY <4>1, <4>3, <4>5, <4>6
    <3>5. frames' \in Seq({fr \in Frame : FrameFits(fr, Subscribed')})
      <4>1. frames' = [i \in DOMAIN frames |-> frames'[i]]
        BY <3>1 DEF WithKey
      <4> QED
        BY <1>0, <3>4, <4>1
    <3>6. \A g \in Filters : g = "*" \/ subs'[g] = <<>> \/ g \in Range(keys')
      BY <1>01, <1>02, <2>1, <3>1
    <3> QED
      BY <1>01, <2>1, <3>1, <3>2, <3>5, <3>6 DEF BusInv
  <2> QED
    BY <2>2, <2>3
\* One subscriber less.
<1>2. ASSUME NEW s \in Subscribers, NEW f \in Filters, Unsubscribe(s, f) PROVE BusInv'
  <2> DEFINE empty == subs[f] = <<s>> /\ f # "*"
             left == Only(subs[f], Subscribers \ {s})
  <2>1. /\ subs' = [subs EXCEPT ![f] = left] /\ missed' = missed /\ s \in Range(subs[f])
        /\ keys' = IF empty THEN Only(keys, Filters \ {f}) ELSE keys
    BY <1>2 DEF Unsubscribe
  <2>2. left \in Seq(Subscribers) /\ Range(left) = Range(subs[f]) \ {s}
    <3>1. subs[f] \in Seq(Subscribers)
      BY <1>01
    <3> QED
      BY <3>1, OnlySelects, RangeFacts
  <2>3. empty => left = <<>> /\ Range(subs[f]) = {s}
    <3>1. empty => Range(subs[f]) = {s}
      <4>1. DOMAIN <<s>> = {1} /\ <<s>>[1] = s
        OBVIOUS
      <4> QED
        BY <4>1 DEF Range
    <3> HIDE DEF left, empty
    <3> QED
      BY <2>2, <3>1, RangeFacts
  <2>4. Only(keys, Filters \ {f}) \in Seq(Filters) /\ Range(Only(keys, Filters \ {f})) = Range(keys) \ {f}
    BY <1>01, OnlySelects, RangeFacts
  <2> HIDE DEF left
  <2>5. subs' \in [Filters -> Seq(Subscribers)] /\ keys' \in Seq(Filters) /\ "*" \notin Range(keys')
    BY <1>01, <2>1, <2>2, <2>4
  <2>6. \A g \in Filters : g = "*" \/ subs'[g] = <<>> \/ g \in Range(keys')
    <3>1. TAKE g \in Filters
    <3>2. CASE g # f
      BY <1>01, <1>02, <2>1, <2>4, <3>2
    <3>3. CASE g = f /\ empty
      BY <1>01, <2>1, <2>3, <3>3
    <3>4. CASE g = f /\ ~empty
      <4>1. subs[f] # <<>>
        <5>1. subs[f] \in Seq(Subscribers)
          BY <1>01
        <5> QED
          BY <2>1, <5>1, RangeFacts
      <4> QED
        BY <1>02, <2>1, <3>4, <4>1
    <3> QED
      BY <3>2, <3>3, <3>4
  <2>7. \A id \in Subscribed : id # <<s, f>> => id \in Subscribed'
    <3>1. TAKE id \in Subscribed
    <3>2. HAVE id # <<s, f>>
    <3>3. id \in SubIds /\ id[1] \in Subscribers /\ id[2] \in Filters /\ id[1] \in Range(subs[id[2]])
      BY DEF Subscribed, SubIds
    <3>4. id = <<id[1], id[2]>>
      BY <3>3 DEF SubIds
    <3>5. id[2] = f => id[1] # s
      BY <3>2, <3>4
    <3>6. id[1] \in Range(subs'[id[2]])
      BY <1>01, <2>1, <2>2, <3>3, <3>5
    <3> QED
      BY <3>3, <3>6 DEF Subscribed
  <2>8. ASSUME NEW i \in 1..n PROVE frames'[i] \in Frame /\ FrameFits(frames'[i], Subscribed')
    <3> DEFINE fr == frames[i]
               edited == IF Iterating(fr, f) THEN [fr EXCEPT !.todo = Only(@, Subscribers \ {s})] ELSE fr
               new == [edited EXCEPT !.owed = @ \ {<<s, f>>},
                                     !.iter = IF empty /\ Iterating(fr, f) THEN "deleted" ELSE @]
    <3>1. fr \in Frame /\ FrameFits(fr, Subscribed) /\ fr.todo \in Seq(Subscribers)
      BY <1>0, <1>03
    <3>2. Only(fr.todo, Subscribers \ {s}) \in Seq(Subscribers)
          /\ Range(Only(fr.todo, Subscribers \ {s})) = Range(fr.todo) \ {s}
      BY <3>1, OnlySelects, RangeFacts
    <3>3. frames'[i] = new
      BY <1>0, <1>2 DEF Unsubscribe, WithoutKey
    <3> HIDE DEF fr, empty
    <3>4. edited \in Frame /\ edited.type = fr.type /\ edited.filter = fr.filter /\ edited.rest = fr.rest
          /\ edited.owed = fr.owed
      BY <3>1, <3>2 DEF Frame
    <3>5. Range(fr.todo) \ {s} \subseteq Range(edited.todo) /\ (fr.filter # f => edited.todo = fr.todo)
      BY <3>1, <3>2 DEF Frame, Iterating
    <3> HIDE DEF edited
    <3>6. new \in Frame /\ new.type = fr.type /\ new.filter = fr.filter /\ new.rest = fr.rest
          /\ new.owed = fr.owed \ {<<s, f>>} /\ new.todo = edited.todo
      BY <3>4 DEF Frame
    <3> HIDE DEF new
    <3>7. new.owed \subseteq Subscribed' /\ fr.owed \subseteq SubIds
      BY <2>7, <3>1, <3>6 DEF FrameFits, Frame
    <3>8. ASSUME NEW id \in new.owed, id[2] = fr.filter, id[1] \in Range(fr.todo)
          PROVE  id[1] \in Range(new.todo)
      <4>1. id = <<id[1], id[2]>> /\ id # <<s, f>>
        BY <3>6, <3>7 DEF SubIds
      <4>2. fr.filter = f => id[1] # s
        BY <3>8, <4>1
      <4> QED
        BY <3>5, <3>6, <3>8, <4>2
    <3>9. FrameFits(new, Subscribed')
      BY <3>1, <3>6, <3>7, <3>8, FitsOn
    <3> QED
      BY <3>3, <3>6, <3>9
  <2>9. frames' \in Seq({fr \in Frame : FrameFits(fr, Subscribed')})
    <3>1. \E g : frames' = [i \in DOMAIN frames |-> g[i]]
      <4>1. frames' = [i \in DOMAIN frames |-> frames'[i]]
        BY <1>2 DEF Unsubscribe
      <4> QED
        BY <4>1
    <3> QED
      BY <1>0, <2>8, <3>1
  <2> QED
    BY <1>01, <2>1, <2>5, <2>6, <2>9 DEF BusInv
<1>3. CASE ClearAll
  <2>1. ASSUME NEW i \in 1..n PROVE frames'[i] \in Frame /\ FrameFits(frames'[i], Subscribed')
    <3> DEFINE fr == frames[i]
               new == [fr EXCEPT !.owed = {}, !.todo = IF Iterating(fr, "*") THEN <<>> ELSE @,
                                 !.iter = IF fr.filter # "*" /\ @ = "live" THEN "dropped" ELSE @]
    <3>0. frames'[i] = new
      BY <1>0, <1>3 DEF ClearAll
    <3>1. fr \in Frame /\ FrameFits(fr, Subscribed) /\ frames'[i] = new /\ <<>> \in Seq(Subscribers)
      <4> HIDE DEF new
      <4> QED
        BY <1>0, <3>0
    <3> HIDE DEF fr
    <3>2. new \in Frame /\ new.owed = {} /\ new.rest = fr.rest
      BY <3>1 DEF Frame
    <3> HIDE DEF new
    <3> QED
      BY <3>1, <3>2 DEF FrameFits
  <2>2. frames' \in Seq({fr \in Frame : FrameFits(fr, Subscribed')})
    <3>1. frames' = [i \in DOMAIN frames |-> frames'[i]]
      BY <1>3 DEF ClearAll
    <3> QED
      BY <1>0, <2>1, <3>1
  <2>3. keys' = <<>> /\ subs' = [f \in Filters |-> <<>>] /\ missed' = missed
    BY <1>3 DEF ClearAll
  <2>4. Range(<<>>) = {}
    BY DEF Range
  <2> QED
    BY <1>01, <2>2, <2>3, <2>4 DEF BusInv
\* The publish calls change, and nobody subscribes.
<1>4. ASSUME subs' = subs, keys' = keys, missed' = missed, frames' \in Seq(Fits) PROVE BusInv'
  <2>1. Subscribed' = Subscribed
    BY <1>4 DEF Subscribed
  <2> QED
    BY <1>01, <1>02, <1>4, <2>1 DEF BusInv
<1>5. ASSUME NEW t \in EventTypes, Publish(t) PROVE BusInv'
  <2> DEFINE new == [type |-> t, filter |-> "*", rest |-> <<>>, todo |-> subs["*"],
                     size |-> Len(subs["*"]), iter |-> "live", calling |-> FALSE,
                     owed |-> {id \in Subscribed : id[2] = "*" \/ <<id[2], t>> \in Matching}]
  <2>1. subs["*"] \in Seq(Subscribers) /\ Len(subs["*"]) \in Nat
    BY <1>01
  <2>2. Subscribed \subseteq SubIds /\ <<>> \in Seq(Filters) /\ Range(<<>>) = {}
    BY DEF Subscribed, Range
  <2>3. new \in Frame
    BY <1>01, <2>1, <2>2 DEF Frame
  <2>4. ASSUME NEW id \in new.owed PROVE id \in Subscribed /\ Due(new, id) /\ (id[2] = "*" \/ <<id[2], new.type>> \in Matching)
    <3>1. id \in Subscribed /\ id[1] \in Range(subs[id[2]])
      BY DEF Subscribed
    <3> QED
      BY <3>1 DEF Due
  <2>5. new \in Fits
    BY <2>2, <2>3, <2>4 DEF FrameFits
  <2>6. frames' = Append(frames, new) /\ subs' = subs /\ keys' = keys /\ missed' = missed
    BY <1>5 DEF Publish
  <2> HIDE DEF new, Fits
  <2>7. frames' \in Seq(Fits)
    BY <1>0, <2>5, <2>6
  <2> QED
    BY <1>4, <2>6, <2>7
\* The innermost publish goes on.
<1>6. ASSUME frames # <<>>, NEW new \in Fits, SetTop(new) PROVE frames' \in Seq(Fits)
  <2> HIDE DEF Fits
  <2> QED
    BY <1>0, <1>04, <1>6, ExceptSeq DEF SetTop, n
<1>7. CASE Deliver
  <2> DEFINE fr == Top
             new == [Top EXCEPT !.calling = TRUE, !.todo = Tail(@), !.owed = @ \ {<<Head(Top.todo), Top.filter>>}]
  <2>1. frames # <<>> /\ fr.todo # <<>> /\ SetTop(new) /\ UNCHANGED <<subs, keys, missed>>
    BY <1>7 DEF Deliver
  <2>2. fr \in Frame /\ FrameFits(fr, Subscribed) /\ fr.todo \in Seq(Subscribers) /\ fr.owed \subseteq SubIds
    BY <1>03, <1>04, <2>1
  <2>3. Tail(fr.todo) \in Seq(Subscribers) /\ Range(fr.todo) = Range(Tail(fr.todo)) \union {Head(fr.todo)}
    BY <2>1, <2>2, RangeFacts
  <2>4. new = [fr EXCEPT !.calling = TRUE, !.todo = Tail(@), !.owed = @ \ {<<Head(fr.todo), fr.filter>>}]
    OBVIOUS
  <2> HIDE DEF fr, new
  <2>5. new \in Frame /\ new.type = fr.type /\ new.filter = fr.filter /\ new.rest = fr.rest
        /\ new.owed = fr.owed \ {<<Head(fr.todo), fr.filter>>} /\ new.todo = Tail(fr.todo)
    BY <2>2, <2>3, <2>4 DEF Frame
  <2>6. ASSUME NEW id \in new.owed, id[2] = fr.filter, id[1] \in Range(fr.todo)
        PROVE  id[1] \in Range(new.todo)
    <3>1. id = <<id[1], id[2]>> /\ id # <<Head(fr.todo), fr.filter>>
      BY <2>2, <2>5 DEF SubIds
    <3> QED
      BY <2>3, <2>5, <2>6, <3>1
  <2>7. FrameFits(new, Subscribed)
    <3>1. new.owed \subseteq fr.owed /\ new.owed \subseteq Subscribed
      BY <2>2, <2>5 DEF FrameFits
    <3> QED
      BY <2>2, <2>5, <2>6, <3>1, FitsOn
  <2>8. frames' \in Seq(Fits)
    BY <1>6, <2>1, <2>5, <2>7
  <2> QED
    BY <1>4, <2>1, <2>8
<1>8. CASE CallbackReturns
  <2> DEFINE fr == Top
             new == [Top EXCEPT !.calling = FALSE]
  <2>1. frames # <<>> /\ SetTop(new) /\ UNCHANGED <<subs, keys, missed>>
    BY <1>8 DEF CallbackReturns
  <2>2. fr \in Frame /\ FrameFits(fr, Subscribed)
    BY <1>04, <2>1
  <2>3. new = [fr EXCEPT !.calling = FALSE]
    OBVIOUS
  <2> HIDE DEF fr, new
  <2>4. new \in Frame /\ new.type = fr.type /\ new.filter = fr.filter /\ new.rest = fr.rest
        /\ new.owed = fr.owed /\ new.todo = fr.todo
    BY <2>2, <2>3 DEF Frame
  <2>5. FrameFits(new, Subscribed)
    BY <2>2, <2>4, FitsOn DEF FrameFits
  <2>6. frames' \in Seq(Fits)
    BY <1>6, <2>1, <2>4, <2>5
  <2> QED
    BY <1>4, <2>1, <2>6
\* What the next filters are: whom the publish owes a call, and does not iterate, is in them.
<1>9. ASSUME NEW fr \in Frame, FrameFits(fr, Subscribed)
      PROVE  /\ NextFilters(fr) \in Seq(Filters) /\ "*" \notin Range(NextFilters(fr))
             /\ \A id \in fr.owed : fr.todo = <<>> => id[2] \in Range(NextFilters(fr))
  <2> DEFINE A == {f \in Filters : <<f, fr.type>> \in Matching}
  <2>1. Only(keys, A) \in Seq(Filters) /\ Range(Only(keys, A)) = Range(keys) \intersect A
    BY <1>01, OnlySelects
  <2>2. ASSUME NEW id \in fr.owed, fr.todo = <<>>
        PROVE  id[2] \in Range(NextFilters(fr))
    <3>1. id \in Subscribed /\ Due(fr, id) /\ (id[2] = "*" \/ <<id[2], fr.type>> \in Matching)
      BY <1>9 DEF FrameFits
    <3>2. Range(fr.todo) = {}
      BY <2>2 DEF Range
    <3>3. id[2] # "*" /\ (fr.filter = "*" \/ id[2] \in Range(fr.rest))
      BY <3>1, <3>2 DEF Due
    <3>4. id[2] \in Filters /\ id[1] \in Range(subs[id[2]])
      BY <3>1 DEF Subscribed, SubIds
    <3>5. subs[id[2]] # <<>>
      BY <3>4 DEF Range
    <3>6. id[2] \in Range(keys) \intersect A
      BY <1>02, <3>1, <3>3, <3>4, <3>5
    <3> QED
      BY <2>1, <3>3, <3>6 DEF NextFilters
  <2>3. NextFilters(fr) \in Seq(Filters) /\ "*" \notin Range(NextFilters(fr))
    BY <1>01, <1>03, <1>9, <2>1 DEF NextFilters, FrameFits
  <2> QED
    BY <2>2, <2>3
<1>10. CASE NextFilter
  <2> DEFINE fr == Top
             left == NextFilters(fr)
             f == Head(left)
             new == [Top EXCEPT !.filter = Head(left), !.rest = Tail(left), !.iter = "live",
                                !.todo = subs[Head(left)], !.size = Len(subs[Head(left)])]
  <2>1. /\ frames # <<>> /\ fr.todo = <<>> /\ left # <<>> /\ SetTop(new)
        /\ keys' = IF f \in Range(keys) THEN keys ELSE Append(keys, f)
        /\ UNCHANGED <<subs, missed>>
    BY <1>10 DEF NextFilter
  <2>2. fr \in Frame /\ FrameFits(fr, Subscribed)
    BY <1>04, <2>1
  <2>3. left \in Seq(Filters) /\ "*" \notin Range(left) /\ \A id \in fr.owed : id[2] \in Range(left)
    BY <1>9, <2>1, <2>2
  <2>4. new = [fr EXCEPT !.filter = f, !.rest = Tail(left), !.iter = "live",
                         !.todo = subs[f], !.size = Len(subs[f])]
    OBVIOUS
  <2> HIDE DEF fr, new, left
  <2>5. f \in Range(left) /\ f # "*" /\ f \in Filters /\ Tail(left) \in Seq(Filters)
        /\ Range(left) = Range(Tail(left)) \union {f}
    BY <2>1, <2>3, RangeFacts
  <2> HIDE DEF f
  <2>6. subs[f] \in Seq(Subscribers) /\ Len(subs[f]) \in Nat
    BY <1>01, <2>5
  <2>7. new \in Frame /\ new.type = fr.type /\ new.filter = f /\ new.rest = Tail(left)
        /\ new.owed = fr.owed /\ new.todo = subs[f]
    BY <2>2, <2>4, <2>5, <2>6 DEF Frame
  <2>8. ASSUME NEW id \in new.owed
        PROVE  id \in Subscribed /\ Due(new, id) /\ (id[2] = "*" \/ <<id[2], new.type>> \in Matching)
    <3>1. id \in Subscribed /\ (id[2] = "*" \/ <<id[2], fr.type>> \in Matching)
      BY <2>2, <2>7 DEF FrameFits
    <3>2. id[1] \in Range(subs[id[2]]) /\ id[2] \in Range(left) /\ id[2] # "*"
      BY <2>3, <2>7, <3>1 DEF Subscribed
    <3> QED
      BY <2>5, <2>7, <3>1, <3>2 DEF Due
  <2>9. new \in Fits
    BY <2>3, <2>5, <2>7, <2>8 DEF FrameFits
  <2>10. frames' \in Seq(Fits)
    BY <1>6, <2>1, <2>9
  <2>11. keys' \in Seq(Filters) /\ "*" \notin Range(keys') /\ Range(keys) \subseteq Range(keys')
    <3>1. CASE f \in Range(keys)
      BY <1>01, <2>1, <3>1
    <3>2. CASE f \notin Range(keys)
      <4>1. Range(Append(keys, f)) = Range(keys) \union {f}
        BY <1>01, RangeFacts
      <4> QED
        BY <1>01, <2>1, <2>5, <3>2, <4>1
    <3> QED
      BY <3>1, <3>2
  <2>12. Subscribed' = Subscribed
    BY <2>1 DEF Subscribed
  <2>13. \A g \in Filters : g = "*" \/ subs'[g] = <<>> \/ g \in Range(keys')
    BY <1>02, <2>1, <2>11
  <2> QED
    BY <1>01, <2>1, <2>10, <2>11, <2>12, <2>13 DEF BusInv
<1>11. ASSUME frames # <<>> PROVE Front(frames) \in Seq(Fits) /\ Len(Front(frames)) = n - 1
  <2> HIDE DEF Fits
  <2> QED
    BY <1>0, <1>11 DEF Front, n
<1>12. CASE PublishReturns
  <2>1. /\ frames # <<>> /\ Top.todo = <<>> /\ NextFilters(Top) = <<>>
        /\ missed' = missed \union Top.owed /\ frames' = Front(frames) /\ UNCHANGED <<subs, keys>>
    BY <1>12 DEF PublishReturns
  <2>2. Range(<<>>) = {}
    BY DEF Range
  <2>3. Top.owed = {}
    BY <1>04, <1>9, <2>1, <2>2
  <2> QED
    BY <1>4, <1>11, <2>1, <2>3
<1>13. CASE PublishRaises
  <2>1. /\ frames # <<>> /\ UNCHANGED <<subs, keys, missed>>
        /\ frames' = IF n = 1 THEN <<>> ELSE [Front(frames) EXCEPT ![n - 1].calling = FALSE]
    BY <1>13 DEF PublishRaises, n
  <2>2. CASE n = 1
    <3>1. frames' \in Seq(Fits)
      BY <2>1, <2>2
    <3> QED
      BY <1>4, <2>1, <3>1
  <2>3. CASE n # 1
    <3> DEFINE rest == Front(frames)
               fr == rest[n - 1]
               new == [fr EXCEPT !.calling = FALSE]
    <3>1. n - 1 \in 1..Len(rest) /\ rest \in Seq(Fits) /\ fr \in Fits
      BY <1>0, <1>04, <1>11, <2>1, <2>3
    <3>2. frames' = [rest EXCEPT ![n - 1] = new]
      BY <2>1, <2>3
    <3>3. fr \in Frame /\ FrameFits(fr, Subscribed)
      BY <3>1
    <3> HIDE DEF fr, rest
    <3>4. new \in Frame /\ new.type = fr.type /\ new.filter = fr.filter /\ new.rest = fr.rest
          /\ new.owed = fr.owed /\ new.todo = fr.todo
      BY <3>3 DEF Frame
    <3>5. FrameFits(new, Subscribed)
      <4> HIDE DEF new
      <4> QED
        BY <3>3, <3>4, FitsOn DEF FrameFits
    <3>6. new \in Fits
      BY <3>4, <3>5
    <3> HIDE DEF new, Fits
    <3>7. frames' \in Seq(Fits)
      BY <3>1, <3>2, <3>6, ExceptSeq
    <3> QED
      BY <1>4, <2>1, <3>7
  <2> QED
    BY <2>2, <2>3
<1>14. CASE UNCHANGED busVars
  BY <1>0, <1>4, <1>14 DEF busVars
<1> QED
  BY <1>1, <1>2, <1>3, <1>5, <1>7, <1>8, <1>10, <1>12, <1>13, <1>14 DEF BusNext

\* What the invariant says of the bus to a reader.
LEMMA BusIsTyped == BusInv => BusTypeOK /\ NobodyMissed
  BY DEF BusInv, BusTypeOK, NobodyMissed

-----------------------------------------------------------------------------
\* The fan-out to the websockets: what a broadcast still sends to is in its session's
\* set, or has left it.

Groups == {g \in SUBSET FanSockets : IsFiniteSet(g)}

CastRecords ==
    [session : FanSessions \union {NoCastSession}, iter : SetIds \union {NoSet}, size : Nat,
     due : SUBSET FanSockets, sent : SUBSET FanSockets, dead : SUBSET FanSockets,
     at : SUBSET FanSockets, later : SUBSET FanSessions]

\* n set objects exist, and two sessions share none.
SetsAre(n) ==
    /\ members \in [1..n -> Groups] /\ current \in [FanSessions -> (1..n) \union {NoSet}]
    /\ \A s, t \in FanSessions : current[s] = current[t] /\ current[s] # NoSet => s = t
    /\ SetsLiveWithSessions

FanInv ==
    /\ \E n \in 0..MaxSets : SetsAre(n)
    /\ cast \in [Casts -> CastRecords] /\ \A b \in Casts : cast[b].dead \subseteq cast[b].sent

\* The first state of the fan-out has the invariant.
LEMMA FanInitially == FanInit => FanInv
<1> SUFFICES ASSUME FanInit PROVE FanInv
  OBVIOUS
<1>1. 0 \in 0..MaxSets /\ 1..0 = {} /\ NoSet \in SetIds \union {NoSet}
  BY FanAssumption
<1>2. members \in [1..0 -> Groups] /\ DOMAIN members = {}
  BY <1>1 DEF FanInit
<1>3. SetsAre(0)
  BY <1>1, <1>2 DEF FanInit, SetsAre, SetsLiveWithSessions
<1>4. Idle \in CastRecords /\ Idle.dead = {}
  BY DEF Idle, CastRecords
<1> QED
  BY <1>1, <1>3, <1>4 DEF FanInv, FanInit

\* A set of sockets that loses some keeps to its session, and goes with the last.
LEMMA SetsShrink ==
  ASSUME NEW n \in 0..MaxSets, SetsAre(n), NEW s \in FanSessions, current[s] # NoSet,
         NEW lost, Discard(s, lost)
  PROVE  SetsAre(n)'
<1> DEFINE k == current[s]
           left == members[k] \ lost
<1>1. /\ k \in 1..n /\ NoSet \notin 1..n
      /\ members' = [members EXCEPT ![k] = left]
      /\ current' = [current EXCEPT ![s] = IF left = {} THEN NoSet ELSE @]
  BY FanAssumption DEF SetsAre, Discard
<1>2. left \in Groups
  <2>1. members[k] \in Groups
    BY <1>1 DEF SetsAre
  <2> QED
    BY <2>1, FS_Subset DEF Groups
<1>3. \A t \in FanSessions : current'[t] = IF t = s /\ left = {} THEN NoSet ELSE current[t]
  BY <1>1 DEF SetsAre
<1>4. \A i \in 1..n : members'[i] = IF i = k THEN left ELSE members[i]
  BY <1>1 DEF SetsAre
<1>5. members' \in [1..n -> Groups] /\ current' \in [FanSessions -> (1..n) \union {NoSet}]
  BY <1>1, <1>2 DEF SetsAre
<1>6. ASSUME NEW i \in 1..n
      PROVE  members'[i] # {} <=> \E t \in FanSessions : current'[t] = i
  <2>1. members[i] # {} <=> \E t \in FanSessions : current[t] = i
    BY DEF SetsAre, SetsLiveWithSessions
  <2>2. \A t \in FanSessions : current[t] = k => t = s
    BY <1>1 DEF SetsAre
  <2>3. CASE i = k /\ left = {}
    BY <1>1, <1>3, <1>4, <2>2, <2>3
  <2>4. CASE i = k /\ left # {}
    BY <1>3, <1>4, <2>4
  <2>5. CASE i # k
    <3>1. \A t \in FanSessions : current'[t] = i <=> current[t] = i
      BY <1>1, <1>3, <2>5
    <3> QED
      BY <1>4, <2>1, <2>5, <3>1
  <2> QED
    BY <2>3, <2>4, <2>5
<1>7. DOMAIN members' = 1..n
  BY <1>5
<1>8. \A t, u \in FanSessions : current'[t] = current'[u] /\ current'[t] # NoSet => t = u
  BY <1>3 DEF SetsAre
<1> QED
  BY <1>5, <1>6, <1>7, <1>8 DEF SetsAre, SetsLiveWithSessions

\* A set of sockets that gets one, or is made for it, keeps to its session.
LEMMA SetsGrow ==
  ASSUME NEW n \in 0..MaxSets, SetsAre(n), NEW s \in FanSessions, NEW w \in FanSockets, AddSocket(s, w)
  PROVE  \E m \in 0..MaxSets : SetsAre(m)'
<1>1. NoSet \notin SetIds /\ n \in Nat /\ MaxSets \in Nat /\ 1..n \subseteq SetIds
  BY FanAssumption DEF SetIds
<1>2. IsFiniteSet({w}) /\ {w} \in Groups
  BY FS_Singleton DEF Groups
<1>3. FreshSet = n + 1
  <2>1. Cardinality(1..n) = n
    BY <1>1, CountUpTo
  <2>2. DOMAIN members = 1..n
    BY DEF SetsAre
  <2> QED
    BY <2>1, <2>2 DEF FreshSet
<1>4. CASE current[s] = NoSet
  <2> DEFINE m == n + 1
  <2>1. /\ m \in SetIds /\ current' = [current EXCEPT ![s] = m]
        /\ members' = [i \in 1..m |-> IF i = m THEN {w} ELSE members[i]]
    BY <1>3, <1>4 DEF AddSocket
  <2>2. m \in 0..MaxSets /\ m \in 1..m /\ 1..m = 1..n \union {m} /\ m \notin 1..n
    BY <1>1, <2>1 DEF SetIds
  <2> HIDE DEF m
  <2>3. members' \in [1..m -> Groups] /\ current' \in [FanSessions -> (1..m) \union {NoSet}]
    BY <1>2, <2>1, <2>2 DEF SetsAre
  <2>4. \A t \in FanSessions : current'[t] = IF t = s THEN m ELSE current[t]
    BY <2>1 DEF SetsAre
  <2>5. \A t \in FanSessions : current[t] # m
    BY <1>1, <2>1, <2>2 DEF SetsAre
  <2>6. \A t, u \in FanSessions : current'[t] = current'[u] /\ current'[t] # NoSet => t = u
    BY <2>4, <2>5 DEF SetsAre
  <2>7. ASSUME NEW i \in 1..m
        PROVE  members'[i] # {} <=> \E t \in FanSessions : current'[t] = i
    <3>1. CASE i = m
      BY <2>1, <2>2, <2>4, <3>1
    <3>2. CASE i \in 1..n
      <4>1. members[i] # {} <=> \E t \in FanSessions : current[t] = i
        BY <3>2 DEF SetsAre, SetsLiveWithSessions
      <4>2. \A t \in FanSessions : current'[t] = i <=> current[t] = i
        BY <1>1, <1>4, <2>2, <2>4, <3>2
      <4> QED
        BY <2>1, <2>2, <3>2, <4>1, <4>2
    <3> QED
      BY <2>2, <3>1, <3>2
  <2>8. SetsAre(m)'
    BY <2>3, <2>6, <2>7 DEF SetsAre, SetsLiveWithSessions
  <2> QED
    BY <2>2, <2>8
<1>5. CASE current[s] # NoSet
  <2> DEFINE k == current[s]
  <2>1. k \in 1..n /\ members' = [members EXCEPT ![k] = @ \union {w}] /\ current' = current
    BY <1>5 DEF AddSocket, SetsAre
  <2>2. members[k] \union {w} \in Groups
    <3>1. members[k] \in Groups
      BY <2>1 DEF SetsAre
    <3> QED
      BY <1>2, <3>1, FS_Union DEF Groups
  <2>3. members' \in [1..n -> Groups] /\ \A i \in 1..n : i # k => members'[i] = members[i]
    BY <2>1, <2>2 DEF SetsAre
  <2>4. members'[k] # {}
    BY <2>1 DEF SetsAre
  <2>5. ASSUME NEW i \in 1..n
        PROVE  members'[i] # {} <=> \E t \in FanSessions : current'[t] = i
    <3>1. CASE i = k
      BY <2>1, <2>4, <3>1
    <3>2. CASE i # k
      BY <2>1, <2>3, <3>2 DEF SetsAre, SetsLiveWithSessions
    <3> QED
      BY <3>1, <3>2
  <2>6. SetsAre(n)'
    BY <2>1, <2>3, <2>5 DEF SetsAre, SetsLiveWithSessions
  <2> QED
    BY <2>6
<1> QED
  BY <1>4, <1>5

\* Whom a broadcast is due to send to when it begins with a session.
LEMMA Begins ==
  ASSUME FanInv, NEW s \in FanSessions, NEW later \in SUBSET FanSessions
  PROVE  Begin(s, later) \in CastRecords /\ Begin(s, later).dead = {}
<1>1. PICK n \in 0..MaxSets : SetsAre(n)
  BY DEF FanInv
<1>2. CASE current[s] = NoSet
  BY <1>2 DEF Begin, Idle, CastRecords
<1>3. CASE current[s] # NoSet
  <2>1. current[s] \in SetIds /\ members[current[s]] \in Groups
    BY <1>1, <1>3, FanAssumption DEF SetsAre, SetIds
  <2>2. Cardinality(members[current[s]]) \in Nat /\ members[current[s]] \in SUBSET FanSockets
    BY <2>1, FS_CardinalityType DEF Groups
  <2> QED
    BY <1>3, <2>1, <2>2 DEF Begin, Idle, CastRecords
<1> QED
  BY <1>2, <1>3

\* Those who leave are taken out of what is due.
LEMMA Leaving ==
  ASSUME FanInv, NEW lost, NEW i
  PROVE  /\ Left(lost, i) \in [Casts -> CastRecords]
         /\ \A b \in Casts : Left(lost, i)[b].dead \subseteq Left(lost, i)[b].sent
<1>1. ASSUME NEW b \in Casts
      PROVE  LET c == IF cast[b].iter = i THEN [cast[b] EXCEPT !.due = @ \ lost] ELSE cast[b]
             IN  c \in CastRecords /\ c.dead \subseteq c.sent
  <2>1. cast[b] \in CastRecords /\ cast[b].dead \subseteq cast[b].sent
    BY DEF FanInv
  <2> QED
    BY <2>1 DEF CastRecords
<1> QED
  BY <1>1 DEF Left

\* A broadcast that has another content, and the others as they are or due to fewer.
LEMMA CastChanges ==
  ASSUME NEW casts \in [Casts -> CastRecords], \A b \in Casts : casts[b].dead \subseteq casts[b].sent,
         NEW b \in Casts, NEW new \in CastRecords, new.dead \subseteq new.sent,
         cast' = [casts EXCEPT ![b] = new]
  PROVE  (cast \in [Casts -> CastRecords] /\ \A c \in Casts : cast[c].dead \subseteq cast[c].sent)'
  OBVIOUS

\* Every step of the fan-out keeps the invariant.
LEMMA FanStep == FanInv /\ [FanNext]_fanVars => FanInv'
<1> SUFFICES ASSUME FanInv, [FanNext]_fanVars PROVE FanInv'
  OBVIOUS
<1>1. PICK n \in 0..MaxSets : SetsAre(n)
  BY DEF FanInv
<1>2. cast \in [Casts -> CastRecords] /\ \A b \in Casts : cast[b].dead \subseteq cast[b].sent
  BY DEF FanInv
<1>3. ASSUME UNCHANGED <<current, members>> PROVE \E m \in 0..MaxSets : SetsAre(m)'
  <2>1. SetsAre(n)'
    BY <1>1, <1>3 DEF SetsAre, SetsLiveWithSessions
  <2> QED
    BY <2>1
<1>4. Idle \in CastRecords /\ Idle.dead \subseteq Idle.sent
  BY DEF Idle, CastRecords
<1>5. \A s \in FanSessions, later \in SUBSET FanSessions :
          Begin(s, later) \in CastRecords /\ Begin(s, later).dead \subseteq Begin(s, later).sent
  BY Begins
<1>6. ASSUME NEW s \in FanSessions, NEW w \in FanSockets, AddSocket(s, w) PROVE FanInv'
  <2>1. \E m \in 0..MaxSets : SetsAre(m)'
    BY <1>1, <1>6, SetsGrow
  <2> QED
    BY <1>2, <1>6, <2>1 DEF FanInv, AddSocket
<1>7. ASSUME NEW s \in FanSessions, NEW w \in FanSockets, RemoveSocket(s, w) PROVE FanInv'
  <2>1. SetsAre(n)'
    BY <1>1, <1>7, SetsShrink DEF RemoveSocket
  <2> QED
    BY <1>7, <2>1, Leaving DEF FanInv, RemoveSocket
<1>8. ASSUME NEW b \in Casts, NEW s \in FanSessions, Broadcast(b, s) PROVE FanInv'
  <2>1. \E m \in 0..MaxSets : SetsAre(m)'
    BY <1>3, <1>8 DEF Broadcast
  <2> QED
    BY <1>2, <1>5, <1>8, <2>1, CastChanges DEF FanInv, Broadcast
<1>9. ASSUME NEW b \in Casts, BroadcastAll(b) PROVE FanInv'
  <2>1. \E m \in 0..MaxSets : SetsAre(m)'
    BY <1>3, <1>9 DEF BroadcastAll
  <2>2. PICK s \in FanSessions, later \in SUBSET FanSessions : cast' = [cast EXCEPT ![b] = Begin(s, later)]
    BY <1>9 DEF BroadcastAll
  <2> QED
    BY <1>2, <1>5, <2>1, <2>2, CastChanges DEF FanInv
<1>10. ASSUME NEW b \in Casts, NEW w \in FanSockets, Send(b, w) PROVE FanInv'
  <2>1. \E m \in 0..MaxSets : SetsAre(m)'
    BY <1>3, <1>10 DEF Send
  <2> DEFINE new == [cast[b] EXCEPT !.at = {w}]
  <2>2. new \in CastRecords /\ new.dead \subseteq new.sent /\ cast' = [cast EXCEPT ![b] = new]
    BY <1>2, <1>10 DEF CastRecords, Send
  <2> HIDE DEF new
  <2> QED
    BY <1>2, <2>1, <2>2, CastChanges DEF FanInv
<1>11. ASSUME NEW b \in Casts, NEW ok \in BOOLEAN, Sent(b, ok) PROVE FanInv'
  <2>1. \E m \in 0..MaxSets : SetsAre(m)'
    BY <1>3, <1>11 DEF Sent
  <2> DEFINE c == cast[b]
             new == [c EXCEPT !.due = @ \ c.at, !.sent = @ \union c.at, !.at = {},
                              !.dead = IF ok THEN @ ELSE @ \union c.at]
  <2>2. c \in CastRecords /\ c.dead \subseteq c.sent
    BY <1>2
  <2>3. cast' = [cast EXCEPT ![b] = new]
    BY <1>2, <1>11 DEF Sent
  <2> HIDE DEF c
  <2>4. new \in CastRecords /\ new.dead \subseteq new.sent
    BY <2>2 DEF CastRecords
  <2> HIDE DEF new
  <2> QED
    BY <1>2, <2>1, <2>3, <2>4, CastChanges DEF FanInv
<1>12. ASSUME NEW b \in Casts, FinishBroadcast(b) PROVE FanInv'
  <2> DEFINE c == cast[b]
             rest == Left(c.dead, current[c.session])
  <2>1. c.session \in FanSessions /\ c.later \in SUBSET FanSessions
    BY <1>2, <1>12 DEF FinishBroadcast, Over, CastRecords
  <2>2. SetsAre(n)'
    BY <1>1, <1>12, <2>1, SetsShrink DEF FinishBroadcast
  <2>3. rest \in [Casts -> CastRecords] /\ \A d \in Casts : rest[d].dead \subseteq rest[d].sent
    BY Leaving
  <2>4. \E new \in CastRecords : new.dead \subseteq new.sent /\ cast' = [rest EXCEPT ![b] = new]
    <3>1. \/ cast' = [rest EXCEPT ![b] = Idle]
          \/ \E s \in c.later : cast' = [rest EXCEPT ![b] = Begin(s, c.later \ {s})]
      BY <1>12 DEF FinishBroadcast
    <3>2. \A s \in c.later : s \in FanSessions /\ c.later \ {s} \in SUBSET FanSessions
      BY <2>1
    <3> HIDE DEF c, rest
    <3> QED
      BY <1>4, <1>5, <3>1, <3>2
  <2> HIDE DEF rest
  <2> QED
    BY <2>2, <2>3, <2>4, CastChanges DEF FanInv
<1>13. ASSUME NEW b \in Casts, FinishUnknown(b) PROVE FanInv'
  <2> DEFINE c == cast[b]
  <2>1. c.later \in SUBSET FanSessions
    BY <1>2 DEF CastRecords
  <2>2. \E m \in 0..MaxSets : SetsAre(m)'
    BY <1>3, <1>13 DEF FinishUnknown
  <2>3. \E new \in CastRecords : new.dead \subseteq new.sent /\ cast' = [cast EXCEPT ![b] = new]
    <3>1. \/ cast' = [cast EXCEPT ![b] = Idle]
          \/ \E s \in c.later : cast' = [cast EXCEPT ![b] = Begin(s, c.later \ {s})]
      BY <1>13 DEF FinishUnknown
    <3>2. \A s \in c.later : s \in FanSessions /\ c.later \ {s} \in SUBSET FanSessions
      BY <2>1
    <3> HIDE DEF c
    <3> QED
      BY <1>4, <1>5, <3>1, <3>2
  <2> QED
    BY <1>2, <2>2, <2>3, CastChanges DEF FanInv
<1>14. ASSUME NEW b \in Casts, BroadcastRaises(b) PROVE FanInv'
  <2>1. \E m \in 0..MaxSets : SetsAre(m)'
    BY <1>3, <1>14 DEF BroadcastRaises
  <2> QED
    BY <1>2, <1>4, <1>14, <2>1, CastChanges DEF FanInv, BroadcastRaises
<1>15. CASE UNCHANGED fanVars
  BY <1>2, <1>3, <1>15 DEF FanInv, fanVars
<1> QED
  BY <1>6, <1>7, <1>8, <1>9, <1>10, <1>11, <1>12, <1>13, <1>14, <1>15 DEF FanNext

\* What the invariant says of the fan-out to a reader.
LEMMA FanIsTyped == FanInv => FanTypeOK /\ SetsLiveWithSessions
<1> SUFFICES ASSUME FanInv PROVE FanTypeOK /\ SetsLiveWithSessions
  OBVIOUS
<1>1. PICK n \in 0..MaxSets : SetsAre(n)
  BY DEF FanInv
<1>2. 1..n \subseteq SetIds
  BY FanAssumption DEF SetIds
<1>3. \A i \in DOMAIN members : i \in SetIds /\ members[i] \subseteq FanSockets
  BY <1>1, <1>2 DEF SetsAre, Groups
<1>4. current \in [FanSessions -> SetIds \union {NoSet}]
  BY <1>1, <1>2 DEF SetsAre
<1>5. ASSUME NEW b \in Casts
      PROVE  /\ cast[b].due \union cast[b].sent \union cast[b].at \subseteq FanSockets
             /\ cast[b].dead \subseteq cast[b].sent
  BY DEF FanInv, CastRecords
<1> QED
  BY <1>1, <1>3, <1>4, <1>5 DEF FanTypeOK, SetsAre

-----------------------------------------------------------------------------
\* The gateway's proxy: the frames of a link are those of the message it is in.

\* The connections and the tasks of the proxy.
LinksInv ==
    /\ links \in Seq({"open", "closed", "broken"}) /\ Len(links) <= MaxLinks
    /\ linkOf \in [ProxySessions -> 0..Len(links)]
    /\ reader \in [ProxySessions -> [at : {"none", "reading", "reconnecting", "spinning", "ended"},
                                     link : 0..Len(links)]]
    /\ connects \in [ProxySessions -> 0..MaxConnects]
    /\ closing \in [ProxySessions -> {"no", "socket", "reader", "delete"}]
    /\ deleted \subseteq ProxySessions

\* What a session was sent is under the id of its turn, and every id is one session's.
Given(s) == ended[s] \union ({messageId[s]} \ {0})

TalkInv ==
    /\ nextMessage \in 1..(MaxTurns + 1)
    /\ messageId \in [ProxySessions -> 0..MaxTurns]
    /\ turn \in [ProxySessions -> SUBSET Nat] /\ ended \in [ProxySessions -> SUBSET Nat]
    /\ \A s \in ProxySessions : turn[s] = {messageId[s]} \ {0}
    /\ \A s \in ProxySessions : messageId[s] \notin ended[s]
    /\ \A s \in ProxySessions : \A id \in Given(s) : 0 < id /\ id < nextMessage
    /\ \A s, r \in ProxySessions : s # r => Given(s) \intersect Given(r) = {}

ProxyInv == LinksInv /\ TalkInv

\* The first state of the proxy has the invariant.
LEMMA ProxyInitially == ProxyInit => ProxyInv
<1> USE ProxyAssumption DEF ProxyAssumption
<1> SUFFICES ASSUME ProxyInit PROVE ProxyInv
  OBVIOUS
<1>1. LinksInv
  BY DEF ProxyInit, LinksInv, NoReader
<1>2. TalkInv
  BY DEF ProxyInit, TalkInv, Given
<1> QED
  BY <1>1, <1>2 DEF ProxyInv

\* Every step of the links of the proxy keeps the invariant.
LEMMA LinksStep == LinksInv /\ [ProxyNext]_proxyVars => LinksInv'
<1> USE ProxyAssumption DEF ProxyAssumption
<1> SUFFICES ASSUME LinksInv, [ProxyNext]_proxyVars PROVE LinksInv'
  OBVIOUS
<1> DEFINE n == Len(links)
<1>0. n \in Nat /\ links \in Seq({"open", "closed", "broken"})
  BY DEF LinksInv
<1>1. ASSUME NEW s \in ProxySessions, Connected(s)
      PROVE  /\ links' \in Seq({"open", "closed", "broken"}) /\ Len(links') = n + 1 /\ n + 1 <= MaxLinks
             /\ linkOf' \in [ProxySessions -> 0..(n + 1)] /\ n + 1 \in 0..(n + 1)
             /\ 0..n \subseteq 0..(n + 1)
  <2>1. links' = Append(links, "open") /\ n < MaxLinks
    BY <1>1 DEF Connected
  <2>2. links' \in Seq({"open", "closed", "broken"}) /\ Len(links') = n + 1 /\ n + 1 <= MaxLinks
    BY <1>0, <2>1
  <2>3. n + 1 \in 0..(n + 1) /\ 0..n \subseteq 0..(n + 1)
    BY <1>0
  <2>4. linkOf' = [linkOf EXCEPT ![s] = n + 1] /\ linkOf \in [ProxySessions -> 0..n]
    BY <1>1 DEF Connected, LinksInv
  <2> HIDE DEF n
  <2>5. linkOf' \in [ProxySessions -> 0..(n + 1)]
    BY <2>3, <2>4
  <2> QED
    BY <2>2, <2>3, <2>5
<1> DEFINE Stages == {"none", "reading", "reconnecting", "spinning", "ended"}
<1>2. reader \in [ProxySessions -> [at : Stages, link : 0..n]]
  BY DEF LinksInv
<1>3. ASSUME NEW s \in ProxySessions, NEW at \in Stages, UNCHANGED <<links, linkOf, connects, closing, deleted>>,
             reader' = [reader EXCEPT ![s].at = at]
      PROVE  LinksInv'
  <2>1. reader' \in [ProxySessions -> [at : Stages, link : 0..n]]
    BY <1>2, <1>3
  <2> QED
    BY <1>3, <2>1 DEF LinksInv
<1>4. ASSUME NEW s \in ProxySessions, SubmitOpen(s) PROVE LinksInv'
  <2>1. linkOf[s] \in 0..n
    BY DEF LinksInv
  <2>2. reader' \in [ProxySessions -> [at : Stages, link : 0..n]]
    BY <1>2, <1>4, <2>1 DEF SubmitOpen, StartReader, Reading
  <2> QED
    BY <1>4, <2>2 DEF SubmitOpen, LinksInv
<1>5. ASSUME NEW s \in ProxySessions, SubmitConnects(s) \/ SubmitFailed(s) PROVE LinksInv'
  <2>1. connects' \in [ProxySessions -> 0..MaxConnects]
    <3>1. MaxConnects \in Nat /\ connects \in [ProxySessions -> 0..MaxConnects]
      BY DEF LinksInv
    <3>2. CASE SubmitConnects(s)
      BY <3>1, <3>2 DEF SubmitConnects
    <3>3. CASE SubmitFailed(s)
      BY <3>1, <3>3 DEF SubmitFailed
    <3> QED
      BY <1>5, <3>2, <3>3
  <2> QED
    BY <1>5, <2>1 DEF SubmitConnects, SubmitFailed, LinksInv
<1>6. ASSUME NEW s \in ProxySessions, SubmitConnected(s) \/ ReaderReconnects(s) PROVE LinksInv'
  <2>1. Connected(s)
    BY <1>6 DEF SubmitConnected, ReaderReconnects
  <2>2. connects' \in [ProxySessions -> 0..MaxConnects]
    BY <1>6 DEF SubmitConnected, ReaderReconnects, LinksInv
  <2>3. reader' \in [ProxySessions -> [at : Stages, link : 0..(n + 1)]]
    <3>1. reader' = reader \/ reader' = [reader EXCEPT ![s] = Reading(n + 1)]
      BY <1>6 DEF SubmitConnected, ReaderReconnects, StartReader
    <3>2. n + 1 \in 0..(n + 1) /\ 0..n \subseteq 0..(n + 1)
      BY <1>1, <2>1
    <3> HIDE DEF n
    <3>3. reader \in [ProxySessions -> [at : Stages, link : 0..(n + 1)]]
      BY <1>2, <3>2
    <3> QED
      BY <3>1, <3>2, <3>3 DEF Reading
  <2> QED
    BY <1>1, <1>6, <2>1, <2>2, <2>3 DEF SubmitConnected, ReaderReconnects, LinksInv
<1>7. ASSUME NEW s \in ProxySessions, ReadDelta(s) \/ ReadCompleted(s) PROVE LinksInv'
  BY <1>7 DEF ReadDelta, ReadCompleted, LinksInv
<1>8. ASSUME NEW s \in ProxySessions, ReaderSpins(s) \/ ReaderLoses(s) \/ ReaderGivesUp(s) PROVE LinksInv'
  BY <1>3, <1>8 DEF ReaderSpins, ReaderLoses, ReaderGivesUp
<1>9. ASSUME NEW k \in 1..n, NEW how \in {"open", "closed", "broken"}
      PROVE  [links EXCEPT ![k] = how] \in Seq({"open", "closed", "broken"}) /\ Len([links EXCEPT ![k] = how]) = n
  BY <1>0, ExceptSeq
<1>10. ASSUME NEW s \in ProxySessions, CloseBegins(s) PROVE LinksInv'
  <2>1. links' \in Seq({"open", "closed", "broken"}) /\ Len(links') = n
    <3>1. CASE Open(linkOf[s])
      <4>1. linkOf[s] \in 1..n /\ links' = [links EXCEPT ![linkOf[s]] = "closed"]
        BY <1>0, <1>10, <3>1 DEF CloseBegins, LinksInv, Open
      <4> QED
        BY <1>9, <4>1
    <3>2. CASE ~Open(linkOf[s])
      BY <1>0, <1>10, <3>2 DEF CloseBegins
    <3> QED
      BY <3>1, <3>2
  <2>2. closing' \in [ProxySessions -> {"no", "socket", "reader", "delete"}]
    BY <1>10 DEF CloseBegins, LinksInv
  <2> QED
    BY <1>10, <2>1, <2>2 DEF CloseBegins, LinksInv
<1>11. ASSUME NEW s \in ProxySessions, CloseForgets(s) PROVE LinksInv'
  <2>1. linkOf' \in [ProxySessions -> 0..n]
    BY <1>0, <1>11 DEF CloseForgets, LinksInv
  <2>2. closing' \in [ProxySessions -> {"no", "socket", "reader", "delete"}]
    BY <1>11 DEF CloseForgets, LinksInv
  <2> QED
    BY <1>11, <2>1, <2>2 DEF CloseForgets, LinksInv
<1>12. ASSUME NEW s \in ProxySessions, CloseCancels(s) PROVE LinksInv'
  <2>1. reader' \in [ProxySessions -> [at : Stages, link : 0..n]]
    BY <1>0, <1>2, <1>12 DEF CloseCancels, NoReader
  <2>2. closing' \in [ProxySessions -> {"no", "socket", "reader", "delete"}]
    BY <1>12 DEF CloseCancels, LinksInv
  <2> QED
    BY <1>12, <2>1, <2>2 DEF CloseCancels, LinksInv
<1>13. ASSUME NEW s \in ProxySessions, NEW ok \in BOOLEAN, CloseDeletes(s, ok) PROVE LinksInv'
  <2>2. closing' \in [ProxySessions -> {"no", "socket", "reader", "delete"}] /\ deleted' \subseteq ProxySessions
    BY <1>13 DEF CloseDeletes, LinksInv
  <2> QED
    BY <1>13, <2>2 DEF CloseDeletes, LinksInv
<1>14. ASSUME NEW link \in DOMAIN links, NEW how \in {"closed", "broken"}, LinkEnds(link, how) PROVE LinksInv'
  <2>1. links' \in Seq({"open", "closed", "broken"}) /\ Len(links') = n
    BY <1>0, <1>9, <1>14 DEF LinkEnds
  <2> QED
    BY <1>14, <2>1 DEF LinkEnds, LinksInv
<1>15. CASE UNCHANGED proxyVars
  BY <1>15 DEF proxyVars, LinksInv
<1> QED
  BY <1>4, <1>5, <1>6, <1>7, <1>8, <1>10, <1>11, <1>12, <1>13, <1>14, <1>15 DEF ProxyNext

\* Every step of the turns of the proxy keeps the invariant.
LEMMA TalkStep == TalkInv /\ [ProxyNext]_proxyVars => TalkInv'
<1> USE ProxyAssumption DEF ProxyAssumption
<1> SUFFICES ASSUME TalkInv, [ProxyNext]_proxyVars PROVE TalkInv'
  OBVIOUS
\* The id of what is read is the session's, and of no message that was completed.
<1>1. ASSUME NEW s \in ProxySessions, Allocated(s)
      PROVE  /\ IdOf(s) \in 1..MaxTurns /\ IdOf(s) \notin ended[s]
             /\ \A r \in ProxySessions : r # s => IdOf(s) \notin Given(r)
             /\ nextMessage' \in 1..(MaxTurns + 1) /\ IdOf(s) < nextMessage' /\ nextMessage <= nextMessage'
             /\ messageId[s] # 0 => IdOf(s) = messageId[s]
             /\ Given(s) \subseteq ended[s] \union {IdOf(s)}
  <2>1. CASE messageId[s] = 0
    <3>1. IdOf(s) = nextMessage /\ nextMessage <= MaxTurns /\ nextMessage' = nextMessage + 1 /\ nextMessage \in Nat
      BY <1>1, <2>1 DEF Allocated, IdOf, Fresh, TalkInv
    <3>2. \A r \in ProxySessions : nextMessage \notin Given(r)
      BY <3>1 DEF TalkInv
    <3> QED
      BY <2>1, <3>1, <3>2 DEF Given, TalkInv
  <2>2. CASE messageId[s] # 0
    <3>1. IdOf(s) = messageId[s] /\ nextMessage' = nextMessage /\ messageId[s] \in Given(s)
      BY <1>1, <2>2 DEF Allocated, IdOf, Fresh, Given
    <3> QED
      BY <2>2, <3>1 DEF Given, TalkInv
  <2> QED
    BY <2>1, <2>2
<1>2. ASSUME NEW s \in ProxySessions, ReadDelta(s) \/ ReadCompleted(s) PROVE TalkInv'
  <2> DEFINE id == IdOf(s)
  <2>1. Allocated(s)
    BY <1>2 DEF ReadDelta, ReadCompleted
  <2>2. /\ id \in 1..MaxTurns /\ id \notin ended[s]
        /\ \A r \in ProxySessions : r # s => id \notin Given(r)
        /\ nextMessage' \in 1..(MaxTurns + 1) /\ id < nextMessage' /\ nextMessage <= nextMessage'
        /\ messageId[s] # 0 => id = messageId[s]
        /\ Given(s) \subseteq ended[s] \union {id}
    BY <1>1, <2>1
  <2> HIDE DEF id
  <2>3. messageId' \in [ProxySessions -> 0..MaxTurns] /\ turn' \in [ProxySessions -> SUBSET Nat]
        /\ ended' \in [ProxySessions -> SUBSET Nat]
    BY <1>2, <2>2 DEF ReadDelta, ReadCompleted, Rotate, TalkInv, id
  <2>4. \A r \in ProxySessions : turn'[r] = {messageId'[r]} \ {0} /\ messageId'[r] \notin ended'[r]
    <3>1. CASE ReadDelta(s)
      <4>1. messageId' = [messageId EXCEPT ![s] = id] /\ ended' = ended /\ turn' = [turn EXCEPT ![s] = @ \union {id}]
        BY <3>1 DEF ReadDelta, id
      <4>2. turn[s] \union {id} = {id} \ {0}
        BY <2>2 DEF TalkInv
      <4> QED
        BY <2>2, <4>1, <4>2 DEF TalkInv
    <3>2. CASE ReadCompleted(s)
      <4>1. messageId' = [messageId EXCEPT ![s] = 0] /\ turn' = [turn EXCEPT ![s] = {}]
            /\ ended' = [ended EXCEPT ![s] = @ \union {id}]
        BY <3>2 DEF ReadCompleted, Rotate, id
      <4>2. 0 \notin ended[s]
        BY DEF TalkInv, Given
      <4> QED
        BY <2>2, <4>1, <4>2 DEF TalkInv
    <3> QED
      BY <1>2, <3>1, <3>2
  <2>5. \A r \in ProxySessions : Given(r)' = IF r = s THEN ended[s] \union {id} ELSE Given(r)
    BY <1>2, <2>2 DEF ReadDelta, ReadCompleted, Rotate, Given, TalkInv, id
  <2>6. \A r \in ProxySessions : \A k \in Given(r)' : 0 < k /\ k < nextMessage'
    <3>1. TAKE r \in ProxySessions
    <3>2. \A k \in Given(r) : k \in Nat /\ 0 < k /\ k < nextMessage
      BY DEF TalkInv, Given
    <3>3. \A k \in Given(r) : 0 < k /\ k < nextMessage'
      BY <2>2, <3>2 DEF TalkInv
    <3>4. ended[r] \subseteq Given(r)
      BY DEF Given
    <3> QED
      BY <2>2, <2>5, <3>3, <3>4
  <2>7. \A r, q \in ProxySessions : r # q => Given(r)' \intersect Given(q)' = {}
    <3>1. \A r \in ProxySessions : ended[r] \subseteq Given(r)
      BY DEF Given
    <3>2. \A r, q \in ProxySessions : r # q => Given(r) \intersect Given(q) = {}
      BY DEF TalkInv
    <3> QED
      BY <2>2, <2>5, <3>1, <3>2
  <2> QED
    BY <2>2, <2>3, <2>4, <2>6, <2>7 DEF TalkInv
<1>3. CASE UNCHANGED talk
  BY <1>3 DEF talk, TalkInv, Given
<1> QED
  BY <1>2, <1>3
     DEF ProxyNext, SubmitOpen, SubmitConnects, SubmitConnected, SubmitFailed, ReaderSpins, ReaderLoses,
         ReaderReconnects, ReaderGivesUp, CloseBegins, CloseForgets, CloseCancels, CloseDeletes, LinkEnds,
         proxyVars, talk

\* What the invariant says of the proxy to a reader.
LEMMA ProxyIsHonest == ProxyInv => ProxyTypeOK /\ TurnsAreMessages
<1> USE ProxyAssumption DEF ProxyAssumption
<1> SUFFICES ASSUME ProxyInv PROVE ProxyTypeOK /\ TurnsAreMessages
  OBVIOUS
<1>1. ProxyTypeOK
  BY DEF ProxyInv, LinksInv, TalkInv, ProxyTypeOK
<1>2. ASSUME NEW s \in ProxySessions PROVE Cardinality(turn[s]) <= 1 /\ turn[s] \intersect ended[s] = {}
  <2>1. turn[s] = {} \/ turn[s] = {messageId[s]}
    BY DEF ProxyInv, TalkInv
  <2>2. Cardinality(turn[s]) <= 1
    <3>1. CASE turn[s] = {}
      BY <3>1, FS_EmptySet
    <3>2. CASE turn[s] = {messageId[s]}
      <4>1. Cardinality({messageId[s]}) = 1
        BY FS_Singleton
      <4> QED
        BY <3>2, <4>1
    <3> QED
      BY <2>1, <3>1, <3>2
  <2> QED
    BY <2>1, <2>2 DEF ProxyInv, TalkInv
<1>3. \A s, r \in ProxySessions : s # r => (turn[s] \union ended[s]) \intersect (turn[r] \union ended[r]) = {}
  BY DEF ProxyInv, TalkInv, Given
<1> QED
  BY <1>1, <1>2, <1>3 DEF TurnsAreMessages

-----------------------------------------------------------------------------
\* The gateway's adapter: the stage of a request and the sockets it holds.

SocketRecords == {r \in [of : AdapterSessions, open : BOOLEAN, queue : Seq({"delta", "completed"})] :
                     Len(r.queue) <= 2}

Requests == {"readline", "connect", "send", "close", "cancel", "delete", "other"}

SocketsInv ==
    /\ sockets \in Seq(SocketRecords) /\ Len(sockets) <= MaxSockets
    /\ socketOf \in [AdapterSessions -> 0..Len(sockets)]
    /\ task \in [AdapterSessions -> [at : {"none", "created", "reading"}, socket : 0..Len(sockets)]]
    /\ handling \in [at : Requests, of : UNION {AdapterSessions, {NotHandling.of}}]
    /\ gone \subseteq AdapterSessions /\ prompted \subseteq AdapterSessions
    /\ written \in [AdapterSessions -> 0..MaxWritten] /\ unread \in [AdapterSessions -> 0..MaxUnread]

\* The parts of AcceptedAreRead, and what the await a request is suspended at says of its
\* connection.
OpenFits(k) == sockets[k].open => socketOf[sockets[k].of] = k

ReaderFits(s) ==
    task[s].at # "none" =>
        /\ task[s].socket # 0
        /\ task[s].socket = socketOf[s] \/ ~sockets[task[s].socket].open

OwnFits(s) ==
    s \in prompted /\ Live(socketOf[s]) => task[s].at # "none" /\ task[s].socket = socketOf[s]

StageFits(s) ==
    /\ At("connect", s) => ~Live(socketOf[s]) /\ unread[s] < MaxUnread
    /\ At("send", s) => unread[s] < MaxUnread
    /\ At("close", s) => socketOf[s] # 0
    /\ At("cancel", s) => socketOf[s] = 0

AdapterInv ==
    /\ SocketsInv
    /\ \A k \in 1..Len(sockets) : OpenFits(k)
    /\ \A s \in AdapterSessions : ReaderFits(s) /\ OwnFits(s) /\ StageFits(s)

\* The first state of the adapter has the invariant.
LEMMA AdapterInitially == AdapterInit => AdapterInv
<1> USE AdapterAssumption DEF AdapterAssumption
<1> SUFFICES ASSUME AdapterInit PROVE AdapterInv
  OBVIOUS
<1>1. SocketsInv
  BY DEF AdapterInit, SocketsInv, NoTask, NotHandling, Requests
<1>2. \A k \in 1..Len(sockets) : OpenFits(k)
  BY DEF AdapterInit
<1>3. ASSUME NEW s \in AdapterSessions PROVE ReaderFits(s) /\ OwnFits(s) /\ StageFits(s)
  BY DEF AdapterInit, ReaderFits, OwnFits, StageFits, NoTask, NotHandling, At
<1> QED
  BY <1>1, <1>2, <1>3 DEF AdapterInv

\* A connection that changes: what is queued, or it closes.
LEMMA SocketChanges ==
  ASSUME SocketsInv, NEW k \in 1..Len(sockets), NEW new \in SocketRecords,
         sockets' = [sockets EXCEPT ![k] = new], sockets[k].open \/ ~new.open, new.of = sockets[k].of
  PROVE  /\ sockets' \in Seq(SocketRecords) /\ Len(sockets') = Len(sockets)
         /\ \A i \in 1..Len(sockets) : /\ sockets'[i].open => sockets[i].open
                                       /\ sockets'[i].of = sockets[i].of
  BY ExceptSeq DEF SocketsInv

\* A connection whose next line was read.
LEMMA QueueShortens ==
  ASSUME NEW r \in SocketRecords, r.queue # <<>>
  PROVE  LET new == [r EXCEPT !.queue = Tail(@)]
         IN  new \in SocketRecords /\ new.open = r.open /\ new.of = r.of
<1> DEFINE q == r.queue
           new == [r EXCEPT !.queue = Tail(@)]
<1>1. q \in Seq({"delta", "completed"}) /\ Len(q) <= 2 /\ q # <<>>
  BY DEF SocketRecords
<1>2. Tail(q) \in Seq({"delta", "completed"}) /\ Len(Tail(q)) <= 2
  <2> HIDE DEF q
  <2> QED
    BY <1>1
<1>3. new = [of |-> r.of, open |-> r.open, queue |-> Tail(q)]
  BY DEF SocketRecords
<1>4. r.of \in AdapterSessions /\ r.open \in BOOLEAN
  BY DEF SocketRecords
<1> HIDE DEF q
<1>5. new \in SocketRecords
  BY <1>2, <1>3, <1>4 DEF SocketRecords
<1> QED
  BY <1>3, <1>5

\* A connection that was closed.
LEMMA SocketCloses ==
  ASSUME NEW r \in SocketRecords
  PROVE  LET new == [r EXCEPT !.open = FALSE]
         IN  new \in SocketRecords /\ new.open = FALSE /\ new.of = r.of
  BY DEF SocketRecords

\* Steps that open no connection and start no reader: connections may close, readers begin
\* or leave.
LEMMA AdapterCalms ==
  ASSUME AdapterInv, SocketsInv', socketOf' = socketOf, prompted' \subseteq prompted,
         Len(sockets') = Len(sockets),
         \A i \in 1..Len(sockets) : /\ sockets'[i].open => sockets[i].open
                                    /\ sockets'[i].of = sockets[i].of,
         \A s \in AdapterSessions :
             \/ task'[s].socket = task[s].socket /\ (task'[s].at = "none" <=> task[s].at = "none")
             \/ task'[s].at = "none" /\ (s \in prompted' => ~Live(socketOf[s])),
         \A s \in AdapterSessions : StageFits(s)'
  PROVE  AdapterInv'
<1> DEFINE n == Len(sockets)
<1>1. SocketsInv /\ n \in Nat /\ Len(sockets') = n
  BY DEF AdapterInv, SocketsInv
<1>2. \A k \in 0..n : k # 0 => k \in 1..n
  BY <1>1
<1>3. \A k \in 0..n : Live(k)' => Live(k)
  BY <1>2 DEF Live
<1>4. ASSUME NEW k \in 1..n PROVE OpenFits(k)'
  <2>1. OpenFits(k)
    BY DEF AdapterInv
  <2> QED
    BY <2>1 DEF OpenFits
<1>5. ASSUME NEW s \in AdapterSessions PROVE ReaderFits(s)' /\ OwnFits(s)'
  <2>1. ReaderFits(s) /\ OwnFits(s)
    BY DEF AdapterInv
  <2>2. task[s].socket \in 0..n /\ socketOf[s] \in 0..n
    BY <1>1 DEF SocketsInv
  <2> HIDE DEF n
  <2>3. ReaderFits(s)'
    BY <1>2, <2>1, <2>2 DEF ReaderFits, n
  <2>4. OwnFits(s)'
    <3>1. SUFFICES ASSUME s \in prompted', Live(socketOf[s])' PROVE task'[s].at # "none" /\ task'[s].socket = socketOf[s]
      BY DEF OwnFits
    <3>2. s \in prompted /\ Live(socketOf[s])
      BY <1>3, <2>2, <3>1
    <3>3. task[s].at # "none" /\ task[s].socket = socketOf[s]
      BY <2>1, <3>2 DEF OwnFits
    <3> QED
      BY <3>1, <3>2, <3>3
  <2> QED
    BY <2>3, <2>4
<1> QED
  BY <1>1, <1>4, <1>5 DEF AdapterInv

\* Every step of the adapter keeps the invariant.
LEMMA AdapterStep == AdapterInv /\ [AdapterNext]_adapterVars => AdapterInv'
<1> USE AdapterAssumption DEF AdapterAssumption
<1> SUFFICES ASSUME AdapterInv, [AdapterNext]_adapterVars PROVE AdapterInv'
  OBVIOUS
<1> DEFINE n == Len(sockets)
<1>0. SocketsInv /\ n \in Nat /\ \A k \in 0..n : k # 0 => k \in 1..n
  BY DEF AdapterInv, SocketsInv
\* Requests that move on, and change nothing of connections and readers.
<1>2. ASSUME NEW stage \in Requests, NEW s \in AdapterSessions \union {NotHandling.of},
             handling' = [at |-> stage, of |-> s],
             UNCHANGED <<sockets, socketOf, task, prompted, unread, written>>,
             gone' \subseteq AdapterSessions,
             stage = "connect" => ~Live(socketOf[s]) /\ unread[s] < MaxUnread,
             stage = "send" => unread[s] < MaxUnread,
             stage = "close" => socketOf[s] # 0, stage = "cancel" => socketOf[s] = 0
      PROVE  AdapterInv'
  <2>1. SocketsInv'
    BY <1>0, <1>2 DEF SocketsInv
  <2>2. \A r \in AdapterSessions : StageFits(r)'
    BY <1>2 DEF StageFits, At, Live
  <2> QED
    BY <1>2, <2>1, <2>2, AdapterCalms
\* A request that is over.
<1>1. ASSUME handling' = NotHandling, UNCHANGED <<sockets, socketOf, task, prompted, unread, written>>,
             gone' \subseteq AdapterSessions
      PROVE  AdapterInv'
  <2>1. handling' = [at |-> "readline", of |-> NotHandling.of] /\ "readline" \in Requests
    BY <1>1 DEF NotHandling, Requests
  <2> QED
    BY <1>1, <1>2, <2>1
<1>3. ASSUME NEW s \in AdapterSessions, Submit(s) \/ SubmitNotConnected(s) \/ CloseSession(s) PROVE AdapterInv'
  <2>0. gone \subseteq AdapterSessions /\ {"connect", "send", "close", "cancel"} \subseteq Requests
    BY <1>0 DEF SocketsInv, Requests
  <2>1. CASE Submit(s)
    <3>1. /\ handling' = [at |-> IF Live(socketOf[s]) THEN "send" ELSE "connect", of |-> s]
          /\ unread[s] < MaxUnread /\ UNCHANGED <<sockets, socketOf, task, gone, prompted, unread, written>>
      BY <2>1 DEF Submit, Goes
    <3> QED
      BY <1>2, <2>0, <3>1
  <2>2. CASE SubmitNotConnected(s)
    BY <1>1, <2>0, <2>2 DEF SubmitNotConnected
  <2>3. CASE CloseSession(s)
    <3>1. /\ handling' = [at |-> IF socketOf[s] # 0 THEN "close" ELSE "cancel", of |-> s]
          /\ UNCHANGED <<sockets, socketOf, task, gone, prompted, unread, written>>
      BY <2>3 DEF CloseSession, Goes
    <3> QED
      BY <1>2, <2>0, <3>1
  <2> QED
    BY <1>3, <2>1, <2>2, <2>3
<1>4. ASSUME NEW s \in AdapterSessions, NEW ok \in BOOLEAN, SessionDeleted(s, ok) PROVE AdapterInv'
  <2>1. handling' = NotHandling /\ UNCHANGED <<sockets, socketOf, task, prompted, unread, written>>
    BY <1>4 DEF SessionDeleted
  <2>2. gone \subseteq AdapterSessions
    BY <1>0 DEF SocketsInv
  <2>3. gone' \subseteq AdapterSessions
    BY <1>4, <2>2 DEF SessionDeleted
  <2> QED
    BY <1>1, <2>1, <2>3
<1>5. CASE OtherRequest \/ OtherAnswered
  <2>1. gone \subseteq AdapterSessions /\ "other" \in Requests
    BY <1>0 DEF SocketsInv, Requests
  <2>2. CASE OtherRequest
    BY <1>2, <2>1, <2>2 DEF OtherRequest, Goes
  <2>3. CASE OtherAnswered
    BY <1>1, <2>1, <2>3 DEF OtherAnswered
  <2> QED
    BY <1>5, <2>2, <2>3
<1>6. ASSUME NEW s \in AdapterSessions, SubmitReconnected(s) PROVE AdapterInv'
  <2> DEFINE new == [of |-> s, open |-> TRUE, queue |-> <<>>]
  <2>1. new \in SocketRecords /\ new.of = s
    BY DEF SocketRecords
  <2>2. /\ sockets' = Append(sockets, new) /\ socketOf' = [socketOf EXCEPT ![s] = n + 1]
        /\ prompted' = prompted \ {s} /\ unread' = [unread EXCEPT ![s] = 0]
        /\ n < MaxSockets /\ UNCHANGED <<task, gone, written>>
        /\ handling = [at |-> "connect", of |-> s] /\ handling' = [at |-> "send", of |-> s]
    BY <1>6 DEF SubmitReconnected, At, Goes
  <2>3. sockets' \in Seq(SocketRecords) /\ Len(sockets') = n + 1 /\ n + 1 <= MaxSockets
        /\ (\A i \in 1..n : sockets'[i] = sockets[i]) /\ sockets'[n + 1] = new
    BY <1>0, <2>1, <2>2 DEF SocketsInv
  <2>4. n + 1 \in 0..(n + 1) /\ 0..n \subseteq 0..(n + 1) /\ \A k \in 1..(n + 1) : k = n + 1 \/ k \in 1..n
    BY <1>0
  <2>0. ~Live(socketOf[s]) /\ unread[s] < MaxUnread
    BY <2>2 DEF AdapterInv, StageFits, At
  <2> HIDE DEF new, n
  <2>5. SocketsInv'
    <3>1. sockets' \in Seq(SocketRecords) /\ Len(sockets') <= MaxSockets
      BY <2>3
    <3>2. socketOf' \in [AdapterSessions -> 0..(n + 1)]
          /\ task' \in [AdapterSessions -> [at : {"none", "created", "reading"}, socket : 0..(n + 1)]]
      BY <1>0, <2>2, <2>4 DEF SocketsInv, n
    <3>3. unread' \in [AdapterSessions -> 0..MaxUnread] /\ prompted' \subseteq AdapterSessions
      BY <1>0, <2>2 DEF SocketsInv
    <3>4. handling' \in [at : Requests, of : UNION {AdapterSessions, {NotHandling.of}}]
      BY <2>2 DEF Requests
    <3> QED
      BY <1>0, <2>2, <2>3, <3>1, <3>2, <3>3, <3>4 DEF SocketsInv
  <2>7. \A r \in AdapterSessions : /\ socketOf[r] \in 0..n /\ task[r].socket \in 0..n
                                   /\ socketOf'[r] = (IF r = s THEN n + 1 ELSE socketOf[r])
    BY <1>0, <2>2 DEF SocketsInv, n
  <2>8. ASSUME NEW k \in 1..(n + 1) PROVE OpenFits(k)'
    <3>1. CASE k = n + 1
      BY <2>1, <2>3, <2>7, <3>1 DEF OpenFits
    <3>2. CASE k \in 1..n
      <4>1. OpenFits(k) /\ sockets'[k] = sockets[k] /\ sockets[k].of \in AdapterSessions /\ k # 0
        <5>1. sockets \in Seq(SocketRecords) /\ k \in 1..Len(sockets) /\ sockets'[k] = sockets[k] /\ k # 0
          BY <1>0, <2>3, <3>2 DEF SocketsInv, n
        <5>2. OpenFits(k)
          BY <1>0, <5>1 DEF AdapterInv
        <5>3. sockets[k] \in SocketRecords
          BY <5>1
        <5>4. sockets[k].of \in AdapterSessions
          BY <5>3 DEF SocketRecords
        <5> QED
          BY <5>1, <5>2, <5>4
      <4>2. sockets[k].open => sockets[k].of # s
        BY <2>0, <4>1 DEF OpenFits, Live
      <4> QED
        BY <2>7, <4>1, <4>2 DEF OpenFits
    <3> QED
      BY <2>4, <3>1, <3>2
  <2>9. ASSUME NEW r \in AdapterSessions PROVE ReaderFits(r)'
    <3>1. ReaderFits(r) /\ (task[r].socket # 0 => sockets'[task[r].socket] = sockets[task[r].socket])
      BY <1>0, <2>3, <2>7 DEF AdapterInv, n
    <3> QED
      BY <2>0, <2>2, <2>7, <3>1 DEF ReaderFits, Live
  <2>10. ASSUME NEW r \in AdapterSessions PROVE OwnFits(r)'
    <3>1. CASE r = s
      BY <2>2, <3>1 DEF OwnFits
    <3>2. CASE r # s
      <4>1. OwnFits(r) /\ (socketOf[r] # 0 => sockets'[socketOf[r]] = sockets[socketOf[r]])
        BY <1>0, <2>3, <2>7 DEF AdapterInv, n
      <4> QED
        BY <2>2, <2>7, <3>2, <4>1 DEF OwnFits, Live
    <3> QED
      BY <3>1, <3>2
  <2>11. ASSUME NEW r \in AdapterSessions PROVE StageFits(r)'
    <3>1. unread'[s] = 0 /\ 0 < MaxUnread
      BY <1>0, <2>0, <2>2 DEF SocketsInv
    <3> QED
      BY <2>2, <3>1 DEF StageFits, At
  <2> QED
    BY <2>3, <2>5, <2>8, <2>9, <2>10, <2>11 DEF AdapterInv
<1>7. ASSUME NEW s \in AdapterSessions, SubmitSent(s) PROVE AdapterInv'
  <2>1. CASE ~Live(socketOf[s])
    <3>1. handling' = NotHandling /\ UNCHANGED <<sockets, socketOf, task, gone, prompted, unread, written>>
      BY <1>7, <2>1 DEF SubmitSent
    <3> QED
      BY <1>0, <1>1, <3>1 DEF SocketsInv
  <2>2. CASE Live(socketOf[s])
    <3>1. /\ handling' = NotHandling /\ unread' = [unread EXCEPT ![s] = @ + 1]
          /\ prompted' = IF task[s].at = "none" THEN prompted \union {s} ELSE prompted
          /\ task' = IF task[s].at = "none" THEN [task EXCEPT ![s] = [at |-> "created", socket |-> socketOf[s]]]
                     ELSE task
          /\ UNCHANGED <<sockets, socketOf, gone, written>>
      BY <1>7, <2>2 DEF SubmitSent, ReaderStarted
    <3>2. socketOf[s] # 0 /\ sockets[socketOf[s]].open
      BY <2>2 DEF Live
    <3>3. ASSUME NEW r \in AdapterSessions
          PROVE  task'[r] = (IF r = s /\ task[s].at = "none" THEN [at |-> "created", socket |-> socketOf[s]]
                             ELSE task[r])
      BY <1>0, <3>1 DEF SocketsInv
    <3>4. ASSUME NEW r \in AdapterSessions PROVE ReaderFits(r)' /\ OwnFits(r)' /\ StageFits(r)'
      <4>1. ReaderFits(r) /\ OwnFits(r)
        BY DEF AdapterInv
      <4>2. ReaderFits(r)'
        BY <3>1, <3>2, <3>3, <4>1 DEF ReaderFits
      <4>3. OwnFits(r)'
        BY <3>1, <3>3, <4>1 DEF OwnFits, Live
      <4>4. StageFits(r)'
        BY <3>1 DEF StageFits, At, NotHandling
      <4> QED
        BY <4>2, <4>3, <4>4
    <3>5. SocketsInv'
      <4>1. unread[s] \in 0..MaxUnread /\ unread[s] < MaxUnread
        BY <1>0, <1>7 DEF SubmitSent, AdapterInv, StageFits, SocketsInv
      <4>2. unread[s] + 1 \in 0..MaxUnread
        BY <4>1
      <4>3. unread' \in [AdapterSessions -> 0..MaxUnread]
        BY <1>0, <3>1, <4>2 DEF SocketsInv
      <4>4. task' \in [AdapterSessions -> [at : {"none", "created", "reading"}, socket : 0..n]]
        BY <1>0, <3>1 DEF SocketsInv
      <4>5. handling' \in [at : Requests, of : UNION {AdapterSessions, {NotHandling.of}}]
        BY <3>1 DEF NotHandling, Requests
      <4>6. prompted' \subseteq AdapterSessions
        BY <1>0, <3>1 DEF SocketsInv
      <4> QED
        BY <1>0, <3>1, <4>3, <4>4, <4>5, <4>6 DEF SocketsInv
    <3>6. \A k \in 1..n : OpenFits(k)'
      BY <3>1 DEF AdapterInv, OpenFits
    <3> QED
      BY <3>1, <3>4, <3>5, <3>6 DEF AdapterInv
  <2> QED
    BY <2>1, <2>2
\* The stages of a step that leaves the requests, the connections of the sessions and what
\* waits for completion alone.
<1>8. ASSUME UNCHANGED <<handling, socketOf>>, \A r \in AdapterSessions : unread'[r] <= unread[r],
             SocketsInv', \A k \in 0..n : Live(k)' => Live(k)
      PROVE  \A r \in AdapterSessions : StageFits(r)'
  <2> SUFFICES ASSUME NEW r \in AdapterSessions PROVE StageFits(r)'
    OBVIOUS
  <2>1. StageFits(r) /\ unread[r] \in 0..MaxUnread /\ unread'[r] \in 0..MaxUnread /\ unread'[r] <= unread[r]
        /\ socketOf[r] \in 0..n
    BY <1>0, <1>8 DEF AdapterInv, SocketsInv
  <2>2. unread[r] < MaxUnread => unread'[r] < MaxUnread
    BY <2>1
  <2> QED
    BY <1>8, <2>1, <2>2 DEF StageFits, At
<1>9. ASSUME NEW k \in 1..n, NEW new \in SocketRecords, new.of = sockets[k].of,
             sockets[k].open \/ ~new.open, sockets' = [sockets EXCEPT ![k] = new],
             UNCHANGED <<socketOf, task, handling, gone, prompted, unread, written>>
      PROVE  AdapterInv'
  <2>1. /\ sockets' \in Seq(SocketRecords) /\ Len(sockets') = n
        /\ \A i \in 1..n : (sockets'[i].open => sockets[i].open) /\ sockets'[i].of = sockets[i].of
    BY <1>0, <1>9, SocketChanges
  <2> HIDE DEF n
  <2>2. SocketsInv'
    BY <1>0, <1>9, <2>1 DEF SocketsInv, n
  <2>3. \A i \in 0..n : Live(i)' => Live(i)
    BY <1>0, <2>1 DEF Live
  <2>4. \A r \in AdapterSessions : unread'[r] <= unread[r]
    BY <1>0, <1>9 DEF SocketsInv
  <2>5. \A r \in AdapterSessions : StageFits(r)'
    BY <1>8, <1>9, <2>2, <2>3, <2>4
  <2> QED
    BY <1>9, <2>1, <2>2, <2>5, AdapterCalms DEF n
<1>10. ASSUME NEW k \in DOMAIN sockets, NEW event \in {"delta", "completed"}, BackendSays(k, event)
       PROVE  AdapterInv'
  <2> DEFINE new == [sockets[k] EXCEPT !.queue = Append(@, event)]
  <2>1. k \in 1..n /\ sockets[k] \in SocketRecords
    BY <1>0 DEF SocketsInv
  <2>2. new \in SocketRecords /\ new.open = sockets[k].open /\ new.of = sockets[k].of
    <3>1. Len(sockets[k].queue) < 2
      BY <1>10 DEF BackendSays
    <3> QED
      BY <2>1, <3>1 DEF SocketRecords
  <2>3. /\ sockets' = [sockets EXCEPT ![k] = new] /\ sockets[k].open
        /\ UNCHANGED <<socketOf, task, handling, gone, prompted, unread, written>>
    BY <1>10 DEF BackendSays, Live
  <2> HIDE DEF new
  <2> QED
    BY <1>9, <2>1, <2>2, <2>3
<1>11. ASSUME NEW k \in DOMAIN sockets, BackendLeaves(k) PROVE AdapterInv'
  <2> DEFINE new == [sockets[k] EXCEPT !.open = FALSE]
  <2>1. k \in 1..n /\ sockets[k] \in SocketRecords
    BY <1>0 DEF SocketsInv
  <2>2. new \in SocketRecords /\ new.open = FALSE /\ new.of = sockets[k].of
    BY <2>1, SocketCloses
  <2>3. /\ sockets' = [sockets EXCEPT ![k] = new]
        /\ UNCHANGED <<socketOf, task, handling, gone, prompted, unread, written>>
    BY <1>11 DEF BackendLeaves
  <2> HIDE DEF new
  <2> QED
    BY <1>9, <2>1, <2>2, <2>3
<1>12. ASSUME NEW s \in AdapterSessions, TaskBegins(s) PROVE AdapterInv'
  <2>1. /\ task' = [task EXCEPT ![s].at = "reading"] /\ task[s].at = "created"
        /\ UNCHANGED <<sockets, socketOf, handling, gone, prompted, unread, written>>
    BY <1>12 DEF TaskBegins
  <2>2. SocketsInv'
    BY <1>0, <2>1 DEF SocketsInv
  <2>3. \A r \in AdapterSessions : task'[r].socket = task[r].socket /\ (task'[r].at = "none" <=> task[r].at = "none")
    BY <1>0, <2>1 DEF SocketsInv
  <2>4. \A r \in AdapterSessions : StageFits(r)'
    BY <2>1 DEF AdapterInv, StageFits, At, Live
  <2> QED
    BY <2>1, <2>2, <2>3, <2>4, AdapterCalms
\* A reader that is taken out of the table.
<1>13. ASSUME NEW s \in AdapterSessions, task' = Unregistered(s), SocketsInv
       PROVE  /\ task' \in [AdapterSessions -> [at : {"none", "created", "reading"}, socket : 0..n]]
              /\ \A r \in AdapterSessions : IF r = s THEN task'[r].at = "none" ELSE task'[r] = task[r]
  <2>1. NoTask \in [at : {"none", "created", "reading"}, socket : 0..n] /\ NoTask.at = "none"
    BY <1>0 DEF NoTask
  <2> QED
    BY <1>13, <2>1 DEF SocketsInv, Unregistered
<1>14. ASSUME NEW s \in AdapterSessions, TaskEnds(s) PROVE AdapterInv'
  <2>1. /\ task' = Unregistered(s) /\ task[s].socket # 0 /\ ~sockets[task[s].socket].open
        /\ UNCHANGED <<sockets, socketOf, handling, gone, prompted, unread, written>>
    BY <1>14 DEF TaskEnds, Running
  <2>2. s \in prompted => ~Live(socketOf[s])
    BY <2>1 DEF AdapterInv, OwnFits, Live
  <2>3. SocketsInv'
    BY <1>0, <1>13, <2>1 DEF SocketsInv
  <2>4. \A r \in AdapterSessions : StageFits(r)'
    BY <2>1 DEF AdapterInv, StageFits, At, Live
  <2> QED
    BY <1>0, <1>13, <2>1, <2>2, <2>3, <2>4, AdapterCalms
<1>15. ASSUME NEW s \in AdapterSessions, ReaderCancelled(s) PROVE AdapterInv'
  <2>1. /\ task' = Unregistered(s) /\ UNCHANGED <<sockets, socketOf, gone, prompted, unread, written>>
        /\ handling' = NotHandling \/ handling' = [at |-> "delete", of |-> s]
        /\ handling = [at |-> "cancel", of |-> s]
    BY <1>15 DEF ReaderCancelled, Goes, At
  <2>2. ~Live(socketOf[s])
    BY <2>1 DEF AdapterInv, StageFits, At, Live
  <2>3. SocketsInv'
    <3>1. handling' \in [at : Requests, of : UNION {AdapterSessions, {NotHandling.of}}]
      BY <2>1 DEF Requests, NotHandling
    <3> QED
      BY <1>0, <1>13, <2>1, <3>1 DEF SocketsInv
  <2>4. \A r \in AdapterSessions : StageFits(r)'
    BY <2>1 DEF StageFits, At, NotHandling
  <2> QED
    BY <1>0, <1>13, <2>1, <2>2, <2>3, <2>4, AdapterCalms
<1>16. ASSUME NEW s \in AdapterSessions, SocketClosed(s) PROVE AdapterInv'
  <2> DEFINE k == socketOf[s]
             new == [sockets[k] EXCEPT !.open = FALSE]
  <2>1. k \in 1..n
    BY <1>0, <1>16 DEF SocketClosed, AdapterInv, StageFits, SocketsInv
  <2>2. new \in SocketRecords /\ new.open = FALSE /\ new.of = sockets[k].of
    <3>1. sockets[k] \in SocketRecords
      BY <1>0, <2>1 DEF SocketsInv
    <3> HIDE DEF k
    <3> QED
      BY <3>1, SocketCloses
  <2>3. /\ sockets' = [sockets EXCEPT ![k] = new] /\ socketOf' = [socketOf EXCEPT ![s] = 0]
        /\ handling' = [at |-> "cancel", of |-> s] /\ UNCHANGED <<task, gone, prompted, unread, written>>
    BY <1>16 DEF SocketClosed, Goes
  <2> HIDE DEF new
  <2>4. /\ sockets' \in Seq(SocketRecords) /\ Len(sockets') = n
        /\ \A i \in 1..n : (sockets'[i].open => sockets[i].open) /\ sockets'[i].of = sockets[i].of
    BY <1>0, <2>1, <2>2, <2>3, SocketChanges
  <2>5. ~sockets'[k].open
    BY <1>0, <2>1, <2>2, <2>3, ExceptSeq DEF SocketsInv
  <2> HIDE DEF n
  <2>6. SocketsInv'
    <3>1. socketOf' \in [AdapterSessions -> 0..n]
      BY <1>0, <2>3 DEF SocketsInv, n
    <3>2. handling' \in [at : Requests, of : UNION {AdapterSessions, {NotHandling.of}}]
      BY <2>3 DEF Requests
    <3> QED
      BY <1>0, <2>3, <2>4, <3>1, <3>2 DEF SocketsInv, n
  <2>7. \A r \in AdapterSessions : /\ socketOf'[r] = (IF r = s THEN 0 ELSE socketOf[r])
                                   /\ socketOf[r] \in 0..n /\ task[r].socket \in 0..n
    BY <1>0, <2>3 DEF SocketsInv, n
  <2>8. ASSUME NEW j \in 1..n PROVE OpenFits(j)'
    <3>1. OpenFits(j) /\ sockets[j].of \in AdapterSessions
      <4>1. sockets \in Seq(SocketRecords) /\ j \in 1..Len(sockets)
        BY <1>0 DEF SocketsInv, n
      <4>2. OpenFits(j)
        BY <1>0, <4>1 DEF AdapterInv
      <4>3. sockets[j] \in SocketRecords
        BY <4>1
      <4>4. sockets[j].of \in AdapterSessions
        BY <4>3 DEF SocketRecords
      <4> QED
        BY <4>2, <4>4
    <3>2. sockets'[j].open => j # k /\ sockets[j].open
      BY <2>4, <2>5
    <3> QED
      BY <2>4, <2>7, <3>1, <3>2 DEF OpenFits, k
  <2>9. ASSUME NEW r \in AdapterSessions PROVE ReaderFits(r)'
    <3>1. ReaderFits(r) /\ (task[r].socket # 0 => task[r].socket \in 1..n)
      BY <1>0, <2>7 DEF AdapterInv
    <3>2. CASE r = s
      BY <2>3, <2>4, <2>5, <3>1, <3>2 DEF ReaderFits, k
    <3>3. CASE r # s
      BY <2>3, <2>4, <2>7, <3>1, <3>3 DEF ReaderFits
    <3> QED
      BY <3>2, <3>3
  <2>10. ASSUME NEW r \in AdapterSessions PROVE OwnFits(r)'
    <3>1. OwnFits(r) /\ (socketOf[r] # 0 => socketOf[r] \in 1..n)
      BY <1>0, <2>7 DEF AdapterInv
    <3>2. CASE r = s
      BY <2>7, <3>2 DEF OwnFits, Live
    <3>3. CASE r # s
      BY <2>3, <2>4, <2>7, <3>1, <3>3 DEF OwnFits, Live
    <3> QED
      BY <3>2, <3>3
  <2>11. \A r \in AdapterSessions : StageFits(r)'
    BY <2>3, <2>7 DEF StageFits, At
  <2> QED
    BY <2>4, <2>6, <2>8, <2>9, <2>10, <2>11 DEF AdapterInv
<1>17. ASSUME NEW s \in AdapterSessions, TaskReads(s) PROVE AdapterInv'
  <2> DEFINE k == task[s].socket
             new == [sockets[k] EXCEPT !.queue = Tail(@)]
  <2>1. k \in 1..n /\ sockets[k] \in SocketRecords /\ sockets[k].queue # <<>>
    BY <1>0, <1>17 DEF TaskReads, Running, SocketsInv
  <2>2. new \in SocketRecords /\ new.open = sockets[k].open /\ new.of = sockets[k].of
    BY <2>1, QueueShortens
  <2>3. sockets' = [sockets EXCEPT ![k] = new] /\ UNCHANGED <<socketOf, handling, gone>>
    BY <1>17 DEF TaskReads
  <2> HIDE DEF new
  <2>4. /\ sockets' \in Seq(SocketRecords) /\ Len(sockets') = n
        /\ \A i \in 1..n : (sockets'[i].open => sockets[i].open) /\ sockets'[i].of = sockets[i].of
    BY <1>0, <2>1, <2>2, <2>3, SocketChanges
  <2>5. written' \in [AdapterSessions -> 0..MaxWritten]
    <3>1. written' = [written EXCEPT ![s] = @ + 1] /\ written[s] < MaxWritten
      BY <1>17 DEF TaskReads
    <3> QED
      BY <1>0, <3>1 DEF SocketsInv
  <2>6. \/ UNCHANGED <<task, prompted>>
        \/ task' = Unregistered(s) /\ prompted' = prompted \ {s}
    BY <1>17 DEF TaskReads
  <2>7. unread' = unread \/ (unread[s] > 0 /\ unread' = [unread EXCEPT ![s] = @ - 1])
    BY <1>17 DEF TaskReads
  <2> HIDE DEF k
  <2>8. unread' \in [AdapterSessions -> 0..MaxUnread] /\ \A r \in AdapterSessions : unread'[r] <= unread[r]
    <3>1. unread[s] \in 0..MaxUnread /\ (unread[s] > 0 => unread[s] - 1 \in 0..MaxUnread /\ unread[s] - 1 <= unread[s])
          /\ \A r \in AdapterSessions : unread[r] <= unread[r]
      BY <1>0 DEF SocketsInv
    <3>2. unread \in [AdapterSessions -> 0..MaxUnread]
      BY <1>0 DEF SocketsInv
    <3>3. CASE unread' = unread
      BY <3>1, <3>2, <3>3
    <3>4. CASE unread[s] > 0 /\ unread' = [unread EXCEPT ![s] = @ - 1]
      <4>1. \A r \in AdapterSessions : unread'[r] = (IF r = s THEN unread[s] - 1 ELSE unread[r])
        BY <3>2, <3>4
      <4>2. unread' \in [AdapterSessions -> 0..MaxUnread]
        BY <3>1, <3>2, <3>4
      <4> QED
        BY <3>1, <3>4, <4>1, <4>2
    <3> QED
      BY <2>7, <3>3, <3>4
  <2>9. SocketsInv'
    <3>1. task' \in [AdapterSessions -> [at : {"none", "created", "reading"}, socket : 0..n]]
      <4>1. task \in [AdapterSessions -> [at : {"none", "created", "reading"}, socket : 0..n]]
        BY <1>0 DEF SocketsInv
      <4> QED
        BY <1>0, <1>13, <2>6, <4>1
    <3>2. prompted' \subseteq AdapterSessions
      BY <1>0, <2>6 DEF SocketsInv
    <3> QED
      BY <1>0, <2>3, <2>4, <2>5, <2>8, <3>1, <3>2 DEF SocketsInv
  <2> HIDE DEF n
  <2>10. \A i \in 0..n : Live(i)' => Live(i)
    BY <1>0, <2>4 DEF Live
  <2>11. \A r \in AdapterSessions : StageFits(r)'
    BY <1>8, <2>3, <2>8, <2>9, <2>10
  <2>12. ASSUME NEW r \in AdapterSessions
         PROVE  task'[r] = task[r] \/ (task'[r].at = "none" /\ r \notin prompted')
    BY <1>0, <1>13, <2>6
  <2>13. \A r \in AdapterSessions : \/ task'[r].socket = task[r].socket /\ (task'[r].at = "none" <=> task[r].at = "none")
                                    \/ task'[r].at = "none" /\ (r \in prompted' => ~Live(socketOf[r]))
    BY <2>12
  <2>14. prompted' \subseteq prompted /\ socketOf' = socketOf /\ Len(sockets') = Len(sockets)
    BY <2>3, <2>4, <2>6 DEF n
  <2> QED
    BY <2>4, <2>9, <2>11, <2>13, <2>14, AdapterCalms DEF n
<1>18. CASE UNCHANGED adapterVars
  <2>1. UNCHANGED <<sockets, socketOf, task, handling, gone, prompted, unread, written>>
    BY <1>18 DEF adapterVars
  <2>2. SocketsInv'
    BY <1>0, <2>1 DEF SocketsInv
  <2>3. \A r \in AdapterSessions : StageFits(r)'
    BY <2>1 DEF AdapterInv, StageFits, At, Live
  <2> QED
    BY <2>1, <2>2, <2>3, AdapterCalms
<1> QED
  BY <1>3, <1>4, <1>5, <1>6, <1>7, <1>10, <1>11, <1>12, <1>14, <1>15, <1>16, <1>17, <1>18 DEF AdapterNext

\* What the invariant says of the adapter to a reader.
LEMMA AdapterIsTyped == AdapterInv => AdapterTypeOK /\ AcceptedAreRead
<1> SUFFICES ASSUME AdapterInv PROVE AdapterTypeOK /\ AcceptedAreRead
  OBVIOUS
<1>1. SocketsInv /\ MaxSockets \in Nat
  BY AdapterAssumption DEF AdapterInv, AdapterAssumption
<1>2. \A k \in DOMAIN sockets : sockets[k].of \in AdapterSessions /\ Len(sockets[k].queue) <= 2
  <2>1. \A k \in DOMAIN sockets : sockets[k] \in SocketRecords
    BY <1>1 DEF SocketsInv
  <2> QED
    BY <2>1 DEF SocketRecords
<1>3. socketOf \in [AdapterSessions -> 0..MaxSockets]
  <2>1. Len(sockets) \in Nat /\ Len(sockets) <= MaxSockets
    BY <1>1 DEF SocketsInv
  <2>2. 0..Len(sockets) \subseteq 0..MaxSockets
    BY <1>1, <2>1
  <2> QED
    BY <1>1, <2>2 DEF SocketsInv
<1>4. \A s \in AdapterSessions : task[s].at \in {"none", "created", "reading"}
  BY <1>1 DEF SocketsInv
<1>5. handling.at \in {"readline", "connect", "send", "close", "cancel", "delete", "other"}
  BY <1>1 DEF SocketsInv, Requests
<1>6. gone \subseteq AdapterSessions /\ written \in [AdapterSessions -> 0..MaxWritten]
      /\ unread \in [AdapterSessions -> 0..MaxUnread]
  BY <1>1 DEF SocketsInv
<1>7. AcceptedAreRead
  <2>1. \A k \in DOMAIN sockets : OpenFits(k)
    BY <1>1 DEF AdapterInv, SocketsInv
  <2>2. \A s \in AdapterSessions : ReaderFits(s) /\ OwnFits(s)
    BY DEF AdapterInv
  <2>3. prompted \subseteq AdapterSessions
    BY <1>1 DEF SocketsInv
  <2> QED
    BY <2>1, <2>2, <2>3 DEF AcceptedAreRead, OpenFits, ReaderFits, OwnFits
<1> QED
  BY <1>2, <1>3, <1>4, <1>5, <1>6, <1>7 DEF AdapterTypeOK

-----------------------------------------------------------------------------
\* The hooks: a fire has run, by priority, what it does not have left.

HookRecords == [fn : {"audit", "thermal"} \union CustomHooks, priority : Nat]

Ascending(hooks) == \A j, k \in 1..Len(hooks) : j < k => hooks[j].priority <= hooks[k].priority

\* Of two handlers exactly one runs before the other, so the rank of a handler is its
\* place: the handlers are put in order, and none is lost.
LEMMA OrderedByPriority ==
  ASSUME NEW hooks \in Seq(HookRecords)
  PROVE  /\ Ordered(hooks) \in Seq(HookRecords) /\ Len(Ordered(hooks)) = Len(hooks)
         /\ Ascending(Ordered(hooks))
<1> DEFINE n == Len(hooks)
           before(i, j) == hooks[i].priority < hooks[j].priority \/ (hooks[i].priority = hooks[j].priority /\ i < j)
           ahead(i) == {j \in 1..n : before(j, i)}
           rank(i) == Cardinality(ahead(i)) + 1
           ranks == [i \in 1..n |-> rank(i)]
           at(m) == CHOOSE i \in 1..n : rank(i) = m
<1>1. n \in Nat /\ \A i \in 1..n : hooks[i].priority \in Int
  <2>1. \A h \in HookRecords : h.priority \in Int
    BY DEF HookRecords
  <2>2. n \in Nat /\ \A i \in 1..n : hooks[i] \in HookRecords
    OBVIOUS
  <2> QED
    BY <2>1, <2>2
<1>13. \A i \in 1..n : hooks[i] \in HookRecords
  OBVIOUS
<1>2. Ordered(hooks) = [m \in 1..n |-> hooks[at(m)]]
  BY DEF Ordered
<1> HIDE DEF n
<1>3. IsFiniteSet(1..n) /\ Cardinality(1..n) = n
  BY <1>1, CountUpTo
<1>4. ASSUME NEW i \in 1..n PROVE IsFiniteSet(ahead(i)) /\ ahead(i) \subseteq 1..n /\ i \notin ahead(i)
  <2>1. i \notin ahead(i)
    BY <1>1
  <2> QED
    BY <1>3, <2>1, FS_Subset
<1>5. ASSUME NEW i \in 1..n PROVE rank(i) \in 1..n
  <2> DEFINE A == ahead(i)
  <2>1. Cardinality(A) \in Nat /\ Cardinality(A) <= n
    <3> HIDE DEF A
    <3>1. IsFiniteSet(A) /\ A \in SUBSET (1..n)
      BY <1>4 DEF A
    <3> QED
      BY <1>3, <3>1, FS_Subset, FS_CardinalityType
  <2>2. Cardinality(A) # n
    <3>1. A \in SUBSET (1..n) /\ A # 1..n
      BY <1>4
    <3> HIDE DEF A
    <3> QED
      BY <1>3, <3>1, FS_Subset
  <2> HIDE DEF A
  <2>3. Cardinality(A) + 1 \in 1..n
    BY <1>1, <2>1, <2>2
  <2> QED
    BY <2>3 DEF A
<1>6. ASSUME NEW i \in 1..n, NEW j \in 1..n, before(i, j) PROVE rank(i) < rank(j)
  <2> DEFINE A == ahead(i)
             B == ahead(j)
  <2>1. \A k \in 1..n : before(k, i) => before(k, j)
    BY <1>1, <1>6
  <2>2. A \in SUBSET B /\ A # B
    <3>1. i \in B /\ i \notin A
      BY <1>4, <1>6
    <3> QED
      BY <2>1, <3>1
  <2>3. IsFiniteSet(B)
    BY <1>4
  <2> HIDE DEF A, B
  <2>4. Cardinality(A) <= Cardinality(B) /\ Cardinality(A) # Cardinality(B)
        /\ Cardinality(A) \in Nat /\ Cardinality(B) \in Nat
    BY <2>2, <2>3, FS_Subset, FS_CardinalityType
  <2>5. Cardinality(A) + 1 < Cardinality(B) + 1
    BY <2>4
  <2> QED
    BY <2>5 DEF A, B
<1>7. \A i, j \in 1..n : i # j => before(i, j) \/ before(j, i)
  BY <1>1
<1> HIDE DEF before, ahead
<1>8. \A i, j \in 1..n : rank(i) = rank(j) => i = j
  <2>1. SUFFICES ASSUME NEW i \in 1..n, NEW j \in 1..n, i # j, rank(i) = rank(j) PROVE FALSE
    OBVIOUS
  <2>2. rank(i) < rank(j) \/ rank(j) < rank(i)
    BY <1>6, <1>7, <2>1
  <2>3. rank(i) \in 1..n
    BY <1>5
  <2> HIDE DEF rank
  <2> QED
    BY <1>1, <2>1, <2>2, <2>3
<1>9. ASSUME NEW m \in 1..n PROVE at(m) \in 1..n /\ rank(at(m)) = m
  <2>1. ranks \in Injection(1..n, 1..n)
    <3> HIDE DEF rank
    <3> QED
      BY <1>5, <1>8 DEF Injection, IsInjective
  <2>2. ranks \in Surjection(1..n, 1..n)
    <3> HIDE DEF ranks
    <3> QED
      BY <1>3, <2>1, FS_Injection
  <2>3. \E i \in 1..n : rank(i) = m
    <3> HIDE DEF rank
    <3> QED
      BY <2>2 DEF Surjection
  <2> HIDE DEF rank
  <2> QED
    BY <2>3
<1>10. Ordered(hooks) \in Seq(HookRecords) /\ Len(Ordered(hooks)) = n
  <2>1. \A m \in 1..n : hooks[at(m)] \in HookRecords
    BY <1>9, <1>13
  <2> HIDE DEF at
  <2> QED
    BY <1>1, <1>2, <2>1
<1>11. ASSUME NEW j \in 1..n, NEW k \in 1..n, j < k
       PROVE  hooks[at(j)].priority <= hooks[at(k)].priority
  <2>1. at(j) \in 1..n /\ at(k) \in 1..n /\ rank(at(j)) = j /\ rank(at(k)) = k
    BY <1>9
  <2> DEFINE a == at(j)
             b == at(k)
  <2>2. a \in 1..n /\ b \in 1..n /\ ~(rank(b) < rank(a))
    BY <1>1, <1>11, <2>1
  <2> HIDE DEF a, b, rank
  <2>3. ~before(b, a)
    BY <1>6, <2>2
  <2>4. hooks[a].priority <= hooks[b].priority
    BY <1>1, <2>2, <2>3 DEF before
  <2> QED
    BY <2>4 DEF a, b
<1>12. Ascending(Ordered(hooks))
  <2> HIDE DEF at
  <2> QED
    BY <1>2, <1>10, <1>11 DEF Ascending
<1> QED
  BY <1>10, <1>12 DEF n

Verdicts == {"continue", "abort", "reject", "raised"}

FireRecords == [stop : BOOLEAN, due : Seq(HookRecords), left : Seq(HookRecords), results : Seq(Verdicts)]

\* A fire has a result for each handler that is not left, unless one said to stop.
FireIsComplete(f) ==
    /\ Ascending(f.due)
    /\ \/ Len(f.results) + Len(f.left) = Len(f.due)
       \/ /\ f.left = <<>> /\ Len(f.results) < Len(f.due)
          /\ f.stop /\ f.results[Len(f.results)] \in {"abort", "reject"}

HooksInv ==
    /\ handlers \in [Events -> Seq(HookRecords)]
    /\ fires \in Seq({f \in FireRecords : FireIsComplete(f)})
    /\ Len(fires) <= MaxFires /\ (tool # NoTool => Len(fires) < MaxFires)
    /\ tool \in {NoTool, "runs"} \union FilePaths
    /\ seen_artifacts \in [FilePaths -> 0..MaxWrites]

\* The first state of the hooks has the invariant.
LEMMA HooksInitially == HooksInit => HooksInv
<1> SUFFICES ASSUME HooksInit PROVE HooksInv
  OBVIOUS
<1>1. handlers \in [Events -> Seq(HookRecords)]
  <2>1. Hook("audit", 50) \in HookRecords /\ Hook("thermal", 50) \in HookRecords
    BY DEF Hook, HookRecords
  <2> QED
    BY <2>1 DEF HooksInit
<1>2. fires \in Seq({f \in FireRecords : FireIsComplete(f)}) /\ Len(fires) = 0
  BY DEF HooksInit
<1>3. seen_artifacts \in [FilePaths -> 0..MaxWrites]
  BY HookAssumption DEF HooksInit
<1> QED
  BY <1>1, <1>2, <1>3, HookAssumption DEF HooksInit, HooksInv

\* A fire that begins has everything due left to run.
LEMMA FiresBegin ==
  ASSUME HooksInv, NEW event \in Events, NEW stop \in BOOLEAN, Len(fires) < MaxFires
  PROVE  /\ Fired(event, stop) \in Seq({f \in FireRecords : FireIsComplete(f)})
         /\ Len(Fired(event, stop)) = Len(fires) + 1
<1> DEFINE due == Ordered(Snapshot(event))
           f == [stop |-> stop, due |-> due, left |-> due, results |-> <<>>]
<1>1. Snapshot(event) \in Seq(HookRecords)
  BY DEF Snapshot, HooksInv
<1>2. due \in Seq(HookRecords) /\ Ascending(due)
  BY <1>1, OrderedByPriority
<1> HIDE DEF due
<1>3. f \in FireRecords
  BY <1>2 DEF FireRecords
<1>4. Len(f.results) + Len(f.left) = Len(f.due)
  BY <1>2
<1>5. FireIsComplete(f)
  BY <1>2, <1>4 DEF FireIsComplete
<1>6. Fired(event, stop) = Append(fires, f)
  BY DEF Fired, due
<1> HIDE DEF f
<1> QED
  BY <1>3, <1>5, <1>6 DEF HooksInv

\* A fire in which one more hook has run is complete so far.
LEMMA OneHookRuns ==
  ASSUME NEW f \in FireRecords, FireIsComplete(f), f.left # <<>>, NEW outcome \in Verdicts,
         NEW ends \in BOOLEAN, ends => f.stop /\ outcome \in {"abort", "reject"},
         NEW left, left = IF ends THEN <<>> ELSE Tail(f.left),
         NEW results, results = Append(f.results, outcome)
  PROVE  LET new == [stop |-> f.stop, due |-> f.due, left |-> left, results |-> results]
         IN  new \in FireRecords /\ FireIsComplete(new)
<1> DEFINE new == [stop |-> f.stop, due |-> f.due, left |-> left, results |-> results]
<1>1. /\ f.left \in Seq(HookRecords) /\ f.results \in Seq(Verdicts) /\ f.due \in Seq(HookRecords)
      /\ f.stop \in BOOLEAN
  BY DEF FireRecords
<1>2. left \in Seq(HookRecords) /\ results \in Seq(Verdicts)
  BY <1>1
<1>3. Len(f.left) \in Nat /\ Len(f.results) \in Nat /\ Len(f.due) \in Nat /\ Len(f.left) # 0
  BY <1>1
<1>4. Ascending(f.due) /\ Len(f.results) + Len(f.left) = Len(f.due)
  BY DEF FireIsComplete
<1>5. Len(results) = Len(f.results) + 1 /\ results[Len(f.results) + 1] = outcome
  BY <1>1
<1>6. new \in FireRecords
  BY <1>1, <1>2 DEF FireRecords
<1>7. \/ Len(results) + Len(left) = Len(f.due)
      \/ ends /\ left = <<>> /\ Len(results) < Len(f.due)
  <2> DEFINE r == Len(f.results)
             d == Len(f.due)
             m == Len(f.left)
             n == Len(results)
  <2>1. r \in Nat /\ d \in Nat /\ m \in Nat /\ m # 0 /\ r + m = d /\ n = r + 1
    BY <1>3, <1>4, <1>5
  <2>2. CASE ends
    <3>1. left = <<>> /\ Len(left) = 0
      BY <2>2
    <3> HIDE DEF r, d, m, n
    <3>2. n + 0 = d \/ n < d
      BY <2>1
    <3> QED
      BY <2>2, <3>1, <3>2 DEF n, d
  <2>3. CASE ~ends
    <3>1. Len(left) = m - 1
      BY <1>1, <2>3
    <3> DEFINE k == Len(left)
    <3>2. k = m - 1
      BY <3>1
    <3> HIDE DEF r, d, m, n, k
    <3>3. n + k = d
      BY <2>1, <3>2
    <3> QED
      BY <3>3 DEF n, d, k
  <2> QED
    BY <2>2, <2>3
<1>8. CASE ends /\ left = <<>> /\ Len(results) < Len(f.due)
  <2>1. new.left = <<>> /\ Len(new.results) < Len(new.due) /\ new.stop
        /\ new.results[Len(new.results)] \in {"abort", "reject"}
    BY <1>5, <1>8
  <2> QED
    BY <1>4, <1>6, <2>1 DEF FireIsComplete
<1>9. CASE Len(results) + Len(left) = Len(f.due)
  BY <1>4, <1>6, <1>9 DEF FireIsComplete
<1> QED
  BY <1>7, <1>8, <1>9

\* Every step of the hooks keeps the invariant.
LEMMA HooksStep == HooksInv /\ [HooksNext]_hookVars => HooksInv'
<1> SUFFICES ASSUME HooksInv, [HooksNext]_hookVars PROVE HooksInv'
  OBVIOUS
<1> DEFINE Good == {f \in FireRecords : FireIsComplete(f)}
<1>0. /\ Len(fires) \in Nat /\ MaxFires \in Nat /\ Len(fires) <= MaxFires
      /\ fires \in Seq(Good) /\ "none" \notin FilePaths
  BY HookAssumption DEF HooksInv
<1>1. ASSUME NEW event \in Events, NEW fn \in CustomHooks, NEW priority \in {"critical", "low"},
             Register(event, fn, priority)
      PROVE  HooksInv'
  <2>1. Hook(fn, Priorities[priority]) \in HookRecords
    BY DEF Hook, Priorities, HookRecords
  <2>2. handlers' \in [Events -> Seq(HookRecords)]
    BY <1>1, <2>1 DEF Register, HooksInv
  <2> QED
    BY <1>1, <2>2 DEF Register, HooksInv
<1>2. ASSUME NEW event \in Events, NEW fn \in CustomHooks, Unregister(event, fn) PROVE HooksInv'
  <2> DEFINE A == {h \in Range(handlers[event]) : h.fn # fn}
  <2>1. handlers' = [handlers EXCEPT ![event] = Only(handlers[event], A)]
    BY <1>2 DEF Unregister
  <2>2. Only(handlers[event], A) \in Seq(HookRecords)
    <3>1. handlers[event] \in Seq(HookRecords)
      BY DEF HooksInv
    <3> QED
      BY <3>1, OnlySelects
  <2> HIDE DEF A
  <2>3. handlers' \in [Events -> Seq(HookRecords)]
    BY <2>1, <2>2 DEF HooksInv
  <2> QED
    BY <1>2, <2>3 DEF Unregister, HooksInv
<1>3. ASSUME NEW event \in Events, NEW stop \in BOOLEAN, fires' = Fired(event, stop), Len(fires) < MaxFires
      PROVE  fires' \in Seq(Good) /\ Len(fires') = Len(fires) + 1 /\ Len(fires') <= MaxFires
  BY <1>0, <1>3, FiresBegin
<1>4. ASSUME NEW event \in Events, Fire(event) PROVE HooksInv'
  <2>1. Len(fires) < MaxFires /\ (tool # NoTool => Len(fires) + 1 < MaxFires) /\ fires' = Fired(event, TRUE)
    BY <1>0, <1>4 DEF Fire
  <2>2. fires' \in Seq(Good) /\ Len(fires') = Len(fires) + 1
    BY <1>3, <2>1
  <2>3. Len(fires') <= MaxFires /\ (tool # NoTool => Len(fires') < MaxFires)
    <3> DEFINE m == Len(fires)
               k == Len(fires')
    <3>1. k = m + 1 /\ m \in Nat /\ m < MaxFires /\ MaxFires \in Nat
      BY <1>0, <2>1, <2>2
    <3>2. tool # NoTool => m + 1 < MaxFires
      BY <2>1
    <3> HIDE DEF m, k
    <3>3. k <= MaxFires
      BY <3>1
    <3>4. tool # NoTool => k < MaxFires
      BY <3>1, <3>2
    <3> QED
      BY <3>3, <3>4 DEF k
  <2> QED
    BY <1>4, <2>2, <2>3 DEF Fire, HooksInv
<1>5. ASSUME NEW i \in 1..Len(fires), NEW outcome \in {"continue", "abort", "reject", "raised"},
             RunHook(i, outcome)
      PROVE  HooksInv'
  <2> DEFINE f == fires[i]
             ends == f.stop /\ outcome \in {"abort", "reject"}
             new == [f EXCEPT !.left = IF ends THEN <<>> ELSE Tail(@), !.results = Append(@, outcome)]
  <2>1. f \in FireRecords /\ FireIsComplete(f) /\ f.stop \in BOOLEAN
    BY <1>0 DEF FireRecords
  <2>2. ends \in BOOLEAN /\ f.left # <<>> /\ fires' = [fires EXCEPT ![i] = new]
    BY <1>5, <2>1 DEF RunHook
  <2>3. new \in Good
    <3> DEFINE left == IF ends THEN <<>> ELSE Tail(f.left)
               results == Append(f.results, outcome)
    <3>1. new = [stop |-> f.stop, due |-> f.due, left |-> left, results |-> results]
      <4> HIDE DEF f, ends, left, results
      <4>1. f = [stop |-> f.stop, due |-> f.due, left |-> f.left, results |-> f.results]
        BY <2>1 DEF FireRecords
      <4>2. new = [f EXCEPT !.left = left, !.results = results]
        BY DEF left, results
      <4> HIDE DEF new
      <4> QED
        BY <4>1, <4>2
    <3> HIDE DEF f, new
    <3>2. outcome \in Verdicts
      BY DEF Verdicts
    <3>3. ends => f.stop /\ outcome \in {"abort", "reject"}
      BY Zenon
    <3> HIDE DEF ends
    <3> QED
      BY <2>1, <2>2, <3>1, <3>2, <3>3, OneHookRuns
  <2> HIDE DEF new
  <2>4. fires' \in Seq(Good) /\ Len(fires') = Len(fires)
    BY <1>0, <2>2, <2>3, ExceptSeq
  <2> QED
    BY <1>5, <2>4 DEF RunHook, HooksInv
<1>6. CASE Heat
  BY <1>6 DEF Heat, HooksInv
<1>7. CASE CallTool
  <2>1. Len(fires) < MaxFires /\ Len(fires) + 1 < MaxFires /\ "tool.before" \in Events
    BY <1>0, <1>7 DEF CallTool, Events
  <2>2. fires' \in Seq(Good) /\ Len(fires') = Len(fires) + 1
    BY <1>3, <1>7, <2>1 DEF CallTool
  <2>3. Len(fires') <= MaxFires /\ Len(fires') < MaxFires
    BY <1>0, <2>1, <2>2
  <2> QED
    BY <1>7, <2>2, <2>3 DEF CallTool, HooksInv
<1>8. CASE ToolReturns
  <2>1. Len(fires) < MaxFires /\ "tool.after" \in Events
    BY <1>8 DEF ToolReturns, HooksInv, NoTool, Events
  <2>2. fires' \in Seq(Good) /\ Len(fires') <= MaxFires
    BY <1>3, <1>8, <2>1 DEF ToolReturns
  <2> QED
    BY <1>8, <2>2 DEF ToolReturns, HooksInv
<1>9. ASSUME NEW p \in FilePaths, FileWritten(p) PROVE HooksInv'
  <2>1. Len(fires) < MaxFires
    BY <1>9 DEF FileWritten, HooksInv, NoTool
  <2>2. seen_artifacts[p] + 1 \in 0..MaxWrites
    BY <1>9, HookAssumption DEF FileWritten, HooksInv
  <2> QED
    BY <1>9, <2>1, <2>2 DEF FileWritten, HooksInv
<1>10. ASSUME NEW delivered \in BOOLEAN, Announce(delivered) PROVE HooksInv'
  <2>1. Len(fires) < MaxFires /\ "tool.after" \in Events
    BY <1>0, <1>10 DEF Announce, HooksInv, NoTool, Events
  <2>2. fires' \in Seq(Good) /\ Len(fires') <= MaxFires
    BY <1>3, <1>10, <2>1 DEF Announce
  <2> QED
    BY <1>10, <2>2 DEF Announce, HooksInv
<1>11. CASE UNCHANGED hookVars
  BY <1>11 DEF hookVars, HooksInv
<1> QED
  BY <1>1, <1>2, <1>4, <1>5, <1>6, <1>7, <1>8, <1>9, <1>10, <1>11 DEF HooksNext

\* What the invariant says of the hooks to a reader.
LEMMA HooksAreTyped == HooksInv => HooksTypeOK /\ FiresAreComplete
<1> SUFFICES ASSUME HooksInv PROVE HooksTypeOK /\ FiresAreComplete
  OBVIOUS
<1>1. ASSUME NEW i \in 1..Len(fires)
      PROVE  LET f == fires[i]  n == Len(f.results) IN
             /\ Len(f.results) + Len(f.left) <= Len(f.due)
             /\ \A j, k \in 1..Len(f.due) : j < k => f.due[j].priority <= f.due[k].priority
             /\ f.left = <<>> /\ n < Len(f.due) => f.stop /\ f.results[n] \in {"abort", "reject"}
  <2> DEFINE f == fires[i]
  <2>1. f \in FireRecords /\ FireIsComplete(f)
    BY DEF HooksInv
  <2>2. Len(f.results) \in Nat /\ Len(f.left) \in Nat /\ Len(f.due) \in Nat
    BY <2>1 DEF FireRecords
  <2>3. \A j, k \in 1..Len(f.due) : j < k => f.due[j].priority <= f.due[k].priority
    BY <2>1 DEF FireIsComplete, Ascending
  <2>4. f.left = <<>> => Len(f.left) = 0
    OBVIOUS
  <2> HIDE DEF f
  <2>5. Len(f.results) + Len(f.left) <= Len(f.due)
    <3> DEFINE r == Len(f.results)
               m == Len(f.left)
               d == Len(f.due)
    <3>1. r + m = d \/ (m = 0 /\ r < d)
      BY <2>1, <2>4 DEF FireIsComplete
    <3>2. r \in Nat /\ m \in Nat /\ d \in Nat
      BY <2>2
    <3> HIDE DEF r, m, d
    <3>3. r + m <= d
      BY <3>1, <3>2
    <3> QED
      BY <3>3 DEF r, m, d
  <2>6. f.left = <<>> /\ Len(f.results) < Len(f.due) =>
            f.stop /\ f.results[Len(f.results)] \in {"abort", "reject"}
    BY <2>1, <2>2, <2>4 DEF FireIsComplete
  <2> QED
    BY <2>3, <2>5, <2>6 DEF f
<1> QED
  BY <1>1 DEF HooksInv, HooksTypeOK, FiresAreComplete

-----------------------------------------------------------------------------
\* The agents: who was given a job can do it, and what is completed came after its needs.

StepOp(p, now, t) == StepRun(now, t)

FStep == INSTANCE FoldFacts WITH Op <- StepOp

StepTasks == [status : {"pending", "completed"}, needs : SUBSET Steps]

Runs(D) == [steps : [D -> StepTasks], completed : Seq(D)]

\* What was completed came after what it needs, or was added anew.
InOrder(done, all, again) ==
    \A i \in DOMAIN done :
        done[i] \in again \/ all[done[i]].needs \subseteq {done[k] : k \in 1..(i - 1)}

RunsInOrder(now, again) == InOrder(now.completed, now.steps, again)

\* A step that runs, or waits for what it needs, leaves the order of completion right.
LEMMA StepKeepsOrder ==
  ASSUME NEW D \in SUBSET Steps, NEW again, NEW now \in Runs(D), RunsInOrder(now, again), NEW t
  PROVE  StepRun(now, t) \in Runs(D) /\ RunsInOrder(StepRun(now, t), again)
<1> DEFINE next == StepRun(now, t)
<1>1. CASE ~(t \in DOMAIN now.steps /\ DependenciesMet(now.steps[t].needs, now.completed))
  <2>1. next = now
    BY <1>1 DEF StepRun
  <2> QED
    BY <2>1
<1>2. CASE t \in DOMAIN now.steps /\ DependenciesMet(now.steps[t].needs, now.completed)
  <2> DEFINE all == now.steps
             done == now.completed
             all2 == [all EXCEPT ![t].status = "completed"]
             done2 == Append(done, t)
             n == Len(done)
  <2>1. next = [steps |-> all2, completed |-> done2]
    BY <1>2 DEF StepRun
  <2> HIDE DEF next
  <2>2. done \in Seq(D) /\ all \in [D -> StepTasks] /\ n \in Nat /\ t \in D
    BY <1>2 DEF Runs
  <2>3. done2 \in Seq(D) /\ DOMAIN done2 = 1..(n + 1) /\ done2[n + 1] = t
    BY <2>2
  <2>4. \A i \in 1..n : done2[i] = done[i]
    BY <2>2
  <2>5. all2 \in [D -> StepTasks] /\ \A u \in D : all2[u].needs = all[u].needs
    BY <2>2 DEF StepTasks
  <2>6. all[t].needs \subseteq {done[k] : k \in 1..n}
    BY <1>2, <2>2 DEF DependenciesMet, Range
  <2> HIDE DEF all2, done2, n
  <2>7. ASSUME NEW i \in 1..(n + 1)
        PROVE  done2[i] \in again \/ all2[done2[i]].needs \subseteq {done2[k] : k \in 1..(i - 1)}
    <3>1. CASE i = n + 1
      <4>1. all2[done2[i]].needs \subseteq {done[k] : k \in 1..n}
        BY <2>2, <2>3, <2>5, <2>6, <3>1
      <4>2. {done[k] : k \in 1..n} = {done2[k] : k \in 1..(i - 1)}
        BY <2>2, <2>4, <3>1
      <4> QED
        BY <4>1, <4>2
    <3>2. CASE i \in 1..n
      <4>1. DOMAIN done = 1..n
        BY <2>2 DEF n
      <4>2. done[i] \in again \/ all[done[i]].needs \subseteq {done[k] : k \in 1..(i - 1)}
        BY <4>1, <3>2 DEF RunsInOrder, InOrder
      <4>3. {done[k] : k \in 1..(i - 1)} = {done2[k] : k \in 1..(i - 1)}
        <5>1. \A k \in 1..(i - 1) : done[k] = done2[k]
          BY <2>2, <2>4, <3>2
        <5> QED
          BY <5>1
      <4>4. done2[i] = done[i] /\ done[i] \in D
        BY <2>2, <2>4, <3>2, <4>1
      <4> QED
        BY <4>2, <4>3, <4>4, <2>5
    <3> QED
      BY <2>2, <3>1, <3>2
  <2>8. InOrder(done2, all2, again)
    BY <2>3, <2>7 DEF InOrder
  <2> QED
    BY <2>1, <2>3, <2>5, <2>8 DEF RunsInOrder, Runs, next
<1> QED
  BY <1>1, <1>2

\* So does a batch, which is a fold of such steps.
LEMMA BatchKeepsOrder ==
  ASSUME NEW D \in SUBSET Steps, NEW again, NEW base \in Runs(D), RunsInOrder(base, again),
         NEW E, NEW s \in Seq(E)
  PROVE  FoldLeft(StepRun, base, s) \in Runs(D) /\ RunsInOrder(FoldLeft(StepRun, base, s), again)
<1> DEFINE I == {v \in Runs(D) : RunsInOrder(v, again)}
<1>1. \A v \in I, t \in E : StepOp(0, v, t) \in I
  BY StepKeepsOrder DEF StepOp
<1>2. base \in I
  OBVIOUS
<1>3. FStep!Fold(0, base, s) \in I
  <2> HIDE DEF I
  <2> QED
    BY <1>1, <1>2, FStep!FoldInvariant
<1>4. FoldLeft(StepRun, base, s) = FStep!Fold(0, base, s)
  BY DEF StepOp, FStep!Fold, FStep!FoldLeft, FoldLeft, FStep!MapThenFoldSet, MapThenFoldSet, FStep!Max, Max
<1> QED
  BY <1>3, <1>4

\* A task is with an agent that can do it, and completed by none that cannot do anything.
JobRecords == [status : {"none", "pending", "running", "completed", "failed"},
               agent : Range(Agents) \union {NoAgent}, needs : SUBSET Jobs]

Staffs == [jobs : [Jobs -> JobRecords], busy : [Range(Agents) -> Jobs \union {NoJob}]]

SuitedIn(now) ==
    \A j \in Jobs :
        /\ now.jobs[j].agent # NoAgent => j \in Suited[now.jobs[j].agent]
        /\ now.jobs[j].status = "completed" => now.jobs[j].agent \notin Helpless \union {NoAgent}

\* Who is given a job can do it.
LEMMA AssignedSuits ==
  ASSUME NEW now \in Staffs, SuitedIn(now), NEW j \in Jobs, NEW a \in Range(Agents)
  PROVE  Assigned(now, j, a) \in Staffs /\ SuitedIn(Assigned(now, j, a))
<1> USE MultiAgentAssumption DEF MultiAgentAssumption
<1>1. CASE now.jobs[j] # Unborn /\ Accepts(j, a)
  <2> DEFINE posts == [now.jobs EXCEPT ![j].status = "running", ![j].agent = a]
             on == [now.busy EXCEPT ![a] = j]
  <2>1. Assigned(now, j, a) = [jobs |-> posts, busy |-> on]
    BY <1>1 DEF Assigned
  <2>2. posts \in [Jobs -> JobRecords] /\ on \in [Range(Agents) -> Jobs \union {NoJob}]
    BY DEF Staffs, JobRecords
  <2>3. j \in Suited[a]
    BY <1>1 DEF Accepts
  <2>4. ASSUME NEW k \in Jobs
        PROVE  /\ posts[k].agent # NoAgent => k \in Suited[posts[k].agent]
               /\ posts[k].status = "completed" => posts[k].agent \notin Helpless \union {NoAgent}
    <3>1. CASE k = j
      BY <2>3, <3>1 DEF Staffs
    <3>2. CASE k # j
      BY <3>2 DEF SuitedIn, Staffs
    <3> QED
      BY <3>1, <3>2
  <2> HIDE DEF posts, on
  <2> QED
    BY <2>1, <2>2, <2>4 DEF Staffs, SuitedIn
<1>2. CASE ~(now.jobs[j] # Unborn /\ Accepts(j, a))
  BY <1>2 DEF Assigned
<1> QED
  BY <1>1, <1>2

\* A job that was executed was given to an agent that can do it.
LEMMA ExecutedSuits ==
  ASSUME NEW now \in Staffs, SuitedIn(now), NEW j \in Jobs, NEW ok \in BOOLEAN
  PROVE  Executed(now, j, ok) \in Staffs /\ SuitedIn(Executed(now, j, ok))
<1> DEFINE a == now.jobs[j].agent
           outcome == IF ok /\ a \notin Helpless THEN "completed" ELSE "failed"
<1>1. CASE ~(now.jobs[j] = Unborn \/ a = NoAgent)
  <2> DEFINE posts == [now.jobs EXCEPT ![j].status = outcome]
             on == [now.busy EXCEPT ![a] = NoJob]
  <2>1. Executed(now, j, ok) = [jobs |-> posts, busy |-> on]
    BY <1>1 DEF Executed
  <2>2. posts \in [Jobs -> JobRecords] /\ on \in [Range(Agents) -> Jobs \union {NoJob}]
    BY DEF Staffs, JobRecords
  <2>4. ASSUME NEW k \in Jobs
        PROVE  /\ posts[k].agent # NoAgent => k \in Suited[posts[k].agent]
               /\ posts[k].status = "completed" => posts[k].agent \notin Helpless \union {NoAgent}
    <3>1. CASE k = j
      BY <1>1, <3>1 DEF Staffs, SuitedIn, JobRecords
    <3>2. CASE k # j
      BY <3>2 DEF SuitedIn, Staffs
    <3> QED
      BY <3>1, <3>2
  <2> HIDE DEF posts, on
  <2> QED
    BY <2>1, <2>2, <2>4 DEF Staffs, SuitedIn
<1>2. CASE now.jobs[j] = Unborn \/ a = NoAgent
  BY <1>2 DEF Executed
<1> QED
  BY <1>1, <1>2

HandOp(p, now, pair) == Handed(now, pair)

FHand == INSTANCE FoldFacts WITH Op <- HandOp

WorkOp(p, now, pair) == Worked(now, pair)

FWork == INSTANCE FoldFacts WITH Op <- WorkOp

\* However tasks are handed out, and run, one after the other.
LEMMA HandingSuits ==
  ASSUME NEW now \in Staffs, SuitedIn(now), NEW s \in Seq(Jobs \X Range(Agents))
  PROVE  FoldLeft(Handed, now, s) \in Staffs /\ SuitedIn(FoldLeft(Handed, now, s))
<1> DEFINE I == {v \in Staffs : SuitedIn(v)}
           E == Jobs \X Range(Agents)
<1>1. \A v \in I, pair \in E : HandOp(0, v, pair) \in I
  BY AssignedSuits DEF HandOp, Handed
<1>2. now \in I
  OBVIOUS
<1>3. FHand!Fold(0, now, s) \in I
  <2> HIDE DEF I
  <2> QED
    BY <1>1, <1>2, FHand!FoldInvariant
<1>4. FoldLeft(Handed, now, s) = FHand!Fold(0, now, s)
  BY DEF HandOp, FHand!Fold, FHand!FoldLeft, FoldLeft, FHand!MapThenFoldSet, MapThenFoldSet, FHand!Max, Max
<1> QED
  BY <1>3, <1>4

\* The same, of a list of jobs that are executed one after the other.
LEMMA WorkingSuits ==
  ASSUME NEW now \in Staffs, SuitedIn(now), NEW s \in Seq(Jobs \X BOOLEAN)
  PROVE  FoldLeft(Worked, now, s) \in Staffs /\ SuitedIn(FoldLeft(Worked, now, s))
<1> DEFINE I == {v \in Staffs : SuitedIn(v)}
           E == Jobs \X BOOLEAN
<1>1. \A v \in I, pair \in E : WorkOp(0, v, pair) \in I
  BY ExecutedSuits DEF WorkOp, Worked
<1>2. now \in I
  OBVIOUS
<1>3. FWork!Fold(0, now, s) \in I
  <2> HIDE DEF I
  <2> QED
    BY <1>1, <1>2, FWork!FoldInvariant
<1>4. FoldLeft(Worked, now, s) = FWork!Fold(0, now, s)
  BY DEF WorkOp, FWork!Fold, FWork!FoldLeft, FoldLeft, FWork!MapThenFoldSet, MapThenFoldSet, FWork!Max, Max
<1> QED
  BY <1>3, <1>4

\* The least of three numbers.
LEMMA LeastOfThree ==
  ASSUME NEW a \in Nat, NEW b \in Nat, NEW c \in Nat
  PROVE  LET m == Min({a, b, c}) IN m \in Nat /\ m <= a /\ m <= b /\ m <= c
<1>1. \E x \in {a, b, c} : \A y \in {a, b, c} : x <= y
  OBVIOUS
<1> QED
  BY <1>1 DEF Min

StaffInv == Now \in Staffs /\ SuitedIn(Now)

OrderInv ==
    /\ DOMAIN steps \in SUBSET Steps
    /\ [steps |-> steps, completed |-> completed] \in Runs(DOMAIN steps)
    /\ RunsInOrder([steps |-> steps, completed |-> completed], undone)
    /\ Len(completed) <= MaxRuns

AgentsInv == StaffInv /\ OrderInv

\* The first state of the agents has the invariant.
LEMMA AgentsInitially == MultiAgentInit => AgentsInv
<1> SUFFICES ASSUME MultiAgentInit PROVE AgentsInv
  OBVIOUS
<1> USE MultiAgentAssumption DEF MultiAgentAssumption
<1>1. StaffInv
  BY DEF MultiAgentInit, StaffInv, Now, Staffs, SuitedIn, JobRecords, Unborn
<1>2. OrderInv
  BY DEF MultiAgentInit, OrderInv, Runs, RunsInOrder, InOrder
<1> QED
  BY <1>1, <1>2 DEF AgentsInv

\* Every step of the staff of agents keeps the invariant.
LEMMA StaffStep == StaffInv /\ [MultiAgentNext]_agentVars => StaffInv'
<1> USE MultiAgentAssumption DEF MultiAgentAssumption
<1> SUFFICES ASSUME StaffInv, [MultiAgentNext]_agentVars PROVE StaffInv'
  OBVIOUS
<1>1. ASSUME NEW next \in Staffs, SuitedIn(next), Becomes(next) PROVE StaffInv'
  BY <1>1 DEF StaffInv, Now, Becomes, Staffs, SuitedIn
<1>2. ASSUME NEW j \in Jobs, NEW dependencies \in SUBSET Jobs, CreateTask(j, dependencies) PROVE StaffInv'
  BY <1>2 DEF CreateTask, StaffInv, Now, Staffs, SuitedIn, JobRecords, Unborn
<1>3. ASSUME NEW j \in Jobs, NEW a \in Range(Agents), AssignTask(j, a) PROVE StaffInv'
  BY <1>1, <1>3, AssignedSuits DEF AssignTask, StaffInv
<1>4. ASSUME NEW j \in Jobs, NEW ok \in BOOLEAN, ExecuteTask(j, ok) PROVE StaffInv'
  BY <1>1, <1>4, ExecutedSuits DEF ExecuteTask, StaffInv
<1>5. ASSUME NEW list \in Lists(Jobs), NEW oks, ExecuteParallel(list, oks) PROVE StaffInv'
  <2> DEFINE idle == Only(Agents, {a \in Range(Agents) : busy[a] = NoJob})
             pairs == Min({Len(list), Len(idle), max_agents})
             given == [i \in 1..pairs |-> <<list[i], idle[i]>>]
             tried == [i \in 1..Len(list) |-> <<list[i], i \in oks>>]
             handed == FoldLeft(Handed, Now, given)
             worked == FoldLeft(Worked, handed, tried)
  <2>1. list \in Seq(Jobs)
    BY <1>5 DEF Lists
  <2>2. idle \in Seq(Range(Agents))
    BY OnlySelects
  <2>3. Len(list) \in Nat /\ Len(idle) \in Nat
    BY <2>1, <2>2
  <2> HIDE DEF idle
  <2>4. pairs \in Nat /\ pairs <= Len(list) /\ pairs <= Len(idle)
    BY <2>3, LeastOfThree
  <2> HIDE DEF pairs
  <2>5. given \in Seq(Jobs \X Range(Agents))
    BY <2>1, <2>2, <2>4
  <2>6. tried \in Seq(Jobs \X BOOLEAN)
    <3>1. \A i \in 1..Len(list) : list[i] \in Jobs
      BY <2>1
    <3>2. \A i \in 1..Len(list) : (i \in oks) \in BOOLEAN
      <4>1. TAKE i \in 1..Len(list)
      <4>2. CASE i \in oks
        <5>1. (i \in oks) = TRUE
          BY <4>2
        <5> QED
          BY <5>1
      <4>3. CASE i \notin oks
        <5>1. (i \in oks) = FALSE
          BY <4>3
        <5> QED
          BY <5>1
      <4> QED
        BY <4>2, <4>3
    <3>3. \A i \in 1..Len(list) : <<list[i], i \in oks>> \in Jobs \X BOOLEAN
      BY <3>1, <3>2, Zenon
    <3> QED
      BY <2>3, <3>3, SeqDef
  <2> HIDE DEF given, tried
  <2>7. handed \in Staffs /\ SuitedIn(handed)
    BY <2>5, HandingSuits DEF StaffInv
  <2> HIDE DEF handed
  <2>8. worked \in Staffs /\ SuitedIn(worked)
    BY <2>6, <2>7, WorkingSuits
  <2>9. Becomes(worked)
    BY <1>5 DEF ExecuteParallel, worked, handed, given, tried, pairs, idle
  <2> QED
    BY <1>1, <2>8, <2>9
<1>6. CASE UNCHANGED orchestrated
  BY <1>6 DEF orchestrated, StaffInv, Now
<1>7. Created \subseteq Jobs /\ \A list \in Lists(Created) : list \in Lists(Jobs)
  BY DEF Lists, Created
<1>8. \A dependencies \in SUBSET Created : dependencies \in SUBSET Jobs
  BY <1>7
<1> QED
  BY <1>2, <1>3, <1>4, <1>5, <1>6, <1>7, <1>8
     DEF MultiAgentNext, AddTask, ExecuteBatch, agentVars, orchestrated

\* Every step of the order of steps keeps the invariant.
LEMMA OrderStep == OrderInv /\ [MultiAgentNext]_agentVars => OrderInv'
<1> USE MultiAgentAssumption DEF MultiAgentAssumption
<1> SUFFICES ASSUME OrderInv, [MultiAgentNext]_agentVars PROVE OrderInv'
  OBVIOUS
<1>1. ASSUME NEW t \in Steps, NEW dependencies \in SUBSET Steps, AddTask(t, dependencies) PROVE OrderInv'
  <2>1. DOMAIN steps' = DOMAIN steps \union {t} /\ completed' = completed
    BY <1>1 DEF AddTask
  <2>2. steps' \in [DOMAIN steps' -> StepTasks] /\ \A u \in DOMAIN steps : u # t => steps'[u] = steps[u]
    BY <1>1 DEF AddTask, OrderInv, Runs, StepTasks
  <2>3. completed \in Seq(DOMAIN steps)
    BY DEF OrderInv, Runs
  <2>4. completed \in Seq(DOMAIN steps')
    BY <2>1, <2>3
  <2>5. undone \subseteq undone' /\ (t \in Range(completed) => t \in undone')
    BY <1>1 DEF AddTask
  <2>6. ASSUME NEW i \in DOMAIN completed
        PROVE  completed[i] \in undone' \/ steps'[completed[i]].needs \subseteq {completed[k] : k \in 1..(i - 1)}
    <3>1. completed[i] \in undone \/ steps[completed[i]].needs \subseteq {completed[k] : k \in 1..(i - 1)}
      BY DEF OrderInv, RunsInOrder, InOrder
    <3>2. CASE completed[i] = t
      BY <2>5, <3>2 DEF Range
    <3>3. CASE completed[i] # t
      BY <2>2, <2>3, <2>5, <3>1, <3>3
    <3> QED
      BY <3>2, <3>3
  <2> QED
    BY <2>1, <2>2, <2>4, <2>6 DEF OrderInv, Runs, RunsInOrder, InOrder
<1>2. ASSUME NEW list \in Lists(DOMAIN steps), ExecuteBatch(list) PROVE OrderInv'
  <2> DEFINE m == IF Len(list) < max_agents THEN Len(list) ELSE max_agents
             gathered == SubSeq(list, 1, m)
             base == [steps |-> steps, completed |-> completed]
             next == FoldLeft(StepRun, base, gathered)
  <2>1. list \in Seq(DOMAIN steps)
    BY DEF Lists
  <2>2. gathered \in Seq(DOMAIN steps)
    BY <2>1
  <2>3. next \in Runs(DOMAIN steps) /\ RunsInOrder(next, undone)
    <3> HIDE DEF gathered, base
    <3> QED
      BY <2>2, BatchKeepsOrder DEF OrderInv, base
  <2>4. steps' = next.steps /\ completed' = next.completed /\ undone' = undone /\ Len(next.completed) <= MaxRuns
    BY <1>2 DEF ExecuteBatch
  <2> HIDE DEF next
  <2>5. DOMAIN steps' = DOMAIN steps
    BY <2>3, <2>4 DEF Runs
  <2>6. next = [steps |-> steps', completed |-> completed']
    BY <2>3, <2>4 DEF Runs
  <2> QED
    BY <2>3, <2>4, <2>5, <2>6 DEF OrderInv
<1>3. CASE UNCHANGED hierarchy
  BY <1>3 DEF hierarchy, OrderInv
<1> QED
  BY <1>1, <1>2, <1>3
     DEF MultiAgentNext, CreateTask, AssignTask, ExecuteTask, ExecuteParallel, Becomes, agentVars, hierarchy

\* What the invariant says of the agents to a reader.
LEMMA AgentsAreOrderly == AgentsInv => MultiAgentTypeOK /\ DependenciesFirst /\ WorkIsSuited
<1> USE MultiAgentAssumption DEF MultiAgentAssumption
<1> SUFFICES ASSUME AgentsInv PROVE MultiAgentTypeOK /\ DependenciesFirst /\ WorkIsSuited
  OBVIOUS
<1>1. MultiAgentTypeOK
  BY DEF MultiAgentTypeOK, AgentsInv, StaffInv, OrderInv, Now, Staffs, JobRecords
<1>2. DependenciesFirst
  BY DEF AgentsInv, OrderInv, DependenciesFirst, RunsInOrder, InOrder
<1>3. WorkIsSuited
  BY DEF AgentsInv, StaffInv, WorkIsSuited, Now, SuitedIn
<1> QED
  BY <1>1, <1>2, <1>3

-----------------------------------------------------------------------------
\* The skills: their table keeps ids and names apart, through every rewriting of it.

AllTopics == UNION Subjects

SkillRows ==
    {r \in [id : 1..MaxSkills, name : SkillNames, topics : SUBSET AllTopics, uses : Nat, good : Nat,
            rated : Nat \X Nat, active : BOOLEAN, failed : BOOLEAN, improved : BOOLEAN] :
        r.good <= r.uses /\ r.uses <= MaxUses}

\* No two rows have an id, or a name, in common.
Unique(t) == \A i, j \in 1..Len(t) : i # j => t[i].id # t[j].id /\ t[i].name # t[j].name

Table(t) == t \in Seq(SkillRows) /\ Unique(t)

\* The rows of a table are told apart by id, and by name.
LEMMA RowsOf ==
  ASSUME NEW t, Table(t)
  PROVE  /\ Range(t) = {t[i] : i \in 1..Len(t)} /\ Range(t) \subseteq SkillRows
         /\ \A r, s \in Range(t) : (r.id = s.id \/ r.name = s.name) => r = s
<1>1. Range(t) = {t[i] : i \in 1..Len(t)} /\ Range(t) \subseteq SkillRows
  BY DEF Table, Range
<1>2. ASSUME NEW r \in Range(t), NEW s \in Range(t), r.id = s.id \/ r.name = s.name PROVE r = s
  <2>1. PICK i \in 1..Len(t) : r = t[i]
    BY <1>1
  <2>2. PICK j \in 1..Len(t) : s = t[j]
    BY <1>1
  <2> QED
    BY <1>2, <2>1, <2>2 DEF Table, Unique
<1> QED
  BY <1>1, <1>2

\* What is selected of a table is one.
LEMMA SelectedTable ==
  ASSUME NEW t, Table(t), NEW A
  PROVE  Table(Only(t, A)) /\ Range(Only(t, A)) = Range(t) \intersect A
<1> DEFINE r == Only(t, A)
<1>1. r \in Seq(SkillRows) /\ FKeep!Selects(r, t, A) /\ Range(r) = Range(t) \intersect A
  BY OnlySelects DEF Table
<1>2. PICK g : FKeep!SelectsUpTo(g, Len(t), r, t, A)
  BY <1>1 DEF FKeep!Selects
<1> HIDE DEF r
<1>3. ASSUME NEW i \in 1..Len(r), NEW j \in 1..Len(r), i # j
      PROVE  r[i].id # r[j].id /\ r[i].name # r[j].name
  <2>1. g[i] \in 1..Len(t) /\ g[j] \in 1..Len(t) /\ r[i] = t[g[i]] /\ r[j] = t[g[j]]
    BY <1>2 DEF FKeep!SelectsUpTo
  <2>2. i < j \/ j < i
    BY <1>1, <1>3
  <2>3. g[i] # g[j]
    <3>1. i < j => g[i] < g[j]
      BY <1>2 DEF FKeep!SelectsUpTo
    <3>2. j < i => g[j] < g[i]
      BY <1>2 DEF FKeep!SelectsUpTo
    <3> QED
      BY <2>1, <2>2, <3>1, <3>2
  <2> QED
    BY <2>1, <2>3 DEF Table, Unique
<1> QED
  BY <1>1, <1>3 DEF Table, Unique, r

\* A row put before a table that has neither its id nor its name.
LEMMA ExtendedTable ==
  ASSUME NEW t, Table(t), NEW row \in SkillRows, \A s \in Range(t) : s.id # row.id /\ s.name # row.name
  PROVE  Table(<<row>> \o t) /\ Range(<<row>> \o t) = Range(t) \union {row}
<1> DEFINE u == <<row>> \o t
           n == Len(t)
<1>1. t \in Seq(SkillRows) /\ n \in Nat
  BY DEF Table
<1>2. u \in Seq(SkillRows) /\ Len(u) = n + 1 /\ u[1] = row
  BY <1>1
<1>3. \A i \in 1..n : u[i + 1] = t[i]
  BY <1>1
<1> HIDE DEF u, n
<1>4. \A i \in 1..(n + 1) : i # 1 => i - 1 \in 1..n /\ u[i] = t[i - 1]
  <2>1. TAKE i \in 1..(n + 1)
  <2>2. HAVE i # 1
  <2>3. i - 1 \in 1..n /\ (i - 1) + 1 = i
    BY <1>1, <2>2
  <2> QED
    BY <1>3, <2>3
<1>5. \A k \in 1..n : t[k] \in Range(t)
  BY RowsOf DEF n
<1>6. ASSUME NEW i \in 1..(n + 1), NEW j \in 1..(n + 1), i # j
      PROVE  u[i].id # u[j].id /\ u[i].name # u[j].name
  <2>1. CASE i = 1
    <3>1. j - 1 \in 1..n /\ u[j] = t[j - 1]
      BY <1>4, <1>6, <2>1
    <3>2. u[j] \in Range(t)
      BY <1>5, <3>1
    <3> QED
      BY <1>2, <2>1, <3>2
  <2>2. CASE j = 1
    <3>1. i - 1 \in 1..n /\ u[i] = t[i - 1]
      BY <1>4, <1>6, <2>2
    <3>2. u[i] \in Range(t)
      BY <1>5, <3>1
    <3> QED
      BY <1>2, <2>2, <3>2
  <2>3. CASE i # 1 /\ j # 1
    <3>1. i - 1 \in 1..n /\ u[i] = t[i - 1] /\ j - 1 \in 1..n /\ u[j] = t[j - 1]
      BY <1>4, <2>3
    <3>2. i - 1 # j - 1
      BY <1>1, <1>6
    <3> QED
      BY <3>1, <3>2 DEF Table, Unique, n
  <2> QED
    BY <2>1, <2>2, <2>3
<1>7. Range(u) = Range(t) \union {row}
  <2>1. Range(u) = {u[i] : i \in 1..(n + 1)}
    BY <1>2 DEF Range
  <2>2. Range(t) = {t[i] : i \in 1..n}
    BY RowsOf DEF n
  <2>3. ASSUME NEW i \in 1..(n + 1) PROVE u[i] \in Range(t) \union {row}
    <3>1. CASE i = 1
      BY <1>2, <3>1
    <3>2. CASE i # 1
      BY <1>4, <1>5, <3>2
    <3> QED
      BY <3>1, <3>2
  <2>4. ASSUME NEW k \in 1..n PROVE t[k] \in Range(u)
    <3>1. k + 1 \in 1..(n + 1) /\ u[k + 1] = t[k]
      BY <1>1, <1>3
    <3> QED
      BY <2>1, <3>1
  <2>5. 1 \in 1..(n + 1) /\ u[1] = row
    BY <1>1, <1>2
  <2> QED
    BY <2>1, <2>2, <2>3, <2>4, <2>5
<1> QED
  BY <1>2, <1>6, <1>7 DEF Table, Unique, u

\* The ids of a table with the names they stand for.
Keys(t) == {<<s.id, s.name>> : s \in Range(t)}

\* A row whose key another table has too.
LEMMA KeysOfRows ==
  ASSUME NEW t, NEW u, Keys(t) \subseteq Keys(u)
  PROVE  \A s \in Range(t) : \E r \in Range(u) : r.id = s.id /\ r.name = s.name
<1> SUFFICES ASSUME NEW s \in Range(t) PROVE \E r \in Range(u) : r.id = s.id /\ r.name = s.name
  OBVIOUS
<1>1. <<s.id, s.name>> \in Keys(u)
  BY DEF Keys
<1>2. PICK r \in Range(u) : <<s.id, s.name>> = <<r.id, r.name>>
  BY <1>1 DEF Keys
<1> QED
  BY <1>2

\* A table with one row replaced is a table of the same keys.
LEMMA UpdatedTable ==
  ASSUME NEW t, Table(t), NEW row \in SkillRows,
         NEW old \in Range(t), old.id = row.id, old.name = row.name
  PROVE  /\ Table(Updated(t, row)) /\ Keys(Updated(t, row)) = Keys(t)
         /\ Range(Updated(t, row)) = (Range(t) \ {old}) \union {row}
<1> DEFINE rest == Others(t, row.id)
<1>1. Table(rest) /\ Range(rest) = {s \in Range(t) : s.id # row.id}
  BY SelectedTable DEF Others
<1>2. Range(rest) = Range(t) \ {old}
  BY <1>1, RowsOf
<1>3. \A s \in Range(rest) : s.id # row.id /\ s.name # row.name
  BY <1>1, <1>2, RowsOf
<1>4. Updated(t, row) = <<row>> \o rest
  BY DEF Updated, Ids
<1> HIDE DEF rest
<1>5. Table(Updated(t, row)) /\ Range(Updated(t, row)) = (Range(t) \ {old}) \union {row}
  BY <1>1, <1>2, <1>3, <1>4, ExtendedTable
<1>6. Keys(Updated(t, row)) = Keys(t)
  BY <1>5 DEF Keys
<1> QED
  BY <1>5, <1>6

\* Tables a table may become by updates and deletions.
Successors(base) == {t \in Seq(SkillRows) : Unique(t) /\ Keys(t) \subseteq Keys(base)}

\* What a table may become has no key that the table did not have.
LEMMA SuccessorsAreTables ==
  ASSUME NEW base, NEW t \in Successors(base)
  PROVE  Table(t) /\ Keys(t) \subseteq Keys(base)
  BY DEF Successors, Table

\* An update of a row is among what a table may become.
LEMMA UpdatedSucceeds ==
  ASSUME NEW base, Table(base), NEW t \in Successors(base), NEW row \in SkillRows,
         NEW known \in Range(base), known.id = row.id, known.name = row.name
  PROVE  Updated(t, row) \in Successors(base)
<1>0. Table(t) /\ Keys(t) \subseteq Keys(base)
  BY SuccessorsAreTables
<1>1. CASE row.id \in Ids(t)
  <2>1. PICK old \in Range(t) : old.id = row.id
    BY <1>1 DEF Ids
  <2>2. PICK r \in Range(base) : r.id = old.id /\ r.name = old.name
    BY <1>0, KeysOfRows
  <2>3. r = known
    BY <2>1, <2>2, RowsOf
  <2>4. Table(Updated(t, row)) /\ Keys(Updated(t, row)) = Keys(t)
    BY <1>0, <2>1, <2>2, <2>3, UpdatedTable
  <2> QED
    BY <1>0, <2>4 DEF Successors, Table
<1>2. CASE row.id \notin Ids(t)
  BY <1>2 DEF Updated
<1> QED
  BY <1>1, <1>2

\* So is a deletion.
LEMMA SelectedSucceeds ==
  ASSUME NEW base, NEW t \in Successors(base), NEW A
  PROVE  Only(t, A) \in Successors(base)
<1>1. Table(t) /\ Keys(t) \subseteq Keys(base)
  BY SuccessorsAreTables
<1>2. Table(Only(t, A)) /\ Range(Only(t, A)) = Range(t) \intersect A
  BY <1>1, SelectedTable
<1> QED
  BY <1>1, <1>2 DEF Successors, Table, Keys

\* A change that keeps the id, the name and the counts of a row.
LEMMA ChangedRow ==
  ASSUME NEW s \in SkillRows
  PROVE  /\ [s EXCEPT !.active = FALSE] \in SkillRows /\ [s EXCEPT !.active = FALSE].id = s.id
         /\ [s EXCEPT !.active = FALSE].name = s.name
         /\ [s EXCEPT !.improved = TRUE] \in SkillRows /\ [s EXCEPT !.improved = TRUE].id = s.id
         /\ [s EXCEPT !.improved = TRUE].name = s.name
         /\ \A topics \in SUBSET AllTopics :
               /\ [s EXCEPT !.topics = topics] \in SkillRows /\ [s EXCEPT !.topics = topics].id = s.id
               /\ [s EXCEPT !.topics = topics].name = s.name
  BY DEF SkillRows

\* A skill that was used once more.
LEMMA UsedRow ==
  ASSUME NEW s \in SkillRows, s.uses < MaxUses, NEW good \in {0, 1}, MaxUses \in Nat
  PROVE  /\ s.uses \in Nat /\ s.good \in Nat
         /\ [s EXCEPT !.uses = @ + 1, !.good = @ + good] \in SkillRows
         /\ [s EXCEPT !.uses = @ + 1, !.good = s.good + good, !.rated = <<s.good + good, s.uses + 1>>] \in SkillRows
<1>1. s.uses \in Nat /\ s.good \in Nat /\ s.good <= s.uses
  BY DEF SkillRows
<1>2. s.uses + 1 \in Nat /\ s.good + good \in Nat /\ s.good + good <= s.uses + 1 /\ s.uses + 1 <= MaxUses
  BY <1>1
<1> DEFINE u == s.uses + 1
           g == s.good + good
<1>3. <<g, u>> \in Nat \X Nat
  BY <1>2
<1> HIDE DEF u, g
<1>4. [s EXCEPT !.uses = u, !.good = g] \in SkillRows
  BY <1>2 DEF SkillRows, u, g
<1>5. ASSUME NEW r \in Nat \X Nat PROVE [s EXCEPT !.uses = u, !.good = g, !.rated = r] \in SkillRows
  BY <1>2 DEF SkillRows, u, g
<1> QED
  BY <1>1, <1>3, <1>4, <1>5 DEF u, g

\* The row of an id that is in a table.
LEMMA RowIsThere ==
  ASSUME NEW t, Table(t), NEW id \in Ids(t)
  PROVE  Row(t, id) \in Range(t) /\ Row(t, id) \in SkillRows /\ Row(t, id).id = id
<1>1. \E s \in Range(t) : s.id = id
  BY DEF Ids
<1>2. Row(t, id) \in Range(t) /\ Row(t, id).id = id
  BY <1>1 DEF Row
<1> QED
  BY <1>2, RowsOf

\* The topics of a row, or none.
LEMMA TopicsAreTopics ==
  ASSUME NEW t, Table(t), NEW id
  PROVE  TopicsOf(t, id) \subseteq AllTopics
  BY RowIsThere DEF TopicsOf, SkillRows

ArchiveOp(p, t, s) == Archive(t, s)

FArchive == INSTANCE FoldFacts WITH Op <- ArchiveOp

ImproveOp(p, t, s) == ImproveOne(t, s)

FImprove == INSTANCE FoldFacts WITH Op <- ImproveOp

MergeOp(p, t, g) == MergeGroup(t, g)

FMerge == INSTANCE FoldFacts WITH Op <- MergeOp

\* Archiving the rows of a list, one after the other.
LEMMA ArchivingSucceeds ==
  ASSUME NEW base, Table(base), NEW t \in Successors(base), NEW list \in Seq(Range(base))
  PROVE  FoldLeft(Archive, t, list) \in Successors(base)
<1>1. \A v \in Successors(base), s \in Range(base) : ArchiveOp(0, v, s) \in Successors(base)
  <2>1. TAKE v \in Successors(base), s \in Range(base)
  <2>2. s \in SkillRows
    BY RowsOf
  <2> QED
    BY <2>2, ChangedRow, UpdatedSucceeds DEF ArchiveOp, Archive
<1>2. FArchive!Fold(0, t, list) \in Successors(base)
  BY <1>1, FArchive!FoldInvariant
<1>3. FoldLeft(Archive, t, list) = FArchive!Fold(0, t, list)
  BY DEF ArchiveOp, FArchive!Fold, FArchive!FoldLeft, FoldLeft, FArchive!MapThenFoldSet, MapThenFoldSet,
         FArchive!Max, Max
<1> QED
  BY <1>2, <1>3

\* Improving the rows of a list, one after the other.
LEMMA ImprovingSucceeds ==
  ASSUME NEW base, Table(base), NEW t \in Successors(base), NEW list \in Seq(Range(base))
  PROVE  FoldLeft(ImproveOne, t, list) \in Successors(base)
<1>1. \A v \in Successors(base), s \in Range(base) : ImproveOp(0, v, s) \in Successors(base)
  <2>1. TAKE v \in Successors(base), s \in Range(base)
  <2>2. s \in SkillRows
    BY RowsOf
  <2> QED
    BY <2>2, ChangedRow, UpdatedSucceeds DEF ImproveOp, ImproveOne
<1>2. FImprove!Fold(0, t, list) \in Successors(base)
  BY <1>1, FImprove!FoldInvariant
<1>3. FoldLeft(ImproveOne, t, list) = FImprove!Fold(0, t, list)
  BY DEF ImproveOp, FImprove!Fold, FImprove!FoldLeft, FoldLeft, FImprove!MapThenFoldSet, MapThenFoldSet,
         FImprove!Max, Max
<1> QED
  BY <1>2, <1>3

\* Merging one group, whose rows earlier groups may have taken.
LEMMA MergeGroupSucceeds ==
  ASSUME NEW base, Table(base), NEW t \in Successors(base), NEW g
  PROVE  MergeGroup(t, g) \in Successors(base)
<1> DEFINE topics == UNION {TopicsOf(t, id) : id \in g.rest \union {g.primary}}
           kept == IF g.primary \in Ids(t)
                   THEN Updated(t, [Row(t, g.primary) EXCEPT !.topics = topics]) ELSE t
<1>1. Table(t) /\ Keys(t) \subseteq Keys(base)
  BY SuccessorsAreTables
<1>2. topics \in SUBSET AllTopics
  BY <1>1, TopicsAreTopics
<1> HIDE DEF topics
<1>3. kept \in Successors(base)
  <2>1. CASE g.primary \in Ids(t)
    <3> DEFINE row == Row(t, g.primary)
               better == [row EXCEPT !.topics = topics]
    <3>1. row \in Range(t) /\ row \in SkillRows
      BY <1>1, <2>1, RowIsThere
    <3> HIDE DEF row
    <3>2. better \in SkillRows /\ better.id = row.id /\ better.name = row.name
      BY <1>2, <3>1, ChangedRow
    <3>3. PICK known \in Range(base) : known.id = row.id /\ known.name = row.name
      BY <1>1, <3>1, KeysOfRows
    <3>4. kept = Updated(t, better)
      BY <2>1 DEF row
    <3> QED
      BY <3>2, <3>3, <3>4, UpdatedSucceeds
  <2>2. CASE g.primary \notin Ids(t)
    BY <2>2
  <2> QED
    BY <2>1, <2>2
<1>4. MergeGroup(t, g) = Only(kept, {s \in Range(kept) : s.id \notin g.rest})
  BY DEF MergeGroup, topics
<1> HIDE DEF kept
<1> QED
  BY <1>3, <1>4, SelectedSucceeds

\* Merging all groups of duplicates.
LEMMA MergingSucceeds ==
  ASSUME NEW base, Table(base), NEW G, NEW groups \in Seq(G)
  PROVE  Merge(base, groups) \in Successors(base)
<1>1. \A v \in Successors(base), g \in G : MergeOp(0, v, g) \in Successors(base)
  BY MergeGroupSucceeds DEF MergeOp
<1>2. base \in Successors(base)
  BY DEF Successors, Table
<1>3. FMerge!Fold(0, base, groups) \in Successors(base)
  BY <1>1, <1>2, FMerge!FoldInvariant
<1>4. FoldLeft(MergeGroup, base, groups) = FMerge!Fold(0, base, groups)
  BY DEF MergeOp, FMerge!Fold, FMerge!FoldLeft, FoldLeft, FMerge!MapThenFoldSet, MapThenFoldSet, FMerge!Max, Max
<1> QED
  BY <1>3, <1>4 DEF Merge

FGroup == INSTANCE FoldFacts WITH Op <- Grouped

\* Products of naturals keep the order of a factor.
LEMMA TimesMonotone ==
  ASSUME NEW x \in Nat, NEW y \in Nat, NEW k \in Nat
  PROVE  (x <= y => k * x <= k * y) /\ (k > 0 /\ k * x <= k * y => x <= y)
<1>1. ASSUME x <= y PROVE k * x <= k * y
  <2>1. PICK d \in Nat : y = x + d
    BY <1>1
  <2>2. k * y = k * x + k * d /\ k * d \in Nat /\ k * x \in Nat
    BY <2>1
  <2> QED
    BY <2>2
<1>2. ASSUME k > 0, y < x PROVE k * y < k * x
  <2>1. PICK d \in Nat : x = y + 1 + d
    <3>1. x - y - 1 \in Nat /\ x = y + 1 + (x - y - 1)
      BY <1>2
    <3> QED
      BY <3>1
  <2>2. k * x = k * y + k + k * d /\ k * d \in Nat /\ k * y \in Nat
    BY <2>1
  <2> QED
    BY <1>2, <2>2
<1>3. k * x \in Nat /\ k * y \in Nat
  OBVIOUS
<1> QED
  BY <1>1, <1>2, <1>3

\* Rates are compared by cross multiplication, and that is transitive.
LEMMA RatesAreOrdered ==
  ASSUME NEW a \in Nat, NEW b \in Nat, NEW c \in Nat,
         NEW na \in Nat \ {0}, NEW nb \in Nat \ {0}, NEW nc \in Nat \ {0},
         a * nb <= b * na, b * nc <= c * nb
  PROVE  a * nc <= c * na
<1> DEFINE ab == a * nb
           ba == b * na
           bc == b * nc
           cb == c * nb
           ac == a * nc
           ca == c * na
<1>1. ab \in Nat /\ ba \in Nat /\ bc \in Nat /\ cb \in Nat /\ ac \in Nat /\ ca \in Nat
  OBVIOUS
<1>2. nc * ab = nb * ac /\ na * cb = nb * ca /\ nc * ba = na * bc
  OBVIOUS
<1>3. ab <= ba /\ bc <= cb
  OBVIOUS
<1> HIDE DEF ab, ba, bc, cb, ac, ca
<1>4. nc * ab <= nc * ba /\ na * bc <= na * cb
  BY <1>1, <1>3, TimesMonotone
<1>5. nc * ab \in Nat /\ nc * ba \in Nat /\ na * bc \in Nat /\ na * cb \in Nat /\ nb * ac \in Nat /\ nb * ca \in Nat
  BY <1>1
<1>6. nb * ac <= nb * ca
  BY <1>2, <1>4, <1>5
<1>7. ac <= ca
  BY <1>1, <1>6, TimesMonotone
<1> QED
  BY <1>7 DEF ac, ca

\* Being used more, or as much with a better rate, is a weak order of the skills.
LEMMA UsedMoreIsWeak ==
  ASSUME NEW a \in SkillRows, NEW b \in SkillRows
  PROVE  /\ UsedMore(a, b) => ~UsedMore(b, a)
         /\ \A c \in SkillRows : ~UsedMore(b, a) /\ ~UsedMore(c, b) => ~UsedMore(c, a)
<1> DEFINE n(r) == IF r.rated[2] = 0 THEN 1 ELSE r.rated[2]
<1>1. ASSUME NEW r \in SkillRows PROVE r.uses \in Nat /\ r.rated[1] \in Nat /\ n(r) \in Nat \ {0}
  BY <1>1 DEF SkillRows
<1>2. \A r, s : RateBelow(r, s) <=> r.rated[1] * n(s) < s.rated[1] * n(r)
  BY DEF RateBelow
<1> HIDE DEF n
<1>3. ASSUME NEW r \in SkillRows, NEW s \in SkillRows
      PROVE  /\ r.rated[1] * n(s) \in Nat
             /\ RateBelow(r, s) => ~RateBelow(s, r)
             /\ ~RateBelow(s, r) <=> r.rated[1] * n(s) <= s.rated[1] * n(r)
  <2>1. r.rated[1] * n(s) \in Nat /\ s.rated[1] * n(r) \in Nat
    BY <1>1, <1>3
  <2> QED
    BY <1>2, <2>1
<1>4. UsedMore(a, b) => ~UsedMore(b, a)
  BY <1>1, <1>3 DEF UsedMore
<1>5. ASSUME NEW c \in SkillRows, ~UsedMore(b, a), ~UsedMore(c, b) PROVE ~UsedMore(c, a)
  <2>1. b.uses <= a.uses /\ c.uses <= b.uses
    BY <1>1, <1>5 DEF UsedMore
  <2>2. CASE c.uses = b.uses /\ b.uses = a.uses
    <3>1. ~RateBelow(a, b) /\ ~RateBelow(b, c)
      BY <1>5, <2>2 DEF UsedMore
    <3>2. b.rated[1] * n(a) <= a.rated[1] * n(b) /\ c.rated[1] * n(b) <= b.rated[1] * n(c)
      BY <1>3, <1>5, <3>1
    <3>3. c.rated[1] * n(a) <= a.rated[1] * n(c)
      <4> DEFINE ra == a.rated[1]
                 rb == b.rated[1]
                 rc == c.rated[1]
      <4>1. /\ ra \in Nat /\ rb \in Nat /\ rc \in Nat
            /\ n(a) \in Nat \ {0} /\ n(b) \in Nat \ {0} /\ n(c) \in Nat \ {0}
        BY <1>1, <1>5
      <4>2. rc * n(b) <= rb * n(c) /\ rb * n(a) <= ra * n(b)
        BY <3>2
      <4> HIDE DEF ra, rb, rc
      <4>3. rc * n(a) <= ra * n(c)
        BY <4>1, <4>2, RatesAreOrdered
      <4> QED
        BY <4>3 DEF ra, rc
    <3>4. ~RateBelow(a, c)
      BY <1>3, <1>5, <3>3
    <3> QED
      BY <1>1, <1>5, <2>2, <3>4 DEF UsedMore
  <2>3. CASE ~(c.uses = b.uses /\ b.uses = a.uses)
    BY <1>1, <1>5, <2>1, <2>3 DEF UsedMore
  <2> QED
    BY <2>2, <2>3
<1> QED
  BY <1>4, <1>5

\* A skill's place in the table.
LEMMA PositionIsThere ==
  ASSUME NEW t, Table(t), NEW s \in Range(t)
  PROVE  Position(t, s) \in 1..Len(t) /\ t[Position(t, s)] = s
<1> DEFINE I == {i \in 1..Len(t) : t[i].id = s.id}
<1>1. PICK k \in 1..Len(t) : t[k] = s
  BY RowsOf
<1>2. \A i \in I : i = k
  BY <1>1 DEF Table, Unique
<1>3. I = {k}
  BY <1>1, <1>2
<1>4. Min(I) = k
  BY <1>3 DEF Min
<1>5. Position(t, s) = k
  BY <1>3, <1>4 DEF Position, SelectInSeq
<1> QED
  BY <1>1, <1>5

\* Some skill of a group is its primary.
LEMMA PrimaryIsThere ==
  ASSUME NEW t, Table(t), NEW a \in Range(t), NEW D, D \subseteq Range(t)
  PROVE  Primary(t, a, D) \in D \union {a}
<1> DEFINE S == D \union {a}
           order(s) == IF s.id = a.id THEN 0 ELSE Position(t, s)
           better(p, s) == UsedMore(p, s) \/ (~UsedMore(s, p) /\ order(p) < order(s))
           best(p, n) == \A i \in 1..n : t[i] \in S \ {p} => better(p, t[i])
           T == {n \in Nat : n <= Len(t) =>
                    \/ \A i \in 1..n : t[i] \notin S
                    \/ \E p \in S : best(p, n)}
<1>1. S \subseteq SkillRows /\ S \subseteq Range(t) /\ a \in S
  BY RowsOf
<1>2. \A s \in S : order(s) \in Nat
  BY <1>1, PositionIsThere
<1>3. \A p, s \in S : p # s => order(p) # order(s)
  <2>1. TAKE p, s \in S
  <2>2. HAVE p # s
  <2>3. p.id # s.id
    BY <1>1, <2>2, RowsOf
  <2>4. Position(t, p) # Position(t, s) /\ Position(t, p) > 0 /\ Position(t, s) > 0
    BY <1>1, <2>2, PositionIsThere
  <2> QED
    BY <2>3, <2>4
<1> HIDE DEF order, S
<1>4. \A p, s \in S : p # s => better(p, s) \/ better(s, p)
  BY <1>2, <1>3
<1>5. \A p, s, r \in S : better(p, s) /\ better(s, r) => better(p, r)
  <2>1. TAKE p, s, r \in S
  <2>2. HAVE better(p, s) /\ better(s, r)
  <2>3. order(p) \in Nat /\ order(s) \in Nat /\ order(r) \in Nat
    BY <1>2
  <2>4. ~UsedMore(s, p) /\ ~UsedMore(r, s)
    BY <1>1, <2>2, UsedMoreIsWeak
  <2>5. ~UsedMore(r, p)
    BY <1>1, <2>4, UsedMoreIsWeak
  <2>6. ASSUME ~UsedMore(p, r) PROVE ~UsedMore(p, s) /\ ~UsedMore(s, r)
    BY <1>1, <2>4, <2>6, UsedMoreIsWeak
  <2> QED
    BY <2>2, <2>3, <2>5, <2>6
<1> HIDE DEF better
<1>6. 0 \in T
  OBVIOUS
<1>7. ASSUME NEW n \in Nat, n \in T PROVE n + 1 \in T
  <2>1. SUFFICES ASSUME n + 1 <= Len(t)
                 PROVE  (\A i \in 1..(n + 1) : t[i] \notin S) \/ \E p \in S : best(p, n + 1)
    OBVIOUS
  <2>2. \A i \in 1..(n + 1) : i \in 1..n \/ i = n + 1
    OBVIOUS
  <2>3. (\A i \in 1..n : t[i] \notin S) \/ \E p \in S : best(p, n)
    <3>1. Len(t) \in Nat
      BY DEF Table
    <3> QED
      BY <1>7, <2>1, <3>1
  <2>4. CASE t[n + 1] \notin S
    BY <2>2, <2>3, <2>4
  <2>5. CASE t[n + 1] \in S /\ \A i \in 1..n : t[i] \notin S
    <3>1. best(t[n + 1], n + 1)
      BY <2>2, <2>5
    <3> QED
      BY <2>5, <3>1
  <2>6. ASSUME t[n + 1] \in S, NEW p \in S, best(p, n) PROVE \E q \in S : best(q, n + 1)
    <3>1. CASE p = t[n + 1] \/ better(p, t[n + 1])
      <4>1. best(p, n + 1)
        BY <2>2, <2>6, <3>1
      <4> QED
        BY <4>1
    <3>2. CASE p # t[n + 1] /\ better(t[n + 1], p)
      <4>1. best(t[n + 1], n + 1)
        <5>1. TAKE i \in 1..(n + 1)
        <5>2. HAVE t[i] \in S \ {t[n + 1]}
        <5>3. i \in 1..n
          BY <2>2, <5>2
        <5>4. t[i] = p \/ better(p, t[i])
          BY <2>6, <5>2, <5>3
        <5> QED
          BY <1>5, <2>6, <3>2, <5>2, <5>4
      <4> QED
        BY <2>6, <4>1
    <3> QED
      BY <1>4, <2>6, <3>1, <3>2
  <2> QED
    BY <2>3, <2>4, <2>5, <2>6
<1>8. Nat \subseteq T
  <2> HIDE DEF T
  <2> QED
    BY <1>6, <1>7, FKeep!SetInduction
<1>9. Range(t) = {t[i] : i \in 1..Len(t)} /\ Len(t) \in Nat
  BY RowsOf DEF Table
<1>10. PICK p \in S : best(p, Len(t))
  <2>1. PICK i \in 1..Len(t) : t[i] = a
    BY <1>1, <1>9
  <2>2. Len(t) \in T
    BY <1>8, <1>9
  <2> QED
    BY <1>1, <1>9, <2>1, <2>2
<1>11. \A s \in S \ {p} : better(p, s)
  BY <1>1, <1>9, <1>10
<1>12. Primary(t, a, D) = CHOOSE q \in S : \A s \in S \ {q} : better(q, s)
  BY DEF Primary, S, better, order
<1>13. Primary(t, a, D) \in S
  BY <1>11, <1>12
<1> QED
  BY <1>13 DEF S

\* A group of duplicates: the skill that stays, and the ids of those that go into it.
IdGroups(t) == [primary : Ids(t), rest : SUBSET Ids(t)]

\* What is found while the list is gone through: no primary is among the duplicates of its
\* own group or of an earlier one.
Findings(t) ==
    {found \in [merged : SUBSET Ids(t), groups : Seq(IdGroups(t))] :
        LET groups == found.groups IN
        /\ \A i \in 1..Len(groups) : groups[i].rest \subseteq found.merged
        /\ \A i, j \in 1..Len(groups) : i <= j => groups[j].primary \notin groups[i].rest}

\* One more skill of the list keeps that.
LEMMA GroupedFinds ==
  ASSUME NEW t, Table(t), NEW found \in Findings(t), NEW a \in Range(t)
  PROVE  Grouped(t, found, a) \in Findings(t)
<1> DEFINE duplicates == {b \in Range(t) \ {a} : b.id \notin found.merged /\ Similar(a, b)}
           primary == Primary(t, a, duplicates)
           rest == {s.id : s \in (duplicates \union {a}) \ {primary}}
           group == [primary |-> primary.id, rest |-> rest]
           groups == found.groups
           more == Append(groups, group)
           n == Len(groups)
<1>1. CASE a.id \in found.merged \/ duplicates = {}
  BY <1>1 DEF Grouped
<1>2. CASE ~(a.id \in found.merged \/ duplicates = {})
  <2>1. Grouped(t, found, a) = [merged |-> found.merged \union rest, groups |-> more]
    BY <1>2 DEF Grouped
  <2>2. primary \in duplicates \union {a}
    BY PrimaryIsThere
  <2>3. primary \in Range(t) /\ primary.id \notin found.merged
    BY <1>2, <2>2
  <2>4. rest \subseteq Ids(t) /\ primary.id \in Ids(t) /\ primary.id \notin rest
    <3>1. \A s \in (duplicates \union {a}) \ {primary} : s \in Range(t) /\ s.id # primary.id
      BY <2>3, RowsOf
    <3> QED
      BY <2>3, <3>1 DEF Ids
  <2> HIDE DEF primary, rest
  <2>5. /\ groups \in Seq(IdGroups(t)) /\ found.merged \subseteq Ids(t)
        /\ \A i \in 1..n : groups[i].rest \subseteq found.merged
        /\ \A i, j \in 1..n : i <= j => groups[j].primary \notin groups[i].rest
    BY DEF Findings
  <2>6. group \in IdGroups(t) /\ group.primary = primary.id /\ group.rest = rest
    BY <2>4 DEF IdGroups
  <2> HIDE DEF groups, group
  <2>7. /\ more \in Seq(IdGroups(t)) /\ Len(more) = n + 1 /\ n \in Nat
        /\ more[n + 1] = group /\ \A i \in 1..n : more[i] = groups[i]
    BY <2>5, <2>6
  <2> HIDE DEF more, n
  <2>8. \A i \in 1..(n + 1) : i \in 1..n \/ i = n + 1
    BY <2>7
  <2>9. \A i \in 1..(n + 1) : more[i].rest \subseteq found.merged \union rest
    BY <2>5, <2>6, <2>7, <2>8
  <2>10. \A i, j \in 1..(n + 1) : i <= j => more[j].primary \notin more[i].rest
    <3>1. TAKE i, j \in 1..(n + 1)
    <3>2. HAVE i <= j
    <3>3. CASE j \in 1..n
      <4>1. i \in 1..n
        BY <2>7, <3>2, <3>3
      <4> QED
        BY <2>5, <2>7, <3>2, <3>3, <4>1
    <3>4. CASE j = n + 1 /\ i \in 1..n
      BY <2>3, <2>5, <2>6, <2>7, <3>4
    <3>5. CASE j = n + 1 /\ i = n + 1
      BY <2>4, <2>6, <2>7, <3>5
    <3> QED
      BY <2>8, <3>3, <3>4, <3>5
  <2>11. Grouped(t, found, a) \in [merged : SUBSET Ids(t), groups : Seq(IdGroups(t))]
    BY <2>1, <2>4, <2>5, <2>7
  <2> QED
    BY <2>1, <2>7, <2>9, <2>10, <2>11 DEF Findings
<1> QED
  BY <1>1, <1>2

\* The groups of a table, in their order.
LEMMA GroupsFound ==
  ASSUME NEW t, Table(t)
  PROVE  /\ Duplicates(t) \in Seq(IdGroups(t))
         /\ \A i, j \in 1..Len(Duplicates(t)) :
               i <= j => Duplicates(t)[j].primary \notin Duplicates(t)[i].rest
<1> DEFINE base == [merged |-> {}, groups |-> <<>>]
<1>1. base \in Findings(t)
  BY DEF Findings
<1>2. \A v \in Findings(t), a \in Range(t) : Grouped(t, v, a) \in Findings(t)
  BY GroupedFinds
<1>3. t \in Seq(Range(t))
  BY DEF Table, Range
<1>4. FGroup!Fold(t, base, t) \in Findings(t)
  BY <1>1, <1>2, <1>3, FGroup!FoldInvariant
<1>5. Duplicates(t) = FGroup!Fold(t, base, t).groups
  BY DEF Duplicates, FGroup!Fold, FGroup!FoldLeft, FoldLeft, FGroup!MapThenFoldSet, MapThenFoldSet,
         FGroup!Max, Max
<1> HIDE DEF base
<1> QED
  BY <1>4, <1>5 DEF Findings

\* Maintenance is one rewriting of the table after the other.
LEMMA SuccessorsOfSuccessors ==
  ASSUME NEW base, NEW t \in Successors(base), NEW u \in Successors(t)
  PROVE  u \in Successors(base)
  BY DEF Successors

\* Maintenance leaves rows of the table, with their ids and names.
LEMMA MaintenanceSucceeds ==
  ASSUME NEW t, Table(t)
  PROVE  /\ Deduplicated(t) \in Successors(t)
         /\ ImprovedAll(Pruned(Deduplicated(t))) \in Successors(t)
<1>0. ASSUME NEW u, Table(u) PROVE u \in Successors(u)
  BY <1>0 DEF Successors, Table
<1>1. ASSUME NEW u, Table(u), NEW A PROVE Only(u, A) \in Seq(Range(u))
  <2>1. u \in Seq(Range(u))
    BY <1>1 DEF Table, Range
  <2> QED
    BY <2>1, OnlySelects
<1>2. ASSUME NEW u, Table(u) PROVE Deduplicated(u) \in Successors(u)
  <2>1. Table(Active(u))
    BY <1>2, SelectedTable DEF Active
  <2>2. Duplicates(Active(u)) \in Seq(IdGroups(Active(u)))
    BY <2>1, GroupsFound
  <2> QED
    BY <1>2, <2>2, MergingSucceeds DEF Deduplicated
<1>3. ASSUME NEW u, Table(u) PROVE ImprovedAll(u) \in Successors(u)
  BY <1>0, <1>1, <1>3, ImprovingSucceeds DEF ImprovedAll
<1>4. ASSUME NEW u, Table(u), NEW list \in Seq(Range(u)) PROVE FoldLeft(Archive, u, list) \in Successors(u)
  BY <1>0, <1>4, ArchivingSucceeds
<1>5. ASSUME NEW u, Table(u) PROVE Pruned(u) \in Successors(u)
  <2>1. PICK A : LET judged == FoldLeft(Archive, u, Only(u, A)) IN
                 \E B : Pruned(u) = FoldLeft(Archive, judged, Only(Active(judged), B))
    BY DEF Pruned
  <2> DEFINE judged == FoldLeft(Archive, u, Only(u, A))
  <2>2. PICK B : Pruned(u) = FoldLeft(Archive, judged, Only(Active(judged), B))
    BY <2>1
  <2>3. judged \in Successors(u)
    BY <1>1, <1>4, <1>5
  <2> HIDE DEF judged
  <2>4. Table(judged)
    BY <2>3, SuccessorsAreTables
  <2>5. Only(Active(judged), B) \in Seq(Range(judged))
    <3>1. Table(Active(judged)) /\ Range(Active(judged)) \subseteq Range(judged)
      BY <2>4, SelectedTable DEF Active
    <3>2. Only(Active(judged), B) \in Seq(Range(Active(judged)))
      BY <1>1, <3>1
    <3> QED
      BY <3>1, <3>2
  <2>6. Pruned(u) \in Successors(judged)
    BY <1>4, <2>2, <2>4, <2>5
  <2> QED
    BY <2>3, <2>6, SuccessorsOfSuccessors
<1>6. Deduplicated(t) \in Successors(t) /\ Table(Deduplicated(t))
  BY <1>2, SuccessorsAreTables
<1>7. Pruned(Deduplicated(t)) \in Successors(Deduplicated(t)) /\ Table(Pruned(Deduplicated(t)))
  BY <1>5, <1>6, SuccessorsAreTables
<1>8. ImprovedAll(Pruned(Deduplicated(t))) \in Successors(Pruned(Deduplicated(t)))
  BY <1>3, <1>7
<1> QED
  BY <1>6, <1>7, <1>8, SuccessorsOfSuccessors

\* Tables of the same keys have the same names and ids.
LEMMA NamesByKeys ==
  ASSUME NEW t, NEW u, Keys(t) = Keys(u)
  PROVE  Names(t) = Names(u) /\ Ids(t) = Ids(u)
<1>1. \A s \in Range(t) : \E r \in Range(u) : r.id = s.id /\ r.name = s.name
  BY KeysOfRows
<1>2. \A s \in Range(u) : \E r \in Range(t) : r.id = s.id /\ r.name = s.name
  BY KeysOfRows
<1> QED
  BY <1>1, <1>2 DEF Names, Ids

\* A table has as many ids, and names, as it has rows.
LEMMA UniqueCounts ==
  ASSUME NEW t, Table(t)
  PROVE  Cardinality(Ids(t)) = Len(t) /\ Cardinality(Names(t)) = Len(t)
<1> DEFINE n == Len(t)
           f == [i \in 1..n |-> t[i].id]
           g == [i \in 1..n |-> t[i].name]
<1>1. n \in Nat
  BY DEF Table
<1>2. Ids(t) = {t[i].id : i \in 1..n} /\ Names(t) = {t[i].name : i \in 1..n}
  BY RowsOf DEF Ids, Names
<1>3. IsFiniteSet(1..n) /\ Cardinality(1..n) = n
  BY <1>1, CountUpTo
<1>4. f \in Bijection(1..n, Ids(t))
  BY <1>2 DEF Bijection, Injection, Surjection, IsInjective, Table, Unique
<1>5. g \in Bijection(1..n, Names(t))
  BY <1>2 DEF Bijection, Injection, Surjection, IsInjective, Table, Unique
<1> HIDE DEF f, g, n
<1> QED
  BY <1>3, <1>4, <1>5, FS_Bijection DEF ExistsBijection, n

\* A row that is replaced in its place leaves a table of the same keys.
LEMMA PlacedTable ==
  ASSUME NEW t, Table(t), NEW row \in SkillRows, NEW old \in Range(t), old.id = row.id, old.name = row.name
  PROVE  Table(InPlace(t, row)) /\ Keys(InPlace(t, row)) = Keys(t)
<1> DEFINE u == InPlace(t, row)
           n == Len(t)
<1>1. n \in Nat /\ t \in Seq(SkillRows)
  BY DEF Table
<1>2. u \in Seq(SkillRows) /\ Len(u) = n
  BY <1>1 DEF InPlace
<1>3. \A i \in 1..n : u[i].id = t[i].id /\ u[i].name = t[i].name
  <2>1. TAKE i \in 1..n
  <2>2. CASE t[i].id = row.id
    <3>1. t[i] = old
      BY <2>2, RowsOf
    <3> QED
      BY <2>2, <3>1 DEF InPlace
  <2>3. CASE t[i].id # row.id
    BY <2>3 DEF InPlace
  <2> QED
    BY <2>2, <2>3
<1> HIDE DEF u, n
<1>4. Range(u) = {u[i] : i \in 1..n} /\ Range(t) = {t[i] : i \in 1..n}
  BY <1>2, RowsOf DEF Range, n
<1>5. Keys(u) = Keys(t)
  BY <1>3, <1>4 DEF Keys
<1> QED
  BY <1>2, <1>3, <1>5 DEF Table, Unique, u, n

SkillInv ==
    /\ Table(skills) /\ newId \in 1..(MaxSkills + 1)
    /\ \A s \in Range(skills) : s.id < newId
    /\ files \subseteq SkillNames /\ torn \subseteq SkillNames
    /\ FilesFollowSkills

\* The first state of the skills has the invariant.
LEMMA SkillsInitially == SkillInit => SkillInv
<1> SUFFICES ASSUME SkillInit PROVE SkillInv
  OBVIOUS
<1>1. skills = <<>> /\ Range(skills) = {} /\ Names(skills) = {}
  BY DEF SkillInit, Range, Names
<1>2. Table(skills)
  BY <1>1 DEF Table, Unique
<1> QED
  BY <1>1, <1>2, SkillAssumption DEF SkillInit, SkillInv, FilesFollowSkills, SkillAssumption

\* A write to the file of a skill, torn or not.
LEMMA WroteFollows ==
  ASSUME FilesFollowSkills, NEW name \in SkillNames, Wrote(name), Names(skills)' = Names(skills) \union {name},
         files \subseteq SkillNames, torn \subseteq SkillNames
  PROVE  FilesFollowSkills' /\ files' \subseteq SkillNames /\ torn' \subseteq SkillNames
  BY DEF FilesFollowSkills, Wrote, Dies

\* A table with the keys of the one before, whose file is written or which has none to write.
LEMMA SameKeys ==
  ASSUME SkillInv, Table(skills'), Keys(skills') = Keys(skills), newId' = newId
  PROVE  /\ Table(skills)' /\ newId' \in 1..(MaxSkills + 1) /\ \A s \in Range(skills)' : s.id < newId'
         /\ Names(skills)' = Names(skills)
<1>1. Names(skills') = Names(skills)
  BY NamesByKeys
<1>2. \A s \in Range(skills') : \E r \in Range(skills) : r.id = s.id /\ r.name = s.name
  BY KeysOfRows
<1>3. Names(skills)' = Names(skills') /\ Range(skills)' = Range(skills') /\ Table(skills)' = Table(skills')
  BY DEF Names, Range, Table, Unique
<1> QED
  BY <1>1, <1>2, <1>3 DEF SkillInv

\* A creation, which replaces a skill of the same name.
LEMMA CreateFollows ==
  ASSUME SkillInv, NEW name \in SkillNames, NEW topics \in Subjects, Create(name, topics)
  PROVE  SkillInv'
<1> USE SkillAssumption DEF SkillAssumption
<1> DEFINE row == Skill(newId, name, topics)
           rest == Only(skills, {s \in Range(skills) : s.name # name})
<1>1. row \in SkillRows /\ row.id = newId /\ row.name = name /\ newId' = newId + 1 /\ newId \in 1..MaxSkills
  BY DEF Create, Skill, SkillInv, SkillRows, AllTopics
<1>2. Table(rest) /\ Range(rest) = {s \in Range(skills) : s.name # name}
  BY SelectedTable DEF SkillInv
<1>3. skills' = <<row>> \o rest
  BY DEF Create
<1> HIDE DEF row, rest
<1>4. \A s \in Range(rest) : s.id # row.id /\ s.name # row.name
  BY <1>1, <1>2 DEF SkillInv
<1>5. Table(skills') /\ Range(skills') = {s \in Range(skills) : s.name # name} \union {row}
  BY <1>1, <1>2, <1>3, <1>4, ExtendedTable
<1>6. Names(skills') = Names(skills) \union {name}
  BY <1>1, <1>5 DEF Names
<1>7. FilesFollowSkills' /\ files' \subseteq SkillNames /\ torn' \subseteq SkillNames
  BY <1>6, WroteFollows DEF Create, SkillInv, Names
<1>8. \A s \in Range(skills') : s.id < newId'
  <2>1. \A s \in Range(skills) : s.id \in Nat /\ s.id < newId
    <3>1. Table(skills) /\ \A s \in Range(skills) : s.id < newId
      BY DEF SkillInv
    <3>2. Range(skills) \subseteq SkillRows
      BY <3>1, RowsOf
    <3>3. \A s \in SkillRows : s.id \in Nat
      BY DEF SkillRows
    <3> QED
      BY <3>1, <3>2, <3>3
  <2>2. \A s \in Range(skills) : s.id < newId + 1
    BY <1>1, <2>1
  <2> QED
    BY <1>1, <1>5, <2>2
<1> QED
  BY <1>1, <1>5, <1>7, <1>8 DEF SkillInv, Table, Unique

\* Every step of the skills keeps the invariant.
LEMMA SkillStep == SkillInv /\ [SkillNext]_skillVars => SkillInv'
<1> USE SkillAssumption DEF SkillAssumption
<1> SUFFICES ASSUME SkillInv, [SkillNext]_skillVars PROVE SkillInv'
  OBVIOUS
<1>0. Table(skills)
  BY DEF SkillInv
\* Of rows that are updated.
<1>1. ASSUME NEW row \in SkillRows, NEW old \in Range(skills), old.id = row.id, old.name = row.name,
             skills' = Updated(skills, row) \/ skills' = InPlace(skills, row), newId' = newId
      PROVE  /\ Table(skills)' /\ newId' \in 1..(MaxSkills + 1) /\ \A s \in Range(skills)' : s.id < newId'
             /\ Names(skills)' = Names(skills)
  <2>1. Table(skills') /\ Keys(skills') = Keys(skills)
    BY <1>0, <1>1, UpdatedTable, PlacedTable
  <2> QED
    BY <1>1, <2>1, SameKeys
<1>2. ASSUME NEW row \in SkillRows, NEW old \in Range(skills), old.id = row.id, old.name = row.name,
             skills' = Updated(skills, row), newId' = newId, Wrote(row.name)
      PROVE  SkillInv'
  <2>1. /\ Table(skills)' /\ newId' \in 1..(MaxSkills + 1) /\ \A s \in Range(skills)' : s.id < newId'
        /\ Names(skills)' = Names(skills)
    BY <1>1, <1>2
  <2>2. row.name \in SkillNames /\ Names(skills) = Names(skills) \union {row.name}
    BY <1>2 DEF SkillRows, Names
  <2>3. FilesFollowSkills' /\ files' \subseteq SkillNames /\ torn' \subseteq SkillNames
    BY <1>2, <2>1, <2>2, WroteFollows DEF SkillInv
  <2> QED
    BY <2>1, <2>3 DEF SkillInv
<1>3. ASSUME NEW row \in SkillRows, NEW old \in Range(skills), old.id = row.id, old.name = row.name,
             skills' = Updated(skills, row) \/ skills' = InPlace(skills, row), UNCHANGED <<files, torn, newId>>
      PROVE  SkillInv'
  <2>1. /\ Table(skills)' /\ newId' \in 1..(MaxSkills + 1) /\ \A s \in Range(skills)' : s.id < newId'
        /\ Names(skills)' = Names(skills)
    BY <1>1, <1>3
  <2> QED
    BY <1>3, <2>1 DEF SkillInv, FilesFollowSkills
<1>4. ASSUME NEW slug \in Slugs, NEW topics \in Subjects, CreateSkill(slug, topics) PROVE SkillInv'
  <2> DEFINE name == <<"", slug>>
  <2>1. name \in SkillNames
    BY DEF SkillNames, Kinds
  <2> HIDE DEF name
  <2>2. CASE name \notin Names(skills)
    BY <1>4, <2>1, <2>2, CreateFollows DEF CreateSkill, name
  <2>3. CASE name \in Names(skills)
    <3> DEFINE old == CHOOSE s \in Range(skills) : s.name = name
               row == [old EXCEPT !.topics = topics]
    <3>1. old \in Range(skills) /\ old.name = name
      BY <2>3 DEF Names
    <3>2. skills' = Updated(skills, row) /\ Wrote(name) /\ newId' = newId
      BY <1>4, <2>3 DEF CreateSkill, name
    <3> HIDE DEF old
    <3>3. old \in SkillRows /\ topics \in SUBSET AllTopics
      BY <1>0, <3>1, RowsOf DEF AllTopics
    <3>4. row \in SkillRows /\ row.id = old.id /\ row.name = old.name
      BY <3>3, ChangedRow
    <3> HIDE DEF row
    <3> QED
      BY <1>2, <3>1, <3>2, <3>4
  <2> QED
    BY <2>2, <2>3
<1>5. ASSUME NEW slug \in Slugs, NEW topics \in Subjects, NEW prefix \in Kinds,
             FromReflection(prefix, slug, topics)
      PROVE  SkillInv'
  <2>1. <<prefix, slug>> \in SkillNames
    BY DEF SkillNames
  <2> QED
    BY <1>5, <2>1, CreateFollows DEF FromReflection
<1>6. ASSUME NEW id \in Ids(skills), NEW topics, NEW outcome, Improve(id, topics, outcome)
      PROVE  SkillInv'
  <2> DEFINE old == Row(skills, id)
             row == [old EXCEPT !.topics = topics, !.improved = TRUE,
                                !.failed = @ \/ FirstFailure(outcome) # 0]
  <2>1. old \in Range(skills) /\ old \in SkillRows
    BY <1>0, RowIsThere
  <2>2. skills' = Updated(skills, row) /\ Wrote(old.name) /\ newId' = newId /\ topics \in Improvements(old)
    BY <1>6 DEF Improve
  <2> HIDE DEF old
  <2>3. topics \subseteq AllTopics
    BY <2>1, <2>2 DEF Improvements, SkillRows, AllTopics
  <2>4. row \in SkillRows /\ row.id = old.id /\ row.name = old.name
    BY <2>1, <2>3 DEF SkillRows
  <2> HIDE DEF row
  <2> QED
    BY <1>2, <2>1, <2>2, <2>4
<1>7. ASSUME NEW id \in Ids(skills), Delete(id) PROVE SkillInv'
  <2> DEFINE old == Row(skills, id)
  <2>1. old \in Range(skills) /\ old \in SkillRows /\ old.id = id
    BY <1>0, RowIsThere
  <2>2. Table(skills') /\ Range(skills') = {s \in Range(skills) : s.id # id}
    BY <1>0, <1>7, SelectedTable DEF Delete, Others
  <2>3. Range(skills') = Range(skills) \ {old}
    BY <1>0, <2>1, <2>2, RowsOf
  <2> HIDE DEF old
  <2>4. Names(skills') = Names(skills) \ {old.name}
    <3>1. \A s \in Range(skills) : s.name = old.name => s = old
      BY <1>0, <2>1, RowsOf
    <3> QED
      BY <2>1, <2>3, <3>1 DEF Names
  <2>5. old.name \in SkillNames
    BY <2>1 DEF SkillRows
  <2>6. FilesFollowSkills' /\ files' \subseteq SkillNames /\ torn' \subseteq SkillNames /\ newId' = newId
    BY <1>7, <2>4, <2>5 DEF Delete, Dies, SkillInv, FilesFollowSkills, Names, old
  <2> QED
    BY <2>2, <2>6 DEF SkillInv, Table, Unique
<1>8. ASSUME NEW outcome, ExecuteSkill(outcome) PROVE SkillInv'
  <2> DEFINE id == Head(running)
             old == Row(skills, id)
             gain == IF Succeeded(outcome) THEN 1 ELSE 0
             row == [old EXCEPT !.uses = @ + 1, !.good = old.good + gain, !.rated = <<old.good + gain, old.uses + 1>>]
  <2>1. CASE id \notin Ids(skills)
    BY <1>8, <2>1 DEF ExecuteSkill, RecordUsage, SkillInv, FilesFollowSkills
  <2>2. CASE id \in Ids(skills)
    <3>1. old \in Range(skills) /\ old \in SkillRows
      BY <1>0, <2>2, RowIsThere
    <3>2. skills' = Updated(skills, row) /\ old.uses < MaxUses /\ UNCHANGED <<files, torn, newId>>
      BY <1>8, <2>2 DEF ExecuteSkill, RecordUsage
    <3> HIDE DEF old
    <3>3. row \in SkillRows /\ row.id = old.id /\ row.name = old.name
      <4>1. gain \in {0, 1}
        OBVIOUS
      <4> HIDE DEF gain
      <4>2. row \in SkillRows
        BY <3>1, <3>2, <4>1, UsedRow
      <4>3. row.id = old.id /\ row.name = old.name
        BY <3>1 DEF SkillRows
      <4> QED
        BY <4>2, <4>3
    <3> HIDE DEF row
    <3> QED
      BY <1>3, <3>1, <3>2, <3>3
  <2> QED
    BY <2>1, <2>2
<1>9. CASE SkillCrash
  <2>1. CASE skills' = skills
    BY <1>9, <2>1 DEF SkillCrash, SkillInv, FilesFollowSkills
  <2>2. CASE skills' # skills
    <3> DEFINE id == Head(running)
               old == Row(skills, id)
    <3>1. PICK good \in {0, 1} :
             /\ id \in Ids(skills) /\ old.uses < MaxUses
             /\ skills' = InPlace(skills, [old EXCEPT !.uses = @ + 1, !.good = @ + good])
      BY <1>9, <2>2 DEF SkillCrash
    <3> DEFINE row == [old EXCEPT !.uses = @ + 1, !.good = @ + good]
    <3>2. old \in Range(skills) /\ old \in SkillRows
      BY <1>0, <3>1, RowIsThere
    <3> HIDE DEF old
    <3>3. row \in SkillRows /\ row.id = old.id /\ row.name = old.name
      <4>1. row \in SkillRows
        BY <3>1, <3>2, UsedRow
      <4>2. row.id = old.id /\ row.name = old.name
        BY <3>2 DEF SkillRows
      <4> QED
        BY <4>1, <4>2
    <3>4. skills' = InPlace(skills, row) /\ UNCHANGED <<files, torn, newId>>
      BY <1>9, <3>1 DEF SkillCrash
    <3> HIDE DEF row
    <3> QED
      BY <1>3, <3>2, <3>3, <3>4
  <2> QED
    BY <2>1, <2>2
<1>10. ASSUME NEW t \in Successors(skills), Maintain(t) PROVE SkillInv'
  <2>1. Table(t) /\ Keys(t) \subseteq Keys(skills)
    BY <1>10, SuccessorsAreTables
  <2>2. skills' = t /\ newId' = newId
    BY <1>10 DEF Maintain
  <2>3. \A s \in Range(t) : s.id < newId
    BY <2>1, KeysOfRows DEF SkillInv
  <2>4. Names(t) \subseteq SkillNames
    BY <2>1, RowsOf DEF Names, SkillRows
  <2>5. FilesFollowSkills' /\ files' \subseteq SkillNames /\ torn' \subseteq SkillNames
    <3> DEFINE touched == {s.name : s \in Range(t) \ Range(skills)}
               lost == Names(skills) \ Names(t)
    <3>1. files' = (files \union touched) \ lost /\ torn' = torn \ (touched \union lost)
      BY <1>10 DEF Maintain
    <3>2. touched \subseteq Names(t)
      BY DEF Names
    <3>3. \A x \in Names(t) : x \in touched \/ x \in Names(skills)
      BY DEF Names
    <3>4. files \ torn = Names(skills) \ torn /\ files \subseteq SkillNames /\ torn \subseteq SkillNames
      BY DEF SkillInv, FilesFollowSkills
    <3>5. Names(skills)' = Names(t)
      BY <2>2 DEF Names
    <3> HIDE DEF touched, lost
    <3>6. files' \ torn' = Names(t) \ torn'
      BY <3>1, <3>2, <3>3, <3>4 DEF lost
    <3> QED
      BY <2>4, <3>1, <3>2, <3>4, <3>5, <3>6 DEF FilesFollowSkills
  <2> QED
    BY <2>1, <2>2, <2>3, <2>5 DEF SkillInv, Table, Unique
<1>11. CASE Deduplicate \/ RunMaintenance
  BY <1>0, <1>10, <1>11, MaintenanceSucceeds DEF Deduplicate, RunMaintenance
<1>12. CASE UNCHANGED <<skills, files, torn, newId>>
  BY <1>12 DEF SkillInv, FilesFollowSkills
<1> QED
  BY <1>4, <1>5, <1>6, <1>7, <1>8, <1>9, <1>11, <1>12 DEF SkillNext, Select, skillVars

\* What the invariant says of the skills to a reader.
LEMMA SkillsAreTyped == SkillInv => SkillTypeOK
  BY RowsOf, UniqueCounts DEF SkillInv, SkillTypeOK, SkillRows

\* A group whose primary is still there is merged without loss.
LEMMA MergeGroupKeeps ==
  ASSUME NEW base, Table(base), NEW t \in Successors(base), NEW g, g.primary \in Ids(t), g.primary \notin g.rest
  PROVE  Topics(MergeGroup(t, g)) = Topics(t) /\ Ids(MergeGroup(t, g)) = Ids(t) \ g.rest
<1> DEFINE topics == UNION {TopicsOf(t, id) : id \in g.rest \union {g.primary}}
           row == Row(t, g.primary)
           better == [row EXCEPT !.topics = topics]
           kept == Updated(t, better)
           left == Only(kept, {s \in Range(kept) : s.id \notin g.rest})
<1>1. Table(t) /\ Keys(t) \subseteq Keys(base)
  BY SuccessorsAreTables
<1>2. row \in Range(t) /\ row \in SkillRows /\ row.id = g.primary
  BY <1>1, RowIsThere
<1>3. topics \in SUBSET AllTopics
  BY <1>1, TopicsAreTopics
<1>4. \A id \in Ids(t) : \A s \in Range(t) : s.id = id => TopicsOf(t, id) = s.topics
  <2>1. TAKE id \in Ids(t)
  <2>2. TAKE s \in Range(t)
  <2>3. HAVE s.id = id
  <2>4. Row(t, id) = s
    BY <1>1, <2>3, RowIsThere, RowsOf
  <2> QED
    BY <2>4 DEF TopicsOf
<1>5. \A id : TopicsOf(t, id) \subseteq Topics(t)
  <2>1. TAKE id
  <2>2. CASE id \in Ids(t)
    <3>1. Row(t, id) \in Range(t)
      BY <1>1, <2>2, RowIsThere
    <3> QED
      BY <2>2, <3>1 DEF TopicsOf, Topics
  <2>3. CASE id \notin Ids(t)
    BY <2>3 DEF TopicsOf
  <2> QED
    BY <2>2, <2>3
<1>6. topics \subseteq Topics(t)
  BY <1>5
<1>7. \A s \in Range(t) : s.id \in g.rest \union {g.primary} => s.topics \subseteq topics
  <2>1. TAKE s \in Range(t)
  <2>2. HAVE s.id \in g.rest \union {g.primary}
  <2>3. s.id \in Ids(t)
    BY DEF Ids
  <2>4. TopicsOf(t, s.id) = s.topics
    BY <1>4, <2>3
  <2> QED
    BY <2>2, <2>4
<1>8. MergeGroup(t, g) = left
  BY DEF MergeGroup
<1> HIDE DEF topics, row
<1>9. better \in SkillRows /\ better.id = row.id /\ better.name = row.name /\ better.topics = topics
  <2>1. better.topics = topics
    BY <1>2 DEF SkillRows
  <2> QED
    BY <1>2, <1>3, <2>1, ChangedRow
<1> HIDE DEF better
<1>10. Table(kept) /\ Range(kept) = (Range(t) \ {row}) \union {better}
  BY <1>1, <1>2, <1>9, UpdatedTable
<1> HIDE DEF kept
<1>11. Range(left) = {s \in (Range(t) \ {row}) \union {better} : s.id \notin g.rest}
  BY <1>10, SelectedTable
<1> HIDE DEF left
<1>12. better \in Range(left)
  BY <1>2, <1>9, <1>11
<1>13. Ids(left) = Ids(t) \ g.rest
  BY <1>2, <1>9, <1>11, <1>12 DEF Ids
<1>14. ASSUME NEW x \in Topics(t) PROVE x \in Topics(left)
  <2>1. PICK s \in Range(t) : x \in s.topics
    BY <1>14 DEF Topics
  <2>2. CASE s.id \in g.rest \union {g.primary}
    <3>1. x \in better.topics
      BY <1>7, <1>9, <2>1, <2>2
    <3> QED
      BY <1>12, <3>1 DEF Topics
  <2>3. CASE s.id \notin g.rest \union {g.primary}
    <3>1. s \in Range(left)
      BY <1>2, <1>11, <2>3
    <3> QED
      BY <2>1, <3>1 DEF Topics
  <2> QED
    BY <2>2, <2>3
<1>15. ASSUME NEW x \in Topics(left) PROVE x \in Topics(t)
  <2>1. PICK s \in Range(left) : x \in s.topics
    BY <1>15 DEF Topics
  <2>2. CASE s = better
    BY <1>6, <1>9, <2>1, <2>2
  <2>3. CASE s # better
    <3>1. s \in Range(t)
      BY <1>11, <2>3
    <3> QED
      BY <2>1, <3>1 DEF Topics
  <2> QED
    BY <2>2, <2>3
<1> QED
  BY <1>8, <1>13, <1>14, <1>15

\* Merging groups in the order in which they were found forgets no topic: the primary of each
\* is there when its turn comes.
LEMMA MergingKeepsTopics ==
  ASSUME NEW base, Table(base), NEW groups, NEW G, groups \in Seq(G),
         \A i \in 1..Len(groups) : groups[i].primary \in Ids(base),
         \A i, j \in 1..Len(groups) : i <= j => groups[j].primary \notin groups[i].rest
  PROVE  Topics(Merge(base, groups)) = Topics(base)
<1>1. PICK f : FMerge!Prefixed(f, 0, base, groups)
  BY FMerge!FoldByPrefixes
<1> DEFINE Gone(n) == UNION {groups[i].rest : i \in 1..n}
           T == {n \in Nat : n <= Len(groups) =>
                    f[n] \in Successors(base) /\ Topics(f[n]) = Topics(base) /\ Ids(f[n]) = Ids(base) \ Gone(n)}
<1>2. 0 \in T
  <2>1. base \in Successors(base) /\ Gone(0) = {}
    BY DEF Successors, Table
  <2>2. f[0] = base
    BY <1>1 DEF FMerge!Prefixed
  <2> QED
    BY <2>1, <2>2
<1>3. ASSUME NEW n \in Nat, n \in T PROVE n + 1 \in T
  <2>1. SUFFICES ASSUME n + 1 <= Len(groups)
                 PROVE  /\ f[n + 1] \in Successors(base) /\ Topics(f[n + 1]) = Topics(base)
                        /\ Ids(f[n + 1]) = Ids(base) \ Gone(n + 1)
    OBVIOUS
  <2> DEFINE g == groups[n + 1]
  <2>2. f[n + 1] = MergeGroup(f[n], g)
    BY <1>1, <2>1 DEF FMerge!Prefixed, MergeOp
  <2>3. f[n] \in Successors(base) /\ Topics(f[n]) = Topics(base) /\ Ids(f[n]) = Ids(base) \ Gone(n)
    <3>1. Len(groups) \in Nat
      OBVIOUS
    <3> QED
      BY <1>3, <2>1, <3>1
  <2>4. g.primary \in Ids(base) /\ g.primary \notin Gone(n) /\ g.primary \notin g.rest
    <3>1. n + 1 \in 1..Len(groups) /\ \A i \in 1..n : i \in 1..Len(groups) /\ i <= n + 1
      BY <2>1
    <3> QED
      BY <3>1
  <2>5. Gone(n + 1) = Gone(n) \union g.rest
    <3>1. 1..(n + 1) = 1..n \union {n + 1}
      OBVIOUS
    <3> QED
      BY <3>1
  <2> HIDE DEF g, Gone
  <2>6. g.primary \in Ids(f[n])
    BY <2>3, <2>4
  <2>7. Topics(f[n + 1]) = Topics(f[n]) /\ Ids(f[n + 1]) = Ids(f[n]) \ g.rest
    BY <2>2, <2>3, <2>4, <2>6, MergeGroupKeeps
  <2>8. f[n + 1] \in Successors(base)
    BY <2>2, <2>3, MergeGroupSucceeds
  <2> QED
    BY <2>3, <2>5, <2>7, <2>8
<1>4. Nat \subseteq T
  <2> HIDE DEF T
  <2> QED
    BY <1>2, <1>3, FMerge!SetInduction
<1>5. FoldLeft(MergeGroup, base, groups) = FMerge!Fold(0, base, groups)
  BY DEF MergeOp, FMerge!Fold, FMerge!FoldLeft, FoldLeft, FMerge!MapThenFoldSet, MapThenFoldSet, FMerge!Max, Max
<1>6. Len(groups) \in Nat
  OBVIOUS
<1>7. f[Len(groups)] = FMerge!Fold(0, base, groups)
  BY <1>1 DEF FMerge!Prefixed
<1> QED
  BY <1>4, <1>5, <1>6, <1>7 DEF Merge

\* Merging duplicates forgets no topic.
LEMMA DeduplicatedKeepsTopics ==
  ASSUME NEW t, Table(t)
  PROVE  Topics(Deduplicated(t)) = Topics(t)
<1> DEFINE active == Active(t)
           groups == Duplicates(active)
<1>1. Table(active) /\ Range(active) \subseteq Range(t)
  BY SelectedTable DEF Active
<1>2. Ids(active) \subseteq Ids(t)
  BY <1>1 DEF Ids
<1> HIDE DEF active
<1>3. groups \in Seq(IdGroups(active)) /\ \A i, j \in 1..Len(groups) : i <= j => groups[j].primary \notin groups[i].rest
  BY <1>1, GroupsFound
<1> HIDE DEF groups
<1>4. \A i \in 1..Len(groups) : groups[i].primary \in Ids(t)
  <2>1. \A i \in 1..Len(groups) : groups[i] \in IdGroups(active)
    BY <1>3
  <2>2. \A g \in IdGroups(active) : g.primary \in Ids(active)
    BY DEF IdGroups
  <2> QED
    BY <1>2, <2>1, <2>2
<1>5. Topics(Merge(t, groups)) = Topics(t)
  BY <1>3, <1>4, MergingKeepsTopics
<1> QED
  BY <1>5 DEF Deduplicated, groups, active

\* What each skill is about.
Abouts(t) == {<<s.id, s.topics>> : s \in Range(t)}

\* Tables that say the same of each skill have the same topics.
LEMMA TopicsByAbouts ==
  ASSUME NEW t, NEW u, Abouts(t) = Abouts(u)
  PROVE  Topics(t) = Topics(u)
<1>1. \A x, y : Abouts(x) = Abouts(y) => Topics(x) \subseteq Topics(y)
  <2>1. TAKE x, y
  <2>2. HAVE Abouts(x) = Abouts(y)
  <2>3. ASSUME NEW s \in Range(x) PROVE \E r \in Range(y) : r.topics = s.topics
    <3>1. <<s.id, s.topics>> \in Abouts(y)
      BY <2>2, <2>3 DEF Abouts
    <3>2. PICK r \in Range(y) : <<s.id, s.topics>> = <<r.id, r.topics>>
      BY <3>1 DEF Abouts
    <3> QED
      BY <3>2
  <2> QED
    BY <2>3 DEF Topics
<1> QED
  BY <1>1

\* Tables that say the same of each skill, with the same names.
SameAbout(base) == {t \in Successors(base) : Abouts(t) = Abouts(base)}

\* An update that keeps what the skill is about.
LEMMA UpdatedIsSameAbout ==
  ASSUME NEW base, Table(base), NEW t \in SameAbout(base), NEW s \in Range(base),
         NEW row \in SkillRows, row.id = s.id, row.name = s.name, row.topics = s.topics
  PROVE  Updated(t, row) \in SameAbout(base)
<1>1. t \in Successors(base) /\ Abouts(t) = Abouts(base) /\ Table(t)
  BY SuccessorsAreTables DEF SameAbout
<1>2. Updated(t, row) \in Successors(base)
  BY <1>1, UpdatedSucceeds
<1>3. PICK old \in Range(t) : <<s.id, s.topics>> = <<old.id, old.topics>>
  <2>1. <<s.id, s.topics>> \in Abouts(t)
    BY <1>1 DEF Abouts
  <2> QED
    BY <2>1 DEF Abouts
<1>4. old.name = s.name
  <2>1. PICK r \in Range(base) : r.id = old.id /\ r.name = old.name
    BY <1>1, KeysOfRows, SuccessorsAreTables
  <2> QED
    BY <1>3, <2>1, RowsOf
<1>5. Range(Updated(t, row)) = (Range(t) \ {old}) \union {row}
  BY <1>1, <1>3, <1>4, UpdatedTable
<1>6. <<old.id, old.topics>> = <<row.id, row.topics>>
  BY <1>3
<1>7. Abouts(Updated(t, row)) = Abouts(t)
  BY <1>5, <1>6 DEF Abouts
<1> QED
  BY <1>1, <1>2, <1>7 DEF SameAbout

\* Archiving or improving a skill keeps what it is about.
LEMMA ChangedAbout ==
  ASSUME NEW s \in SkillRows
  PROVE  [s EXCEPT !.active = FALSE].topics = s.topics /\ [s EXCEPT !.improved = TRUE].topics = s.topics
  BY DEF SkillRows

\* To archive the skills of a list.
LEMMA ArchivingKeepsTopics ==
  ASSUME NEW base, Table(base), NEW list \in Seq(Range(base))
  PROVE  FoldLeft(Archive, base, list) \in SameAbout(base)
<1>1. \A v \in SameAbout(base), s \in Range(base) : ArchiveOp(0, v, s) \in SameAbout(base)
  <2>1. TAKE v \in SameAbout(base), s \in Range(base)
  <2>2. s \in SkillRows
    BY RowsOf
  <2> QED
    BY <2>2, ChangedRow, ChangedAbout, UpdatedIsSameAbout DEF ArchiveOp, Archive
<1>2. base \in SameAbout(base)
  BY DEF SameAbout, Successors, Table
<1>3. FArchive!Fold(0, base, list) \in SameAbout(base)
  BY <1>1, <1>2, FArchive!FoldInvariant
<1>4. FoldLeft(Archive, base, list) = FArchive!Fold(0, base, list)
  BY DEF ArchiveOp, FArchive!Fold, FArchive!FoldLeft, FoldLeft, FArchive!MapThenFoldSet, MapThenFoldSet,
         FArchive!Max, Max
<1> QED
  BY <1>3, <1>4

\* To improve the skills of a list.
LEMMA ImprovingKeepsTopics ==
  ASSUME NEW base, Table(base), NEW list \in Seq(Range(base))
  PROVE  FoldLeft(ImproveOne, base, list) \in SameAbout(base)
<1>1. \A v \in SameAbout(base), s \in Range(base) : ImproveOp(0, v, s) \in SameAbout(base)
  <2>1. TAKE v \in SameAbout(base), s \in Range(base)
  <2>2. s \in SkillRows
    BY RowsOf
  <2> QED
    BY <2>2, ChangedRow, ChangedAbout, UpdatedIsSameAbout DEF ImproveOp, ImproveOne
<1>2. base \in SameAbout(base)
  BY DEF SameAbout, Successors, Table
<1>3. FImprove!Fold(0, base, list) \in SameAbout(base)
  BY <1>1, <1>2, FImprove!FoldInvariant
<1>4. FoldLeft(ImproveOne, base, list) = FImprove!Fold(0, base, list)
  BY DEF ImproveOp, FImprove!Fold, FImprove!FoldLeft, FoldLeft, FImprove!MapThenFoldSet, MapThenFoldSet,
         FImprove!Max, Max
<1> QED
  BY <1>3, <1>4

\* No maintenance forgets a topic.
LEMMA MaintenanceKeepsTopics ==
  ASSUME NEW t, Table(t)
  PROVE  /\ Topics(Deduplicated(t)) = Topics(t)
         /\ Topics(ImprovedAll(Pruned(Deduplicated(t)))) = Topics(t)
<1>1. ASSUME NEW u, Table(u), NEW A PROVE Only(u, A) \in Seq(Range(u))
  <2>1. u \in Seq(Range(u))
    BY <1>1 DEF Table, Range
  <2> QED
    BY <2>1, OnlySelects
<1>2. ASSUME NEW u, Table(u), NEW v \in SameAbout(u) PROVE Table(v) /\ Topics(v) = Topics(u)
  BY <1>2, TopicsByAbouts, SuccessorsAreTables DEF SameAbout
<1>3. ASSUME NEW u, Table(u) PROVE Topics(ImprovedAll(u)) = Topics(u)
  BY <1>1, <1>2, <1>3, ImprovingKeepsTopics DEF ImprovedAll
<1>4. ASSUME NEW u, Table(u), NEW list \in Seq(Range(u))
      PROVE  Table(FoldLeft(Archive, u, list)) /\ Topics(FoldLeft(Archive, u, list)) = Topics(u)
  BY <1>2, <1>4, ArchivingKeepsTopics
<1>5. ASSUME NEW u, Table(u) PROVE Table(Pruned(u)) /\ Topics(Pruned(u)) = Topics(u)
  <2>1. PICK A : LET judged == FoldLeft(Archive, u, Only(u, A)) IN
                 \E B : Pruned(u) = FoldLeft(Archive, judged, Only(Active(judged), B))
    BY DEF Pruned
  <2> DEFINE judged == FoldLeft(Archive, u, Only(u, A))
  <2>2. PICK B : Pruned(u) = FoldLeft(Archive, judged, Only(Active(judged), B))
    BY <2>1
  <2>3. Table(judged) /\ Topics(judged) = Topics(u)
    BY <1>1, <1>4, <1>5
  <2> HIDE DEF judged
  <2>4. Only(Active(judged), B) \in Seq(Range(judged))
    <3>1. Table(Active(judged)) /\ Range(Active(judged)) \subseteq Range(judged)
      BY <2>3, SelectedTable DEF Active
    <3>2. Only(Active(judged), B) \in Seq(Range(Active(judged)))
      BY <1>1, <3>1
    <3> QED
      BY <3>1, <3>2
  <2> QED
    BY <1>4, <2>2, <2>3, <2>4
<1>6. Topics(Deduplicated(t)) = Topics(t) /\ Table(Deduplicated(t))
  BY DeduplicatedKeepsTopics, MaintenanceSucceeds, SuccessorsAreTables
<1> QED
  BY <1>3, <1>5, <1>6

\* Maintenance forgets no topic, whatever groups share skills and whatever primaries are
\* merged in turn.
LEMMA ForgetsNothing ==
  SkillInv /\ [SkillNext]_skillVars
     => [Deduplicate \/ RunMaintenance => Topics(skills) = Topics(skills)']_skillVars
  BY MaintenanceKeepsTopics DEF SkillInv, Deduplicate, RunMaintenance, Maintain

-----------------------------------------------------------------------------
\* The tool router: what an attempt in hand has counted.

\* The registry holds tools that are looked at, an import knows its server, and a call
\* that is being tried has attempts left.
Entries == [owner : Servers \union {Local}, enabled : BOOLEAN, calls : Nat]

RegistryInv ==
    /\ DOMAIN registry \subseteq RoutedTools /\ registry \in [DOMAIN registry -> Entries]
    /\ server \in Servers \union {NoServer} /\ embedded \subseteq RoutedTools
    /\ listed = NoServer \/ (listed \in Seq(RoutedTools) /\ server \in Servers)

CallInv ==
    call = NoCall \/ /\ call \in [tool : RoutedTools, left : Nat]
                     /\ call.left \in 1..MaxRetries[call.tool]

CountsInv == counts \in [RoutedTools -> [total : Nat, good : Nat, bad : Nat]] /\ CountsAddUp

RouterInv == RegistryInv /\ CallInv /\ CountsInv

\* The first state of the router has the invariant.
LEMMA RouterInitially == RouterInit => RouterInv
<1> SUFFICES ASSUME RouterInit PROVE RouterInv
  OBVIOUS
<1>1. RegistryInv
  BY DEF RouterInit, RegistryInv
<1>2. CallInv
  BY DEF RouterInit, CallInv
<1>3. CountsInv
  BY DEF RouterInit, CountsInv, CountsAddUp
<1> QED
  BY <1>1, <1>2, <1>3 DEF RouterInv

\* A call of a tool is tried at least once.
LEMMA RetriesArePositive ==
  ASSUME NEW x \in RoutedTools
  PROVE  MaxRetries[x] \in Nat \ {0}
  BY RouterAssumption DEF RouterAssumption, MaxRetries

\* Every step of the registry of the router keeps the invariant.
LEMMA RegistryStep == RouterInv /\ [RouterNext]_routerVars => RegistryInv'
<1> USE RouterAssumption DEF RouterAssumption
<1> SUFFICES ASSUME RouterInv, [RouterNext]_routerVars PROVE RegistryInv'
  OBVIOUS
<1> USE DEF RouterInv
<1>1. ASSUME NEW x \in RoutedTools, NEW owner \in Servers \union {Local}, registry' = WithTool(x, owner)
      PROVE  DOMAIN registry' \subseteq RoutedTools /\ registry' \in [DOMAIN registry' -> Entries]
  BY <1>1 DEF WithTool, Registered, RegistryInv, Entries
<1>2. ASSUME NEW x \in RoutedTools, RegisterTool(x) PROVE RegistryInv'
  BY <1>1, <1>2 DEF RegisterTool, RegistryInv
<1>3. ASSUME NEW x \in RoutedTools, UnregisterTool(x) PROVE RegistryInv'
  BY <1>3 DEF UnregisterTool, RegistryInv
<1>4. ASSUME NEW x \in RoutedTools, Toggle(x) PROVE RegistryInv'
  <2> DEFINE e == registry[x]
  <2>1. x \in DOMAIN registry /\ e \in Entries
    BY <1>4 DEF Toggle, RegistryInv
  <2>2. registry' = [registry EXCEPT ![x] = [e EXCEPT !.enabled = ~e.enabled]]
    BY <1>4 DEF Toggle
  <2> HIDE DEF e
  <2>3. [e EXCEPT !.enabled = ~e.enabled] \in Entries
    BY <2>1 DEF Entries
  <2>4. DOMAIN registry' = DOMAIN registry /\ registry' \in [DOMAIN registry -> Entries]
    BY <2>1, <2>2, <2>3 DEF RegistryInv
  <2> QED
    BY <1>4, <2>4 DEF Toggle, RegistryInv
<1>5. ASSUME NEW url \in Servers, Connect(url) PROVE RegistryInv'
  BY <1>5 DEF Connect, RegistryInv
<1>6. CASE ImportTool
  <2>1. listed \in Seq(RoutedTools) /\ listed # <<>> /\ server \in Servers
    BY <1>6 DEF ImportTool, RegistryInv
  <2>2. Head(listed) \in RoutedTools /\ Tail(listed) \in Seq(RoutedTools)
    BY <2>1
  <2>3. DOMAIN registry' \subseteq RoutedTools /\ registry' \in [DOMAIN registry' -> Entries]
    BY <1>1, <1>6, <2>1, <2>2 DEF ImportTool
  <2> QED
    BY <1>6, <2>1, <2>2, <2>3 DEF ImportTool, RegistryInv
<1>7. CASE (Imported \/ ConnectFails \/ Disconnect) /\ UNCHANGED <<registry, counts, embedded, call, effects>>
  BY <1>7 DEF Imported, ConnectFails, Disconnect, RegistryInv
<1>8. ASSUME NEW kind \in Tasks, CallByKeywords(kind) PROVE RegistryInv'
  BY <1>8 DEF CallByKeywords, Dispatch, RegistryInv
<1>9. ASSUME NEW kind \in Tasks, NEW up \in SUBSET RoutedTools, CallBySimilarity(kind, up) PROVE RegistryInv'
  BY <1>9 DEF CallBySimilarity, Dispatch, RegistryInv
<1>10. ASSUME NEW text, Attempt(text) PROVE RegistryInv'
  <2>1. CASE Returned(text)
    <3>1. call.tool \in DOMAIN registry
      BY <1>10, <2>1 DEF Attempt, Texts, Returned
    <3>2. registry' = [registry EXCEPT ![call.tool].calls = @ + 1]
      BY <1>10, <2>1 DEF Attempt
    <3>3. DOMAIN registry' = DOMAIN registry /\ registry' \in [DOMAIN registry -> Entries]
      <4>1. registry[call.tool] \in Entries
        BY <3>1 DEF RegistryInv
      <4>2. [registry[call.tool] EXCEPT !.calls = @ + 1] \in Entries
        <5> DEFINE e == registry[call.tool]
        <5> HIDE DEF e
        <5>1. e \in Entries
          BY <4>1 DEF e
        <5>2. [e EXCEPT !.calls = @ + 1] \in Entries
          BY <5>1 DEF Entries
        <5> QED
          BY <5>2 DEF e
      <4> QED
        BY <3>1, <3>2, <4>2 DEF RegistryInv
    <3> QED
      BY <1>10, <3>3 DEF Attempt, RegistryInv
  <2>2. CASE ~Returned(text)
    BY <1>10, <2>2 DEF Attempt, RegistryInv
  <2> QED
    BY <2>1, <2>2
<1>11. CASE UNCHANGED routerVars
  BY <1>11 DEF routerVars, RegistryInv
<1> QED
  BY <1>2, <1>3, <1>4, <1>5, <1>6, <1>7, <1>8, <1>9, <1>10, <1>11 DEF RouterNext

\* Every step of the call in hand keeps the invariant.
LEMMA CallStep == RouterInv /\ [RouterNext]_routerVars => CallInv' /\ CountsInv'
<1> USE RouterAssumption DEF RouterAssumption
<1> SUFFICES ASSUME RouterInv, [RouterNext]_routerVars PROVE CallInv' /\ CountsInv'
  OBVIOUS
<1> USE DEF RouterInv
<1>1. ASSUME NEW x, NEW retries \in {0, 1}, Dispatch(x, retries) PROVE CallInv' /\ CountsInv'
  <2>1. MaxRetries[x] \in Nat \ {0} /\ x \in RoutedTools
    BY <1>1, RetriesArePositive DEF Dispatch
  <2>2. CallInv'
    BY <1>1, <2>1 DEF Dispatch, CallInv
  <2>3. CountsInv'
    BY <1>1 DEF Dispatch, CountsInv, CountsAddUp
  <2> QED
    BY <2>2, <2>3
<1>2. ASSUME NEW text, Attempt(text) PROVE CallInv' /\ CountsInv'
  <2>1. /\ call \in [tool : RoutedTools, left : Nat]
        /\ call.left \in 1..MaxRetries[call.tool] /\ MaxRetries[call.tool] \in Nat \ {0}
    BY <1>2, RetriesArePositive DEF Attempt, Calling, CallInv
  <2>2. CallInv'
    <3>1. CASE Failed(text) /\ ~(call.left = 1)
      BY <1>2, <2>1, <3>1 DEF Attempt, CallInv
    <3>2. CASE ~(Failed(text) /\ ~(call.left = 1))
      BY <1>2, <3>2 DEF Attempt, CallInv
    <3> QED
      BY <3>1, <3>2
  <2>3. CountsInv'
    <3> DEFINE c == counts[call.tool]  new == CountedCall(c, Failed(text), call.left = 1)
               Counted == [total : Nat, good : Nat, bad : Nat]
    <3>1. c \in Counted /\ c.total = c.good + c.bad /\ call.tool \in RoutedTools
      BY <2>1 DEF CountsInv, CountsAddUp
    <3>2. counts' = [counts EXCEPT ![call.tool] = new]
      BY <1>2 DEF Attempt
    <3> HIDE DEF c
    <3>3. new \in Counted /\ new.total = new.good + new.bad
      BY <3>1 DEF CountedCall
    <3> HIDE DEF new
    <3>4. counts' \in [RoutedTools -> Counted]
      BY <3>1, <3>2, <3>3 DEF CountsInv
    <3>5. ASSUME NEW t \in RoutedTools PROVE counts'[t].total = counts'[t].good + counts'[t].bad
      <4>1. CASE t = call.tool
        BY <3>2, <3>3, <4>1 DEF CountsInv
      <4>2. CASE t # call.tool
        BY <3>2, <4>2 DEF CountsInv, CountsAddUp
      <4> QED
        BY <4>1, <4>2
    <3> QED
      BY <3>4, <3>5 DEF CountsInv, CountsAddUp
  <2> QED
    BY <2>2, <2>3
<1>3. CASE UNCHANGED <<call, counts>>
  BY <1>3 DEF CallInv, CountsInv, CountsAddUp
<1>4. ASSUME NEW kind \in Tasks, CallByKeywords(kind) PROVE CallInv' /\ CountsInv'
  BY <1>1, <1>4 DEF CallByKeywords
<1>5. ASSUME NEW kind \in Tasks, NEW up, CallBySimilarity(kind, up) PROVE CallInv' /\ CountsInv'
  BY <1>1, <1>5 DEF CallBySimilarity
<1> QED
  BY <1>2, <1>3, <1>4, <1>5
     DEF RouterNext, RegisterTool, UnregisterTool, Toggle, Connect, ImportTool, routerVars

\* What the invariant says of the router to a reader.
LEMMA RouterIsTyped == RouterInv => RouterTypeOK /\ CountsAddUp
  BY DEF RouterInv, RegistryInv, CallInv, CountsInv, RouterTypeOK, Entries, Calling, NoCall

-----------------------------------------------------------------------------
\* The tool-call guard: its window is the end of what was recorded.

\* The window w is the end of what was recorded, r.
IsEnd(w, r) ==
    /\ r \in Seq(GuardedCalls) /\ w \in Seq(GuardedCalls)
    /\ Len(w) = IF Len(r) < window_size THEN Len(r) ELSE window_size
    /\ \A i \in 1..Len(w) : w[i] = r[Len(r) - Len(w) + i]

WindowIsTheEnd == IsEnd(window, recorded)

GuardInv == WindowIsTheEnd /\ PhaseIsHonest

\* The first state of the guard has the invariant.
LEMMA GuardInitially == GuardInit => GuardInv
<1> USE GuardAssumption DEF GuardAssumption
<1> SUFFICES ASSUME GuardInit PROVE GuardInv
  OBVIOUS
<1>1. WindowIsTheEnd
  BY DEF GuardInit, WindowIsTheEnd, IsEnd
<1>2. PhaseIsHonest
  BY DEF GuardInit, PhaseIsHonest
<1> QED
  BY <1>1, <1>2 DEF GuardInv

\* A window that slides stays the end of what was recorded.
LEMMA SlidingKeepsTheEnd ==
  ASSUME WindowIsTheEnd, NEW c \in GuardedCalls, RecordCall(c)
  PROVE  WindowIsTheEnd' /\ Len(recorded') = Len(recorded) + 1 /\ recorded'[Len(recorded')] = c
<1> USE GuardAssumption DEF GuardAssumption
<1> DEFINE n == Len(recorded)
           m == Len(window)
           full == Append(window, c)
<1>1. n \in Nat /\ m \in Nat /\ m <= n /\ m = IF n < window_size THEN n ELSE window_size
  BY DEF WindowIsTheEnd, IsEnd
<1>2. \A i \in 1..m : window[i] = recorded[n - m + i]
  BY DEF WindowIsTheEnd, IsEnd
<1>3. recorded' \in Seq(GuardedCalls) /\ Len(recorded') = n + 1 /\ recorded'[n + 1] = c
  BY DEF RecordCall, WindowIsTheEnd, IsEnd
<1>4. \A i \in 1..n : recorded'[i] = recorded[i]
  BY DEF RecordCall, WindowIsTheEnd, IsEnd
<1>5. full \in Seq(GuardedCalls) /\ Len(full) = m + 1 /\ full[m + 1] = c
  BY DEF WindowIsTheEnd, IsEnd
<1>6. \A i \in 1..m : full[i] = window[i]
  BY DEF WindowIsTheEnd, IsEnd
<1>7. window' = SubSeq(full, IF m + 1 > window_size THEN 2 ELSE 1, m + 1)
  BY <1>5 DEF RecordCall, Slid
<1> HIDE DEF full, n, m
<1>8. ASSUME NEW i \in 1..(m + 1) PROVE full[i] = recorded'[n - m + i]
  <2>1. CASE i = m + 1
    BY <2>1, <1>1, <1>3, <1>5
  <2>2. CASE i \in 1..m
    <3>1. full[i] = recorded[n - m + i]
      BY <2>2, <1>2, <1>6
    <3>2. n - m + i \in 1..n
      BY <2>2, <1>1
    <3> QED
      BY <3>1, <3>2, <1>4
  <2> QED
    BY <2>1, <2>2, <1>1
<1>9. CASE m + 1 > window_size
  <2>1. window' = SubSeq(full, 2, m + 1)
    BY <1>7, <1>9
  <2>2. window' \in Seq(GuardedCalls) /\ Len(window') = m
    BY <1>1, <1>5, <2>1
  <2>3. \A i \in 1..m : window'[i] = full[i + 1]
    BY <1>1, <1>5, <2>1
  <2>4. m = window_size /\ n >= window_size
    BY <1>1, <1>9
  <2>5. \A i \in 1..m : window'[i] = recorded'[(n + 1) - m + i]
    <3>1. TAKE i \in 1..m
    <3>2. full[i + 1] = recorded'[n - m + (i + 1)]
      BY <1>1, <1>8
    <3>3. n - m + (i + 1) = (n + 1) - m + i
      BY <1>1
    <3> QED
      BY <2>3, <3>2, <3>3
  <2>6. Len(window') = IF n + 1 < window_size THEN n + 1 ELSE window_size
    BY <1>1, <2>2, <2>4
  <2> QED
    BY <1>3, <2>2, <2>5, <2>6 DEF WindowIsTheEnd, IsEnd, n
<1>10. CASE m + 1 <= window_size
  <2>1. window' = full
    BY <1>1, <1>5, <1>7, <1>10
  <2>2. m = n
    BY <1>1, <1>10
  <2>3. \A i \in 1..(m + 1) : window'[i] = recorded'[(n + 1) - (m + 1) + i]
    BY <1>1, <1>8, <2>1, <2>2
  <2>4. Len(window') = IF n + 1 < window_size THEN n + 1 ELSE window_size
    BY <1>1, <1>5, <2>1, <2>2, <1>10
  <2>5. window' \in Seq(GuardedCalls) /\ Len(window') = m + 1
    BY <1>5, <2>1
  <2> QED
    BY <1>3, <2>3, <2>4, <2>5 DEF WindowIsTheEnd, IsEnd, n
<1> QED
  BY <1>1, <1>9, <1>10

\* So the identical calls in the window are the identical ones among the last recorded.
LEMMA WindowCounts ==
  ASSUME NEW w, NEW r, IsEnd(w, r), r # <<>>
  PROVE  LET n == Len(r)
             last == {i \in 1..n : i > n - window_size}
         IN  Identical(w, r[n]) = Cardinality({i \in last : r[i] = r[n]})
<1> USE GuardAssumption DEF GuardAssumption
<1> DEFINE n == Len(r)
           m == Len(w)
           inWindow == {i \in 1..m : w[i] = r[n]}
           inLast == {i \in 1..n : i > n - window_size /\ r[i] = r[n]}
           f == [i \in inWindow |-> n - m + i]
<1>1. n \in Nat /\ m \in Nat /\ m <= n /\ m = IF n < window_size THEN n ELSE window_size
  BY DEF IsEnd
<1>2. \A i \in 1..m : w[i] = r[n - m + i]
  BY DEF IsEnd
<1> HIDE DEF n, m
<1>3. IsFiniteSet(inWindow)
  <2>1. IsFiniteSet(1..m) /\ inWindow \in SUBSET (1..m)
    BY <1>1, CountUpTo
  <2> QED
    BY <2>1, FS_Subset
<1>4. f \in [inWindow -> inLast]
  <2>1. ASSUME NEW i \in inWindow PROVE n - m + i \in inLast
    <3>1. n - m + i \in 1..n /\ n - m + i > n - window_size
      BY <1>1
    <3>2. r[n - m + i] = r[n]
      BY <1>2
    <3> QED
      BY <3>1, <3>2
  <2> QED
    BY <2>1
<1>5. \A i, j \in inWindow : f[i] = f[j] => i = j
  BY <1>1
<1>6. \A k \in inLast : \E i \in inWindow : f[i] = k
  <2>1. TAKE k \in inLast
  <2>2. k - (n - m) \in 1..m
    BY <1>1
  <2>3. n - m + (k - (n - m)) = k
    BY <1>1
  <2>4. w[k - (n - m)] = r[k]
    BY <1>2, <2>2, <2>3
  <2>5. k - (n - m) \in inWindow
    BY <2>2, <2>4
  <2>6. f[k - (n - m)] = k
    BY <2>3, <2>5
  <2> QED
    BY <2>5, <2>6
<1>7. f \in Bijection(inWindow, inLast)
  <2> HIDE DEF f, inWindow, inLast
  <2> QED
    BY <1>4, <1>5, <1>6 DEF Bijection, Injection, Surjection, IsInjective
<1>8. Cardinality(inWindow) = Cardinality(inLast)
  <2> HIDE DEF f, inWindow, inLast
  <2> QED
    BY <1>3, <1>7, FS_Bijection DEF ExistsBijection
<1>9. {i \in {j \in 1..n : j > n - window_size} : r[i] = r[n]} = inLast
  OBVIOUS
<1> QED
  BY <1>8, <1>9 DEF Identical, n, m

\* Every step of the guard keeps the invariant.
LEMMA GuardStep == GuardInv /\ [GuardNext]_guardVars => GuardInv'
<1> USE GuardAssumption DEF GuardAssumption
<1> SUFFICES ASSUME GuardInv, [GuardNext]_guardVars PROVE GuardInv'
  OBVIOUS
<1>1. ASSUME NEW c \in GuardedCalls, RecordCall(c) PROVE GuardInv'
  <2>1. WindowIsTheEnd' /\ Len(recorded') = Len(recorded) + 1 /\ recorded'[Len(recorded')] = c
    BY <1>1, SlidingKeepsTheEnd DEF GuardInv
  <2>2. Len(recorded') \in Nat /\ recorded' # <<>>
    BY <2>1 DEF GuardInv, WindowIsTheEnd, IsEnd
  <2>3. phase' = PhaseOf(Identical(window', recorded'[Len(recorded')]))
    BY <1>1, <2>1 DEF RecordCall
  <2>4. Len(recorded') # 0
    BY <2>1 DEF GuardInv, WindowIsTheEnd, IsEnd
  <2>5. PhaseIsHonest'
    BY <2>1, <2>2, <2>3, <2>4, WindowCounts DEF PhaseIsHonest, WindowIsTheEnd
  <2> QED
    BY <2>1, <2>5 DEF GuardInv
<1>2. CASE ResetGuard
  <2>1. WindowIsTheEnd'
    BY <1>2 DEF ResetGuard, WindowIsTheEnd, IsEnd
  <2>2. PhaseIsHonest'
    BY <1>2 DEF ResetGuard, PhaseIsHonest
  <2> QED
    BY <2>1, <2>2 DEF GuardInv
<1>3. CASE UNCHANGED guardVars
  BY <1>3 DEF guardVars, GuardInv, WindowIsTheEnd, PhaseIsHonest
<1> QED
  BY <1>1, <1>2, <1>3 DEF GuardNext

\* What the invariant says of the guard to a reader.
LEMMA GuardIsTyped == GuardInv => GuardTypeOK
<1> SUFFICES ASSUME GuardInv PROVE GuardTypeOK
  OBVIOUS
<1>1. Len(window) <= window_size
  BY GuardAssumption DEF GuardInv, WindowIsTheEnd, IsEnd, GuardAssumption
<1>2. phase \in {"normal", "warning", "blocked"}
  <2>1. \A count : PhaseOf(count) \in {"normal", "warning", "blocked"}
    BY DEF PhaseOf
  <2> QED
    BY <2>1 DEF GuardInv, PhaseIsHonest
<1> QED
  BY <1>1, <1>2 DEF GuardTypeOK

-----------------------------------------------------------------------------
\* The sum of the parts.

SignalsInv ==
    /\ part \in {"bus", "fanout", "log", "proxy", "adapter", "hooks", "agents", "skills",
                 "router", "guard"}
    /\ BusInv /\ FanInv /\ LogInv /\ ProxyInv /\ AdapterInv /\ HooksInv /\ AgentsInv
    /\ SkillInv /\ RouterInv /\ GuardInv

\* The first state of the sum has the invariant.
LEMMA SignalsInitially == Init => SignalsInv
<1> SUFFICES ASSUME Init PROVE SignalsInv
  OBVIOUS
<1>1. BusInv /\ FanInv /\ LogInv /\ ProxyInv /\ AdapterInv /\ HooksInv
  BY BusInitially, FanInitially, LogInitially, ProxyInitially, AdapterInitially,
     HooksInitially DEF Init
<1>2. AgentsInv /\ SkillInv /\ RouterInv /\ GuardInv
  BY AgentsInitially, SkillsInitially, RouterInitially, GuardInitially DEF Init
<1> QED
  BY <1>1, <1>2 DEF Init, SignalsInv

\* A step of the sum is, for every part, a step of it or none.
LEMMA PartsMove ==
  ASSUME [Next]_signalsVars
  PROVE  /\ part' = part
         /\ [BusNext]_busVars /\ [FanNext]_fanVars /\ [LogNext]_logVars
         /\ [ProxyNext]_proxyVars /\ [AdapterNext]_adapterVars /\ [HooksNext]_hookVars
         /\ [MultiAgentNext]_agentVars /\ [SkillNext]_skillVars
         /\ [RouterNext]_routerVars /\ [GuardNext]_guardVars
<1>1. CASE BusPart
  BY <1>1 DEF BusPart
<1>2. CASE FanPart
  BY <1>2 DEF FanPart
<1>3. CASE LogPart
  BY <1>3 DEF LogPart
<1>4. CASE ProxyPart
  BY <1>4 DEF ProxyPart
<1>5. CASE AdapterPart
  BY <1>5 DEF AdapterPart
<1>6. CASE HooksPart
  BY <1>6 DEF HooksPart
<1>7. CASE MultiAgentPart
  BY <1>7 DEF MultiAgentPart
<1>8. CASE SkillPart
  BY <1>8 DEF SkillPart
<1>9. CASE RouterPart
  BY <1>9 DEF RouterPart
<1>10. CASE GuardPart
  BY <1>10 DEF GuardPart
<1>11. CASE UNCHANGED signalsVars
  BY <1>11 DEF signalsVars
<1> QED
  BY <1>1, <1>2, <1>3, <1>4, <1>5, <1>6, <1>7, <1>8, <1>9, <1>10, <1>11 DEF Next

\* Every step of the sum keeps the invariant.
LEMMA SignalsStep == SignalsInv /\ [Next]_signalsVars => SignalsInv'
<1> SUFFICES ASSUME SignalsInv, [Next]_signalsVars PROVE SignalsInv'
  OBVIOUS
<1> USE PartsMove DEF SignalsInv
<1>1. BusInv' /\ FanInv' /\ LogInv'
  BY BusStep, FanStep, LogStep
<1>2. ProxyInv' /\ AdapterInv' /\ HooksInv'
  BY LinksStep, TalkStep, AdapterStep, HooksStep DEF ProxyInv
<1>3. AgentsInv' /\ SkillInv' /\ RouterInv'
  BY StaffStep, OrderStep, SkillStep, RegistryStep, CallStep DEF AgentsInv, RouterInv
<1>4. GuardInv'
  BY GuardStep
<1> QED
  BY <1>1, <1>2, <1>3, <1>4

\* Every part keeps its inductive invariant, in every behaviour.
THEOREM PartsKeepInvariants == Spec => []SignalsInv
  BY SignalsInitially, SignalsStep, PTL DEF Spec

\* Every part keeps its types and bounds.
THEOREM SignalsAreTyped == Spec => []SignalsTypeOK
<1>1. SignalsInv => SignalsTypeOK
  BY BusIsTyped, FanIsTyped, LogIsTyped, ProxyIsHonest, AdapterIsTyped, HooksAreTyped,
     AgentsAreOrderly, SkillsAreTyped, RouterIsTyped, GuardIsTyped
  DEF SignalsInv, SignalsTypeOK
<1> QED
  BY <1>1, PartsKeepInvariants, PTL

\* What is sent arrives: a publish calls every subscription that stays, a broadcast sends
\* from no set of sockets that was given up, a client that pages through the log gets every
\* event once and in order, the adapter's readers fit its connections, the proxy's turns
\* are of one message, and a fire of hooks is complete.
THEOREM WhatIsSentArrives == Spec => []SignalsArrive
<1>1. SignalsInv => SignalsArrive
  BY BusIsTyped, FanIsTyped, LogIsTyped, ProxyIsHonest, AdapterIsTyped, HooksAreTyped
  DEF SignalsInv, SignalsArrive
<1> QED
  BY <1>1, PartsKeepInvariants, PTL

\* Work is done as it was ordered: a step after those it depends on, a task by an agent that
\* can, and the guard's phase is the number of the last call's equals among those in its window.
THEOREM WorkIsDoneInOrder == Spec => []WorkIsOrderly
<1>1. SignalsInv => WorkIsOrderly
  BY AgentsAreOrderly DEF SignalsInv, WorkIsOrderly, GuardInv
<1> QED
  BY <1>1, PartsKeepInvariants, PTL

\* The ledgers are true: the router's counts add up between attempts, and the skills have
\* the files of their names, but for those a process died between.
THEOREM LedgersStayTrue == Spec => []LedgersAreTrue
<1>1. SignalsInv => LedgersAreTrue
  BY RouterIsTyped DEF SignalsInv, LedgersAreTrue, SkillInv
<1> QED
  BY <1>1, PartsKeepInvariants, PTL

\* Maintenance of the skills forgets no topic: neither merging groups that share skills,
\* nor archiving what fails too often or is too much.
THEOREM MaintenanceForgetsNothing == Spec => NothingForgotten
<1>1. SignalsInv /\ [Next]_signalsVars
         => [Deduplicate \/ RunMaintenance => Topics(skills) = Topics(skills)']_skillVars
  BY PartsMove, ForgetsNothing DEF SignalsInv
<1> QED
  BY <1>1, PartsKeepInvariants, PTL DEF Spec, NothingForgotten
================================================================================
