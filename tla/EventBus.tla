------------------------------ MODULE EventBus ------------------------------
(***************************************************************************)
(* event_bus.py: EventBus.  publish is synchronous and calls subscribers   *)
(* while it iterates the dictionaries they are in; a callback may call the *)
(* bus again.  frames is the stack of publish calls.  A dictionary is the  *)
(* sequence of its keys in order of insertion; its iterator visits what is *)
(* inserted behind it and skips what is removed, but raises at its next    *)
(* step when the size is not the one it began with.                        *)
(***************************************************************************)
EXTENDS Naturals, Sequences, FiniteSets, Selection

CONSTANTS
    Subscribers,   \* subscriber ids
    EventTypes,    \* event types published
    Filters,       \* filters subscribed to, "*" among them
    Matching,      \* pairs <<filter, type>>: the same, or a prefix "x.*" of it
    MaxDepth,      \* bound: publish calls nested in callbacks
    MaxSubs        \* bound: subscriptions at a time

ASSUME BusAssumption == "*" \in Filters /\ MaxDepth \in Nat \ {0} /\ MaxSubs \in Nat

VARIABLES
    subs,     \* _all_subscribers ("*") and the inner dictionaries of _subscriptions
    keys,     \* keys of _subscriptions, in order
    frames,   \* the publish calls in progress, the innermost last
    missed    \* history: a subscription that stayed and got nothing from a
              \* publish that returned

busVars == <<subs, keys, frames, missed>>

SubIds == Subscribers \X Filters
Subscribed == {id \in SubIds : id[1] \in Range(subs[id[2]])}

\* iter    the dictionary that is iterated: that of the filter, one that was
\*         dropped by clear_all, or one that was deleted when it became empty
\* owed    history: subscriptions that match, are there since the call, and were
\*         not called yet
Frame == [type : EventTypes, filter : Filters, rest : Seq(Filters), todo : Seq(Subscribers),
          size : Nat, iter : {"live", "dropped", "deleted"}, calling : BOOLEAN,
          owed : SUBSET SubIds]

BusInit ==
    /\ subs = [f \in Filters |-> <<>>]
    /\ keys = <<>>
    /\ frames = <<>>
    /\ missed = {}

Top == frames[Len(frames)]
SetTop(fr) == frames' = [frames EXCEPT ![Len(frames)] = fr]

\* Nobody publishes, or a callback of the innermost publish has the thread.
CanCall == frames # <<>> => Top.calling

\* What an insertion, or a removal, does to the iterators of dictionary f.
Iterating(fr, f) == fr.filter = f /\ fr.iter = "live"
WithKey(f, s) ==
    [i \in DOMAIN frames |->
        IF Iterating(frames[i], f) THEN [frames[i] EXCEPT !.todo = Append(@, s)] ELSE frames[i]]
WithoutKey(f, s) ==
    [i \in DOMAIN frames |->
        IF Iterating(frames[i], f) THEN [frames[i] EXCEPT !.todo = Only(@, Subscribers \ {s})]
        ELSE frames[i]]

Subscribe(s, f) ==
    /\ CanCall
    /\ Cardinality(Subscribed \union {<<s, f>>}) <= MaxSubs
    /\ IF s \in Range(subs[f])
         THEN UNCHANGED <<subs, frames>>
         ELSE /\ subs' = [subs EXCEPT ![f] = Append(@, s)]
              /\ frames' = WithKey(f, s)
    /\ keys' = IF f = "*" \/ f \in Range(keys) THEN keys ELSE Append(keys, f)
    /\ UNCHANGED missed

\* An inner dictionary that becomes empty is deleted.
Unsubscribe(s, f) ==
    LET empty == subs[f] = <<s>> /\ f # "*"
        edited == WithoutKey(f, s)
    IN
    /\ CanCall
    /\ s \in Range(subs[f])
    /\ subs' = [subs EXCEPT ![f] = Only(@, Subscribers \ {s})]
    /\ keys' = IF empty THEN Only(keys, Filters \ {f}) ELSE keys
    /\ frames' = [i \in DOMAIN frames |->
           [edited[i] EXCEPT !.owed = @ \ {<<s, f>>},
                             !.iter = IF empty /\ Iterating(frames[i], f) THEN "deleted" ELSE @]]
    /\ UNCHANGED missed

\* The inner dictionaries are dropped, not emptied: who iterates one goes on.
ClearAll ==
    /\ CanCall
    /\ subs' = [f \in Filters |-> <<>>]
    /\ keys' = <<>>
    /\ frames' = [i \in DOMAIN frames |->
           [frames[i] EXCEPT !.owed = {},
                             !.todo = IF Iterating(frames[i], "*") THEN <<>> ELSE @,
                             !.iter = IF frames[i].filter # "*" /\ @ = "live"
                                        THEN "dropped" ELSE @]]
    /\ UNCHANGED missed

\* The wildcard subscribers come first.
Publish(t) ==
    /\ CanCall
    /\ Len(frames) < MaxDepth
    /\ frames' = Append(frames,
           [type |-> t, filter |-> "*", rest |-> <<>>, todo |-> subs["*"],
            size |-> Len(subs["*"]), iter |-> "live", calling |-> FALSE,
            owed |-> {id \in Subscribed : id[2] = "*" \/ <<id[2], t>> \in Matching}])
    /\ UNCHANGED <<subs, keys, missed>>

\* The iterator sees that its dictionary has another size.
Disturbed(fr) == fr.iter = "deleted" \/ (fr.iter = "live" /\ fr.size # Len(subs[fr.filter]))

Deliver ==
    /\ frames # <<>> /\ ~Top.calling /\ ~Disturbed(Top) /\ Top.todo # <<>>
    /\ SetTop([Top EXCEPT !.calling = TRUE, !.todo = Tail(@),
                          !.owed = @ \ {<<Head(Top.todo), Top.filter>>}])
    /\ UNCHANGED <<subs, keys, missed>>

\* A callback returns, or raises and is logged.
CallbackReturns ==
    /\ frames # <<>> /\ Top.calling
    /\ SetTop([Top EXCEPT !.calling = FALSE])
    /\ UNCHANGED <<subs, keys, missed>>

\* Mutant: the filters are those that were there when the publish began.
NextFiltersOnce(fr) == fr.rest

\* The filters to check are listed once, after the wildcard subscribers; a
\* filter that is gone by its turn is created anew by the defaultdict.
NextFilters(fr) ==
    IF fr.filter = "*" THEN Only(keys, {f \in Filters : <<f, fr.type>> \in Matching}) ELSE fr.rest

NextFilter ==
    LET left == NextFilters(Top) IN
    /\ frames # <<>> /\ ~Top.calling /\ ~Disturbed(Top) /\ Top.todo = <<>>
    /\ left # <<>>
    /\ SetTop([Top EXCEPT !.filter = Head(left), !.rest = Tail(left), !.iter = "live",
                          !.todo = subs[Head(left)], !.size = Len(subs[Head(left)])])
    /\ keys' = IF Head(left) \in Range(keys) THEN keys ELSE Append(keys, Head(left))
    /\ UNCHANGED <<subs, missed>>

PublishReturns ==
    /\ frames # <<>> /\ ~Top.calling /\ ~Disturbed(Top) /\ Top.todo = <<>>
    /\ NextFilters(Top) = <<>>
    /\ missed' = missed \union Top.owed
    /\ frames' = Front(frames)
    /\ UNCHANGED <<subs, keys>>

\* RuntimeError out of publish; a callback that called it is logged by its caller.
PublishRaises ==
    /\ frames # <<>> /\ ~Top.calling /\ Disturbed(Top)
    /\ frames' = IF Len(frames) = 1 THEN <<>>
                 ELSE [Front(frames) EXCEPT ![Len(frames) - 1].calling = FALSE]
    /\ UNCHANGED <<subs, keys, missed>>

BusNext ==
    \/ \E s \in Subscribers, f \in Filters : Subscribe(s, f) \/ Unsubscribe(s, f)
    \/ \E t \in EventTypes : Publish(t)
    \/ ClearAll \/ Deliver \/ CallbackReturns \/ NextFilter \/ PublishReturns \/ PublishRaises

BusSpec == BusInit /\ [][BusNext]_busVars

-----------------------------------------------------------------------------

BusTypeOK ==
    /\ subs \in [Filters -> Seq(Subscribers)]
    /\ keys \in Seq(Filters)
    /\ frames \in Seq(Frame)
    /\ missed \subseteq SubIds

\* However callbacks publish, subscribe and unsubscribe: when publish returns, each
\* subscription that matched and stayed was called.  (When it raises, it was not.)
NobodyMissed == missed = {}
=============================================================================
