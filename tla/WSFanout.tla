------------------------------ MODULE WSFanout ------------------------------
(***************************************************************************)
(* runtime/ws_manager.py: WebSocketManager.  broadcast takes the live set  *)
(* of a session and sends to one socket after the other, with an await at  *)
(* each; sockets are added and removed meanwhile.  The set may be deleted  *)
(* from the manager, and another be created for the session, while the old *)
(* one is iterated.  A Python set that has another size than when the      *)
(* iteration began raises at its next step.                                *)
(***************************************************************************)
EXTENDS Naturals, FiniteSets

CONSTANTS
    FanSessions,   \* session ids
    FanSockets,    \* sockets
    Casts,         \* tasks that broadcast
    NoSet,         \* a session that is not in _sessions
    NoCastSession, \* a task that broadcasts nothing
    MaxSets        \* bound: set objects created

ASSUME FanAssumption == MaxSets \in Nat /\ NoSet \notin 1..MaxSets /\ NoCastSession \notin FanSessions

VARIABLES
    current,   \* _sessions: the set object of a session
    members,   \* content of the set objects created so far
    cast       \* the broadcasts

fanVars == <<current, members, cast>>

SetIds == 1..MaxSets

\* iter   the set object that is iterated
\* due    was in the set when the iteration began, stayed, and was not sent to yet
\* sent   was sent to; dead: with a failure
\* at     the socket whose send is awaited, as a set
\* later  the sessions broadcast_all has yet to come to
Idle == [session |-> NoCastSession, iter |-> NoSet, size |-> 0, due |-> {}, sent |-> {},
         dead |-> {}, at |-> {}, later |-> {}]

FanInit ==
    /\ current = [s \in FanSessions |-> NoSet]
    /\ members = <<>>
    /\ cast = [b \in Casts |-> Idle]

FreshSet == Cardinality(DOMAIN members) + 1

AddSocket(s, w) ==
    /\ IF current[s] = NoSet
         THEN /\ FreshSet \in SetIds
              /\ current' = [current EXCEPT ![s] = FreshSet]
              /\ members' = [i \in 1..FreshSet |-> IF i = FreshSet THEN {w} ELSE members[i]]
         ELSE /\ members' = [members EXCEPT ![current[s]] = @ \union {w}]
              /\ UNCHANGED current
    /\ UNCHANGED cast

\* Mutant: the set stays with its session when it is empty.
DiscardKeepsSet(s, gone) ==
    /\ members' = [members EXCEPT ![current[s]] = @ \ gone]
    /\ UNCHANGED current

\* An empty set is deleted from the manager.
Discard(s, gone) ==
    LET left == members[current[s]] \ gone IN
    /\ members' = [members EXCEPT ![current[s]] = left]
    /\ current' = [current EXCEPT ![s] = IF left = {} THEN NoSet ELSE @]

\* Who leaves a set is no longer due to its iterators.
Left(gone, i) ==
    [b \in Casts |-> IF cast[b].iter = i THEN [cast[b] EXCEPT !.due = @ \ gone] ELSE cast[b]]

RemoveSocket(s, w) ==
    /\ current[s] # NoSet
    /\ Discard(s, {w})
    /\ cast' = Left({w}, current[s])

\* A session that the manager does not know has nobody to send to.
Begin(s, later) ==
    IF current[s] = NoSet THEN [Idle EXCEPT !.session = s, !.later = later]
    ELSE [Idle EXCEPT !.session = s, !.later = later, !.iter = current[s],
                      !.due = members[current[s]], !.size = Cardinality(members[current[s]])]

Broadcast(b, s) ==
    /\ cast[b] = Idle
    /\ cast' = [cast EXCEPT ![b] = Begin(s, {})]
    /\ UNCHANGED <<current, members>>

\* The sessions are listed once, at the beginning.
BroadcastAll(b) ==
    LET known == {s \in FanSessions : current[s] # NoSet} IN
    /\ cast[b] = Idle
    /\ \E s \in known : cast' = [cast EXCEPT ![b] = Begin(s, known \ {s})]
    /\ UNCHANGED <<current, members>>

NoIterator(c) == c.iter = NoSet
Resized(c) == ~NoIterator(c) /\ c.size # Cardinality(members[c.iter])
Over(c) == c.session # NoCastSession /\ c.at = {} /\ c.due = {} /\ ~Resized(c)

\* A socket that came during the iteration may be met or not.
Send(b, w) ==
    LET c == cast[b] IN
    /\ ~NoIterator(c) /\ c.at = {} /\ ~Resized(c)
    /\ w \in members[c.iter] \ c.sent
    /\ cast' = [cast EXCEPT ![b].at = {w}]
    /\ UNCHANGED <<current, members>>

Sent(b, ok) ==
    LET c == cast[b] IN
    /\ c.at # {}
    /\ cast' = [cast EXCEPT ![b].due = @ \ c.at, ![b].sent = @ \union c.at, ![b].at = {},
                            ![b].dead = IF ok THEN @ ELSE @ \union c.at]
    /\ UNCHANGED <<current, members>>

\* The dead are discarded from the set that the session has by now.
FinishBroadcast(b) ==
    LET c == cast[b] IN
    /\ Over(c)
    /\ current[c.session] # NoSet
    /\ Discard(c.session, c.dead)
    /\ LET rest == Left(c.dead, current[c.session]) IN
       \/ c.later = {} /\ cast' = [rest EXCEPT ![b] = Idle]
       \/ \E s \in c.later : cast' = [rest EXCEPT ![b] = Begin(s, c.later \ {s})]

\* The same for a session that is gone, and nobody died.
FinishUnknown(b) ==
    LET c == cast[b] IN
    /\ Over(c)
    /\ current[c.session] = NoSet /\ c.dead = {}
    /\ \/ c.later = {} /\ cast' = [cast EXCEPT ![b] = Idle]
       \/ \E s \in c.later : cast' = [cast EXCEPT ![b] = Begin(s, c.later \ {s})]
    /\ UNCHANGED <<current, members>>

\* "Set changed size during iteration", or the dead are looked up in a session
\* that is gone: the exception ends broadcast_all too, and the dead stay.
BroadcastRaises(b) ==
    LET c == cast[b] IN
    /\ c.at = {}
    /\ Resized(c) \/ (Over(c) /\ c.dead # {} /\ current[c.session] = NoSet)
    /\ cast' = [cast EXCEPT ![b] = Idle]
    /\ UNCHANGED <<current, members>>

FanNext ==
    \/ \E s \in FanSessions, w \in FanSockets : AddSocket(s, w) \/ RemoveSocket(s, w)
    \/ \E b \in Casts :
          \/ \E s \in FanSessions : Broadcast(b, s)
          \/ \E w \in FanSockets : Send(b, w)
          \/ \E ok \in BOOLEAN : Sent(b, ok)
          \/ BroadcastAll(b) \/ FinishBroadcast(b) \/ FinishUnknown(b) \/ BroadcastRaises(b)

FanSpec == FanInit /\ [][FanNext]_fanVars

-----------------------------------------------------------------------------

FanTypeOK ==
    /\ current \in [FanSessions -> SetIds \union {NoSet}]
    /\ \A i \in DOMAIN members : i \in SetIds /\ members[i] \subseteq FanSockets
    /\ \A b \in Casts :
          /\ cast[b].due \union cast[b].sent \union cast[b].at \subseteq FanSockets
          /\ cast[b].dead \subseteq cast[b].sent

\* Sockets join, leave and die under broadcasts, sets are deleted and created anew for a
\* session: a set object has sockets exactly as long as it is the one of a session.  So no
\* broadcast goes on sending from a set that the manager has given up.
SetsLiveWithSessions ==
    \A i \in DOMAIN members : members[i] # {} <=> \E s \in FanSessions : current[s] = i
=============================================================================
