----------------------------- MODULE InProcess -----------------------------
(***************************************************************************)
(* The in-process transport tests run on (in_process.rs, over the Registry  *)
(* and the in-process half of Shared::open): a model of the server under a  *)
(* lock of its own, called by the threads that open, drop, publish and      *)
(* settle.  A step here is what one thread does under one lock; where both  *)
(* are held, the server's is taken first.                                   *)
(***************************************************************************)
EXTENDS Registry, FiniteSetsExt, SequencesExt

CONSTANTS
  ServerMatching, \* ServerMatching[t]: the wire filters a server sends t to
  ShareFilters,   \* the wire filters of share groups
  NameOf,         \* NameOf[f]: the plain filter of f, the name the app opens it under
  Opens,          \* the subscriptions, each opened once
  FilterOf,       \* FilterOf[o]: the wire filter o opens
  QosOf,          \* QosOf[o]: the quality of service it asks for
  Keeps,          \* the opens whose drop leaves the filter on the server
  Reads,          \* bound: the opens whose deliveries are settled before their drop
  Threads,        \* the threads that publish
  Script,         \* Script[th]: the messages th publishes, one after another
  MaxMessages,    \* bound: how many are published in all
  HeldCapacity    \* HELD_DELIVERIES; 1024 in the code

ASSUME InProcessAssumption ==
  /\ ServerMatching \in [Topics -> SUBSET Filters]
  /\ ShareFilters \subseteq Filters
  /\ \A t \in Topics, f, g \in Filters :
       NameOf[f] = NameOf[g] => (f \in Matching[t] <=> g \in Matching[t])
  /\ FilterOf \in [Opens -> Filters] /\ QosOf \in [Opens -> Qos] 
  /\ Keeps \subseteq Opens /\ Reads \subseteq Opens
  /\ \A th \in Threads :
       Script[th] \in Seq([topic : Topics, qos : Qos, retain : BOOLEAN, empty : BOOLEAN,
                           thread : {th}])
  /\ MaxMessages \in Nat /\ HeldCapacity \in Nat \ {0}

VARIABLES
  pc,             \* pc[o]: how far the subscription o is
  member,         \* member[o]: Joined::member
  todo,           \* todo[o]: the requests of o not made yet
  handing,        \* handing[o]: the retained messages its subscribe hands over
  inbox,          \* inbox[o]: what o's stream was handed
  settled,        \* settled[o]: how many of those the handlers are done with
  held,           \* Shared::held
  server,         \* Server::subscriptions, a Vec; `since` is, for the properties
                  \* only, the last message before the filter was on it
  retained,       \* Server::retained: the last retained message of a topic, or 0
  published,      \* the messages received, in order
  next,           \* next[th]: how many messages th has published
  sending,        \* sending[th]: the packets of th's message not sent yet
  inFlight,       \* the deliveries the harness counts
  overtaken       \* for the properties only: the filters an earlier join had still to
                  \* subscribe when the request of a later one was taken before

openVars == <<pc, member, todo, handing>>
streamVars == <<inbox, settled, held, inFlight>>
serverVars == <<server, retained, published>>
threadVars == <<next, sending>>
vars == <<registryVars, openVars, streamVars, serverVars, threadVars, overtaken>>

NoMember == -1

Served(f) == \E n \in DOMAIN server : server[n].filter = f

\* Mutation: retained messages are handed over once the lock is free again.
ServerFreeAlways == TRUE

\* Nobody holds the server's lock between two steps but a subscribe that hands
\* over retained messages.
ServerFree == \A o \in Opens : handing[o] = <<>>

\* The packet the server sends of the n-th message for a subscription of its own.
Packet(n, message, sub, kept) ==
  [message |-> n, topic |-> message.topic, for |-> sub.filter, retain |-> kept,
   ids |-> {sub.identifier} \ {NoIdentifier}, acks |-> message.qos # 0 /\ sub.qos # 0]

-----------------------------------------------------------------------------
(* Packets reach the session: hand_over, under the registry's lock.        *)

\* Mutation: a held delivery is counted.
HoldCounted(p) ==
  /\ held' = Append(IF Len(held) >= HeldCapacity THEN Tail(held) ELSE held, p)
  /\ inFlight' = inFlight + 1

\* A held delivery is not counted.
Hold(p) ==
  /\ held' = Append(IF Len(held) >= HeldCapacity THEN Tail(held) ELSE held, p)
  /\ UNCHANGED inFlight

Takers(targets) == {o \in Opens : \E n \in targets : Taker(n) = member[o]}

\* Each wire it belongs to hands one copy to the member whose turn it is.
HandOver(p) ==
  LET targets == Targets(p.topic, p.ids)
      CopyOf(o) == [packet |-> p,
                    ack |-> p.acks /\ \E n \in targets : /\ Taker(n) = member[o]
                                                         /\ CarriesAck(n, targets)]
  IN IF targets = {}
     THEN Hold(p) /\ UNCHANGED <<registryVars, inbox>>
     ELSE /\ Route(p.topic, p.ids)
          /\ inbox' = [o \in Opens |-> IF o \in Takers(targets)
                                       THEN Append(inbox[o], CopyOf(o)) ELSE inbox[o]]
          /\ inFlight' = inFlight + Cardinality(targets)
          /\ UNCHANGED held

-----------------------------------------------------------------------------
(* Opening and dropping subscriptions.                                     *)

Opening(o) == pc[o] \in {"sending", "refreshing", "attached", "handing"}

Claimed(p, o) == FilterOf[o] \in Matching[p.topic] /\ Claims(wires', FilterOf[o], p.ids)
Unclaimed(p, o) == ~Claimed(p, o)

\* The join and the handover of what was held for the filter.  (The server offers
\* identifiers.)
OpenJoin(o) ==
  /\ pc[o] = "idle"
  /\ Join(FilterOf[o], QosOf[o], TRUE)
  /\ pc' = [pc EXCEPT ![o] = "sending"]
  /\ member' = [member EXCEPT ![o] = nextMember]
  /\ todo' = [todo EXCEPT ![o] = JoinRequests(wires, wires', FilterOf[o], TRUE)]
  /\ LET claimed == Select(held, LAMBDA p : Claimed(p, o))
     IN /\ inbox' = [inbox EXCEPT ![o] = [n \in DOMAIN claimed |->
                       [packet |-> claimed[n], ack |-> claimed[n].acks]]]
        /\ inFlight' = inFlight + Len(claimed)
  /\ held' = Select(held, LAMBDA p : Unclaimed(p, o))
  /\ UNCHANGED <<handing, settled, serverVars, threadVars, overtaken>>

\* Before a refresh: a filter nobody holds any more is left alone.
RefreshCheck(o) ==
  /\ pc[o] = "sending" /\ Head(todo[o]).refresh
  /\ IF Holds(Head(todo[o]).filter)
     THEN pc' = [pc EXCEPT ![o] = "refreshing"] /\ UNCHANGED todo
     ELSE todo' = [todo EXCEPT ![o] = Tail(@)] /\ UNCHANGED pc
  /\ UNCHANGED <<registryVars, member, handing, streamVars, serverVars, threadVars, overtaken>>

\* What earlier joins than m's have still to ask for about g or a filter it meets.
Delayed(m, g) ==
  {f \in Filters :
     /\ f = g \/ Overlap(f, g)
     /\ \E p \in Opens :
          /\ Opening(p) /\ member[p] < m
          /\ \E i \in DOMAIN todo[p] : todo[p][i].filter = f /\ (pc[p] = "attached" => i # 1)}

\* A second subscribe to a wire filter replaces the first.
Put(o, request) ==
  LET sub == [filter |-> request.filter, qos |-> request.qos,
              identifier |-> request.identifier, since |-> Len(published)]
  IN /\ server' = IF Served(request.filter)
                  THEN [n \in DOMAIN server |->
                          IF server[n].filter = request.filter
                          THEN [sub EXCEPT !.since = server[n].since] ELSE server[n]]
                  ELSE Append(server, sub)
     /\ overtaken' = overtaken \cup Delayed(member[o], request.filter)

RefreshSubscribe(o) ==
  /\ pc[o] = "refreshing" /\ ServerFree
  /\ Put(o, Head(todo[o]))
  /\ pc' = [pc EXCEPT ![o] = "attached"]
  /\ UNCHANGED <<registryVars, member, todo, handing, streamVars, retained, published,
                 threadVars>>

RefreshIdentified(o) ==
  /\ pc[o] = "attached"
  /\ Identified(Head(todo[o]).filter, TRUE)
  /\ todo' = [todo EXCEPT ![o] = Tail(@)]
  /\ pc' = [pc EXCEPT ![o] = "sending"]
  /\ UNCHANGED <<member, handing, streamVars, serverVars, threadVars, overtaken>>

\* The retained messages a subscribe asks for: none for a share group.
Retained(request) ==
  LET topics == {t \in Topics : retained[t] # 0 /\ request.filter \in ServerMatching[t]}
  IN IF request.filter \in ShareFilters THEN <<>>
     ELSE [n \in 1..Cardinality(topics) |->
             LET last == retained[SetToSeq(topics)[n]]
             IN Packet(last, published[last], request, TRUE)]

\* Bus::subscribe: it holds the server's lock until they are handed over.
Subscribe(o) ==
  /\ pc[o] = "sending" /\ ~Head(todo[o]).refresh /\ ServerFree
  /\ Put(o, Head(todo[o]))
  /\ handing' = [handing EXCEPT ![o] = Retained(Head(todo[o]))]
  /\ todo' = [todo EXCEPT ![o] = Tail(@)]
  /\ pc' = [pc EXCEPT ![o] = "handing"]
  /\ UNCHANGED <<registryVars, member, streamVars, retained, published, threadVars>>

HandRetained(o) ==
  /\ pc[o] = "handing" /\ handing[o] # <<>>
  /\ HandOver(Head(handing[o]))
  /\ handing' = [handing EXCEPT ![o] = Tail(@)]
  /\ UNCHANGED <<pc, member, todo, settled, serverVars, threadVars, overtaken>>

Opened(o) ==
  /\ pc[o] = "handing" /\ handing[o] = <<>>
  /\ pc' = [pc EXCEPT ![o] = "open"]
  /\ UNCHANGED <<registryVars, member, todo, handing, streamVars, serverVars, threadVars,
                 overtaken>>

Released(fs) == Select(server, LAMBDA sub : sub.filter \notin fs)

\* A subscriber is dropped: its member leaves and the server drops the filter in
\* one step, and then the deliveries in its stream go.
Drop(o) ==
  /\ pc[o] = "open"
  /\ Leave(member[o])
  /\ IF o \in Keeps THEN UNCHANGED server
     ELSE ServerFree /\ server' = Released(TakenOff(member[o]))
  /\ pc' = [pc EXCEPT ![o] = "closed"]
  /\ inFlight' = inFlight - (Len(inbox[o]) - settled[o])
  /\ settled' = [settled EXCEPT ![o] = Len(inbox[o])]
  /\ UNCHANGED <<member, todo, handing, inbox, held, retained, published, threadVars, overtaken>>

\* The next delivery of o's stream is settled, or dropped without.
Settle(o) ==
  /\ o \in Reads /\ pc[o] # "closed" /\ settled[o] < Len(inbox[o])
  /\ settled' = [settled EXCEPT ![o] = @ + 1]
  /\ inFlight' = inFlight - 1
  /\ UNCHANGED <<registryVars, openVars, inbox, held, serverVars, threadVars, overtaken>>

-----------------------------------------------------------------------------
(* Publishing: Bus::receive.                                               *)

\* Under the server's lock, the packets of a message are made up; an empty
\* retained one clears its topic.
Receive(th) ==
  /\ next[th] < Len(Script[th]) /\ sending[th] = <<>> /\ ServerFree
  /\ Len(published) < MaxMessages
  /\ LET message == Script[th][next[th] + 1]
         n       == Len(published) + 1
         subs    == Select(server, LAMBDA sub : sub.filter \in ServerMatching[message.topic])
     IN /\ published' = Append(published, message)
        /\ retained' = IF message.retain
                       THEN [retained EXCEPT ![message.topic] = IF message.empty THEN 0 ELSE n]
                       ELSE retained
        /\ sending' = [sending EXCEPT ![th] =
                         [i \in DOMAIN subs |-> Packet(n, message, subs[i], FALSE)]]
  /\ next' = [next EXCEPT ![th] = @ + 1]
  /\ UNCHANGED <<registryVars, openVars, streamVars, server, overtaken>>

\* They are sent one by one, under no lock of the server's.
Send(th) ==
  /\ sending[th] # <<>>
  /\ HandOver(Head(sending[th]))
  /\ sending' = [sending EXCEPT ![th] = Tail(@)]
  /\ UNCHANGED <<openVars, settled, serverVars, next, overtaken>>

-----------------------------------------------------------------------------
(* What the harness asks: routes.                                          *)

\* Wire::upcoming: the member that takes the next delivery.
Upcoming(n) == wires[n].members[(wires[n].turn % Len(wires[n].members)) + 1].id

\* The app's list of subscriptions: those it opened under the name, in the order it
\* opened them, which is that of their members.  It keeps those that closed.
Listed(name) == {o \in Opens : member[o] # NoMember /\ NameOf[FilterOf[o]] = name}

\* How many of the members ms come before m.
Rank0(m, ms) == Cardinality({k \in ms : k < m})

\* Who sits at the wires ns.
SittingAt(ns) == UNION {{wires[n].members[i].id : i \in DOMAIN wires[n].members} : n \in ns}

WiresOf(name) == {n \in DOMAIN wires : NameOf[wires[n].filter] = name}

\* Mutation: the rank is that in the wire, as if a name had only one.
NextTakersApart(name) == {Rank0(Upcoming(n), SittingAt({n})) : n \in WiresOf(name)}

\* next_takers: of the wires under the name, whose turn it is, by the rank among the
\* members that sit there.
NextTakers(name) == {Rank0(Upcoming(n), SittingAt(WiresOf(name))) : n \in WiresOf(name)}

\* routes: the list's subscriptions at those ranks; all of them under a name that no
\* subscription is open on.
Routes(t) ==
  LET names == {NameOf[f] : f \in Matching[t]}
      Place(o, name) == Rank0(member[o], {member[p] : p \in Listed(name)})
  IN UNION {{o \in Listed(name) : NextTakers(name) = {} \/ Place(o, name) \in NextTakers(name)} :
              name \in names}

-----------------------------------------------------------------------------
Init ==
  /\ RegistryInit
  /\ pc = [o \in Opens |-> "idle"] /\ member = [o \in Opens |-> NoMember]
  /\ todo = [o \in Opens |-> <<>>] /\ handing = [o \in Opens |-> <<>>]
  /\ inbox = [o \in Opens |-> <<>>] /\ settled = [o \in Opens |-> 0]
  /\ held = <<>> /\ inFlight = 0
  /\ server = <<>> /\ retained = [t \in Topics |-> 0] /\ published = <<>>
  /\ next = [th \in Threads |-> 0] /\ sending = [th \in Threads |-> <<>>]
  /\ overtaken = {}

Next ==
  \/ \E o \in Opens :
       \/ OpenJoin(o) \/ RefreshCheck(o) \/ RefreshSubscribe(o) \/ RefreshIdentified(o)
       \/ Subscribe(o) \/ HandRetained(o) \/ Opened(o) \/ Drop(o) \/ Settle(o)
  \/ \E th \in Threads : Receive(th) \/ Send(th)

Spec == Init /\ [][Next]_vars

-----------------------------------------------------------------------------
(* Properties.                                                             *)

Alive == {o \in Opens : pc[o] # "closed"}

\* What the streams hold and no handler is done with, by place.
Waiting == UNION {{o} \X ((settled[o] + 1)..Len(inbox[o])) : o \in Alive}

\* The harness counts what the streams hold and no handler is done with: not what
\* is held for a subscription that may never open, nor what went with a stream.  So
\* its count comes back to zero, which is what it waits for.
InFlightCounts == inFlight = Cardinality(Waiting)

\* Of the messages one thread publishes as retained, a stream never reads an older
\* one after a newer, whether it was sent them or handed them when it subscribed.
NeverOlder ==
  \A o \in Opens : \A i, j \in DOMAIN inbox[o] :
    LET m == inbox[o][i].packet.message
        n == inbox[o][j].packet.message
    IN i < j /\ published[m].thread = published[n].thread /\ published[m].topic = published[n].topic
         /\ published[m].retain /\ published[n].retain => m <= n

\* From the moment an open returns the server has its filter at the quality of service
\* asked for or above, with the identifier packets are routed by or, while a refresh has
\* still to attach it, with none: whatever other threads open, refresh, pass over and
\* drop.  (Not of a filter whose earlier subscribe was overtaken.)
OpenIsServed ==
  \A o \in Opens, n \in DOMAIN wires :
    pc[o] = "open" /\ FilterOf[o] \notin overtaken /\ wires[n].filter = FilterOf[o] =>
      \E k \in DOMAIN server :
        /\ server[k].filter = FilterOf[o] /\ server[k].qos >= QosOf[o]
        /\ \/ server[k].identifier = wires[n].identifier
           \/ wires[n].unnamed /\ server[k].identifier = NoIdentifier

\* A packet about to be sent reaches the filter it is for, as long as the server
\* still has the subscription it was made up for, whatever joined, left or gained an
\* identifier since.  (As long as no subscribe overtook an earlier join's; and of a filter
\* that a subscription left there and another opened again this is not so, nor always
\* where filters derive one identifier: see the README.)
PacketReaches ==
  overtaken = {} =>
    \A th \in Threads : sending[th] # <<>> =>
      LET p == Head(sending[th])
          StillFor(sub) == sub.filter = p.for /\ sub.since < p.message
      IN (\E k \in DOMAIN server : StillFor(server[k])) /\ Holds(p.for) =>
           \E n \in Targets(p.topic, p.ids) : wires[n].filter = p.for

\* The server holds no filter that no subscription was left on it for.  No run checks
\* it: it fails, see the README.
ServerHoldsOnly ==
  (\A p \in Opens : ~Opening(p)) =>
    \A k \in DOMAIN server : \/ Holds(server[k].filter)
                             \/ \E o \in Keeps : FilterOf[o] = server[k].filter

\* Whom the next message on t is handed to: the server sends a copy per subscription.
Takes(t) ==
  LET Sent == {k \in DOMAIN server : server[k].filter \in ServerMatching[t]}
      For(k) == Targets(t, {server[k].identifier} \ {NoIdentifier})
  IN {o \in Opens : \E k \in Sent : \E n \in For(k) : member[o] = Taker(n)}

\* Nothing is under way, nothing was overtaken, and the server holds no filter that its
\* subscriptions left there.
Settled ==
  /\ \A o \in Opens : ~Opening(o)
  /\ \A th \in Threads : sending[th] = <<>>
  /\ overtaken = {}
  /\ \A k \in DOMAIN server : Holds(server[k].filter)

\* The subscriptions closed under a name of t, and for each of them those that are left.
Closed(t) == {o \in Opens : pc[o] = "closed" /\ FilterOf[o] \in Matching[t]}
Left(o) == {p \in Alive : member[p] # NoMember /\ NameOf[FilterOf[p]] = NameOf[FilterOf[o]]}

\* routes names the subscriptions the next message is handed to, whoever closed, of every
\* name some are left under.
RoutesTold ==
  Settled =>
    \A t \in Topics : (\A o \in Closed(t) : Left(o) # {}) => Routes(t) = Takes(t)

\* It does when those that closed under a name were opened after those that are left: a
\* rank among the members that are left is then a place in the app's list.
RoutesToldLastClosed ==
  Settled =>
    \A t \in Topics :
      (\A o \in Closed(t) : Left(o) # {} /\ \A p \in Left(o) : member[p] < member[o]) =>
        Routes(t) = Takes(t)
=============================================================================
