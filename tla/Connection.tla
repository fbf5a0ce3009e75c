----------------------------- MODULE Connection -----------------------------
(***************************************************************************)
(* One connection while it stays up: subscriptions opening and closing from *)
(* many tasks, the client's request queue, the server's table of           *)
(* subscriptions, and the connection task that hands each PUBLISH packet to *)
(* the subscriptions it belongs to (Shared in conn.rs over the Registry).  *)
(*                                                                         *)
(* The server and the two directions of the connection are the             *)
(* environment, as the code relies on them: FIFO, one copy of a publish    *)
(* per matching filter naming that filter's identifier, or one copy naming *)
(* all of them.  A connection that is lost is Session.tla's subject: here  *)
(* a SUBACK reaches the record of the subscribe it answers.                *)
(***************************************************************************)
EXTENDS Registry, FiniteSetsExt, SequencesExt

CONSTANTS
  Opens,          \* the calls to open, each made by a task of its own
  FilterOf,       \* FilterOf[o]: the wire filter o opens
  QosOf,          \* QosOf[o]: the quality of service o asks for
  Keeps,          \* the opens of the app: their drop leaves the filter on the server
  Cancels,        \* a caller may drop the open it waits for
  Accepts,        \* what SUBACKs of an open's own subscribe say
  Resumable,      \* the tables a resumed session may find on the server
  Merges,         \* whether the server sends one packet for two filters
  Capacity,       \* the client's request queue; 64 in the code
  HeldCapacity,   \* HELD_DELIVERIES; 1024 in the code
  MaxPublishes    \* bound: how many messages are published

ASSUME ConnectionAssumption ==
  /\ FilterOf \in [Opens -> Filters]
  /\ QosOf \in [Opens -> Qos]
  /\ Keeps \subseteq Opens
  /\ Cancels \in BOOLEAN
  /\ Accepts \subseteq BOOLEAN /\ Merges \subseteq BOOLEAN
  /\ Resumable \subseteq [Filters -> [qos : Int, identifier : Int, since : Nat]]
  /\ Capacity \in Nat \ {0} /\ HeldCapacity \in Nat \ {0}
  /\ MaxPublishes \in Nat

VARIABLES
  offered,        \* Shared::identifiers: what the CONNACK said
  pc,             \* pc[o]: how far the open o is
  member,         \* member[o]: Joined::member
  todo,           \* todo[o]: the requests of o not in the queue yet
  held,           \* Shared::held: packets no subscription matched
  reaping,        \* members whose stream is gone, not yet released
  inbox,          \* inbox[o]: what o's stream was handed
  requests,       \* the request queue and the wire to the server
  server,         \* server[f]: how the server holds f, or NotHeld; `since` is, for
                  \* the properties only, the last message before it held f
  incoming,       \* the wire from the server
  published,      \* how many messages were published
  overtaken,      \* for the properties only: the filters an earlier join had still to
                  \* subscribe when the request of a later one was queued ahead
  reopened        \* for the properties only: the filters opened anew while a refresh of
                  \* their wire before was unanswered
openVars   == <<pc, member, todo>>
serverVars == <<server, published>>
history    == <<overtaken, reopened>>
vars == <<registryVars, offered, openVars, held, reaping, inbox,
          requests, serverVars, incoming, history>>

NotHeld == [qos |-> -1, identifier |-> NoIdentifier, since |-> 0]

\* A packet on the way to the connection or held by it: the message, the
\* identifiers it names and, for the properties only, the filters it is for.
Packet(n, t, ids, for) ==
  [kind |-> "publish", message |-> n, topic |-> t, ids |-> ids, for |-> for]

NoMember == -1              \* an open that has not joined

OpenOf(m) == CHOOSE o \in Opens : member[o] = m

\* The receiver of o's stream still exists, so a send to it succeeds.
Alive(o) == pc[o] \in {"sending", "waiting", "open"}

-----------------------------------------------------------------------------
(* open, called by a task of the service.                                  *)

Claimed(p, o) == FilterOf[o] \in Matching[p.topic] /\ Claims(wires', FilterOf[o], p.ids)
Unclaimed(p, o) == ~Claimed(p, o)

\* A refresh of f is still to be queued, taken or answered.
Unanswered(f) ==
  LET refreshes(request) == request.refresh /\ request.filter = f
  IN \/ \E p \in Opens : pc[p] = "sending" /\ \E i \in DOMAIN todo[p] : refreshes(todo[p][i])
     \/ \E i \in DOMAIN requests :
          requests[i].kind = "subscribe" /\ refreshes(requests[i].request)
     \/ \E i \in DOMAIN incoming :
          incoming[i].kind = "suback" /\ refreshes(incoming[i].request)

\* The join and the handover of what was held for the filter, one critical
\* section.  Each held delivery carries its packet's acknowledgement.
OpenJoin(o) ==
  /\ pc[o] = "idle"
  /\ IF Refused(FilterOf[o], offered)
     THEN /\ pc' = [pc EXCEPT ![o] = "failed"]
          /\ UNCHANGED <<registryVars, member, todo, held, inbox, reopened>>
     ELSE /\ Join(FilterOf[o], QosOf[o], offered)
          /\ pc' = [pc EXCEPT ![o] = "sending"]
          /\ member' = [member EXCEPT ![o] = nextMember]
          /\ todo' = [todo EXCEPT ![o] = JoinRequests(wires, wires', FilterOf[o], offered)]
          /\ LET claimed == Select(held, LAMBDA p : Claimed(p, o))
             IN inbox' = [inbox EXCEPT ![o] =
                            [n \in DOMAIN claimed |->
                               [message |-> claimed[n].message, for |-> claimed[n].for,
                                ack |-> TRUE]]]
          /\ held' = Select(held, LAMBDA p : Unclaimed(p, o))
          /\ reopened' = IF ~Holds(FilterOf[o]) /\ Unanswered(FilterOf[o])
                         THEN reopened \cup {FilterOf[o]} ELSE reopened
  /\ UNCHANGED <<offered, reaping, requests, serverVars, incoming, overtaken>>

\* Mutation: a refresh goes out for a filter already released.
MootNever(request) == FALSE

\* A refresh is dropped when a release took its filter off the server first.
Moot(request) == request.refresh /\ ~Holds(request.filter)

\* What earlier joins than m's have still to ask for about g or a filter it meets.
Delayed(m, g) ==
  {f \in Filters : /\ f = g \/ Overlap(f, g)
                   /\ \E p \in Opens : /\ pc[p] = "sending" /\ member[p] < m
                                       /\ \E i \in DOMAIN todo[p] : todo[p][i].filter = f}

\* The next request goes into the queue, unless it is moot.  A full queue makes
\* the open wait and try again.
OpenSend(o) ==
  /\ pc[o] = "sending"
  /\ LET request == Head(todo[o])
     IN \/ Moot(request) /\ UNCHANGED <<requests, pc, overtaken>>
        \/ /\ ~Moot(request)
           /\ Len(requests) < Capacity
           /\ requests' = Append(requests, [kind |-> "subscribe", request |-> request,
                                            open |-> o])
           /\ pc' = IF request.refresh THEN pc ELSE [pc EXCEPT ![o] = "waiting"]
           /\ overtaken' = overtaken \cup Delayed(member[o], request.filter)
  /\ todo' = [todo EXCEPT ![o] = Tail(@)]
  /\ UNCHANGED <<registryVars, offered, member, held, reaping, inbox, serverVars, incoming,
                 reopened>>

\* The caller drops the future of its open at one of its two awaits: the pause
\* before it offers a request again, and the wait for the SUBACK.
OpenCancel(o) ==
  /\ Cancels
  /\ \/ pc[o] = "waiting"
     \/ pc[o] = "sending" /\ Len(requests) >= Capacity
  /\ pc' = [pc EXCEPT ![o] = "cancelled"]
  /\ UNCHANGED <<registryVars, offered, member, todo, held, reaping, inbox,
                 requests, serverVars, incoming, history>>

\* A member is taken out, and its filter off the server when it was the last
\* one; an unsubscribe the full queue refuses is only logged.
Release(m) ==
  /\ Leave(m)
  /\ requests' = IF TakenOff(m) # {} /\ Len(requests) < Capacity
                 THEN Append(requests, [kind |-> "unsubscribe",
                                        filter |-> CHOOSE f \in TakenOff(m) : TRUE])
                 ELSE requests

\* The subscriber is dropped.  One the app opened leaves its filter in the
\* session.
Drop(o) ==
  /\ pc[o] = "open"
  /\ IF o \in Keeps THEN Leave(member[o]) /\ UNCHANGED requests ELSE Release(member[o])
  /\ pc' = [pc EXCEPT ![o] = "closed"]
  /\ UNCHANGED <<offered, member, todo, held, reaping, inbox, serverVars, incoming, history>>

-----------------------------------------------------------------------------
(* The server.                                                             *)

\* It takes the next request.  A subscribe replaces what it held on the
\* filter; a refused one changes nothing.
ServerTake ==
  /\ requests # <<>>
  /\ requests' = Tail(requests)
  /\ LET packet == Head(requests)
     IN IF packet.kind = "unsubscribe"
        THEN /\ server' = [server EXCEPT ![packet.filter] = NotHeld]
             /\ UNCHANGED incoming
        ELSE \E accepted \in IF packet.request.refresh THEN Answers ELSE Accepts :
               /\ server' = IF accepted
                            THEN [server EXCEPT ![packet.request.filter] =
                                    [qos |-> packet.request.qos,
                                     identifier |-> packet.request.identifier,
                                     since |-> IF @ = NotHeld THEN published ELSE @.since]]
                            ELSE server
               /\ incoming' = Append(incoming, [kind |-> "suback", open |-> packet.open,
                                                request |-> packet.request,
                                                accepted |-> accepted])
  /\ UNCHANGED <<registryVars, offered, openVars, held, reaping, inbox, published, history>>

IdentifiersOf(fs) == {server[f].identifier : f \in fs} \ {NoIdentifier}

\* A message is published on t: one copy per filter held, in any order, or,
\* on a server that merges them, one copy for all of them.
ServerPublish(t) ==
  LET for == {f \in Matching[t] : server[f] # NotHeld}
      n   == published + 1
  IN /\ published < MaxPublishes
     /\ for # {}
     /\ published' = n
     /\ \E merged \in Merges :
          IF merged
          THEN incoming' = Append(incoming, Packet(n, t, IdentifiersOf(for), for))
          ELSE \E order \in SetToSeqs(for) :
                 incoming' = incoming \o
                   [i \in DOMAIN order |-> Packet(n, t, IdentifiersOf({order[i]}), {order[i]})]
     /\ UNCHANGED <<registryVars, offered, openVars, held, reaping, inbox, requests, server,
                    history>>

-----------------------------------------------------------------------------
(* The connection task, on what comes in next.                             *)

\* Mutation: a refused subscribe is never reported to its caller.
OutcomeUntold(state, accepted) == IF accepted THEN "open" ELSE state

\* What the caller waiting on its subscribe is told.
Outcome(state, accepted) ==
  IF state = "cancelled" THEN state ELSE IF accepted THEN "open" ELSE "failed"

ReceiveSuback ==
  /\ incoming # <<>> /\ reaping = <<>>
  /\ Head(incoming).kind = "suback"
  /\ LET suback == Head(incoming)
         o      == suback.open
     IN IF suback.request.refresh
        THEN Identified(suback.request.filter, suback.accepted) /\ UNCHANGED pc
        ELSE /\ IF suback.accepted THEN UNCHANGED registryVars ELSE Leave(member[o])
             /\ pc' = [pc EXCEPT ![o] = Outcome(@, suback.accepted)]
  /\ incoming' = Tail(incoming)
  /\ UNCHANGED <<offered, member, todo, held, reaping, inbox, requests, serverVars, history>>

\* Mutation: nothing is dropped from a full buffer.
HoldAll(p) == held' = Append(held, p)

\* Mutation: the newest is held first.
HoldInFront(p) ==
  held' = <<p>> \o (IF Len(held) >= HeldCapacity THEN Tail(held) ELSE held)

\* Holds a packet, dropping the oldest when the buffer is full.
Hold(p) == held' = Append(IF Len(held) >= HeldCapacity THEN Tail(held) ELSE held, p)

\* Each target's member whose turn it is gets a copy; the members whose stream
\* is gone are released next, before anything else comes in.
ReceivePublish ==
  /\ incoming # <<>> /\ reaping = <<>>
  /\ Head(incoming).kind = "publish"
  /\ LET p       == Head(incoming)
         targets == Targets(p.topic, p.ids)
         TakenAt(o) == {n \in targets : Taker(n) = member[o]}
         dead    == {n \in targets : ~Alive(OpenOf(Taker(n)))}
     IN IF targets = {}
        THEN Hold(p) /\ UNCHANGED <<registryVars, inbox, reaping>>
        ELSE /\ Route(p.topic, p.ids)
             /\ inbox' = [o \in Opens |->
                            IF Alive(o) /\ TakenAt(o) # {}
                            THEN Append(inbox[o],
                                   [message |-> p.message, for |-> p.for,
                                    ack |-> CarriesAck(Max(TakenAt(o)), targets)])
                            ELSE inbox[o]]
             /\ reaping' = At([n \in DOMAIN wires |-> Taker(n)], dead)
             /\ UNCHANGED held
  /\ incoming' = Tail(incoming)
  /\ UNCHANGED <<offered, openVars, requests, serverVars, history>>

Reap ==
  /\ reaping # <<>>
  /\ Release(Head(reaping))
  /\ reaping' = Tail(reaping)
  /\ UNCHANGED <<offered, openVars, held, inbox, serverVars, incoming, history>>

-----------------------------------------------------------------------------
Init ==
  /\ RegistryInit
  /\ offered \in Offers
  /\ pc = [o \in Opens |-> "idle"]
  /\ member = [o \in Opens |-> NoMember]
  /\ todo = [o \in Opens |-> <<>>]
  /\ held = <<>> /\ reaping = <<>>
  /\ inbox = [o \in Opens |-> <<>>]
  /\ requests = <<>> /\ incoming = <<>>
  /\ server \in Resumable
  /\ published = 0
  /\ overtaken = {} /\ reopened = {}

Next ==
  \/ \E o \in Opens : OpenJoin(o) \/ OpenSend(o) \/ OpenCancel(o) \/ Drop(o)
  \/ ServerTake
  \/ \E t \in Topics : ServerPublish(t)
  \/ ReceiveSuback \/ ReceivePublish \/ Reap

Spec == Init /\ [][Next]_vars

\* The task polls without end, an open that joined queues its requests as the
\* queue drains, and a server that is up answers.
Fairness ==
  /\ \A o \in Opens : WF_vars(OpenSend(o))
  /\ WF_vars(ServerTake)
  /\ WF_vars(ReceiveSuback) /\ WF_vars(ReceivePublish) /\ WF_vars(Reap)

FairSpec == Spec /\ Fairness

-----------------------------------------------------------------------------
(* Properties.                                                             *)

\* Each variable has its type.
TypeOK ==
  /\ RegistryTypeOK
  /\ offered \in BOOLEAN
  /\ pc \in [Opens -> {"idle", "sending", "waiting", "open", "failed", "cancelled", "closed"}]
  /\ member \in [Opens -> Nat \cup {NoMember}]
  /\ Len(held) <= HeldCapacity
  /\ Len(requests) <= Capacity
  /\ published \in 0..MaxPublishes

\* No request overtook an earlier join's, and no filter was opened anew while a refresh
\* of its wire before was unanswered.
InTurn == overtaken = {} /\ reopened = {}

\* The server's subscription the packet p was sent for on f is still the one
\* this connection has: it was not taken off since.
StillFor(p, f) ==
  /\ f \in p.for
  /\ server[f] # NotHeld /\ server[f].since < p.message
  /\ \A i \in DOMAIN requests :
       requests[i].kind = "unsubscribe" => requests[i].filter # f

\* The next packet is handed to the filter it was sent for if this connection still has
\* it open, and then to no other, while refreshes, unsubscribes and the packets sent
\* before them are on the way.  (Of a packet sent for one filter, as long as the
\* requests went out in turn.)
PacketHome ==
  InTurn /\ reaping = <<>> /\ incoming # <<>> =>
    LET p    == Head(incoming)
        open == {n \in DOMAIN wires : StillFor(p, wires[n].filter)}
    IN p.kind = "publish" /\ Cardinality(p.for) = 1 /\ open # {} =>
         Targets(p.topic, p.ids) = open

\* Where a message was delivered to a filter's subscriptions.
Deliveries(n, f) ==
  {d \in UNION {{o} \X DOMAIN inbox[o] : o \in {q \in Opens : FilterOf[q] = f}} :
     inbox[d[1]][d[2]].message = n}

\* Overlapping filters on one connection each receive a message once, however
\* many subscriptions share a filter and whenever they open and close.
DeliveredOnce ==
  \A n \in 1..published, f \in Filters : Cardinality(Deliveries(n, f)) <= 1

\* That is so as long as the requests went out in turn, however those of several opens
\* fall otherwise, and while no subscription of the app was dropped, which leaves its
\* filter on the server: the service drops those when it stops.
DeliveredOnceInTurn ==
  InTurn /\ (\A o \in Keeps : pc[o] # "closed") => DeliveredOnce

\* A stream yields messages in the order they were published, those held for
\* it before any that came in after it opened.
InOrder ==
  \A o \in Opens : \A i, j \in DOMAIN inbox[o] :
    i < j => inbox[o][i].message <= inbox[o][j].message

\* Every caller that opened waited for its open to return.
NoneGivenUp == \A o \in Opens : pc[o] # "cancelled"

\* One packet is acknowledged by exactly one of the deliveries it became, while streams
\* open, close and are refused, and as long as no caller gave its open up half-way.
AckedOnce ==
  NoneGivenUp => \A n \in 1..published, for \in SUBSET Filters :
    LET copies == {d \in UNION {{o} \X DOMAIN inbox[o] : o \in Opens} :
                     /\ inbox[d[1]][d[2]].message = n
                     /\ inbox[d[1]][d[2]].for = for}
        acks   == {d \in copies : inbox[d[1]][d[2]].ack}
    IN copies # {} => Cardinality(acks) = 1

\* Nothing the client asked of the server is still on its way.
Quiet ==
  /\ requests = <<>> /\ reaping = <<>>
  /\ \A i \in DOMAIN incoming : incoming[i].kind = "publish"
  /\ \A o \in Opens : pc[o] \notin {"sending", "waiting"}

\* The filter is on the server exactly while a local subscription is on it: the
\* last one to go took it off.  (A filter the app opened stays, and so does one
\* only a previous process subscribed.)
ServerHoldsWires ==
  Quiet => \A f \in Filters :
    /\ Holds(f) => server[f] # NotHeld
    /\ /\ ~Holds(f)
       /\ \E o \in Opens : FilterOf[o] = f /\ pc[o] = "closed"
       /\ \A o \in Keeps : FilterOf[o] # f
       => server[f] = NotHeld

\* A server that holds the filter of an open subscription holds it with the
\* identifier packets are routed by, or without one while the answer to its refresh is
\* awaited, from the moment its open returned: whatever was refreshed, refused, given
\* up, taken off and subscribed again since.  (Not of a filter whose earlier subscribe was
\* overtaken, or that was opened anew with a refresh unanswered.)
IdentifiersAgree ==
  \A o \in Opens, n \in DOMAIN wires :
    pc[o] = "open" /\ FilterOf[o] \notin overtaken \cup reopened
    /\ wires[n].filter = FilterOf[o] =>
      \/ server[FilterOf[o]].identifier = wires[n].identifier
      \/ wires[n].unnamed /\ server[FilterOf[o]].identifier = NoIdentifier

\* Once the refresh that attached a filter's identifier is answered, the filter's packets
\* name it: the server holds an open subscription's filter with its identifier.  No run
\* checks it: it fails, see the README.
NamedOnceAnswered ==
  \A o \in Opens, n \in DOMAIN wires :
    pc[o] = "open" /\ FilterOf[o] \notin overtaken
    /\ wires[n].filter = FilterOf[o] /\ ~wires[n].unnamed =>
      server[FilterOf[o]].identifier = wires[n].identifier

\* The server serves an open stream at the quality of service it asked for or above,
\* so a member that acknowledges is never handed a delivery it cannot acknowledge.  No
\* run checks it: it fails, see the README.
QosServed ==
  \A o \in Opens : pc[o] = "open" => server[FilterOf[o]].qos >= QosOf[o]

\* The server serves an open stream at the quality of service it asked for or above, at
\* every moment its filter has not been overtaken, while other streams on it open at
\* other qualities of service, are refreshed and go.
QosServedInTurn ==
  \A o \in Opens :
    pc[o] = "open" /\ FilterOf[o] \notin overtaken => server[FilterOf[o]].qos >= QosOf[o]

\* Every open that joined returns: its requests reach the server and the
\* answer comes back, through however small a request queue.
OpensReturn ==
  \A o \in Opens :
    pc[o] \in {"sending", "waiting"} ~> pc[o] \notin {"sending", "waiting"}
=============================================================================
