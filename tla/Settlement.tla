----------------------------- MODULE Settlement -----------------------------
(***************************************************************************)
(* Deliveries and their acknowledgements over the connections and sessions  *)
(* of one subscription: MqttMessage (message.rs), Link::ack (broker.rs) and *)
(* what park and unpark (conn.rs) do with acknowledgements, beside a server *)
(* that keeps what is not acknowledged.  Messages are at quality of service *)
(* 1 or 2: one at 0 has nothing to settle.  Which subscription takes a      *)
(* packet, and which copy acknowledges it, is Connection's; how the task    *)
(* ends is Lifecycle's.                                                     *)
(***************************************************************************)
EXTENDS Naturals, Sequences, FiniteSets, SequencesExt

CONSTANTS
  Count,        \* the messages published are 1..Count
  Window,       \* the Receive Maximum
  Capacity,     \* the places of the request queue; 64 in the code
  MaxLosses,    \* bound: the connections lost, by a crash or without
  Overtakes     \* bound: a session may be lost while handlers hold its deliveries

ASSUME SettlementAssumption ==
  /\ Count \in Nat /\ Window \in Nat \ {0} /\ Capacity \in Nat \ {0}
  /\ MaxLosses \in Nat /\ Overtakes \in BOOLEAN

VARIABLES
  published,    \* how many messages were
  backlog,      \* those the server has not sent in this session
  issued,       \* those it has: the packet id of a message is its place
  unconfirmed,  \* the packet ids it awaits the acknowledgement of
  resend,       \* those it sends again on this connection
  wire,         \* the PUBLISH packets on their way to the client
  up,           \* a connection stands
  present,      \* the server has the session of the connection before
  losses,       \* the connections lost: the number of this one
  stream,       \* the deliveries handed to the subscription and not settled
  queue,        \* the deliveries whose acknowledgement is in the request queue,
                \* whose order nothing here tells apart
  parked,       \* Conn::parked
  settled,      \* the messages a handler acknowledged or dropped
  refused,      \* the messages refused (retry) on this connection
  confirmed     \* the messages the server took an acknowledgement of

serverVars == <<published, backlog, issued, unconfirmed, resend, confirmed>>
linkVars == <<wire, up, present, losses>>
clientVars == <<stream, queue, parked, settled, refused>>
vars == <<serverVars, linkVars, clientVars>>

Messages == 1..Count

-----------------------------------------------------------------------------
(* The server.                                                             *)

Publish ==
  /\ published < Count /\ present
  /\ published' = published + 1
  /\ backlog' = Append(backlog, published + 1)
  /\ UNCHANGED <<issued, unconfirmed, resend, confirmed, linkVars, clientVars>>

Packet(m, id) == [message |-> m, id |-> id, conn |-> losses]

\* In a session it takes packet ids in turn.
Send ==
  /\ up /\ resend = {} /\ backlog # <<>> /\ Cardinality(unconfirmed) < Window
  /\ issued' = Append(issued, Head(backlog)) /\ backlog' = Tail(backlog)
  /\ unconfirmed' = unconfirmed \cup {Len(issued) + 1}
  /\ wire' = Append(wire, Packet(Head(backlog), Len(issued) + 1))
  /\ UNCHANGED <<published, resend, confirmed, up, present, losses, clientVars>>

\* What it awaits an acknowledgement of goes first when a session is resumed.
Resend(id) ==
  /\ up /\ id \in resend /\ \A k \in resend : id <= k
  /\ resend' = resend \ {id}
  /\ wire' = Append(wire, Packet(issued[id], id))
  /\ UNCHANGED <<published, backlog, issued, unconfirmed, confirmed, up, present, losses,
                 clientVars>>

-----------------------------------------------------------------------------
(* Deliveries, and what their handlers do.                                 *)

\* Mutation: a packet of a message a handler is done with is taken for a duplicate.
ReceiveOnce ==
  /\ up /\ wire # <<>>
  /\ stream' = IF Head(wire).message \in settled THEN stream ELSE stream \cup {Head(wire)}
  /\ wire' = Tail(wire)
  /\ UNCHANGED <<serverVars, up, present, losses, queue, parked, settled, refused>>

\* Each packet is a delivery that keeps it, to acknowledge it by.
Receive ==
  /\ up /\ wire # <<>>
  /\ stream' = stream \cup {Head(wire)} /\ wire' = Tail(wire)
  /\ UNCHANGED <<serverVars, up, present, losses, queue, parked, settled, refused>>

\* ack, and nack without requeue.  It waits for a place, and nothing else: a
\* connection need not stand, nor be the one the delivery came on.
Settle(d) ==
  /\ d \in stream /\ Cardinality(queue) < Capacity
  /\ stream' = stream \ {d}
  /\ queue' = queue \cup {d} /\ settled' = settled \cup {d.message}
  /\ UNCHANGED <<serverVars, linkVars, parked, refused>>

\* nack with requeue is refused, and nothing is sent.
Refuse(d) ==
  /\ d \in stream /\ stream' = stream \ {d}
  /\ refused' = IF d.conn = losses THEN refused \cup {d.message} ELSE refused
  /\ UNCHANGED <<serverVars, linkVars, queue, parked, settled>>

\* An acknowledgement is written, and the server takes it for what it sent last
\* under that packet id.  (One that does not get there is lost with the connection
\* before it is written.)
WriteAck(d) ==
  /\ up /\ d \in queue
  /\ queue' = queue \ {d}
  /\ confirmed' = IF d.id \in unconfirmed THEN confirmed \cup {issued[d.id]} ELSE confirmed
  /\ unconfirmed' = unconfirmed \ {d.id} /\ resend' = resend \ {d.id}
  /\ UNCHANGED <<published, backlog, issued, linkVars, stream, parked, settled, refused>>

-----------------------------------------------------------------------------
(* Connections lost and made.                                              *)

\* Of the acknowledgements still queued, the client sets aside any, and park takes
\* those.
Park(kept) ==
  /\ kept \subseteq queue
  /\ parked' = parked \cup kept /\ queue' = {}

Lose(keeps, kept) ==
  /\ up /\ losses < MaxLosses /\ (keeps \/ Overtakes \/ stream = {})
  /\ Park(kept)
  /\ up' = FALSE /\ present' = keeps /\ losses' = losses + 1
  /\ wire' = <<>> /\ resend' = {} /\ refused' = {}
  /\ UNCHANGED <<published, backlog, issued, unconfirmed, confirmed, stream, settled>>

\* A dial fails: what was queued since the loss is set aside too.
DialFails(kept) ==
  /\ ~up /\ queue # {} /\ Park(kept)
  /\ UNCHANGED <<serverVars, linkVars, stream, settled, refused>>

\* Mutation: the acknowledgements go back whatever the session is.
UnparkAll == parked \cup queue

\* unpark: a session that is gone has no use for them.
Unpark == IF present THEN parked \cup queue ELSE queue

\* The CONNACK.
Connack ==
  /\ ~up /\ up' = TRUE /\ present' = TRUE
  /\ queue' = Unpark /\ parked' = {}
  /\ IF present
     THEN resend' = unconfirmed /\ UNCHANGED <<backlog, issued, unconfirmed>>
     ELSE resend' = {} /\ backlog' = <<>> /\ issued' = <<>> /\ unconfirmed' = {}
  /\ UNCHANGED <<published, confirmed, wire, losses, stream, settled, refused>>

\* The process dies, and another one starts with nothing.
Crash(keeps) ==
  /\ losses < MaxLosses /\ losses' = losses + 1
  /\ up' = FALSE /\ present' = (present /\ keeps)
  /\ wire' = <<>> /\ resend' = {} /\ refused' = {}
  /\ stream' = {} /\ queue' = {} /\ parked' = {}
  /\ UNCHANGED <<published, backlog, issued, unconfirmed, confirmed, settled>>

-----------------------------------------------------------------------------
Init ==
  /\ published = 0 /\ backlog = <<>> /\ issued = <<>> /\ unconfirmed = {}
  /\ resend = {} /\ wire = <<>> /\ up = TRUE /\ present = TRUE /\ losses = 0
  /\ stream = {} /\ queue = {} /\ parked = {}
  /\ settled = {} /\ refused = {} /\ confirmed = {}

Resends == \E id \in resend : Resend(id)

Handles == \E d \in stream : Settle(d) \/ Refuse(d)

WritesAck == \E d \in queue : WriteAck(d)

Loses ==
  \/ \E keeps \in BOOLEAN, kept \in SUBSET queue : Lose(keeps, kept)
  \/ \E kept \in SUBSET queue : DialFails(kept)
  \/ \E keeps \in BOOLEAN : Crash(keeps)

Next ==
  \/ Publish \/ Send \/ Resends \/ Receive \/ Handles \/ WritesAck \/ Connack \/ Loses

Spec == Init /\ [][Next]_vars

\* A dial gets through at last, what is sent arrives, and handlers end: the deliveries
\* of the connection that stands as well as older ones.
Fairness ==
  /\ WF_vars(Send) /\ WF_vars(Resends) /\ WF_vars(Receive) /\ WF_vars(WritesAck)
  /\ WF_vars(Connack)
  /\ \A m \in Messages, n \in 0..MaxLosses :
       WF_vars(\E d \in stream : /\ d.message = m /\ d.conn = n
                                 /\ (Settle(d) \/ Refuse(d)))

FairSpec == Spec /\ Fairness

-----------------------------------------------------------------------------
(* Properties.                                                             *)

\* The server takes a message for acknowledged only once a handler acknowledged or
\* dropped a delivery of it: nothing acknowledges one that was refused, or whose
\* handler was lost with its process, but a handler of a later delivery.
AckedMeansSettled == confirmed \subseteq settled

Kept(m) == m \in ToSet(backlog) \/ \E id \in unconfirmed : issued[id] = m

\* The server keeps no message for ever, although acknowledgements are lost, parked and
\* given back, but those refused since the last loss, and those they take the places of
\* in the window from.
MessagesLeave ==
  \A m \in Messages :
    Kept(m) ~> \/ ~Kept(m) \/ m \in refused
               \/ Cardinality({id \in unconfirmed : issued[id] \in refused}) >= Window

\* A message that is not acknowledged when its connection is lost is delivered again,
\* unless it is acknowledged or the session lost before.
UnackedComeBack ==
  \A m \in Messages :
    ~up /\ (\E id \in unconfirmed : issued[id] = m)
      ~> \/ up /\ \E d \in stream : d.message = m /\ d.conn = losses
         \/ m \in confirmed \/ ~Kept(m)

\* A subscription has at most the window waiting for it.  No run checks it: it fails
\* once a session is resumed, see the README.
StreamBounded == Cardinality(stream) <= Window
=============================================================================
