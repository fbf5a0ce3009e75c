------------------------------ MODULE Session ------------------------------
(***************************************************************************)
(* A connection that is lost and recovered: the SUBACK records of the       *)
(* subscribes under way, the publishes the client has not seen confirmed,   *)
(* what the connection task parks over the gap, what a CONNACK brings back, *)
(* and the end of the task (conn.rs, with Reconnect::automatic and never of *)
(* reconnect.rs and the send path of publisher.rs).  What a custom          *)
(* reconnection does between a CONNACK and its return is Recovery.tla's.    *)
(*                                                                         *)
(* Deliveries are Connection.tla's subject and are left out: they change    *)
(* neither the records nor the requests.  The client's own state (what it   *)
(* keeps unconfirmed, its packet ids) and the server are the environment.   *)
(* The server reads what is written to it at once, or not at all once the   *)
(* connection is severed; its answers wait in `incoming`.                  *)
(***************************************************************************)
EXTENDS Registry

CONSTANTS
  Opens,        \* the calls to open, each made by a task of its own
  FilterOf,     \* FilterOf[o]: the wire filter o opens
  QosOf,        \* QosOf[o]: the quality of service o asks for
  Messages,     \* the publishes, each made once by a task of its own
  LevelOf,      \* LevelOf[m]: the quality of service of m, 1 or 2
  Capacity,     \* the client's request queue; 64 in the code
  Accepts,      \* what SUBACKs say
  Sessions,     \* what CONNACKs after a loss say of the session: a set of booleans
  Policies,     \* the reconnect modes: "automatic", "never", "custom"
  Attempts,     \* AutoReconnect::attempts, 0 for no limit
  MaxLosses,    \* bound: how often the connection is lost
  MaxCalls      \* bound: how many of the opens and publishes are made

ASSUME SessionAssumption ==
  /\ FilterOf \in [Opens -> Filters]
  /\ QosOf \in [Opens -> Qos]
  /\ LevelOf \in [Messages -> {1, 2}]
  /\ Capacity \in Nat \ {0}
  /\ Accepts \subseteq BOOLEAN
  /\ Sessions \subseteq BOOLEAN
  /\ Policies \subseteq {"automatic", "never", "custom"}
  /\ Attempts \in Nat /\ MaxLosses \in Nat /\ MaxCalls \in Nat

VARIABLES
  offered,      \* Shared::identifiers
  closed,       \* Shared::closed
  task,         \* where the connection task is, see Tasks
  policy,       \* Conn::policy
  failed,       \* the failed dials of this recovery
  pc,           \* pc[o]: how far the open o is
  member,       \* member[o]: Joined::member
  todo,         \* todo[o]: the requests of o not in the queue yet
  pending,      \* Shared::pending, the SUBACK records
  publishing,   \* publishing[m]: how far the publish of m is
  shutdown,     \* how far ConnectedMqttBroker::shutdown is
  channel,      \* the client's request queue
  setAside,     \* EventLoop::pending: what the client sends before the queue
  unconfirmed,  \* what the client wrote and has not seen confirmed
  lastPkid,     \* the client's counter of packet ids
  parked,       \* Conn::parked
  incoming,     \* the wire from the server
  severed,      \* nothing written reaches the server any more
  server,       \* server[f]: the identifier the session holds f with, or NotHeld
  unreleased,   \* the packet ids of the level 2 publishes the session waits to release
  received,     \* received[m]: how often the server was given m, for the properties
  renewed,      \* a new session has begun after a loss, for the properties
  losses        \* how often the connection was lost

openVars   == <<pc, member, todo>>
callerVars == <<openVars, publishing, shutdown>>
clientVars == <<channel, setAside, unconfirmed, lastPkid, parked>>
serverVars == <<server, unreleased, received>>
wireVars   == <<incoming, severed, serverVars, renewed>>
taskVars   == <<closed, task, policy, failed, losses>>
vars == <<registryVars, offered, callerVars, pending, clientVars, wireVars, taskVars>>

NoMember == -1
NoPkid   == 0
NotHeld  == -1

Tasks == {"up",        \* polling a connection
          "down",      \* in a recovery
          "restoring", \* in a custom recovery that is connected
          "ending",    \* in Shared::end, between the streams and the records
          "stopping",  \* out of the loop
          "exited",    \* has said so
          "gone"}      \* dropped, and the request queue with it

Exited == task \in {"exited", "gone"}
Gone   == closed \/ Exited

\* A connection is there to be polled.
Connected == task \in {"up", "restoring"}

\* Who waits for a SUBACK.
AwaitingOpen(o)        == [kind |-> "open", open |-> o, filter |-> FilterOf[o]]
AwaitingIdentify(f)    == [kind |-> "identify", filter |-> f]
AwaitingResubscribe(f) == [kind |-> "resubscribe", filter |-> f]

\* A record; `answers` is, for the properties only, whom the subscribe that got
\* the record's packet id was queued for.
Record(awaiting) == [awaiting |-> awaiting, pkid |-> NoPkid, answers |-> awaiting]

Subscribe(f, id, awaiting) ==
  [kind |-> "subscribe", filter |-> f, identifier |-> id, awaiting |-> awaiting]
Unsubscribe(f) == [kind |-> "unsubscribe", filter |-> f]
Publish(m)     == [kind |-> "publish", message |-> m, pkid |-> NoPkid]
Disconnect     == [kind |-> "disconnect"]

Room == task # "gone" /\ Len(channel) < Capacity

\* Bound: another call may be made.
CallsLeft ==
  Cardinality({o \in Opens : pc[o] # "idle"})
    + Cardinality({m \in Messages : publishing[m] # "idle"}) < MaxCalls

\* Mutation: the newest record is the first to get a packet id.
SendSubscribeFirst(request, awaiting) ==
  /\ Room
  /\ channel' = Append(channel, Subscribe(request.filter, request.identifier, awaiting))
  /\ pending' = <<Record(awaiting)>> \o pending

\* A subscribe and its record enter their queues under one guard.
SendSubscribe(request, awaiting) ==
  /\ Room
  /\ channel' = Append(channel, Subscribe(request.filter, request.identifier, awaiting))
  /\ pending' = Append(pending, Record(awaiting))

-----------------------------------------------------------------------------
(* Callers: open, the drop of a subscriber, publish, shutdown.             *)

OpenCheck(o) ==
  /\ pc[o] = "idle" /\ CallsLeft
  /\ pc' = [pc EXCEPT ![o] = IF closed THEN "failed" ELSE "joining"]
  /\ UNCHANGED <<registryVars, offered, member, todo, pending, publishing, shutdown,
                 clientVars, wireVars, taskVars>>

OpenJoin(o) ==
  /\ pc[o] = "joining"
  /\ IF Refused(FilterOf[o], offered)
     THEN /\ pc' = [pc EXCEPT ![o] = "failed"]
          /\ UNCHANGED <<registryVars, member, todo>>
     ELSE /\ Join(FilterOf[o], QosOf[o], offered)
          /\ pc' = [pc EXCEPT ![o] = "sending"]
          /\ member' = [member EXCEPT ![o] = nextMember]
          /\ todo' = [todo EXCEPT ![o] = JoinRequests(wires, wires', FilterOf[o], offered)]
  /\ UNCHANGED <<offered, pending, publishing, shutdown, clientVars, wireVars, taskVars>>

\* The next request goes out, is moot, or fails for good once the task is gone;
\* a full queue otherwise makes the open wait and try again.
OpenSend(o) ==
  /\ pc[o] = "sending"
  /\ LET request  == Head(todo[o])
         awaiting == IF request.refresh THEN AwaitingIdentify(request.filter)
                     ELSE AwaitingOpen(o)
         moot     == request.refresh /\ ~Holds(request.filter)
     IN \/ /\ moot
           /\ todo' = [todo EXCEPT ![o] = Tail(@)]
           /\ UNCHANGED <<registryVars, pc, channel, pending>>
        \/ /\ ~moot
           /\ SendSubscribe(request, awaiting)
           /\ todo' = [todo EXCEPT ![o] = Tail(@)]
           /\ pc' = IF request.refresh THEN pc ELSE [pc EXCEPT ![o] = "waiting"]
           /\ UNCHANGED registryVars
        \/ /\ ~moot /\ ~Room /\ Gone
           /\ Leave(member[o])
           /\ pc' = [pc EXCEPT ![o] = "failed"]
           /\ UNCHANGED <<todo, channel, pending>>
  /\ UNCHANGED <<offered, member, publishing, shutdown, setAside, unconfirmed, lastPkid,
                 parked, wireVars, taskVars>>

\* The subscriber is dropped: release, whose unsubscribe a full queue refuses.
Drop(o) ==
  /\ pc[o] = "open"
  /\ Leave(member[o])
  /\ pc' = [pc EXCEPT ![o] = "closed"]
  /\ channel' = IF TakenOff(member[o]) # {} /\ Room
                THEN Append(channel, Unsubscribe(FilterOf[o]))
                ELSE channel
  /\ UNCHANGED <<offered, member, todo, pending, publishing, shutdown, setAside,
                 unconfirmed, lastPkid, parked, wireVars, taskVars>>

\* send in publisher.rs: ensure_open, and then the queue once it has room.
PublishCheck(m) ==
  /\ publishing[m] = "idle" /\ CallsLeft
  /\ publishing' = [publishing EXCEPT ![m] = IF closed THEN "refused" ELSE "queuing"]
  /\ UNCHANGED <<registryVars, offered, openVars, pending, shutdown, clientVars,
                 wireVars, taskVars>>

PublishQueue(m) ==
  /\ publishing[m] = "queuing"
  /\ \/ /\ Room
        /\ channel' = Append(channel, Publish(m))
        /\ publishing' = [publishing EXCEPT ![m] = "accepted"]
     \/ /\ task = "gone"
        /\ publishing' = [publishing EXCEPT ![m] = "refused"]
        /\ UNCHANGED channel
  /\ UNCHANGED <<registryVars, offered, openVars, pending, shutdown, setAside,
                 unconfirmed, lastPkid, parked, wireVars, taskVars>>

\* shutdown takes one handle of the connection by value; others may still be opening.
Shutdown ==
  /\ shutdown = "no"
  /\ shutdown' = "queuing"
  /\ closed' = TRUE
  /\ UNCHANGED <<registryVars, offered, openVars, pending, publishing, clientVars,
                 wireVars, task, policy, failed, losses>>

ShutdownQueue ==
  /\ shutdown = "queuing"
  /\ \/ Room /\ channel' = Append(channel, Disconnect)
     \/ task = "gone" /\ UNCHANGED channel
  /\ shutdown' = "queued"
  /\ UNCHANGED <<registryVars, offered, openVars, pending, publishing, setAside,
                 unconfirmed, lastPkid, parked, wireVars, taskVars>>

-----------------------------------------------------------------------------
(* The task sends: the event loop writes the next request, first of what it *)
(* set aside, then of the queue, and the task handles the event it yields.  *)

Request == IF setAside # <<>> THEN Head(setAside) ELSE Head(channel)

Up(kind) == Connected /\ setAside \o channel # <<>> /\ Request.kind = kind

Dequeue ==
  IF setAside # <<>> THEN setAside' = Tail(setAside) /\ UNCHANGED channel
  ELSE channel' = Tail(channel) /\ UNCHANGED setAside

Answer(a) == incoming' = IF severed THEN incoming ELSE Append(incoming, a)

\* The first record without a packet id.
Oldest == CHOOSE i \in DOMAIN pending :
            /\ pending[i].pkid = NoPkid
            /\ \A j \in 1..(i - 1) : pending[j].pkid # NoPkid

\* The packet id of a subscribe goes to the oldest record without one.
WriteSubscribe ==
  /\ Up("subscribe")
  /\ Dequeue
  /\ lastPkid' = lastPkid + 1
  /\ pending' = IF \E i \in DOMAIN pending : pending[i].pkid = NoPkid
                THEN [pending EXCEPT ![Oldest] = [@ EXCEPT !.pkid = lastPkid + 1,
                                                           !.answers = Request.awaiting]]
                ELSE pending
  /\ \E accepted \in Accepts :
       /\ server' = IF severed \/ ~accepted THEN server
                    ELSE [server EXCEPT ![Request.filter] = Request.identifier]
       /\ Answer([kind |-> "suback", pkid |-> lastPkid + 1, accepted |-> accepted])
  /\ UNCHANGED <<registryVars, offered, callerVars, unconfirmed, parked, severed,
                 unreleased, received, renewed, taskVars>>

WriteUnsubscribe ==
  /\ Up("unsubscribe")
  /\ Dequeue
  /\ server' = IF severed THEN server ELSE [server EXCEPT ![Request.filter] = NotHeld]
  /\ UNCHANGED <<registryVars, offered, callerVars, pending, unconfirmed, lastPkid,
                 parked, incoming, severed, unreleased, received, renewed, taskVars>>

\* A publish keeps the packet id it has.  The server takes a level 2 publish it
\* was already given under that id for the same one.
WritePublish ==
  /\ Up("publish")
  /\ Dequeue
  /\ LET m    == Request.message
         pkid == IF Request.pkid = NoPkid THEN lastPkid + 1 ELSE Request.pkid
     IN /\ lastPkid' = IF Request.pkid = NoPkid THEN lastPkid + 1 ELSE lastPkid
        /\ unconfirmed' = Append(unconfirmed, [kind |-> "publish", message |-> m, pkid |-> pkid])
        /\ received' = IF severed \/ pkid \in unreleased THEN received
                       ELSE [received EXCEPT ![m] = @ + 1]
        /\ unreleased' = IF severed \/ LevelOf[m] = 1 THEN unreleased ELSE unreleased \cup {pkid}
        /\ Answer([kind |-> IF LevelOf[m] = 1 THEN "puback" ELSE "pubrec", pkid |-> pkid])
  /\ UNCHANGED <<registryVars, offered, callerVars, pending, parked, severed, server,
                 renewed, taskVars>>

ServerReleases(pkid) ==
  /\ unreleased' = IF severed THEN unreleased ELSE unreleased \ {pkid}
  /\ Answer([kind |-> "pubcomp", pkid |-> pkid])

WriteRelease ==
  /\ Up("release")
  /\ Dequeue
  /\ unconfirmed' = Append(unconfirmed, Request)
  /\ ServerReleases(Request.pkid)
  /\ UNCHANGED <<registryVars, offered, callerVars, pending, lastPkid, parked, severed,
                 server, received, renewed, taskVars>>

\* The DISCONNECT is on the wire: Flow::Stop.
WriteDisconnect ==
  /\ Up("disconnect")
  /\ Dequeue
  /\ task' = "stopping"
  /\ UNCHANGED <<registryVars, offered, callerVars, pending, unconfirmed, lastPkid,
                 parked, wireVars, closed, policy, failed, losses>>

-----------------------------------------------------------------------------
(* The task reads.                                                         *)

Reads(kinds) == Connected /\ incoming # <<>> /\ Head(incoming).kind \in kinds

\* The record of the SUBACK is taken out and its caller told.
ReceiveSuback ==
  /\ Reads({"suback"})
  /\ incoming' = Tail(incoming)
  /\ LET suback == Head(incoming)
         places == {i \in DOMAIN pending : pending[i].pkid = suback.pkid}
     IN IF places = {} THEN UNCHANGED <<registryVars, pc, pending>>
        ELSE LET i == CHOOSE i \in places : \A j \in places : i <= j
                 awaiting == pending[i].awaiting
             IN /\ pending' = Without(pending, i)
                /\ \/ /\ awaiting.kind = "open"
                      /\ pc' = [pc EXCEPT ![awaiting.open] =
                                  IF suback.accepted THEN "open" ELSE "failed"]
                      /\ IF suback.accepted THEN UNCHANGED registryVars
                         ELSE Leave(member[awaiting.open])
                   \/ /\ awaiting.kind = "identify"
                      /\ Identified(awaiting.filter, suback.accepted)
                      /\ UNCHANGED pc
                   \/ /\ awaiting.kind \in {"resubscribe", "restore"}
                      /\ UNCHANGED <<registryVars, pc>>
  /\ UNCHANGED <<offered, member, todo, publishing, shutdown, clientVars, severed,
                 serverVars, renewed, taskVars>>

\* The client, within one poll: a confirmed publish is let go of, one that was
\* received at level 2 is released at once.
ReceiveConfirmation ==
  /\ Reads({"puback", "pubrec", "pubcomp"})
  /\ LET answer == Head(incoming)
         Other(r) == r.pkid # answer.pkid
         others == Select(unconfirmed, Other)
     IN IF answer.kind = "pubrec"
        THEN /\ unconfirmed' = Append(others, [kind |-> "release", pkid |-> answer.pkid])
             /\ unreleased' = IF severed THEN unreleased ELSE unreleased \ {answer.pkid}
             /\ incoming' = IF severed THEN Tail(incoming)
                            ELSE Append(Tail(incoming), [kind |-> "pubcomp", pkid |-> answer.pkid])
        ELSE /\ unconfirmed' = others
             /\ incoming' = Tail(incoming)
             /\ UNCHANGED unreleased
  /\ UNCHANGED <<registryVars, offered, callerVars, pending, channel, setAside, lastPkid,
                 parked, severed, server, received, renewed, taskVars>>

-----------------------------------------------------------------------------
(* The connection is lost.                                                 *)

Sever ==
  /\ Connected /\ ~severed /\ losses < MaxLosses
  /\ severed' = TRUE
  /\ UNCHANGED <<registryVars, offered, callerVars, pending, clientVars, incoming,
                 serverVars, renewed, taskVars>>

\* Shared::end, first part: closed, and the streams ended.
GiveUp ==
  /\ End
  /\ closed' = TRUE
  /\ task' = "ending"

IsPublish(r) == r.kind = "publish"
IsRelease(r) == r.kind = "release"

\* What the client sets aside when a poll fails: the unconfirmed publishes, the
\* unconfirmed releases, the requests still queued.
LeftBehind ==
  setAside \o Select(unconfirmed, IsPublish) \o Select(unconfirmed, IsRelease) \o channel

\* Mutation: what the client set aside stays with the client, which clears it.
ParkNothing(left) == UNCHANGED parked /\ setAside' = left

Park(left) == parked' = parked \o left /\ setAside' = <<>>

\* A poll fails.  A closed broker stops; a reason no retry changes ends the
\* connection for good, and so does Reconnect::never; else it is recovered.
Lose ==
  /\ task = "up" /\ losses < MaxLosses
  /\ losses' = losses + 1
  /\ channel' = <<>> /\ unconfirmed' = <<>> /\ incoming' = <<>> /\ severed' = FALSE
  /\ \/ /\ closed
        /\ task' = "stopping"
        /\ setAside' = LeftBehind
        /\ UNCHANGED <<registryVars, closed, parked, failed>>
     \/ /\ ~closed
        /\ GiveUp
        /\ setAside' = LeftBehind
        /\ UNCHANGED <<parked, failed>>
     \/ /\ ~closed
        /\ Park(LeftBehind)
        /\ IF policy = "never" THEN GiveUp
           ELSE task' = "down" /\ UNCHANGED <<registryVars, closed>>
        /\ failed' = 0
  /\ UNCHANGED <<offered, callerVars, pending, lastPkid, serverVars, renewed, policy>>

\* A dial fails: once too often, or for a reason no retry changes, and the mode
\* gives up.  A custom one dials again as long as it likes, and learns of such a
\* reason before it learns that the broker is closed.
DialFails ==
  /\ task = "down"
  /\ IF closed
     THEN \/ task' = "stopping" /\ UNCHANGED <<registryVars, closed, failed>>
          \/ policy = "custom" /\ GiveUp /\ UNCHANGED failed
     ELSE \/ GiveUp /\ UNCHANGED failed
          \/ /\ policy = "automatic" /\ Attempts # 0
             /\ failed' = failed + 1
             /\ IF failed + 1 >= Attempts THEN GiveUp
                ELSE UNCHANGED <<registryVars, closed, task>>
  /\ UNCHANGED <<offered, callerVars, pending, clientVars, wireVars, policy, losses>>

\* A shutdown ends the recovery.
Closing ==
  /\ task \in {"down", "restoring"} /\ closed
  /\ task' = "stopping"
  /\ UNCHANGED <<registryVars, offered, callerVars, pending, clientVars, wireVars,
                 closed, policy, failed, losses>>

\* Mutation: what was parked stays parked.
UnparkNever(present) == UNCHANGED parked /\ setAside' = <<>>

\* Mutation: publishes go back as fresh ones in every session.
UnparkFresh(present) ==
  LET publishes == Select(parked, IsPublish)
  IN /\ parked' = <<>>
     /\ setAside' = [i \in DOMAIN publishes |-> [publishes[i] EXCEPT !.pkid = NoPkid]]

\* What was parked goes back to the client: all of it to a session the server
\* kept, to a new one only the publishes, as fresh ones.  What the client still
\* had set aside itself it clears when the session is new.
Unpark(present) ==
  LET publishes == Select(parked, IsPublish)
  IN /\ parked' = <<>>
     /\ setAside' = IF present THEN setAside \o parked
                    ELSE [i \in DOMAIN publishes |-> [publishes[i] EXCEPT !.pkid = NoPkid]]

\* Mutation: a new session is subscribed to nothing again.
ResubscribedNone(identifiers) == <<>>

\* The subscribes of a new session, in the order of the wires; a full queue
\* refuses the rest with a warning.
Resubscribed(identifiers) ==
  LET room == Capacity - Len(channel)
  IN [n \in 1..(IF Len(wires) <= room THEN Len(wires) ELSE room) |->
        Subscribe(wires[n].filter,
                  IF identifiers THEN wires[n].identifier ELSE NoIdentifier,
                  AwaitingResubscribe(wires[n].filter))]

\* A dial reaches its CONNACK.  Every filter of a session that was not kept is
\* subscribed again, after what the queue already holds; a custom mode subscribes
\* what it chooses itself.
Connack(present, identifiers) ==
  /\ task = "down" /\ present \in Sessions
  /\ task' = IF policy = "custom" THEN "restoring" ELSE "up"
  /\ offered' = identifiers
  /\ Unpark(present)
  /\ renewed' = (renewed \/ ~present)
  /\ IF present
     THEN UNCHANGED <<registryVars, channel, pending, server, unreleased>>
     ELSE /\ Resubscribing(identifiers)
          /\ LET again == IF policy = "custom" THEN <<>> ELSE Resubscribed(identifiers)
             IN /\ channel' = channel \o again
                /\ pending' = pending \o [n \in DOMAIN again |-> Record(again[n].awaiting)]
          /\ server' = [f \in Filters |-> NotHeld]
          /\ unreleased' = {}
  /\ UNCHANGED <<callerVars, unconfirmed, lastPkid, incoming, severed, received, closed,
                 policy, failed, losses>>

-----------------------------------------------------------------------------
(* The task ends.                                                          *)

\* Shared::end, second part: every subscribe waiting for its answer fails.
EndRecords ==
  /\ task = "ending"
  /\ task' = "stopping"
  /\ pending' = <<>>
  /\ pc' = [o \in Opens |->
              IF pc[o] = "waiting" /\ \E i \in DOMAIN pending : pending[i].awaiting = AwaitingOpen(o)
              THEN "failed" ELSE pc[o]]
  /\ UNCHANGED <<registryVars, offered, member, todo, publishing, shutdown, clientVars,
                 wireVars, closed, policy, failed, losses>>

\* The end of run: the flag and the wake-up, then the task's state is dropped.
Exit ==
  /\ task \in {"stopping", "exited"}
  /\ task' = IF task = "stopping" THEN "exited" ELSE "gone"
  /\ UNCHANGED <<registryVars, offered, callerVars, pending, clientVars, wireVars,
                 closed, policy, failed, losses>>

-----------------------------------------------------------------------------
\* After the first CONNACK, of a session that holds nothing.
Init ==
  /\ RegistryInit
  /\ offered \in Offers /\ policy \in Policies
  /\ closed = FALSE /\ task = "up" /\ failed = 0 /\ losses = 0
  /\ pc = [o \in Opens |-> "idle"]
  /\ member = [o \in Opens |-> NoMember]
  /\ todo = [o \in Opens |-> <<>>]
  /\ publishing = [m \in Messages |-> "idle"]
  /\ shutdown = "no"
  /\ pending = <<>> /\ channel = <<>> /\ setAside = <<>> /\ unconfirmed = <<>>
  /\ parked = <<>> /\ incoming = <<>>
  /\ lastPkid = 0
  /\ severed = FALSE /\ renewed = FALSE
  /\ server = [f \in Filters |-> NotHeld]
  /\ unreleased = {}
  /\ received = [m \in Messages |-> 0]

Write == \/ WriteSubscribe \/ WriteUnsubscribe \/ WritePublish \/ WriteRelease
         \/ WriteDisconnect

Next ==
  \/ \E o \in Opens : OpenCheck(o) \/ OpenJoin(o) \/ OpenSend(o) \/ Drop(o)
  \/ \E m \in Messages : PublishCheck(m) \/ PublishQueue(m)
  \/ Shutdown \/ ShutdownQueue
  \/ Write \/ ReceiveSuback \/ ReceiveConfirmation
  \/ Sever \/ Lose \/ DialFails \/ Closing
  \/ \E present \in BOOLEAN, identifiers \in Offers : Connack(present, identifiers)
  \/ EndRecords \/ Exit

Spec == Init /\ [][Next]_vars

\* The task polls without end, a connection nothing passes through any more is
\* noticed (the keep-alive), and a server that can be dialed again in the end is.
Fairness ==
  /\ WF_vars(Write) /\ WF_vars(ReceiveSuback) /\ WF_vars(ReceiveConfirmation)
  /\ WF_vars(severed /\ Lose)
  /\ WF_vars(\E present \in BOOLEAN, identifiers \in Offers : Connack(present, identifiers))

FairSpec == Spec /\ Fairness

-----------------------------------------------------------------------------
(* Properties.                                                             *)

Over == task \notin {"up", "down", "restoring"}

\* The client or the connection task still has to send m.
Kept(m) == \E i \in DOMAIN (setAside \o parked \o unconfirmed \o channel) :
             LET r == (setAside \o parked \o unconfirmed \o channel)[i]
             IN r.kind = "publish" /\ r.message = m

Status(m) ==
  CASE publishing[m] \in {"idle", "queuing"} -> "idle"
    [] publishing[m] = "refused"             -> "refused"
    [] publishing[m] = "accepted"            -> IF Kept(m) THEN "accepted" ELSE "confirmed"

Box == INSTANCE Outbox WITH status <- [m \in Messages |-> Status(m)], over <- Over

\* A publish that returned Ok is let go of only once the server has it, through
\* every loss, resumed session, new session and recovery that ends: the session
\* implements the outbox.
KeepsPublishes == Box!Spec

\* What was accepted is sent and confirmed in the end, unless the task ends.
PublishesArrive ==
  \A m \in Messages : publishing[m] = "accepted" ~> ~Kept(m) \/ Over

\* In a session the server never lost, a level 2 publish reaches it once: a
\* retransmission names the packet id it had.
ExactlyOnce ==
  ~renewed => \A m \in Messages : LevelOf[m] = 2 => received[m] <= 1

IsSubscribe(r) == r.kind = "subscribe"
Unnumbered(r)  == r.pkid = NoPkid

\* The records without a packet id are those of the subscribes not written yet,
\* in the same order, so each id goes to the record of the subscribe it was
\* given to.
RecordsMatch ==
  LET unsent  == Select(parked \o setAside \o channel, IsSubscribe)
      records == Select(pending, Unnumbered)
  IN /\ Len(unsent) = Len(records)
     /\ \A i \in DOMAIN records : records[i].awaiting = unsent[i].awaiting

\* They match through every loss, as long as the server keeps the session.
RecordsInOrder == ~renewed /\ ~Over => RecordsMatch

\* The answer to a subscribe of one filter never reaches the record, and so the
\* caller, of another: packet ids go to the records in the order both were queued.  No
\* run checks it: it fails, see the README.
SubacksReachTheirRecords ==
  \A i \in DOMAIN pending : pending[i].answers.filter = pending[i].awaiting.filter

\* Nothing is on its way between the client and the server.
Settled ==
  /\ task = "up" /\ ~severed
  /\ setAside \o channel = <<>> /\ incoming = <<>>

\* Every subscription that is open is on the server again after a recovery.
OpenFiltersHeld ==
  Settled => \A o \in Opens : pc[o] = "open" => server[FilterOf[o]] # NotHeld

\* So it is after the first loss: whatever was under way when the connection was
\* lost, and whether or not the server kept the session.
FirstLossRestored == losses <= 1 => OpenFiltersHeld

\* Once the task is gone no open waits for an answer: the end of the connection
\* failed every one still waiting.  No run checks it: it fails, see the README.
EndFailsEveryOpen == task = "gone" => \A o \in Opens : pc[o] # "waiting"
=============================================================================
