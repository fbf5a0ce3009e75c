------------------------------ MODULE Recovery ------------------------------
(***************************************************************************)
(* A custom reconnection (Recovery in reconnect.rs): what a Reconnector     *)
(* does between the CONNACK its dial reached and its return, on the session *)
(* of Session.tla.  The reconnector here decides about every subscription   *)
(* that is open: it restores it or ends it.  When a restore loses the       *)
(* connection again it dials again, or gives up; it may give up at any      *)
(* time.  Opens, drops and a shutdown go on meanwhile in tasks of their own.*)
(***************************************************************************)
EXTENDS Session

VARIABLES
  left,         \* the filters the reconnector has not decided about
  call,         \* the restore it is in, or NoCall
  matched       \* RecordsMatch held at every CONNACK, for the properties

recoveryVars == <<left, call, matched>>
allVars == <<vars, recoveryVars>>

NoCall == [phase |-> "none"]

\* A filter is restored once on a connection, so the loss tells restores apart.
AwaitingRestore(f) == [kind |-> "restore", filter |-> f, loss |-> losses]

\* Mutation: the last wire is left out.
SubscriptionsButLast == [n \in 1..(Len(wires) - 1) |-> wires[n].filter]

\* Recovery::subscriptions: the filters, in the order of the wires.
Subscriptions == [n \in DOMAIN wires |-> wires[n].filter]

\* The subscribe that puts a filter back as it was declared.
RestoreRequest(f) ==
  LET n == CHOOSE n \in DOMAIN wires : wires[n].filter = f
  IN [filter |-> f, identifier |-> IF offered THEN wires[n].identifier ELSE NoIdentifier]

\* Mutation: a restore waits for room in the queue without reading.
PollsOnlyWaiting == task = "restoring" => call.phase = "waiting"

\* A recovery polls within a restore only: while the request queue is full, and
\* while the answer is missing.
Polls ==
  task = "restoring" => \/ call.phase = "queuing" /\ ~Room
                        \/ call.phase = "waiting"

-----------------------------------------------------------------------------
(* The reconnector.                                                        *)

\* Recovery::connect, and what to do about the subscriptions.  Those of a
\* session the server kept may be left as they are.
Connect(present, identifiers) ==
  /\ Connack(present, identifiers)
  /\ policy = "custom"
  /\ call' = NoCall
  /\ left' \in {Subscriptions} \cup (IF present THEN {<<>>} ELSE {})
  /\ matched' = (matched /\ RecordsMatch')

\* Recovery::restore, up to its request: a filter nobody holds any more is left
\* alone.
Restore ==
  /\ task = "restoring" /\ call = NoCall /\ left # <<>>
  /\ IF Holds(Head(left))
     THEN /\ call' = [phase |-> "queuing", request |-> RestoreRequest(Head(left))]
          /\ UNCHANGED left
     ELSE left' = Tail(left) /\ UNCHANGED call
  /\ UNCHANGED <<vars, matched>>

\* The request enters the queue, once it has room.
RestoreQueue ==
  /\ task = "restoring" /\ call.phase = "queuing"
  /\ SendSubscribe(call.request, AwaitingRestore(call.request.filter))
  /\ call' = [call EXCEPT !.phase = "waiting"]
  /\ UNCHANGED <<registryVars, offered, callerVars, setAside, unconfirmed, lastPkid,
                 parked, wireVars, taskVars, left, matched>>

\* The poll of a restore reads the answer to it.
Outcome(i) ==
  IF pending[i].awaiting # AwaitingRestore(pending[i].awaiting.filter) THEN UNCHANGED <<left, call>>
  ELSE /\ call' = IF Head(incoming).accepted THEN NoCall ELSE [phase |-> "refused"]
       /\ left' = IF Head(incoming).accepted THEN Tail(left) ELSE left

RestoreSuback ==
  /\ Polls
  /\ ReceiveSuback
  /\ LET places == {i \in DOMAIN pending : pending[i].pkid = Head(incoming).pkid}
     IN IF places = {} THEN UNCHANGED <<left, call>>
        ELSE Outcome(CHOOSE i \in places : \A j \in places : i <= j)
  /\ UNCHANGED matched

\* Recovery::end: by choice, or because the server refused the filter.
EndSubscription ==
  /\ task = "restoring" /\ call.phase \in {"none", "refused"} /\ left # <<>>
  /\ IF Holds(Head(left)) THEN EndFilter(Head(left)) ELSE UNCHANGED registryVars
  /\ left' = Tail(left) /\ call' = NoCall
  /\ UNCHANGED <<offered, callerVars, pending, clientVars, wireVars, taskVars, matched>>

\* Every subscription is decided about: the mode resumes, unless the broker was
\* closed meanwhile.
Resume ==
  /\ task = "restoring" /\ call = NoCall /\ left = <<>>
  /\ task' = IF closed THEN "stopping" ELSE "up"
  /\ UNCHANGED <<registryVars, offered, callerVars, pending, clientVars, wireVars,
                 closed, policy, failed, losses, recoveryVars>>

\* The reconnector returns an error.
Surrender ==
  /\ task = "restoring" /\ call.phase \in {"none", "refused"}
  /\ IF closed THEN task' = "stopping" /\ UNCHANGED <<registryVars, closed>> ELSE GiveUp
  /\ call' = NoCall
  /\ UNCHANGED <<offered, callerVars, pending, clientVars, wireVars, policy, failed,
                 losses, left, matched>>

\* Some restore still waits for the answer to record r, or it is no restore's.
Awaited(r) == r.awaiting.kind = "restore" => r.awaiting.loss = losses

\* abandon_restores forgets the records of restores that have returned; the one
\* that calls it has not, and leaves its own behind.
AbandonRestores == pending' = Select(pending, Awaited)

\* A poll within a restore fails: for a reason no retry changes the mode gives
\* up, else the reconnector dials again, or gives up itself.
LoseAgain ==
  /\ task = "restoring" /\ Polls /\ losses < MaxLosses
  /\ losses' = losses + 1
  /\ channel' = <<>> /\ unconfirmed' = <<>> /\ incoming' = <<>> /\ severed' = FALSE
  /\ IF call.phase = "waiting" THEN AbandonRestores ELSE UNCHANGED pending
  /\ call' = NoCall
  /\ \/ GiveUp /\ setAside' = LeftBehind /\ UNCHANGED parked
     \/ /\ Park(LeftBehind)
        /\ \/ task' = "down" /\ UNCHANGED <<registryVars, closed>>
           \/ ~closed /\ GiveUp
  /\ UNCHANGED <<offered, callerVars, lastPkid, serverVars, renewed, policy, failed, left,
                 matched>>

-----------------------------------------------------------------------------
RecoveryInit == Init /\ left = <<>> /\ call = NoCall /\ matched = TRUE

Callers ==
  \/ \E o \in Opens : OpenCheck(o) \/ OpenJoin(o) \/ OpenSend(o) \/ Drop(o)
  \/ \E m \in Messages : PublishCheck(m) \/ PublishQueue(m)
  \/ Shutdown \/ ShutdownQueue

\* Bound: after the first loss, a connection is lost within a recovery only.
MayLose == losses = 0 \/ task = "restoring"

Reconnects == \E present \in BOOLEAN, identifiers \in Offers : Connect(present, identifiers)

RecoveryNext ==
  \/ (Callers \/ DialFails \/ Closing \/ EndRecords \/ Exit) /\ UNCHANGED recoveryVars
  \/ (Sever \/ Lose) /\ MayLose /\ UNCHANGED recoveryVars
  \/ (Write \/ ReceiveConfirmation) /\ Polls /\ UNCHANGED recoveryVars
  \/ RestoreSuback
  \/ Reconnects
  \/ Restore \/ RestoreQueue \/ EndSubscription \/ Resume \/ Surrender \/ LoseAgain

RecoverySpec == RecoveryInit /\ [][RecoveryNext]_allVars

\* Beside Session's: the reconnector goes on, and one that dials again and again
\* reaches the server in the end.
RecoveryFairness ==
  /\ WF_allVars((Write \/ ReceiveConfirmation) /\ Polls /\ UNCHANGED recoveryVars)
  /\ WF_allVars(RestoreSuback)
  /\ WF_allVars(severed /\ (LoseAgain \/ (Lose /\ UNCHANGED recoveryVars)))
  /\ WF_allVars(Reconnects)
  /\ WF_allVars(Restore \/ RestoreQueue \/ Resume)
  /\ WF_allVars(call.phase = "refused" /\ (EndSubscription \/ Surrender))

FairRecoverySpec == RecoverySpec /\ RecoveryFairness

-----------------------------------------------------------------------------
(* Properties.                                                             *)

\* A recovery ends as long as no CONNACK found a record whose subscribe is gone:
\* whatever is opened, dropped or refused meanwhile, and through a request queue
\* that is full, its restores are answered, and the connection task reads on.
RecoveriesEnd == task = "restoring" /\ matched ~> task # "restoring"

\* The subscription of o has not been ended: its member is in the registry.
Lives(o) == \E n \in DOMAIN wires : \E i \in DOMAIN wires[n].members : Seat(member[o], n, i)

\* Whenever the task polls, up to the recovery from the first loss and after it, every
\* subscription the recovery did not end is on the server.
FirstRecoveryRestores ==
  task = "up" /\ losses <= 1 /\ matched =>
    \A o \in Opens : pc[o] = "open" /\ Lives(o) => server[FilterOf[o]] # NotHeld

\* A packet id never goes to the record of a restore that is over, unless its own
\* subscribe got it.  No run checks it: it fails, see the README.
NoStaleRestore ==
  \A i \in DOMAIN pending :
    Awaited(pending[i]) \/ pending[i].pkid = NoPkid \/ pending[i].answers = pending[i].awaiting
=============================================================================
