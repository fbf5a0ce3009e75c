--------------------------- MODULE RecoveryProofs ---------------------------
(***************************************************************************)
(* What a custom reconnection promises of the subscriptions, for every     *)
(* number of opens, every server and every choice of the reconnector:      *)
(* whoever is subscribed is on the server, or among the filters that are   *)
(* still to be decided about.                                              *)
(***************************************************************************)
EXTENDS Recovery, SessionProofs

\* The first loss and the recovery from it, by a CONNACK that found the records in order,
\* with the task at work.
Live == losses <= 1 /\ matched /\ ~Over

\* The call under way is about the first filter that is not decided about.
Calling ==
  \/ call = NoCall
  \/ /\ task = "restoring" /\ left # <<>>
     /\ call.phase \in {"queuing", "waiting"} =>
          /\ call = [phase |-> call.phase, request |-> call.request]
          /\ call.request.filter = Head(left) /\ call.request.identifier \in Nat

\* How far the recovery is.
Stage ==
  /\ losses = 0 => task = "up"
  /\ task = "down" => incoming = <<>>
  /\ Vector(left) /\ Elements(left) \subseteq Filters
  /\ task # "restoring" => left = <<>>
  /\ Calling

\* The member of an open is none of another's, has been handed out, and sits, if it does,
\* on the filter that was opened.
Seats ==
  /\ \A o \in Opens : Joined(o) =>
       /\ member[o] < nextMember
       /\ \A n \in DOMAIN wires : \A i \in DOMAIN wires[n].members :
            Seat(member[o], n, i) => wires[n].filter = FilterOf[o]
  /\ \A o, x \in Opens : Joined(o) /\ Joined(x) /\ member[o] = member[x] => o = x

\* Who waits for an answer that one record only is there for.
Single == {"open", "restore"}

\* The restore of the first filter that is not decided about is under way.
Restoring(awaiting) == call.phase = "waiting" /\ awaiting = AwaitingRestore(Head(left))

\* A record awaits an open that waits, or the restore that does.
Recording ==
  /\ \A r \in Elements(pending) :
       /\ r.awaiting \in Waiters /\ r.pkid \in 0..lastPkid
       /\ r.awaiting.kind = "open" => pc[r.awaiting.open] = "waiting"
       /\ r.awaiting.kind = "restore" => Restoring(r.awaiting)
  /\ \A i, j \in DOMAIN pending :
       pending[i].awaiting = pending[j].awaiting /\ pending[i].awaiting.kind \in Single => i = j

\* A SUBACK names a packet id that was given out.
Answering ==
  \A a \in Elements(incoming) : a.kind = "suback" => a.pkid \in 1..lastPkid /\ a.accepted \in BOOLEAN

\* Whoever is subscribed, or waits to be.
Subscribed(o) == pc[o] = "open" /\ Lives(o)
Entering(o)   == pc[o] = "waiting" /\ Lives(o)

\* What takes a filter off the server goes out before an open subscribes to it again.
Entered ==
  \A o \in Opens : Entering(o) =>
    \A i, j \in DOMAIN Asked :
      /\ Asked[i] = Unsubscribe(FilterOf[o])
      /\ Asked[j].kind = "subscribe" /\ Asked[j].awaiting = AwaitingOpen(o)
      => i < j

\* The answer to r is on its way, and says yes.
Accepted(r) == \E a \in Elements(incoming) : a.kind = "suback" /\ a.accepted /\ a.pkid = r.pkid

\* An open that is granted is on the server to stay.
OpensGranted ==
  \A r \in Elements(pending) : r.awaiting.kind = "open" /\ Accepted(r) /\ Lives(r.awaiting.open)
    => Firm(r.awaiting.filter)

\* A restore that is granted is of a filter the server has, if anyone is subscribed to it.
RestoresGranted ==
  \A r \in Elements(pending) : r.awaiting.kind = "restore" /\ Accepted(r) =>
    \A o \in Opens : Subscribed(o) /\ FilterOf[o] = r.awaiting.filter
      => server[FilterOf[o]] # NotHeld

\* A filter with a subscription is on the server or still to be decided about, and nothing
\* that is still to be written takes it off.
Standing(f) ==
  /\ Unsubscribe(f) \notin Elements(Asked)
  /\ server[f] # NotHeld \/ f \in Elements(left)

Upholding == \A o \in Opens : Subscribed(o) => Standing(FilterOf[o])

Holding ==
  Worded /\ Recording /\ Answering /\ Entered /\ OpensGranted /\ RestoresGranted /\ Upholding

\* The table, who sits at it, and the calls.
Table == CallersTyped /\ Structure /\ Seats /\ Queueing

\* What holds while the recovery from the first loss may still come out well.
Recovering == SInv /\ InStep(TRUE) /\ Stage /\ Table /\ Holding

\* The inductive invariant.
VInv == losses \in Nat /\ (Live => Recovering)

-----------------------------------------------------------------------------
(* The table, who sits at it, and the calls.                               *)

\* No open that is under way or done sits where it did not sit before.
Staying == \A o \in Opens : Joined(o) /\ Joined(o)' /\ Lives(o)' => Lives(o)

\* The opens that stay joined keep their members, on the filters they are on.
LEMMA SeatsStay ==
  ASSUME Seats, nextMember' = nextMember, \A m : Backed(m),
         \A o \in Opens : Joined(o)' => Joined(o) /\ member'[o] = member[o]
  PROVE  Seats' /\ Staying
<1>1. ASSUME NEW o \in Opens, Joined(o)'
      PROVE  /\ member'[o] < nextMember'
             /\ \A n \in DOMAIN wires' : \A i \in DOMAIN wires'[n].members :
                  wires'[n].members[i].id = member'[o] => wires'[n].filter = FilterOf[o]
             /\ Lives(o)' => Lives(o)
  <2>1. Joined(o) /\ member'[o] = member[o] /\ Backed(member[o])
    BY <1>1
  <2> QED BY <2>1 DEF Backed, Seats, Lives, Seat
<1>2. \A o, x \in Opens : Joined(o)' /\ Joined(x)' /\ member'[o] = member'[x] => o = x
  BY DEF Seats
<1> QED BY <1>1, <1>2 DEF Seats, Staying, Seat

\* The registry's methods that take nobody in.
Parts ==
  \/ UNCHANGED registryVars
  \/ Retelling
  \/ \E m : Leave(m)
  \/ \E f : EndFilter(f)

LEMMA PartsStructure ==
  ASSUME Structure, Parts
  PROVE  Structure' /\ nextMember' = nextMember /\ \A m : Backed(m)
<1>1. \A m : Backed(m)
  BY BackedOtherwise DEF Parts
<1>2. CASE UNCHANGED registryVars
  <2>1. Structure'
    BY <1>2, StructureStep
  <2> QED BY <1>1, <1>2, <2>1 DEF registryVars
<1>3. CASE Retelling
  <2>1. Structure'
    BY <1>3, RetellingStructure
  <2>2. nextMember' = nextMember
    BY <1>3, RetellingProperties DEF Structure
  <2> QED BY <1>1, <2>1, <2>2
<1>4. ASSUME NEW m, Leave(m) PROVE Structure' /\ nextMember' = nextMember
  BY <1>4, LeaveStructure DEF Leave
<1>5. ASSUME NEW f, EndFilter(f) PROVE Structure' /\ nextMember' = nextMember
  BY <1>5, RemovalStructure DEF EndFilter, Removal
<1> QED BY <1>1, <1>2, <1>3, <1>4, <1>5 DEF Parts

\* A step of an open that takes nobody in, or of anything else.
LEMMA TableKept ==
  ASSUME Table, CallersTyped', Parts, UNCHANGED <<member, todo>>,
         \A o \in Opens : /\ Joined(o)' => Joined(o)
                          /\ pc'[o] = "sending" => pc[o] = "sending"
  PROVE  Table' /\ Staying
<1>1. Structure' /\ nextMember' = nextMember /\ \A m : Backed(m)
  BY PartsStructure DEF Table
<1>2. Seats' /\ Staying
  BY <1>1, SeatsStay DEF Table
<1>3. Queueing'
  BY QueueingKept DEF Table
<1> QED BY <1>1, <1>2, <1>3 DEF Table

\* An open that joins gets a member of its own, on its filter.
LEMMA TableTakesIn ==
  ASSUME Table, CallersTyped', NEW o \in Opens, OpenJoin(o)
  PROVE  Table' /\ Staying
<1>1. Structure' /\ Queueing'
  BY QueueingJoined DEF Table
<1>2. CASE Refused(FilterOf[o], offered)
  <2>1. UNCHANGED <<registryVars, member, todo>> /\ pc' = [pc EXCEPT ![o] = "failed"]
    BY <1>2 DEF OpenJoin
  <2>2. \A p \in Opens : pc'[p] = IF p = o THEN "failed" ELSE pc[p]
    BY <2>1 DEF Table, CallersTyped
  <2> QED BY <2>1, <2>2, TableKept DEF Joined, Parts
<1>3. CASE ~Refused(FilterOf[o], offered)
  <2>1. /\ Join(FilterOf[o], QosOf[o], offered) /\ pc' = [pc EXCEPT ![o] = "sending"]
        /\ member' = [member EXCEPT ![o] = nextMember] /\ pc[o] = "joining"
    BY <1>3 DEF OpenJoin
  <2>2. PICK f \in Filters, q \in Qos, offers \in BOOLEAN :
          f = FilterOf[o] /\ q = QosOf[o] /\ offers = offered
    BY SessionAssumption DEF Table, CallersTyped
  <2>3. Join(f, q, offers)
    BY <2>1, <2>2
  <2>4. /\ \A m : m # nextMember => Backed(m)
        /\ \A m : m = nextMember => SitsOn(m, f, q)'
    BY <2>3, BackedJoined, SitsOnJoined DEF Table
  <2>5. nextMember \in Nat /\ nextMember' = nextMember + 1
    BY <2>1 DEF Join, Table, Structure, RegistryTypeOK
  <2>6. /\ \A p \in Opens : pc'[p] = IF p = o THEN "sending" ELSE pc[p]
        /\ \A p \in Opens : member'[p] = IF p = o THEN nextMember ELSE member[p]
        /\ \A p \in Opens : member[p] \in Int
    BY <2>1 DEF Table, CallersTyped
  <2>7. \A p \in Opens : p # o /\ Joined(p)' => Joined(p) /\ member[p] < nextMember
    BY <2>6 DEF Joined, Table, Seats
  <2>8. ASSUME NEW p \in Opens, Joined(p)', p # o
        PROVE  /\ member'[p] < nextMember'
               /\ \A n \in DOMAIN wires' : \A i \in DOMAIN wires'[n].members :
                    wires'[n].members[i].id = member'[p] => wires'[n].filter = FilterOf[p]
               /\ Lives(p)' => Lives(p)
    <3>1. Joined(p) /\ member'[p] = member[p] /\ member[p] < nextMember
      BY <2>6, <2>7, <2>8
    <3>2. Backed(member[p]) /\ member'[p] < nextMember'
      BY <2>4, <2>5, <2>6, <3>1
    <3> QED BY <3>1, <3>2 DEF Backed, Table, Seats, Lives, Seat
  <2>9. /\ member'[o] < nextMember'
        /\ \A n \in DOMAIN wires' : \A i \in DOMAIN wires'[n].members :
             wires'[n].members[i].id = member'[o] => wires'[n].filter = FilterOf[o]
    <3>1. member'[o] = nextMember /\ member'[o] < nextMember'
      BY <2>5, <2>6
    <3>2. PICK k : k = nextMember
      OBVIOUS
    <3>3. SitsOn(k, f, q)'
      BY <2>4, <3>2
    <3> QED BY <1>1, <2>2, <3>1, <3>2, <3>3 DEF SitsOn, Seat, Structure, OneSeatPerMember
  <2>10. \A p, x \in Opens : Joined(p)' /\ Joined(x)' /\ member'[p] = member'[x] => p = x
    <3>1. \A p \in Opens : p # o /\ Joined(p)' => member'[p] # nextMember
      BY <2>5, <2>6, <2>7
    <3> QED BY <2>6, <2>7, <3>1 DEF Table, Seats
  <2>11. Seats'
    BY <2>8, <2>9, <2>10 DEF Seats, Seat
  <2>12. ~Joined(o)
    BY <2>1 DEF Joined
  <2> QED BY <1>1, <2>8, <2>11, <2>12 DEF Staying, Table
<1> QED BY <1>2, <1>3

\* The steps of the callers, and the task's while the connection goes on, but for the
\* reading of a SUBACK.
Calls ==
  \/ \E o \in Opens : OpenCheck(o) \/ OpenJoin(o) \/ OpenSend(o) \/ Drop(o)
  \/ \E m \in Messages : PublishCheck(m) \/ PublishQueue(m)
  \/ Shutdown \/ ShutdownQueue
Goings    == Write \/ ReceiveConfirmation \/ Sever \/ Lose \/ DialFails \/ UNCHANGED vars
Elsewhere == Goings \/ \E present \in BOOLEAN, identifiers \in Offers : Connack(present, identifiers)

\* Who sits where changes with an open, a drop and a new session's CONNACK.
LEMMA TableMoves ==
  ASSUME Table, ~Over', Calls \/ Elsewhere
  PROVE  Table' /\ Staying
<1>1. [Next]_vars
  BY DEF Calls, Goings, Elsewhere, Next
<1>2. CallersTyped' /\ ~Over
  BY <1>1, OverStays, CallersStep DEF Table
<1>3. ASSUME NEW o \in Opens, OpenCheck(o) PROVE Table' /\ Staying
  <2>1. /\ UNCHANGED <<registryVars, member, todo>> /\ pc[o] = "idle"
        /\ \E s \in {"failed", "joining"} : pc' = [pc EXCEPT ![o] = s]
    BY <1>3 DEF OpenCheck
  <2>2. PICK s \in {"failed", "joining"} : \A p \in Opens : pc'[p] = IF p = o THEN s ELSE pc[p]
    BY <2>1 DEF Table, CallersTyped
  <2>3. \A p \in Opens : (Joined(p)' => Joined(p)) /\ (pc'[p] = "sending" => pc[p] = "sending")
    BY <2>2 DEF Joined
  <2> QED BY <1>2, <2>1, <2>3, TableKept DEF Parts
<1>4. ASSUME NEW o \in Opens, OpenJoin(o) PROVE Table' /\ Staying
  BY <1>2, <1>4, TableTakesIn
<1>5. ASSUME NEW o \in Opens, OpenSend(o) PROVE Table' /\ Staying
  <2>1. CASE GivesUp(o)
    <3>1. \A p \in Opens : pc'[p] = IF p = o THEN "failed" ELSE pc[p]
      BY <2>1 DEF GivesUp, Table, CallersTyped
    <3>2. \A p \in Opens : (Joined(p)' => Joined(p)) /\ (pc'[p] = "sending" => pc[p] = "sending")
      BY <3>1 DEF Joined
    <3> QED BY <1>2, <2>1, <3>2, TableKept DEF GivesUp, Parts
  <2>2. CASE ~GivesUp(o)
    <3>1. /\ Structure' /\ Queueing' /\ UNCHANGED <<registryVars, member>>
          /\ \A p \in Opens : Joined(p)' => Joined(p)
      BY <1>5, <2>2, QueueingSent DEF Table
    <3>2. \A m : Backed(m)
      BY <3>1, BackedOtherwise DEF Table
    <3>3. Seats' /\ Staying
      BY <3>1, <3>2, SeatsStay DEF Table, registryVars
    <3> QED BY <1>2, <3>1, <3>3 DEF Table
  <2> QED BY <2>1, <2>2
<1>6. ASSUME NEW o \in Opens, Drop(o) PROVE Table' /\ Staying
  <2>1. /\ Leave(member[o]) /\ UNCHANGED <<member, todo>> /\ pc' = [pc EXCEPT ![o] = "closed"]
    BY <1>6 DEF Drop
  <2>2. \A p \in Opens : pc'[p] = IF p = o THEN "closed" ELSE pc[p]
    BY <2>1 DEF Table, CallersTyped
  <2>3. \A p \in Opens : (Joined(p)' => Joined(p)) /\ (pc'[p] = "sending" => pc[p] = "sending")
    BY <2>2 DEF Joined
  <2> QED BY <1>2, <2>1, <2>3, TableKept DEF Parts
<1>7. ASSUME NEW present \in BOOLEAN, NEW identifiers \in Offers, Connack(present, identifiers)
      PROVE  Table' /\ Staying
  <2>1. /\ UNCHANGED <<member, todo, pc>>
        /\ UNCHANGED registryVars \/ Resubscribing(identifiers)
    BY <1>7 DEF Connack, callerVars, openVars
  <2>2. Parts
    BY <2>1, RegistryAssumption DEF Parts, Retelling
  <2> QED BY <1>2, <2>1, <2>2, TableKept DEF Joined
<1>8. CASE Write \/ ReceiveConfirmation \/ Sever \/ Lose \/ DialFails \/ UNCHANGED vars
  <2>1. UNCHANGED <<registryVars, member, todo, pc>>
    <3>1. CASE Lose \/ DialFails
      BY <3>1 DEF Lose, DialFails, GiveUp, Over, callerVars, openVars
    <3>2. CASE Write
      BY <3>2 DEF Write, WriteSubscribe, WriteUnsubscribe, WritePublish, WriteRelease,
                  WriteDisconnect, callerVars, openVars
    <3>3. CASE ReceiveConfirmation \/ Sever \/ UNCHANGED vars
      BY <3>3 DEF ReceiveConfirmation, Sever, vars, callerVars, openVars
    <3> QED BY <1>8, <3>1, <3>2, <3>3
  <2> QED BY <1>2, <2>1, TableKept DEF Joined, Parts
<1>9. CASE (\E m \in Messages : PublishCheck(m) \/ PublishQueue(m)) \/ Shutdown \/ ShutdownQueue
  <2>1. UNCHANGED <<registryVars, member, todo, pc>>
    BY <1>9 DEF PublishCheck, PublishQueue, Shutdown, ShutdownQueue, callerVars, openVars
  <2> QED BY <1>2, <2>1, TableKept DEF Joined, Parts
<1> QED BY <1>3, <1>4, <1>5, <1>6, <1>7, <1>8, <1>9 DEF Calls, Goings, Elsewhere

-----------------------------------------------------------------------------
(* The steps that leave the subscriptions as they are.                     *)

\* What is asked of the server stays, and no answer, wait or subscription is new.
Placid ==
  /\ UNCHANGED <<pending, server>> /\ Asked' = Asked
  /\ \A r \in Elements(Ahead') : IsDemand(r) => r \in Elements(Ahead)
  /\ \A a \in Elements(incoming') : a.kind = "suback" => a \in Elements(incoming)
  /\ lastPkid \in Nat /\ lastPkid' \in Nat /\ lastPkid' >= lastPkid
  /\ \A o \in Opens : /\ pc'[o] = "waiting" <=> pc[o] = "waiting"
                      /\ pc'[o] = "open" => pc[o] = "open"

LEMMA CalmPlacid == Calm => Placid
BY DEF Calm, Placid

\* The reconnector's decision takes nothing from those that are subscribed, and a restore
\* under way stays so.
Leaving ==
  /\ \A r \in Elements(pending) : r.awaiting.kind = "restore" => Restoring(r.awaiting)'
  /\ \A o \in Opens : Subscribed(o)' /\ FilterOf[o] \in Elements(left)
                        => server'[FilterOf[o]] # NotHeld \/ FilterOf[o] \in Elements(left')

LEMMA HoldingKept ==
  ASSUME Holding, Placid, Staying, Leaving
  PROVE  Holding'
<1>1. /\ Elements(Ahead)' = Elements(Ahead') /\ Elements(incoming)' = Elements(incoming')
      /\ Elements(pending)' = Elements(pending) /\ Elements(Asked)' = Elements(Asked)
      /\ Elements(left)' = Elements(left')
  BY DEF Elements, Placid
<1>2. \A o \in Opens : /\ Entering(o)' => Entering(o)
                       /\ Subscribed(o)' => Subscribed(o)
  BY DEF Entering, Subscribed, Staying, Joined, Placid
<1>3. \A r : Accepted(r)' => Accepted(r)
  BY <1>1 DEF Accepted, Placid
<1>4. Worded'
  BY <1>1 DEF Holding, Placid, Worded, IsDemand
<1>5. Recording'
  <2>1. ASSUME NEW r \in Elements(pending)
        PROVE  /\ r.awaiting \in Waiters /\ r.pkid \in 0..lastPkid'
               /\ r.awaiting.kind = "open" => pc'[r.awaiting.open] = "waiting"
               /\ r.awaiting.kind = "restore" => Restoring(r.awaiting)'
    <3>1. /\ r.awaiting \in Waiters /\ r.pkid \in 0..lastPkid
          /\ r.awaiting.kind = "open" => pc[r.awaiting.open] = "waiting"
      BY DEF Holding, Recording
    <3>2. r.awaiting.kind = "open" => r.awaiting.open \in Opens
      BY <3>1, WaitersKinds
    <3>3. r.pkid \in 0..lastPkid'
      BY <3>1 DEF Placid
    <3> QED BY <3>1, <3>2, <3>3 DEF Placid, Leaving
  <2>2. pending' = pending
    BY DEF Placid
  <2> QED BY <1>1, <2>1, <2>2 DEF Holding, Recording, Waiters
<1>6. Answering'
  <2>1. \A k \in 1..lastPkid : k \in 1..lastPkid'
    BY DEF Placid
  <2> QED BY <1>1, <2>1 DEF Holding, Answering, Placid
<1>7. Entered'
  BY <1>2 DEF Holding, Entered, Placid
<1>8. \A f : Firm(f)' = Firm(f)
  BY <1>1 DEF Firm, Placid
<1>9. OpensGranted'
  <2> SUFFICES ASSUME NEW r \in Elements(pending), r.awaiting.kind = "open", Accepted(r)',
                      Lives(r.awaiting.open)'
               PROVE  Firm(r.awaiting.filter)'
    BY <1>1 DEF OpensGranted
  <2>1. /\ r.awaiting \in Waiters /\ pc[r.awaiting.open] = "waiting"
    BY DEF Holding, Recording
  <2>2. PICK o \in Opens : o = r.awaiting.open
    BY <2>1, WaitersKinds
  <2>3. Lives(o)'
    BY <2>2
  <2>4. Lives(o)
    BY <2>1, <2>2, <2>3 DEF Staying, Joined, Placid
  <2>5. Firm(r.awaiting.filter)
    BY <1>3, <2>2, <2>4 DEF Holding, OpensGranted
  <2> QED BY <1>8, <2>5
<1>10. RestoresGranted'
  <2>1. \A r \in Elements(pending) : r.awaiting.kind = "restore" /\ Accepted(r)' =>
          \A o \in Opens : Subscribed(o)' /\ FilterOf[o] = r.awaiting.filter
            => server'[FilterOf[o]] # NotHeld
    BY <1>2, <1>3 DEF Holding, RestoresGranted, Placid
  <2> QED BY <1>1, <2>1 DEF RestoresGranted
<1>11. Upholding'
  <2>1. \A o \in Opens : Subscribed(o)' =>
          /\ Unsubscribe(FilterOf[o]) \notin Elements(Asked)
          /\ server'[FilterOf[o]] # NotHeld \/ FilterOf[o] \in Elements(left')
    BY <1>2 DEF Holding, Upholding, Standing, Placid, Leaving
  <2> QED BY <1>1, <2>1 DEF Upholding, Standing
<1> QED BY <1>4, <1>5, <1>6, <1>7, <1>9, <1>10, <1>11 DEF Holding

\* Steps of the session leave the reconnector's part alone.
LEMMA LeavingSame ==
  ASSUME Holding, UNCHANGED recoveryVars, losses' = losses \/ task = "up", Stage, Placid
  PROVE  Leaving
<1>1. ASSUME NEW r \in Elements(pending), r.awaiting.kind = "restore" PROVE Restoring(r.awaiting)'
  <2>1. Restoring(r.awaiting)
    BY <1>1 DEF Holding, Recording
  <2>2. task = "restoring"
    BY <2>1 DEF Restoring, Stage, Calling, NoCall
  <2> QED BY <2>1, <2>2 DEF Restoring, AwaitingRestore, recoveryVars
<1>2. left' = left
  BY DEF recoveryVars
<1> QED BY <1>1, <1>2 DEF Leaving

\* The steps of callers, and of the task, that no subscription depends on.
LEMMA HoldingCalm ==
  ASSUME SInv, SInv', Stage, Holding, CallersTyped, Staying, UNCHANGED recoveryVars,
         \/ \E o \in Opens : OpenCheck(o) \/ OpenJoin(o)
         \/ \E m \in Messages : PublishCheck(m) \/ PublishQueue(m)
         \/ Shutdown \/ ShutdownQueue \/ Sever \/ DialFails
         \/ WritePublish \/ WriteRelease \/ ReceiveConfirmation
  PROVE  Holding'
<1>1. ASSUME Calm, losses' = losses PROVE Holding'
  BY <1>1, CalmPlacid, LeavingSame, HoldingKept
<1>2. ASSUME NEW o \in Opens, OpenCheck(o) \/ OpenJoin(o) PROVE Holding'
  <2>1. /\ UNCHANGED <<pending, parked, setAside, channel, incoming, lastPkid, renewed, server,
                       losses, severed>>
        /\ \E s \in {"failed", "joining", "sending"} : pc' = [pc EXCEPT ![o] = s]
        /\ pc[o] \in {"idle", "joining"}
    BY <1>2 DEF OpenCheck, OpenJoin, clientVars, wireVars, serverVars, taskVars
  <2>2. \A p \in Opens : /\ pc'[p] = "waiting" <=> pc[p] = "waiting"
                         /\ pc'[p] = "open" => pc[p] = "open"
    BY <2>1 DEF CallersTyped
  <2> QED BY <1>1, <2>1, <2>2, CalmSteady
<1>3. ASSUME \/ \E m \in Messages : PublishCheck(m)
             \/ Shutdown \/ Sever \/ DialFails
      PROVE  Holding'
  <2>1. /\ UNCHANGED <<pc, pending, parked, setAside, channel, incoming, lastPkid, renewed, server,
                       losses>>
        /\ severed => severed'
    BY <1>3 DEF PublishCheck, Shutdown, Sever, DialFails, callerVars, openVars, clientVars,
                wireVars, serverVars, taskVars
  <2> QED BY <1>1, <2>1, CalmSteady
<1>4. ASSUME (\E m \in Messages : PublishQueue(m)) \/ ShutdownQueue PROVE Holding'
  <2>1. channel' = channel \/ \E x : ~IsDemand(x) /\ channel' = Append(channel, x)
    <3>1. \A m \in Messages : ~IsDemand(Publish(m))
      BY DEF IsDemand, Publish
    <3>2. ~IsDemand(Disconnect)
      BY DEF IsDemand, Disconnect
    <3> QED BY <1>4, <3>1, <3>2 DEF PublishQueue, ShutdownQueue
  <2>2. UNCHANGED <<pc, pending, parked, setAside, incoming, lastPkid, renewed, server, losses,
                    severed>>
    BY <1>4 DEF PublishQueue, ShutdownQueue, openVars, wireVars, serverVars, taskVars
  <2>3. CASE channel' = channel
    BY <1>1, <2>2, <2>3, CalmSteady
  <2>4. ASSUME NEW x, ~IsDemand(x), channel' = Append(channel, x) PROVE Holding'
    BY <1>1, <2>2, <2>4, CalmQueued
  <2> QED BY <2>1, <2>3, <2>4
<1>5. CASE WritePublish \/ WriteRelease \/ ReceiveConfirmation
  <2>1. losses' = losses
    BY <1>5 DEF WritePublish, WriteRelease, ReceiveConfirmation, taskVars
  <2> QED BY <1>1, <1>5, <2>1, CalmTraffic
<1> QED BY <1>2, <1>3, <1>4, <1>5

\* A loss takes what is on the wire, and leaves what is asked of the server for later.
LEMMA HoldingLost ==
  ASSUME SInv, SInv', Stage, Holding, Staying, UNCHANGED recoveryVars, Lose, ~Over'
  PROVE  Holding'
<1>1. UNCHANGED <<pc, pending, server, lastPkid>> /\ incoming' = <<>> /\ task = "up"
  BY DEF Lose, callerVars, openVars, serverVars
<1>2. /\ Asked' = Asked
      /\ \A r \in Elements(Ahead') : r.kind \in {"publish", "release"} \/ r \in Elements(Ahead)
  BY AskedLost
<1>3. Elements(incoming') = {} /\ lastPkid \in Nat
  BY <1>1, VectorEmpty DEF SInv, Ledger, Numbered
<1>4. Placid
  BY <1>1, <1>2, <1>3 DEF Placid, IsDemand
<1> QED BY <1>1, <1>4, LeavingSame, HoldingKept

\* A session that is resumed has all it had, whatever is to be decided about.
LEMMA HoldingResumed ==
  ASSUME SInv, SInv', Stage, Holding, Staying, NEW identifiers \in Offers, Connack(TRUE, identifiers)
  PROVE  Holding'
<1>1. Ahead' = Ahead /\ Asked' = Asked
  BY AskedResumed DEF SInv
<1>2. UNCHANGED <<pc, pending, server, lastPkid, incoming>> /\ task = "down"
  BY DEF Connack, callerVars, openVars
<1>3. lastPkid \in Nat
  BY DEF SInv, Ledger, Numbered
<1>4. Placid
  BY <1>1, <1>2, <1>3 DEF Placid
<1>5. left = <<>> /\ call = NoCall
  BY <1>2 DEF Stage, Calling
<1>6. /\ \A r \in Elements(pending) : r.awaiting.kind # "restore"
      /\ Elements(left) = {}
  BY <1>5, VectorEmpty DEF Holding, Recording, Restoring, NoCall
<1> QED BY <1>4, <1>6, HoldingKept DEF Leaving

-----------------------------------------------------------------------------
(* A subscribe is queued.                                                  *)

\* What comes last in what is asked of the server.
AskedLast(r) ==
  \E n \in Nat : /\ DOMAIN Asked = 1..n /\ DOMAIN Asked' = 1..(n + 1)
                 /\ \A i \in 1..n : Asked'[i] = Asked[i]
                 /\ Asked'[n + 1] = r

LEMMA AskedAppended ==
  ASSUME Shape, NEW r \in Demands, channel' = Append(channel, r), UNCHANGED <<parked, setAside>>
  PROVE  /\ Elements(Asked') = Elements(Asked) \cup {r}
         /\ Elements(Ahead') = Elements(Ahead) \cup {r}
         /\ Elements(Asked) = Elements(Ahead) \cap Demands
         /\ AskedLast(r)
<1>1. /\ Asked' = Append(Asked, r) /\ Elements(Ahead') = Elements(Ahead) \cup {r}
      /\ Vector(Asked) /\ Elements(Asked) = Elements(Ahead) \cap Demands
  BY AskedQueued, AskedVector
<1>2. PICK longer : longer = Append(Asked, r)
  OBVIOUS
<1>3. /\ Len(Asked) \in Nat /\ DOMAIN Asked = 1..Len(Asked)
      /\ DOMAIN longer = 1..(Len(Asked) + 1)
      /\ \A i \in DOMAIN Asked : longer[i] = Asked[i]
      /\ longer[Len(Asked) + 1] = r
  BY <1>1, <1>2, VectorLonger
<1>4. Elements(longer) = Elements(Asked) \cup {r}
  BY <1>1, <1>2, VectorAppend
<1>5. Asked' = longer
  BY <1>1, <1>2
<1> QED BY <1>1, <1>3, <1>4, <1>5 DEF AskedLast

\* A subscribe and its record are queued for whoever has no record yet.
LEMMA HoldingSent ==
  ASSUME SInv, InStep(TRUE), Holding, Staying,
         NEW aw \in Waiters, NEW id \in Nat, NEW r, r = Subscribe(aw.filter, id, aw),
         channel' = Append(channel, r), pending' = Append(pending, Record(aw)),
         UNCHANGED <<parked, setAside, incoming, lastPkid, server, left>>,
         aw.kind \in Single => \A s \in Elements(pending) : s.awaiting # aw,
         aw.kind = "open" => pc'[aw.open] = "waiting",
         \A p \in Opens : /\ pc[p] = "waiting" => pc'[p] = "waiting"
                          /\ pc'[p] = "waiting" => pc[p] = "waiting" \/ aw = AwaitingOpen(p)
                          /\ pc'[p] = "open" => pc[p] = "open",
         aw.kind = "restore" => Restoring(aw)',
         \A s \in Elements(pending) : s.awaiting.kind = "restore" => Restoring(s.awaiting)'
  PROVE  Holding'
<1>1. /\ aw.filter \in Filters /\ r \in Subscribes /\ r \in Demands
      /\ r.kind = "subscribe" /\ r.filter = aw.filter /\ r.awaiting = aw
      /\ \A f : r # Unsubscribe(f)
  <2>1. aw.filter \in Filters
    BY WaitersKinds
  <2>2. r \in Subscribes
    BY <2>1 DEF Subscribe, Subscribes
  <2> QED BY <2>1, <2>2 DEF Subscribe, Demands, Unsubscribe
<1>2. /\ Elements(Asked') = Elements(Asked) \cup {r}
      /\ Elements(Ahead') = Elements(Ahead) \cup {r}
      /\ Elements(Asked) = Elements(Ahead) \cap Demands
      /\ AskedLast(r)
  BY <1>1, AskedAppended DEF SInv
<1>3. PICK n \in Nat : /\ DOMAIN Asked = 1..n /\ DOMAIN Asked' = 1..(n + 1)
                       /\ \A i \in 1..n : Asked'[i] = Asked[i]
                       /\ Asked'[n + 1] = r
  BY <1>2 DEF AskedLast
<1>4. PICK rec : rec = Record(aw)
  OBVIOUS
<1>5. rec.awaiting = aw /\ rec.pkid = NoPkid
  BY <1>4 DEF Record
<1>6. PICK k \in Nat : k = Len(pending)
  BY VectorLonger DEF InStep
<1>7. /\ DOMAIN pending = 1..k /\ DOMAIN pending' = 1..(k + 1)
      /\ \A i \in 1..k : pending'[i] = pending[i]
      /\ pending'[k + 1] = rec
      /\ Elements(pending') = Elements(pending) \cup {rec}
  <2>1. PICK longer : longer = Append(pending, rec)
    OBVIOUS
  <2>2. /\ Len(pending) \in Nat /\ DOMAIN pending = 1..Len(pending)
        /\ DOMAIN longer = 1..(Len(pending) + 1)
        /\ \A i \in DOMAIN pending : longer[i] = pending[i]
        /\ longer[Len(pending) + 1] = rec
    BY <2>1, VectorLonger DEF InStep
  <2>3. Elements(longer) = Elements(pending) \cup {rec}
    BY <2>1, VectorAppend DEF InStep
  <2>4. pending' = longer
    BY <1>4, <2>1
  <2> QED BY <1>6, <2>2, <2>3, <2>4
<1>8. /\ Elements(Ahead)' = Elements(Ahead') /\ Elements(incoming)' = Elements(incoming)
      /\ Elements(pending)' = Elements(pending') /\ Elements(Asked)' = Elements(Asked')
      /\ Elements(left)' = Elements(left)
  BY DEF Elements
<1>9. lastPkid \in Nat
  BY DEF SInv, Ledger, Numbered
<1>10. Worded'
  BY <1>1, <1>2, <1>8 DEF Holding, Worded, IsDemand
<1>11. Recording'
  <2>1. ASSUME NEW s \in Elements(pending')
        PROVE  /\ s.awaiting \in Waiters /\ s.pkid \in 0..lastPkid
               /\ s.awaiting.kind = "open" => pc'[s.awaiting.open] = "waiting"
               /\ s.awaiting.kind = "restore" => Restoring(s.awaiting)'
    <3>1. CASE s \in Elements(pending)
      <4>1. /\ s.awaiting \in Waiters /\ s.pkid \in 0..lastPkid
            /\ s.awaiting.kind = "open" => pc[s.awaiting.open] = "waiting"
        BY <3>1 DEF Holding, Recording
      <4> QED BY <3>1, <4>1, WaitersKinds
    <3>2. CASE s = rec
      BY <1>5, <1>9, <3>2 DEF NoPkid
    <3> QED BY <1>7, <3>1, <3>2
  <2>2. ASSUME NEW i \in 1..(k + 1), NEW j \in 1..(k + 1),
               pending'[i].awaiting = pending'[j].awaiting, pending'[i].awaiting.kind \in Single
        PROVE  i = j
    <3>1. \A x \in 1..(k + 1) : x \in 1..k \/ x = k + 1
      OBVIOUS
    <3>2. CASE i \in 1..k /\ j \in 1..k
      BY <1>7, <2>2, <3>2 DEF Holding, Recording
    <3>3. ASSUME NEW x \in 1..k, pending[x].awaiting = aw, aw.kind \in Single PROVE FALSE
      BY <1>7, <3>3 DEF Elements
    <3> QED BY <1>5, <1>7, <2>2, <3>1, <3>2, <3>3
  <2> QED BY <1>7, <1>8, <2>1, <2>2 DEF Recording, Waiters
<1>12. Answering'
  BY <1>8 DEF Holding, Answering
<1>13. \A p \in Opens : /\ Subscribed(p)' => Subscribed(p)
                        /\ Entering(p)' /\ pc[p] = "waiting" => Entering(p)
  BY DEF Entering, Subscribed, Staying, Joined
<1>14. Entered'
  <2> SUFFICES ASSUME NEW p \in Opens, Entering(p)',
                      NEW i \in 1..(n + 1), NEW j \in 1..(n + 1),
                      Asked'[i] = Unsubscribe(FilterOf[p]),
                      Asked'[j].kind = "subscribe", Asked'[j].awaiting = AwaitingOpen(p)
               PROVE  i < j
    BY <1>3 DEF Entered
  <2>1. i # n + 1
    BY <1>1, <1>3
  <2>2. i \in 1..n
    BY <2>1
  <2>3. CASE j = n + 1
    BY <2>2, <2>3
  <2>4. CASE j # n + 1
    <3>1. j \in 1..n
      BY <2>4
    <3>2. Asked[j] \in Elements(Ahead) /\ Asked[j].kind = "subscribe"
          /\ Asked[j].awaiting = AwaitingOpen(p)
      BY <1>2, <1>3, <3>1 DEF Elements
    <3>3. PICK s \in Elements(pending) : s.awaiting = AwaitingOpen(p)
      BY <3>2, RecordedFor
    <3>4. pc[p] = "waiting"
      BY <3>3, WaitersKinds DEF Holding, Recording
    <3> QED BY <1>3, <1>13, <2>2, <3>1, <3>2, <3>4 DEF Holding, Entered
  <2> QED BY <2>3, <2>4
<1>15. \A f : /\ Firm(f) => Firm(f)'
              /\ Unsubscribe(f) \in Elements(Asked') => Unsubscribe(f) \in Elements(Asked)
  BY <1>1, <1>2, <1>8 DEF Firm
<1>16. \A s \in Elements(pending') : Accepted(s)' => s \in Elements(pending) /\ Accepted(s)
  <2>1. \A a \in Elements(incoming) : a.kind = "suback" => a.pkid # rec.pkid
    BY <1>5 DEF InStep
  <2> QED BY <1>7, <1>8, <2>1 DEF Accepted
<1>17. OpensGranted'
  <2> SUFFICES ASSUME NEW s \in Elements(pending'), s.awaiting.kind = "open", Accepted(s)',
                      Lives(s.awaiting.open)'
               PROVE  Firm(s.awaiting.filter)'
    BY <1>8 DEF OpensGranted
  <2>1. s \in Elements(pending) /\ Accepted(s)
    BY <1>16
  <2>2. s.awaiting \in Waiters /\ pc[s.awaiting.open] = "waiting"
    BY <2>1 DEF Holding, Recording
  <2>3. PICK o \in Opens : o = s.awaiting.open
    BY <2>2, WaitersKinds
  <2>4. Lives(o)'
    BY <2>3
  <2>5. Lives(o)
    BY <2>2, <2>3, <2>4 DEF Staying, Joined
  <2>6. Firm(s.awaiting.filter)
    BY <2>1, <2>3, <2>5 DEF Holding, OpensGranted
  <2> QED BY <1>15, <2>6
<1>18. RestoresGranted'
  <2>1. \A s \in Elements(pending') : s.awaiting.kind = "restore" /\ Accepted(s)' =>
          \A o \in Opens : Subscribed(o)' /\ FilterOf[o] = s.awaiting.filter
            => server[FilterOf[o]] # NotHeld
    BY <1>13, <1>16 DEF Holding, RestoresGranted
  <2> QED BY <1>8, <2>1 DEF RestoresGranted
<1>19. Upholding'
  <2>1. \A o \in Opens : Subscribed(o)' =>
          /\ Unsubscribe(FilterOf[o]) \notin Elements(Asked')
          /\ server[FilterOf[o]] # NotHeld \/ FilterOf[o] \in Elements(left)
    BY <1>13, <1>15 DEF Holding, Upholding, Standing
  <2> QED BY <1>8, <2>1 DEF Upholding, Standing
<1> QED BY <1>10, <1>11, <1>12, <1>14, <1>17, <1>18, <1>19 DEF Holding

\* An open queues its next subscribe, or finds that it need not.
LEMMA HoldingOpened ==
  ASSUME SInv, SInv', InStep(TRUE), Stage, Table, Holding, Staying, ~Over, UNCHANGED recoveryVars,
         NEW o \in Opens, OpenSend(o), ~GivesUp(o)
  PROVE  Holding'
<1> DEFINE request == Head(todo[o])
           aw == IF request.refresh THEN AwaitingIdentify(request.filter) ELSE AwaitingOpen(o)
<1>1. /\ pc[o] = "sending"
      /\ UNCHANGED <<parked, setAside, incoming, lastPkid, renewed, server, losses, severed>>
      /\ \/ UNCHANGED <<pc, channel, pending>>
         \/ /\ channel' = Append(channel, Subscribe(request.filter, request.identifier, aw))
            /\ pending' = Append(pending, Record(aw))
            /\ pc' = IF request.refresh THEN pc ELSE [pc EXCEPT ![o] = "waiting"]
  BY DEF OpenSend, GivesUp, SendSubscribe, wireVars, serverVars, taskVars
<1>2. CASE UNCHANGED <<pc, channel, pending>>
  <2>1. Calm
    BY <1>1, <1>2, CalmSteady
  <2> QED BY <1>1, <2>1, CalmPlacid, LeavingSame, HoldingKept
<1>3. CASE /\ channel' = Append(channel, Subscribe(request.filter, request.identifier, aw))
           /\ pending' = Append(pending, Record(aw))
           /\ pc' = IF request.refresh THEN pc ELSE [pc EXCEPT ![o] = "waiting"]
  <2>1. /\ Vector(todo[o]) /\ todo[o] # <<>> /\ todo[o][Len(todo[o])].filter = FilterOf[o]
        /\ \A i \in DOMAIN todo[o] : /\ todo[o][i].refresh <=> i < Len(todo[o])
                                     /\ todo[o][i].filter \in Filters /\ todo[o][i].identifier \in Nat
    BY <1>1 DEF Table, Queueing
  <2>2. PICK s : s = todo[o]
    OBVIOUS
  <2>3. Vector(s) /\ s # <<>>
    BY <2>1, <2>2
  <2>4. 1 \in DOMAIN s /\ (~(1 < Len(s)) => Len(s) = 1)
    <3>1. Len(s) \in Nat \ {0} /\ DOMAIN s = 1..Len(s)
      BY <2>3, VectorTail
    <3> QED BY <3>1
  <2>5. PICK q : q = request
    OBVIOUS
  <2>6. q = s[1]
    BY <2>2, <2>5
  <2>7. /\ q.filter \in Filters /\ q.identifier \in Nat
        /\ ~q.refresh => q.filter = FilterOf[o]
    BY <2>1, <2>2, <2>4, <2>6
  <2>8. PICK w : w = IF q.refresh THEN AwaitingIdentify(q.filter) ELSE AwaitingOpen(o)
    OBVIOUS
  <2>9. /\ channel' = Append(channel, Subscribe(q.filter, q.identifier, w))
        /\ pending' = Append(pending, Record(w))
        /\ pc' = IF q.refresh THEN pc ELSE [pc EXCEPT ![o] = "waiting"]
    BY <1>3, <2>5, <2>8
  <2> HIDE DEF request, aw
  <2>10. w \in Waiters /\ w.filter = q.filter /\ w.kind # "restore"
         /\ (w.kind \in Single => w = AwaitingOpen(o) /\ ~q.refresh)
    <3>1. CASE q.refresh
      BY <2>7, <2>8, <3>1, WaitersKinds DEF AwaitingIdentify, Single
    <3>2. CASE ~q.refresh
      BY <2>7, <2>8, <3>2, WaitersKinds
    <3> QED BY <3>1, <3>2
  <2>11. /\ w.kind = "open" => w.open = o /\ pc'[w.open] = "waiting"
         /\ \A p \in Opens : /\ pc[p] = "waiting" => pc'[p] = "waiting"
                             /\ pc'[p] = "waiting" => pc[p] = "waiting" \/ w = AwaitingOpen(p)
                             /\ pc'[p] = "open" => pc[p] = "open"
    <3>1. CASE q.refresh
      BY <2>7, <2>8, <2>9, <3>1 DEF AwaitingIdentify
    <3>2. CASE ~q.refresh
      BY <1>1, <2>8, <2>9, <3>2, WaitersKinds DEF Table, CallersTyped
    <3> QED BY <3>1, <3>2
  <2>12. \A s2 \in Elements(pending) : s2.awaiting # AwaitingOpen(o)
    BY <1>1, WaitersKinds DEF Holding, Recording
  <2>13. PICK r : r = Subscribe(w.filter, q.identifier, w)
    OBVIOUS
  <2>14. channel' = Append(channel, r)
    BY <2>9, <2>10, <2>13
  <2>15. PICK id \in Nat : id = q.identifier
    BY <2>7
  <2>16. r = Subscribe(w.filter, id, w)
    BY <2>13, <2>15
  <2>17. \A s2 \in Elements(pending) : s2.awaiting.kind = "restore" => Restoring(s2.awaiting)'
    BY <1>1 DEF Holding, Recording, Restoring, AwaitingRestore, recoveryVars
  <2>18. left' = left
    BY DEF recoveryVars
  <2> QED BY <1>1, <2>9, <2>10, <2>11, <2>12, <2>14, <2>16, <2>17, <2>18, HoldingSent
<1> QED BY <1>1, <1>2, <1>3

\* The restore that is under way queues its subscribe.
LEMMA HoldingRestores ==
  ASSUME SInv, InStep(TRUE), Stage, losses \in Nat, Holding, Staying, RestoreQueue
  PROVE  Holding'
<1>1. /\ task = "restoring" /\ call.phase = "queuing"
      /\ channel' = Append(channel, Subscribe(call.request.filter, call.request.identifier,
                                              AwaitingRestore(call.request.filter)))
      /\ pending' = Append(pending, Record(AwaitingRestore(call.request.filter)))
      /\ call' = [call EXCEPT !.phase = "waiting"]
      /\ UNCHANGED <<pc, parked, setAside, incoming, lastPkid, server, left, losses>>
  BY DEF RestoreQueue, SendSubscribe, callerVars, openVars, wireVars, serverVars, taskVars
<1>2. /\ left # <<>> /\ call.request.filter = Head(left) /\ call.request.identifier \in Nat
      /\ Head(left) \in Filters
  <2>1. left # <<>> /\ call.request.filter = Head(left) /\ call.request.identifier \in Nat
    BY <1>1 DEF Stage, Calling, NoCall
  <2>2. Head(left) \in Elements(left)
    BY <2>1, VectorHeadTail DEF Stage
  <2> QED BY <2>1, <2>2 DEF Stage
<1>3. PICK f \in Filters, id \in Nat : f = call.request.filter /\ id = call.request.identifier
  BY <1>2
<1>4. PICK w : w = AwaitingRestore(f)
  OBVIOUS
<1>5. w \in Waiters /\ w.filter = f /\ w.kind = "restore"
  BY <1>4 DEF AwaitingRestore, Waiters
<1>6. PICK r : r = Subscribe(w.filter, id, w)
  OBVIOUS
<1>7. channel' = Append(channel, r) /\ pending' = Append(pending, Record(w))
  BY <1>1, <1>3, <1>4, <1>5, <1>6
<1>8. \A s \in Elements(pending) : s.awaiting.kind # "restore"
  BY <1>1 DEF Holding, Recording, Restoring
<1>9. call'.phase = "waiting"
  BY <1>1, <1>2 DEF Stage, Calling, NoCall
<1>10. Restoring(w)'
  BY <1>1, <1>2, <1>3, <1>4, <1>9 DEF Restoring, AwaitingRestore
<1> QED BY <1>1, <1>5, <1>6, <1>7, <1>8, <1>10, HoldingSent

-----------------------------------------------------------------------------
(* A subscription is dropped.                                              *)

\* The last subscriber of a filter is dropped, and no other open sits on the filter.
LEMMA HoldingDropped ==
  ASSUME SInv, Holding, Staying, NEW o \in Opens, pc[o] = "open",
         \A p \in Opens : pc'[p] = IF p = o THEN "closed" ELSE pc[p],
         \A p \in Opens : Joined(p)' /\ Lives(p)' => FilterOf[p] # FilterOf[o],
         channel' = Append(channel, Unsubscribe(FilterOf[o])),
         UNCHANGED <<parked, setAside, pending, incoming, lastPkid, server, recoveryVars, losses>>
  PROVE  Holding'
<1>0. PICK r : r = Unsubscribe(FilterOf[o])
  OBVIOUS
<1>1. r \in Demands /\ r.kind = "unsubscribe" /\ r.filter = FilterOf[o]
      /\ \A p \in Opens : FilterOf[p] # FilterOf[o] => r # Unsubscribe(FilterOf[p])
  <2>1. \A p \in Opens : FilterOf[p] \in Filters
    BY SessionAssumption
  <2>2. \A f \in Filters : Unsubscribe(f) \in Demands /\ Unsubscribe(f).kind = "unsubscribe"
                           /\ Unsubscribe(f).filter = f
    BY DemandKinds
  <2> QED BY <1>0, <2>1, <2>2
<1>2. /\ Elements(Asked') = Elements(Asked) \cup {r}
      /\ Elements(Ahead') = Elements(Ahead) \cup {r}
      /\ AskedLast(r)
  BY <1>0, <1>1, AskedAppended DEF SInv
<1>3. PICK n \in Nat : /\ DOMAIN Asked = 1..n /\ DOMAIN Asked' = 1..(n + 1)
                       /\ \A i \in 1..n : Asked'[i] = Asked[i]
                       /\ Asked'[n + 1] = r
  BY <1>2 DEF AskedLast
<1>4. /\ Elements(Ahead)' = Elements(Ahead') /\ Elements(incoming)' = Elements(incoming)
      /\ Elements(pending)' = Elements(pending) /\ Elements(Asked)' = Elements(Asked')
      /\ Elements(left)' = Elements(left)
  BY DEF Elements, recoveryVars
<1>5. /\ \A p \in Opens : pc'[p] = "waiting" <=> pc[p] = "waiting"
      /\ \A p \in Opens : pc'[p] = "open" => pc[p] = "open"
      /\ \A p \in Opens : /\ Subscribed(p)' => Subscribed(p) /\ FilterOf[p] # FilterOf[o]
                          /\ Entering(p)' => Entering(p) /\ FilterOf[p] # FilterOf[o]
  BY DEF Joined, Staying, Subscribed, Entering
<1>6. Worded'
  BY <1>1, <1>2, <1>4 DEF Holding, Worded, IsDemand
<1>7. \A w : Restoring(w)' <=> Restoring(w)
  BY DEF Restoring, AwaitingRestore, recoveryVars
<1>8. Recording'
  <2>1. \A s \in Elements(pending) :
          /\ s.awaiting \in Waiters /\ s.pkid \in 0..lastPkid
          /\ s.awaiting.kind = "open" => pc'[s.awaiting.open] = "waiting"
    BY <1>5, WaitersKinds DEF Holding, Recording
  <2> QED BY <1>4, <1>7, <2>1 DEF Holding, Recording, Waiters
<1>9. Answering'
  BY <1>4 DEF Holding, Answering
<1>10. Entered'
  <2> SUFFICES ASSUME NEW p \in Opens, Entering(p)',
                      NEW i \in 1..(n + 1), NEW j \in 1..(n + 1),
                      Asked'[i] = Unsubscribe(FilterOf[p]),
                      Asked'[j].kind = "subscribe", Asked'[j].awaiting = AwaitingOpen(p)
               PROVE  i < j
    BY <1>3 DEF Entered
  <2>1. i # n + 1 /\ j # n + 1
    BY <1>1, <1>3, <1>5
  <2>2. i \in 1..n /\ j \in 1..n
    BY <2>1
  <2> QED BY <1>3, <1>5, <2>2 DEF Holding, Entered
<1>11. \A p \in Opens : FilterOf[p] # FilterOf[o] =>
         /\ Firm(FilterOf[p]) => Firm(FilterOf[p])'
         /\ Unsubscribe(FilterOf[p]) \in Elements(Asked') => Unsubscribe(FilterOf[p]) \in Elements(Asked)
  BY <1>1, <1>2, <1>4 DEF Firm
<1>12. OpensGranted'
  <2> SUFFICES ASSUME NEW s \in Elements(pending), s.awaiting.kind = "open", Accepted(s)',
                      Lives(s.awaiting.open)'
               PROVE  Firm(s.awaiting.filter)'
    BY <1>4 DEF OpensGranted
  <2>1. Accepted(s)
    BY <1>4 DEF Accepted
  <2>2. s.awaiting \in Waiters /\ pc[s.awaiting.open] = "waiting"
    BY DEF Holding, Recording
  <2>3. PICK p \in Opens : p = s.awaiting.open /\ s.awaiting.filter = FilterOf[p]
    BY <2>2, WaitersKinds
  <2>4. Lives(p)'
    BY <2>3
  <2>5. Entering(p)'
    BY <1>5, <2>2, <2>3, <2>4 DEF Entering
  <2>6. Lives(p) /\ FilterOf[p] # FilterOf[o]
    BY <1>5, <2>5 DEF Entering
  <2>7. Firm(FilterOf[p])
    BY <2>1, <2>3, <2>6 DEF Holding, OpensGranted
  <2>8. Firm(FilterOf[p])'
    BY <1>11, <2>6, <2>7
  <2> QED BY <2>3, <2>8
<1>13. RestoresGranted'
  <2>1. \A s \in Elements(pending) : s.awaiting.kind = "restore" /\ Accepted(s)' =>
          \A p \in Opens : Subscribed(p)' /\ FilterOf[p] = s.awaiting.filter
            => server[FilterOf[p]] # NotHeld
    BY <1>4, <1>5 DEF Holding, RestoresGranted, Accepted
  <2> QED BY <1>4, <2>1 DEF RestoresGranted
<1>14. Upholding'
  <2>1. \A p \in Opens : Subscribed(p)' =>
          /\ Unsubscribe(FilterOf[p]) \notin Elements(Asked')
          /\ server[FilterOf[p]] # NotHeld \/ FilterOf[p] \in Elements(left)
    BY <1>5, <1>11 DEF Holding, Upholding, Standing
  <2> QED BY <1>4, <2>1 DEF Upholding, Standing
<1> QED BY <1>6, <1>8, <1>9, <1>10, <1>12, <1>13, <1>14 DEF Holding

\* A subscription is dropped, with or without an unsubscribe.
LEMMA HoldingLeft ==
  ASSUME SInv, SInv', Stage, Table, Table', Holding, Staying, UNCHANGED recoveryVars,
         NEW o \in Opens, Drop(o)
  PROVE  Holding'
<1>1. /\ pc[o] = "open" /\ pc' = [pc EXCEPT ![o] = "closed"] /\ Leave(member[o]) /\ member' = member
      /\ UNCHANGED <<pending, parked, setAside, incoming, lastPkid, renewed, server, losses, severed>>
      /\ channel' = IF TakenOff(member[o]) # {} /\ Room
                    THEN Append(channel, Unsubscribe(FilterOf[o])) ELSE channel
  BY DEF Drop, wireVars, serverVars, taskVars
<1>2. \A p \in Opens : pc'[p] = IF p = o THEN "closed" ELSE pc[p]
  BY <1>1 DEF Table, CallersTyped
<1>3. CASE channel' = channel
  <2>1. \A p \in Opens : /\ pc'[p] = "waiting" <=> pc[p] = "waiting"
                         /\ pc'[p] = "open" => pc[p] = "open"
    BY <1>1, <1>2
  <2>2. Calm
    BY <1>1, <1>3, <2>1, CalmSteady
  <2> QED BY <1>1, <2>2, CalmPlacid, LeavingSame, HoldingKept
<1>4. CASE TakenOff(member[o]) # {} /\ channel' = Append(channel, Unsubscribe(FilterOf[o]))
  <2>1. PICK m : m = member[o]
    OBVIOUS
  <2>2. PICK f : f \in TakenOff(m)
    BY <1>4, <2>1
  <2>3. f = FilterOf[o]
    <3>1. PICK n \in DOMAIN wires : /\ Len(wires[n].members) = 1 /\ wires[n].members[1].id = m
                                    /\ wires[n].filter = f
      BY <2>2 DEF TakenOff
    <3>2. wires[n].members \in Seq(Member)
      <4>1. wires \in Seq(Wire)
        BY DEF Table, Structure, RegistryTypeOK
      <4>2. wires[n] \in Wire
        BY <3>1, <4>1
      <4> QED BY <4>2 DEF Wire
    <3>3. 1 \in DOMAIN wires[n].members
      BY <3>1, <3>2
    <3> QED BY <1>1, <2>1, <3>1, <3>3 DEF Table, Seats, Seat, Joined
  <2>4. ~Holds(f)'
    BY <1>1, <2>1, <2>2, HoldsLeft DEF Table
  <2>5. ASSUME NEW p \in Opens, Joined(p)', Lives(p)' PROVE FilterOf[p] # FilterOf[o]
    <3>1. PICK n \in DOMAIN wires' : \E i \in DOMAIN wires'[n].members : Seat(member[p], n, i)'
      BY <2>5 DEF Lives
    <3>2. wires'[n].filter = FilterOf[p]
      BY <2>5, <3>1 DEF Table, Seats
    <3> QED BY <2>3, <2>4, <3>2 DEF Holds
  <2> QED BY <1>1, <1>2, <1>4, <2>5, HoldingDropped
<1> QED BY <1>1, <1>3, <1>4

-----------------------------------------------------------------------------
(* A request for the server is written.                                    *)

\* What a subscribe does: the server may keep the filter, and answers if it can be heard,
\* and the packet id goes to the record for whom it was queued.
MayHold(r, k) ==
  /\ \A f \in Filters : server[f] # NotHeld => server'[f] # NotHeld
  /\ \A a \in Elements(incoming') :
       \/ a \in Elements(incoming)
       \/ /\ a.kind = "suback" /\ a.pkid = k /\ a.accepted \in BOOLEAN
          /\ a.accepted => server'[r.filter] # NotHeld
  /\ DOMAIN pending' = DOMAIN pending
  /\ \A i \in DOMAIN pending :
       /\ pending'[i].awaiting = pending[i].awaiting
       /\ \/ pending'[i].pkid = pending[i].pkid
          \/ pending'[i].pkid = k /\ pending[i].awaiting = r.awaiting

LEMMA SubscribeAnswered ==
  ASSUME SInv, InStep(TRUE), CallersTyped, WriteSubscribe, NEW r, r = Request,
         r.filter \in Filters, r.identifier \in Nat
  PROVE  MayHold(r, lastPkid + 1) /\ lastPkid \in Nat /\ lastPkid' = lastPkid + 1
<1> DEFINE k == lastPkid + 1
<1>1. /\ \E i \in DOMAIN pending : pending[i].pkid = NoPkid
      /\ Oldest \in DOMAIN pending /\ pending[Oldest].awaiting = r.awaiting
  BY OldestAwaits
<1>2. /\ lastPkid \in Nat /\ Vector(incoming) /\ Vector(pending) /\ lastPkid' = k
      /\ pending' = [pending EXCEPT ![Oldest] = [@ EXCEPT !.pkid = k, !.answers = Request.awaiting]]
  BY <1>1 DEF SInv, Shape, Ledger, Numbered, InStep, WriteSubscribe
<1>3. PICK acc \in Accepts :
        /\ server' = IF severed \/ ~acc THEN server ELSE [server EXCEPT ![r.filter] = r.identifier]
        /\ Answer([kind |-> "suback", pkid |-> k, accepted |-> acc])
  BY DEF WriteSubscribe
<1>4. acc \in BOOLEAN
  BY SessionAssumption
<1> DEFINE a == [kind |-> "suback", pkid |-> k, accepted |-> acc]
<1>5. a.kind = "suback" /\ a.pkid = k /\ a.accepted = acc /\ Answer(a)
  BY <1>3
<1> HIDE DEF a
<1>6. \A b \in Elements(incoming') : b \in Elements(incoming) \/ (b = a /\ ~severed)
  BY <1>2, <1>5, AnswerProperties
<1>7. /\ \A f \in Filters : server[f] # NotHeld => server'[f] # NotHeld
      /\ ~severed /\ acc => server'[r.filter] # NotHeld
  BY <1>3 DEF CallersTyped, NotHeld
<1>8. \A b \in Elements(incoming') :
        \/ b \in Elements(incoming)
        \/ /\ b.kind = "suback" /\ b.pkid = k /\ b.accepted \in BOOLEAN
           /\ b.accepted => server'[r.filter] # NotHeld
  BY <1>4, <1>5, <1>6, <1>7
<1>9. DOMAIN pending' = DOMAIN pending
  BY <1>2
<1>10. ASSUME NEW i \in DOMAIN pending
       PROVE  /\ pending'[i].awaiting = pending[i].awaiting
              /\ \/ pending'[i].pkid = pending[i].pkid
                 \/ pending'[i].pkid = k /\ pending[i].awaiting = r.awaiting
  <2>1. IsRecord(pending[i])
    BY <1>10 DEF InStep, Elements
  <2> QED BY <1>1, <1>2, <2>1 DEF IsRecord
<1> QED BY <1>2, <1>7, <1>8, <1>9, <1>10 DEF MayHold

LEMMA HoldingSubscribed ==
  ASSUME SInv, InStep(TRUE), Table, Holding, Staying, UNCHANGED recoveryVars, WriteSubscribe
  PROVE  Holding'
<1>0. PICK r : r = Request
  OBVIOUS
<1>1. /\ Shape /\ Worded /\ Up("subscribe") /\ Dequeue
      /\ UNCHANGED <<parked, pc, losses, left>>
  BY DEF SInv, Holding, WriteSubscribe, callerVars, openVars, taskVars, recoveryVars
<1>2. /\ r \in Demands /\ r.kind = "subscribe"
      /\ Elements(Ahead') \subseteq Elements(Ahead)
      /\ Elements(Asked) = {r} \cup Elements(Asked')
  BY <1>0, <1>1, AskedFirst
<1>3. PICK n \in Nat : /\ DOMAIN Asked = 1..(n + 1) /\ DOMAIN Asked' = 1..n
                       /\ Asked[1] = r
                       /\ \A i \in 1..n : Asked[i + 1] = Asked'[i]
  BY <1>0, <1>1, AskedFirst
<1>4. /\ r.filter \in Filters /\ r.identifier \in Nat
      /\ r.awaiting \in Waiters /\ r.awaiting.filter = r.filter
  BY <1>2, DemandKinds
<1>5. PICK k : k = lastPkid
  OBVIOUS
<1>6. MayHold(r, k + 1) /\ k \in Nat /\ lastPkid' = k + 1
  BY <1>0, <1>4, <1>5, SubscribeAnswered DEF Table
<1>7. /\ Elements(Ahead)' = Elements(Ahead') /\ Elements(incoming)' = Elements(incoming')
      /\ Elements(pending)' = Elements(pending') /\ Elements(Asked)' = Elements(Asked')
      /\ Elements(left)' = Elements(left)
  BY <1>1 DEF Elements
<1>8. \A s \in Elements(pending') : \E q \in Elements(pending) :
        /\ s.awaiting = q.awaiting
        /\ s.pkid = q.pkid \/ (s.pkid = k + 1 /\ s.awaiting = r.awaiting)
  <2> SUFFICES ASSUME NEW i \in DOMAIN pending'
               PROVE  \E q \in Elements(pending) :
                        /\ pending'[i].awaiting = q.awaiting
                        /\ \/ pending'[i].pkid = q.pkid
                           \/ pending'[i].pkid = k + 1 /\ pending'[i].awaiting = r.awaiting
    BY DEF Elements
  <2>1. i \in DOMAIN pending /\ pending[i] \in Elements(pending)
    BY <1>6 DEF MayHold, Elements
  <2> QED BY <1>6, <2>1 DEF MayHold
<1>9. Worded'
  BY <1>1, <1>2, <1>7 DEF Worded, IsDemand
<1>10. \A w : Restoring(w)' <=> Restoring(w)
  BY <1>1 DEF Restoring, AwaitingRestore, recoveryVars
<1>11. Recording'
  <2>1. ASSUME NEW s \in Elements(pending')
        PROVE  /\ s.awaiting \in Waiters /\ s.pkid \in 0..(k + 1)
               /\ s.awaiting.kind = "open" => pc[s.awaiting.open] = "waiting"
               /\ s.awaiting.kind = "restore" => Restoring(s.awaiting)
    <3>1. PICK q \in Elements(pending) :
            s.awaiting = q.awaiting /\ (s.pkid = q.pkid \/ s.pkid = k + 1)
      BY <1>8
    <3>2. /\ q.awaiting \in Waiters /\ q.pkid \in 0..k
          /\ q.awaiting.kind = "open" => pc[q.awaiting.open] = "waiting"
          /\ q.awaiting.kind = "restore" => Restoring(q.awaiting)
      BY <1>5 DEF Holding, Recording
    <3>3. s.pkid \in 0..(k + 1)
      BY <1>6, <3>1, <3>2, NumberNew
    <3> QED BY <3>1, <3>2, <3>3
  <2>2. \A i, j \in DOMAIN pending' :
          pending'[i].awaiting = pending'[j].awaiting /\ pending'[i].awaiting.kind \in Single => i = j
    BY <1>6 DEF MayHold, Holding, Recording
  <2> QED BY <1>1, <1>6, <1>7, <1>10, <2>1, <2>2 DEF Recording, Waiters
<1>12. \A a \in Elements(incoming) : a.kind = "suback" => a.pkid \in 1..k /\ a.accepted \in BOOLEAN
  BY <1>5 DEF Holding, Answering
<1>13. Answering'
  <2>1. ASSUME NEW a \in Elements(incoming'), a.kind = "suback"
        PROVE  a.pkid \in 1..(k + 1) /\ a.accepted \in BOOLEAN
    BY <1>6, <1>12, <2>1, NumberNew DEF MayHold
  <2> QED BY <1>6, <1>7, <2>1 DEF Answering
<1>14. \A o \in Opens : (Subscribed(o)' => Subscribed(o)) /\ (Entering(o)' => Entering(o))
  BY <1>1 DEF Subscribed, Entering, Staying, Joined
<1>15. Entered'
  <2> SUFFICES ASSUME NEW o \in Opens, Entering(o),
                      NEW i \in 1..n, NEW j \in 1..n,
                      Asked'[i] = Unsubscribe(FilterOf[o]),
                      Asked'[j].kind = "subscribe", Asked'[j].awaiting = AwaitingOpen(o)
               PROVE  i < j
    BY <1>3, <1>14 DEF Entered
  <2>1. i + 1 \in 1..(n + 1) /\ j + 1 \in 1..(n + 1)
    OBVIOUS
  <2>2. i + 1 < j + 1
    BY <1>3, <2>1 DEF Holding, Entered
  <2> QED BY <2>2
<1>16. \A f \in Filters : Firm(f) => Firm(f)'
  BY <1>2, <1>6, <1>7 DEF Firm, MayHold
<1>17. ASSUME NEW o \in Opens, r.awaiting = AwaitingOpen(o), Entering(o), server'[r.filter] # NotHeld
       PROVE  Firm(FilterOf[o])'
  <2>1. r.filter = FilterOf[o]
    BY <1>4, <1>17, WaitersKinds
  <2>2. ASSUME Unsubscribe(FilterOf[o]) \in Elements(Asked') PROVE FALSE
    <3>1. PICK i \in 1..n : Asked'[i] = Unsubscribe(FilterOf[o])
      BY <1>3, <2>2 DEF Elements
    <3>2. i + 1 \in 1..(n + 1) /\ 1 \in 1..(n + 1) /\ ~(i + 1 < 1)
      OBVIOUS
    <3>3. i + 1 < 1
      BY <1>2, <1>3, <1>17, <3>1, <3>2 DEF Holding, Entered
    <3> QED BY <3>2, <3>3
  <2> QED BY <1>7, <1>17, <2>1, <2>2 DEF Firm
\* Either the answer was on its way before, or it is the one to r.
<1>18. ASSUME NEW s \in Elements(pending'), Accepted(s)'
       PROVE  \/ \E q \in Elements(pending) : q.awaiting = s.awaiting /\ Accepted(q)
              \/ s.awaiting = r.awaiting /\ server'[r.filter] # NotHeld
  <2>1. PICK q \in Elements(pending) :
          /\ s.awaiting = q.awaiting
          /\ s.pkid = q.pkid \/ (s.pkid = k + 1 /\ s.awaiting = r.awaiting)
    BY <1>8
  <2>2. q.pkid \in 0..k
    BY <1>5 DEF Holding, Recording
  <2>3. PICK a \in Elements(incoming') : a.kind = "suback" /\ a.accepted /\ a.pkid = s.pkid
    BY <1>7, <1>18 DEF Accepted
  <2>4. CASE a \in Elements(incoming)
    <3>1. a.pkid \in 1..k
      BY <1>12, <2>3, <2>4
    <3>2. s.pkid = q.pkid
      BY <1>6, <2>1, <2>3, <3>1, NumberNew
    <3> QED BY <2>1, <2>3, <2>4, <3>2 DEF Accepted
  <2>5. CASE a.pkid = k + 1 /\ server'[r.filter] # NotHeld
    BY <1>6, <2>1, <2>2, <2>3, <2>5, NumberNew
  <2> QED BY <1>6, <2>3, <2>4, <2>5 DEF MayHold
<1>19. OpensGranted'
  <2> SUFFICES ASSUME NEW s \in Elements(pending'), s.awaiting.kind = "open", Accepted(s)',
                      Lives(s.awaiting.open)'
               PROVE  Firm(s.awaiting.filter)'
    BY <1>7 DEF OpensGranted
  <2>1. PICK w : w = s.awaiting
    OBVIOUS
  <2>2. w \in Waiters /\ pc[w.open] = "waiting"
    BY <1>8, <2>1 DEF Holding, Recording
  <2>3. PICK o \in Opens : o = w.open /\ w = AwaitingOpen(o) /\ w.filter = FilterOf[o]
    BY <2>1, <2>2, WaitersKinds
  <2>4. Lives(o)'
    BY <2>1, <2>3
  <2>5. Lives(o) /\ Entering(o)
    BY <1>1, <2>2, <2>3, <2>4 DEF Entering, Staying, Joined
  <2>6. CASE \E q \in Elements(pending) : q.awaiting = w /\ Accepted(q)
    <3>1. Firm(w.filter)
      BY <2>1, <2>3, <2>5, <2>6 DEF Holding, OpensGranted
    <3>2. w.filter \in Filters
      BY <2>2, WaitersKinds
    <3>3. Firm(w.filter)'
      BY <1>16, <3>1, <3>2
    <3> QED BY <2>1, <3>3
  <2>7. CASE w = r.awaiting /\ server'[r.filter] # NotHeld
    <3>1. Firm(FilterOf[o])'
      BY <1>17, <2>3, <2>5, <2>7
    <3> QED BY <2>1, <2>3, <3>1
  <2> QED BY <1>18, <2>1, <2>6, <2>7
<1>20. RestoresGranted'
  <2>1. ASSUME NEW s \in Elements(pending'), s.awaiting.kind = "restore", Accepted(s)',
               NEW o \in Opens, Subscribed(o)', FilterOf[o] = s.awaiting.filter
        PROVE  server'[FilterOf[o]] # NotHeld
    <3>1. FilterOf[o] \in Filters /\ Subscribed(o)
      BY <1>14, <2>1, SessionAssumption
    <3>2. CASE \E q \in Elements(pending) : q.awaiting = s.awaiting /\ Accepted(q)
      BY <1>6, <2>1, <3>1, <3>2 DEF Holding, RestoresGranted, MayHold
    <3>3. CASE s.awaiting = r.awaiting /\ server'[r.filter] # NotHeld
      BY <1>4, <2>1, <3>3
    <3> QED BY <1>18, <2>1, <3>2, <3>3
  <2> QED BY <1>7, <2>1 DEF RestoresGranted
<1>21. Upholding'
  <2>1. \A o \in Opens : Subscribed(o)' =>
          /\ Unsubscribe(FilterOf[o]) \notin Elements(Asked')
          /\ server'[FilterOf[o]] # NotHeld \/ FilterOf[o] \in Elements(left)
    BY <1>2, <1>6, <1>14, SessionAssumption DEF Holding, Upholding, Standing, MayHold
  <2> QED BY <1>7, <2>1 DEF Upholding, Standing
<1> QED BY <1>9, <1>11, <1>13, <1>15, <1>19, <1>20, <1>21 DEF Holding

\* An unsubscribe takes a filter off the server that nobody is subscribed to.
LEMMA HoldingUnsubscribed ==
  ASSUME SInv, Table, Holding, Staying, UNCHANGED recoveryVars, WriteUnsubscribe
  PROVE  Holding'
<1>0. PICK r : r = Request
  OBVIOUS
<1>1. /\ Shape /\ Worded /\ Up("unsubscribe") /\ Dequeue
      /\ UNCHANGED <<parked, pc, pending, lastPkid, incoming, losses, left>>
      /\ server' = IF severed THEN server ELSE [server EXCEPT ![r.filter] = NotHeld]
  BY <1>0 DEF SInv, Holding, WriteUnsubscribe, callerVars, openVars, taskVars, recoveryVars
<1>2. /\ r \in Demands /\ r.kind = "unsubscribe"
      /\ Elements(Ahead') \subseteq Elements(Ahead)
      /\ Elements(Asked) = {r} \cup Elements(Asked')
  BY <1>0, <1>1, AskedFirst
<1>3. PICK n \in Nat : /\ DOMAIN Asked = 1..(n + 1) /\ DOMAIN Asked' = 1..n
                       /\ Asked[1] = r
                       /\ \A i \in 1..n : Asked[i + 1] = Asked'[i]
  BY <1>0, <1>1, AskedFirst
<1>4. r.filter \in Filters /\ r = Unsubscribe(r.filter)
  BY <1>2, DemandKinds
<1>5. /\ Elements(Ahead)' = Elements(Ahead') /\ Elements(incoming)' = Elements(incoming)
      /\ Elements(pending)' = Elements(pending) /\ Elements(Asked)' = Elements(Asked')
      /\ Elements(left)' = Elements(left)
  BY <1>1 DEF Elements
<1>6. \A f \in Filters : Unsubscribe(f) \notin Elements(Asked) =>
        server'[f] = server[f] /\ Unsubscribe(f) \notin Elements(Asked')
  <2>1. \A f \in Filters : f # r.filter => server'[f] = server[f]
    BY <1>1 DEF Table, CallersTyped
  <2> QED BY <1>2, <1>4, <2>1
<1>7. \A o \in Opens : (Subscribed(o)' => Subscribed(o)) /\ (Entering(o)' => Entering(o))
  BY <1>1 DEF Subscribed, Entering, Staying, Joined
<1>8. Worded'
  BY <1>1, <1>2, <1>5 DEF Worded, IsDemand
<1>9. \A w : Restoring(w)' <=> Restoring(w)
  BY <1>1 DEF Restoring, AwaitingRestore, recoveryVars
<1>10. Recording' /\ Answering'
  BY <1>1, <1>5, <1>9 DEF Holding, Recording, Answering, Waiters
<1>11. Entered'
  <2> SUFFICES ASSUME NEW o \in Opens, Entering(o),
                      NEW i \in 1..n, NEW j \in 1..n,
                      Asked'[i] = Unsubscribe(FilterOf[o]),
                      Asked'[j].kind = "subscribe", Asked'[j].awaiting = AwaitingOpen(o)
               PROVE  i < j
    BY <1>3, <1>7 DEF Entered
  <2>1. i + 1 \in 1..(n + 1) /\ j + 1 \in 1..(n + 1)
    OBVIOUS
  <2>2. i + 1 < j + 1
    BY <1>3, <2>1 DEF Holding, Entered
  <2> QED BY <2>2
<1>12. \A s : Accepted(s)' <=> Accepted(s)
  BY <1>5 DEF Accepted
<1>13. OpensGranted'
  <2> SUFFICES ASSUME NEW s \in Elements(pending), s.awaiting.kind = "open", Accepted(s)',
                      Lives(s.awaiting.open)'
               PROVE  Firm(s.awaiting.filter)'
    BY <1>5 DEF OpensGranted
  <2>1. s.awaiting \in Waiters /\ pc[s.awaiting.open] = "waiting"
    BY DEF Holding, Recording
  <2>2. PICK o \in Opens : o = s.awaiting.open
    BY <2>1, WaitersKinds
  <2>3. Lives(o)'
    BY <2>2
  <2>4. Lives(o)
    BY <1>1, <2>1, <2>2, <2>3 DEF Staying, Joined
  <2>5. Firm(s.awaiting.filter) /\ s.awaiting.filter \in Filters
    BY <1>12, <2>1, <2>2, <2>4, WaitersKinds DEF Holding, OpensGranted
  <2> QED BY <1>5, <1>6, <2>5 DEF Firm
<1>14. \A o \in Opens : Subscribed(o)' =>
         /\ server'[FilterOf[o]] = server[FilterOf[o]]
         /\ Unsubscribe(FilterOf[o]) \notin Elements(Asked')
         /\ server[FilterOf[o]] # NotHeld \/ FilterOf[o] \in Elements(left)
  BY <1>6, <1>7, SessionAssumption DEF Holding, Upholding, Standing
<1>15. RestoresGranted'
  <2>1. \A s \in Elements(pending) : s.awaiting.kind = "restore" /\ Accepted(s)' =>
          \A o \in Opens : Subscribed(o)' /\ FilterOf[o] = s.awaiting.filter
            => server'[FilterOf[o]] # NotHeld
    BY <1>7, <1>12, <1>14 DEF Holding, RestoresGranted
  <2> QED BY <1>5, <2>1 DEF RestoresGranted
<1>16. Upholding'
  <2>1. \A o \in Opens : Subscribed(o)' =>
          /\ Unsubscribe(FilterOf[o]) \notin Elements(Asked')
          /\ server'[FilterOf[o]] # NotHeld \/ FilterOf[o] \in Elements(left)
    BY <1>14
  <2> QED BY <1>5, <2>1 DEF Upholding, Standing
<1> QED BY <1>8, <1>10, <1>11, <1>13, <1>15, <1>16 DEF Holding

-----------------------------------------------------------------------------
(* An answer to a subscribe is read.                                       *)

\* The answer a reaches the caller that record r awaits it for.
Reaches(r, a) ==
  /\ r \in Elements(pending) /\ a \in Elements(incoming)
  /\ a.kind = "suback" /\ a.pkid = r.pkid /\ a.accepted \in BOOLEAN
  /\ \A s \in Elements(pending)' : s.awaiting.kind \in Single => s.awaiting # r.awaiting
  /\ \/ /\ r.awaiting.kind = "open"
        /\ pc' = [pc EXCEPT ![r.awaiting.open] = IF a.accepted THEN "open" ELSE "failed"]
        /\ IF a.accepted THEN UNCHANGED registryVars ELSE Leave(member[r.awaiting.open])
        /\ UNCHANGED <<left, call>>
     \/ /\ r.awaiting.kind = "identify"
        /\ Identified(r.awaiting.filter, a.accepted)
        /\ UNCHANGED <<pc, left, call>>
     \/ /\ r.awaiting.kind = "resubscribe"
        /\ UNCHANGED <<registryVars, pc, left, call>>
     \/ /\ r.awaiting.kind = "restore"
        /\ UNCHANGED <<registryVars, pc>>
        /\ IF a.accepted THEN call' = NoCall /\ left' = Tail(left)
           ELSE call' = [phase |-> "refused"] /\ left' = left

LEMMA SubackReaches ==
  ASSUME SInv, InStep(TRUE), Recording, Answering, RestoreSuback
  PROVE  /\ Elements(incoming)' \subseteq Elements(incoming)
         /\ Elements(pending)' \subseteq Elements(pending)
         /\ \A i, j \in DOMAIN pending' :
              pending'[i].awaiting = pending'[j].awaiting /\ pending'[i].awaiting.kind \in Single
                => i = j
         /\ UNCHANGED <<registryVars, pc, pending, left, call>> \/ \E r, a : Reaches(r, a)
<1> DEFINE a == Head(incoming)
           places == {i \in DOMAIN pending : pending[i].pkid = a.pkid}
           n == CHOOSE i \in places : \A j \in places : i <= j
<1>1. /\ incoming # <<>> /\ incoming' = Tail(incoming) /\ a.kind = "suback"
      /\ IF places = {} THEN UNCHANGED <<registryVars, pc, pending>>
         ELSE /\ pending' = Without(pending, n)
              /\ \/ /\ pending[n].awaiting.kind = "open"
                    /\ pc' = [pc EXCEPT ![pending[n].awaiting.open] =
                                IF a.accepted THEN "open" ELSE "failed"]
                    /\ IF a.accepted THEN UNCHANGED registryVars
                       ELSE Leave(member[pending[n].awaiting.open])
                 \/ /\ pending[n].awaiting.kind = "identify"
                    /\ Identified(pending[n].awaiting.filter, a.accepted)
                    /\ UNCHANGED pc
                 \/ /\ pending[n].awaiting.kind \in {"resubscribe", "restore"}
                    /\ UNCHANGED <<registryVars, pc>>
  BY DEF RestoreSuback, ReceiveSuback, Reads
<1>2. IF places = {} THEN UNCHANGED <<left, call>> ELSE Outcome(n)
  BY DEF RestoreSuback
<1>3. Vector(incoming) /\ Vector(pending) /\ DOMAIN pending = 1..Len(pending) /\ Len(pending) \in Nat
      /\ \A i \in DOMAIN pending : pending[i] \in Elements(pending)
  BY VectorPlaces DEF SInv, Shape, InStep
<1>4. a \in Elements(incoming) /\ Elements(incoming)' \subseteq Elements(incoming)
  <2>1. Elements(incoming) = {a} \cup Elements(Tail(incoming))
    BY <1>1, <1>3, VectorHeadTail
  <2>2. Elements(incoming)' = Elements(Tail(incoming))
    BY <1>1 DEF Elements
  <2> QED BY <2>1, <2>2
<1>5. a.accepted \in BOOLEAN
  BY <1>1, <1>4 DEF Answering
<1>6. CASE places = {}
  <2>1. UNCHANGED <<registryVars, pc, pending, left, call>>
    BY <1>1, <1>2, <1>6
  <2>2. Elements(pending)' = Elements(pending)
    BY <2>1 DEF Elements
  <2> QED BY <1>4, <2>1, <2>2 DEF Recording
<1>7. CASE places # {}
  <2>1. n \in places
    <3>1. \E i \in places : \A j \in places : i <= j
      BY <1>3, <1>7, FirstPlace
    <3> QED BY <3>1
  <2>2. n \in DOMAIN pending /\ pending[n].pkid = a.pkid
    BY <2>1
  <2>3. PICK p : p = n
    OBVIOUS
  <2>4. PICK acc \in BOOLEAN : acc = a.accepted
    BY <1>5
  <2>5. PICK r : r = pending[p]
    OBVIOUS
  <2>6. /\ pending' = Without(pending, p)
        /\ \/ /\ r.awaiting.kind = "open"
              /\ pc' = [pc EXCEPT ![r.awaiting.open] = IF acc THEN "open" ELSE "failed"]
              /\ IF acc THEN UNCHANGED registryVars ELSE Leave(member[r.awaiting.open])
           \/ /\ r.awaiting.kind = "identify"
              /\ Identified(r.awaiting.filter, acc) /\ UNCHANGED pc
           \/ /\ r.awaiting.kind \in {"resubscribe", "restore"}
              /\ UNCHANGED <<registryVars, pc>>
    BY <1>1, <1>7, <2>3, <2>4, <2>5
  <2>7. IF r.awaiting # AwaitingRestore(r.awaiting.filter) THEN UNCHANGED <<left, call>>
        ELSE /\ call' = IF acc THEN NoCall ELSE [phase |-> "refused"]
             /\ left' = IF acc THEN Tail(left) ELSE left
    BY <1>2, <1>7, <2>3, <2>4, <2>5 DEF Outcome
  <2>8. /\ p \in DOMAIN pending /\ r.pkid = a.pkid /\ a.kind = "suback" /\ r \in Elements(pending)
    BY <1>1, <1>3, <2>2, <2>3, <2>5
  <2>9. PICK b : b = a
    OBVIOUS
  <2>10. b \in Elements(incoming) /\ b.kind = "suback" /\ b.pkid = r.pkid /\ b.accepted = acc
    BY <1>4, <2>4, <2>8, <2>9
  <2> HIDE DEF n, places, a
  <2>11. pending \in Seq(Elements(pending))
    BY <1>3, VectorIn
  <2>12. PICK w : w = Without(pending, p)
    OBVIOUS
  <2>13. /\ w \in Seq(Elements(pending))
         /\ \A i \in DOMAIN w : /\ Shifted(p, i) \in DOMAIN pending \ {p}
                                /\ w[i] = pending[Shifted(p, i)]
         /\ \A i, j \in DOMAIN w : Shifted(p, i) = Shifted(p, j) => i = j
    BY <2>8, <2>11, <2>12, WithoutProperties
  <2>14. pending' = w /\ Elements(w) \subseteq Elements(pending)
    BY <2>6, <2>12, <2>13, VectorOf
  <2>15. Elements(pending)' = Elements(w)
    BY <2>14 DEF Elements
  <2>16. \A s \in Elements(w) : s.awaiting.kind \in Single => s.awaiting # r.awaiting
    <3> SUFFICES ASSUME NEW i \in DOMAIN w, w[i].awaiting.kind \in Single,
                        w[i].awaiting = pending[p].awaiting
                 PROVE  FALSE
      BY <2>5 DEF Elements
    <3>1. Shifted(p, i) \in DOMAIN pending /\ Shifted(p, i) # p /\ w[i] = pending[Shifted(p, i)]
      BY <2>13
    <3> QED BY <2>8, <3>1 DEF Recording
  <2>17. \A i, j \in DOMAIN w :
           w[i].awaiting = w[j].awaiting /\ w[i].awaiting.kind \in Single => i = j
    <3> SUFFICES ASSUME NEW i \in DOMAIN w, NEW j \in DOMAIN w, w[i].awaiting = w[j].awaiting,
                        w[i].awaiting.kind \in Single
                 PROVE  i = j
      OBVIOUS
    <3>1. /\ Shifted(p, i) \in DOMAIN pending /\ w[i] = pending[Shifted(p, i)]
          /\ Shifted(p, j) \in DOMAIN pending /\ w[j] = pending[Shifted(p, j)]
      BY <2>13
    <3>2. Shifted(p, i) = Shifted(p, j)
      BY <3>1 DEF Recording
    <3> QED BY <2>13, <3>2
  <2>18. r.awaiting.kind = "restore" <=> r.awaiting = AwaitingRestore(r.awaiting.filter)
    <3>1. ASSUME r.awaiting.kind = "restore" PROVE r.awaiting = AwaitingRestore(r.awaiting.filter)
      <4>1. r.awaiting = AwaitingRestore(Head(left))
        BY <2>8, <3>1 DEF Recording, Restoring
      <4>2. AwaitingRestore(Head(left)).filter = Head(left)
        BY DEF AwaitingRestore
      <4> QED BY <4>1, <4>2
    <3>2. \A f : AwaitingRestore(f).kind = "restore"
      BY DEF AwaitingRestore
    <3> QED BY <3>1, <3>2
  <2>19. Reaches(r, b)
    BY <2>6, <2>7, <2>8, <2>10, <2>15, <2>16, <2>18 DEF Reaches
  <2> QED BY <1>4, <2>14, <2>15, <2>17, <2>19
<1> QED BY <1>6, <1>7

LEMMA TableAnswered ==
  ASSUME SInv, InStep(TRUE), Recording, Answering, Table, ~Over', [Next]_vars, RestoreSuback
  PROVE  Table' /\ Staying
<1>1. CallersTyped' /\ UNCHANGED <<member, todo>>
  BY CallersStep DEF Table, RestoreSuback, ReceiveSuback
<1>2. UNCHANGED <<registryVars, pc>> \/ \E r, a : Reaches(r, a)
  BY SubackReaches
<1>3. CASE UNCHANGED <<registryVars, pc>>
  BY <1>1, <1>3, TableKept DEF Parts, Joined
<1>4. ASSUME NEW r, NEW a, Reaches(r, a) PROVE Table' /\ Staying
  <2>1. r \in Elements(pending) /\ r.awaiting \in Waiters /\ a.accepted \in BOOLEAN
    BY <1>4 DEF Reaches, Recording
  <2>2. Parts
    <3>1. CASE UNCHANGED registryVars
      BY <3>1 DEF Parts
    <3>2. CASE Identified(r.awaiting.filter, a.accepted)
      <4>1. r.awaiting.filter \in Filters
        BY <2>1, WaitersKinds
      <4> QED BY <2>1, <3>2, <4>1 DEF Parts, Retelling
    <3>3. CASE Leave(member[r.awaiting.open])
      BY <3>3 DEF Parts
    <3> QED BY <1>4, <3>1, <3>2, <3>3 DEF Reaches
  <2>3. \A p \in Opens : (Joined(p)' => Joined(p)) /\ (pc'[p] = "sending" => pc[p] = "sending")
    <3>1. CASE UNCHANGED pc
      BY <3>1 DEF Joined
    <3>2. CASE /\ r.awaiting.kind = "open"
               /\ pc' = [pc EXCEPT ![r.awaiting.open] = IF a.accepted THEN "open" ELSE "failed"]
      <4>1. pc[r.awaiting.open] = "waiting"
        BY <2>1, <3>2 DEF Recording
      <4>2. PICK o : o = r.awaiting.open
        OBVIOUS
      <4>3. \A p \in Opens : pc'[p] = IF p = o THEN IF a.accepted THEN "open" ELSE "failed" ELSE pc[p]
        BY <3>2, <4>2 DEF Table, CallersTyped
      <4> QED BY <4>1, <4>2, <4>3 DEF Joined
    <3> QED BY <1>4, <3>1, <3>2 DEF Reaches
  <2> QED BY <1>1, <2>2, <2>3, TableKept
<1> QED BY <1>2, <1>3, <1>4

\* An answer to a subscribe is read, by the task or within a restore.
LEMMA HoldingAnswered ==
  ASSUME SInv, InStep(TRUE), Stage, Table, Holding, Staying, RestoreSuback
  PROVE  Holding'
<1>1. UNCHANGED <<parked, setAside, channel, lastPkid, server, losses>>
  BY DEF RestoreSuback, ReceiveSuback, clientVars, serverVars, taskVars
<1>2. Recording /\ Answering
  BY DEF Holding
<1>3. /\ Elements(incoming)' \subseteq Elements(incoming)
      /\ Elements(pending)' \subseteq Elements(pending)
      /\ \A i, j \in DOMAIN pending' :
           pending'[i].awaiting = pending'[j].awaiting /\ pending'[i].awaiting.kind \in Single
             => i = j
      /\ UNCHANGED <<registryVars, pc, pending, left, call>> \/ \E r, a : Reaches(r, a)
  BY <1>2, SubackReaches
<1>4. Ahead' = Ahead /\ Asked' = Asked
  BY <1>1, AskedKept DEF Ahead
<1>5. Elements(Ahead)' = Elements(Ahead) /\ Elements(Asked)' = Elements(Asked)
  BY <1>4 DEF Elements
<1>6. \A r \in Elements(pending) :
        /\ r.awaiting \in Waiters /\ r.pkid \in 0..lastPkid
        /\ r.awaiting.kind = "open" => /\ r.awaiting.open \in Opens
                                       /\ pc[r.awaiting.open] = "waiting"
                                       /\ r.awaiting = AwaitingOpen(r.awaiting.open)
                                       /\ r.awaiting.filter = FilterOf[r.awaiting.open]
        /\ r.awaiting.kind = "restore" => Restoring(r.awaiting)
  BY <1>2, WaitersKinds DEF Recording
\* Who waits no longer was told, and whoever is told yes has an answer that says so.
<1> DEFINE Moved ==
        /\ \A s \in Elements(pending)' : s.awaiting.kind = "open" => pc'[s.awaiting.open] = "waiting"
        /\ \A o \in Opens : pc'[o] = "waiting" => pc[o] = "waiting"
        /\ \A o \in Opens : pc'[o] = "open" /\ pc[o] # "open" =>
             /\ pc[o] = "waiting"
             /\ \E r \in Elements(pending) :
                  /\ r.awaiting.kind = "open" /\ r.awaiting.open = o
                  /\ r.awaiting.filter = FilterOf[o] /\ Accepted(r)
\* What is decided about is on the server.
           Decided ==
        /\ \A s \in Elements(pending)' : s.awaiting.kind = "restore" => Restoring(s.awaiting)'
        /\ \A o \in Opens : Subscribed(o) /\ FilterOf[o] \in Elements(left)
             => FilterOf[o] \in Elements(left') \/ server[FilterOf[o]] # NotHeld
<1> HIDE DEF Moved, Decided
<1>7. Moved
  <2>1. CASE UNCHANGED pc
    BY <1>3, <1>6, <2>1 DEF Moved
  <2>2. ASSUME NEW r, NEW a, Reaches(r, a), r.awaiting.kind = "open",
               pc' = [pc EXCEPT ![r.awaiting.open] = IF a.accepted THEN "open" ELSE "failed"]
        PROVE  Moved
    <3>1. /\ r \in Elements(pending) /\ a \in Elements(incoming)
          /\ a.kind = "suback" /\ a.pkid = r.pkid
          /\ \A s \in Elements(pending)' : s.awaiting.kind = "open" => s.awaiting # r.awaiting
      BY <2>2 DEF Reaches, Single
    <3>2. PICK p \in Opens : p = r.awaiting.open
      BY <1>6, <2>2, <3>1
    <3>3. \A o \in Opens : pc'[o] = IF o = p THEN IF a.accepted THEN "open" ELSE "failed" ELSE pc[o]
      BY <2>2, <3>2 DEF Table, CallersTyped
    <3>4. /\ pc[p] = "waiting" /\ r.awaiting = AwaitingOpen(p) /\ r.awaiting.filter = FilterOf[p]
          /\ a.accepted => Accepted(r)
      BY <1>6, <2>2, <3>1, <3>2 DEF Accepted
    <3>5. \A s \in Elements(pending)' : s.awaiting.kind = "open" => s.awaiting.open # p
      BY <1>3, <1>6, <3>1, <3>4
    <3>6. ASSUME NEW s \in Elements(pending)', s.awaiting.kind = "open"
          PROVE  pc'[s.awaiting.open] = "waiting"
      <4>1. /\ s.awaiting.open \in Opens /\ pc[s.awaiting.open] = "waiting"
            /\ s.awaiting.open # p
        BY <1>3, <1>6, <3>5, <3>6
      <4> QED BY <3>3, <4>1
    <3>7. \A o \in Opens : pc'[o] = "waiting" => pc[o] = "waiting"
      BY <3>3, <3>4
    <3>8. ASSUME NEW o \in Opens, pc'[o] = "open", pc[o] # "open"
          PROVE  /\ pc[o] = "waiting"
                 /\ \E x \in Elements(pending) :
                      /\ x.awaiting.kind = "open" /\ x.awaiting.open = o
                      /\ x.awaiting.filter = FilterOf[o] /\ Accepted(x)
      <4>1. o = p /\ a.accepted
        BY <3>3, <3>8
      <4> QED BY <2>2, <3>1, <3>2, <3>4, <4>1
    <3> QED BY <3>6, <3>7, <3>8 DEF Moved
  <2>3. \/ UNCHANGED pc
        \/ \E r, a : /\ Reaches(r, a) /\ r.awaiting.kind = "open"
                     /\ pc' = [pc EXCEPT ![r.awaiting.open] = IF a.accepted THEN "open" ELSE "failed"]
    BY <1>3 DEF Reaches
  <2> QED BY <2>1, <2>2, <2>3
<1>8. Decided
  <2>1. CASE UNCHANGED <<left, call>>
    <3>1. \A w : Restoring(w)' <=> Restoring(w)
      BY <1>1, <2>1 DEF Restoring, AwaitingRestore
    <3> QED BY <1>3, <1>6, <2>1, <3>1 DEF Decided
  <2>2. ASSUME NEW r, NEW a, Reaches(r, a), r.awaiting.kind = "restore",
               IF a.accepted THEN left' = Tail(left) ELSE left' = left
        PROVE  Decided
    <3>1. /\ r \in Elements(pending) /\ a \in Elements(incoming)
          /\ a.kind = "suback" /\ a.pkid = r.pkid
          /\ \A s \in Elements(pending)' : s.awaiting.kind = "restore" => s.awaiting # r.awaiting
      BY <2>2 DEF Reaches, Single
    <3>2. Restoring(r.awaiting)
      BY <1>6, <2>2, <3>1
    <3>3. \A s \in Elements(pending)' : s.awaiting.kind # "restore"
      BY <1>3, <1>6, <3>1, <3>2 DEF Restoring
    <3>4. left # <<>> /\ Vector(left)
      BY <3>2 DEF Restoring, Stage, Calling, NoCall
    <3>5. Elements(left) = {Head(left)} \cup Elements(Tail(left))
      BY <3>4, VectorHeadTail
    <3>6. r.awaiting.filter = Head(left)
      BY <3>2 DEF Restoring, AwaitingRestore
    <3>7. a.accepted => Accepted(r)
      BY <3>1 DEF Accepted
    <3>8. ASSUME NEW o \in Opens, Subscribed(o), FilterOf[o] \in Elements(left),
                 server[FilterOf[o]] = NotHeld
          PROVE  FilterOf[o] \in Elements(left')
      <4>1. CASE a.accepted
        <5>1. FilterOf[o] # Head(left)
          BY <2>2, <3>1, <3>6, <3>7, <3>8, <4>1 DEF Holding, RestoresGranted
        <5> QED BY <2>2, <3>5, <3>8, <4>1, <5>1
      <4>2. CASE ~a.accepted
        BY <2>2, <3>8, <4>2
      <4> QED BY <4>1, <4>2
    <3> QED BY <3>3, <3>8 DEF Decided
  <2>3. \/ UNCHANGED <<left, call>>
        \/ \E r, a : /\ Reaches(r, a) /\ r.awaiting.kind = "restore"
                     /\ IF a.accepted THEN left' = Tail(left) ELSE left' = left
    BY <1>3 DEF Reaches
  <2> QED BY <2>1, <2>2, <2>3
<1> USE DEF Moved, Decided
<1>9. \A o \in Opens : Joined(o)' /\ Joined(o) /\ Lives(o)' => Lives(o)
  BY DEF Staying
<1>10. Worded'
  BY <1>5 DEF Holding, Worded, IsDemand
<1>11. Recording'
  BY <1>1, <1>3, <1>6, <1>7, <1>8 DEF Recording, Waiters
<1>12. Answering'
  BY <1>1, <1>3 DEF Holding, Answering
<1>13. \A o \in Opens : Entering(o)' => Entering(o)
  BY <1>7, <1>9 DEF Entering, Joined
<1>14. Entered'
  BY <1>4, <1>13 DEF Holding, Entered
<1>15. \A f : Firm(f)' = Firm(f)
  BY <1>1, <1>5 DEF Firm
<1>16. \A s : Accepted(s)' => Accepted(s)
  BY <1>3 DEF Accepted
<1>17. OpensGranted'
  <2> SUFFICES ASSUME NEW s \in Elements(pending)', s.awaiting.kind = "open", Accepted(s)',
                      Lives(s.awaiting.open)'
               PROVE  Firm(s.awaiting.filter)'
    BY DEF OpensGranted
  <2>1. s \in Elements(pending) /\ Accepted(s)
    BY <1>3, <1>16
  <2>2. PICK o \in Opens : o = s.awaiting.open /\ pc[o] = "waiting" /\ pc'[o] = "waiting"
    BY <1>6, <1>7, <2>1
  <2>3. Lives(o)'
    BY <2>2
  <2>4. Lives(o)
    BY <1>9, <2>2, <2>3 DEF Joined
  <2>5. Firm(s.awaiting.filter)
    BY <2>1, <2>2, <2>4 DEF Holding, OpensGranted
  <2> QED BY <1>15, <2>5
<1>18. ASSUME NEW o \in Opens, Subscribed(o)'
       PROVE  Subscribed(o) \/ Firm(FilterOf[o])
  <2>1. CASE pc[o] = "open"
    BY <1>9, <1>18, <2>1 DEF Subscribed, Joined
  <2>2. CASE pc[o] # "open"
    <3>1. pc[o] = "waiting" /\ Lives(o)
      BY <1>7, <1>9, <1>18, <2>2 DEF Subscribed, Joined
    <3>2. PICK r \in Elements(pending) :
            /\ r.awaiting.kind = "open" /\ r.awaiting.open = o
            /\ r.awaiting.filter = FilterOf[o] /\ Accepted(r)
      BY <1>7, <1>18, <2>2 DEF Subscribed
    <3>3. Lives(r.awaiting.open)
      BY <3>1, <3>2
    <3>4. Firm(r.awaiting.filter)
      BY <3>2, <3>3 DEF Holding, OpensGranted
    <3> QED BY <3>2, <3>4
  <2> QED BY <2>1, <2>2
<1>19. RestoresGranted'
  <2>1. ASSUME NEW s \in Elements(pending)', s.awaiting.kind = "restore", Accepted(s)',
               NEW o \in Opens, Subscribed(o)', FilterOf[o] = s.awaiting.filter
        PROVE  server'[FilterOf[o]] # NotHeld
    <3>1. s \in Elements(pending) /\ Accepted(s)
      BY <1>3, <1>16, <2>1
    <3> QED BY <1>1, <1>18, <2>1, <3>1 DEF Holding, RestoresGranted, Firm
  <2> QED BY <2>1 DEF RestoresGranted
<1>20. Upholding'
  <2>1. ASSUME NEW o \in Opens, Subscribed(o)'
        PROVE  /\ Unsubscribe(FilterOf[o]) \notin Elements(Asked)
               /\ server'[FilterOf[o]] # NotHeld \/ FilterOf[o] \in Elements(left')
    BY <1>1, <1>8, <1>18, <2>1 DEF Holding, Upholding, Standing, Firm
  <2>2. Elements(left)' = Elements(left')
    BY DEF Elements
  <2> QED BY <1>5, <2>1, <2>2 DEF Upholding, Standing
<1> QED BY <1>10, <1>11, <1>12, <1>14, <1>17, <1>19, <1>20 DEF Holding

-----------------------------------------------------------------------------
(* A new session.                                                          *)

\* The filters a recovery lists are the wires'.
LEMMA SubscriptionsListed ==
  ASSUME Structure
  PROVE  /\ Vector(Subscriptions) /\ Elements(Subscriptions) \subseteq Filters
         /\ Elements(Subscriptions) = {wires[n].filter : n \in DOMAIN wires}
<1>1. /\ DOMAIN wires = 1..Len(wires) /\ Len(wires) \in Nat
      /\ \A n \in DOMAIN wires : wires[n] \in Wire
  BY SeqPlaces DEF Structure, RegistryTypeOK
<1>2. \A n \in DOMAIN wires : wires[n].filter \in Filters
  BY <1>1 DEF Wire
<1>3. Subscriptions \in [1..Len(wires) -> Filters]
  BY <1>1, <1>2 DEF Subscriptions
<1>4. Vector(Subscriptions) /\ Elements(Subscriptions) \subseteq Filters
  BY <1>1, <1>3, FunctionIsSeq, VectorOf
<1>5. Elements(Subscriptions) = {wires[n].filter : n \in DOMAIN wires}
  BY DEF Elements, Subscriptions
<1> QED BY <1>4, <1>5

\* The server of a new session holds nothing: every filter is to be decided about.
LEMMA HoldingRenewed ==
  ASSUME SInv, SInv', InStep(TRUE), Stage, Table, Table', Holding, Staying,
         NEW identifiers \in Offers, Connect(FALSE, identifiers)
  PROVE  Holding'
<1>1. /\ task = "down" /\ policy = "custom" /\ incoming = <<>> /\ call = NoCall
      /\ Connack(FALSE, identifiers) /\ left' = Subscriptions
      /\ UNCHANGED <<pc, member, lastPkid, incoming>>
  BY DEF Connect, Connack, Stage, Calling, callerVars, openVars
<1>2. channel' = channel /\ pending' = pending
  <2> DEFINE new == [n \in DOMAIN <<>> |-> Record(<<>>[n].awaiting)]
  <2>1. channel' = channel \o <<>> /\ pending' = pending \o new
    BY <1>1 DEF Connack
  <2>2. new = <<>>
    <3>1. new \in [1..0 -> {}]
      OBVIOUS
    <3>2. Vector(new) /\ Elements(new) = {}
      BY <3>1, FunctionIsSeq, VectorOf
    <3> QED BY <3>2, VectorNone
  <2> HIDE DEF new
  <2>3. channel \o <<>> = channel /\ pending \o <<>> = pending
    BY VectorConcats DEF SInv, Shape, InStep
  <2> QED BY <2>1, <2>2, <2>3
<1>3. /\ Vector(parked) /\ Vector(channel) /\ Vector(setAside')
      /\ Ahead = parked \o channel /\ Ahead' = setAside' \o channel
      /\ \A r \in Elements(setAside') : r.kind = "publish"
      /\ Demanded(setAside') = <<>>
  BY <1>1, <1>2, PublishesAnew DEF SInv
<1>4. /\ Elements(Ahead) = Elements(parked) \cup Elements(channel)
      /\ Elements(Ahead') = Elements(setAside') \cup Elements(channel)
  BY <1>3, VectorConcat
<1>5. PICK a, b : a = Demanded(parked) /\ b = Demanded(channel)
  OBVIOUS
<1>6. Vector(a) /\ Vector(b) /\ Asked = a \o b /\ Asked' = b
  <2>1. Vector(a) /\ Vector(b) /\ Asked = a \o b
    BY <1>3, <1>5, DemandedProperties DEF Asked
  <2>2. Asked' = <<>> \o b
    BY <1>3, <1>5, DemandedProperties, AskedNext
  <2> QED BY <2>1, <2>2, VectorConcats
<1>7. PICK k \in Nat, l \in Nat : /\ DOMAIN Asked = 1..(k + l) /\ DOMAIN Asked' = 1..l
                                  /\ \A i \in 1..l : Asked'[i] = Asked[k + i]
  <2>1. /\ Len(a) \in Nat /\ Len(b) \in Nat /\ DOMAIN b = 1..Len(b)
        /\ DOMAIN (a \o b) = 1..(Len(a) + Len(b))
        /\ \A i \in 1..Len(b) : (a \o b)[Len(a) + i] = b[i]
    <3>1. PICK S : a \in Seq(S) /\ b \in Seq(S)
      <4>1. a \in Seq(Elements(a) \cup Elements(b)) /\ b \in Seq(Elements(a) \cup Elements(b))
        BY <1>6, VectorIn
      <4> QED BY <4>1
    <3> HIDE <1>5
    <3> QED BY <3>1
  <2> QED BY <1>6, <2>1
<1>8. Elements(Asked') \subseteq Elements(Asked)
  BY <1>6, VectorConcat
<1>9. /\ Elements(Ahead)' = Elements(Ahead') /\ Elements(incoming)' = Elements(incoming)
      /\ Elements(pending)' = Elements(pending) /\ Elements(Asked)' = Elements(Asked')
      /\ Elements(left)' = Elements(left') /\ Elements(incoming) = {}
  BY <1>1, <1>2, VectorEmpty DEF Elements
<1>10. Worded'
  BY <1>3, <1>4, <1>9 DEF Holding, Worded, IsDemand
<1>11. \A r \in Elements(pending) : r.awaiting.kind # "restore"
  BY <1>1 DEF Holding, Recording, Restoring, NoCall
<1>12. Recording'
  BY <1>1, <1>2, <1>9, <1>11 DEF Holding, Recording, Waiters
<1>13. Answering' /\ OpensGranted' /\ RestoresGranted'
  BY <1>9 DEF Answering, OpensGranted, RestoresGranted, Accepted
<1>14. \A o \in Opens : Entering(o)' => Entering(o)
  BY <1>1 DEF Entering, Staying, Joined
<1>15. Entered'
  <2> SUFFICES ASSUME NEW o \in Opens, Entering(o)', NEW i \in 1..l, NEW j \in 1..l,
                      Asked'[i] = Unsubscribe(FilterOf[o]),
                      Asked'[j].kind = "subscribe", Asked'[j].awaiting = AwaitingOpen(o)
               PROVE  i < j
    BY <1>7 DEF Entered
  <2>1. PICK x, y : x = k + i /\ y = k + j
    OBVIOUS
  <2>2. /\ x \in 1..(k + l) /\ Asked[x] = Asked'[i]
        /\ y \in 1..(k + l) /\ Asked[y] = Asked'[j]
    BY <1>7, <2>1
  <2>3. x < y
    BY <1>7, <1>14, <2>2 DEF Holding, Entered
  <2> QED BY <2>1, <2>3
<1>16. Upholding'
  <2> SUFFICES ASSUME NEW o \in Opens, Subscribed(o)'
               PROVE  Standing(FilterOf[o])'
    BY DEF Upholding
  <2>1. Subscribed(o)
    BY <1>1 DEF Subscribed, Staying, Joined
  <2>2. Unsubscribe(FilterOf[o]) \notin Elements(Asked')
    BY <1>8, <2>1 DEF Holding, Upholding, Standing
  <2>3. PICK n \in DOMAIN wires : \E i \in DOMAIN wires[n].members : Seat(member[o], n, i)
    BY <2>1 DEF Subscribed, Lives
  <2>4. wires[n].filter = FilterOf[o]
    BY <2>1, <2>3 DEF Table, Seats, Subscribed, Joined
  <2>5. FilterOf[o] \in Elements(left')
    BY <1>1, <2>4, SubscriptionsListed DEF Table
  <2> QED BY <1>9, <2>2, <2>5 DEF Standing
<1> QED BY <1>10, <1>12, <1>13, <1>15, <1>16 DEF Holding

-----------------------------------------------------------------------------
(* What the reconnector decides.                                           *)

\* A subscription that is ended takes its wire with it.
LEMMA FilterEnded ==
  ASSUME Structure, NEW f, EndFilter(f)
  PROVE  \A n \in DOMAIN wires' : wires'[n].filter # f
<1>1. PICK k \in DOMAIN wires : wires[k].filter = f /\ wires' = SwapRemove(wires, k)
  BY DEF EndFilter
<1>2. wires \in Seq(Wire)
  BY DEF Structure, RegistryTypeOK
<1>3. \A n \in DOMAIN wires' : Origin(wires, k, n) \in DOMAIN wires \ {k}
                               /\ wires'[n] = wires[Origin(wires, k, n)]
  BY <1>1, <1>2, SwapRemoveProperties
<1> QED BY <1>1, <1>3 DEF Structure, OneWirePerFilter

\* Deciding about a subscription changes nothing at the table but that it may be ended.
LEMMA TableDecided ==
  ASSUME Table, Restore \/ RestoreQueue \/ EndSubscription \/ Resume
  PROVE  Table' /\ Staying
<1>1. UNCHANGED <<closed, shutdown, pc, member, todo, server, offered>>
  BY DEF Restore, RestoreQueue, EndSubscription, Resume, vars, callerVars, openVars, wireVars,
         serverVars, taskVars
<1>2. Parts
  BY DEF Restore, RestoreQueue, EndSubscription, Resume, vars, Parts
<1>3. CallersTyped'
  BY <1>1 DEF Table, CallersTyped
<1> QED BY <1>1, <1>2, <1>3, TableKept DEF Joined

\* The records stay in step, and so does all that the client has to send.
LEMMA SessionDecided ==
  ASSUME SInv, InStep(TRUE), Structure', Restore \/ RestoreQueue \/ EndSubscription \/ Resume
  PROVE  SInv' /\ InStep(TRUE)'
<1>1. /\ UNCHANGED <<parked, setAside, unconfirmed, incoming, lastPkid, unreleased, received,
                     renewed, publishing>>
      /\ task = "restoring" /\ task' # "down"
  BY DEF Restore, RestoreQueue, EndSubscription, Resume, vars, callerVars, clientVars, wireVars,
         serverVars, taskVars
<1>2. Vector(wires') /\ Typed
  BY VectorOf, ShapeTyped DEF SInv, Structure, RegistryTypeOK
<1>3. publishing \in [Messages -> {"idle", "queuing", "accepted", "refused"}]
  BY DEF SInv, Shape
<1>4. ASSUME UNCHANGED channel \/ \E x : ~IsTraffic(x) /\ channel' = Append(channel, x)
      PROVE  SInv'
  <2>1. Quiet
    BY <1>1, <1>3, <1>4 DEF Quiet, Connected
  <2>2. Shape' /\ Still
    BY <2>1, QuietStill DEF SInv
  <2> QED BY <1>2, <2>2, StillLedger DEF SInv
<1>5. Elements(incoming)' = Elements(incoming)
  BY <1>1 DEF Elements
<1>6. CASE Restore \/ EndSubscription \/ Resume
  <2>1. UNCHANGED <<channel, pending>>
    BY <1>6 DEF Restore, EndSubscription, Resume, vars, clientVars
  <2>2. SentFor(Ahead)' = SentFor(Ahead)
    BY <1>1, <2>1 DEF Ahead, SentFor, Select, At, IsSubscribe, AwaitedIn
  <2>3. InStep(TRUE)'
    BY <1>5, <2>1, <2>2, RecordsUndisturbed DEF InStep
  <2> QED BY <1>4, <2>1, <2>3
<1>7. CASE RestoreQueue
  <2>1. PICK f, id, w, x : /\ x = Subscribe(f, id, w)
                           /\ channel' = Append(channel, x) /\ pending' = Append(pending, Record(w))
    BY <1>7 DEF RestoreQueue, SendSubscribe
  <2>2. IsSubscribe(x) /\ ~IsTraffic(x) /\ x.awaiting = w
    BY <2>1 DEF Subscribe, IsSubscribe, IsTraffic
  <2>3. InStep(TRUE)'
    BY <1>1, <2>1, <2>2, RecordsQueued DEF SInv
  <2> QED BY <1>4, <2>1, <2>2, <2>3
<1> QED BY <1>6, <1>7

\* The reconnector's decisions: a restore it begins, a subscription it ends, and the end of
\* the recovery.
LEMMA HoldingDecided ==
  ASSUME SInv, SInv', Stage, Table, Table', Holding, Staying, Restore \/ EndSubscription \/ Resume
  PROVE  Holding'
<1>1. UNCHANGED <<pc, member, pending, parked, setAside, channel, incoming, lastPkid, renewed, server,
                  losses, severed>>
  BY DEF Restore, EndSubscription, Resume, vars, callerVars, openVars, clientVars, wireVars,
         serverVars, taskVars
<1>2. Placid
  <2>1. \A o \in Opens : /\ pc'[o] = "waiting" <=> pc[o] = "waiting"
                         /\ pc'[o] = "open" => pc[o] = "open"
    BY <1>1
  <2> QED BY <1>1, <2>1, CalmSteady, CalmPlacid
<1>3. \A r \in Elements(pending) : r.awaiting.kind # "restore"
  BY DEF Holding, Recording, Restoring, Restore, EndSubscription, Resume, NoCall
<1>4. \/ left' = left
      \/ /\ left # <<>> /\ left' = Tail(left)
         /\ \A n \in DOMAIN wires' : wires'[n].filter # Head(left)
  <2>1. CASE Restore \/ Resume
    BY <2>1 DEF Restore, Resume, Holds, vars, registryVars, recoveryVars
  <2>2. CASE EndSubscription
    <3>1. left # <<>> /\ left' = Tail(left)
      BY <2>2 DEF EndSubscription
    <3>2. CASE Holds(Head(left))
      BY <2>2, <3>1, <3>2, FilterEnded DEF EndSubscription, Table
    <3>3. CASE ~Holds(Head(left))
      BY <2>2, <3>1, <3>3 DEF EndSubscription, Holds, registryVars
    <3> QED BY <3>2, <3>3
  <2> QED BY <2>1, <2>2
<1>5. ASSUME NEW o \in Opens, Subscribed(o)', FilterOf[o] \in Elements(left)
      PROVE  FilterOf[o] \in Elements(left')
  <2>1. CASE left' = left
    BY <1>5, <2>1
  <2>2. CASE /\ left # <<>> /\ left' = Tail(left)
             /\ \A n \in DOMAIN wires' : wires'[n].filter # Head(left)
    <3>1. FilterOf[o] # Head(left)
      <4>1. PICK n \in DOMAIN wires' : \E i \in DOMAIN wires'[n].members : Seat(member[o], n, i)'
        BY <1>1, <1>5 DEF Subscribed, Lives, Seat
      <4>2. wires'[n].filter = FilterOf[o]
        BY <1>1, <1>5, <4>1 DEF Table, Seats, Subscribed, Joined, Seat
      <4> QED BY <2>2, <4>2
    <3>2. Elements(left) = {Head(left)} \cup Elements(Tail(left))
      BY <2>2, VectorHeadTail DEF Stage
    <3> QED BY <1>5, <2>2, <3>1, <3>2
  <2> QED BY <1>4, <2>1, <2>2
<1>6. Leaving
  <2>1. Elements(left)' = Elements(left')
    BY DEF Elements
  <2> QED BY <1>3, <1>5, <2>1 DEF Leaving
<1> QED BY <1>2, <1>6, HoldingKept

-----------------------------------------------------------------------------
(* How far the recovery is, step by step.                                  *)

\* A step that leaves the reconnector where it is.
LEMMA StageSteady ==
  ASSUME Stage, UNCHANGED <<recoveryVars, losses, task>>, task = "down" => incoming' = incoming
  PROVE  Stage'
<1>1. left' = left /\ call' = call
  BY DEF recoveryVars
<1>2. Vector(left)' = Vector(left) /\ Elements(left)' = Elements(left)
  BY <1>1 DEF Vector, Elements
<1> QED BY <1>1, <1>2 DEF Stage, Calling

\* The steps of callers and of the task, while the connection is up.
LEMMA StageGoesOn ==
  ASSUME Stage, UNCHANGED recoveryVars, ~Over',
         Calls \/ Sever \/ DialFails \/ Write \/ ReceiveConfirmation
  PROVE  Stage'
<1>1. CASE Calls
  <2>1. UNCHANGED <<task, losses, incoming>>
    BY <1>1 DEF Calls, OpenCheck, OpenJoin, OpenSend, Drop, PublishCheck, PublishQueue, Shutdown,
                ShutdownQueue, wireVars, taskVars
  <2> QED BY <2>1, StageSteady
<1>2. CASE Sever \/ DialFails
  <2>1. UNCHANGED <<task, losses, incoming>>
    BY <1>2 DEF Sever, DialFails, GiveUp, Over, wireVars, taskVars
  <2> QED BY <2>1, StageSteady
<1>3. CASE Write
  <2>1. UNCHANGED <<task, losses>> /\ task # "down"
    BY <1>3 DEF Write, WriteSubscribe, WriteUnsubscribe, WritePublish, WriteRelease,
                WriteDisconnect, Up, Connected, Over, taskVars
  <2> QED BY <2>1, StageSteady
<1>4. CASE ReceiveConfirmation
  <2>1. UNCHANGED <<task, losses>> /\ task # "down"
    BY <1>4 DEF ReceiveConfirmation, Reads, Connected, taskVars
  <2> QED BY <2>1, StageSteady
<1> QED BY <1>1, <1>2, <1>3, <1>4

\* The first loss.
LEMMA StageLost ==
  ASSUME Stage, losses \in Nat, UNCHANGED recoveryVars, MayLose, Lose, ~Over'
  PROVE  Stage'
<1>1. task = "up" /\ task' = "down" /\ incoming' = <<>> /\ losses' = 1
  BY DEF MayLose, Lose, GiveUp, Over
<1>2. left = <<>> /\ call = NoCall /\ left' = left /\ call' = call
  BY <1>1 DEF Stage, Calling, recoveryVars
<1>3. Vector(left)' = Vector(left) /\ Elements(left)' = Elements(left)
  BY <1>2 DEF Vector, Elements
<1> QED BY <1>1, <1>2, <1>3 DEF Stage, Calling, NoCall

\* A dial reaches the server: every filter, or none, is to be decided about.
LEMMA StageConnected ==
  ASSUME Stage, Structure, NEW present, NEW identifiers, Connect(present, identifiers)
  PROVE  Stage'
<1>1. task' = "restoring" /\ losses' = losses /\ losses # 0 /\ call' = NoCall
  BY DEF Connect, Connack, Stage
<1>2. left' = Subscriptions \/ left' = <<>>
  BY DEF Connect
<1>3. Vector(left') /\ Elements(left') \subseteq Filters
  BY <1>2, SubscriptionsListed, VectorEmpty
<1>4. Vector(left)' = Vector(left') /\ Elements(left)' = Elements(left')
  BY DEF Vector, Elements
<1> QED BY <1>1, <1>3, <1>4 DEF Stage, Calling, NoCall

\* What is left once the first filter is decided about.
LEMMA StageAdvanced ==
  ASSUME Stage, left # <<>>, left' = Tail(left), call' = NoCall, UNCHANGED <<task, losses>>,
         task = "restoring"
  PROVE  Stage'
<1>1. Vector(Tail(left)) /\ Elements(left) = {Head(left)} \cup Elements(Tail(left))
  BY VectorHeadTail DEF Stage
<1>2. Vector(left)' = Vector(left') /\ Elements(left)' = Elements(left')
  BY DEF Vector, Elements
<1> QED BY <1>1, <1>2 DEF Stage, Calling, NoCall

\* A restore is answered, or somebody else is.
LEMMA StageAnswered ==
  ASSUME SInv, InStep(TRUE), Recording, Answering, Stage, RestoreSuback
  PROVE  Stage'
<1>1. UNCHANGED <<task, losses, matched>> /\ task # "down"
  BY DEF RestoreSuback, ReceiveSuback, Reads, Connected, taskVars
<1>2. CASE UNCHANGED <<left, call>>
  BY <1>1, <1>2, StageSteady DEF recoveryVars
<1>3. ASSUME NEW r, NEW a, Reaches(r, a), r.awaiting.kind = "restore",
             IF a.accepted THEN call' = NoCall /\ left' = Tail(left)
             ELSE call' = [phase |-> "refused"] /\ left' = left
      PROVE  Stage'
  <2>1. call.phase = "waiting"
    BY <1>3 DEF Reaches, Recording, Restoring
  <2>2. task = "restoring" /\ left # <<>>
    BY <2>1 DEF Stage, Calling, NoCall
  <2>3. CASE call' = NoCall /\ left' = Tail(left)
    BY <1>1, <2>2, <2>3, StageAdvanced
  <2>4. CASE call' = [phase |-> "refused"] /\ left' = left
    <3>1. Vector(left)' = Vector(left) /\ Elements(left)' = Elements(left)
      BY <2>4 DEF Vector, Elements
    <3> QED BY <1>1, <2>2, <2>4, <3>1 DEF Stage, Calling
  <2> QED BY <1>3, <2>3, <2>4
<1> QED BY <1>2, <1>3, SubackReaches DEF Reaches

\* The reconnector's own steps.
LEMMA StageDecided ==
  ASSUME Stage, Structure, ~Over', Restore \/ RestoreQueue \/ EndSubscription \/ Resume
  PROVE  Stage'
<1>1. task = "restoring" /\ losses' = losses
  BY DEF Restore, RestoreQueue, EndSubscription, Resume, vars, taskVars
<1>2. ASSUME left' = left
      PROVE  Vector(left)' = Vector(left) /\ Elements(left)' = Elements(left)
  BY <1>2 DEF Vector, Elements
<1>3. CASE Restore
  <2>1. task' = task
    BY <1>3 DEF Restore, vars, taskVars
  <2>2. CASE ~Holds(Head(left))
    BY <1>1, <1>3, <2>1, <2>2, StageAdvanced DEF Restore
  <2>3. CASE Holds(Head(left))
    <3>1. /\ left # <<>> /\ left' = left
          /\ call' = [phase |-> "queuing", request |-> RestoreRequest(Head(left))]
      BY <1>3, <2>3 DEF Restore
    <3>2. RestoreRequest(Head(left)).filter = Head(left)
          /\ RestoreRequest(Head(left)).identifier \in Nat
      <4>1. \A n \in DOMAIN wires : wires[n].identifier \in Nat
        <5>1. \A n \in DOMAIN wires : wires[n] \in Wire
          BY SeqPlaces DEF Structure, RegistryTypeOK
        <5>2. \A n \in DOMAIN wires : wires[n].identifier \in Identifiers \cup {NoIdentifier}
          BY <5>1 DEF Wire
        <5> QED BY <5>2, RegistryAssumption DEF Identifiers, NoIdentifier
      <4> QED BY <2>3, <4>1 DEF Holds, RestoreRequest, NoIdentifier
    <3> QED BY <1>1, <1>2, <2>1, <3>1, <3>2 DEF Stage, Calling
  <2> QED BY <2>2, <2>3
<1>4. CASE RestoreQueue
  <2>1. task' = task /\ left' = left /\ call' = [call EXCEPT !.phase = "waiting"] /\ call.phase = "queuing"
    BY <1>4 DEF RestoreQueue, taskVars
  <2>2. /\ left # <<>> /\ call = [phase |-> call.phase, request |-> call.request]
        /\ call.request.filter = Head(left) /\ call.request.identifier \in Nat
    BY <2>1 DEF Stage, Calling, NoCall
  <2>3. call' = [phase |-> "waiting", request |-> call.request]
    BY <2>1, <2>2
  <2> QED BY <1>1, <1>2, <2>1, <2>2, <2>3 DEF Stage, Calling
<1>5. CASE EndSubscription
  BY <1>1, <1>5, StageAdvanced DEF EndSubscription, taskVars
<1>6. CASE Resume
  <2>1. task' = "up" /\ left = <<>> /\ left' = left /\ call = NoCall /\ call' = call
    BY <1>6 DEF Resume, Over, recoveryVars
  <2>2. losses # 0
    BY <1>1 DEF Stage
  <2> QED BY <1>1, <1>2, <2>1, <2>2 DEF Stage, Calling
<1> QED BY <1>3, <1>4, <1>5, <1>6

-----------------------------------------------------------------------------
(* The invariant.                                                          *)

\* The steps of the session that leave the reconnector alone.
LEMMA HoldingSession ==
  ASSUME SInv, SInv', InStep(TRUE), Stage, Table, Table', Holding, Staying, ~Over, ~Over',
         UNCHANGED recoveryVars, Calls \/ Goings
  PROVE  Holding'
<1>1. CallersTyped
  BY DEF Table
<1>2. ASSUME NEW o \in Opens, OpenSend(o) PROVE Holding'
  <2>1. CASE GivesUp(o)
    <3>1. UNCHANGED <<pending, parked, setAside, channel, incoming, lastPkid, renewed, server,
                      losses, severed>>
      BY <1>2, <2>1 DEF OpenSend, GivesUp, wireVars, serverVars, taskVars
    <3>2. \A p \in Opens : /\ pc'[p] = "waiting" <=> pc[p] = "waiting"
                           /\ pc'[p] = "open" => pc[p] = "open"
      BY <1>1, <2>1 DEF GivesUp, CallersTyped
    <3>3. Placid
      BY <3>1, <3>2, CalmSteady, CalmPlacid
    <3> QED BY <3>1, <3>3, LeavingSame, HoldingKept
  <2>2. CASE ~GivesUp(o)
    BY <1>2, <2>2, HoldingOpened
  <2> QED BY <2>1, <2>2
<1>3. ASSUME NEW o \in Opens, Drop(o) PROVE Holding'
  BY <1>3, HoldingLeft
<1>4. CASE \/ \E o \in Opens : OpenCheck(o) \/ OpenJoin(o)
           \/ \E m \in Messages : PublishCheck(m) \/ PublishQueue(m)
           \/ Shutdown \/ ShutdownQueue \/ Sever \/ DialFails
           \/ WritePublish \/ WriteRelease \/ ReceiveConfirmation
  BY <1>1, <1>4, HoldingCalm
<1>5. CASE WriteSubscribe
  BY <1>5, HoldingSubscribed
<1>6. CASE WriteUnsubscribe
  BY <1>6, HoldingUnsubscribed
<1>7. CASE Lose
  BY <1>7, HoldingLost
<1>8. CASE UNCHANGED vars
  <2>1. UNCHANGED <<pc, pending, parked, setAside, channel, incoming, lastPkid, renewed, server,
                    losses, severed>>
    BY <1>8 DEF vars, callerVars, openVars, clientVars, wireVars, serverVars, taskVars
  <2>2. \A o \in Opens : /\ pc'[o] = "waiting" <=> pc[o] = "waiting"
                         /\ pc'[o] = "open" => pc[o] = "open"
    BY <2>1
  <2>3. Placid
    BY <2>1, <2>2, CalmSteady, CalmPlacid
  <2> QED BY <2>1, <2>3, LeavingSame, HoldingKept
<1>9. ~WriteDisconnect
  BY DEF WriteDisconnect, Over
<1> QED BY <1>2, <1>3, <1>4, <1>5, <1>6, <1>7, <1>8, <1>9 DEF Calls, Goings, Write

\* The session's steps.
LEMMA SessionKeeps ==
  ASSUME Recovering, losses \in Nat, ~Over, ~Over', UNCHANGED recoveryVars, Calls \/ Goings,
         losses' # losses => MayLose
  PROVE  Recovering'
<1>1. SInv /\ InStep(TRUE) /\ Stage /\ Table /\ Holding
  BY DEF Recovering
<1>2. SInv'
  <2>1. [Next]_vars
    BY DEF Calls, Goings, Next
  <2> QED BY <1>1, <2>1, SInvStep
<1>3. InStep(TRUE)'
  <2>1. CASE WriteSubscribe
    BY <1>1, <2>1, RecordsNumbered
  <2>2. CASE WriteUnsubscribe \/ WritePublish \/ WriteRelease \/ WriteDisconnect
    BY <1>1, <2>2, RecordsOtherWrites
  <2>3. CASE Lose
    BY <1>1, <2>3, RecordsLost
  <2>4. CASE Calls \/ ReceiveConfirmation \/ Sever \/ DialFails \/ UNCHANGED vars
    BY <1>1, <2>4, RecordsCallers DEF Calls
  <2> QED BY <2>1, <2>2, <2>3, <2>4 DEF Goings, Write
<1>4. Stage'
  <2>1. CASE Lose
    <3>1. losses' # losses
      BY <2>1 DEF Lose
    <3> QED BY <1>1, <2>1, <3>1, StageLost
  <2>2. CASE UNCHANGED vars
    BY <1>1, <2>2, StageSteady DEF vars, wireVars, taskVars
  <2>3. CASE Calls \/ Sever \/ DialFails \/ Write \/ ReceiveConfirmation
    BY <1>1, <2>3, StageGoesOn
  <2> QED BY <2>1, <2>2, <2>3 DEF Goings
<1>5. Table' /\ Staying
  BY <1>1, TableMoves DEF Elsewhere
<1>6. Holding'
  BY <1>1, <1>2, <1>5, HoldingSession
<1> QED BY <1>2, <1>3, <1>4, <1>5, <1>6 DEF Recovering

\* A CONNACK found the records in step.
RecordsInStep == SentFor(Ahead) = WaitingIn(pending)

LEMMA MatchesInStep == Shape /\ Vector(pending) /\ RecordsMatch => RecordsInStep
  BY InStepMatches DEF RecordsInStep

LEMMA MatchesInStepNext == (Shape /\ Vector(pending) /\ RecordsMatch)' => RecordsInStep'
  BY MatchesInStep, PTL

\* A dial reaches the server.
LEMMA ConnectKeeps ==
  ASSUME Recovering, ~Over', matched', NEW present \in BOOLEAN, NEW identifiers \in Offers,
         Connect(present, identifiers)
  PROVE  Recovering'
<1>1. SInv /\ InStep(TRUE) /\ Stage /\ Table /\ Holding /\ Structure
  BY DEF Recovering, Table
<1>2. Connack(present, identifiers)
  BY DEF Connect
<1>3. SInv'
  <2>1. [Next]_vars
    BY <1>2 DEF Next
  <2> QED BY <1>1, <2>1, SInvStep
<1>4. InStep(TRUE)'
  <2>1. CASE present
    BY <1>1, <1>2, <2>1, RecordsConnack
  <2>2. CASE ~present
    <3>1. InStep(FALSE)
      BY <1>1 DEF InStep
    <3>2. InStep(FALSE)'
      BY <1>1, <1>2, <3>1, RecordsConnack
    <3>3. (Shape /\ Vector(pending) /\ RecordsMatch)'
      BY <1>3, <3>2 DEF SInv, InStep, Connect
    <3>4. RecordsInStep'
      BY <3>3, MatchesInStepNext
    <3> QED BY <3>2, <3>4 DEF InStep, RecordsInStep
  <2> QED BY <2>1, <2>2
<1>5. Stage'
  BY <1>1, StageConnected
<1>6. Table' /\ Staying
  BY <1>1, <1>2, TableMoves DEF Elsewhere
<1>7. Holding'
  <2>1. CASE present
    BY <1>1, <1>2, <1>3, <1>6, <2>1, HoldingResumed
  <2>2. CASE ~present
    BY <1>1, <1>3, <1>6, <2>2, HoldingRenewed
  <2> QED BY <2>1, <2>2
<1> QED BY <1>3, <1>4, <1>5, <1>6, <1>7 DEF Recovering

\* The reconnector's own steps.
LEMMA DecidedKeeps ==
  ASSUME Recovering, losses \in Nat, ~Over', Restore \/ RestoreQueue \/ EndSubscription \/ Resume
  PROVE  Recovering'
<1>1. SInv /\ InStep(TRUE) /\ Stage /\ Table /\ Holding /\ Structure
  BY DEF Recovering, Table
<1>2. Table' /\ Staying
  BY <1>1, TableDecided
<1>3. SInv' /\ InStep(TRUE)'
  BY <1>1, <1>2, SessionDecided DEF Table
<1>4. Stage'
  BY <1>1, StageDecided
<1>5. Holding'
  <2>1. CASE RestoreQueue
    BY <1>1, <1>2, <2>1, HoldingRestores
  <2>2. CASE Restore \/ EndSubscription \/ Resume
    BY <1>1, <1>2, <1>3, <2>2, HoldingDecided
  <2> QED BY <2>1, <2>2
<1> QED BY <1>2, <1>3, <1>4, <1>5 DEF Recovering

\* A SUBACK is read.
LEMMA AnsweredKeeps ==
  ASSUME Recovering, ~Over', RestoreSuback
  PROVE  Recovering'
<1>1. SInv /\ InStep(TRUE) /\ Stage /\ Table /\ Holding /\ Recording /\ Answering
  BY DEF Recovering, Holding
<1>2. ReceiveSuback /\ [Next]_vars
  BY DEF RestoreSuback, Next
<1>3. SInv'
  BY <1>1, <1>2, SInvStep
<1>4. InStep(TRUE)'
  BY <1>1, <1>2, RecordsAnswered
<1>5. Table' /\ Staying
  BY <1>1, <1>2, TableAnswered
<1>6. Stage'
  BY <1>1, StageAnswered
<1>7. Holding'
  BY <1>1, <1>5, HoldingAnswered
<1> QED BY <1>3, <1>4, <1>5, <1>6, <1>7 DEF Recovering

\* The losses are counted, and what has gone wrong stays so.
LEMMA CourseOfRecovery ==
  ASSUME losses \in Nat, [RecoveryNext]_allVars
  PROVE  losses' \in Nat /\ (Live' => Live)
<1>1. CASE UNCHANGED allVars
  BY <1>1 DEF allVars, vars, taskVars, recoveryVars, Live, Over
<1>2. CASE (Callers \/ DialFails \/ Closing \/ EndRecords \/ Exit) /\ UNCHANGED recoveryVars
  <2>1. losses' = losses /\ matched' = matched
    BY <1>2 DEF Callers, OpenCheck, OpenJoin, OpenSend, Drop, PublishCheck, PublishQueue, Shutdown,
                ShutdownQueue, DialFails, Closing, EndRecords, Exit, recoveryVars, taskVars
  <2>2. [Next]_vars
    BY <1>2 DEF Callers, Next
  <2> QED BY <2>1, <2>2, OverStays DEF Live
<1>3. CASE (Sever \/ Lose) /\ MayLose /\ UNCHANGED recoveryVars
  <2>1. losses' \in {losses, losses + 1} /\ matched' = matched /\ ~Over
    BY <1>3 DEF Sever, Lose, Connected, Over, recoveryVars, taskVars
  <2> QED BY <2>1 DEF Live
<1>4. CASE (Write \/ ReceiveConfirmation) /\ Polls /\ UNCHANGED recoveryVars
  <2>1. losses' = losses /\ matched' = matched /\ ~Over
    BY <1>4 DEF Write, WriteSubscribe, WriteUnsubscribe, WritePublish, WriteRelease,
                WriteDisconnect, ReceiveConfirmation, Up, Reads, Connected, Over, recoveryVars,
                taskVars
  <2> QED BY <2>1 DEF Live
<1>5. CASE RestoreSuback
  <2>1. losses' = losses /\ matched' = matched /\ ~Over
    BY <1>5 DEF RestoreSuback, ReceiveSuback, Reads, Connected, Over, taskVars
  <2> QED BY <2>1 DEF Live
<1>6. CASE Reconnects
  <2>1. losses' = losses /\ (matched' => matched) /\ ~Over
    BY <1>6 DEF Reconnects, Connect, Connack, Over
  <2> QED BY <2>1 DEF Live
<1>7. CASE Restore \/ RestoreQueue \/ EndSubscription \/ Resume \/ Surrender \/ LoseAgain
  <2>1. losses' \in {losses, losses + 1} /\ matched' = matched /\ ~Over
    BY <1>7 DEF Restore, RestoreQueue, EndSubscription, Resume, Surrender, LoseAgain, Over,
                recoveryVars, vars, taskVars
  <2> QED BY <2>1 DEF Live
<1> QED BY <1>1, <1>2, <1>3, <1>4, <1>5, <1>6, <1>7 DEF RecoveryNext

LEMMA VInvInit == RecoveryInit => VInv
<1> SUFFICES ASSUME RecoveryInit PROVE VInv
  OBVIOUS
<1>1. /\ Init /\ left = <<>> /\ call = NoCall
      /\ task = "up" /\ losses = 0 /\ renewed = FALSE /\ closed = FALSE
      /\ pc = [o \in Opens |-> "idle"] /\ member = [o \in Opens |-> NoMember]
      /\ todo = [o \in Opens |-> <<>>] /\ server = [f \in Filters |-> NotHeld]
      /\ offered \in BOOLEAN /\ RegistryInit
      /\ pending = <<>> /\ incoming = <<>> /\ parked = <<>> /\ setAside = <<>> /\ channel = <<>>
  BY RegistryAssumption DEF RecoveryInit, Init
<1>2. SInv /\ InStep(TRUE)
  BY <1>1, SInvInit, RInvInit DEF RInv, Over
<1>3. Stage
  BY <1>1, VectorEmpty DEF Stage, Calling
<1>4. Table
  <2>1. CallersTyped
    BY <1>1 DEF CallersTyped, NoMember
  <2>2. Queueing /\ Seats
    BY <1>1 DEF Queueing, Seats, Joined
  <2>3. Structure
    BY <1>1, StructureInit
  <2> QED BY <2>1, <2>2, <2>3 DEF Table
<1>5. Ahead = <<>>
  <2>1. <<>> \o <<>> = <<>>
    BY VectorEmpty, VectorConcats
  <2> QED BY <1>1, <2>1 DEF Ahead
<1>6. /\ Elements(Ahead) = {} /\ Elements(pending) = {} /\ Elements(incoming) = {}
      /\ DOMAIN pending = {}
  BY <1>1, <1>5, VectorEmpty
<1>7. Worded /\ Recording /\ Answering /\ OpensGranted /\ RestoresGranted
  BY <1>6 DEF Worded, Recording, Answering, OpensGranted, RestoresGranted
<1>8. Entered /\ Upholding
  BY <1>1 DEF Entered, Upholding, Entering, Subscribed
<1> QED BY <1>1, <1>2, <1>3, <1>4, <1>7, <1>8 DEF VInv, Recovering, Holding

\* Every step keeps the invariant.
LEMMA VInvStep == VInv /\ [RecoveryNext]_allVars => VInv'
<1> SUFFICES ASSUME VInv, [RecoveryNext]_allVars, Live' PROVE Recovering'
  BY CourseOfRecovery DEF VInv
<1>1. losses \in Nat /\ Live /\ Recovering /\ ~Over /\ ~Over' /\ losses' <= 1 /\ matched'
  BY CourseOfRecovery DEF VInv, Live
<1>2. Stage
  BY <1>1 DEF Recovering
<1>3. CASE UNCHANGED allVars
  <2>1. UNCHANGED vars /\ UNCHANGED recoveryVars /\ losses' = losses
    BY <1>3 DEF allVars, vars, taskVars
  <2> QED BY <1>1, <2>1, SessionKeeps DEF Goings
<1>4. CASE (Callers \/ DialFails \/ Closing \/ EndRecords \/ Exit) /\ UNCHANGED recoveryVars
  <2>1. CASE Callers \/ DialFails
    <3>1. Calls \/ Goings
      BY <2>1 DEF Callers, Calls, Goings
    <3>2. losses' = losses
      BY <2>1 DEF Callers, OpenCheck, OpenJoin, OpenSend, Drop, PublishCheck, PublishQueue, Shutdown,
                  ShutdownQueue, DialFails, taskVars
    <3> QED BY <1>1, <1>4, <3>1, <3>2, SessionKeeps
  <2>2. CASE Closing \/ EndRecords \/ Exit
    BY <1>1, <2>2 DEF Closing, EndRecords, Exit, Over
  <2> QED BY <1>4, <2>1, <2>2
<1>5. CASE (Sever \/ Lose) /\ MayLose /\ UNCHANGED recoveryVars
  BY <1>1, <1>5, SessionKeeps DEF Goings
<1>6. CASE (Write \/ ReceiveConfirmation) /\ Polls /\ UNCHANGED recoveryVars
  <2>1. losses' = losses
    BY <1>6 DEF Write, WriteSubscribe, WriteUnsubscribe, WritePublish, WriteRelease,
                WriteDisconnect, ReceiveConfirmation, taskVars
  <2> QED BY <1>1, <1>6, <2>1, SessionKeeps DEF Goings
<1>7. CASE RestoreSuback
  BY <1>1, <1>7, AnsweredKeeps
<1>8. CASE Reconnects
  BY <1>1, <1>8, ConnectKeeps DEF Reconnects
<1>9. CASE Restore \/ RestoreQueue \/ EndSubscription \/ Resume
  BY <1>1, <1>9, DecidedKeeps
<1>10. ~Surrender
  BY <1>1 DEF Surrender, GiveUp, Over
\* The second loss.
<1>11. ~LoseAgain
  <2>1. losses # 0 \/ task = "up"
    BY <1>2 DEF Stage
  <2>2. LoseAgain => task = "restoring" /\ losses' = losses + 1
    BY DEF LoseAgain
  <2> QED BY <1>1, <2>1, <2>2
<1> QED BY <1>3, <1>4, <1>5, <1>6, <1>7, <1>8, <1>9, <1>10, <1>11 DEF RecoveryNext

\* A recovery from the first loss that resumes has every subscription on the server again
\* but those that were ended: FirstRecoveryRestores of Recovery.tla, for every number of
\* opens, every answer and session of the server, and every choice of the reconnector.
THEOREM RecoveryRestores == RecoverySpec => []FirstRecoveryRestores
<1>1. VInv => FirstRecoveryRestores
  <2> SUFFICES ASSUME VInv, task = "up", losses <= 1, matched,
                      NEW o \in Opens, pc[o] = "open", Lives(o)
               PROVE  server[FilterOf[o]] # NotHeld
    BY DEF FirstRecoveryRestores
  <2>1. Stage /\ Upholding
    BY DEF VInv, Live, Over, Recovering, Holding
  <2>2. Elements(left) = {}
    BY <2>1, VectorEmpty DEF Stage
  <2> QED BY <2>1, <2>2 DEF Upholding, Subscribed, Standing
<1> QED BY <1>1, VInvInit, VInvStep, PTL DEF RecoverySpec
=============================================================================
