-------------------------- MODULE ConnectionProofs --------------------------
(***************************************************************************)
(* Connection calls the registry as RegistrySpec says, whatever its callers *)
(* and the server do: so what RegistryProofs proves of the table holds of a *)
(* connection, for every number of opens, messages and filters.  Then what  *)
(* passes through the queues: the order of deliveries, acknowledgements,    *)
(* and what the server was asked for, against what each stream needs of it. *)
(***************************************************************************)
EXTENDS Connection, RegistryProofs, FiniteSetTheorems

\* The wire is a sequence, and what comes in on it is what the server sends: a
\* refresh is answered as Answers says, a packet is on a topic and names identifiers.
Sent(packet) ==
  /\ packet.kind = "suback" /\ packet.request.refresh => packet.accepted \in Answers
  /\ packet.kind = "publish" => packet.topic \in Topics /\ NoIdentifier \notin packet.ids

IncomingSent ==
  /\ \E S : incoming \in Seq(S)
  /\ \A i \in DOMAIN incoming : Sent(incoming[i])

\* What the calls to the registry rest on.
CInv == Structure /\ Bounded /\ offered \in Offers /\ IncomingSent

-----------------------------------------------------------------------------
(* The wire.                                                               *)

\* What is sent comes in last.
LEMMA IncomingAppend ==
  ASSUME IncomingSent, NEW p, Sent(p), incoming' = Append(incoming, p)
  PROVE  IncomingSent'
<1>1. PICK S : incoming \in Seq(S)
  BY DEF IncomingSent
<1>2. incoming \in Seq(S \cup {p}) /\ p \in S \cup {p}
  BY <1>1
<1>3. /\ incoming' \in Seq(S \cup {p}) /\ DOMAIN incoming' = 1..(Len(incoming) + 1)
      /\ Len(incoming) \in Nat /\ DOMAIN incoming = 1..Len(incoming)
      /\ \A i \in DOMAIN incoming' :
           incoming'[i] = IF i \in DOMAIN incoming THEN incoming[i] ELSE p
  BY <1>2
<1>4. \A i \in DOMAIN incoming' : Sent(incoming'[i])
  BY <1>3 DEF IncomingSent
<1>5. \E T : incoming' \in Seq(T)
  BY <1>3
<1>6. QED
  BY <1>4, <1>5 DEF IncomingSent, Sent

\* The copies of one message come in last, in whichever order.
LEMMA IncomingMany ==
  ASSUME IncomingSent, NEW k \in Nat, NEW s, DOMAIN s = 1..k, s = [i \in 1..k |-> s[i]],
         \A i \in 1..k : Sent(s[i]), incoming' = incoming \o s
  PROVE  IncomingSent'
<1>1. PICK S : incoming \in Seq(S)
  BY DEF IncomingSent
<1> DEFINE T == S \cup {s[i] : i \in 1..k}
<1>2. incoming \in Seq(T)
  BY <1>1
<1>3. s \in Seq(T) /\ Len(s) = k
  <2>1. s \in [1..k -> T]
    OBVIOUS
  <2>2. QED
    BY <2>1, FunctionIsSeq
<1> HIDE DEF T
<1>4. /\ incoming' \in Seq(T) /\ Len(incoming) \in Nat
      /\ DOMAIN incoming' = 1..(Len(incoming) + k) /\ DOMAIN incoming = 1..Len(incoming)
      /\ \A i \in DOMAIN incoming' :
           incoming'[i] = IF i <= Len(incoming) THEN incoming[i] ELSE s[i - Len(incoming)]
  BY <1>2, <1>3
<1>5. ASSUME NEW i \in DOMAIN incoming' PROVE Sent(incoming'[i])
  <2>1. CASE i <= Len(incoming)
    BY <1>4, <2>1 DEF IncomingSent
  <2>2. CASE ~(i <= Len(incoming))
    <3>1. i - Len(incoming) \in 1..k
      BY <1>4, <2>2
    <3>2. QED
      BY <1>4, <2>2, <3>1
  <2>3. QED
    BY <2>1, <2>2
<1>6. QED
  BY <1>4, <1>5 DEF IncomingSent, Sent

\* What is read leaves the rest.
LEMMA IncomingTail ==
  ASSUME IncomingSent, incoming # <<>>, incoming' = Tail(incoming)
  PROVE  IncomingSent' /\ Sent(Head(incoming))
<1>1. PICK S : incoming \in Seq(S)
  BY DEF IncomingSent
<1>2. /\ incoming' \in Seq(S) /\ Len(incoming) \in Nat \ {0} /\ DOMAIN incoming = 1..Len(incoming)
      /\ DOMAIN incoming' = 1..(Len(incoming) - 1)
      /\ \A i \in DOMAIN incoming' : incoming'[i] = incoming[i + 1]
      /\ Head(incoming) = incoming[1]
  BY <1>1
<1>3. \A i \in DOMAIN incoming' : i + 1 \in DOMAIN incoming
  BY <1>2
<1>4. 1 \in DOMAIN incoming
  BY <1>2
<1>5. QED
  BY <1>2, <1>3, <1>4 DEF IncomingSent, Sent

-----------------------------------------------------------------------------
(* Every step is a call to the registry, or none.                          *)

\* Each step of the connection calls one method of the registry at most, and keeps
\* what the calls rest on.
LEMMA StepCalls ==
  ASSUME IsFiniteSet(Filters), CInv, [Next]_vars
  PROVE  Called /\ offered' \in Offers /\ IncomingSent'
<1> USE DEF CInv
<1>1. ASSUME incoming' = incoming PROVE IncomingSent'
  BY <1>1 DEF IncomingSent, Sent
<1>2. ASSUME NEW o \in Opens, OpenJoin(o) PROVE Called /\ offered' \in Offers /\ IncomingSent'
  <2>1. FilterOf[o] \in Filters /\ QosOf[o] \in Qos
    BY ConnectionAssumption
  <2>2. Called
    BY <1>2, <2>1 DEF OpenJoin, Called, RegistryNext, registryVars
  <2>3. offered' = offered /\ incoming' = incoming
    BY <1>2 DEF OpenJoin
  <2>4. QED
    BY <1>1, <2>2, <2>3
<1>3. ASSUME NEW o \in Opens, Drop(o) PROVE Called /\ offered' \in Offers /\ IncomingSent'
  <2>1. Leave(member[o]) /\ offered' = offered /\ incoming' = incoming
    BY <1>3 DEF Drop, Release
  <2>2. QED
    BY <1>1, <2>1, LeaveCalled
<1>4. CASE Reap
  <2>1. Leave(Head(reaping)) /\ offered' = offered /\ incoming' = incoming
    BY <1>4 DEF Reap, Release
  <2>2. QED
    BY <1>1, <2>1, LeaveCalled
<1>5. CASE \/ \E o \in Opens : OpenSend(o) \/ OpenCancel(o)
           \/ UNCHANGED vars
  <2>1. UNCHANGED <<registryVars, offered, incoming>>
    BY <1>5 DEF OpenSend, OpenCancel, vars
  <2>2. QED
    BY <1>1, <2>1 DEF Called
<1>6. CASE ServerTake
  <2>1. UNCHANGED <<registryVars, offered>>
    BY <1>6 DEF ServerTake
  <2>2. CASE incoming' = incoming
    BY <1>1, <2>1, <2>2 DEF Called
  <2>3. CASE Head(requests).kind # "unsubscribe"
    <3> DEFINE packet == Head(requests)
    <3>1. PICK accepted \in IF packet.request.refresh THEN Answers ELSE Accepts :
            incoming' = Append(incoming, [kind |-> "suback", open |-> packet.open,
                                          request |-> packet.request,
                                          accepted |-> accepted])
      BY <1>6, <2>3 DEF ServerTake
    <3>2. QED
      BY <2>1, <3>1, IncomingAppend DEF Sent, Called
  <2>4. QED
    BY <1>6, <2>2, <2>3 DEF ServerTake
<1>7. ASSUME NEW t \in Topics, ServerPublish(t)
      PROVE  Called /\ offered' \in Offers /\ IncomingSent'
  <2> DEFINE for == {f \in Matching[t] : server[f] # NotHeld}
             n   == published + 1
  <2>1. UNCHANGED <<registryVars, offered>>
    BY <1>7 DEF ServerPublish
  <2>2. \A fs, gs : Sent(Packet(n, t, IdentifiersOf(fs), gs))
    BY DEF Sent, Packet, IdentifiersOf
  <2>3. CASE incoming' = Append(incoming, Packet(n, t, IdentifiersOf(for), for))
    BY <2>1, <2>2, <2>3, IncomingAppend DEF Called
  <2>4. ASSUME NEW order \in SetToSeqs(for),
               incoming' = incoming \o
                 [i \in DOMAIN order |-> Packet(n, t, IdentifiersOf({order[i]}), {order[i]})]
        PROVE  Called /\ offered' \in Offers /\ IncomingSent'
    <3> DEFINE copies == [i \in DOMAIN order |->
                            Packet(n, t, IdentifiersOf({order[i]}), {order[i]})]
    <3>0. Matching[t] \subseteq Filters
      BY <1>7, RegistryAssumption
    <3>1. PICK k \in Nat : DOMAIN order = 1..k
      <4>1. IsFiniteSet(for)
        BY <3>0, FS_Subset
      <4>2. Cardinality(for) \in Nat
        BY <4>1, FS_CardinalityType
      <4> HIDE DEF for
      <4>3. order \in [1..Cardinality(for) -> for]
        BY <2>4 DEF SetToSeqs
      <4>4. QED
        BY <4>2, <4>3
    <3>2. DOMAIN copies = 1..k /\ copies = [i \in 1..k |-> copies[i]]
      BY <3>1
    <3>3. \A i \in 1..k : Sent(copies[i])
      BY <2>2, <3>1
    <3> HIDE DEF copies
    <3>4. incoming' = incoming \o copies
      BY <2>4 DEF copies
    <3>5. IncomingSent'
      BY <3>2, <3>3, <3>4, IncomingMany
    <3>6. QED
      BY <2>1, <3>5 DEF Called
  <2>5. QED
    BY <1>7, <2>3, <2>4 DEF ServerPublish
<1>8. CASE ReceiveSuback
  <2> DEFINE suback == Head(incoming)
  <2>1. IncomingSent' /\ Sent(suback) /\ offered' = offered
    BY <1>8, IncomingTail DEF ReceiveSuback
  <2>2. CASE suback.request.refresh
    <3>1. Identified(suback.request.filter, suback.accepted) /\ suback.accepted \in Answers
      BY <1>8, <2>1, <2>2 DEF ReceiveSuback, Sent
    <3>2. QED
      BY <2>1, <3>1, IdentifiedCalled
  <2>3. CASE ~suback.request.refresh
    <3>1. Leave(member[suback.open]) \/ UNCHANGED registryVars
      BY <1>8, <2>3 DEF ReceiveSuback
    <3>2. QED
      BY <2>1, <3>1, LeaveCalled DEF Called
  <2>4. QED
    BY <2>2, <2>3
<1>9. CASE ReceivePublish
  <2> DEFINE p == Head(incoming)
  <2>1. /\ IncomingSent' /\ offered' = offered
        /\ p.topic \in Topics /\ NoIdentifier \notin p.ids
    BY <1>9, IncomingTail DEF ReceivePublish, Sent
  <2>2. \/ UNCHANGED registryVars
        \/ Targets(p.topic, p.ids) # {} /\ Route(p.topic, p.ids)
    BY <1>9 DEF ReceivePublish
  <2>3. QED
    BY <2>1, <2>2, RouteCalled DEF Called
<1>10. QED
  BY <1>2, <1>3, <1>4, <1>5, <1>6, <1>7, <1>8, <1>9 DEF Next

\* Nothing the server sent has come in yet.
LEMMA CInvInit == Init => CInv /\ RegistryInit
<1> SUFFICES ASSUME Init PROVE CInv /\ RegistryInit
  OBVIOUS
<1>1. RegistryInit /\ offered \in Offers /\ incoming = <<>>
  BY DEF Init
<1>2. Structure /\ Bounded
  BY <1>1, StructureInit, RegistryAssumption DEF RegistryInit, Bounded
<1>3. <<>> \in Seq({}) /\ DOMAIN <<>> = {}
  OBVIOUS
<1>4. IncomingSent
  BY <1>1, <1>3 DEF IncomingSent
<1>5. QED
  BY <1>1, <1>2, <1>4 DEF CInv

\* Every step is a step of the registry and keeps what that rests on.
LEMMA CInvStep ==
  ASSUME IsFiniteSet(Filters)
  PROVE  CInv /\ [Next]_vars => CInv' /\ Called
<1> SUFFICES ASSUME CInv, [Next]_vars PROVE CInv' /\ Called
  OBVIOUS
<1>1. Called /\ offered' \in Offers /\ IncomingSent'
  BY StepCalls
<1>2. Structure'
  BY <1>1, StructureStep DEF CInv, Called
<1>3. Bounded'
  BY <1>1, BoundedStep DEF CInv
<1>4. QED
  BY <1>1, <1>2, <1>3 DEF CInv

\* The connection's calls, in whatever order opens, drops, answers and packets come,
\* are a behaviour of the registry.
THEOREM CallsTheRegistry ==
  ASSUME IsFiniteSet(Filters)
  PROVE  Spec => RegistrySpec
<1>1. Init => CInv /\ RegistryInit
  BY CInvInit
<1>2. CInv /\ [Next]_vars => CInv' /\ [RegistryNext]_registryVars
  BY CInvStep DEF Called
<1>3. QED
  BY <1>1, <1>2, PTL DEF Spec, RegistrySpec

\* So two filters of a connection that can match one message both carry an
\* identifier, on a server that offers them and grants every refresh.
THEOREM MeetingFiltersIdentified ==
  ASSUME IsFiniteSet(Filters), Offers = {TRUE}, Answers = {TRUE}
  PROVE  Spec => []MeetingIdentified
<1>1. QED
  BY CallsTheRegistry, MeetingWiresIdentified, PTL

\* And a copy the server sends for a filter is handed to that filter and to no other.
THEOREM PacketsRoutedHome ==
  ASSUME IsFiniteSet(Filters), Offers = {TRUE}, Answers = {TRUE}
  PROVE  Spec => []RoutedHome
<1>1. QED
  BY CallsTheRegistry, CopiesRoutedHome, PTL

-----------------------------------------------------------------------------
(* Types, and what is on its way.                                          *)

\* What the streams, the buffer and the queue are made of; a stream is empty
\* until its open joined.
Shape ==
  /\ Vector(held) /\ Vector(requests)
  /\ inbox = [o \in Opens |-> inbox[o]]
  /\ \A o \in Opens : Vector(inbox[o]) /\ (pc[o] = "idle" => inbox[o] = <<>>)

\* The packets an open claims are kept in a set, and so are the others.
LEMMA ClaimedKept ==
  ASSUME NEW o
  PROVE  /\ Select(held, LAMBDA p : Claimed(p, o)) =
              Keep(held, {p \in Elements(held) : Claimed(p, o)})
         /\ Select(held, LAMBDA p : Unclaimed(p, o)) =
              Keep(held, {p \in Elements(held) : ~Claimed(p, o)})
<1>1. {i \in DOMAIN held : Claimed(held[i], o)} =
        {i \in DOMAIN held : held[i] \in {p \in Elements(held) : Claimed(p, o)}}
  BY DEF Elements
<1>2. {i \in DOMAIN held : ~Claimed(held[i], o)} =
        {i \in DOMAIN held : held[i] \in {p \in Elements(held) : ~Claimed(p, o)}}
  BY DEF Elements
<1> QED BY <1>1, <1>2 DEF Select, Keep, Passing, Unclaimed

\* The queue is longer by one entry at most, and only if it has room for it.
LEMMA Queued ==
  ASSUME Vector(requests), Len(requests) <= Capacity, NEW e,
         \/ requests' = requests
         \/ Len(requests) < Capacity /\ requests' = Append(requests, e)
         \/ requests # <<>> /\ requests' = Tail(requests)
  PROVE  Vector(requests') /\ Len(requests') <= Capacity
<1>1. Capacity \in Nat
  BY ConnectionAssumption
<1>2. CASE requests' = requests
  BY <1>2
<1>3. CASE Len(requests) < Capacity /\ requests' = Append(requests, e)
  BY <1>1, <1>3, VectorLonger
<1>4. CASE requests # <<>> /\ requests' = Tail(requests)
  BY <1>1, <1>4, VectorTail
<1> QED BY <1>2, <1>3, <1>4

\* The buffer makes room before it takes a packet: the packet comes last, and those
\* before it are all there were, or all but the oldest.
LEMMA HoldPlaces ==
  ASSUME Vector(held), Len(held) <= HeldCapacity, NEW p, Hold(p)
  PROVE  Vector(held') /\ Len(held') <= HeldCapacity /\ Taking(held, p, held')
<1> DEFINE t == held'
<1>1. \/ Len(held) >= HeldCapacity /\ t = Append(Tail(held), p)
      \/ ~(Len(held) >= HeldCapacity) /\ t = Append(held, p)
  BY DEF Hold
<1>2. HeldCapacity \in Nat \ {0}
  BY ConnectionAssumption
<1> HIDE DEF t
<1>3. Vector(t) /\ Len(t) <= HeldCapacity /\ Taking(held, p, t)
  BY <1>1, <1>2, VectorRoom
<1> QED BY <1>3 DEF t

\* The claimed packets become deliveries, one each, in their order.
LEMMA JoinPlaces ==
  ASSUME Shape, NEW o \in Opens, OpenJoin(o)
  PROVE  \/ UNCHANGED <<inbox, held>> /\ UNCHANGED registryVars
         \/ \E K : /\ held' = Keep(held, Elements(held) \ K)
                   /\ DOMAIN inbox'[o] = DOMAIN Keep(held, K)
                   /\ Vector(inbox'[o])
                   /\ inbox' = [x \in Opens |-> inbox'[x]]
                   /\ \A i \in DOMAIN inbox'[o] :
                        /\ inbox'[o][i].message = Keep(held, K)[i].message
                        /\ inbox'[o][i].for = Keep(held, K)[i].for
                        /\ inbox'[o][i].ack
                   /\ \A x \in Opens \ {o} : inbox'[x] = inbox[x]
                   /\ K \subseteq Elements(held) /\ \A p \in K : Claimed(p, o)
<1>1. CASE Refused(FilterOf[o], offered)
  BY <1>1 DEF OpenJoin
<1>2. CASE ~Refused(FilterOf[o], offered)
  <2> DEFINE K == {p \in Elements(held) : Claimed(p, o)}
             claimed == Keep(held, K)
             handed == [n \in DOMAIN claimed |->
                          [message |-> claimed[n].message, for |-> claimed[n].for, ack |-> TRUE]]
  <2>1. {p \in Elements(held) : ~Claimed(p, o)} = Elements(held) \ K
    OBVIOUS
  <2>2. held' = Keep(held, Elements(held) \ K)
    BY <1>2, <2>1, ClaimedKept DEF OpenJoin
  <2>3. inbox' = [inbox EXCEPT ![o] = handed]
    <3>1. Select(held, LAMBDA p : Claimed(p, o)) = claimed
      BY ClaimedKept
    <3>2. inbox' = [inbox EXCEPT ![o] =
                      [n \in DOMAIN Select(held, LAMBDA p : Claimed(p, o)) |->
                         [message |-> Select(held, LAMBDA p : Claimed(p, o))[n].message,
                          for |-> Select(held, LAMBDA p : Claimed(p, o))[n].for,
                          ack |-> TRUE]]]
      BY <1>2 DEF OpenJoin
    <3> HIDE DEF claimed
    <3> QED BY <3>1, <3>2
  <2>10. K \subseteq Elements(held) /\ \A p \in K : Claimed(p, o)
    OBVIOUS
  <2> HIDE DEF K
  <2>4. Vector(claimed)
    BY VectorKeep DEF Shape
  <2>5. Len(claimed) \in Nat /\ DOMAIN claimed = 1..Len(claimed)
    BY <2>4, VectorPlaces
  <2>6. /\ DOMAIN handed = DOMAIN claimed
        /\ \A i \in DOMAIN handed : /\ handed[i].message = claimed[i].message
                                    /\ handed[i].for = claimed[i].for
                                    /\ handed[i].ack
    OBVIOUS
  <2> HIDE DEF claimed
  <2>7. handed = [i \in 1..Len(claimed) |-> handed[i]]
    BY <2>5
  <2> HIDE DEF handed
  <2>8. Vector(handed)
    BY <2>5, <2>7, VectorFunction
  <2>9. inbox'[o] = handed /\ inbox' = [x \in Opens |-> inbox'[x]]
        /\ \A x \in Opens \ {o} : inbox'[x] = inbox[x]
    BY <2>3 DEF Shape
  <2> QED BY <2>2, <2>6, <2>8, <2>9, <2>10 DEF claimed
<1> QED BY <1>1, <1>2

\* A stream that is handed a packet gets one delivery of it, at its end.
LEMMA HandPlaces ==
  ASSUME Shape, ReceivePublish
  PROVE  /\ inbox' = [o \in Opens |-> inbox'[o]]
         /\ \A o \in Opens :
              \/ inbox'[o] = inbox[o]
              \/ /\ Alive(o)
                 /\ \E d : /\ inbox'[o] = Append(inbox[o], d)
                           /\ d.message = Head(incoming).message
                           /\ d.for = Head(incoming).for
<1> DEFINE p       == Head(incoming)
           targets == Targets(p.topic, p.ids)
           TakenAt(o) == {n \in targets : Taker(n) = member[o]}
           Copy(o) == [message |-> p.message, for |-> p.for,
                       ack |-> CarriesAck(Max(TakenAt(o)), targets)]
<1>1. CASE targets = {}
  <2>1. inbox' = inbox
    BY <1>1 DEF ReceivePublish
  <2> QED BY <2>1 DEF Shape
<1>2. CASE targets # {}
  <2>1. inbox' = [o \in Opens |-> IF Alive(o) /\ TakenAt(o) # {}
                                  THEN Append(inbox[o], Copy(o)) ELSE inbox[o]]
    BY <1>2 DEF ReceivePublish
  <2>2. \A o : Copy(o).message = p.message /\ Copy(o).for = p.for
    OBVIOUS
  <2> HIDE DEF Copy, TakenAt
  <2> QED BY <2>1, <2>2
<1> QED BY <1>1, <1>2

\* Each step keeps the shape and the type.
LEMMA TypeOfStep ==
  ASSUME Shape, TypeOK, RegistryTypeOK', offered' \in BOOLEAN, [Next]_vars
  PROVE  Shape' /\ TypeOK'
<1> DEFINE States == {"idle", "sending", "waiting", "open", "failed", "cancelled", "closed"}
           Typed == /\ pc' \in [Opens -> States]
                    /\ member' \in [Opens -> Nat \cup {NoMember}]
                    /\ Len(held') <= HeldCapacity
                    /\ Len(requests') <= Capacity
                    /\ published' \in 0..MaxPublishes
<1>0. /\ pc \in [Opens -> States] /\ member \in [Opens -> Nat \cup {NoMember}]
      /\ Len(held) <= HeldCapacity /\ Len(requests) <= Capacity
      /\ published \in 0..MaxPublishes /\ nextMember \in Nat
      /\ MaxPublishes \in Nat /\ HeldCapacity \in Nat
  BY ConnectionAssumption DEF TypeOK, RegistryTypeOK
<1>1. SUFFICES Shape' /\ Typed
  BY DEF TypeOK
<1>2. ASSUME NEW o \in Opens, OpenJoin(o) PROVE Shape' /\ Typed
  <2>1. UNCHANGED <<requests, published>> /\ pc[o] = "idle"
    BY <1>2 DEF OpenJoin, serverVars
  <2>2. /\ pc' \in [Opens -> States] /\ pc'[o] # "idle"
        /\ \A x \in Opens \ {o} : pc'[x] = pc[x]
    BY <1>0, <1>2 DEF OpenJoin
  <2>3. member' \in [Opens -> Nat \cup {NoMember}]
    BY <1>0, <1>2 DEF OpenJoin
  <2>4. CASE UNCHANGED <<inbox, held>>
    BY <1>0, <2>1, <2>2, <2>3, <2>4 DEF Shape
  <2>5. CASE ~UNCHANGED <<inbox, held>>
    <3>1. PICK K : /\ held' = Keep(held, Elements(held) \ K)
                   /\ Vector(inbox'[o])
                   /\ inbox' = [x \in Opens |-> inbox'[x]]
                   /\ \A x \in Opens \ {o} : inbox'[x] = inbox[x]
      BY <1>2, <2>5, JoinPlaces
    <3> DEFINE rest == Elements(held) \ K
    <3>2. Vector(held) /\ held' = Keep(held, rest)
      BY <3>1 DEF Shape
    <3> HIDE DEF rest
    <3>3. Vector(held')
      BY <3>2, VectorKeep
    <3>4. Len(held') <= Len(held)
      BY <3>2, VectorKeepOrder
    <3>5. Len(held') \in Nat /\ Len(held) \in Nat
      BY <3>2, <3>3, VectorPlaces
    <3> QED BY <1>0, <2>1, <2>2, <2>3, <3>1, <3>3, <3>4, <3>5 DEF Shape
  <2> QED BY <2>4, <2>5
<1>3. ASSUME NEW o \in Opens, OpenSend(o) PROVE Shape' /\ Typed
  <2>1. UNCHANGED <<member, held, inbox, published>>
    BY <1>3 DEF OpenSend, serverVars
  <2>2. pc' \in [Opens -> States] /\ \A x \in Opens : pc'[x] = "idle" => pc[x] = "idle"
    BY <1>0, <1>3 DEF OpenSend
  <2>3. \/ requests' = requests
        \/ \E e : Len(requests) < Capacity /\ requests' = Append(requests, e)
    BY <1>3 DEF OpenSend
  <2>4. Vector(requests') /\ Len(requests') <= Capacity
    BY <1>0, <2>3, Queued DEF Shape
  <2> QED BY <1>0, <2>1, <2>2, <2>4 DEF Shape
<1>4. ASSUME NEW o \in Opens, OpenCancel(o) PROVE Shape' /\ Typed
  <2>1. UNCHANGED <<member, held, inbox, requests, published>>
    BY <1>4 DEF OpenCancel, serverVars
  <2>2. pc' \in [Opens -> States] /\ \A x \in Opens : pc'[x] = "idle" => pc[x] = "idle"
    BY <1>0, <1>4 DEF OpenCancel
  <2> QED BY <1>0, <2>1, <2>2 DEF Shape
<1>5. ASSUME NEW o \in Opens, Drop(o) PROVE Shape' /\ Typed
  <2>1. UNCHANGED <<member, held, inbox, published>>
    BY <1>5 DEF Drop, serverVars
  <2>2. pc' \in [Opens -> States] /\ \A x \in Opens : pc'[x] = "idle" => pc[x] = "idle"
    BY <1>0, <1>5 DEF Drop
  <2>3. \/ requests' = requests
        \/ \E e : Len(requests) < Capacity /\ requests' = Append(requests, e)
    BY <1>5 DEF Drop, Release
  <2>4. Vector(requests') /\ Len(requests') <= Capacity
    BY <1>0, <2>3, Queued DEF Shape
  <2> QED BY <1>0, <2>1, <2>2, <2>4 DEF Shape
<1>6. CASE Reap
  <2>1. UNCHANGED <<pc, member, held, inbox, published>>
    BY <1>6 DEF Reap, openVars, serverVars
  <2>3. \/ requests' = requests
        \/ \E e : Len(requests) < Capacity /\ requests' = Append(requests, e)
    BY <1>6 DEF Reap, Release
  <2>4. Vector(requests') /\ Len(requests') <= Capacity
    BY <1>0, <2>3, Queued DEF Shape
  <2> QED BY <1>0, <2>1, <2>4 DEF Shape
<1>7. CASE ServerTake
  <2>1. UNCHANGED <<pc, member, held, inbox, published>>
    BY <1>7 DEF ServerTake, openVars
  <2>2. requests # <<>> /\ requests' = Tail(requests)
    BY <1>7 DEF ServerTake
  <2>3. Vector(requests') /\ Len(requests') <= Capacity
    BY <1>0, <2>2, Queued DEF Shape
  <2> QED BY <1>0, <2>1, <2>3 DEF Shape
<1>8. ASSUME NEW t \in Topics, ServerPublish(t) PROVE Shape' /\ Typed
  <2>1. UNCHANGED <<pc, member, held, inbox, requests>>
    BY <1>8 DEF ServerPublish, openVars
  <2>2. published < MaxPublishes /\ published' = published + 1
    BY <1>8 DEF ServerPublish
  <2> QED BY <1>0, <2>1, <2>2 DEF Shape
<1>9. CASE ReceiveSuback
  <2>1. UNCHANGED <<member, held, inbox, requests, published>>
    BY <1>9 DEF ReceiveSuback, serverVars
  <2>2. pc' \in [Opens -> States] /\ \A x \in Opens : pc'[x] = "idle" => pc[x] = "idle"
    <3>1. CASE pc' = pc
      BY <1>0, <3>1
    <3>2. ASSUME NEW o, pc' = [pc EXCEPT ![o] = Outcome(pc[o], Head(incoming).accepted)]
          PROVE  pc' \in [Opens -> States] /\ \A x \in Opens : pc'[x] = "idle" => pc[x] = "idle"
      <4>1. o \in Opens => Outcome(pc[o], Head(incoming).accepted) \in States \ {"idle"}
        BY <1>0 DEF Outcome
      <4> QED BY <1>0, <3>2, <4>1
    <3> QED BY <1>9, <3>1, <3>2 DEF ReceiveSuback
  <2> QED BY <1>0, <2>1, <2>2 DEF Shape
<1>10. CASE ReceivePublish
  <2>1. UNCHANGED <<pc, member, requests, published>>
    BY <1>10 DEF ReceivePublish, openVars, serverVars
  <2>2. Vector(held') /\ Len(held') <= HeldCapacity
    <3>1. CASE held' = held
      BY <1>0, <3>1 DEF Shape
    <3>2. CASE Hold(Head(incoming))
      BY <1>0, <3>2, HoldPlaces DEF Shape
    <3> QED BY <1>10, <3>1, <3>2 DEF ReceivePublish
  <2>3. /\ inbox' = [o \in Opens |-> inbox'[o]]
        /\ \A o \in Opens : \/ inbox'[o] = inbox[o]
                            \/ Alive(o) /\ \E d : inbox'[o] = Append(inbox[o], d)
    BY <1>10, HandPlaces
  <2>4. \A o \in Opens : Vector(inbox'[o]) /\ (pc[o] = "idle" => inbox'[o] = <<>>)
    <3>1. \A o \in Opens : Alive(o) => pc[o] # "idle"
      BY DEF Alive
    <3>2. ASSUME NEW o \in Opens, NEW d PROVE Vector(Append(inbox[o], d))
      BY VectorLonger DEF Shape
    <3> QED BY <2>3, <3>1, <3>2 DEF Shape
  <2> QED BY <1>0, <2>1, <2>2, <2>3, <2>4 DEF Shape
<1>11. CASE UNCHANGED vars
  BY <1>0, <1>11 DEF vars, openVars, serverVars, Shape
<1> QED
  BY <1>2, <1>3, <1>4, <1>5, <1>6, <1>7, <1>8, <1>9, <1>10, <1>11 DEF Next

\* No packet is in the streams yet.
LEMMA ShapeInit == Init => Shape /\ TypeOK
<1> SUFFICES ASSUME Init PROVE Shape /\ TypeOK
  OBVIOUS
<1>1. /\ RegistryTypeOK /\ offered \in BOOLEAN
      /\ pc = [o \in Opens |-> "idle"] /\ member = [o \in Opens |-> NoMember]
      /\ held = <<>> /\ requests = <<>> /\ inbox = [o \in Opens |-> <<>>] /\ published = 0
  BY TypeInit, RegistryAssumption DEF Init
<1>2. Vector(<<>>) /\ Len(<<>>) = 0
  BY VectorEmpty
<1>3. Shape
  BY <1>1, <1>2 DEF Shape
<1>4. TypeOK
  BY <1>1, <1>2, ConnectionAssumption DEF TypeOK
<1> QED BY <1>3, <1>4

\* Each step keeps the table, the shape and the type.
LEMMA TypedStep ==
  ASSUME IsFiniteSet(Filters)
  PROVE  CInv /\ Shape /\ TypeOK /\ [Next]_vars => (CInv /\ Shape /\ TypeOK)'
<1> SUFFICES ASSUME CInv, Shape, TypeOK, [Next]_vars PROVE (CInv /\ Shape /\ TypeOK)'
  OBVIOUS
<1>1. CInv'
  BY CInvStep
<1>2. RegistryTypeOK' /\ offered' \in BOOLEAN
  BY <1>1, RegistryAssumption DEF CInv, Structure
<1> QED BY <1>1, <1>2, TypeOfStep

\* The variables of a connection have their types: the queue and the buffer never hold
\* more than they have room for, whoever fills them.
THEOREM ConnectionTyped ==
  ASSUME IsFiniteSet(Filters)
  PROVE  Spec => []TypeOK
<1>1. Init => CInv /\ Shape /\ TypeOK
  BY CInvInit, ShapeInit
<1>2. CInv /\ Shape /\ TypeOK /\ [Next]_vars => (CInv /\ Shape /\ TypeOK)'
  BY TypedStep
<1> QED BY <1>1, <1>2, PTL DEF Spec

-----------------------------------------------------------------------------
(* The order of deliveries.                                                *)

\* The i-th on the wire is a packet.
Arrives(i) == i \in DOMAIN incoming /\ incoming[i].kind = "publish"

SamePacket(x, y) == x.message = y.message /\ x.for = y.for

\* x was published no later than y, and is another packet.
Before(x, y) == x.message <= y.message /\ ~SamePacket(x, y)

\* Whatever is on the wire, in the buffer or in a stream was published.
Known ==
  /\ \A i \in DOMAIN incoming : Arrives(i) => incoming[i].message \in 1..published
  /\ \A i \in DOMAIN held : held[i].message \in 1..published
  /\ \A o \in Opens : \A i \in DOMAIN inbox[o] : inbox[o][i].message \in 1..published

\* The wire and the buffer are in order, and what is in the buffer or a stream comes
\* before what is on the wire.  No packet is in two places.
InLine ==
  /\ \A i, j \in DOMAIN incoming : Arrives(i) /\ Arrives(j) /\ i < j => Before(incoming[i], incoming[j])
  /\ \A i, j \in DOMAIN held : i < j => Before(held[i], held[j])
  /\ \A i \in DOMAIN held, j \in DOMAIN incoming : Arrives(j) => Before(held[i], incoming[j])
  /\ \A o \in Opens : \A i \in DOMAIN inbox[o] :
       /\ \A j \in DOMAIN incoming : Arrives(j) => Before(inbox[o][i], incoming[j])
       /\ \A j \in DOMAIN held : ~SamePacket(inbox[o][i], held[j])
  /\ InOrder

OrderInv == CInv /\ Shape /\ TypeOK /\ Known /\ InLine

\* Every packet on the wire was on it before, d places further on.
Advanced(d) ==
  \A i \in DOMAIN incoming' :
    i \in Nat \ {0} /\ (Arrives(i)' => Arrives(i + d) /\ incoming'[i] = incoming[i + d])

\* The wire is a row of packets.
LEMMA IncomingVector == IncomingSent => Vector(incoming)
  BY VectorOf DEF IncomingSent

\* Reading takes what was first off the wire.
LEMMA WireTail ==
  ASSUME Vector(incoming), incoming # <<>>, incoming' = Tail(incoming)
  PROVE  Advanced(1) /\ Head(incoming) = incoming[1] /\ 1 \in DOMAIN incoming
<1>1. /\ DOMAIN incoming = 1..Len(incoming) /\ DOMAIN incoming' = 1..(Len(incoming) - 1)
      /\ Len(incoming) \in Nat /\ Head(incoming) = incoming[1] /\ 1 \in DOMAIN incoming
      /\ \A i \in DOMAIN incoming' : i + 1 \in DOMAIN incoming /\ incoming'[i] = incoming[i + 1]
  BY VectorTail
<1> QED BY <1>1 DEF Advanced, Arrives

\* An answer of the server's moves no packet.
LEMMA WireAnswer ==
  ASSUME Vector(incoming), NEW e, e.kind # "publish", incoming' = Append(incoming, e)
  PROVE  Advanced(0)
<1>1. /\ DOMAIN incoming = 1..Len(incoming) /\ DOMAIN incoming' = 1..(Len(incoming) + 1)
      /\ Len(incoming) \in Nat
      /\ \A i \in DOMAIN incoming : incoming'[i] = incoming[i]
      /\ incoming'[Len(incoming) + 1] = e
  BY VectorLonger
<1>2. ASSUME NEW i \in DOMAIN incoming', Arrives(i)'
      PROVE  Arrives(i + 0) /\ incoming'[i] = incoming[i + 0]
  <2>1. i # Len(incoming) + 1
    BY <1>1, <1>2 DEF Arrives
  <2>2. i \in DOMAIN incoming /\ i + 0 = i
    BY <1>1, <2>1
  <2> QED BY <1>1, <1>2, <2>2 DEF Arrives
<1>3. \A i \in DOMAIN incoming' : i \in Nat \ {0}
  BY <1>1
<1> QED BY <1>2, <1>3 DEF Advanced

\* What is delivered, held or claimed otherwise is none of these.
LEMMA OrderAdvanced ==
  ASSUME Vector(incoming), Known, InLine, NEW d \in {0, 1}, Advanced(d),
         UNCHANGED <<held, inbox, published>>
  PROVE  Known' /\ InLine'
<1>1. Vector(incoming) => \A i \in DOMAIN incoming : i \in Nat
  BY VectorPlaces
<1>2. Known'
  BY DEF Known, Advanced, Arrives
<1>3. ASSUME NEW i \in DOMAIN incoming', NEW j \in DOMAIN incoming', Arrives(i)', Arrives(j)', i < j
      PROVE  Before(incoming'[i], incoming'[j])
  <2>1. /\ i \in Nat /\ j \in Nat /\ Arrives(i + d) /\ Arrives(j + d)
        /\ incoming'[i] = incoming[i + d] /\ incoming'[j] = incoming[j + d]
    BY <1>3 DEF Advanced
  <2>2. i + d < j + d
    BY <1>3, <2>1
  <2> QED BY <2>1, <2>2 DEF InLine, Arrives
<1>4. \A i \in DOMAIN held', j \in DOMAIN incoming' : Arrives(j)' => Before(held'[i], incoming'[j])
  BY DEF InLine, Advanced, Arrives
<1>5. \A o \in Opens : \A i \in DOMAIN inbox'[o] :
        /\ \A j \in DOMAIN incoming' : Arrives(j)' => Before(inbox'[o][i], incoming'[j])
        /\ \A j \in DOMAIN held' : ~SamePacket(inbox'[o][i], held'[j])
  BY DEF InLine, Advanced, Arrives
<1>6. InOrder'
  BY DEF InLine, InOrder
<1>7. \A i, j \in DOMAIN held' : i < j => Before(held'[i], held'[j])
  BY DEF InLine
<1> QED BY <1>2, <1>3, <1>4, <1>5, <1>6, <1>7 DEF InLine, Before, SamePacket

\* A packet is held: it comes after all the others held, and before what is still to
\* come in.
LEMMA OrderHeld ==
  ASSUME Vector(incoming), Vector(held), Len(held) <= HeldCapacity, Known, InLine, Advanced(1),
         Arrives(1), Hold(incoming[1]), UNCHANGED <<inbox, published>>
  PROVE  Known' /\ InLine'
<1> DEFINE p == incoming[1]
<1>1. PICK d \in {0, 1} :
              /\ DOMAIN held' = 1..(Len(held) + 1 - d) /\ Len(held) \in Nat
              /\ DOMAIN held = 1..Len(held) /\ d <= Len(held)
              /\ held'[Len(held) + 1 - d] = p
              /\ \A i \in 1..(Len(held) - d) : held'[i] = held[i + d]
  BY HoldPlaces DEF Taking
<1>2. \A i \in DOMAIN held' :
        \/ i = Len(held) + 1 - d /\ held'[i] = p
        \/ i < Len(held) + 1 - d /\ i + d \in DOMAIN held /\ held'[i] = held[i + d]
  <2>1. CASE d = 0
    BY <1>1, <2>1
  <2>2. CASE d = 1
    BY <1>1, <2>2
  <2> QED BY <2>1, <2>2
<1>3. \A i \in DOMAIN incoming' : i \in Nat \ {0} /\ (Arrives(i)' => Arrives(i + 1) /\ incoming'[i] = incoming[i + 1])
  BY DEF Advanced
<1>4. \A i \in DOMAIN incoming' : Arrives(i)' => Before(p, incoming'[i])
  <2>1. ASSUME NEW i \in DOMAIN incoming', Arrives(i)' PROVE Before(p, incoming'[i])
    <3>1. i \in Nat \ {0} /\ Arrives(i + 1) /\ incoming'[i] = incoming[i + 1]
      BY <1>3, <2>1
    <3>2. 1 < i + 1
      BY <3>1
    <3> QED BY <3>1, <3>2 DEF InLine, Arrives
  <2> QED BY <2>1
<1>5. Known'
  BY <1>2, <1>3 DEF Known, Arrives
<1>6. \A i, j \in DOMAIN incoming' : Arrives(i)' /\ Arrives(j)' /\ i < j => Before(incoming'[i], incoming'[j])
  BY <1>3 DEF InLine, Arrives
<1>7. ASSUME NEW i \in DOMAIN held', NEW j \in DOMAIN held', i < j
      PROVE  Before(held'[i], held'[j])
  <2>1. i \in Int /\ j \in Int /\ i + d < j + d /\ i < Len(held) + 1 - d
    BY <1>1, <1>7
  <2>2. i + d \in DOMAIN held /\ held'[i] = held[i + d]
    BY <1>2, <2>1
  <2>3. CASE j = Len(held) + 1 - d /\ held'[j] = p
    BY <2>2, <2>3 DEF InLine, Arrives
  <2>4. CASE j + d \in DOMAIN held /\ held'[j] = held[j + d]
    BY <2>1, <2>2, <2>4 DEF InLine
  <2> QED BY <1>2, <2>3, <2>4
<1>8. \A i \in DOMAIN held', j \in DOMAIN incoming' : Arrives(j)' => Before(held'[i], incoming'[j])
  BY <1>2, <1>3, <1>4 DEF InLine, Arrives
<1>9. \A o \in Opens : \A i \in DOMAIN inbox'[o] :
        /\ \A j \in DOMAIN incoming' : Arrives(j)' => Before(inbox'[o][i], incoming'[j])
        /\ \A j \in DOMAIN held' : ~SamePacket(inbox'[o][i], held'[j])
  BY <1>2, <1>3 DEF InLine, Arrives, Before
<1>10. InOrder'
  BY DEF InLine, InOrder
<1> QED BY <1>5, <1>6, <1>7, <1>8, <1>9, <1>10 DEF InLine, Before, SamePacket

\* A packet is handed over: its deliveries come last in the streams that get one.
LEMMA OrderHanded ==
  ASSUME Shape, Known, InLine, Advanced(1), Arrives(1), NEW p, p = incoming[1],
         UNCHANGED <<held, published>>,
         \A o \in Opens :
           \/ inbox'[o] = inbox[o]
           \/ \E d : inbox'[o] = Append(inbox[o], d) /\ SamePacket(d, p)
  PROVE  Known' /\ InLine'
<1>1. \A i \in DOMAIN incoming' :
        i \in Nat \ {0} /\ (Arrives(i)' => Arrives(i + 1) /\ incoming'[i] = incoming[i + 1])
  BY DEF Advanced
<1>2. ASSUME NEW i \in DOMAIN incoming', Arrives(i)' PROVE Before(p, incoming'[i])
  <2>1. i \in Nat \ {0} /\ Arrives(i + 1) /\ incoming'[i] = incoming[i + 1]
    BY <1>1, <1>2
  <2>2. 1 < i + 1
    BY <2>1
  <2> QED BY <2>1, <2>2 DEF InLine, Arrives
\* A delivery was in the stream before, or is the last and of p.
<1>3. \A o \in Opens : \A i \in DOMAIN inbox'[o] :
        \/ i \in DOMAIN inbox[o] /\ inbox'[o][i] = inbox[o][i]
        \/ SamePacket(inbox'[o][i], p) /\ \A j \in DOMAIN inbox'[o] : j <= i
  <2> SUFFICES ASSUME NEW o \in Opens
               PROVE  \A i \in DOMAIN inbox'[o] :
                        \/ i \in DOMAIN inbox[o] /\ inbox'[o][i] = inbox[o][i]
                        \/ SamePacket(inbox'[o][i], p) /\ \A j \in DOMAIN inbox'[o] : j <= i
    OBVIOUS
  <2>1. CASE inbox'[o] = inbox[o]
    BY <2>1
  <2>2. ASSUME NEW d, inbox'[o] = Append(inbox[o], d), SamePacket(d, p)
        PROVE  \A i \in DOMAIN inbox'[o] :
                 \/ i \in DOMAIN inbox[o] /\ inbox'[o][i] = inbox[o][i]
                 \/ SamePacket(inbox'[o][i], p) /\ \A j \in DOMAIN inbox'[o] : j <= i
    <3> DEFINE s == inbox[o]
               t == inbox'[o]
    <3>1. Vector(s) /\ t = Append(s, d)
      BY <2>2 DEF Shape
    <3> HIDE DEF s, t
    <3>2. /\ Len(s) \in Nat /\ DOMAIN s = 1..Len(s) /\ DOMAIN t = 1..(Len(s) + 1)
          /\ \A i \in DOMAIN s : t[i] = s[i]
          /\ t[Len(s) + 1] = d
      BY <3>1, VectorLonger
    <3>3. \A i \in DOMAIN t : i \in DOMAIN s \/ (i = Len(s) + 1 /\ \A j \in DOMAIN t : j <= i)
      BY <3>2
    <3>4. \A i \in DOMAIN t : \/ i \in DOMAIN s /\ t[i] = s[i]
                              \/ SamePacket(t[i], p) /\ \A j \in DOMAIN t : j <= i
      BY <2>2, <3>2, <3>3
    <3> QED BY <3>4 DEF s, t
  <2> QED BY <2>1, <2>2
<1>4. Known'
  BY <1>1, <1>3 DEF Known, Arrives, SamePacket
<1>5. \A i, j \in DOMAIN incoming' : Arrives(i)' /\ Arrives(j)' /\ i < j => Before(incoming'[i], incoming'[j])
  BY <1>1 DEF InLine, Arrives
<1>6. \A i \in DOMAIN held', j \in DOMAIN incoming' : Arrives(j)' => Before(held'[i], incoming'[j])
  BY <1>1 DEF InLine, Arrives
<1>7. \A o \in Opens : \A i \in DOMAIN inbox'[o] :
        /\ \A j \in DOMAIN incoming' : Arrives(j)' => Before(inbox'[o][i], incoming'[j])
        /\ \A j \in DOMAIN held' : ~SamePacket(inbox'[o][i], held'[j])
  <2> SUFFICES ASSUME NEW o \in Opens, NEW i \in DOMAIN inbox'[o]
               PROVE  /\ \A j \in DOMAIN incoming' : Arrives(j)' => Before(inbox'[o][i], incoming'[j])
                      /\ \A j \in DOMAIN held' : ~SamePacket(inbox'[o][i], held'[j])
    OBVIOUS
  <2>1. CASE i \in DOMAIN inbox[o] /\ inbox'[o][i] = inbox[o][i]
    BY <1>1, <2>1 DEF InLine, Arrives
  <2>2. CASE SamePacket(inbox'[o][i], p)
    BY <1>2, <2>2 DEF InLine, Arrives, Before, SamePacket
  <2> QED BY <1>3, <2>1, <2>2
<1>8. \A i, j \in DOMAIN held' : i < j => Before(held'[i], held'[j])
  BY DEF InLine
<1>9. ASSUME NEW o \in Opens, NEW i \in DOMAIN inbox'[o], NEW j \in DOMAIN inbox'[o], i < j
      PROVE  inbox'[o][i].message <= inbox'[o][j].message
  <2>1. DOMAIN inbox'[o] \subseteq Nat
    <3>1. \A d : DOMAIN Append(inbox[o], d) \subseteq Nat /\ DOMAIN inbox[o] \subseteq Nat
      BY VectorLonger DEF Shape
    <3> QED BY <3>1
  <2>2. i \in DOMAIN inbox[o] /\ inbox'[o][i] = inbox[o][i]
    BY <1>3, <1>9, <2>1
  <2>3. CASE j \in DOMAIN inbox[o] /\ inbox'[o][j] = inbox[o][j]
    BY <1>9, <2>2, <2>3 DEF InLine, InOrder
  <2>4. CASE SamePacket(inbox'[o][j], p)
    BY <2>2, <2>4 DEF InLine, Arrives, Before, SamePacket
  <2> QED BY <1>3, <2>3, <2>4
<1> QED BY <1>4, <1>5, <1>6, <1>7, <1>8, <1>9 DEF InLine, InOrder, Before, SamePacket

\* The packets an open claims leave the buffer for its stream, in their order.
LEMMA OrderClaimed ==
  ASSUME Shape, Known, InLine, NEW o \in Opens, OpenJoin(o)
  PROVE  Known' /\ InLine'
<1>1. UNCHANGED <<incoming, published>>
  BY DEF OpenJoin, serverVars
<1>2. CASE UNCHANGED <<inbox, held>>
  BY <1>1, <1>2 DEF Known, InLine, InOrder, Arrives, Before, SamePacket
<1>3. CASE ~UNCHANGED <<inbox, held>>
  <2>0. PICK K : /\ held' = Keep(held, Elements(held) \ K)
                 /\ DOMAIN inbox'[o] = DOMAIN Keep(held, K)
                 /\ Vector(inbox'[o])
                 /\ inbox' = [x \in Opens |-> inbox'[x]]
                 /\ \A i \in DOMAIN inbox'[o] :
                      /\ inbox'[o][i].message = Keep(held, K)[i].message
                      /\ inbox'[o][i].for = Keep(held, K)[i].for
                      /\ inbox'[o][i].ack
                 /\ \A x \in Opens \ {o} : inbox'[x] = inbox[x]
    BY <1>3, JoinPlaces
  <2>1. /\ held' = Keep(held, Elements(held) \ K)
        /\ DOMAIN inbox'[o] = DOMAIN Keep(held, K)
        /\ \A i \in DOMAIN inbox'[o] : SamePacket(inbox'[o][i], Keep(held, K)[i])
        /\ \A x \in Opens \ {o} : inbox'[x] = inbox[x]
    BY <2>0 DEF SamePacket
  <2> DEFINE rest == Elements(held) \ K
  <2>2. Vector(held) /\ held' = Keep(held, rest)
    BY <2>1 DEF Shape
  <2>3. \A e \in rest : e \notin K
    OBVIOUS
  <2> HIDE DEF rest
  <2>4. /\ \A i \in DOMAIN held' : \E a \in DOMAIN held : held[a] \in rest /\ held'[i] = held[a]
        /\ \A i, j \in DOMAIN held' :
              i < j => \E a, b \in DOMAIN held : a < b /\ held'[i] = held[a] /\ held'[j] = held[b]
    BY <2>2, VectorKeepOrder
  <2>5. /\ \A i \in DOMAIN inbox'[o] : \E a \in DOMAIN held :
             held[a] \in K /\ SamePacket(inbox'[o][i], held[a])
        /\ \A i, j \in DOMAIN inbox'[o] :
             i < j => \E a, b \in DOMAIN held :
                        a < b /\ SamePacket(inbox'[o][i], held[a]) /\ SamePacket(inbox'[o][j], held[b])
    <3> DEFINE claimed == Keep(held, K)
    <3>1. /\ \A i \in DOMAIN claimed : \E a \in DOMAIN held : held[a] \in K /\ claimed[i] = held[a]
          /\ \A i, j \in DOMAIN claimed :
                i < j => \E a, b \in DOMAIN held : a < b /\ claimed[i] = held[a] /\ claimed[j] = held[b]
      BY <2>2, VectorKeepOrder
    <3>2. DOMAIN inbox'[o] = DOMAIN claimed /\ \A i \in DOMAIN inbox'[o] : SamePacket(inbox'[o][i], claimed[i])
      BY <2>1
    <3> HIDE DEF claimed
    <3> QED BY <3>1, <3>2
  <2>6. \A a, b \in DOMAIN held : a # b => ~SamePacket(held[a], held[b])
    <3>1. DOMAIN held \subseteq Int
      BY <2>2, VectorPlaces
    <3> QED BY <3>1 DEF InLine, Before, SamePacket
  <2>7. Known'
    <3>1. \A i \in DOMAIN incoming' : Arrives(i)' => incoming'[i].message \in 1..published'
      BY <1>1 DEF Known, Arrives
    <3>2. \A i \in DOMAIN held' : held'[i].message \in 1..published'
      BY <1>1, <2>4 DEF Known
    <3>3. ASSUME NEW x \in Opens, NEW i \in DOMAIN inbox'[x] PROVE inbox'[x][i].message \in 1..published'
      <4>1. CASE x = o
        <5>1. PICK a \in DOMAIN held : SamePacket(inbox'[x][i], held[a])
          BY <2>5, <3>3, <4>1
        <5> QED BY <1>1, <5>1 DEF Known, SamePacket
      <4>2. CASE x # o
        <5>1. inbox'[x] = inbox[x]
          BY <2>1, <4>2
        <5> QED BY <1>1, <5>1 DEF Known
      <4> QED BY <4>1, <4>2
    <3> QED BY <3>1, <3>2, <3>3 DEF Known
  <2>8. \A i, j \in DOMAIN held' : i < j => Before(held'[i], held'[j])
    BY <2>4 DEF InLine
  <2>9. \A i \in DOMAIN held', j \in DOMAIN incoming' : Arrives(j)' => Before(held'[i], incoming'[j])
    BY <1>1, <2>4 DEF InLine, Arrives
  <2>10. ASSUME NEW x \in Opens, NEW i \in DOMAIN inbox'[x]
         PROVE  /\ \A j \in DOMAIN incoming' : Arrives(j)' => Before(inbox'[x][i], incoming'[j])
                /\ \A j \in DOMAIN held' : ~SamePacket(inbox'[x][i], held'[j])
    <3>1. CASE x # o
      <4>1. inbox'[x] = inbox[x] /\ i \in DOMAIN inbox[x]
        BY <2>1, <2>10, <3>1
      <4>2. /\ \A j \in DOMAIN incoming : Arrives(j) => Before(inbox[x][i], incoming[j])
            /\ \A j \in DOMAIN held : ~SamePacket(inbox[x][i], held[j])
        BY <4>1 DEF InLine
      <4> QED BY <1>1, <2>4, <4>1, <4>2 DEF Arrives
    <3>2. CASE x = o
      <4>1. PICK a \in DOMAIN held : held[a] \in K /\ SamePacket(inbox'[x][i], held[a])
        BY <2>5, <2>10, <3>2
      <4>2. \A j \in DOMAIN incoming' : Arrives(j)' => Before(inbox'[x][i], incoming'[j])
        BY <1>1, <4>1 DEF InLine, Arrives, Before, SamePacket
      <4>3. \A j \in DOMAIN held' : ~SamePacket(inbox'[x][i], held'[j])
        <5>1. ASSUME NEW j \in DOMAIN held', SamePacket(inbox'[x][i], held'[j]) PROVE FALSE
          <6>1. PICK b \in DOMAIN held : held[b] \in rest /\ held'[j] = held[b]
            BY <2>4, <5>1
          <6>2. a # b
            BY <2>3, <4>1, <6>1
          <6> QED BY <2>6, <4>1, <5>1, <6>1, <6>2 DEF SamePacket
        <5> QED BY <5>1
      <4> QED BY <4>2, <4>3
    <3> QED BY <3>1, <3>2
  <2>11. InOrder'
    <3>1. \A i, j \in DOMAIN inbox'[o] : i < j => inbox'[o][i].message <= inbox'[o][j].message
      BY <2>5 DEF InLine, Before, SamePacket
    <3> QED BY <2>1, <3>1 DEF InLine, InOrder
  <2>12. \A i, j \in DOMAIN incoming' : Arrives(i)' /\ Arrives(j)' /\ i < j => Before(incoming'[i], incoming'[j])
    BY <1>1 DEF InLine, Arrives
  <2> QED BY <2>7, <2>8, <2>9, <2>10, <2>11, <2>12 DEF InLine, Before, SamePacket
<1> QED BY <1>2, <1>3

\* A copy names what the server holds its filters with; it is for one filter, unless
\* the server merges.
CopyFor(p, t) ==
  /\ p.for # {} /\ p.for \subseteq {f \in Matching[t] : server[f] # NotHeld}
  /\ p.ids = IdentifiersOf(p.for) /\ p.topic = t
  /\ TRUE \notin Merges => \E f : p.for = {f}

\* The copies of a message come last on the wire, each for another filter.
LEMMA CopiesSent ==
  ASSUME IsFiniteSet(Filters), Vector(incoming), NEW t \in Topics, ServerPublish(t)
  PROVE  \E s : /\ Vector(s) /\ incoming' = incoming \o s
                /\ \A i \in DOMAIN s : s[i].kind = "publish" /\ s[i].message = published + 1
                /\ \A i \in DOMAIN s : CopyFor(s[i], t)
                /\ \A i, j \in DOMAIN s : i # j => s[i].for # s[j].for /\ s[i].for \cap s[j].for = {}
<1> DEFINE for == {f \in Matching[t] : server[f] # NotHeld}
           n   == published + 1
<1>1. CASE TRUE \in Merges /\ incoming' = Append(incoming, Packet(n, t, IdentifiersOf(for), for))
  <2> DEFINE p == Packet(n, t, IdentifiersOf(for), for)
             s == <<p>>
  <2>1. p.kind = "publish" /\ p.message = n
    BY DEF Packet
  <2>5. CopyFor(p, t)
    BY <1>1 DEF Packet, CopyFor, ServerPublish
  <2> HIDE DEF p
  <2>2. Vector(s) /\ incoming' = incoming \o s
    BY <1>1, VectorAppend DEF p
  <2>3. DOMAIN s = {1} /\ s[1] = p
    OBVIOUS
  <2>4. /\ \A i \in DOMAIN s : s[i].kind = "publish" /\ s[i].message = published + 1
        /\ \A i \in DOMAIN s : CopyFor(s[i], t)
        /\ \A i, j \in DOMAIN s : i = j
    BY <2>1, <2>3, <2>5
  <2> HIDE DEF s
  <2> QED BY <2>2, <2>4
<1>2. ASSUME NEW order \in SetToSeqs(for),
             incoming' = incoming \o
               [i \in DOMAIN order |-> Packet(n, t, IdentifiersOf({order[i]}), {order[i]})]
      PROVE  \E s : /\ Vector(s) /\ incoming' = incoming \o s
                    /\ \A i \in DOMAIN s : s[i].kind = "publish" /\ s[i].message = published + 1
                    /\ \A i \in DOMAIN s : CopyFor(s[i], t)
                    /\ \A i, j \in DOMAIN s : i # j => s[i].for # s[j].for /\ s[i].for \cap s[j].for = {}
  <2> DEFINE s == [i \in DOMAIN order |-> Packet(n, t, IdentifiersOf({order[i]}), {order[i]})]
  <2>1. PICK k \in Nat : DOMAIN order = 1..k
    <3>0. Matching[t] \subseteq Filters
      BY RegistryAssumption
    <3>1. IsFiniteSet(for)
      BY <3>0, FS_Subset
    <3>2. Cardinality(for) \in Nat
      BY <3>1, FS_CardinalityType
    <3> HIDE DEF for
    <3>3. order \in [1..Cardinality(for) -> for]
      BY <1>2 DEF SetToSeqs
    <3> QED BY <3>2, <3>3
  <2>2. \A i, j \in DOMAIN order : i # j => order[i] # order[j]
    <3> HIDE DEF for
    <3> QED BY <1>2 DEF SetToSeqs, IsInjective
  <2>3. s = [i \in 1..k |-> s[i]] /\ DOMAIN s = DOMAIN order
    BY <2>1
  <2>4. \A i \in DOMAIN order :
          s[i].kind = "publish" /\ s[i].message = published + 1 /\ s[i].for = {order[i]}
    BY DEF Packet
  <2>5. incoming' = incoming \o s
    BY <1>2
  <2>8. ASSUME NEW i \in DOMAIN order PROVE CopyFor(s[i], t)
    <3>1. order[i] \in for
      <4> HIDE DEF for
      <4> QED BY <1>2, <2>8 DEF SetToSeqs
    <3>2. s[i].for = {order[i]} /\ s[i].ids = IdentifiersOf({order[i]}) /\ s[i].topic = t
      BY <2>8 DEF Packet
    <3> QED BY <3>1, <3>2 DEF CopyFor
  <2> HIDE DEF s
  <2>6. Vector(s)
    BY <2>1, <2>3, VectorFunction
  <2>7. ASSUME NEW i \in DOMAIN s, NEW j \in DOMAIN s, i # j PROVE s[i].for # s[j].for /\ s[i].for \cap s[j].for = {}
    <3>1. order[i] # order[j] /\ s[i].for = {order[i]} /\ s[j].for = {order[j]}
      BY <2>2, <2>3, <2>4, <2>7
    <3> QED BY <3>1
  <2> QED BY <2>3, <2>4, <2>5, <2>6, <2>7, <2>8
<1> QED BY <1>1, <1>2 DEF ServerPublish

\* What is published comes after all that was published before.
LEMMA OrderSent ==
  ASSUME IsFiniteSet(Filters), Vector(incoming), Known, InLine, published \in Nat,
         NEW t \in Topics, ServerPublish(t)
  PROVE  Known' /\ InLine'
<1>1. published' = published + 1 /\ UNCHANGED <<held, inbox>>
  BY DEF ServerPublish
<1>2. PICK s : /\ Vector(s) /\ incoming' = incoming \o s
               /\ \A i \in DOMAIN s : s[i].kind = "publish" /\ s[i].message = published + 1
               /\ \A i, j \in DOMAIN s : i # j => s[i].for # s[j].for
  BY CopiesSent
<1>3. /\ Vector(incoming') /\ Len(incoming') = Len(incoming) + Len(s)
      /\ \A i \in DOMAIN incoming' :
           incoming'[i] = IF i <= Len(incoming) THEN incoming[i] ELSE s[i - Len(incoming)]
  BY <1>2, VectorConcat
<1>4. /\ Len(incoming) \in Nat /\ DOMAIN incoming = 1..Len(incoming)
      /\ Len(s) \in Nat /\ DOMAIN s = 1..Len(s) /\ DOMAIN incoming' = 1..Len(incoming')
  BY <1>2, <1>3, VectorPlaces
<1> DEFINE L == Len(incoming)
\* It was on the wire, or is one of the copies.
<1>5. \A i \in DOMAIN incoming' :
        \/ i <= L /\ i \in DOMAIN incoming /\ incoming'[i] = incoming[i]
        \/ i > L /\ i - L \in DOMAIN s /\ incoming'[i] = s[i - L]
  BY <1>3, <1>4
<1>6. \A i \in DOMAIN incoming' : i \in Int
  BY <1>4
<1> HIDE DEF L
<1>7. \A m \in 1..published : m <= published + 1 /\ m # published + 1 /\ m \in 1..(published + 1)
  OBVIOUS
<1>8. published + 1 \in 1..(published + 1)
  OBVIOUS
<1>9. Known'
  <2>1. \A i \in DOMAIN incoming' : Arrives(i)' => incoming'[i].message \in 1..(published + 1)
    BY <1>2, <1>5, <1>7, <1>8 DEF Known, Arrives
  <2>2. /\ \A i \in DOMAIN held : held[i].message \in 1..(published + 1)
        /\ \A o \in Opens : \A i \in DOMAIN inbox[o] : inbox[o][i].message \in 1..(published + 1)
    BY <1>7 DEF Known
  <2> QED BY <1>1, <2>1, <2>2 DEF Known
\* Whatever was published before comes before a copy.
<1>10. \A x : x.message \in 1..published => \A i \in DOMAIN s : Before(x, s[i])
  BY <1>2, <1>7 DEF Before, SamePacket
<1>11. \A i, j \in DOMAIN s : i # j => Before(s[i], s[j])
  BY <1>2 DEF Before, SamePacket
<1>12. ASSUME NEW i \in DOMAIN incoming', NEW j \in DOMAIN incoming', Arrives(i)', Arrives(j)', i < j
       PROVE  Before(incoming'[i], incoming'[j])
  <2>1. CASE j <= L
    <3>1. i <= L
      BY <1>4, <1>6, <1>12, <2>1 DEF L
    <3>2. /\ i \in DOMAIN incoming /\ incoming'[i] = incoming[i]
          /\ j \in DOMAIN incoming /\ incoming'[j] = incoming[j]
      BY <1>4, <1>5, <1>6, <2>1, <3>1 DEF L
    <3> QED BY <1>12, <3>2 DEF InLine, Arrives
  <2>2. CASE j > L /\ i <= L
    <3>1. /\ i \in DOMAIN incoming /\ incoming'[i] = incoming[i]
          /\ j - L \in DOMAIN s /\ incoming'[j] = s[j - L]
      BY <1>4, <1>5, <1>6, <2>2 DEF L
    <3>2. incoming[i].message \in 1..published
      BY <1>12, <3>1 DEF Known, Arrives
    <3> QED BY <1>10, <3>1, <3>2
  <2>3. CASE i > L
    <3>1. /\ i - L \in DOMAIN s /\ incoming'[i] = s[i - L]
          /\ j - L \in DOMAIN s /\ incoming'[j] = s[j - L] /\ i - L # j - L
      BY <1>4, <1>5, <1>6, <1>12, <2>3 DEF L
    <3> QED BY <1>11, <3>1
  <2> QED BY <1>4, <1>6, <2>1, <2>2, <2>3 DEF L
<1>13. \A x : /\ x.message \in 1..published
              /\ \A j \in DOMAIN incoming : Arrives(j) => Before(x, incoming[j])
              => \A j \in DOMAIN incoming' : Arrives(j)' => Before(x, incoming'[j])
  BY <1>5, <1>10 DEF Arrives
<1>14. \A i \in DOMAIN held', j \in DOMAIN incoming' : Arrives(j)' => Before(held'[i], incoming'[j])
  BY <1>1, <1>13 DEF Known, InLine
<1>15. \A o \in Opens : \A i \in DOMAIN inbox'[o] :
         /\ \A j \in DOMAIN incoming' : Arrives(j)' => Before(inbox'[o][i], incoming'[j])
         /\ \A j \in DOMAIN held' : ~SamePacket(inbox'[o][i], held'[j])
  BY <1>1, <1>13 DEF Known, InLine
<1>16. InOrder' /\ \A i, j \in DOMAIN held' : i < j => Before(held'[i], held'[j])
  BY <1>1 DEF InLine, InOrder
<1> QED BY <1>9, <1>12, <1>14, <1>15, <1>16 DEF InLine, Before, SamePacket

\* Each step keeps the order.
LEMMA OrderStep ==
  ASSUME IsFiniteSet(Filters), OrderInv, [Next]_vars
  PROVE  Known' /\ InLine'
<1>1. Vector(incoming) /\ Vector(held) /\ Len(held) <= HeldCapacity /\ published \in Nat
  BY IncomingVector, ConnectionAssumption DEF OrderInv, CInv, Shape, TypeOK
<1>2. ASSUME UNCHANGED incoming PROVE Advanced(0)
  <2>1. \A i \in DOMAIN incoming : i \in Nat \ {0} /\ i + 0 = i
    BY <1>1, VectorPlaces
  <2> QED BY <1>2, <2>1 DEF Advanced, Arrives
<1>3. ASSUME Advanced(0), UNCHANGED <<held, inbox, published>> PROVE Known' /\ InLine'
  BY <1>1, <1>3, OrderAdvanced DEF OrderInv
<1>4. CASE \/ \E o \in Opens : OpenSend(o) \/ OpenCancel(o) \/ Drop(o)
           \/ Reap \/ UNCHANGED vars
  <2>1. UNCHANGED <<incoming, held, inbox, published>>
    BY <1>4 DEF OpenSend, OpenCancel, Drop, Reap, vars, serverVars
  <2> QED BY <1>2, <1>3, <2>1
<1>5. ASSUME NEW o \in Opens, OpenJoin(o) PROVE Known' /\ InLine'
  BY <1>5, OrderClaimed DEF OrderInv
<1>6. ASSUME NEW t \in Topics, ServerPublish(t) PROVE Known' /\ InLine'
  BY <1>1, <1>6, OrderSent DEF OrderInv
<1>7. CASE ServerTake
  <2>1. UNCHANGED <<held, inbox, published>>
    BY <1>7 DEF ServerTake
  <2>2. CASE UNCHANGED incoming
    BY <1>2, <1>3, <2>1, <2>2
  <2>3. CASE ~UNCHANGED incoming
    <3>1. PICK accepted : incoming' = Append(incoming, [kind |-> "suback", open |-> Head(requests).open,
                                                        request |-> Head(requests).request,
                                                        accepted |-> accepted])
      BY <1>7, <2>3 DEF ServerTake
    <3> DEFINE e == [kind |-> "suback", open |-> Head(requests).open,
                     request |-> Head(requests).request, accepted |-> accepted]
    <3>2. e.kind # "publish" /\ incoming' = Append(incoming, e)
      BY <3>1
    <3> HIDE DEF e
    <3>3. Advanced(0)
      BY <1>1, <3>2, WireAnswer
    <3> QED BY <1>3, <2>1, <3>3
  <2> QED BY <2>2, <2>3
<1>8. CASE ReceiveSuback
  <2>1. UNCHANGED <<held, inbox, published>> /\ incoming # <<>> /\ incoming' = Tail(incoming)
    BY <1>8 DEF ReceiveSuback, serverVars
  <2>2. Advanced(1)
    BY <1>1, <2>1, WireTail
  <2> QED BY <1>1, <2>1, <2>2, OrderAdvanced DEF OrderInv
<1>9. CASE ReceivePublish
  <2>1. /\ UNCHANGED published /\ incoming # <<>> /\ incoming' = Tail(incoming)
        /\ Head(incoming).kind = "publish"
    BY <1>9 DEF ReceivePublish, serverVars
  <2>2. Advanced(1) /\ Head(incoming) = incoming[1] /\ 1 \in DOMAIN incoming
    BY <1>1, <2>1, WireTail
  <2>3. Arrives(1)
    BY <2>1, <2>2 DEF Arrives
  <2>4. CASE Targets(Head(incoming).topic, Head(incoming).ids) = {}
    <3>1. Hold(incoming[1]) /\ UNCHANGED inbox
      BY <1>9, <2>2, <2>4 DEF ReceivePublish
    <3> QED BY <1>1, <2>1, <2>2, <2>3, <3>1, OrderHeld DEF OrderInv
  <2>5. CASE Targets(Head(incoming).topic, Head(incoming).ids) # {}
    <3>1. UNCHANGED held
      BY <1>9, <2>5 DEF ReceivePublish
    <3>2. \A o \in Opens : \/ inbox'[o] = inbox[o]
                           \/ \E d : inbox'[o] = Append(inbox[o], d) /\ SamePacket(d, incoming[1])
      BY <1>9, <2>2, HandPlaces DEF OrderInv, SamePacket
    <3> QED BY <2>1, <2>2, <2>3, <3>1, <3>2, OrderHanded DEF OrderInv
  <2> QED BY <2>4, <2>5
<1> QED BY <1>4, <1>5, <1>6, <1>7, <1>8, <1>9 DEF Next

\* Nothing was sent or held yet.
LEMMA OrderInit == Init => OrderInv
<1> SUFFICES ASSUME Init PROVE OrderInv
  OBVIOUS
<1>1. CInv /\ Shape /\ TypeOK
  BY CInvInit, ShapeInit
<1>2. incoming = <<>> /\ held = <<>> /\ inbox = [o \in Opens |-> <<>>]
  BY DEF Init
<1>3. DOMAIN <<>> = {}
  OBVIOUS
<1>4. Known /\ InLine
  BY <1>2, <1>3 DEF Known, InLine, InOrder
<1> QED BY <1>1, <1>4 DEF OrderInv

\* The order of the table, the wire, the buffer and the streams is kept together.
LEMMA OrderInvStep ==
  ASSUME IsFiniteSet(Filters)
  PROVE  OrderInv /\ [Next]_vars => OrderInv'
<1> SUFFICES ASSUME OrderInv, [Next]_vars PROVE OrderInv'
  OBVIOUS
<1>1. (CInv /\ Shape /\ TypeOK)'
  BY TypedStep DEF OrderInv
<1>2. Known' /\ InLine'
  BY OrderStep
<1> QED BY <1>1, <1>2 DEF OrderInv

\* A stream yields messages in the order they were published, those held for it first:
\* however opens, drops, answers and copies of a message fall among each other.
THEOREM DeliveriesInOrder ==
  ASSUME IsFiniteSet(Filters)
  PROVE  Spec => []InOrder
<1>1. Init => OrderInv
  BY OrderInit
<1>2. OrderInv /\ [Next]_vars => OrderInv'
  BY OrderInvStep
<1>3. OrderInv => InOrder
  BY DEF OrderInv, InLine
<1> QED BY <1>1, <1>2, <1>3, PTL DEF Spec

-----------------------------------------------------------------------------
(* Acknowledgements.                                                       *)

\* An open that joined has a member of its own, numbered before the next.
Numbered ==
  \A o, x \in Opens : member[o] # NoMember =>
    /\ member[o] \in Nat /\ member[o] < nextMember
    /\ member[x] = member[o] => x = o

\* Every member of the table is that of an open whose stream still exists.
Seats == \A m : Sits(m) => \E o \in Opens : Alive(o) /\ member[o] = m

Acks(o, i) == i \in DOMAIN inbox[o] /\ inbox[o][i].ack

\* Two deliveries of one packet never both acknowledge it.
OneAck ==
  \A o, x \in Opens : \A i \in DOMAIN inbox[o], j \in DOMAIN inbox[x] :
    Acks(o, i) /\ Acks(x, j) /\ SamePacket(inbox[o][i], inbox[x][j]) => o = x /\ i = j

\* What was delivered is acknowledged by one of its deliveries.
SomeAck ==
  \A o \in Opens : \A i \in DOMAIN inbox[o] :
    \E x \in Opens : \E j \in DOMAIN inbox[x] : Acks(x, j) /\ SamePacket(inbox[x][j], inbox[o][i])

\* Members are numbered in the order they join.
LEMMA NumberedStep ==
  ASSUME Structure, TypeOK, Numbered, [Next]_vars, nextMember' \in Nat
  PROVE  Numbered'
<1>1. nextMember \in Nat
  BY DEF Structure, RegistryTypeOK
<1>2. ASSUME UNCHANGED member, nextMember <= nextMember' PROVE Numbered'
  BY <1>1, <1>2 DEF Numbered
<1>3. ASSUME NEW m, Leave(m) PROVE nextMember' = nextMember
  BY <1>3 DEF Leave
<1>4. ASSUME NEW o \in Opens, OpenJoin(o) PROVE Numbered'
  <2>1. CASE Refused(FilterOf[o], offered)
    BY <1>1, <1>2, <1>4, <2>1 DEF OpenJoin, registryVars
  <2>2. CASE ~Refused(FilterOf[o], offered)
    <3>1. nextMember' = nextMember + 1 /\ member' = [member EXCEPT ![o] = nextMember]
      BY <1>4, <2>2 DEF OpenJoin, Join
    <3>2. \A x \in Opens : member'[x] = IF x = o THEN nextMember ELSE member[x]
      BY <3>1 DEF TypeOK
    <3>3. nextMember # NoMember
      BY <1>1 DEF NoMember
    <3>4. \A x \in Opens : member[x] # nextMember
      BY <1>1, <3>3 DEF Numbered
    <3> QED BY <1>1, <3>1, <3>2, <3>4 DEF Numbered
  <2> QED BY <2>1, <2>2
<1>5. CASE \/ \E o \in Opens : OpenSend(o) \/ OpenCancel(o) \/ Drop(o)
           \/ ServerTake \/ (\E t \in Topics : ServerPublish(t)) \/ ReceiveSuback
           \/ ReceivePublish \/ Reap \/ UNCHANGED vars
  <2>1. UNCHANGED member
    BY <1>5 DEF OpenSend, OpenCancel, Drop, ServerTake, ServerPublish, ReceiveSuback,
                ReceivePublish, Reap, vars, openVars
  <2>2. nextMember' = nextMember
    BY <1>3, <1>5 DEF OpenSend, OpenCancel, Drop, Release, ServerTake, ServerPublish, ReceiveSuback,
                ReceivePublish, Route, Identified, Reap, vars, registryVars
  <2> QED BY <1>1, <1>2, <2>1, <2>2
<1> QED BY <1>4, <1>5 DEF Next

\* An open that was given up stays given up.
LEMMA GivenUpStays ==
  ASSUME TypeOK, [Next]_vars, NoneGivenUp'
  PROVE  NoneGivenUp
<1> SUFFICES ASSUME NEW x \in Opens, pc[x] = "cancelled" PROVE pc'[x] = "cancelled"
  BY DEF NoneGivenUp
<1>1. ASSUME NEW o \in Opens, OpenJoin(o) \/ OpenSend(o) \/ OpenCancel(o) \/ Drop(o)
      PROVE  pc'[x] = "cancelled"
  BY <1>1 DEF OpenJoin, OpenSend, OpenCancel, Drop, TypeOK
<1>2. CASE ReceiveSuback
  BY <1>2 DEF ReceiveSuback, Outcome, TypeOK
<1>3. CASE ServerTake \/ (\E t \in Topics : ServerPublish(t)) \/ ReceivePublish \/ Reap
           \/ UNCHANGED vars
  BY <1>3 DEF ServerTake, ServerPublish, ReceivePublish, Reap, vars, openVars
<1> QED BY <1>1, <1>2, <1>3 DEF Next

\* A stream that goes takes its member out, unless the caller of its open went first.
LEMMA SeatsStep ==
  ASSUME NoneGivenUp', CInv, TypeOK, Seats, [Next]_vars
  PROVE  Seats'
<1> USE DEF CInv
<1>1. ASSUME \A m : Sits(m)' => Sits(m), UNCHANGED member,
             \A o \in Opens : Alive(o) => Alive(o)'
      PROVE  Seats'
  BY <1>1 DEF Seats, Alive
<1>2. ASSUME NEW o \in Opens, Leave(member[o]), UNCHANGED member,
             \A x \in Opens \ {o} : Alive(x) => Alive(x)'
      PROVE  Seats'
  <2>1. (\A k : Sits(k)' => Sits(k)) /\ ~Sits(member[o])'
    BY <1>2, SitsLeft
  <2> QED BY <1>2, <2>1 DEF Seats, Alive
<1>3. \A m : UNCHANGED registryVars => (Sits(m)' => Sits(m))
  BY SitsSame
<1>4. ASSUME NEW o \in Opens, OpenJoin(o) PROVE Seats'
  <2>0. \A x \in Opens : Alive(x) => x # o
    BY <1>4 DEF OpenJoin, Alive
  <2>1. CASE Refused(FilterOf[o], offered)
    <3>1. UNCHANGED registryVars /\ UNCHANGED member /\ pc' = [pc EXCEPT ![o] = "failed"]
      BY <1>4, <2>1 DEF OpenJoin
    <3>2. \A x \in Opens : Alive(x) => Alive(x)'
      BY <2>0, <3>1 DEF TypeOK, Alive
    <3> QED BY <1>1, <1>3, <3>1, <3>2
  <2>2. CASE ~Refused(FilterOf[o], offered)
    <3>1. /\ Join(FilterOf[o], QosOf[o], offered) /\ pc' = [pc EXCEPT ![o] = "sending"]
          /\ member' = [member EXCEPT ![o] = nextMember]
      BY <1>4, <2>2 DEF OpenJoin
    <3>2. FilterOf[o] \in Filters /\ QosOf[o] \in Qos /\ offered \in BOOLEAN
      BY ConnectionAssumption DEF TypeOK
    <3>3. \A m : Sits(m)' => Sits(m) \/ m = nextMember
      BY <3>1, <3>2, SitsJoined
    <3>4. Alive(o)' /\ member'[o] = nextMember
      BY <3>1 DEF TypeOK, Alive
    <3>5. \A x \in Opens : Alive(x) => Alive(x)' /\ member'[x] = member[x]
      BY <2>0, <3>1 DEF TypeOK, Alive
    <3> QED BY <3>3, <3>4, <3>5 DEF Seats, Alive
  <2> QED BY <2>1, <2>2
<1>5. ASSUME NEW o \in Opens, OpenSend(o) PROVE Seats'
  <2>1. UNCHANGED registryVars /\ UNCHANGED member /\ (pc' = pc \/ pc' = [pc EXCEPT ![o] = "waiting"])
    BY <1>5 DEF OpenSend
  <2>2. \A x \in Opens : Alive(x) => Alive(x)'
    BY <2>1 DEF TypeOK, Alive
  <2> QED BY <1>1, <1>3, <2>1, <2>2
<1>6. ASSUME NEW o \in Opens, Drop(o) PROVE Seats'
  <2>1. Leave(member[o]) /\ UNCHANGED member /\ pc' = [pc EXCEPT ![o] = "closed"]
    BY <1>6 DEF Drop, Release
  <2>2. \A x \in Opens \ {o} : Alive(x) => Alive(x)'
    BY <2>1 DEF TypeOK, Alive
  <2> QED BY <1>2, <2>1, <2>2
<1>7. CASE Reap
  <2>1. Leave(Head(reaping)) /\ UNCHANGED <<member, pc>>
    BY <1>7 DEF Reap, Release, openVars
  <2>2. \A m : Sits(m)' => Sits(m)
    BY <2>1, SitsLeft
  <2>3. \A x \in Opens : Alive(x) => Alive(x)'
    BY <2>1 DEF Alive
  <2> QED BY <1>1, <2>1, <2>2, <2>3
<1>8. CASE ServerTake \/ (\E t \in Topics : ServerPublish(t)) \/ UNCHANGED vars
  <2>1. UNCHANGED registryVars /\ UNCHANGED <<member, pc>>
    BY <1>8 DEF ServerTake, ServerPublish, vars, openVars
  <2>2. \A x \in Opens : Alive(x) => Alive(x)'
    BY <2>1 DEF Alive
  <2> QED BY <1>1, <1>3, <2>1, <2>2
<1>9. CASE ReceivePublish
  <2>1. UNCHANGED registryVars \/ \E t, ids : Route(t, ids)
    BY <1>9 DEF ReceivePublish
  <2>2. UNCHANGED <<member, pc>>
    BY <1>9 DEF ReceivePublish, openVars
  <2>3. \A m : Sits(m)' => Sits(m)
    BY <2>1, SitsSame
  <2>4. \A x \in Opens : Alive(x) => Alive(x)'
    BY <2>2 DEF Alive
  <2> QED BY <1>1, <2>2, <2>3, <2>4
<1>10. CASE ReceiveSuback
  <2> DEFINE suback == Head(incoming)
             o == suback.open
  <2>1. UNCHANGED member
    BY <1>10 DEF ReceiveSuback
  <2>2. CASE suback.request.refresh
    <3>1. Identified(suback.request.filter, suback.accepted) /\ UNCHANGED pc
      BY <1>10, <2>2 DEF ReceiveSuback
    <3>2. \A m : Sits(m)' => Sits(m)
      BY <3>1, SitsSame
    <3>3. \A x \in Opens : Alive(x) => Alive(x)'
      BY <3>1 DEF Alive
    <3> QED BY <1>1, <2>1, <3>2, <3>3
  <2>3. CASE ~suback.request.refresh
    <3>1. /\ IF suback.accepted THEN UNCHANGED registryVars ELSE Leave(member[o])
          /\ pc' = [pc EXCEPT ![o] = Outcome(pc[o], suback.accepted)]
      BY <1>10, <2>3 DEF ReceiveSuback
    <3> HIDE DEF suback, o
    <3>2. \A x \in Opens \ {o} : Alive(x) => Alive(x)'
      BY <3>1 DEF TypeOK, Alive
    <3>3. CASE suback.accepted
      <4>1. \A x \in Opens : Alive(x) => Alive(x)'
        BY <3>1, <3>3 DEF TypeOK, Alive, Outcome
      <4> QED BY <1>1, <1>3, <2>1, <3>1, <3>3, <4>1
    <3>4. CASE ~suback.accepted
      <4>1. Leave(member[o])
        BY <3>1, <3>4
      <4>2. CASE o \in Opens
        BY <1>2, <2>1, <3>2, <4>1, <4>2
      <4>3. CASE o \notin Opens
        <5>1. \A x \in Opens : Alive(x) => Alive(x)'
          BY <3>2, <4>3
        <5>2. \A m : Sits(m)' => Sits(m)
          BY <4>1, SitsLeft
        <5> QED BY <1>1, <2>1, <5>1, <5>2
      <4> QED BY <4>2, <4>3
    <3> QED BY <3>3, <3>4
  <2> QED BY <2>2, <2>3
<1>11. ASSUME NEW o \in Opens, OpenCancel(o) PROVE FALSE
  BY <1>11 DEF OpenCancel, NoneGivenUp, TypeOK
<1> QED BY <1>4, <1>5, <1>6, <1>7, <1>8, <1>9, <1>10, <1>11 DEF Next

\* The copies a packet becomes: one at most carries the acknowledgement, that of the first
\* target, and it does when the taker's stream still exists.
LEMMA HandAcks ==
  ASSUME Structure, Shape, Numbered, ReceivePublish,
         NEW targets, targets = Targets(Head(incoming).topic, Head(incoming).ids), targets # {}
  PROVE  \E first \in targets :
           /\ \A o \in Opens :
                \/ inbox'[o] = inbox[o]
                \/ \E d : /\ inbox'[o] = Append(inbox[o], d) /\ SamePacket(d, Head(incoming))
                          /\ d.ack => member[o] = Taker(first)
           /\ \A o \in Opens :
                Alive(o) /\ member[o] = Taker(first) =>
                  \E d : inbox'[o] = Append(inbox[o], d) /\ SamePacket(d, Head(incoming)) /\ d.ack
<1> DEFINE p == Head(incoming)
           TakenAt(o) == {n \in targets : Taker(n) = member[o]}
           Copy(o) == [message |-> p.message, for |-> p.for,
                       ack |-> CarriesAck(Max(TakenAt(o)), targets)]
<1>1. targets \subseteq DOMAIN wires /\ DOMAIN wires = 1..Len(wires) /\ Len(wires) \in Nat
  BY SeqPlaces DEF Targets, Structure, RegistryTypeOK
<1>2. PICK first \in targets : \A n \in targets : first <= n
  BY <1>1, FirstPlace
<1>3. inbox' = [o \in Opens |-> IF Alive(o) /\ TakenAt(o) # {}
                                THEN Append(inbox[o], Copy(o)) ELSE inbox[o]]
  BY DEF ReceivePublish
<1>4. \A o : /\ SamePacket(Copy(o), p)
             /\ Copy(o).ack = CarriesAck(Max(TakenAt(o)), targets)
  BY DEF SamePacket
\* A member takes at one wire.
<1>5. ASSUME NEW o \in Opens, NEW n \in TakenAt(o) PROVE Max(TakenAt(o)) = n
  <2>1. \A k \in TakenAt(o) : k = n
    BY <1>1, <1>5, TakerSits
  <2>2. n \in Int /\ n >= n
    BY <1>1
  <2> HIDE DEF TakenAt
  <2>3. TakenAt(o) = {n}
    BY <1>5, <2>1
  <2>4. \A x \in {n} : x = n
    OBVIOUS
  <2>5. \E x \in {n} : \A y \in {n} : x >= y
    BY <2>2
  <2>6. Max({n}) \in {n}
    BY <2>5 DEF Max
  <2> QED BY <2>3, <2>6
<1>6. \A n \in targets : CarriesAck(n, targets) <=> n = first
  <2>1. \A n, k \in targets : n \in Int /\ k \in Int
    BY <1>1
  <2> QED BY <1>2, <2>1 DEF CarriesAck
<1>7. \A o : TakenAt(o) = {n \in targets : Taker(n) = member[o]}
  OBVIOUS
<1> HIDE DEF Copy, TakenAt
<1>8. ASSUME NEW o \in Opens
      PROVE  \/ inbox'[o] = inbox[o]
             \/ \E d : /\ inbox'[o] = Append(inbox[o], d) /\ SamePacket(d, p)
                       /\ d.ack => member[o] = Taker(first)
  <2>1. CASE ~(Alive(o) /\ TakenAt(o) # {})
    BY <1>3, <2>1
  <2>2. CASE Alive(o) /\ TakenAt(o) # {}
    <3>1. PICK n \in TakenAt(o) : TRUE
      BY <2>2
    <3>2. n \in targets /\ Taker(n) = member[o]
      BY <1>7, <3>1
    <3>3. Max(TakenAt(o)) = n
      BY <1>5, <3>1
    <3>4. Copy(o).ack => member[o] = Taker(first)
      BY <1>4, <1>6, <3>2, <3>3
    <3> QED BY <1>3, <1>4, <2>2, <3>4
  <2> QED BY <2>1, <2>2
<1>9. ASSUME NEW o \in Opens, Alive(o), member[o] = Taker(first)
      PROVE  \E d : inbox'[o] = Append(inbox[o], d) /\ SamePacket(d, p) /\ d.ack
  <2>1. first \in TakenAt(o)
    BY <1>7, <1>9
  <2>2. Copy(o).ack
    BY <1>4, <1>5, <1>6, <2>1
  <2> QED BY <1>3, <1>4, <1>9, <2>1, <2>2
<1> QED BY <1>8, <1>9

\* A delivery is one of those before, or the last and of the packet handed over.
LEMMA HandedOver ==
  ASSUME Shape, NEW p, NEW o \in Opens, NEW d,
         inbox'[o] = Append(inbox[o], d), SamePacket(d, p)
  PROVE  \E last \in DOMAIN inbox'[o] :
           /\ inbox'[o][last] = d
           /\ DOMAIN inbox'[o] = DOMAIN inbox[o] \cup {last} /\ last \notin DOMAIN inbox[o]
           /\ \A i \in DOMAIN inbox[o] : inbox'[o][i] = inbox[o][i]
<1> DEFINE s == inbox[o]
           t == inbox'[o]
<1>1. Vector(s) /\ t = Append(s, d)
  BY DEF Shape
<1> HIDE DEF s, t
<1>2. /\ Len(s) \in Nat /\ DOMAIN s = 1..Len(s) /\ DOMAIN t = 1..(Len(s) + 1)
      /\ \A i \in DOMAIN s : t[i] = s[i]
      /\ t[Len(s) + 1] = d
  BY <1>1, VectorLonger
<1>3. /\ Len(s) + 1 \in DOMAIN t /\ Len(s) + 1 \notin DOMAIN s
      /\ DOMAIN t = DOMAIN s \cup {Len(s) + 1}
  BY <1>2
<1> QED BY <1>2, <1>3 DEF s, t

\* Nothing was delivered of a packet that comes in.
LEMMA UndeliveredYet ==
  ASSUME OrderInv, incoming # <<>>, Head(incoming).kind = "publish"
  PROVE  \A o \in Opens : \A i \in DOMAIN inbox[o] : ~SamePacket(inbox[o][i], Head(incoming))
<1>1. Vector(incoming)
  BY IncomingVector DEF OrderInv, CInv
<1>2. Head(incoming) = incoming[1] /\ 1 \in DOMAIN incoming
  BY <1>1, VectorTail
<1> QED BY <1>2 DEF OrderInv, InLine, Before, Arrives

\* Of the packet handed over one delivery at most acknowledges it.
LEMMA OneAckHanded ==
  ASSUME OrderInv, OneAck, Numbered, incoming # <<>>, Head(incoming).kind = "publish",
         NEW m, m \in Nat,
         \A o \in Opens :
           \/ inbox'[o] = inbox[o]
           \/ \E d : /\ inbox'[o] = Append(inbox[o], d) /\ SamePacket(d, Head(incoming))
                     /\ d.ack => member[o] = m
  PROVE  OneAck'
<1> DEFINE p == Head(incoming)
<1>1. \A o \in Opens : \A i \in DOMAIN inbox[o] : ~SamePacket(inbox[o][i], p)
  BY UndeliveredYet
<1>2. m # NoMember
  BY DEF NoMember
<1>3. \A o, x \in Opens : member[o] = m /\ member[x] = m => o = x
  BY <1>2 DEF Numbered
<1>4. ASSUME NEW o \in Opens
      PROVE  \E last : \A i \in DOMAIN inbox'[o] :
               \/ i \in DOMAIN inbox[o] /\ inbox'[o][i] = inbox[o][i]
               \/ /\ i = last /\ SamePacket(inbox'[o][i], p)
                  /\ inbox'[o][i].ack => member[o] = m
  <2>1. CASE inbox'[o] = inbox[o]
    BY <2>1
  <2>2. ASSUME NEW d, inbox'[o] = Append(inbox[o], d), SamePacket(d, p), d.ack => member[o] = m
        PROVE  \E last : \A i \in DOMAIN inbox'[o] :
                 \/ i \in DOMAIN inbox[o] /\ inbox'[o][i] = inbox[o][i]
                 \/ /\ i = last /\ SamePacket(inbox'[o][i], p)
                    /\ inbox'[o][i].ack => member[o] = m
    <3> HIDE DEF p
    <3>1. PICK last \in DOMAIN inbox'[o] :
             /\ inbox'[o][last] = d
             /\ DOMAIN inbox'[o] = DOMAIN inbox[o] \cup {last} /\ last \notin DOMAIN inbox[o]
             /\ \A i \in DOMAIN inbox[o] : inbox'[o][i] = inbox[o][i]
      BY <2>2, HandedOver DEF OrderInv
    <3> QED BY <2>2, <3>1
  <2> QED BY <2>1, <2>2
<1> HIDE DEF p
<1>5. ASSUME NEW o \in Opens, NEW x \in Opens, NEW i \in DOMAIN inbox'[o], NEW j \in DOMAIN inbox'[x],
             inbox'[o][i].ack, inbox'[x][j].ack, SamePacket(inbox'[o][i], inbox'[x][j])
      PROVE  o = x /\ i = j
  <2>1. PICK a : \A k \in DOMAIN inbox'[o] :
               \/ k \in DOMAIN inbox[o] /\ inbox'[o][k] = inbox[o][k]
               \/ k = a /\ SamePacket(inbox'[o][k], p) /\ (inbox'[o][k].ack => member[o] = m)
    BY <1>4
  <2>2. PICK b : \A k \in DOMAIN inbox'[x] :
               \/ k \in DOMAIN inbox[x] /\ inbox'[x][k] = inbox[x][k]
               \/ k = b /\ SamePacket(inbox'[x][k], p) /\ (inbox'[x][k].ack => member[x] = m)
    BY <1>4
  <2>3. CASE i \in DOMAIN inbox[o] /\ inbox'[o][i] = inbox[o][i]
    <3>1. ~SamePacket(inbox'[x][j], p)
      BY <1>1, <1>5, <2>3 DEF SamePacket
    <3>2. j \in DOMAIN inbox[x] /\ inbox'[x][j] = inbox[x][j]
      BY <2>2, <3>1
    <3> QED BY <1>5, <2>3, <3>2 DEF OneAck, Acks
  <2>4. CASE i = a /\ SamePacket(inbox'[o][i], p) /\ (inbox'[o][i].ack => member[o] = m)
    <3>1. SamePacket(inbox'[x][j], p)
      BY <1>5, <2>4 DEF SamePacket
    <3>2. ~(j \in DOMAIN inbox[x] /\ inbox'[x][j] = inbox[x][j])
      BY <1>1, <3>1
    <3>3. j = b /\ member[x] = m
      BY <1>5, <2>2, <3>2
    <3>4. o = x
      BY <1>3, <1>5, <2>4, <3>3
    <3>5. i \notin DOMAIN inbox[o] \/ inbox'[o][i] # inbox[o][i]
      BY <1>1, <2>4
    <3>6. i = b
      BY <1>5, <2>2, <3>4, <3>5
    <3> QED BY <3>3, <3>4, <3>6
  <2> QED BY <1>5, <2>1, <2>3, <2>4
<1> QED BY <1>5 DEF OneAck, Acks, SamePacket

\* The claimed packets are delivered once, and acknowledged there.
LEMMA OneAckClaimed ==
  ASSUME OrderInv, OneAck, NEW o \in Opens, OpenJoin(o)
  PROVE  OneAck' /\ (SomeAck => SomeAck')
<1>1. CASE UNCHANGED <<inbox, held>>
  BY <1>1 DEF OneAck, SomeAck, Acks, SamePacket
<1>2. CASE ~UNCHANGED <<inbox, held>>
  <2>0. PICK K : /\ held' = Keep(held, Elements(held) \ K)
                 /\ DOMAIN inbox'[o] = DOMAIN Keep(held, K)
                 /\ Vector(inbox'[o])
                 /\ inbox' = [x \in Opens |-> inbox'[x]]
                 /\ \A i \in DOMAIN inbox'[o] :
                      /\ inbox'[o][i].message = Keep(held, K)[i].message
                      /\ inbox'[o][i].for = Keep(held, K)[i].for
                      /\ inbox'[o][i].ack
                 /\ \A x \in Opens \ {o} : inbox'[x] = inbox[x]
    BY <1>2, JoinPlaces DEF OrderInv
  <2> DEFINE claimed == Keep(held, K)
  <2>1. Vector(held) /\ Vector(claimed)
    BY VectorKeep DEF OrderInv, Shape
  <2>2. /\ \A i \in DOMAIN claimed : \E a \in DOMAIN held : held[a] \in K /\ claimed[i] = held[a]
        /\ \A i, j \in DOMAIN claimed :
              i < j => \E a, b \in DOMAIN held : a < b /\ claimed[i] = held[a] /\ claimed[j] = held[b]
    BY <2>1, VectorKeepOrder
  <2>3. DOMAIN claimed \subseteq Int
    BY <2>1, VectorPlaces
  <2>4. /\ DOMAIN inbox'[o] = DOMAIN claimed
        /\ \A i \in DOMAIN inbox'[o] : SamePacket(inbox'[o][i], claimed[i]) /\ inbox'[o][i].ack
    BY <2>0 DEF SamePacket
  <2> HIDE DEF claimed
  <2>5. \A i, j \in DOMAIN claimed : i < j => ~SamePacket(claimed[i], claimed[j])
    BY <2>2 DEF OrderInv, InLine, Before
  <2>6. \A i, j \in DOMAIN inbox'[o] : SamePacket(inbox'[o][i], inbox'[o][j]) => i = j
    <3>1. \A i, j \in DOMAIN claimed : SamePacket(claimed[i], claimed[j]) => i = j
      BY <2>3, <2>5 DEF SamePacket
    <3> QED BY <2>4, <3>1 DEF SamePacket
  <2>7. \A x \in Opens \ {o} : \A i \in DOMAIN inbox[x], j \in DOMAIN inbox'[o] :
          ~SamePacket(inbox[x][i], inbox'[o][j])
    <3>1. \A x \in Opens : \A i \in DOMAIN inbox[x], j \in DOMAIN claimed :
            ~SamePacket(inbox[x][i], claimed[j])
      BY <2>2 DEF OrderInv, InLine
    <3> QED BY <2>4, <3>1 DEF SamePacket
  <2>8. ASSUME NEW x \in Opens, NEW y \in Opens, NEW i \in DOMAIN inbox'[x], NEW j \in DOMAIN inbox'[y],
               inbox'[x][i].ack, inbox'[y][j].ack, SamePacket(inbox'[x][i], inbox'[y][j])
        PROVE  x = y /\ i = j
    <3>1. SamePacket(inbox'[y][j], inbox'[x][i])
      BY <2>8 DEF SamePacket
    <3>2. CASE x = o /\ y = o
      BY <2>6, <2>8, <3>2
    <3>3. CASE x = o /\ y # o
      BY <2>0, <2>7, <2>8, <3>1, <3>3
    <3>4. CASE x # o /\ y = o
      BY <2>0, <2>7, <2>8, <3>1, <3>4
    <3>5. CASE x # o /\ y # o
      <4>1. inbox'[x] = inbox[x] /\ inbox'[y] = inbox[y]
        BY <2>0, <3>5
      <4> QED BY <2>8, <4>1 DEF OneAck, Acks
    <3> QED BY <3>2, <3>3, <3>4, <3>5
  <2>9. OneAck'
    BY <2>8 DEF OneAck, Acks, SamePacket
  <2>10. ASSUME SomeAck, NEW x \in Opens, NEW i \in DOMAIN inbox'[x]
         PROVE  \E y \in Opens : \E j \in DOMAIN inbox'[y] :
                  inbox'[y][j].ack /\ SamePacket(inbox'[y][j], inbox'[x][i])
    <3>1. CASE x = o
      <4>1. inbox'[x][i].ack /\ SamePacket(inbox'[x][i], inbox'[x][i])
        BY <2>4, <2>10, <3>1 DEF SamePacket
      <4> QED BY <2>10, <4>1
    <3>2. CASE x # o
      <4>1. inbox'[x] = inbox[x]
        BY <2>0, <3>2
      <4>2. PICK y \in Opens : \E j \in DOMAIN inbox[y] : Acks(y, j) /\ SamePacket(inbox[y][j], inbox[x][i])
        BY <2>10, <4>1 DEF SomeAck
      <4>3. y # o
        <5>1. inbox[o] = <<>>
          BY DEF OrderInv, Shape, OpenJoin
        <5>2. DOMAIN <<>> = {}
          OBVIOUS
        <5> QED BY <4>2, <5>1, <5>2
      <4>4. inbox'[y] = inbox[y]
        BY <2>0, <4>3
      <4> QED BY <4>1, <4>2, <4>4 DEF Acks
    <3> QED BY <3>1, <3>2
  <2>11. SomeAck => SomeAck'
    BY <2>10 DEF SomeAck, Acks, SamePacket
  <2> QED BY <2>9, <2>11
<1> QED BY <1>1, <1>2

\* Of the packet handed over one delivery acknowledges it, if the first taker's stream
\* gets it.
LEMMA SomeAckHanded ==
  ASSUME OrderInv, SomeAck, NEW p,
         \A o \in Opens :
           \/ inbox'[o] = inbox[o]
           \/ \E d : inbox'[o] = Append(inbox[o], d) /\ SamePacket(d, p),
         NEW taker \in Opens, NEW e, inbox'[taker] = Append(inbox[taker], e), SamePacket(e, p), e.ack
  PROVE  SomeAck'
<1>1. ASSUME NEW o \in Opens
      PROVE  /\ \A i \in DOMAIN inbox[o] : i \in DOMAIN inbox'[o] /\ inbox'[o][i] = inbox[o][i]
             /\ \A i \in DOMAIN inbox'[o] : i \notin DOMAIN inbox[o] => SamePacket(inbox'[o][i], p)
  <2>1. CASE inbox'[o] = inbox[o]
    BY <2>1
  <2>2. ASSUME NEW d, inbox'[o] = Append(inbox[o], d), SamePacket(d, p)
        PROVE  /\ \A i \in DOMAIN inbox[o] : i \in DOMAIN inbox'[o] /\ inbox'[o][i] = inbox[o][i]
               /\ \A i \in DOMAIN inbox'[o] : i \notin DOMAIN inbox[o] => SamePacket(inbox'[o][i], p)
    <3>1. PICK last \in DOMAIN inbox'[o] :
             /\ inbox'[o][last] = d
             /\ DOMAIN inbox'[o] = DOMAIN inbox[o] \cup {last} /\ last \notin DOMAIN inbox[o]
             /\ \A i \in DOMAIN inbox[o] : inbox'[o][i] = inbox[o][i]
      BY <2>2, HandedOver DEF OrderInv
    <3> QED BY <2>2, <3>1
  <2> QED BY <2>1, <2>2
<1>2. PICK last \in DOMAIN inbox'[taker] : inbox'[taker][last] = e
  BY HandedOver DEF OrderInv
<1>3. ASSUME NEW o \in Opens, NEW i \in DOMAIN inbox'[o]
      PROVE  \E x \in Opens : \E j \in DOMAIN inbox'[x] :
               inbox'[x][j].ack /\ SamePacket(inbox'[x][j], inbox'[o][i])
  <2>1. CASE i \in DOMAIN inbox[o]
    <3>1. PICK x \in Opens : \E j \in DOMAIN inbox[x] : Acks(x, j) /\ SamePacket(inbox[x][j], inbox[o][i])
      BY <2>1 DEF SomeAck
    <3>2. PICK j \in DOMAIN inbox[x] : Acks(x, j) /\ SamePacket(inbox[x][j], inbox[o][i])
      BY <3>1
    <3> QED BY <1>1, <2>1, <3>2 DEF Acks
  <2>2. CASE i \notin DOMAIN inbox[o]
    <3>1. SamePacket(e, inbox'[o][i])
      BY <1>1, <1>3, <2>2 DEF SamePacket
    <3> QED BY <1>2, <3>1
  <2> QED BY <2>1, <2>2
<1> QED BY <1>3 DEF SomeAck, Acks, SamePacket

\* Each step keeps both.
LEMMA AckStep ==
  ASSUME OrderInv, Numbered, OneAck, [Next]_vars
  PROVE  OneAck' /\ (Seats /\ SomeAck => SomeAck')
<1>1. ASSUME UNCHANGED inbox PROVE OneAck' /\ (SomeAck => SomeAck')
  BY <1>1 DEF OneAck, SomeAck, Acks, SamePacket
<1>2. CASE \/ \E o \in Opens : OpenSend(o) \/ OpenCancel(o) \/ Drop(o)
           \/ ServerTake \/ (\E t \in Topics : ServerPublish(t)) \/ ReceiveSuback
           \/ Reap \/ UNCHANGED vars
  <2>1. UNCHANGED inbox
    BY <1>2 DEF OpenSend, OpenCancel, Drop, ServerTake, ServerPublish, ReceiveSuback, Reap, vars
  <2> QED BY <1>1, <2>1
<1>3. ASSUME NEW o \in Opens, OpenJoin(o) PROVE OneAck' /\ (SomeAck => SomeAck')
  BY <1>3, OneAckClaimed
<1>4. CASE ReceivePublish
  <2> DEFINE p       == Head(incoming)
             targets == Targets(p.topic, p.ids)
  <2>1. CASE targets = {}
    <3>1. UNCHANGED inbox
      BY <1>4, <2>1 DEF ReceivePublish
    <3> QED BY <1>1, <3>1
  <2>2. CASE targets # {}
    <3>0. Structure /\ Shape
      BY DEF OrderInv, CInv
    <3> HIDE DEF targets
    <3>1. PICK first \in targets :
           /\ \A o \in Opens :
                \/ inbox'[o] = inbox[o]
                \/ \E d : /\ inbox'[o] = Append(inbox[o], d) /\ SamePacket(d, Head(incoming))
                          /\ d.ack => member[o] = Taker(first)
           /\ \A o \in Opens :
                Alive(o) /\ member[o] = Taker(first) =>
                  \E d : inbox'[o] = Append(inbox[o], d) /\ SamePacket(d, Head(incoming)) /\ d.ack
      <4>1. targets = Targets(Head(incoming).topic, Head(incoming).ids)
        BY DEF targets
      <4> QED BY <1>4, <2>2, <3>0, <4>1, HandAcks
    <3>2. first \in DOMAIN wires
      BY DEF targets, Targets
    <3>3. Sits(Taker(first)) /\ Taker(first) \in Nat
      BY <3>0, <3>2, TakerSits
    <3>4. incoming # <<>> /\ Head(incoming).kind = "publish"
      BY <1>4 DEF ReceivePublish
    <3>5. OneAck'
      <4> DEFINE m == Taker(first)
      <4>1. m \in Nat
        BY <3>3
      <4>2. \A o \in Opens :
              \/ inbox'[o] = inbox[o]
              \/ \E d : /\ inbox'[o] = Append(inbox[o], d) /\ SamePacket(d, Head(incoming))
                        /\ d.ack => member[o] = m
        BY <3>1
      <4> HIDE DEF m
      <4> QED BY <3>4, <4>1, <4>2, OneAckHanded
    <3>6. ASSUME Seats, SomeAck PROVE SomeAck'
      <4>1. PICK taker \in Opens : Alive(taker) /\ member[taker] = Taker(first)
        BY <3>3, <3>6 DEF Seats
      <4>2. PICK e : inbox'[taker] = Append(inbox[taker], e) /\ SamePacket(e, p) /\ e.ack
        BY <3>1, <4>1
      <4>3. \A o \in Opens : \/ inbox'[o] = inbox[o]
                             \/ \E d : inbox'[o] = Append(inbox[o], d) /\ SamePacket(d, p)
        BY <3>1
      <4> HIDE DEF p
      <4> QED BY <3>6, <4>2, <4>3, SomeAckHanded
    <3> QED BY <3>5, <3>6
  <2> QED BY <2>1, <2>2
<1> QED BY <1>2, <1>3, <1>4 DEF Next

\* What the order and one acknowledgement rest on, whoever drops an open.
AckInv == OrderInv /\ Numbered /\ OneAck

\* Nobody sits and nothing was handed over yet.
LEMMA AckInvInit == Init => AckInv /\ Seats /\ SomeAck
<1> SUFFICES ASSUME Init PROVE AckInv /\ Seats /\ SomeAck
  OBVIOUS
<1>1. OrderInv
  BY OrderInit
<1>2. /\ inbox = [o \in Opens |-> <<>>] /\ member = [o \in Opens |-> NoMember] /\ RegistryInit
      /\ DOMAIN <<>> = {}
  BY DEF Init
<1>3. Numbered /\ OneAck /\ SomeAck
  BY <1>2 DEF Numbered, OneAck, SomeAck
<1>4. Seats
  BY <1>2, SitsInit DEF Seats
<1> QED BY <1>1, <1>3, <1>4 DEF AckInv

\* Each step keeps one acknowledgement for each publish.
LEMMA AckInvStep ==
  ASSUME IsFiniteSet(Filters)
  PROVE  AckInv /\ [Next]_vars => AckInv'
<1> SUFFICES ASSUME AckInv, [Next]_vars PROVE AckInv'
  OBVIOUS
<1>1. OrderInv'
  BY OrderInvStep DEF AckInv
<1>2. nextMember' \in Nat
  BY <1>1 DEF OrderInv, CInv, Structure, RegistryTypeOK
<1>3. Numbered'
  BY <1>2, NumberedStep DEF AckInv, OrderInv, CInv
<1>4. OneAck'
  BY AckStep DEF AckInv
<1> QED BY <1>1, <1>3, <1>4 DEF AckInv

\* No packet is acknowledged twice, even when callers drop their opens half-way and members
\* stay in the table for streams that are gone.
THEOREM NeverAckedTwice ==
  ASSUME IsFiniteSet(Filters)
  PROVE  Spec => []OneAck
<1>1. Init => AckInv
  BY AckInvInit
<1>2. AckInv /\ [Next]_vars => AckInv'
  BY AckInvStep
<1>3. AckInv => OneAck
  BY DEF AckInv
<1> QED BY <1>1, <1>2, <1>3, PTL DEF Spec

\* Whatever was delivered is acknowledged by exactly one of its deliveries, as long as no
\* caller dropped its open before it returned.
THEOREM AckedByOne ==
  ASSUME IsFiniteSet(Filters)
  PROVE  Spec => []AckedOnce
<1> DEFINE Answered == NoneGivenUp => Seats /\ SomeAck
<1>1. Init => AckInv /\ Answered
  BY AckInvInit
<1>2. AckInv /\ Answered /\ [Next]_vars => (AckInv /\ Answered)'
  <2> SUFFICES ASSUME AckInv, Answered, [Next]_vars PROVE (AckInv /\ Answered)'
    OBVIOUS
  <2>1. AckInv'
    BY AckInvStep
  <2>2. ASSUME NoneGivenUp' PROVE Seats' /\ SomeAck'
    <3>1. NoneGivenUp
      BY <2>2, GivenUpStays DEF AckInv, OrderInv
    <3>2. Seats /\ SomeAck
      BY <3>1
    <3>3. Seats'
      BY <2>2, <3>2, SeatsStep DEF AckInv, OrderInv
    <3>4. SomeAck'
      BY <3>2, AckStep DEF AckInv
    <3> QED BY <3>3, <3>4
  <2> QED BY <2>1, <2>2
<1>3. AckInv /\ Answered => AckedOnce
  <2> SUFFICES ASSUME AckInv, Answered, NoneGivenUp PROVE AckedOnce
    BY DEF AckedOnce
  <2>0. OneAck /\ SomeAck
    BY DEF AckInv
  <2> SUFFICES ASSUME NEW n \in 1..published, NEW for \in SUBSET Filters
               PROVE  LET copies == {d \in UNION {{o} \X DOMAIN inbox[o] : o \in Opens} :
                                       /\ inbox[d[1]][d[2]].message = n
                                       /\ inbox[d[1]][d[2]].for = for}
                          acks   == {d \in copies : inbox[d[1]][d[2]].ack}
                      IN copies # {} => Cardinality(acks) = 1
    BY DEF AckedOnce
  <2> HIDE DEF Answered
  <2> DEFINE places == UNION {{o} \X DOMAIN inbox[o] : o \in Opens}
             copies == {d \in places : /\ inbox[d[1]][d[2]].message = n
                                       /\ inbox[d[1]][d[2]].for = for}
             acks   == {d \in copies : inbox[d[1]][d[2]].ack}
  <2> SUFFICES ASSUME copies # {} PROVE Cardinality(acks) = 1
    OBVIOUS
  <2>1. \A d : d \in places <=> /\ d = <<d[1], d[2]>>
                                /\ d[1] \in Opens /\ d[2] \in DOMAIN inbox[d[1]]
    OBVIOUS
  <2> HIDE DEF places
  <2>2. PICK d \in copies : TRUE
    OBVIOUS
  <2>3. PICK x \in Opens : \E j \in DOMAIN inbox[x] : Acks(x, j) /\ SamePacket(inbox[x][j], inbox[d[1]][d[2]])
    BY <2>0, <2>1, <2>2 DEF SomeAck
  <2>4. PICK j \in DOMAIN inbox[x] : Acks(x, j) /\ SamePacket(inbox[x][j], inbox[d[1]][d[2]])
    BY <2>3
  <2>5. <<x, j>> \in acks
    BY <2>1, <2>2, <2>4 DEF Acks, SamePacket
  <2>6. ASSUME NEW a \in acks, NEW b \in acks PROVE a = b
    <3>1. /\ a[1] \in Opens /\ a[2] \in DOMAIN inbox[a[1]] /\ Acks(a[1], a[2])
          /\ b[1] \in Opens /\ b[2] \in DOMAIN inbox[b[1]] /\ Acks(b[1], b[2])
          /\ SamePacket(inbox[a[1]][a[2]], inbox[b[1]][b[2]])
      BY <2>1, <2>6 DEF Acks, SamePacket
    <3>2. a[1] = b[1] /\ a[2] = b[2]
      BY <2>0, <3>1 DEF OneAck
    <3> QED BY <2>1, <2>6, <3>2
  <2>7. acks = {<<x, j>>}
    BY <2>5, <2>6
  <2> QED BY <2>7, FS_Singleton
<1> HIDE DEF Answered
<1> QED BY <1>1, <1>2, <1>3, PTL DEF Spec

-----------------------------------------------------------------------------
(* What the server was asked for, against what the subscriptions need: each *)
(* needs its filter's identifier and a quality of service, and either the   *)
(* server has them, or a request the server grants asks for them and none   *)
(* after it asks for anything else.                                         *)

\* Each stream that exists has its member on its filter's wire.
Placed == \A o \in Opens : Alive(o) => SitsOn(member[o], FilterOf[o], QosOf[o])

\* The i-th request is an open's own, the i-th packet on the wire the answer to one.
Asks(i) ==
  i \in DOMAIN requests /\ requests[i].kind # "unsubscribe" /\ ~requests[i].request.refresh
Answered(i) ==
  i \in DOMAIN incoming /\ incoming[i].kind = "suback" /\ ~incoming[i].request.refresh

\* The states of an open whose answer is to come.
Pending == {"waiting", "cancelled"}

\* Whose own subscribe is on its way, or its answer, is waiting for it or was until its
\* caller went, and has not both.
Answering ==
  /\ \A i \in DOMAIN requests : Asks(i) =>
       requests[i].open \in Opens /\ pc[requests[i].open] \in Pending
  /\ \A i \in DOMAIN incoming : Answered(i) =>
       incoming[i].open \in Opens /\ pc[incoming[i].open] \in Pending
  /\ \A i, j \in DOMAIN requests : Asks(i) /\ Asks(j) /\ requests[i].open = requests[j].open => i = j
  /\ \A i, j \in DOMAIN incoming :
       Answered(i) /\ Answered(j) /\ incoming[i].open = incoming[j].open => i = j
  /\ \A i \in DOMAIN requests, j \in DOMAIN incoming :
       Asks(i) /\ Answered(j) => requests[i].open # incoming[j].open

\* The members found gone are of no stream that exists.
Reaped ==
  /\ Vector(reaping)
  /\ \A i \in DOMAIN reaping :
       /\ reaping[i] \in Nat /\ reaping[i] < nextMember
       /\ \A o \in Opens : Alive(o) => member[o] # reaping[i]


About(r, f) == IF r.kind = "unsubscribe" THEN r.filter = f ELSE r.request.filter = f

\* A stream comes with its open's join, and never again.
LEMMA NoneRevived ==
  ASSUME CInv, TypeOK, Answering, [Next]_vars, NEW x \in Opens, Alive(x)'
  PROVE  Alive(x) \/ OpenJoin(x)
<1>1. CASE UNCHANGED pc
  BY <1>1 DEF Alive
<1>2. ASSUME NEW o \in Opens, NEW s, pc' = [pc EXCEPT ![o] = s],
             Alive(o) \/ s \notin {"sending", "waiting", "open"}
      PROVE  Alive(x)
  BY <1>2 DEF TypeOK, Alive
<1>3. ASSUME NEW o \in Opens, OpenJoin(o) PROVE Alive(x) \/ OpenJoin(x)
  <2>1. x # o => pc'[x] = pc[x]
    BY <1>3 DEF OpenJoin, TypeOK
  <2> QED BY <1>3, <2>1 DEF Alive
<1>4. ASSUME NEW o \in Opens, OpenSend(o) PROVE Alive(x)
  <2>1. pc[o] = "sending" /\ (UNCHANGED pc \/ pc' = [pc EXCEPT ![o] = "waiting"])
    BY <1>4 DEF OpenSend
  <2>2. Alive(o)
    BY <2>1 DEF Alive
  <2> QED BY <1>1, <1>2, <2>1, <2>2 DEF Alive
<1>5. ASSUME NEW o \in Opens, OpenCancel(o) \/ Drop(o) PROVE Alive(x)
  <2>1. pc' = [pc EXCEPT ![o] = "cancelled"] \/ pc' = [pc EXCEPT ![o] = "closed"]
    BY <1>5 DEF OpenCancel, Drop
  <2> QED BY <1>2, <2>1
<1>6. CASE ReceiveSuback
  <2>1. incoming # <<>> /\ Head(incoming).kind = "suback"
    BY <1>6 DEF ReceiveSuback
  <2>2. Head(incoming) = incoming[1] /\ 1 \in DOMAIN incoming
    BY <2>1, IncomingVector, VectorTail DEF CInv
  <2>3. PICK a : a = incoming[1]
    OBVIOUS
  <2>4. CASE a.request.refresh
    BY <1>1, <1>6, <2>2, <2>3, <2>4 DEF ReceiveSuback
  <2>5. CASE ~a.request.refresh
    <3>1. Answered(1)
      BY <2>1, <2>2, <2>3, <2>5 DEF Answered
    <3>2. PICK o \in Opens : o = a.open /\ pc[o] \in Pending
      BY <2>2, <2>3, <3>1 DEF Answering
    <3>3. pc' = [pc EXCEPT ![o] = Outcome(pc[o], a.accepted)]
      BY <1>6, <2>2, <2>3, <2>5, <3>2 DEF ReceiveSuback
    <3>4. Alive(o) \/ Outcome(pc[o], a.accepted) \notin {"sending", "waiting", "open"}
      BY <3>2 DEF Pending, Outcome, Alive
    <3> QED BY <1>2, <3>3, <3>4
  <2> QED BY <2>4, <2>5
<1>7. CASE ServerTake \/ (\E t \in Topics : ServerPublish(t)) \/ ReceivePublish \/ Reap \/ UNCHANGED vars
  BY <1>1, <1>7 DEF ServerTake, ServerPublish, ReceivePublish, Reap, vars, openVars
<1> QED BY <1>3, <1>4, <1>5, <1>6, <1>7 DEF Next

\* Each stream that exists keeps its member's seat.
LEMMA PlacedStep ==
  ASSUME CInv, TypeOK, Numbered, Placed, Answering, Reaped, [Next]_vars
  PROVE  Placed'
<1> USE DEF CInv
<1>1. ASSUME UNCHANGED member, \A o \in Opens : Alive(o)' => Alive(o),
             NEW m, \A x \in Opens : Alive(x)' => member[x] # m,
             \A k, f, q : k # m /\ SitsOn(k, f, q) => SitsOn(k, f, q)'
      PROVE  Placed'
  <2>1. ASSUME NEW o \in Opens, Alive(o)' PROVE SitsOn(member[o], FilterOf[o], QosOf[o])'
    <3>1. PICK k : k = member[o]
      OBVIOUS
    <3>2. k # m /\ SitsOn(k, FilterOf[o], QosOf[o])
      BY <1>1, <2>1, <3>1 DEF Placed
    <3>3. SitsOn(k, FilterOf[o], QosOf[o])'
      BY <1>1, <3>2
    <3>4. k = member'[o]
      BY <1>1, <3>1
    <3> QED BY <3>3, <3>4 DEF SitsOn
  <2> QED BY <2>1 DEF Placed
<1>2. ASSUME NEW o \in Opens, Alive(o) PROVE member[o] # NoMember
  <2>1. SitsOn(member[o], FilterOf[o], QosOf[o])
    BY <1>2 DEF Placed
  <2>2. Sits(member[o])
    BY <2>1 DEF SitsOn, Sits
  <2>3. member[o] \in Nat
    BY <2>2, SitsBefore
  <2> QED BY <2>3 DEF NoMember
<1>3. ASSUME UNCHANGED member, \A o \in Opens : ~OpenJoin(o),
             \/ UNCHANGED registryVars
             \/ \E t, ids : Route(t, ids)
             \/ \E f, accepted : Identified(f, accepted)
      PROVE  Placed'
  <2>1. \A o \in Opens : Alive(o)' => Alive(o)
    BY <1>3, NoneRevived
  <2>2. \A m, f, q : SitsOn(m, f, q) => SitsOn(m, f, q)'
    BY <1>3, SitsOnSame
  <2>3. \A x \in Opens : Alive(x)' => member[x] # NoMember
    BY <1>2, <2>1
  <2> QED BY <1>1, <1>3, <2>1, <2>2, <2>3
<1>4. ASSUME NEW m, Leave(m), UNCHANGED member, \A o \in Opens : ~OpenJoin(o),
             \A x \in Opens : Alive(x) /\ Alive(x)' => member[x] # m
      PROVE  Placed'
  <2>1. \A o \in Opens : Alive(o)' => Alive(o)
    BY <1>4, NoneRevived
  <2>2. \A k, f, q : k # m /\ SitsOn(k, f, q) => SitsOn(k, f, q)'
    BY <1>4, SitsOnLeft
  <2> QED BY <1>1, <1>4, <2>1, <2>2
<1>5. ASSUME NEW o \in Opens, OpenJoin(o) PROVE Placed'
  <2>0. ~Alive(o)
    BY <1>5 DEF OpenJoin, Alive
  <2>1. CASE Refused(FilterOf[o], offered)
    <3>1. UNCHANGED registryVars /\ UNCHANGED member /\ pc' = [pc EXCEPT ![o] = "failed"]
      BY <1>5, <2>1 DEF OpenJoin
    <3>2. \A x \in Opens : Alive(x)' => Alive(x)
      BY <2>0, <3>1 DEF TypeOK, Alive
    <3>3. \A m, f, q : SitsOn(m, f, q) => SitsOn(m, f, q)'
      BY <3>1, SitsOnSame
    <3>4. \A x \in Opens : Alive(x)' => member[x] # NoMember
      BY <1>2, <3>2
    <3> QED BY <1>1, <3>1, <3>2, <3>3, <3>4
  <2>2. CASE ~Refused(FilterOf[o], offered)
    <3>1. /\ Join(FilterOf[o], QosOf[o], offered) /\ pc' = [pc EXCEPT ![o] = "sending"]
          /\ member' = [member EXCEPT ![o] = nextMember]
      BY <1>5, <2>2 DEF OpenJoin
    <3>2. FilterOf[o] \in Filters /\ QosOf[o] \in Qos /\ offered \in BOOLEAN
      BY ConnectionAssumption DEF TypeOK
    <3>3. /\ \A m, g, r : SitsOn(m, g, r) => SitsOn(m, g, r)'
          /\ \A m : m = nextMember => SitsOn(m, FilterOf[o], QosOf[o])'
      BY <3>1, <3>2, SitsOnJoined
    <3>4. ASSUME NEW x \in Opens, Alive(x)' PROVE SitsOn(member[x], FilterOf[x], QosOf[x])'
      <4>1. CASE x = o
        <5>1. PICK m : m = nextMember
          OBVIOUS
        <5>2. m = member'[x] /\ SitsOn(m, FilterOf[x], QosOf[x])'
          BY <3>1, <3>3, <4>1, <5>1 DEF TypeOK
        <5> QED BY <5>2 DEF SitsOn
      <4>2. CASE x # o
        <5>1. PICK m : m = member[x]
          OBVIOUS
        <5>2. Alive(x)
          BY <3>1, <3>4, <4>2 DEF TypeOK, Alive
        <5>3. SitsOn(m, FilterOf[x], QosOf[x])
          BY <5>1, <5>2 DEF Placed
        <5>4. m = member'[x] /\ SitsOn(m, FilterOf[x], QosOf[x])'
          BY <3>1, <3>3, <4>2, <5>1, <5>3 DEF TypeOK
        <5> QED BY <5>4 DEF SitsOn
      <4> QED BY <4>1, <4>2
    <3> QED BY <3>4 DEF Placed
  <2> QED BY <2>1, <2>2
<1>6. SUFFICES ASSUME \A o \in Opens : ~OpenJoin(o) PROVE Placed'
  BY <1>5
<1>7. CASE \/ \E o \in Opens : OpenSend(o) \/ OpenCancel(o)
           \/ ServerTake \/ (\E t \in Topics : ServerPublish(t)) \/ ReceivePublish \/ UNCHANGED vars
  <2>1. UNCHANGED member /\ (UNCHANGED registryVars \/ \E t, ids : Route(t, ids))
    BY <1>7 DEF OpenSend, OpenCancel, ServerTake, ServerPublish, ReceivePublish, vars, openVars
  <2> QED BY <1>3, <1>6, <2>1
<1>8. ASSUME NEW o \in Opens, Leave(member[o]), UNCHANGED member, ~Alive(o)' PROVE Placed'
  <2>1. PICK m : m = member[o]
    OBVIOUS
  <2>2. ASSUME NEW x \in Opens, Alive(x), Alive(x)' PROVE member[x] # m
    BY <1>2, <1>8, <2>1, <2>2 DEF Numbered
  <2> QED BY <1>4, <1>6, <1>8, <2>1, <2>2
<1>9. ASSUME NEW o \in Opens, Drop(o) PROVE Placed'
  <2>1. /\ Leave(member[o]) /\ UNCHANGED member /\ pc' = [pc EXCEPT ![o] = "closed"]
    BY <1>9 DEF Drop, Release
  <2>2. ~Alive(o)'
    BY <2>1 DEF TypeOK, Alive
  <2> QED BY <1>8, <2>1, <2>2
<1>10. CASE Reap
  <2>1. PICK m : m = Head(reaping)
    OBVIOUS
  <2>2. Leave(m) /\ UNCHANGED member /\ reaping # <<>>
    BY <1>10, <2>1 DEF Reap, Release, openVars
  <2>3. 1 \in DOMAIN reaping /\ m = reaping[1]
    BY <2>1, <2>2, VectorTail DEF Reaped
  <2>4. \A x \in Opens : Alive(x) => member[x] # m
    BY <2>3 DEF Reaped
  <2> QED BY <1>4, <1>6, <2>2, <2>4
<1>11. CASE ReceiveSuback
  <2>1. UNCHANGED member /\ incoming # <<>> /\ Head(incoming).kind = "suback"
    BY <1>11 DEF ReceiveSuback
  <2>2. Head(incoming) = incoming[1] /\ 1 \in DOMAIN incoming
    BY <2>1, IncomingVector, VectorTail
  <2>3. PICK a : a = incoming[1]
    OBVIOUS
  <2>4. CASE a.request.refresh
    <3>1. Identified(a.request.filter, a.accepted)
      BY <1>11, <2>2, <2>3, <2>4 DEF ReceiveSuback
    <3> QED BY <1>3, <1>6, <2>1, <3>1
  <2>5. CASE ~a.request.refresh
    <3>1. Answered(1)
      BY <2>1, <2>2, <2>3, <2>5 DEF Answered
    <3>2. PICK o \in Opens : o = a.open /\ pc[o] \in Pending
      BY <2>2, <2>3, <3>1 DEF Answering
    <3>3. /\ IF a.accepted THEN UNCHANGED registryVars ELSE Leave(member[o])
          /\ pc' = [pc EXCEPT ![o] = Outcome(pc[o], a.accepted)]
      BY <1>11, <2>2, <2>3, <2>5, <3>2 DEF ReceiveSuback
    <3>4. ~a.accepted => ~Alive(o)'
      BY <3>2, <3>3 DEF TypeOK, Outcome, Pending, Alive
    <3> QED BY <1>3, <1>6, <1>8, <2>1, <3>3, <3>4
  <2> QED BY <2>4, <2>5
<1> QED BY <1>6, <1>7, <1>9, <1>10, <1>11 DEF Next

\* Only a member whose stream is gone is found gone, and a number once given out stays given.
LEMMA ReapedStep ==
  ASSUME CInv, TypeOK, Numbered, Placed, Answering, Reaped, [Next]_vars, nextMember' \in Nat
  PROVE  Reaped'
<1>1. nextMember \in Nat /\ Structure
  BY DEF CInv, Structure, RegistryTypeOK
<1>2. ASSUME NEW o \in Opens, OpenJoin(o) PROVE Reaped'
  <2>1. /\ UNCHANGED reaping /\ pc[o] = "idle" /\ \A x \in Opens \ {o} : pc'[x] = pc[x]
        /\ \/ nextMember' = nextMember /\ member' = member /\ ~Alive(o)'
           \/ nextMember' = nextMember + 1 /\ member' = [member EXCEPT ![o] = nextMember]
    BY <1>2 DEF OpenJoin, Join, registryVars, TypeOK, Alive
  <2>2. \A i \in DOMAIN reaping : reaping[i] < nextMember' /\ reaping[i] # nextMember
    BY <1>1, <2>1 DEF Reaped
  <2>3. ASSUME NEW i \in DOMAIN reaping, NEW x \in Opens, Alive(x)' PROVE member'[x] # reaping[i]
    <3>1. CASE x = o
      BY <2>1, <2>2, <2>3, <3>1 DEF TypeOK
    <3>2. CASE x # o
      <4>1. Alive(x) /\ member'[x] = member[x]
        BY <2>1, <2>3, <3>2 DEF Alive, TypeOK
      <4> QED BY <4>1 DEF Reaped
    <3> QED BY <3>1, <3>2
  <2> QED BY <2>1, <2>2, <2>3 DEF Reaped
<1>3. ASSUME \A o \in Opens : ~OpenJoin(o) PROVE Reaped'
  <2>1. \A x \in Opens : Alive(x)' => Alive(x)
    BY <1>3, NoneRevived
  <2>2. ASSUME NEW m, Leave(m) PROVE nextMember' = nextMember
    BY <2>2 DEF Leave
  <2>3. UNCHANGED member /\ nextMember' = nextMember
    BY <1>3, <2>2 DEF Next, OpenSend, OpenCancel, Drop, Release, ServerTake, ServerPublish, ReceiveSuback,
                      ReceivePublish, Route, Identified, Reap, vars, openVars, registryVars
  <2>4. CASE UNCHANGED reaping
    BY <2>1, <2>3, <2>4 DEF Reaped
  <2>5. CASE Reap
    <3>1. reaping # <<>> /\ reaping' = Tail(reaping)
      BY <2>5 DEF Reap
    <3>2. /\ Vector(reaping')
          /\ \A i \in DOMAIN reaping' : i + 1 \in DOMAIN reaping /\ reaping'[i] = reaping[i + 1]
      BY <3>1, VectorTail DEF Reaped
    <3> QED BY <2>1, <2>3, <3>2 DEF Reaped
  <2>6. CASE ReceivePublish /\ ~UNCHANGED reaping
    <3> DEFINE s == [n \in DOMAIN wires |-> Taker(n)]
    <3>1. PICK dead \in SUBSET DOMAIN wires : /\ \A n \in dead : ~Alive(OpenOf(Taker(n)))
                                              /\ reaping' = At(s, dead)
      <4> DEFINE targets == Targets(Head(incoming).topic, Head(incoming).ids)
                 gone == {n \in targets : ~Alive(OpenOf(Taker(n)))}
      <4>1. reaping' = At(s, gone)
        BY <2>6 DEF ReceivePublish
      <4>2. gone \in SUBSET DOMAIN wires
        BY DEF Targets
      <4> QED BY <4>1, <4>2
    <3>2. /\ \A n \in DOMAIN wires : Taker(n) \in Nat /\ Taker(n) < nextMember
          /\ DOMAIN wires = 1..Len(wires) /\ Len(wires) \in Nat
      BY <1>1, TakerSits, SitsBefore, SeqPlaces DEF Structure, RegistryTypeOK
    <3>3. DOMAIN s = DOMAIN wires /\ \A n \in DOMAIN wires : s[n] = Taker(n)
      OBVIOUS
    <3>4. s = [n \in 1..Len(wires) |-> s[n]]
      BY <3>2
    <3> HIDE DEF s
    <3>5. Vector(s)
      BY <3>2, <3>4, VectorFunction
    <3>6. Vector(reaping') /\ \A i \in DOMAIN reaping' : \E n \in dead : reaping'[i] = Taker(n)
      <4>1. Vector(At(s, dead)) /\ \A i \in DOMAIN At(s, dead) : \E n \in dead : At(s, dead)[i] = s[n]
        BY <3>1, <3>3, <3>5, VectorAt
      <4> QED BY <3>1, <3>3, <4>1
    <3>7. ASSUME NEW n \in dead, NEW x \in Opens, Alive(x), member[x] = Taker(n) PROVE FALSE
      <4>1. member[x] # NoMember
        BY <3>1, <3>2, <3>7 DEF NoMember
      <4>2. OpenOf(Taker(n)) \in Opens /\ member[OpenOf(Taker(n))] = Taker(n)
        BY <3>7 DEF OpenOf
      <4>3. OpenOf(Taker(n)) = x
        BY <3>7, <4>1, <4>2 DEF Numbered
      <4> QED BY <3>1, <3>7, <4>3
    <3> QED BY <2>1, <2>3, <3>1, <3>2, <3>6, <3>7 DEF Reaped
  <2> QED BY <1>3, <2>4, <2>5, <2>6 DEF Next, OpenSend, OpenCancel, Drop, ServerTake, ServerPublish,
                                        ReceiveSuback, vars
<1> QED BY <1>2, <1>3

\* While no caller drops its open, streams end with their members and none is found gone.

\* Places moved by as much stay apart.
LEMMA ShiftedOnce == \A a, b, c \in Int : a + c = b + c => a = b
  OBVIOUS

\* No open's own subscribe or answer is new, and whoever has one is as before.
LEMMA AnsweringKept ==
  ASSUME Answering, NEW k \in {0, 1},
         \A i \in DOMAIN requests' : Asks(i)' =>
           Asks(i) /\ requests'[i] = requests[i] /\ pc'[requests[i].open] \in Pending,
         \A i \in DOMAIN incoming' : i \in Int /\ (Answered(i)' =>
           /\ Answered(i + k) /\ incoming'[i] = incoming[i + k]
           /\ pc'[incoming[i + k].open] \in Pending)
  PROVE  Answering'
<1>1. \A i : Asks(i) => i \in DOMAIN requests
  BY DEF Asks
<1>2. \A i : Answered(i) => i \in DOMAIN incoming
  BY DEF Answered
<1>3. \A i \in DOMAIN requests' : Asks(i)' =>
        requests'[i].open \in Opens /\ pc'[requests'[i].open] \in Pending
  BY <1>1 DEF Answering
<1>4. \A i \in DOMAIN incoming' : Answered(i)' =>
        incoming'[i].open \in Opens /\ pc'[incoming'[i].open] \in Pending
  BY <1>2 DEF Answering
<1>5. \A i, j \in DOMAIN requests' :
        Asks(i)' /\ Asks(j)' /\ requests'[i].open = requests'[j].open => i = j
  BY <1>1 DEF Answering
<1>6. \A i, j \in DOMAIN incoming' :
        Answered(i)' /\ Answered(j)' /\ incoming'[i].open = incoming'[j].open => i = j
  <2> SUFFICES ASSUME NEW i \in DOMAIN incoming', NEW j \in DOMAIN incoming', Answered(i)', Answered(j)',
                      incoming'[i].open = incoming'[j].open
               PROVE  i = j
    OBVIOUS
  <2>1. i + k = j + k
    BY <1>2 DEF Answering
  <2>2. i \in Int /\ j \in Int /\ k \in Int
    OBVIOUS
  <2> QED BY <2>1, <2>2, ShiftedOnce
<1>7. \A i \in DOMAIN requests', j \in DOMAIN incoming' :
        Asks(i)' /\ Answered(j)' => requests'[i].open # incoming'[j].open
  BY <1>1, <1>2 DEF Answering
<1> QED BY <1>3, <1>4, <1>5, <1>6, <1>7 DEF Answering

\* The queue's requests stay where they are when one is added.
LEMMA QueueLonger ==
  ASSUME Vector(requests), NEW e, requests' = Append(requests, e)
  PROVE  /\ DOMAIN requests = 1..Len(requests) /\ Len(requests) \in Nat
         /\ DOMAIN requests' = 1..(Len(requests) + 1)
         /\ \A i \in DOMAIN requests : i \in DOMAIN requests' /\ requests'[i] = requests[i]
         /\ \A i \in DOMAIN requests' : i \in DOMAIN requests \/ i = Len(requests) + 1
         /\ requests'[Len(requests) + 1] = e
<1>1. /\ DOMAIN requests = 1..Len(requests) /\ Len(requests) \in Nat
      /\ DOMAIN requests' = 1..(Len(requests) + 1)
      /\ \A i \in DOMAIN requests : requests'[i] = requests[i]
      /\ requests'[Len(requests) + 1] = e
  BY VectorLonger
<1> QED BY <1>1

\* An open that sends its own subscribe is the only one to wait for it, until it is told.
LEMMA AnsweringStep ==
  ASSUME IsFiniteSet(Filters), CInv, Shape, TypeOK, Answering, [Next]_vars
  PROVE  Answering'
<1>1. Vector(incoming) /\ Vector(requests)
  BY IncomingVector DEF CInv, Shape
<1>2. \A i \in DOMAIN incoming : i \in Int /\ i + 0 = i
  BY <1>1, VectorPlaces
<1>3. ASSUME UNCHANGED <<requests, incoming>>,
             \A o \in Opens : pc[o] \in Pending => pc'[o] \in Pending
      PROVE  Answering'
  <2>1. \A i \in DOMAIN requests' : Asks(i)' =>
          Asks(i) /\ requests'[i] = requests[i] /\ pc'[requests[i].open] \in Pending
    BY <1>3 DEF Asks, Answering
  <2>2. \A i \in DOMAIN incoming' : i \in Int /\ (Answered(i)' =>
          /\ Answered(i + 0) /\ incoming'[i] = incoming[i + 0]
          /\ pc'[incoming[i + 0].open] \in Pending)
    BY <1>2, <1>3 DEF Answered, Answering
  <2> QED BY <2>1, <2>2, AnsweringKept
<1>4. ASSUME NEW o \in Opens, OpenJoin(o) PROVE Answering'
  <2>1. UNCHANGED <<requests, incoming>> /\ pc[o] = "idle" /\ \A x \in Opens \ {o} : pc'[x] = pc[x]
    BY <1>4 DEF OpenJoin, TypeOK
  <2> QED BY <1>3, <2>1 DEF Pending
<1>5. ASSUME NEW o \in Opens, OpenSend(o) PROVE Answering'
  <2> DEFINE request == Head(todo[o])
  <2>0. UNCHANGED incoming /\ pc[o] = "sending"
    BY <1>5 DEF OpenSend
  <2>1. CASE UNCHANGED <<requests, pc>>
    BY <1>3, <2>0, <2>1
  <2>2. ASSUME requests' = Append(requests, [kind |-> "subscribe", request |-> request, open |-> o]),
               pc' = IF request.refresh THEN pc ELSE [pc EXCEPT ![o] = "waiting"]
        PROVE  Answering'
    <3> DEFINE e == [kind |-> "subscribe", request |-> request, open |-> o]
               L == Len(requests) + 1
    <3>1. /\ DOMAIN requests = 1..Len(requests) /\ Len(requests) \in Nat
          /\ \A i \in DOMAIN requests : i \in DOMAIN requests' /\ requests'[i] = requests[i]
          /\ \A i \in DOMAIN requests' : i \in DOMAIN requests \/ i = L
          /\ requests'[L] = e
      BY <1>1, <2>2, QueueLonger
    <3>2. e.open = o /\ e.request = request
      OBVIOUS
    <3> HIDE DEF e, L
    <3>3. /\ \A x \in Opens \ {o} : pc'[x] = pc[x]
          /\ ~request.refresh => pc'[o] \in Pending
      BY <2>2 DEF TypeOK, Pending
    <3>4. \A i \in DOMAIN requests : Asks(i) => requests[i].open \in Opens \ {o}
      BY <2>0 DEF Answering, Pending
    <3>5. \A i \in DOMAIN incoming : Answered(i) => incoming[i].open \in Opens \ {o}
      BY <2>0 DEF Answering, Pending
    <3>6. \A i \in DOMAIN requests' : Asks(i)' =>
            \/ Asks(i) /\ i \in DOMAIN requests /\ requests'[i] = requests[i]
            \/ i = L /\ requests'[i].open = o /\ ~request.refresh
      BY <3>1, <3>2 DEF Asks
    <3>7. \A i : Answered(i)' <=> Answered(i)
      BY <2>0 DEF Answered
    <3>8. \A i \in DOMAIN requests' : Asks(i)' =>
            requests'[i].open \in Opens /\ pc'[requests'[i].open] \in Pending
      BY <3>3, <3>4, <3>6 DEF Answering
    <3>9. \A i \in DOMAIN incoming' : Answered(i)' =>
            incoming'[i].open \in Opens /\ pc'[incoming'[i].open] \in Pending
      BY <2>0, <3>3, <3>5, <3>7 DEF Answering
    <3>10. \A i, j \in DOMAIN requests' :
             Asks(i)' /\ Asks(j)' /\ requests'[i].open = requests'[j].open => i = j
      BY <3>4, <3>6 DEF Answering
    <3>11. \A i, j \in DOMAIN incoming' :
             Answered(i)' /\ Answered(j)' /\ incoming'[i].open = incoming'[j].open => i = j
      BY <2>0, <3>7 DEF Answering
    <3>12. \A i \in DOMAIN requests', j \in DOMAIN incoming' :
             Asks(i)' /\ Answered(j)' => requests'[i].open # incoming'[j].open
      BY <2>0, <3>5, <3>6, <3>7 DEF Answering
    <3> QED BY <3>8, <3>9, <3>10, <3>11, <3>12 DEF Answering
  <2> QED BY <1>5, <2>1, <2>2 DEF OpenSend
<1>6. ASSUME (\E o \in Opens : Drop(o)) \/ Reap PROVE Answering'
  <2>1. UNCHANGED incoming /\ \A x \in Opens : pc[x] \in Pending => pc'[x] = pc[x]
    BY <1>6 DEF Drop, Reap, TypeOK, Pending, openVars
  <2>2. \/ requests' = requests
        \/ \E f : requests' = Append(requests, [kind |-> "unsubscribe", filter |-> f])
    BY <1>6 DEF Drop, Reap, Release
  <2>3. CASE requests' = requests
    BY <1>3, <2>1, <2>3
  <2>4. ASSUME NEW f, requests' = Append(requests, [kind |-> "unsubscribe", filter |-> f])
        PROVE  Answering'
    <3>1. \A i \in DOMAIN requests' : Asks(i)' =>
            Asks(i) /\ requests'[i] = requests[i] /\ pc'[requests[i].open] \in Pending
      <4>1. /\ \A i \in DOMAIN requests : requests'[i] = requests[i]
            /\ \A i \in DOMAIN requests' : i \in DOMAIN requests \/ i = Len(requests) + 1
            /\ requests'[Len(requests) + 1].kind = "unsubscribe"
        BY <1>1, <2>4, QueueLonger
      <4>2. \A i \in DOMAIN requests' : Asks(i)' => Asks(i) /\ i \in DOMAIN requests /\ requests'[i] = requests[i]
        BY <4>1 DEF Asks
      <4> QED BY <2>1, <4>2 DEF Answering
    <3>2. \A i \in DOMAIN incoming' : i \in Int /\ (Answered(i)' =>
            /\ Answered(i + 0) /\ incoming'[i] = incoming[i + 0]
            /\ pc'[incoming[i + 0].open] \in Pending)
      BY <1>2, <2>1 DEF Answered, Answering
    <3> QED BY <3>1, <3>2, AnsweringKept
  <2> QED BY <2>2, <2>3, <2>4
<1>7. CASE ServerTake
  <2> DEFINE packet == Head(requests)
             L == Len(incoming) + 1
  <2>1. UNCHANGED pc /\ requests' = Tail(requests) /\ requests # <<>>
    BY <1>7 DEF ServerTake, openVars
  <2>2. /\ packet = requests[1] /\ 1 \in DOMAIN requests
        /\ \A i \in DOMAIN requests' : i + 1 \in DOMAIN requests /\ requests'[i] = requests[i + 1] /\ i \in Int /\ i + 1 # 1
    <3>1. /\ DOMAIN requests' = 1..(Len(requests) - 1) /\ Len(requests) \in Nat
          /\ \A i \in DOMAIN requests' : i + 1 \in DOMAIN requests /\ requests'[i] = requests[i + 1]
          /\ packet = requests[1] /\ 1 \in DOMAIN requests
      BY <1>1, <2>1, VectorTail
    <3> QED BY <3>1
  <2>3. \A i \in DOMAIN requests' : Asks(i)' => Asks(i + 1) /\ requests'[i] = requests[i + 1]
    BY <2>2 DEF Asks
  <2>4. /\ \A i \in DOMAIN requests' : Asks(i)' =>
             requests'[i].open \in Opens /\ pc'[requests'[i].open] \in Pending
        /\ \A i, j \in DOMAIN requests' :
             Asks(i)' /\ Asks(j)' /\ requests'[i].open = requests'[j].open => i = j
    <3>1. \A i, j \in DOMAIN requests' : i + 1 = j + 1 => i = j
      BY <2>2
    <3> QED BY <2>1, <2>2, <2>3, <3>1 DEF Answering
  <2>5. \/ incoming' = incoming
        \/ /\ Asks(1)
           /\ \E e : e.open = packet.open /\ incoming' = Append(incoming, e)
        \/ \E e : e.kind = "suback" /\ e.request.refresh /\ incoming' = Append(incoming, e)
    <3>1. CASE packet.kind = "unsubscribe"
      BY <1>7, <3>1 DEF ServerTake
    <3>2. CASE packet.kind # "unsubscribe"
      <4>1. PICK accepted : incoming' = Append(incoming, [kind |-> "suback", open |-> packet.open,
                                                          request |-> packet.request,
                                                          accepted |-> accepted])
        BY <1>7, <3>2 DEF ServerTake
      <4> DEFINE e == [kind |-> "suback", open |-> packet.open, request |-> packet.request,
                       accepted |-> accepted]
      <4>2. e.kind = "suback" /\ e.open = packet.open /\ e.request = packet.request
            /\ incoming' = Append(incoming, e)
        BY <4>1
      <4> HIDE DEF e
      <4> QED BY <2>2, <3>2, <4>2 DEF Asks
    <3> QED BY <3>1, <3>2
  <2>6. /\ \A i \in DOMAIN incoming' : Answered(i)' =>
             \/ Answered(i) /\ i \in DOMAIN incoming /\ incoming'[i] = incoming[i]
             \/ i = L /\ Asks(1) /\ incoming'[i].open = packet.open
    <3>1. CASE incoming' = incoming
      BY <3>1 DEF Answered
    <3>2. ASSUME NEW e, incoming' = Append(incoming, e),
                 \/ Asks(1) /\ e.open = packet.open
                 \/ e.kind = "suback" /\ e.request.refresh
          PROVE  \A i \in DOMAIN incoming' : Answered(i)' =>
                   \/ Answered(i) /\ i \in DOMAIN incoming /\ incoming'[i] = incoming[i]
                   \/ i = L /\ Asks(1) /\ incoming'[i].open = packet.open
      <4>1. /\ DOMAIN incoming = 1..Len(incoming) /\ DOMAIN incoming' = 1..(Len(incoming) + 1)
            /\ Len(incoming) \in Nat
            /\ \A i \in DOMAIN incoming : incoming'[i] = incoming[i]
            /\ incoming'[Len(incoming) + 1] = e
        BY <1>1, <3>2, VectorLonger
      <4>2. \A i \in DOMAIN incoming' : i \in DOMAIN incoming \/ i = L
        BY <4>1
      <4>3. incoming'[L] = e
        BY <4>1
      <4> HIDE DEF L
      <4> QED BY <3>2, <4>1, <4>2, <4>3 DEF Answered
    <3> QED BY <2>5, <3>1, <3>2
  <2> HIDE DEF packet, L
  <2>7. \A i \in DOMAIN incoming' : Answered(i)' =>
          incoming'[i].open \in Opens /\ pc'[incoming'[i].open] \in Pending
    BY <2>1, <2>2, <2>6 DEF Answering
  <2>8. \A i, j \in DOMAIN incoming' :
          Answered(i)' /\ Answered(j)' /\ incoming'[i].open = incoming'[j].open => i = j
    BY <2>2, <2>6 DEF Answering
  <2>9. \A i \in DOMAIN requests', j \in DOMAIN incoming' :
          Asks(i)' /\ Answered(j)' => requests'[i].open # incoming'[j].open
    <3> SUFFICES ASSUME NEW i \in DOMAIN requests', NEW j \in DOMAIN incoming', Asks(i)', Answered(j)',
                        requests'[i].open = incoming'[j].open
                 PROVE  FALSE
      OBVIOUS
    <3>1. Asks(i + 1) /\ i + 1 \in DOMAIN requests /\ requests'[i] = requests[i + 1] /\ i + 1 # 1
      BY <2>2, <2>3
    <3>2. CASE Answered(j) /\ j \in DOMAIN incoming /\ incoming'[j] = incoming[j]
      BY <3>1, <3>2 DEF Answering
    <3>3. CASE j = L /\ Asks(1) /\ incoming'[j].open = packet.open
      BY <2>2, <3>1, <3>3 DEF Answering
    <3> QED BY <2>6, <3>2, <3>3
  <2> QED BY <2>4, <2>7, <2>8, <2>9 DEF Answering
<1>8. ASSUME NEW t \in Topics, ServerPublish(t) PROVE Answering'
  <2>1. UNCHANGED <<pc, requests>>
    BY <1>8 DEF ServerPublish, openVars
  <2>2. PICK s : /\ Vector(s) /\ incoming' = incoming \o s
                 /\ \A i \in DOMAIN s : s[i].kind = "publish"
    BY <1>1, <1>8, CopiesSent
  <2>3. /\ DOMAIN incoming' = 1..(Len(incoming) + Len(s)) /\ Len(incoming) \in Nat /\ Len(s) \in Nat
        /\ DOMAIN incoming = 1..Len(incoming) /\ DOMAIN s = 1..Len(s)
        /\ \A i \in DOMAIN incoming' :
             incoming'[i] = IF i <= Len(incoming) THEN incoming[i] ELSE s[i - Len(incoming)]
    BY <1>1, <2>2, VectorConcat, VectorPlaces
  <2>4. \A i \in DOMAIN incoming' : i \in Int /\ (Answered(i)' =>
          /\ Answered(i + 0) /\ incoming'[i] = incoming[i + 0]
          /\ pc'[incoming[i + 0].open] \in Pending)
    <3> SUFFICES ASSUME NEW i \in DOMAIN incoming'
                 PROVE  i \in Int /\ (Answered(i)' =>
                          /\ Answered(i + 0) /\ i + 0 \in DOMAIN incoming
                          /\ incoming'[i] = incoming[i + 0])
      <4>1. \A i \in DOMAIN incoming : Answered(i) => pc[incoming[i].open] \in Pending
        BY DEF Answering
      <4> QED BY <2>1, <4>1
    <3>1. i \in Int /\ i + 0 = i
      BY <2>3
    <3>2. CASE i <= Len(incoming)
      <4>1. i \in DOMAIN incoming /\ incoming'[i] = incoming[i]
        BY <2>3, <3>2
      <4> QED BY <3>1, <4>1 DEF Answered
    <3>3. CASE ~(i <= Len(incoming))
      <4>1. i - Len(incoming) \in DOMAIN s /\ incoming'[i] = s[i - Len(incoming)]
        BY <2>3, <3>3
      <4>2. incoming'[i].kind = "publish"
        BY <2>2, <4>1
      <4> QED BY <3>1, <4>2 DEF Answered
    <3> QED BY <3>2, <3>3
  <2>5. \A i \in DOMAIN requests' : Asks(i)' =>
          Asks(i) /\ requests'[i] = requests[i] /\ pc'[requests[i].open] \in Pending
    <3>1. \A i : Asks(i)' <=> Asks(i)
      BY <2>1 DEF Asks
    <3>2. \A i \in DOMAIN requests : Asks(i) => pc[requests[i].open] \in Pending
      BY DEF Answering
    <3> QED BY <2>1, <3>1, <3>2
  <2> QED BY <2>4, <2>5, AnsweringKept
<1>9. ASSUME incoming # <<>>, incoming' = Tail(incoming), UNCHANGED requests,
             \/ UNCHANGED pc
             \/ Answered(1) /\ \A x \in Opens : x # incoming[1].open => pc'[x] = pc[x]
      PROVE  Answering'
  <2>1. /\ DOMAIN incoming' = 1..(Len(incoming) - 1) /\ Len(incoming) \in Nat
        /\ \A i \in DOMAIN incoming' : i + 1 \in DOMAIN incoming /\ incoming'[i] = incoming[i + 1]
        /\ 1 \in DOMAIN incoming
    BY <1>1, <1>9, VectorTail
  <2>2. \A i \in DOMAIN incoming' : i \in Int /\ i + 1 # 1
    BY <2>1
  <2>3. \A i \in DOMAIN incoming' : i \in Int /\ (Answered(i)' =>
          /\ Answered(i + 1) /\ incoming'[i] = incoming[i + 1]
          /\ pc'[incoming[i + 1].open] \in Pending)
    <3>1. \A i \in DOMAIN incoming' : i \in Int /\ (Answered(i)' =>
            Answered(i + 1) /\ incoming'[i] = incoming[i + 1])
      BY <2>1, <2>2 DEF Answered
    <3> QED BY <1>9, <2>1, <2>2, <3>1 DEF Answering
  <2>4. \A i \in DOMAIN requests' : Asks(i)' =>
          Asks(i) /\ requests'[i] = requests[i] /\ pc'[requests[i].open] \in Pending
    <3>1. \A i \in DOMAIN requests' : Asks(i)' => Asks(i) /\ requests'[i] = requests[i] /\ i \in DOMAIN requests
      BY <1>9 DEF Asks
    <3> QED BY <1>9, <2>1, <3>1 DEF Answering
  <2> QED BY <2>3, <2>4, AnsweringKept
<1>10. CASE ReceivePublish
  <2>1. incoming # <<>> /\ incoming' = Tail(incoming) /\ UNCHANGED <<requests, pc>>
    BY <1>10 DEF ReceivePublish, openVars
  <2> QED BY <1>9, <2>1
<1>11. CASE ReceiveSuback
  <2>1. incoming # <<>> /\ incoming' = Tail(incoming) /\ UNCHANGED requests /\ Head(incoming).kind = "suback"
    BY <1>11 DEF ReceiveSuback
  <2>2. Head(incoming) = incoming[1] /\ 1 \in DOMAIN incoming
    BY <1>1, <2>1, VectorTail
  <2>3. CASE incoming[1].request.refresh
    BY <1>9, <1>11, <2>1, <2>2, <2>3 DEF ReceiveSuback
  <2>4. CASE ~incoming[1].request.refresh
    <3>1. Answered(1)
      BY <2>1, <2>2, <2>4 DEF Answered
    <3>2. \E s : pc' = [pc EXCEPT ![incoming[1].open] = s]
      BY <1>11, <2>2, <2>4 DEF ReceiveSuback
    <3>3. \A x \in Opens : x # incoming[1].open => pc'[x] = pc[x]
      BY <3>2 DEF TypeOK
    <3> QED BY <1>9, <2>1, <3>1, <3>3
  <2> QED BY <2>3, <2>4
<1>12. CASE UNCHANGED vars
  BY <1>3, <1>12 DEF vars, openVars
<1>13. ASSUME NEW o \in Opens, OpenCancel(o) PROVE Answering'
  <2>1. UNCHANGED <<requests, incoming>> /\ \A x \in Opens : pc[x] \in Pending => pc'[x] \in Pending
    BY <1>13 DEF OpenCancel, TypeOK, Pending
  <2> QED BY <1>3, <2>1
<1> QED BY <1>4, <1>5, <1>6, <1>7, <1>8, <1>10, <1>11, <1>12, <1>13 DEF Next

\* Each stream that exists has one wire, which asks for what it needs, or more.
OneWireServes ==
  \A o \in Opens : Alive(o) =>
    /\ \E n \in DOMAIN wires : wires[n].filter = FilterOf[o]
    /\ \A n \in DOMAIN wires : wires[n].filter = FilterOf[o] =>
         /\ wires[n].qos >= QosOf[o]
         /\ \A k \in DOMAIN wires : wires[k].filter = FilterOf[o] => k = n

\* So it is while each has its seat.
LEMMA ServesPlaced == Structure /\ Placed => OneWireServes
<1> SUFFICES ASSUME Structure, Placed, NEW o \in Opens, Alive(o)
             PROVE  /\ \E n \in DOMAIN wires : wires[n].filter = FilterOf[o]
                    /\ \A n \in DOMAIN wires : wires[n].filter = FilterOf[o] =>
                         /\ wires[n].qos >= QosOf[o]
                         /\ \A k \in DOMAIN wires : wires[k].filter = FilterOf[o] => k = n
  BY DEF OneWireServes
<1>1. SitsOn(member[o], FilterOf[o], QosOf[o])
  BY DEF Placed
<1>2. \A n \in DOMAIN wires : wires[n].filter = FilterOf[o] => wires[n].qos >= QosOf[o]
  BY <1>1, SitsServed
<1>3. \E n \in DOMAIN wires : wires[n].filter = FilterOf[o]
  BY <1>1 DEF SitsOn
<1> QED BY <1>2, <1>3 DEF Structure, OneWirePerFilter

\* After a step as well.
LEMMA ServesPlacedNext == (Structure /\ Placed => OneWireServes)'
  BY ServesPlaced, PTL

\* An open that joins asks for whatever its join changed, its own filter included.
\* Who sits where, and who waits for what.
SeatedInv ==
  CInv /\ Shape /\ TypeOK /\ Numbered /\ Placed /\ Answering /\ Reaped

LEMMA SeatedInit == Init => SeatedInv
<1> SUFFICES ASSUME Init PROVE SeatedInv
  OBVIOUS
<1>1. CInv /\ Shape /\ TypeOK
  BY CInvInit, ShapeInit
<1>2. /\ pc = [o \in Opens |-> "idle"] /\ member = [o \in Opens |-> NoMember]
      /\ reaping = <<>> /\ requests = <<>> /\ incoming = <<>> /\ DOMAIN <<>> = {}
  BY DEF Init
<1>3. Numbered /\ Placed /\ Answering
  BY <1>2 DEF Numbered, Placed, Answering, Alive
<1>4. Reaped
  BY <1>2, VectorEmpty DEF Reaped
<1> QED BY <1>1, <1>3, <1>4 DEF SeatedInv

LEMMA SeatedStep ==
  ASSUME IsFiniteSet(Filters)
  PROVE  SeatedInv /\ [Next]_vars => SeatedInv'
<1> SUFFICES ASSUME SeatedInv, [Next]_vars PROVE SeatedInv'
  OBVIOUS
<1> USE DEF SeatedInv
<1>1. (CInv /\ Shape /\ TypeOK)'
  BY TypedStep
<1>2. nextMember' \in Nat
  BY <1>1 DEF CInv, Structure, RegistryTypeOK
<1>3. Numbered'
  BY <1>2, NumberedStep DEF CInv
<1>4. Placed'
  BY PlacedStep
<1>5. Answering'
  BY AnsweringStep
<1>6. Reaped'
  BY <1>2, ReapedStep
<1> QED BY <1>1, <1>3, <1>4, <1>5, <1>6

\* What the streams rest on, and the server with them.
-----------------------------------------------------------------------------
(* The last request about each filter, against whether a subscription is on *)
(* it: a queue with room loses none, so it is what the server ends up with. *)

\* The last request about f is of the kind, or none is about it and the server has it so.
EndsUp(f, kind) ==
  \/ \E i \in DOMAIN requests :
       /\ About(requests[i], f) /\ (requests[i].kind = "unsubscribe" <=> kind = "unsubscribe")
       /\ \A j \in DOMAIN requests : j > i => ~About(requests[j], f)
  \/ /\ \A j \in DOMAIN requests : ~About(requests[j], f)
     /\ server[f] = NotHeld <=> kind = "unsubscribe"

Opening(f) == \E o \in Opens : pc[o] = "sending" /\ FilterOf[o] = f

\* A stream on f was dropped, and none of the app's is on it.
LetGo(f) == (\E o \in Opens : FilterOf[o] = f /\ pc[o] = "closed") /\ (\A o \in Keeps : FilterOf[o] # f)

LastAsked ==
  \A f \in Filters : /\ Holds(f) => EndsUp(f, "subscribe") \/ Opening(f)
                     /\ ~Holds(f) /\ LetGo(f) => EndsUp(f, "unsubscribe")

\* An open's own request is its last, and each asks for a quality of service there is.
Sendable ==
  /\ todo = [o \in Opens |-> todo[o]]
  /\ \A o \in Opens : pc[o] = "sending" =>
       /\ Vector(todo[o]) /\ todo[o] # <<>>
       /\ todo[o][Len(todo[o])].filter = FilterOf[o]
       /\ \A i \in DOMAIN todo[o] :
            (todo[o][i].refresh <=> i < Len(todo[o])) /\ todo[o][i].qos \in Qos
  /\ \A i \in DOMAIN requests : requests[i].kind # "unsubscribe" => requests[i].request.qos \in Qos

Granted == \A i \in DOMAIN incoming : incoming[i].kind = "suback" => incoming[i].accepted

\* A request about another filter changes nothing.
LEMMA EndsUpKept ==
  ASSUME Vector(requests), NEW f, NEW kind, EndsUp(f, kind), server'[f] = server[f],
         requests' = requests \/ \E e : ~About(e, f) /\ requests' = Append(requests, e)
  PROVE  EndsUp(f, kind)'
<1>1. CASE requests' = requests
  BY <1>1 DEF EndsUp, About
<1>2. ASSUME NEW e, ~About(e, f), requests' = Append(requests, e) PROVE EndsUp(f, kind)'
  <2>1. /\ \A i \in DOMAIN requests : i \in DOMAIN requests' /\ requests'[i] = requests[i]
        /\ \A i \in DOMAIN requests' : i \in DOMAIN requests \/ requests'[i] = e
    BY <1>2, QueueLonger
  <2>2. \A i \in DOMAIN requests' : About(requests'[i], f) => i \in DOMAIN requests /\ About(requests[i], f)
    BY <1>2, <2>1
  <2>3. CASE \E i \in DOMAIN requests :
               /\ About(requests[i], f) /\ (requests[i].kind = "unsubscribe" <=> kind = "unsubscribe")
               /\ \A j \in DOMAIN requests : j > i => ~About(requests[j], f)
    BY <2>1, <2>2, <2>3 DEF EndsUp, About
  <2>4. CASE /\ \A j \in DOMAIN requests : ~About(requests[j], f)
             /\ server[f] = NotHeld <=> kind = "unsubscribe"
    BY <1>2, <2>1, <2>2, <2>4 DEF EndsUp, About, NotHeld
  <2> QED BY <2>3, <2>4 DEF EndsUp
<1> QED BY <1>1, <1>2

\* The newest request about a filter is the last one.
LEMMA EndsUpNew ==
  ASSUME Vector(requests), NEW f, NEW kind, NEW e, About(e, f),
         e.kind = "unsubscribe" <=> kind = "unsubscribe", requests' = Append(requests, e)
  PROVE  EndsUp(f, kind)'
<1>1. /\ DOMAIN requests' = 1..(Len(requests) + 1) /\ Len(requests) \in Nat
      /\ requests'[Len(requests) + 1] = e
  BY QueueLonger
<1>2. PICK l : l = Len(requests) + 1
  OBVIOUS
<1>3. l \in DOMAIN requests' /\ requests'[l] = e /\ \A j \in DOMAIN requests' : ~(j > l)
  BY <1>1, <1>2
<1> QED BY <1>3 DEF EndsUp, About

\* The server takes the first request and does what it says.
LEMMA EndsUpTaken ==
  ASSUME Vector(requests), requests # <<>>, requests' = Tail(requests), NEW f, NEW kind, EndsUp(f, kind),
         About(requests[1], f) => (server'[f] = NotHeld <=> requests[1].kind = "unsubscribe"),
         ~About(requests[1], f) => server'[f] = server[f]
  PROVE  EndsUp(f, kind)'
<1>1. /\ DOMAIN requests = 1..Len(requests) /\ Len(requests) \in Nat \ {0}
      /\ DOMAIN requests' = 1..(Len(requests) - 1) /\ 1 \in DOMAIN requests
      /\ \A i \in DOMAIN requests' : i + 1 \in DOMAIN requests /\ requests'[i] = requests[i + 1]
  BY VectorTail
<1>2. /\ \A i \in DOMAIN requests \ {1} : i - 1 \in DOMAIN requests' /\ requests'[i - 1] = requests[i]
      /\ \A i \in DOMAIN requests' : i \in Int /\ i + 1 > 1
  <2>1. \A i \in DOMAIN requests \ {1} : i - 1 \in DOMAIN requests' /\ (i - 1) + 1 = i
    BY <1>1
  <2>2. \A i \in DOMAIN requests' : i \in Int /\ i + 1 > 1
    BY <1>1
  <2> QED BY <1>1, <2>1, <2>2
<1>3. CASE \A j \in DOMAIN requests : ~About(requests[j], f)
  <2>1. \A j \in DOMAIN requests' : ~About(requests'[j], f)
    BY <1>1, <1>3
  <2>2. server'[f] = NotHeld <=> kind = "unsubscribe"
    BY <1>1, <1>3 DEF EndsUp
  <2> QED BY <2>1, <2>2 DEF EndsUp, About, NotHeld
<1>4. ASSUME NEW i \in DOMAIN requests, About(requests[i], f),
             requests[i].kind = "unsubscribe" <=> kind = "unsubscribe",
             \A j \in DOMAIN requests : j > i => ~About(requests[j], f)
      PROVE  EndsUp(f, kind)'
  <2>1. CASE i = 1
    <3>1. \A j \in DOMAIN requests' : ~About(requests'[j], f)
      BY <1>1, <1>2, <1>4, <2>1
    <3>2. server'[f] = NotHeld <=> kind = "unsubscribe"
      BY <1>4, <2>1
    <3> QED BY <3>1, <3>2 DEF EndsUp, About, NotHeld
  <2>2. CASE i # 1
    <3>1. PICK k : k = i - 1
      OBVIOUS
    <3>2. k \in DOMAIN requests' /\ requests'[k] = requests[i]
      BY <1>2, <2>2, <3>1
    <3>3. \A j \in DOMAIN requests' : j > k => j + 1 > i
      BY <1>1, <3>1
    <3>4. \A j \in DOMAIN requests' : j > k => ~About(requests'[j], f)
      BY <1>1, <1>4, <3>3
    <3>5. About(requests'[k], f) /\ (requests'[k].kind = "unsubscribe" <=> kind = "unsubscribe")
      BY <1>4, <3>2
    <3> QED BY <3>2, <3>4, <3>5 DEF EndsUp, About
  <2> QED BY <2>1, <2>2
<1> QED BY <1>3, <1>4 DEF EndsUp

\* Only a join makes an open send, and only its drop closes it.
LEMMA SendingClosed ==
  ASSUME CInv, TypeOK, Answering, [Next]_vars, NEW x \in Opens
  PROVE  /\ pc'[x] = "sending" => pc[x] = "sending" \/ OpenJoin(x)
         /\ pc'[x] = "closed" => pc[x] = "closed" \/ Drop(x)
<1> DEFINE Goal == /\ pc'[x] = "sending" => pc[x] = "sending" \/ OpenJoin(x)
                   /\ pc'[x] = "closed" => pc[x] = "closed" \/ Drop(x)
<1>1. CASE UNCHANGED pc
  BY <1>1
<1>2. ASSUME NEW o \in Opens, NEW s, pc' = [pc EXCEPT ![o] = s], s \notin {"sending", "closed"}
      PROVE  Goal
  BY <1>2 DEF TypeOK
<1>3. ASSUME NEW o \in Opens, OpenJoin(o) PROVE Goal
  <2>1. /\ x # o => pc'[x] = pc[x]
        /\ pc'[o] # "closed"
    BY <1>3 DEF OpenJoin, TypeOK
  <2> QED BY <1>3, <2>1
<1>4. ASSUME NEW o \in Opens, OpenSend(o) PROVE Goal
  <2>1. UNCHANGED pc \/ pc' = [pc EXCEPT ![o] = "waiting"]
    BY <1>4 DEF OpenSend
  <2> QED BY <1>1, <1>2, <2>1
<1>5. ASSUME NEW o \in Opens, OpenCancel(o) PROVE Goal
  BY <1>2, <1>5 DEF OpenCancel
<1>6. ASSUME NEW o \in Opens, Drop(o) PROVE Goal
  <2>1. pc' = [pc EXCEPT ![o] = "closed"]
    BY <1>6 DEF Drop
  <2> QED BY <1>6, <2>1 DEF TypeOK
<1>7. CASE ReceiveSuback
  <2>1. incoming # <<>> /\ Head(incoming).kind = "suback"
    BY <1>7 DEF ReceiveSuback
  <2>2. Head(incoming) = incoming[1] /\ 1 \in DOMAIN incoming
    BY <2>1, IncomingVector, VectorTail DEF CInv
  <2>3. PICK a : a = incoming[1]
    OBVIOUS
  <2>4. CASE a.request.refresh
    BY <1>1, <1>7, <2>2, <2>3, <2>4 DEF ReceiveSuback
  <2>5. CASE ~a.request.refresh
    <3>1. Answered(1)
      BY <2>1, <2>2, <2>3, <2>5 DEF Answered
    <3>2. PICK o \in Opens : o = a.open /\ pc[o] \in Pending
      BY <2>2, <2>3, <3>1 DEF Answering
    <3>3. pc' = [pc EXCEPT ![o] = Outcome(pc[o], a.accepted)]
      BY <1>7, <2>2, <2>3, <2>5, <3>2 DEF ReceiveSuback
    <3>4. Outcome(pc[o], a.accepted) \notin {"sending", "closed"}
      BY <3>2 DEF Pending, Outcome
    <3> QED BY <1>2, <3>3, <3>4
  <2> QED BY <2>4, <2>5
<1>8. CASE ServerTake \/ (\E t \in Topics : ServerPublish(t)) \/ ReceivePublish \/ Reap \/ UNCHANGED vars
  BY <1>1, <1>8 DEF ServerTake, ServerPublish, ReceivePublish, Reap, vars, openVars
<1> QED BY <1>3, <1>4, <1>5, <1>6, <1>7, <1>8 DEF Next

\* What an open queues is what its join made.
LEMMA SendableStep ==
  ASSUME CInv, Structure', Shape, TypeOK, Answering, Sendable, [Next]_vars
  PROVE  Sendable'
<1> USE DEF CInv
<1>1. ASSUME UNCHANGED <<todo, requests>>, \A x \in Opens : pc'[x] = "sending" => pc[x] = "sending"
      PROVE  Sendable'
  BY <1>1 DEF Sendable
<1>2. ASSUME NEW e, requests' = Append(requests, e), e.kind # "unsubscribe" => e.request.qos \in Qos
      PROVE  \A i \in DOMAIN requests' : requests'[i].kind # "unsubscribe" => requests'[i].request.qos \in Qos
  <2>1. /\ \A i \in DOMAIN requests : requests'[i] = requests[i]
        /\ \A i \in DOMAIN requests' : i \in DOMAIN requests \/ requests'[i] = e
    BY <1>2, QueueLonger DEF Shape
  <2> QED BY <1>2, <2>1 DEF Sendable
<1>3. ASSUME NEW o \in Opens, OpenJoin(o) PROVE Sendable'
  <2>1. CASE Refused(FilterOf[o], offered)
    <3>1. UNCHANGED <<todo, requests>> /\ pc' = [pc EXCEPT ![o] = "failed"]
      BY <1>3, <2>1 DEF OpenJoin
    <3> QED BY <1>1, <3>1 DEF TypeOK
  <2>2. CASE ~Refused(FilterOf[o], offered)
    <3>1. /\ Join(FilterOf[o], QosOf[o], offered)
          /\ pc' = [pc EXCEPT ![o] = "sending"]
          /\ todo' = [todo EXCEPT ![o] = JoinRequests(wires, wires', FilterOf[o], offered)]
          /\ UNCHANGED requests
      BY <1>3, <2>2 DEF OpenJoin
    <3>2. PICK f : f = FilterOf[o]
      OBVIOUS
    <3>3. PICK asked : asked = JoinRequests(wires, wires', f, offered)
      OBVIOUS
    <3>4. f \in Filters /\ QosOf[o] \in Qos /\ offered \in BOOLEAN
      BY <3>2, ConnectionAssumption DEF TypeOK
    <3>5. AsksFor(asked, f, offered)
      BY <3>1, <3>2, <3>3, <3>4, JoinAsks
    <3>6. \A n \in DOMAIN wires' : wires'[n].qos \in Qos
      <4>1. wires' \in Seq(Wire)
        BY DEF Structure, RegistryTypeOK
      <4>2. \A n \in DOMAIN wires' : wires'[n] \in Wire
        BY <4>1, SeqPlaces
      <4> QED BY <4>2 DEF Wire
    <3>7. /\ Vector(asked) /\ asked # <<>> /\ asked[Len(asked)].filter = f
          /\ \A i \in DOMAIN asked : (asked[i].refresh <=> i < Len(asked)) /\ asked[i].qos \in Qos
      BY <3>5, <3>6 DEF AsksFor
    <3>8. /\ todo' = [p \in Opens |-> todo'[p]] /\ todo'[o] = asked
          /\ \A p \in Opens \ {o} : todo'[p] = todo[p] /\ pc'[p] = pc[p]
      BY <3>1, <3>2, <3>3 DEF Sendable, TypeOK
    <3> QED BY <3>1, <3>2, <3>7, <3>8 DEF Sendable
  <2> QED BY <2>1, <2>2
<1>4. ASSUME NEW o \in Opens, OpenSend(o) PROVE Sendable'
  <2> DEFINE request == Head(todo[o])
             rest == Tail(todo[o])
             e == [kind |-> "subscribe", request |-> request, open |-> o]
  <2>1. /\ pc[o] = "sending" /\ todo' = [todo EXCEPT ![o] = rest]
        /\ \/ Moot(request) /\ UNCHANGED <<requests, pc>>
           \/ /\ requests' = Append(requests, e)
              /\ pc' = IF request.refresh THEN pc ELSE [pc EXCEPT ![o] = "waiting"]
    BY <1>4 DEF OpenSend
  <2>2. /\ Vector(todo[o]) /\ todo[o] # <<>>
        /\ todo[o][Len(todo[o])].filter = FilterOf[o]
        /\ \A i \in DOMAIN todo[o] :
             (todo[o][i].refresh <=> i < Len(todo[o])) /\ todo[o][i].qos \in Qos
    BY <2>1 DEF Sendable
  <2>3. /\ Vector(rest) /\ Len(todo[o]) \in Nat \ {0} /\ DOMAIN todo[o] = 1..Len(todo[o])
        /\ Len(rest) = Len(todo[o]) - 1 /\ DOMAIN rest = 1..(Len(todo[o]) - 1)
        /\ request = todo[o][1] /\ 1 \in DOMAIN todo[o]
        /\ \A i \in DOMAIN rest : i + 1 \in DOMAIN todo[o] /\ rest[i] = todo[o][i + 1]
    BY <2>2, VectorTail
  <2>4. e.kind = "subscribe" /\ e.request = request
    OBVIOUS
  <2> HIDE DEF request, rest, e
  <2>5. /\ todo' = [p \in Opens |-> todo'[p]] /\ todo'[o] = rest
        /\ \A p \in Opens \ {o} : todo'[p] = todo[p]
    BY <2>1 DEF Sendable
  <2>6. /\ \A p \in Opens \ {o} : pc'[p] = pc[p]
        /\ pc'[o] = "sending" => request.refresh
    BY <2>1 DEF TypeOK, Moot
  <2>7. ASSUME request.refresh
        PROVE  /\ rest # <<>> /\ rest[Len(rest)].filter = FilterOf[o]
               /\ \A i \in DOMAIN rest : (rest[i].refresh <=> i < Len(rest)) /\ rest[i].qos \in Qos
    <3>1. 1 < Len(todo[o])
      BY <2>2, <2>3, <2>7
    <3>2. Len(rest) \in DOMAIN rest /\ Len(rest) + 1 = Len(todo[o])
      BY <2>3, <3>1
    <3>3. rest # <<>>
      BY <3>2
    <3>4. \A i \in DOMAIN rest : i + 1 < Len(todo[o]) <=> i < Len(rest)
      BY <2>3
    <3> QED BY <2>2, <2>3, <3>2, <3>3, <3>4
  <2>8. \A i \in DOMAIN requests' : requests'[i].kind # "unsubscribe" => requests'[i].request.qos \in Qos
    <3>1. request.qos \in Qos
      BY <2>2, <2>3
    <3>2. CASE UNCHANGED requests
      BY <3>2 DEF Sendable
    <3> QED BY <1>2, <2>1, <2>4, <3>1, <3>2
  <2> QED BY <2>3, <2>5, <2>6, <2>7, <2>8 DEF Sendable
<1>5. SUFFICES ASSUME \A o \in Opens : ~OpenJoin(o) /\ ~OpenSend(o) PROVE Sendable'
  BY <1>3, <1>4
<1>6. /\ \A x \in Opens : pc'[x] = "sending" => pc[x] = "sending"
      /\ UNCHANGED todo
  <2>1. UNCHANGED todo
    BY <1>5 DEF Next, OpenCancel, Drop, Release, ServerTake, ServerPublish, ReceiveSuback,
                ReceivePublish, Reap, vars, openVars
  <2> QED BY <1>5, <2>1, SendingClosed
<1>7. \/ requests' = requests
      \/ \E f : requests' = Append(requests, [kind |-> "unsubscribe", filter |-> f])
      \/ requests # <<>> /\ requests' = Tail(requests)
  BY <1>5 DEF Next, OpenCancel, Drop, Release, ServerTake, ServerPublish, ReceiveSuback,
              ReceivePublish, Reap, vars
<1>8. \A i \in DOMAIN requests' : requests'[i].kind # "unsubscribe" => requests'[i].request.qos \in Qos
  <2>1. CASE requests' = requests
    BY <2>1 DEF Sendable
  <2>2. ASSUME NEW f, requests' = Append(requests, [kind |-> "unsubscribe", filter |-> f])
        PROVE  \A i \in DOMAIN requests' : requests'[i].kind # "unsubscribe" => requests'[i].request.qos \in Qos
    BY <1>2, <2>2
  <2>3. CASE requests # <<>> /\ requests' = Tail(requests)
    <3>1. \A i \in DOMAIN requests' : i + 1 \in DOMAIN requests /\ requests'[i] = requests[i + 1]
      BY <2>3, VectorTail DEF Shape
    <3> QED BY <3>1 DEF Sendable
  <2> QED BY <1>7, <2>1, <2>2, <2>3
<1> QED BY <1>6, <1>8 DEF Sendable

\* A server that grants what it is asked says so.
LEMMA GrantedStep ==
  ASSUME Accepts = {TRUE}, Answers = {TRUE}, IsFiniteSet(Filters), CInv, Granted, [Next]_vars
  PROVE  Granted'
<1>1. Vector(incoming)
  BY IncomingVector DEF CInv
<1>2. CASE UNCHANGED incoming
  BY <1>2 DEF Granted
<1>3. CASE incoming # <<>> /\ incoming' = Tail(incoming)
  <2>1. \A i \in DOMAIN incoming' : i + 1 \in DOMAIN incoming /\ incoming'[i] = incoming[i + 1]
    BY <1>1, <1>3, VectorTail
  <2> QED BY <2>1 DEF Granted
<1>4. CASE ServerTake /\ ~UNCHANGED incoming
  <2>1. PICK accepted : accepted = TRUE /\
                        incoming' = Append(incoming, [kind |-> "suback", open |-> Head(requests).open,
                                                      request |-> Head(requests).request,
                                                      accepted |-> accepted])
    BY <1>4 DEF ServerTake
  <2>2. PICK e : e.accepted = TRUE /\ incoming' = Append(incoming, e)
    BY <2>1
  <2>3. /\ DOMAIN incoming = 1..Len(incoming) /\ DOMAIN incoming' = 1..(Len(incoming) + 1)
        /\ Len(incoming) \in Nat
        /\ \A i \in DOMAIN incoming : incoming'[i] = incoming[i]
        /\ incoming'[Len(incoming) + 1] = e
    BY <1>1, <2>2, VectorLonger
  <2>4. \A i \in DOMAIN incoming' : i \in DOMAIN incoming \/ incoming'[i] = e
    BY <2>3
  <2> QED BY <2>2, <2>3, <2>4 DEF Granted
<1>5. ASSUME NEW t \in Topics, ServerPublish(t) PROVE Granted'
  <2>2. PICK s : /\ Vector(s) /\ incoming' = incoming \o s
                 /\ \A i \in DOMAIN s : s[i].kind = "publish"
    BY <1>1, <1>5, CopiesSent
  <2>3. /\ DOMAIN incoming' = 1..(Len(incoming) + Len(s)) /\ Len(incoming) \in Nat /\ Len(s) \in Nat
        /\ DOMAIN incoming = 1..Len(incoming) /\ DOMAIN s = 1..Len(s)
        /\ \A i \in DOMAIN incoming' :
             incoming'[i] = IF i <= Len(incoming) THEN incoming[i] ELSE s[i - Len(incoming)]
    BY <1>1, <2>2, VectorConcat, VectorPlaces
  <2>4. ASSUME NEW i \in DOMAIN incoming', incoming'[i].kind = "suback" PROVE incoming'[i].accepted
    <3>1. CASE i <= Len(incoming)
      <4>1. i \in DOMAIN incoming /\ incoming'[i] = incoming[i]
        BY <2>3, <3>1
      <4> QED BY <2>4, <4>1 DEF Granted
    <3>2. CASE ~(i <= Len(incoming))
      <4>1. i - Len(incoming) \in DOMAIN s /\ incoming'[i] = s[i - Len(incoming)]
        BY <2>3, <3>2
      <4> QED BY <2>2, <2>4, <4>1
    <3> QED BY <3>1, <3>2
  <2> QED BY <2>4 DEF Granted
<1> QED BY <1>2, <1>3, <1>4, <1>5 DEF Next, OpenJoin, OpenSend, OpenCancel, Drop, ReceiveSuback,
                                      ReceivePublish, Reap, vars

\* A released member takes its filter off, and its unsubscribe is the last about it.
LEMMA LastAskedReleased ==
  ASSUME Structure, Structure', Shape, LastAsked, Len(requests) < Capacity, NEW m, Release(m),
         UNCHANGED server, \A x \in Opens : pc[x] = "sending" => pc'[x] = "sending",
         \A x \in Opens : pc'[x] = "closed" => pc[x] = "closed" \/ Holds(FilterOf[x])
  PROVE  LastAsked'
<1>1. /\ Leave(m)
      /\ \/ TakenOff(m) = {} /\ requests' = requests
         \/ \E g \in TakenOff(m) : requests' = Append(requests, [kind |-> "unsubscribe", filter |-> g])
  BY DEF Release
<1>2. /\ \A f : Holds(f)' => Holds(f)
      /\ \A f : Holds(f) /\ ~Holds(f)' <=> f \in TakenOff(m)
      /\ \A f, g \in TakenOff(m) : f = g
  BY <1>1, HoldsLeft
<1>3. \A f : (Opening(f) => Opening(f)') /\ (~Holds(f) /\ LetGo(f)' => LetGo(f))
  BY DEF Opening, LetGo
<1>4. ASSUME NEW f \in Filters, f \notin TakenOff(m),
             requests' = requests \/ \E e : ~About(e, f) /\ requests' = Append(requests, e)
      PROVE  /\ Holds(f)' => EndsUp(f, "subscribe")' \/ Opening(f)'
             /\ ~Holds(f)' /\ LetGo(f)' => EndsUp(f, "unsubscribe")'
  <2>1. \A k : EndsUp(f, k) => EndsUp(f, k)'
    BY <1>4, EndsUpKept DEF Shape
  <2>2. Holds(f)' <=> Holds(f)
    BY <1>2, <1>4
  <2>3. EndsUp(f, "subscribe") => EndsUp(f, "subscribe")'
    BY <2>1
  <2>4. EndsUp(f, "unsubscribe") => EndsUp(f, "unsubscribe")'
    BY <2>1
  <2> QED BY <1>3, <2>2, <2>3, <2>4 DEF LastAsked
<1>5. CASE TakenOff(m) = {} /\ requests' = requests
  BY <1>4, <1>5 DEF LastAsked
<1>6. ASSUME NEW g \in TakenOff(m), requests' = Append(requests, [kind |-> "unsubscribe", filter |-> g])
      PROVE  LastAsked'
  <2> DEFINE e == [kind |-> "unsubscribe", filter |-> g]
  <2>1. \A f : About(e, f) <=> f = g
    BY DEF About
  <2>2. e.kind = "unsubscribe" /\ requests' = Append(requests, e)
    BY <1>6
  <2> HIDE DEF e
  <2>3. EndsUp(g, "unsubscribe")'
    BY <2>1, <2>2, EndsUpNew DEF Shape
  <2>4. ~Holds(g)'
    BY <1>2
  <2>5. \A f \in Filters \ {g} :
          /\ Holds(f)' => EndsUp(f, "subscribe")' \/ Opening(f)'
          /\ ~Holds(f)' /\ LetGo(f)' => EndsUp(f, "unsubscribe")'
    BY <1>2, <1>4, <2>1, <2>2
  <2> QED BY <2>3, <2>4, <2>5 DEF LastAsked
<1> QED BY <1>1, <1>5, <1>6

\* With room in the queue and a server that grants, the last request stays the right one.
LEMMA LastAskedStep ==
  ASSUME Accepts = {TRUE}, Answers = {TRUE}, SeatedInv, Structure', LastAsked, Sendable, Granted,
         server = [f \in Filters |-> server[f]], Len(requests) < Capacity, [Next]_vars
  PROVE  LastAsked' /\ server' = [f \in Filters |-> server'[f]]
<1> USE DEF SeatedInv
<1>0. Structure /\ RegistryTypeOK /\ Vector(requests)
  BY DEF CInv, Structure, Shape
<1>1. ASSUME UNCHANGED <<requests, server>>, \A g : Holds(g)' <=> Holds(g),
             \A x \in Opens : pc[x] = "sending" => pc'[x] = "sending",
             \A x \in Opens : pc'[x] = "closed" => pc[x] = "closed"
      PROVE  LastAsked'
  <2>1. \A f, k : EndsUp(f, k)' <=> EndsUp(f, k)
    BY <1>1 DEF EndsUp, About
  <2>2. \A f : (Opening(f) => Opening(f)') /\ (LetGo(f)' => LetGo(f))
    BY <1>1 DEF Opening, LetGo
  <2>3. \A f : EndsUp(f, "subscribe")' <=> EndsUp(f, "subscribe")
    BY <2>1
  <2>4. \A f : EndsUp(f, "unsubscribe")' <=> EndsUp(f, "unsubscribe")
    BY <2>1
  <2> QED BY <1>1, <2>2, <2>3, <2>4 DEF LastAsked
<1>2. ASSUME NEW o \in Opens, Alive(o) PROVE Holds(FilterOf[o])
  BY <1>0, <1>2, HeldSits DEF Placed
<1>3. ASSUME NEW o \in Opens, OpenJoin(o) PROVE LastAsked' /\ UNCHANGED server
  <2>1. UNCHANGED <<requests, server>> /\ pc[o] = "idle"
    BY <1>3 DEF OpenJoin, serverVars
  <2>2. CASE Refused(FilterOf[o], offered)
    <3>1. UNCHANGED registryVars /\ pc' = [pc EXCEPT ![o] = "failed"]
      BY <1>3, <2>2 DEF OpenJoin
    <3>2. /\ \A x \in Opens : pc[x] = "sending" => pc'[x] = "sending"
          /\ \A x \in Opens : pc'[x] = "closed" => pc[x] = "closed"
      BY <2>1, <3>1 DEF TypeOK
    <3>3. \A g : Holds(g)' <=> Holds(g)
      BY <3>1 DEF registryVars, Holds
    <3> QED BY <1>1, <2>1, <3>2, <3>3
  <2>3. CASE ~Refused(FilterOf[o], offered)
    <3>1. Join(FilterOf[o], QosOf[o], offered) /\ pc' = [pc EXCEPT ![o] = "sending"]
      BY <1>3, <2>3 DEF OpenJoin
    <3>2. FilterOf[o] \in Filters /\ QosOf[o] \in Qos /\ offered \in BOOLEAN
      BY ConnectionAssumption DEF TypeOK
    <3>3. \A g : Holds(g)' <=> Holds(g) \/ g = FilterOf[o]
      BY <1>0, <3>1, <3>2, HoldsJoined
    <3>4. /\ pc'[o] = "sending"
          /\ \A x \in Opens : pc[x] = "sending" => pc'[x] = "sending"
          /\ \A x \in Opens : pc'[x] = "closed" => pc[x] = "closed"
      BY <2>1, <3>1 DEF TypeOK
    <3>5. \A f : (Opening(f) => Opening(f)') /\ (LetGo(f)' => LetGo(f))
      BY <3>4 DEF Opening, LetGo
    <3>6. Opening(FilterOf[o])'
      BY <3>4 DEF Opening
    <3>7. \A f : EndsUp(f, "subscribe")' <=> EndsUp(f, "subscribe")
      BY <2>1 DEF EndsUp, About
    <3>8. \A f : EndsUp(f, "unsubscribe")' <=> EndsUp(f, "unsubscribe")
      BY <2>1 DEF EndsUp, About
    <3> QED BY <2>1, <3>3, <3>5, <3>6, <3>7, <3>8 DEF LastAsked
  <2> QED BY <2>2, <2>3
<1>4. ASSUME NEW o \in Opens, OpenSend(o) PROVE LastAsked' /\ UNCHANGED server
  <2> DEFINE request == Head(todo[o])
             e == [kind |-> "subscribe", request |-> request, open |-> o]
  <2>1. /\ pc[o] = "sending" /\ UNCHANGED server /\ UNCHANGED registryVars
        /\ \/ Moot(request) /\ UNCHANGED <<requests, pc>>
           \/ /\ ~Moot(request)
              /\ requests' = Append(requests, e)
              /\ pc' = IF request.refresh THEN pc ELSE [pc EXCEPT ![o] = "waiting"]
    BY <1>4 DEF OpenSend, serverVars
  <2>2. ~request.refresh => request.filter = FilterOf[o]
    <3>1. /\ Vector(todo[o]) /\ todo[o] # <<>>
          /\ todo[o][Len(todo[o])].filter = FilterOf[o]
          /\ \A i \in DOMAIN todo[o] : todo[o][i].refresh <=> i < Len(todo[o])
      BY <2>1 DEF Sendable
    <3>2. request = todo[o][1] /\ 1 \in DOMAIN todo[o] /\ Len(todo[o]) \in Nat \ {0}
      BY <3>1, VectorTail
    <3>3. \A n \in Nat \ {0} : ~(1 < n) => n = 1
      OBVIOUS
    <3> QED BY <3>1, <3>2, <3>3
  <2>3. e.kind = "subscribe" /\ e.request = request
    OBVIOUS
  <2> HIDE DEF request, e
  <2>4. \A g : Holds(g)' <=> Holds(g)
    BY <2>1 DEF registryVars, Holds
  <2>5. CASE Moot(request) /\ UNCHANGED <<requests, pc>>
    BY <1>1, <2>1, <2>4, <2>5
  <2>6. CASE /\ ~Moot(request) /\ requests' = Append(requests, e)
             /\ pc' = IF request.refresh THEN pc ELSE [pc EXCEPT ![o] = "waiting"]
    <3>1. PICK h : h = request.filter
      OBVIOUS
    <3>2. \A f : About(e, f) <=> f = h
      BY <2>3, <3>1 DEF About
    <3>3. EndsUp(h, "subscribe")'
      BY <1>0, <2>3, <2>6, <3>2, EndsUpNew
    <3>4. Holds(h)
      <4>1. Alive(o)
        BY <2>1 DEF Alive
      <4> QED BY <1>2, <2>2, <2>6, <3>1, <4>1 DEF Moot
    <3>5. /\ \A x \in Opens : pc[x] = "sending" => pc'[x] = "sending" \/ FilterOf[x] = h
          /\ \A x \in Opens : pc'[x] = "closed" => pc[x] = "closed"
      BY <2>2, <2>6, <3>1 DEF TypeOK
    <3>6. ASSUME NEW f \in Filters, f # h
          PROVE  /\ Holds(f)' => EndsUp(f, "subscribe")' \/ Opening(f)'
                 /\ ~Holds(f)' /\ LetGo(f)' => EndsUp(f, "unsubscribe")'
      <4>1. ~About(e, f) /\ server'[f] = server[f]
        BY <2>1, <3>2, <3>6
      <4>2. EndsUp(f, "subscribe") => EndsUp(f, "subscribe")'
        BY <1>0, <2>6, <4>1, EndsUpKept
      <4>3. EndsUp(f, "unsubscribe") => EndsUp(f, "unsubscribe")'
        BY <1>0, <2>6, <4>1, EndsUpKept
      <4>4. (Opening(f) => Opening(f)') /\ (LetGo(f)' => LetGo(f))
        BY <3>5, <3>6 DEF Opening, LetGo
      <4> QED BY <2>4, <4>2, <4>3, <4>4 DEF LastAsked
    <3>7. Holds(h)'
      BY <2>4, <3>4
    <3> QED BY <2>1, <3>3, <3>6, <3>7 DEF LastAsked
  <2> QED BY <2>1, <2>5, <2>6
<1>5. ASSUME NEW o \in Opens, OpenCancel(o) PROVE LastAsked' /\ UNCHANGED server
  <2>1. pc[o] = "waiting" /\ pc' = [pc EXCEPT ![o] = "cancelled"]
        /\ UNCHANGED <<registryVars, requests, server>>
    <3>1. ~(Len(requests) >= Capacity)
      BY <1>0, VectorPlaces, ConnectionAssumption
    <3> QED BY <1>5, <3>1 DEF OpenCancel, serverVars
  <2>2. /\ \A x \in Opens : pc[x] = "sending" => pc'[x] = "sending"
        /\ \A x \in Opens : pc'[x] = "closed" => pc[x] = "closed"
    BY <2>1 DEF TypeOK
  <2>3. \A g : Holds(g)' <=> Holds(g)
    BY <2>1 DEF registryVars, Holds
  <2> QED BY <1>1, <2>1, <2>2, <2>3
<1>6. ASSUME NEW o \in Opens, Drop(o) PROVE LastAsked' /\ UNCHANGED server
  <2>1. /\ pc[o] = "open" /\ pc' = [pc EXCEPT ![o] = "closed"] /\ UNCHANGED server
        /\ IF o \in Keeps THEN Leave(member[o]) /\ UNCHANGED requests ELSE Release(member[o])
    BY <1>6 DEF Drop, serverVars
  <2>2. /\ \A x \in Opens : pc[x] = "sending" => pc'[x] = "sending"
        /\ \A x \in Opens : pc'[x] = "closed" => pc[x] = "closed" \/ x = o
    BY <2>1 DEF TypeOK
  <2>3. Alive(o)
    BY <2>1 DEF Alive
  <2>4. CASE o \notin Keeps
    <3>1. \A x \in Opens : pc'[x] = "closed" => pc[x] = "closed" \/ Holds(FilterOf[x])
      BY <1>2, <2>2, <2>3
    <3>2. PICK m : m = member[o]
      OBVIOUS
    <3>3. Release(m)
      BY <2>1, <2>4, <3>2
    <3> QED BY <1>0, <2>1, <2>2, <3>1, <3>3, LastAskedReleased
  <2>5. CASE o \in Keeps
    <3>1. PICK m : m = member[o]
      OBVIOUS
    <3>2. Leave(m) /\ UNCHANGED <<requests, server>> /\ SitsOn(m, FilterOf[o], QosOf[o])
      BY <2>1, <2>3, <2>5, <3>1 DEF Placed
    <3>3. /\ \A g : Holds(g)' => Holds(g)
          /\ \A g : Holds(g) /\ ~Holds(g)' => g = FilterOf[o]
      <4>1. /\ \A g : Holds(g)' => Holds(g)
            /\ \A g : Holds(g) /\ ~Holds(g)' <=> g \in TakenOff(m)
            /\ TakenOff(m) \subseteq {FilterOf[o]}
        BY <1>0, <3>2, HoldsLeft
      <4> QED BY <4>1
    <3>4. \A f : EndsUp(f, "subscribe")' <=> EndsUp(f, "subscribe")
      BY <3>2 DEF EndsUp, About
    <3>5. \A f : EndsUp(f, "unsubscribe")' <=> EndsUp(f, "unsubscribe")
      BY <3>2 DEF EndsUp, About
    <3>6. \A f : (Opening(f) => Opening(f)') /\ (LetGo(f)' => LetGo(f) /\ f # FilterOf[o])
      BY <2>2, <2>5 DEF Opening, LetGo
    <3> QED BY <2>1, <3>3, <3>4, <3>5, <3>6 DEF LastAsked
  <2> QED BY <2>4, <2>5
<1>7. CASE Reap
  <2>1. PICK m : m = Head(reaping)
    OBVIOUS
  <2>2. Release(m) /\ UNCHANGED <<pc, server>>
    BY <1>7, <2>1 DEF Reap, openVars, serverVars
  <2> QED BY <1>0, <2>2, LastAskedReleased
<1>8. CASE ServerTake
  <2> DEFINE packet == Head(requests)
  <2>1. /\ requests # <<>> /\ requests' = Tail(requests) /\ UNCHANGED registryVars /\ UNCHANGED pc
        /\ \/ packet.kind = "unsubscribe" /\ server' = [server EXCEPT ![packet.filter] = NotHeld]
           \/ /\ packet.kind # "unsubscribe"
              /\ \E r : /\ r.qos = packet.request.qos
                        /\ server' = [server EXCEPT ![packet.request.filter] = r]
    <3>1. CASE packet.kind = "unsubscribe"
      BY <1>8, <3>1 DEF ServerTake, openVars
    <3>2. CASE packet.kind # "unsubscribe"
      <4> DEFINE r == [qos |-> packet.request.qos, identifier |-> packet.request.identifier,
                       since |-> IF server[packet.request.filter] = NotHeld THEN published
                                 ELSE server[packet.request.filter].since]
      <4>1. server' = [server EXCEPT ![packet.request.filter] = r]
        BY <1>8, <3>2 DEF ServerTake
      <4>2. r.qos = packet.request.qos
        OBVIOUS
      <4> HIDE DEF r
      <4> QED BY <1>8, <3>2, <4>1, <4>2 DEF ServerTake, openVars
    <3> QED BY <3>1, <3>2
  <2>2. packet = requests[1] /\ 1 \in DOMAIN requests
    BY <1>0, <2>1, VectorTail
  <2> HIDE DEF packet
  <2>3. server' = [f \in Filters |-> server'[f]]
    BY <2>1
  <2>4. ASSUME NEW f \in Filters
        PROVE  /\ About(requests[1], f) => (server'[f] = NotHeld <=> requests[1].kind = "unsubscribe")
               /\ ~About(requests[1], f) => server'[f] = server[f]
    <3>1. CASE packet.kind = "unsubscribe" /\ server' = [server EXCEPT ![packet.filter] = NotHeld]
      BY <2>2, <3>1 DEF About
    <3>2. ASSUME NEW r, packet.kind # "unsubscribe", r.qos = packet.request.qos,
                 server' = [server EXCEPT ![packet.request.filter] = r]
          PROVE  /\ About(requests[1], f) => (server'[f] = NotHeld <=> requests[1].kind = "unsubscribe")
                 /\ ~About(requests[1], f) => server'[f] = server[f]
      <4>1. r # NotHeld
        <5>1. r.qos \in Qos
          BY <2>2, <3>2 DEF Sendable
        <5>2. NotHeld.qos \notin Qos
          BY DEF NotHeld, Qos
        <5> QED BY <5>1, <5>2
      <4> QED BY <2>2, <3>2, <4>1 DEF About
    <3> QED BY <2>1, <3>1, <3>2
  <2>5. ASSUME NEW f \in Filters
        PROVE  /\ EndsUp(f, "subscribe") => EndsUp(f, "subscribe")'
               /\ EndsUp(f, "unsubscribe") => EndsUp(f, "unsubscribe")'
    BY <1>0, <2>1, <2>4, EndsUpTaken
  <2>6. \A f : (Opening(f) => Opening(f)') /\ (LetGo(f)' => LetGo(f)) /\ (Holds(f)' <=> Holds(f))
    BY <2>1 DEF Opening, LetGo, registryVars, Holds
  <2> QED BY <2>3, <2>5, <2>6 DEF LastAsked
<1>9. CASE ReceiveSuback \/ ReceivePublish \/ (\E t \in Topics : ServerPublish(t)) \/ UNCHANGED vars
  <2>1. UNCHANGED <<requests, server>>
    BY <1>9 DEF ReceiveSuback, ReceivePublish, ServerPublish, vars, serverVars
  <2>2. \A g : Holds(g)' <=> Holds(g)
    <3>1. \/ UNCHANGED registryVars
          \/ \E t, ids : Route(t, ids)
          \/ \E f, accepted : Identified(f, accepted)
      <4>1. CASE ReceiveSuback
        <5>1. incoming # <<>> /\ Head(incoming).kind = "suback"
          BY <4>1 DEF ReceiveSuback
        <5>2. Head(incoming) = incoming[1] /\ 1 \in DOMAIN incoming
          BY <5>1, IncomingVector, VectorTail DEF CInv
        <5>3. Head(incoming).accepted
          BY <5>1, <5>2 DEF Granted
        <5> QED BY <4>1, <5>3 DEF ReceiveSuback
      <4> QED BY <1>9, <4>1 DEF ReceivePublish, ServerPublish, vars
    <3> QED BY <1>0, <3>1, HoldsSame
  <2>3. \A x \in Opens : pc'[x] = "closed" => pc[x] = "closed"
    <3>1. \A x \in Opens : ~Drop(x)
      <4>1. ASSUME NEW x \in Opens, Drop(x) PROVE FALSE
        <5>1. pc[x] = "open" /\ pc'[x] = "closed" /\ UNCHANGED incoming
          BY <4>1 DEF Drop, TypeOK
        <5>2. ~(UNCHANGED pc)
          BY <5>1
        <5>3. ReceiveSuback
          BY <1>9, <5>2 DEF ReceivePublish, ServerPublish, vars, openVars
        <5>4. incoming # <<>> /\ incoming' = Tail(incoming)
          BY <5>3 DEF ReceiveSuback
        <5>5. Len(Tail(incoming)) = Len(incoming) - 1 /\ Len(incoming) \in Nat
          BY <5>4, IncomingVector, VectorTail DEF CInv
        <5> QED BY <5>1, <5>4, <5>5
      <4> QED BY <4>1
    <3> QED BY <3>1, SendingClosed
  <2>4. \A x \in Opens : pc[x] = "sending" => pc'[x] = "sending"
    <3>1. CASE UNCHANGED pc
      BY <3>1
    <3>2. CASE ReceiveSuback /\ ~UNCHANGED pc
      <4>1. incoming # <<>> /\ Head(incoming).kind = "suback"
        BY <3>2 DEF ReceiveSuback
      <4>2. Head(incoming) = incoming[1] /\ 1 \in DOMAIN incoming
        BY <4>1, IncomingVector, VectorTail DEF CInv
      <4>3. PICK a : a = incoming[1]
        OBVIOUS
      <4>4. ~a.request.refresh
        BY <3>2, <4>2, <4>3 DEF ReceiveSuback
      <4>5. Answered(1)
        BY <4>1, <4>2, <4>3, <4>4 DEF Answered
      <4>6. PICK o \in Opens : o = a.open /\ pc[o] \in Pending
        BY <4>2, <4>3, <4>5 DEF Answering
      <4>7. pc' = [pc EXCEPT ![o] = Outcome(pc[o], a.accepted)]
        BY <3>2, <4>2, <4>3, <4>4, <4>6 DEF ReceiveSuback
      <4> QED BY <4>6, <4>7 DEF TypeOK, Pending
    <3> QED BY <1>9, <3>1, <3>2 DEF ReceivePublish, ServerPublish, vars, openVars
  <2> QED BY <1>1, <2>1, <2>2, <2>3, <2>4
<1> QED BY <1>3, <1>4, <1>5, <1>6, <1>7, <1>8, <1>9 DEF Next, Reap, serverVars

\* What was asked of the server for each filter, and what its order rests on.
HeldInv ==
  /\ SeatedInv /\ LastAsked /\ Sendable /\ Granted
  /\ server = [f \in Filters |-> server[f]]

LEMMA HeldInit == Init => HeldInv
<1> SUFFICES ASSUME Init PROVE HeldInv
  OBVIOUS
<1>1. SeatedInv
  BY SeatedInit
<1>2. /\ pc = [o \in Opens |-> "idle"] /\ todo = [o \in Opens |-> <<>>]
      /\ wires = <<>> /\ requests = <<>> /\ incoming = <<>> /\ DOMAIN <<>> = {}
      /\ server \in Resumable
  BY DEF Init, RegistryInit
<1>3. LastAsked
  BY <1>2 DEF LastAsked, Holds, LetGo
<1>4. Sendable /\ Granted
  BY <1>2 DEF Sendable, Granted
<1>5. server = [f \in Filters |-> server[f]]
  BY <1>2, ConnectionAssumption
<1> QED BY <1>1, <1>3, <1>4, <1>5 DEF HeldInv

\* Every step keeps it that finds room in the queue.
LEMMA HeldStep ==
  ASSUME IsFiniteSet(Filters), Accepts = {TRUE}, Answers = {TRUE}
  PROVE  HeldInv /\ Len(requests) < Capacity /\ [Next]_vars => HeldInv'
<1> SUFFICES ASSUME HeldInv, Len(requests) < Capacity, [Next]_vars PROVE HeldInv'
  OBVIOUS
<1> USE DEF HeldInv
<1>1. SeatedInv'
  BY SeatedStep
<1>2. Structure'
  BY <1>1 DEF SeatedInv, CInv
<1>3. LastAsked' /\ server' = [f \in Filters |-> server'[f]]
  BY <1>2, LastAskedStep
<1>4. Sendable'
  BY <1>2, SendableStep DEF SeatedInv
<1>5. Granted'
  BY GrantedStep DEF SeatedInv
<1> QED BY <1>1, <1>3, <1>4, <1>5

\* A filter is on the server exactly while a local subscription is on it, whatever opens,
\* cancellations, drops and refreshes cross each other: on a server that grants what it is
\* asked, as long as the request queue has room.  (A full queue drops an unsubscribe.)
THEOREM HeldWhileNeeded ==
  ASSUME IsFiniteSet(Filters), Accepts = {TRUE}, Answers = {TRUE}
  PROVE  Spec /\ [](Len(requests) < Capacity) => []ServerHoldsWires
<1>1. Init => HeldInv
  BY HeldInit
<1>2. HeldInv /\ Len(requests) < Capacity /\ [Next]_vars => HeldInv'
  BY HeldStep
<1>3. HeldInv => ServerHoldsWires
  <2> SUFFICES ASSUME HeldInv, Quiet, NEW f \in Filters
               PROVE  /\ Holds(f) => server[f] # NotHeld
                      /\ ~Holds(f) /\ LetGo(f) => server[f] = NotHeld
    BY DEF ServerHoldsWires, LetGo
  <2>1. DOMAIN requests = {} /\ ~Opening(f)
    BY DEF Quiet, Opening
  <2>2. /\ EndsUp(f, "subscribe") => server[f] # NotHeld
        /\ EndsUp(f, "unsubscribe") => server[f] = NotHeld
    BY <2>1 DEF EndsUp
  <2> QED BY <2>1, <2>2 DEF HeldInv, LastAsked
<1> QED BY <1>1, <1>2, <1>3, PTL DEF Spec

-----------------------------------------------------------------------------
(* What the server was asked for, against what the streams need, as opens   *)
(* queue their requests in whatever turns: each stream needs a quality of   *)
(* service and its filter's identifier, and either the server has them, or  *)
(* the request of its own open asks for them and none after it for less.    *)
(* That holds of a filter until a request about it overtakes an earlier     *)
(* join's.                                                                  *)

\* The j-th request subscribes as r says, or unsubscribes from f.
Sub(j, r)   == j \in DOMAIN requests /\ requests[j].kind # "unsubscribe" /\ requests[j].request = r
Unsub(j, f) == j \in DOMAIN requests /\ requests[j].kind = "unsubscribe" /\ requests[j].filter = f

\* The i-th packet on the wire answers the request r.
Reply(i, r) == i \in DOMAIN incoming /\ incoming[i].kind = "suback" /\ incoming[i].request = r

\* The open o has the request r to queue.
Due(r, o) == pc[o] = "sending" /\ \E i \in DOMAIN todo[o] : todo[o][i] = r

\* Nothing about f went out of turn, on a server that grants every refresh.
Firm(f)   == Answers = {TRUE} /\ f \notin overtaken \cup reopened
Steady(f) == Firm(f) /\ Holds(f)

\* What o needs of the server's subscription to its filter.
Suits(s, o) ==
  /\ FilterOf[o] \notin overtaken => s.qos >= QosOf[o]
  /\ Firm(FilterOf[o]) => Fits(FilterOf[o], s.identifier)

\* The requests about o's filter suit it, from the k-th on.
SuitedFrom(o, k) ==
  /\ \A j : j >= k => ~Unsub(j, FilterOf[o])
  /\ \A j, r : j >= k /\ Sub(j, r) /\ r.filter = FilterOf[o] => Suits(r, o)

\* The open's subscribe was refused, or is granted and nothing less asked for since, or is
\* on its way and nothing less behind it.
Refuse(o)  == \E i \in DOMAIN incoming : Answered(i) /\ incoming[i].open = o /\ ~incoming[i].accepted
Served(o)  == (\A s : s = server[FilterOf[o]] => Suits(s, o)) /\ SuitedFrom(o, 1)
Queuing(o) == \E i \in DOMAIN requests :
                /\ Asks(i) /\ requests[i].open = o /\ requests[i].request.filter = FilterOf[o]
                /\ SuitedFrom(o, i)

Upheld == \A o \in Opens : Alive(o) /\ pc[o] # "sending" => Refuse(o) \/ Served(o) \/ Queuing(o)

\* f's identifier id is there to stay, as far as the opens know that joined as m or later.
Attaching(f, id, m) ==
  /\ id # NoIdentifier /\ Named(f, id)
  /\ \A p \in Opens : \A r : Due(r, p) /\ member[p] >= m /\ r.filter = f => r.identifier = id

\* Whatever the server is asked about f from the k-th request on names id.
Carries(f, id, k) ==
  /\ \A j : j >= k => ~Unsub(j, f)
  /\ \A j, r : j >= k /\ Sub(j, r) /\ r.filter = f => r.identifier = id

\* A request to be queued asks for what the streams that joined before it need, and where
\* later ones have been faster the filter is overtaken.
DueFits ==
  \A o \in Opens : \A r : Due(r, o) =>
    /\ \A p \in Opens : Alive(p) /\ FilterOf[p] = r.filter =>
         /\ member[p] <= member[o] => r.qos >= QosOf[p]
         /\ member[p] > member[o] /\ pc[p] # "sending" => r.filter \in overtaken
    /\ Firm(r.filter) => Fits(r.filter, r.identifier)
    /\ r.refresh /\ Steady(r.filter) => Attaching(r.filter, r.identifier, member[o])

\* A refresh under way names the identifier that stays, and so does what follows it.
RefreshFits ==
  /\ \A i, r : Sub(i, r) /\ r.refresh /\ Steady(r.filter) =>
       Attaching(r.filter, r.identifier, NoMember) /\ Carries(r.filter, r.identifier, i)
  /\ \A i, r : Reply(i, r) /\ r.refresh /\ Steady(r.filter) =>
       /\ Attaching(r.filter, r.identifier, NoMember) /\ Carries(r.filter, r.identifier, 1)
       /\ server[r.filter].identifier = r.identifier

Kinds == \A i \in DOMAIN requests : requests[i].kind \in {"subscribe", "unsubscribe"}

Asked == Kinds /\ DueFits /\ RefreshFits /\ Upheld

\* While the table, the queue and the opens only lose what they had, what the streams need
\* is asked for as before; an unsubscribe is for a filter nobody is on.
LEMMA AskedCalm ==
  ASSUME Asked, Vector(requests), Telling, UNCHANGED <<todo, member, server, history>>,
         \A o \in Opens : Alive(o)' => Alive(o) /\ (Refuse(o) => Refuse(o)') /\ Holds(FilterOf[o])',
         \A o \in Opens : pc'[o] = "sending" => pc[o] = "sending",
         \A o \in Opens : Alive(o)' /\ pc'[o] # "sending" => pc[o] # "sending",
         \A i, r : Reply(i, r)' => \E k : Reply(k, r),
         \/ requests' = requests
         \/ \E u : /\ requests' = Append(requests, u) /\ u.kind = "unsubscribe"
                   /\ ~Holds(u.filter)'
  PROVE  Asked'
<1>1. \A f : (Firm(f)' <=> Firm(f)) /\ (Steady(f)' => Steady(f))
  BY DEF Firm, Steady, history, Telling, Holds
<1>2. \A f, id : (Named(f, id) => Named(f, id)') /\ (Fits(f, id) => Fits(f, id)')
  BY FitsTold
<1>3. /\ \A j, r : Sub(j, r)' => Sub(j, r)
      /\ \A j, f : Unsub(j, f)' => Unsub(j, f) \/ ~Holds(f)'
      /\ \A j \in DOMAIN requests : j \in DOMAIN requests' /\ requests'[j] = requests[j]
      /\ Kinds'
  <2>1. CASE requests' = requests
    BY <2>1 DEF Sub, Unsub, Asked, Kinds
  <2>2. ASSUME NEW u, requests' = Append(requests, u), u.kind = "unsubscribe", ~Holds(u.filter)'
        PROVE  /\ \A j, r : Sub(j, r)' => Sub(j, r)
               /\ \A j, f : Unsub(j, f)' => Unsub(j, f) \/ ~Holds(f)'
               /\ \A j \in DOMAIN requests : j \in DOMAIN requests' /\ requests'[j] = requests[j]
               /\ Kinds'
    <3>1. /\ \A j \in DOMAIN requests : j \in DOMAIN requests' /\ requests'[j] = requests[j]
          /\ \A j \in DOMAIN requests' : j \in DOMAIN requests \/ j = Len(requests) + 1
          /\ requests'[Len(requests) + 1] = u
      BY <2>2, QueueLonger
    <3>2. \A f : f = u.filter => ~Holds(f)'
      BY <2>2
    <3> QED BY <2>2, <3>1, <3>2 DEF Sub, Unsub, Asked, Kinds
  <2> QED BY <2>1, <2>2
<1>4. \A r : \A o \in Opens : Due(r, o)' => Due(r, o)
  BY DEF Due
<1>5. \A f, id, m : Attaching(f, id, m) => Attaching(f, id, m)'
  BY <1>2, <1>4 DEF Attaching
<1>6. \A f, id, k : Steady(f)' /\ Carries(f, id, k) => Carries(f, id, k)'
  BY <1>3 DEF Carries, Steady
<1>7. DueFits'
  BY <1>1, <1>2, <1>4, <1>5 DEF Asked, DueFits, history
<1>8. RefreshFits'
  BY <1>1, <1>3, <1>5, <1>6 DEF Asked, RefreshFits
<1>9. ASSUME NEW o \in Opens, Alive(o)', pc'[o] # "sending" PROVE Refuse(o)' \/ Served(o)' \/ Queuing(o)'
  <2>1. Refuse(o) \/ Served(o) \/ Queuing(o)
    BY <1>9 DEF Asked, Upheld
  <2>2. \A s : Suits(s, o) => Suits(s, o)'
    BY <1>1, <1>2 DEF Suits, history
  <2>3. \A k : SuitedFrom(o, k) => SuitedFrom(o, k)'
    BY <1>3, <1>9, <2>2 DEF SuitedFrom
  <2>4. Served(o) => Served(o)'
    BY <2>2, <2>3 DEF Served
  <2>5. Queuing(o) => Queuing(o)'
    BY <1>3, <2>3 DEF Queuing, Asks
  <2> QED BY <1>9, <2>1, <2>4, <2>5
<1> QED BY <1>3, <1>7, <1>8, <1>9 DEF Asked, Upheld

\* The answer to a refresh of a filter finds the server and all that is asked of it naming
\* the filter's identifier.
LEMMA AskedIdentified ==
  ASSUME Asked, Vector(requests), RegistryTypeOK, \A o \in Opens : member[o] >= NoMember,
         NEW r, Reply(1, r), r.refresh, NEW accepted,
         Answers = {TRUE} => accepted = TRUE,
         Identified(r.filter, accepted),
         UNCHANGED <<pc, todo, member, server, requests, history>>,
         \A o \in Opens : Alive(o) => Holds(FilterOf[o]) /\ (Refuse(o) => Refuse(o)'),
         \A i, q : Reply(i, q)' => \E k : Reply(k, q)
  PROVE  Asked'
<1>1. \A f : (Firm(f)' <=> Firm(f)) /\ (Holds(f)' => Holds(f)) /\ (Steady(f)' => Steady(f))
  BY IdentifiedTells DEF Firm, Steady, history
<1>2. \A f, id : Firm(f) /\ Named(f, id) => Named(f, id)'
  BY IdentifiedTells DEF Firm
<1>3. /\ \A j, q : Sub(j, q)' <=> Sub(j, q)
      /\ \A j, f : Unsub(j, f)' <=> Unsub(j, f)
      /\ \A q : \A o \in Opens : Due(q, o)' <=> Due(q, o)
      /\ \A o \in Opens : Alive(o)' <=> Alive(o)
  BY DEF Sub, Unsub, Due, Alive
<1>4. Steady(r.filter) =>
        /\ Attaching(r.filter, r.identifier, NoMember) /\ Carries(r.filter, r.identifier, 1)
        /\ server[r.filter].identifier = r.identifier
  BY DEF Asked, RefreshFits
\* What names that identifier, fits.
<1>5. \A f, id : Firm(f) /\ Fits(f, id) /\ (f = r.filter /\ Holds(f) => id = r.identifier) => Fits(f, id)'
  <2>1. \A f, id : f # r.filter => (Fits(f, id) => Fits(f, id)')
    BY IdentifiedTells
  <2>2. \A f, id : Named(f, id)' => Fits(f, id)'
    BY DEF Named, Fits
  <2>3. Steady(r.filter) => Named(r.filter, r.identifier)'
    BY <1>2, <1>4 DEF Steady, Attaching
  <2>4. \A f, id : ~Holds(f)' => Fits(f, id)'
    BY DEF Fits, Holds
  <2> QED BY <1>1, <2>1, <2>2, <2>3, <2>4 DEF Steady
<1>6. \A f, id, m : Firm(f) /\ Attaching(f, id, m) => Attaching(f, id, m)'
  BY <1>2, <1>3 DEF Attaching
<1>7. \A f, id, k : Carries(f, id, k) => Carries(f, id, k)'
  BY <1>3 DEF Carries
<1>8. DueFits'
  <2> SUFFICES ASSUME NEW o \in Opens, NEW q, Due(q, o)
               PROVE  /\ \A p \in Opens : Alive(p) /\ FilterOf[p] = q.filter =>
                           /\ member[p] <= member[o] => q.qos >= QosOf[p]
                           /\ member[p] > member[o] /\ pc[p] # "sending" => q.filter \in overtaken
                      /\ Firm(q.filter) => Fits(q.filter, q.identifier)'
                      /\ q.refresh /\ Steady(q.filter)' => Attaching(q.filter, q.identifier, member[o])'
    BY <1>1, <1>3 DEF DueFits, history
  <2>1. q.filter = r.filter /\ Steady(r.filter) => q.identifier = r.identifier
    BY <1>4 DEF Attaching
  <2> QED BY <1>1, <1>5, <1>6, <2>1 DEF Asked, DueFits, Steady
<1>9. RefreshFits'
  BY <1>1, <1>3, <1>6, <1>7 DEF Asked, RefreshFits, Steady
<1>10. ASSUME NEW o \in Opens, Alive(o), pc[o] # "sending" PROVE Refuse(o)' \/ Served(o)' \/ Queuing(o)'
  <2>1. Refuse(o) \/ Served(o) \/ Queuing(o)
    BY <1>10 DEF Asked, Upheld
  <2>2. ASSUME NEW s, Suits(s, o), FilterOf[o] = r.filter /\ Steady(r.filter) => s.identifier = r.identifier
        PROVE  Suits(s, o)'
    BY <1>1, <1>5, <2>2 DEF Suits, history, Steady
  <2>3. ASSUME NEW k \in Nat, k >= 1, SuitedFrom(o, k) PROVE SuitedFrom(o, k)'
    <3>1. ASSUME NEW j, NEW q, j >= k, Sub(j, q), q.filter = FilterOf[o] PROVE Suits(q, o)'
      <4>1. j \in Nat
        BY <3>1, VectorPlaces DEF Sub
      <4>2. j >= 1 /\ Suits(q, o)
        BY <2>3, <3>1, <4>1 DEF SuitedFrom
      <4>3. FilterOf[o] = r.filter /\ Steady(r.filter) => q.identifier = r.identifier
        BY <1>4, <3>1, <4>2 DEF Carries
      <4> QED BY <2>2, <4>2, <4>3
    <3>2. \A j : j >= k => ~Unsub(j, FilterOf[o])'
      BY <1>3, <2>3 DEF SuitedFrom
    <3> QED BY <1>3, <3>1, <3>2 DEF SuitedFrom
  <2>4. Served(o) => Served(o)'
    <3>1. \A s : s = server[FilterOf[o]] /\ FilterOf[o] = r.filter /\ Steady(r.filter) => s.identifier = r.identifier
      BY <1>4
    <3> QED BY <2>2, <2>3, <3>1 DEF Served
  <2>5. Queuing(o) => Queuing(o)'
    <3>1. \A i \in DOMAIN requests : i \in Nat /\ i >= 1
      BY VectorPlaces
    <3> QED BY <2>3, <3>1 DEF Queuing, Asks
  <2> QED BY <1>10, <2>1, <2>4, <2>5
<1>11. Kinds'
  BY DEF Asked, Kinds
<1> QED BY <1>3, <1>8, <1>9, <1>10, <1>11 DEF Asked, Upheld

\* An open that joins asks for whatever its join changed, its own filter included, and finds
\* no refresh of that filter unanswered unless it is held.
LEMMA AskedJoined ==
  ASSUME SeatedInv, Structure', Placed', Sendable, Asked, Answers = {TRUE} => Lettered(offered),
         NEW o \in Opens, OpenJoin(o), ~Refused(FilterOf[o], offered)
  PROVE  Asked'
<1>1. /\ Structure /\ FilterOf[o] \in Filters /\ QosOf[o] \in Qos /\ offered \in BOOLEAN
      /\ TypeOK /\ Numbered /\ Placed /\ Vector(requests)
  BY ConnectionAssumption DEF SeatedInv, CInv, TypeOK, Shape
<1>2. PICK f : f = FilterOf[o]
  OBVIOUS
<1>3. PICK asked : asked = JoinRequests(wires, wires', f, offered)
  OBVIOUS
<1>4. /\ Join(f, QosOf[o], offered)
      /\ pc' = [pc EXCEPT ![o] = "sending"] /\ member' = [member EXCEPT ![o] = nextMember]
      /\ todo' = [todo EXCEPT ![o] = asked]
      /\ reopened' = IF ~Holds(f) /\ Unanswered(f) THEN reopened \cup {f} ELSE reopened
      /\ UNCHANGED <<requests, server, incoming, overtaken>>
  BY <1>2, <1>3 DEF OpenJoin, serverVars
<1>5. AsksFor(asked, f, offered)
  BY <1>1, <1>2, <1>3, <1>4, JoinAsks
<1>6. /\ pc'[o] = "sending" /\ member'[o] = nextMember /\ todo'[o] = asked
      /\ \A p \in Opens \ {o} : /\ pc'[p] = pc[p] /\ member'[p] = member[p] /\ todo'[p] = todo[p]
                                /\ Alive(p)' <=> Alive(p)
  <2>1. todo = [p \in Opens |-> todo[p]]
    BY DEF Sendable
  <2> QED BY <1>1, <1>4, <2>1 DEF TypeOK, Alive
<1>7. nextMember \in Nat /\ \A p \in Opens : member[p] \in Int /\ member[p] < nextMember
  BY <1>1 DEF Numbered, TypeOK, RegistryTypeOK, NoMember
<1>8. /\ \A g : Firm(g)' => Firm(g)
      /\ \A g : Firm(g)' /\ ~Holds(g) /\ g = f => ~Unanswered(g)
  BY <1>4 DEF Firm
<1>9. \A g : Holds(g)' => Holds(g) \/ g = f
  <2>1. \A n \in DOMAIN wires' :
          \/ wires'[n].filter = f
          \/ n \in DOMAIN wires /\ wires'[n].filter = wires[n].filter
    BY <1>1, <1>2, <1>4, JoinTells
  <2> QED BY <2>1 DEF Holds
<1>10. /\ Answers = {TRUE} /\ ~offered => \A n \in DOMAIN wires' : wires'[n].identifier = NoIdentifier
       /\ \A g, id : Firm(g)' /\ Holds(g) /\ Fits(g, id) => Fits(g, id)'
       /\ \A g, id : Firm(g)' /\ Holds(g) /\ Named(g, id) /\ id # NoIdentifier => Named(g, id)'
  <2>1. CASE Answers = {TRUE}
    BY <1>1, <1>2, <1>4, <2>1, JoinLetters
  <2>2. CASE Answers # {TRUE}
    BY <2>2 DEF Firm
  <2> QED BY <2>1, <2>2
<1>11. /\ \A j, r : Sub(j, r)' <=> Sub(j, r)
       /\ \A j, g : Unsub(j, g)' <=> Unsub(j, g)
       /\ \A i, r : Reply(i, r)' <=> Reply(i, r)
       /\ \A p \in Opens : Refuse(p) => Refuse(p)'
       /\ \A i : Asks(i) => Asks(i)'
  BY <1>4 DEF Sub, Unsub, Reply, Refuse, Answered, Asks
<1>12. \A r : \A p \in Opens : Due(r, p)' =>
         IF p = o THEN \E i \in DOMAIN asked : asked[i] = r ELSE Due(r, p)
  BY <1>6 DEF Due
\* A refresh under way is unanswered.
<1>13. /\ \A r : \A p \in Opens : Due(r, p) /\ r.refresh => Unanswered(r.filter)
       /\ \A i, r : Sub(i, r) /\ r.refresh => Unanswered(r.filter)
       /\ \A i, r : Reply(i, r) /\ r.refresh => Unanswered(r.filter)
  <2>1. \A i, r : Sub(i, r) => requests[i].kind = "subscribe"
    BY DEF Sub, Asked, Kinds
  <2> QED BY <2>1 DEF Due, Sub, Reply, Unanswered
<1>14. /\ OneWireServes /\ OneWireServes'
       /\ \A p \in Opens : Alive(p) => Holds(FilterOf[p])
  <2>1. OneWireServes /\ OneWireServes'
    BY <1>1, ServesPlaced, ServesPlacedNext
  <2> QED BY <2>1 DEF OneWireServes, Holds
\* What is asked for anew names its wire's identifier.
<1>15. ASSUME NEW r, \E i \in DOMAIN asked : asked[i] = r
       PROVE  /\ \A p \in Opens : Alive(p)' /\ FilterOf[p] = r.filter => r.qos >= QosOf[p]
              /\ Holds(r.filter)'
              /\ Answers = {TRUE} => Named(r.filter, r.identifier)'
              /\ r.refresh => \E k \in DOMAIN wires : /\ wires[k].filter = r.filter
                                                      /\ wires[k].identifier # r.identifier
  <2>1. PICK n \in DOMAIN wires' : /\ r.filter = wires'[n].filter /\ r.qos = wires'[n].qos
                                   /\ offered => r.identifier = wires'[n].identifier
                                   /\ r.identifier \in {wires'[n].identifier, NoIdentifier}
    BY <1>5, <1>15 DEF AsksFor
  <2>2. \A p \in Opens : Alive(p)' /\ FilterOf[p] = r.filter => r.qos >= QosOf[p]
    BY <1>14, <2>1 DEF OneWireServes
  <2>3. \A k \in DOMAIN wires' : wires'[k].filter = r.filter => k = n
    BY <2>1 DEF Structure, OneWirePerFilter
  <2>4. Answers = {TRUE} => r.identifier = wires'[n].identifier
    BY <1>10, <2>1
  <2>5. Answers = {TRUE} => Named(r.filter, r.identifier)'
    BY <2>3, <2>4 DEF Named
  <2>6. r.refresh => \E k \in DOMAIN wires : /\ wires[k].filter = r.filter
                                             /\ wires[k].identifier # r.identifier
    BY <1>5, <1>15 DEF AsksFor
  <2>7. Holds(r.filter)'
    BY <2>1 DEF Holds
  <2> QED BY <2>2, <2>5, <2>6, <2>7
<1>16. \A g, id, iid : Holds(g)' /\ Named(g, id)' /\ Named(g, iid)' => id = iid
  BY DEF Holds, Named
<1>17. ASSUME NEW r, \E i \in DOMAIN asked : asked[i] = r, r.refresh, Answers = {TRUE}
       PROVE  r.identifier # NoIdentifier
  <2>1. PICK k \in DOMAIN wires : wires[k].filter = r.filter /\ wires[k].identifier # r.identifier
    BY <1>15, <1>17
  <2>2. PICK id : id = wires[k].identifier
    OBVIOUS
  <2>3. Holds(r.filter) /\ Named(r.filter, id)
    BY <1>1, <2>1, <2>2 DEF Holds, Named, Structure, OneWirePerFilter
  <2>4. id # NoIdentifier => Named(r.filter, id)'
    BY <1>1, <1>2, <1>4, <1>17, <2>3, JoinLetters
  <2>5. Named(r.filter, r.identifier)' /\ Holds(r.filter)'
    BY <1>15, <1>17
  <2> QED BY <1>16, <2>1, <2>2, <2>4, <2>5
<1>18. ASSUME NEW g, NEW id, NEW m, Firm(g)', Holds(g), Attaching(g, id, m) PROVE Attaching(g, id, m)'
  <2>1. Named(g, id)' /\ id # NoIdentifier
    BY <1>10, <1>18 DEF Attaching
  <2>2. ASSUME NEW p \in Opens, NEW r, Due(r, p)', member'[p] >= m, r.filter = g PROVE r.identifier = id
    <3>1. CASE p = o
      <4>1. \E i \in DOMAIN asked : asked[i] = r
        BY <1>12, <2>2, <3>1
      <4>2. Named(g, r.identifier)' /\ Holds(g)'
        BY <1>15, <1>18, <2>2, <4>1 DEF Firm
      <4> QED BY <1>16, <2>1, <4>2
    <3>2. CASE p # o
      BY <1>6, <1>12, <1>18, <2>2, <3>2 DEF Attaching
    <3> QED BY <3>1, <3>2
  <2> QED BY <2>1, <2>2 DEF Attaching
<1>19. \A g, id, k : Carries(g, id, k) => Carries(g, id, k)'
  BY <1>11 DEF Carries
<1>20. DueFits'
  <2> SUFFICES ASSUME NEW p \in Opens, NEW r, Due(r, p)'
               PROVE  /\ \A x \in Opens : Alive(x)' /\ FilterOf[x] = r.filter =>
                           /\ member'[x] <= member'[p] => r.qos >= QosOf[x]
                           /\ member'[x] > member'[p] /\ pc'[x] # "sending" => r.filter \in overtaken'
                      /\ Firm(r.filter)' => Fits(r.filter, r.identifier)'
                      /\ r.refresh /\ Steady(r.filter)' => Attaching(r.filter, r.identifier, member[p])'
    BY DEF DueFits
  <2>1. CASE p = o
    <3>1. \E i \in DOMAIN asked : asked[i] = r
      BY <1>12, <2>1
    <3>2. \A x \in Opens : ~(member'[x] > member'[p])
      BY <1>6, <1>7, <2>1
    <3>3. Firm(r.filter)' => Named(r.filter, r.identifier)'
      BY <1>15, <3>1 DEF Firm
    <3>4. Firm(r.filter)' => Fits(r.filter, r.identifier)'
      BY <3>3 DEF Named, Fits
    <3>5. ASSUME r.refresh, Steady(r.filter)' PROVE Attaching(r.filter, r.identifier, member[p])'
      <4>1. r.identifier # NoIdentifier /\ Named(r.filter, r.identifier)'
        BY <1>17, <3>1, <3>3, <3>5 DEF Steady, Firm
      <4>2. ASSUME NEW x \in Opens, NEW q, Due(q, x)', member'[x] >= member'[p], q.filter = r.filter
            PROVE  q.identifier = r.identifier
        <5>1. x = o
          BY <1>6, <1>7, <2>1, <4>2
        <5>2. \E i \in DOMAIN asked : asked[i] = q
          BY <1>12, <4>2, <5>1
        <5>3. Named(r.filter, q.identifier)' /\ Holds(r.filter)'
          BY <1>15, <3>5, <4>2, <5>2 DEF Steady, Firm
        <5> QED BY <1>16, <4>1, <5>3
      <4> QED BY <4>1, <4>2 DEF Attaching
    <3> QED BY <1>15, <3>1, <3>2, <3>4, <3>5
  <2>2. CASE p # o
    <3>1. Due(r, p)
      BY <1>12, <2>2
    <3>2. ASSUME NEW x \in Opens, Alive(x)', FilterOf[x] = r.filter
          PROVE  /\ member'[x] <= member'[p] => r.qos >= QosOf[x]
                 /\ member'[x] > member'[p] /\ pc'[x] # "sending" => r.filter \in overtaken'
      <4>1. CASE x = o
        BY <1>6, <1>7, <2>2, <4>1
      <4>2. CASE x # o
        BY <1>4, <1>6, <2>2, <3>1, <3>2, <4>2 DEF Asked, DueFits
      <4> QED BY <4>1, <4>2
    <3>3. ASSUME Firm(r.filter)' PROVE Fits(r.filter, r.identifier)'
      <4>1. CASE Holds(r.filter)
        BY <1>8, <1>10, <3>1, <3>3, <4>1 DEF Asked, DueFits
      <4>2. CASE ~Holds(r.filter)
        <5>1. r.refresh
          <6>1. PICK i \in DOMAIN todo[p] : todo[p][i] = r /\ pc[p] = "sending"
            BY <3>1 DEF Due
          <6>2. /\ todo[p][i].refresh <=> i < Len(todo[p])
                /\ todo[p][Len(todo[p])].filter = FilterOf[p] /\ Vector(todo[p])
            BY <6>1 DEF Sendable
          <6>3. Holds(FilterOf[p])
            BY <1>14, <6>1 DEF Alive
          <6>4. i # Len(todo[p])
            BY <4>2, <6>1, <6>2, <6>3
          <6>5. i < Len(todo[p])
            BY <6>2, <6>4, VectorPlaces
          <6> QED BY <6>1, <6>2, <6>5
        <5>2. r.filter # f
          BY <1>8, <1>13, <3>1, <3>3, <4>2, <5>1
        <5>3. ~Holds(r.filter)'
          BY <1>9, <4>2, <5>2
        <5> QED BY <5>3 DEF Fits, Holds
      <4> QED BY <4>1, <4>2
    <3>4. ASSUME r.refresh, Steady(r.filter)' PROVE Attaching(r.filter, r.identifier, member[p])'
      <4>1. Firm(r.filter)' /\ Holds(r.filter)
        BY <1>8, <1>9, <1>13, <3>1, <3>4 DEF Steady
      <4>2. Attaching(r.filter, r.identifier, member[p])
        BY <1>8, <3>1, <3>4, <4>1 DEF Asked, DueFits, Steady
      <4>3. PICK m : m = member[p] /\ m = member'[p]
        BY <1>6, <2>2
      <4>4. Attaching(r.filter, r.identifier, m)'
        BY <1>18, <4>1, <4>2, <4>3
      <4> QED BY <4>3, <4>4 DEF Attaching
    <3> QED BY <3>2, <3>3, <3>4
  <2> QED BY <2>1, <2>2
<1>21. RefreshFits'
  <2>1. ASSUME NEW r, r.refresh, Unanswered(r.filter), Steady(r.filter)' PROVE Firm(r.filter)' /\ Steady(r.filter)
    BY <1>8, <1>9, <2>1 DEF Steady
  <2>2. ASSUME NEW i, NEW r, Sub(i, r), r.refresh, Steady(r.filter)'
        PROVE  Attaching(r.filter, r.identifier, NoMember)' /\ Carries(r.filter, r.identifier, i)'
    <3>1. Firm(r.filter)' /\ Steady(r.filter)
      BY <1>13, <2>1, <2>2
    <3>2. Attaching(r.filter, r.identifier, NoMember) /\ Carries(r.filter, r.identifier, i)
      BY <2>2, <3>1 DEF Asked, RefreshFits
    <3> QED BY <1>18, <1>19, <3>1, <3>2 DEF Steady
  <2>3. ASSUME NEW i, NEW r, Reply(i, r), r.refresh, Steady(r.filter)'
        PROVE  /\ Attaching(r.filter, r.identifier, NoMember)' /\ Carries(r.filter, r.identifier, 1)'
               /\ server'[r.filter].identifier = r.identifier
    <3>1. Firm(r.filter)' /\ Steady(r.filter)
      BY <1>13, <2>1, <2>3
    <3>2. /\ Attaching(r.filter, r.identifier, NoMember) /\ Carries(r.filter, r.identifier, 1)
          /\ server[r.filter].identifier = r.identifier
      BY <2>3, <3>1 DEF Asked, RefreshFits
    <3> QED BY <1>4, <1>18, <1>19, <3>1, <3>2 DEF Steady
  <2> QED BY <1>11, <2>2, <2>3 DEF RefreshFits
<1>22. ASSUME NEW p \in Opens, Alive(p)', pc'[p] # "sending" PROVE Refuse(p)' \/ Served(p)' \/ Queuing(p)'
  <2>1. p # o /\ Alive(p) /\ pc[p] # "sending" /\ Holds(FilterOf[p])
    BY <1>6, <1>14, <1>22
  <2>2. Refuse(p) \/ Served(p) \/ Queuing(p)
    BY <2>1 DEF Asked, Upheld
  <2>3. \A s : Suits(s, p) => Suits(s, p)'
    BY <1>4, <1>8, <1>10, <2>1 DEF Suits
  <2>4. \A k : SuitedFrom(p, k) => SuitedFrom(p, k)'
    BY <1>11, <2>3 DEF SuitedFrom
  <2>5. Served(p) => Served(p)'
    BY <1>4, <2>3, <2>4 DEF Served
  <2>6. Queuing(p) => Queuing(p)'
    BY <1>4, <1>11, <2>4 DEF Queuing
  <2> QED BY <1>11, <2>2, <2>5, <2>6
<1>23. Kinds'
  BY <1>4 DEF Asked, Kinds
<1> QED BY <1>20, <1>21, <1>22, <1>23 DEF Asked, Upheld

\* A request leaves an open for the queue, unless its filter is gone.  Where one of an
\* earlier join about its filter is left behind, the filter is overtaken.
LEMMA AskedSent ==
  ASSUME SeatedInv, Sendable, Asked, NEW o \in Opens, OpenSend(o)
  PROVE  Asked'
<1>1. PICK request : request = Head(todo[o])
  OBVIOUS
<1>2. PICK rest : rest = Tail(todo[o])
  OBVIOUS
<1>3. PICK e : e = [kind |-> "subscribe", request |-> request, open |-> o]
  OBVIOUS
<1>4. PICK L : L = Len(requests) + 1
  OBVIOUS
<1>5. /\ pc[o] = "sending" /\ todo' = [todo EXCEPT ![o] = rest]
      /\ UNCHANGED <<registryVars, member, server, incoming, reopened>>
      /\ \/ Moot(request) /\ UNCHANGED <<requests, pc, overtaken>>
         \/ /\ requests' = Append(requests, e)
            /\ pc' = IF request.refresh THEN pc ELSE [pc EXCEPT ![o] = "waiting"]
            /\ overtaken' = overtaken \cup Delayed(member[o], request.filter)
  BY <1>1, <1>2, <1>3 DEF OpenSend, serverVars
<1>6. /\ Vector(todo[o]) /\ todo[o] # <<>> /\ todo = [p \in Opens |-> todo[p]]
      /\ todo[o][Len(todo[o])].filter = FilterOf[o]
      /\ \A i \in DOMAIN todo[o] : todo[o][i].refresh <=> i < Len(todo[o])
  BY <1>5 DEF Sendable
<1>7. /\ DOMAIN todo[o] = 1..Len(todo[o]) /\ Len(todo[o]) \in Nat \ {0}
      /\ request = todo[o][1] /\ 1 \in DOMAIN todo[o]
      /\ \A i \in DOMAIN rest : i + 1 \in DOMAIN todo[o] /\ rest[i] = todo[o][i + 1]
  BY <1>6, <1>1, <1>2, VectorTail
<1>8. e.kind = "subscribe" /\ e.request = request /\ e.open = o
  BY <1>3
<1>9. Due(request, o) /\ (~request.refresh => request.filter = FilterOf[o])
  <2>1. ~(1 < Len(todo[o])) => Len(todo[o]) = 1
    <3>1. \A n \in Nat \ {0} : ~(1 < n) => n = 1
      OBVIOUS
    <3> QED BY <1>7, <3>1
  <2> QED BY <1>5, <1>6, <1>7, <2>1 DEF Due
<1>10. /\ \A p \in Opens : Alive(p)' <=> Alive(p)
       /\ \A p \in Opens : pc'[p] = "sending" => pc[p] = "sending"
       /\ \A p \in Opens : pc'[p] # "sending" /\ pc[p] = "sending" =>
            p = o /\ ~request.refresh /\ requests' = Append(requests, e)
  <2>1. CASE pc' = pc
    BY <2>1 DEF Alive
  <2>2. CASE /\ requests' = Append(requests, e)
             /\ pc' = [pc EXCEPT ![o] = "waiting"] /\ ~request.refresh
    BY <1>5, <2>2 DEF Alive, SeatedInv, TypeOK
  <2> QED BY <1>5, <2>1, <2>2
<1>11. \A r : \A p \in Opens : Due(r, p)' => Due(r, p)
  <2>1. \A p \in Opens : todo'[p] = IF p = o THEN rest ELSE todo[p]
    BY <1>5, <1>6
  <2> QED BY <1>7, <1>10, <2>1 DEF Due
<1>12. /\ L \in Nat /\ \A j \in DOMAIN requests : j \in Nat \ {0} /\ j < L
       /\ Kinds'
       /\ \A j \in DOMAIN requests : j \in DOMAIN requests' /\ requests'[j] = requests[j]
       /\ \A j, r : Sub(j, r)' => Sub(j, r) \/ (j = L /\ r = request /\ requests' = Append(requests, e))
       /\ \A j, f : Unsub(j, f)' => Unsub(j, f)
       /\ requests' = Append(requests, e) => L \in DOMAIN requests' /\ requests'[L] = e
  <2>1. DOMAIN requests = 1..Len(requests) /\ Len(requests) \in Nat
    BY VectorPlaces DEF SeatedInv, Shape
  <2>2. L \in Nat /\ \A j \in DOMAIN requests : j \in Nat \ {0} /\ j < L
    BY <1>4, <2>1
  <2>3. CASE requests' = requests
    BY <2>2, <2>3 DEF Sub, Unsub, Asked, Kinds, QueueLonger
  <2>4. CASE requests' = Append(requests, e)
    <3>1. /\ \A j \in DOMAIN requests : j \in DOMAIN requests' /\ requests'[j] = requests[j]
          /\ \A j \in DOMAIN requests' : j \in DOMAIN requests \/ j = L
          /\ requests'[L] = e /\ L \in DOMAIN requests'
      <4>1. /\ DOMAIN requests' = 1..(Len(requests) + 1)
            /\ \A i \in DOMAIN requests : i \in DOMAIN requests' /\ requests'[i] = requests[i]
            /\ \A i \in DOMAIN requests' : i \in DOMAIN requests \/ i = Len(requests) + 1
            /\ requests'[Len(requests) + 1] = e
        BY <2>4, QueueLonger DEF SeatedInv, Shape
      <4> QED BY <1>4, <2>1, <4>1
    <3> QED BY <1>8, <2>2, <2>4, <3>1 DEF Sub, Unsub, Asked, Kinds
  <2> QED BY <1>5, <2>3, <2>4
<1>13. /\ overtaken \subseteq overtaken'
       /\ \A f : (Firm(f)' => Firm(f)) /\ (Steady(f)' => Steady(f))
       /\ requests' = Append(requests, e) => Delayed(member[o], request.filter) \subseteq overtaken'
  <2>1. requests' # Append(requests, e) \/ requests' # requests
    BY <1>12
  <2>2. overtaken \subseteq overtaken'
    BY <1>5
  <2>3. requests' = Append(requests, e) => Delayed(member[o], request.filter) \subseteq overtaken'
    BY <1>5, <2>1
  <2> QED BY <1>5, <2>2, <2>3 DEF Firm, Steady, Holds, registryVars
<1>14. /\ \A f, id : Named(f, id)' <=> Named(f, id)
       /\ \A f, id : Fits(f, id)' <=> Fits(f, id)
       /\ \A i, r : Reply(i, r)' <=> Reply(i, r)
       /\ \A p \in Opens : Refuse(p) => Refuse(p)'
  BY <1>5 DEF Named, Fits, registryVars, Reply, Refuse, Answered
<1>15. /\ \A f, id, m : Attaching(f, id, m) => Attaching(f, id, m)'
       /\ \A p \in Opens : member[p] \in Int /\ member[p] >= NoMember
       /\ \A f : Holds(f) => f \in Filters
  <2>1. \A f, id, m : Attaching(f, id, m) => Attaching(f, id, m)'
    BY <1>5, <1>11, <1>14 DEF Attaching
  <2>2. \A p \in Opens : member[p] \in Int /\ member[p] >= NoMember
    BY DEF SeatedInv, TypeOK, NoMember
  <2>3. \A n \in DOMAIN wires : wires[n] \in Wire
    BY SeqPlaces DEF SeatedInv, CInv, Structure, RegistryTypeOK
  <2> QED BY <2>1, <2>2, <2>3 DEF Holds, Wire
<1>16. \A p \in Opens : FilterOf[p] \in Filters
  BY ConnectionAssumption
\* A request queued past an earlier join's about the same filter.
<1>17. ASSUME requests' = Append(requests, e), NEW p \in Opens, NEW r, Due(r, p),
              r.filter = request.filter, r.filter \in Filters, member[p] < member[o]
       PROVE  r.filter \in overtaken'
  BY <1>13, <1>17 DEF Delayed, Due
<1>18. ASSUME requests' = Append(requests, e), NEW p \in Opens, Alive(p), FilterOf[p] = request.filter,
              pc[p] # "sending" \/ p = o
       PROVE  Suits(request, p)'
  <2>1. /\ member[p] <= member[o] => request.qos >= QosOf[p]
        /\ member[p] > member[o] /\ pc[p] # "sending" => request.filter \in overtaken
        /\ Firm(request.filter) => Fits(request.filter, request.identifier)
    BY <1>9, <1>18 DEF Asked, DueFits
  <2>2. member[p] <= member[o] \/ (member[p] > member[o] /\ pc[p] # "sending")
    BY <1>15, <1>18
  <2> QED BY <1>13, <1>14, <1>18, <2>1, <2>2 DEF Suits
<1>19. DueFits'
  <2> SUFFICES ASSUME NEW p \in Opens, NEW r, Due(r, p)'
               PROVE  /\ \A x \in Opens : Alive(x)' /\ FilterOf[x] = r.filter =>
                           /\ member'[x] <= member'[p] => r.qos >= QosOf[x]
                           /\ member'[x] > member'[p] /\ pc'[x] # "sending" => r.filter \in overtaken'
                      /\ Firm(r.filter)' => Fits(r.filter, r.identifier)'
                      /\ r.refresh /\ Steady(r.filter)' => Attaching(r.filter, r.identifier, member[p])'
    BY DEF DueFits
  <2>1. Due(r, p)
    BY <1>11
  <2>2. ASSUME NEW x \in Opens, Alive(x)', FilterOf[x] = r.filter
        PROVE  /\ member'[x] <= member'[p] => r.qos >= QosOf[x]
               /\ member'[x] > member'[p] /\ pc'[x] # "sending" => r.filter \in overtaken'
    <3>1. Alive(x) /\ member' = member
      BY <1>5, <1>10, <2>2
    <3>2. /\ member[x] <= member[p] => r.qos >= QosOf[x]
          /\ member[x] > member[p] /\ pc[x] # "sending" => r.filter \in overtaken
      BY <2>1, <2>2, <3>1 DEF Asked, DueFits
    <3>3. ASSUME member[x] > member[p], pc'[x] # "sending", pc[x] = "sending" PROVE r.filter \in overtaken'
      <4>1. x = o /\ requests' = Append(requests, e) /\ request.filter = FilterOf[o]
        BY <1>9, <1>10, <3>3
      <4>2. member[p] < member[o]
        BY <1>15, <3>3, <4>1
      <4> QED BY <1>16, <1>17, <2>1, <2>2, <4>1, <4>2
    <3> QED BY <1>13, <3>1, <3>2, <3>3
  <2>3. Firm(r.filter)' => Fits(r.filter, r.identifier)'
    BY <1>13, <1>14, <2>1 DEF Asked, DueFits
  <2>4. ASSUME r.refresh, Steady(r.filter)' PROVE Attaching(r.filter, r.identifier, member[p])'
    <3>1. PICK m : m = member[p] /\ m = member'[p]
      BY <1>5
    <3>2. Attaching(r.filter, r.identifier, m)
      BY <1>13, <2>1, <2>4, <3>1 DEF Asked, DueFits
    <3>3. Attaching(r.filter, r.identifier, m)'
      BY <1>15, <3>2
    <3> QED BY <3>1, <3>3 DEF Attaching
  <2> QED BY <2>2, <2>3, <2>4
<1>20. ASSUME NEW f, NEW id, NEW k \in Int, Attaching(f, id, NoMember), Carries(f, id, k) PROVE Carries(f, id, k)'
  <2>1. request.filter = f => request.identifier = id
    BY <1>9, <1>15, <1>20 DEF Attaching
  <2> QED BY <1>12, <1>20, <2>1 DEF Carries
<1>21. RefreshFits'
  <2>1. ASSUME NEW i, NEW r, Sub(i, r)', r.refresh, Steady(r.filter)'
        PROVE  Attaching(r.filter, r.identifier, NoMember)' /\ Carries(r.filter, r.identifier, i)'
    <3>1. CASE Sub(i, r)
      <4>1. Attaching(r.filter, r.identifier, NoMember) /\ Carries(r.filter, r.identifier, i) /\ i \in Int
        BY <1>12, <1>13, <2>1, <3>1 DEF Asked, RefreshFits, Sub
      <4> QED BY <1>15, <1>20, <4>1
    <3>2. CASE i = L /\ r = request /\ requests' = Append(requests, e)
      <4>1. Attaching(r.filter, r.identifier, member[o])
        BY <1>9, <1>13, <2>1, <3>2 DEF Asked, DueFits
      <4>2. ASSUME NEW p \in Opens, NEW q, Due(q, p), q.filter = r.filter PROVE q.identifier = r.identifier
        <5>1. CASE member[p] >= member[o]
          BY <4>1, <4>2, <5>1 DEF Attaching
        <5>2. CASE member[p] < member[o]
          <6>1. r.filter \in Filters
            BY <1>13, <1>15, <2>1 DEF Steady
          <6>2. r.filter \in overtaken'
            BY <1>17, <3>2, <4>2, <5>2, <6>1
          <6> QED BY <2>1, <6>2 DEF Steady, Firm
        <5> QED BY <1>15, <5>1, <5>2
      <4>3. Attaching(r.filter, r.identifier, NoMember)'
        BY <1>11, <1>14, <4>1, <4>2 DEF Attaching
      <4>4. ASSUME NEW j, j >= i, NEW q, Sub(j, q)' PROVE q = r
        <5>1. ~Sub(j, q)
          BY <1>12, <3>2, <4>4 DEF Sub
        <5> QED BY <1>12, <3>2, <4>4, <5>1
      <4>5. ASSUME NEW j, j >= i, NEW f PROVE ~Unsub(j, f)'
        BY <1>12, <3>2, <4>5 DEF Unsub
      <4>6. Carries(r.filter, r.identifier, i)'
        BY <4>4, <4>5 DEF Carries
      <4> QED BY <4>3, <4>6
    <3> QED BY <1>12, <2>1, <3>1, <3>2
  <2>2. ASSUME NEW i, NEW r, Reply(i, r)', r.refresh, Steady(r.filter)'
        PROVE  /\ Attaching(r.filter, r.identifier, NoMember)' /\ Carries(r.filter, r.identifier, 1)'
               /\ server'[r.filter].identifier = r.identifier
    <3>1. /\ Attaching(r.filter, r.identifier, NoMember) /\ Carries(r.filter, r.identifier, 1)
          /\ server[r.filter].identifier = r.identifier
      BY <1>13, <1>14, <2>2 DEF Asked, RefreshFits
    <3> QED BY <1>5, <1>15, <1>20, <3>1
  <2> QED BY <2>1, <2>2 DEF RefreshFits
<1>22. ASSUME NEW p \in Opens, Alive(p)', pc'[p] # "sending" PROVE Refuse(p)' \/ Served(p)' \/ Queuing(p)'
  <2>1. Alive(p) /\ (pc[p] = "sending" => p = o /\ ~request.refresh /\ requests' = Append(requests, e))
    BY <1>10, <1>22
  <2>2. \A s : Suits(s, p) => Suits(s, p)'
    BY <1>13, <1>14 DEF Suits
  <2>3. CASE pc[p] # "sending"
    <3>1. Refuse(p) \/ Served(p) \/ Queuing(p)
      BY <2>1, <2>3 DEF Asked, Upheld
    <3>2. \A k : SuitedFrom(p, k) => SuitedFrom(p, k)'
      BY <1>12, <1>18, <2>1, <2>2, <2>3 DEF SuitedFrom
    <3>3. Served(p) => Served(p)'
      BY <1>5, <2>2, <3>2 DEF Served
    <3>4. Queuing(p) => Queuing(p)'
      BY <1>12, <3>2 DEF Queuing, Asks
    <3> QED BY <1>14, <3>1, <3>3, <3>4
  <2>4. CASE pc[p] = "sending"
    <3>1. p = o /\ ~request.refresh /\ requests' = Append(requests, e) /\ request.filter = FilterOf[o]
      BY <1>9, <2>1, <2>4
    <3>2. Suits(request, o)'
      BY <1>18, <2>1, <3>1
    <3>3. ASSUME NEW j, j >= L, NEW q, Sub(j, q)' PROVE q = request
      <4>1. ~Sub(j, q)
        BY <1>12, <3>3 DEF Sub
      <4> QED BY <1>12, <3>3, <4>1
    <3>4. ASSUME NEW j, j >= L, NEW f PROVE ~Unsub(j, f)'
      BY <1>12, <3>4 DEF Unsub
    <3>5. SuitedFrom(o, L)'
      BY <3>2, <3>3, <3>4 DEF SuitedFrom
    <3>6. L \in DOMAIN requests' /\ requests'[L] = e
      BY <1>12, <3>1
    <3>7. Asks(L)' /\ requests'[L].open = o /\ requests'[L].request.filter = FilterOf[o]
      BY <1>8, <3>1, <3>6 DEF Asks
    <3> QED BY <3>1, <3>5, <3>6, <3>7 DEF Queuing
  <2> QED BY <2>3, <2>4
<1> QED BY <1>12, <1>19, <1>21, <1>22 DEF Asked, Upheld

\* The server takes the next request: what it has suits whoever was to be suited by it, or
\* it tells the open that it does not.
LEMMA AskedTaken ==
  ASSUME CInv, Shape, Asked, server = [f \in Filters |-> server[f]], ServerTake
  PROVE  Asked' /\ server' = [f \in Filters |-> server'[f]]
<1>1. PICK packet : packet = Head(requests)
  OBVIOUS
<1>2. /\ requests # <<>> /\ requests' = Tail(requests)
      /\ UNCHANGED <<wires, pc, member, todo, history>>
  BY DEF ServerTake, openVars, registryVars
<1>3. /\ packet = requests[1] /\ 1 \in DOMAIN requests
      /\ \A i \in DOMAIN requests : i \in Nat \ {0}
      /\ \A i \in DOMAIN requests : i # 1 => i - 1 \in DOMAIN requests' /\ requests'[i - 1] = requests[i]
      /\ \A i \in DOMAIN requests' :
           i \in Nat \ {0} /\ i + 1 \in DOMAIN requests /\ requests'[i] = requests[i + 1]
  <2>1. /\ packet = requests[1] /\ 1 \in DOMAIN requests
        /\ DOMAIN requests = 1..Len(requests) /\ Len(requests) \in Nat
        /\ DOMAIN requests' = 1..(Len(requests) - 1)
        /\ \A i \in DOMAIN requests' : i + 1 \in DOMAIN requests /\ requests'[i] = requests[i + 1]
    BY <1>1, <1>2, VectorTail DEF Shape
  <2>2. ASSUME NEW i \in DOMAIN requests, i # 1
        PROVE  i - 1 \in DOMAIN requests' /\ requests'[i - 1] = requests[i]
    <3>1. i - 1 \in DOMAIN requests' /\ (i - 1) + 1 = i
      BY <2>1, <2>2
    <3> QED BY <2>1, <3>1
  <2> QED BY <2>1, <2>2
<1>4. /\ \A f : (Firm(f)' <=> Firm(f)) /\ (Steady(f)' <=> Steady(f))
      /\ \A f, id : (Named(f, id)' <=> Named(f, id)) /\ (Fits(f, id)' <=> Fits(f, id))
      /\ \A p \in Opens : (Alive(p)' <=> Alive(p)) /\ \A r : Due(r, p)' <=> Due(r, p)
  BY <1>2 DEF Firm, Steady, Holds, Named, Fits, Alive, Due, history
<1>5. \A p \in Opens : \A s : Suits(s, p)' <=> Suits(s, p)
  BY <1>2, <1>4 DEF Suits, history
<1>6. \A f, id, m : Attaching(f, id, m) => Attaching(f, id, m)'
  BY <1>2, <1>4 DEF Attaching
<1>7. /\ \A j, r : Sub(j, r)' => j \in Nat \ {0} /\ Sub(j + 1, r)
      /\ \A j, f : Unsub(j, f)' => j \in Nat \ {0} /\ Unsub(j + 1, f)
      /\ Kinds'
      /\ packet.kind # "unsubscribe" => Sub(1, packet.request)
      /\ packet.kind = "unsubscribe" => Unsub(1, packet.filter)
  BY <1>3 DEF Sub, Unsub, Asked, Kinds
<1>8. \/ packet.kind = "unsubscribe" /\ server' = [server EXCEPT ![packet.filter] = NotHeld]
         /\ UNCHANGED incoming
      \/ /\ packet.kind # "unsubscribe"
         /\ \E accepted, n :
              /\ Answers = {TRUE} /\ packet.request.refresh => accepted
              /\ server' = IF accepted THEN [server EXCEPT ![packet.request.filter] =
                                               [qos |-> packet.request.qos,
                                                identifier |-> packet.request.identifier,
                                                since |-> n]]
                           ELSE server
              /\ incoming' = Append(incoming, [kind |-> "suback", open |-> packet.open,
                                               request |-> packet.request, accepted |-> accepted])
  <2>1. CASE packet.kind = "unsubscribe"
    BY <1>1, <2>1 DEF ServerTake
  <2>2. CASE packet.kind # "unsubscribe"
    <3>1. PICK accepted \in IF packet.request.refresh THEN Answers ELSE Accepts :
            /\ server' = IF accepted
                         THEN [server EXCEPT ![packet.request.filter] =
                                 [qos |-> packet.request.qos,
                                  identifier |-> packet.request.identifier,
                                  since |-> IF @ = NotHeld THEN published ELSE @.since]]
                         ELSE server
            /\ incoming' = Append(incoming, [kind |-> "suback", open |-> packet.open,
                                             request |-> packet.request, accepted |-> accepted])
      BY <1>1, <2>2 DEF ServerTake
    <3> DEFINE old == server[packet.request.filter]
    <3>2. Answers = {TRUE} /\ packet.request.refresh => accepted
      BY <3>1
    <3>3. PICK n : n = IF old = NotHeld THEN published ELSE old.since
      OBVIOUS
    <3>4. server' = IF accepted THEN [server EXCEPT ![packet.request.filter] =
                                        [qos |-> packet.request.qos,
                                         identifier |-> packet.request.identifier,
                                         since |-> n]]
                    ELSE server
      BY <3>1, <3>3
    <3> QED BY <2>2, <3>1, <3>2, <3>4
  <2> QED BY <2>1, <2>2
<1>9. server' = [f \in Filters |-> server'[f]]
  BY <1>8
\* The server's table, as the packet leaves it.
<1>10. ASSUME NEW f \in Filters, ~Unsub(1, f)
       PROVE  \/ server'[f] = server[f]
              \/ /\ packet.kind # "unsubscribe" /\ packet.request.filter = f
                 /\ server'[f].qos = packet.request.qos
                 /\ server'[f].identifier = packet.request.identifier
  <2>1. CASE packet.kind = "unsubscribe"
    <3>1. packet.filter # f
      BY <1>7, <1>10, <2>1
    <3> QED BY <1>8, <1>10, <2>1, <3>1
  <2>2. CASE packet.kind # "unsubscribe"
    <3>1. PICK accepted, n :
            server' = IF accepted THEN [server EXCEPT ![packet.request.filter] =
                                          [qos |-> packet.request.qos,
                                           identifier |-> packet.request.identifier,
                                           since |-> n]]
                      ELSE server
      BY <1>8, <2>2
    <3>2. CASE ~accepted
      BY <3>1, <3>2
    <3>3. CASE accepted /\ packet.request.filter = f
      BY <1>10, <2>2, <3>1, <3>3
    <3>4. CASE accepted /\ packet.request.filter # f
      BY <1>10, <3>1, <3>4
    <3> QED BY <3>2, <3>3, <3>4
  <2> QED BY <2>1, <2>2
\* The answers under way are those before, and the one to the packet.
<1>11. /\ \A i \in DOMAIN incoming : i \in DOMAIN incoming' /\ incoming'[i] = incoming[i]
       /\ \A i, r : Reply(i, r)' =>
            Reply(i, r) \/ (packet.kind # "unsubscribe" /\ r = packet.request)
       /\ packet.kind # "unsubscribe" => \E i \in DOMAIN incoming' :
            /\ incoming'[i].kind = "suback" /\ incoming'[i].open = packet.open
            /\ incoming'[i].request = packet.request
            /\ \/ incoming'[i].accepted
                  /\ (packet.request.filter \in Filters =>
                        /\ server'[packet.request.filter].qos = packet.request.qos
                        /\ server'[packet.request.filter].identifier = packet.request.identifier)
               \/ ~incoming'[i].accepted /\ ~(Answers = {TRUE} /\ packet.request.refresh)
  <2>1. CASE packet.kind = "unsubscribe"
    <3>1. UNCHANGED incoming
      BY <1>8, <2>1
    <3> QED BY <2>1, <3>1 DEF Reply
  <2>2. CASE packet.kind # "unsubscribe"
    <3>1. PICK accepted, n :
            /\ Answers = {TRUE} /\ packet.request.refresh => accepted
            /\ server' = IF accepted THEN [server EXCEPT ![packet.request.filter] =
                                             [qos |-> packet.request.qos,
                                              identifier |-> packet.request.identifier,
                                              since |-> n]]
                         ELSE server
            /\ incoming' = Append(incoming, [kind |-> "suback", open |-> packet.open,
                                             request |-> packet.request, accepted |-> accepted])
      BY <1>8, <2>2
    <3>2. PICK a : a = [kind |-> "suback", open |-> packet.open,
                        request |-> packet.request, accepted |-> accepted]
      OBVIOUS
    <3>3. Vector(incoming)
      BY IncomingVector DEF CInv
    <3>4. /\ DOMAIN incoming = 1..Len(incoming) /\ Len(incoming) \in Nat
          /\ DOMAIN incoming' = 1..(Len(incoming) + 1)
          /\ \A i \in DOMAIN incoming : incoming'[i] = incoming[i]
          /\ incoming'[Len(incoming) + 1] = a
      BY <3>1, <3>2, <3>3, VectorLonger
    <3>5. PICK last : last = Len(incoming) + 1
      OBVIOUS
    <3>6. /\ \A i \in DOMAIN incoming : i \in DOMAIN incoming' /\ incoming'[i] = incoming[i]
          /\ \A i \in DOMAIN incoming' : i \in DOMAIN incoming \/ i = last
          /\ last \in DOMAIN incoming' /\ incoming'[last] = a
      BY <3>4, <3>5
    <3>7. \A i, r : Reply(i, r)' => Reply(i, r) \/ (packet.kind # "unsubscribe" /\ r = packet.request)
      BY <2>2, <3>2, <3>6 DEF Reply
    <3>8. \/ a.accepted
             /\ (packet.request.filter \in Filters =>
                   /\ server'[packet.request.filter].qos = packet.request.qos
                   /\ server'[packet.request.filter].identifier = packet.request.identifier)
          \/ ~a.accepted /\ ~(Answers = {TRUE} /\ packet.request.refresh)
      BY <3>1, <3>2
    <3>9. a.kind = "suback" /\ a.open = packet.open /\ a.request = packet.request
      BY <3>2
    <3> QED BY <3>6, <3>7, <3>8, <3>9
  <2> QED BY <2>1, <2>2
<1>12. \A f, id : \A k \in Nat : Carries(f, id, k) \/ Carries(f, id, k + 1) => Carries(f, id, k)'
  <2> SUFFICES ASSUME NEW f, NEW id, NEW k \in Nat, Carries(f, id, k) \/ Carries(f, id, k + 1)
               PROVE  Carries(f, id, k)'
    OBVIOUS
  <2>1. \A j \in Nat \ {0} : j >= k => j + 1 >= k /\ j + 1 >= k + 1
    OBVIOUS
  <2>2. /\ \A j \in Nat \ {0} : j >= k => ~Unsub(j + 1, f)
        /\ \A j \in Nat \ {0} : \A r : j >= k /\ Sub(j + 1, r) /\ r.filter = f => r.identifier = id
    BY <2>1 DEF Carries
  <2> QED BY <1>7, <2>2 DEF Carries
<1>13. ASSUME NEW p \in Opens, NEW k \in Nat, SuitedFrom(p, k) \/ SuitedFrom(p, k + 1)
       PROVE  SuitedFrom(p, k)'
  <2>1. \A j \in Nat \ {0} : j >= k => j + 1 >= k /\ j + 1 >= k + 1
    OBVIOUS
  <2>2. /\ \A j \in Nat \ {0} : j >= k => ~Unsub(j + 1, FilterOf[p])
        /\ \A j \in Nat \ {0} : \A r : j >= k /\ Sub(j + 1, r) /\ r.filter = FilterOf[p] => Suits(r, p)
    BY <1>13, <2>1 DEF SuitedFrom
  <2>3. \A j, r : j >= k /\ Sub(j, r)' /\ r.filter = FilterOf[p] => Suits(r, p)'
    BY <1>5, <1>7, <2>2
  <2> QED BY <1>7, <2>2, <2>3 DEF SuitedFrom
<1>14. \A f : Holds(f) => f \in Filters
  <2>1. \A n \in DOMAIN wires : wires[n] \in Wire
    BY SeqPlaces DEF CInv, Structure, RegistryTypeOK
  <2> QED BY <2>1 DEF Holds, Wire
<1>15. DueFits'
  <2> SUFFICES ASSUME NEW o \in Opens, NEW r, Due(r, o)
               PROVE  /\ \A p \in Opens : Alive(p) /\ FilterOf[p] = r.filter =>
                           /\ member[p] <= member[o] => r.qos >= QosOf[p]
                           /\ member[p] > member[o] /\ pc[p] # "sending" => r.filter \in overtaken
                      /\ Firm(r.filter) => Fits(r.filter, r.identifier)
                      /\ r.refresh /\ Steady(r.filter) => Attaching(r.filter, r.identifier, member[o])'
    BY <1>2, <1>4 DEF DueFits, history
  <2>1. /\ \A p \in Opens : Alive(p) /\ FilterOf[p] = r.filter =>
             /\ member[p] <= member[o] => r.qos >= QosOf[p]
             /\ member[p] > member[o] /\ pc[p] # "sending" => r.filter \in overtaken
        /\ Firm(r.filter) => Fits(r.filter, r.identifier)
        /\ r.refresh /\ Steady(r.filter) => Attaching(r.filter, r.identifier, member[o])
    BY DEF Asked, DueFits
  <2>2. PICK m : m = member[o] /\ m = member'[o]
    BY <1>2
  <2>3. Attaching(r.filter, r.identifier, m) => Attaching(r.filter, r.identifier, m)'
    BY <1>6
  <2>4. Attaching(r.filter, r.identifier, member[o]) => Attaching(r.filter, r.identifier, member[o])'
    BY <2>2, <2>3 DEF Attaching
  <2> QED BY <2>1, <2>4
<1>16. RefreshFits'
  <2>1. ASSUME NEW i, NEW r, Sub(i, r)', r.refresh, Steady(r.filter)
        PROVE  Attaching(r.filter, r.identifier, NoMember) /\ Carries(r.filter, r.identifier, i)'
    <3>1. i \in Nat /\ Sub(i + 1, r)
      BY <1>7, <2>1
    <3>2. Attaching(r.filter, r.identifier, NoMember) /\ Carries(r.filter, r.identifier, i + 1)
      BY <2>1, <3>1 DEF Asked, RefreshFits
    <3> QED BY <1>12, <3>1, <3>2
  <2>2. ASSUME NEW i, NEW r, Reply(i, r)', r.refresh, Steady(r.filter)
        PROVE  /\ Attaching(r.filter, r.identifier, NoMember) /\ Carries(r.filter, r.identifier, 1)'
               /\ server'[r.filter].identifier = r.identifier
    <3>1. r.filter \in Filters /\ Answers = {TRUE}
      BY <1>14, <2>2 DEF Steady, Firm
    <3>2. CASE Reply(i, r)
      <4>1. /\ Attaching(r.filter, r.identifier, NoMember) /\ Carries(r.filter, r.identifier, 1)
            /\ server[r.filter].identifier = r.identifier
        BY <2>2, <3>2 DEF Asked, RefreshFits
      <4>2. /\ ~Unsub(1, r.filter)
            /\ \A q : Sub(1, q) /\ q.filter = r.filter => q.identifier = r.identifier
        BY <4>1 DEF Carries
      <4>3. server'[r.filter].identifier = r.identifier
        BY <1>7, <1>10, <3>1, <4>1, <4>2
      <4> QED BY <1>12, <4>1, <4>3
    <3>3. CASE packet.kind # "unsubscribe" /\ r = packet.request
      <4>1. Attaching(r.filter, r.identifier, NoMember) /\ Carries(r.filter, r.identifier, 1)
        BY <1>7, <2>2, <3>3 DEF Asked, RefreshFits
      <4>2. server'[r.filter].identifier = r.identifier
        BY <1>11, <2>2, <3>1, <3>3
      <4> QED BY <1>12, <4>1, <4>2
    <3> QED BY <1>11, <2>2, <3>2, <3>3
  <2> QED BY <1>4, <1>6, <2>1, <2>2 DEF RefreshFits
<1>17. ASSUME NEW p \in Opens, Refuse(p) PROVE Refuse(p)'
  BY <1>11, <1>17 DEF Refuse, Answered
<1>18. ASSUME NEW p \in Opens, NEW s, s = server'[FilterOf[p]], Suits(s, p), SuitedFrom(p, 1) PROVE Served(p)'
  <2>1. SuitedFrom(p, 1)'
    BY <1>13, <1>18
  <2>2. Suits(s, p)'
    BY <1>5, <1>18
  <2> QED BY <1>18, <2>1, <2>2 DEF Served
<1>19. ASSUME NEW p \in Opens, Served(p) PROVE Served(p)'
  <2>1. PICK s : s = server[FilterOf[p]]
    OBVIOUS
  <2>2. PICK t : t = server'[FilterOf[p]]
    OBVIOUS
  <2>3. Suits(s, p) /\ SuitedFrom(p, 1)
    BY <1>19, <2>1 DEF Served
  <2>4. /\ ~Unsub(1, FilterOf[p])
        /\ \A r : Sub(1, r) /\ r.filter = FilterOf[p] => Suits(r, p)
    BY <2>3 DEF SuitedFrom
  <2>5. FilterOf[p] \in Filters
    BY ConnectionAssumption
  <2>6. CASE t = s
    BY <1>18, <2>2, <2>3, <2>6
  <2>7. CASE /\ packet.kind # "unsubscribe" /\ packet.request.filter = FilterOf[p]
             /\ t.qos = packet.request.qos /\ t.identifier = packet.request.identifier
    <3>1. Suits(packet.request, p)
      BY <1>7, <2>4, <2>7
    <3>2. Suits(t, p)
      BY <2>7, <3>1 DEF Suits
    <3> QED BY <1>18, <2>2, <2>3, <3>2
  <2> QED BY <1>10, <2>1, <2>2, <2>4, <2>5, <2>6, <2>7
<1>20. ASSUME NEW p \in Opens, Queuing(p) PROVE Refuse(p)' \/ Served(p)' \/ Queuing(p)'
  <2>1. PICK i \in DOMAIN requests : /\ Asks(i) /\ requests[i].open = p
                                     /\ requests[i].request.filter = FilterOf[p] /\ SuitedFrom(p, i)
    BY <1>20 DEF Queuing
  <2>2. CASE i = 1
    <3>1. /\ packet.kind # "unsubscribe" /\ ~packet.request.refresh /\ packet.open = p
          /\ packet.request.filter = FilterOf[p] /\ FilterOf[p] \in Filters
      BY <1>3, <2>1, <2>2, ConnectionAssumption DEF Asks
    <3>2. Suits(packet.request, p)
      BY <1>7, <2>1, <2>2, <3>1 DEF SuitedFrom
    <3>3. PICK t : t = server'[FilterOf[p]]
      OBVIOUS
    <3>4. CASE t.qos = packet.request.qos /\ t.identifier = packet.request.identifier
      <4>1. Suits(t, p)
        BY <3>2, <3>4 DEF Suits
      <4> QED BY <1>18, <2>1, <2>2, <3>3, <4>1
    <3>5. CASE ~(t.qos = packet.request.qos /\ t.identifier = packet.request.identifier)
      <4>1. \E x \in DOMAIN incoming' :
              /\ incoming'[x].kind = "suback" /\ incoming'[x].open = p
              /\ incoming'[x].request = packet.request /\ ~incoming'[x].accepted
        BY <1>11, <3>1, <3>3, <3>5
      <4> QED BY <3>1, <4>1 DEF Refuse, Answered
    <3> QED BY <3>4, <3>5
  <2>3. CASE i # 1
    <3>1. PICK k : k = i - 1
      OBVIOUS
    <3>2. k \in DOMAIN requests' /\ requests'[k] = requests[i] /\ k \in Nat /\ k + 1 = i
      BY <1>3, <2>3, <3>1
    <3>3. SuitedFrom(p, k)'
      BY <1>13, <2>1, <3>2
    <3>4. Asks(k)' /\ requests'[k].open = p /\ requests'[k].request.filter = FilterOf[p]
      BY <2>1, <3>2 DEF Asks
    <3> QED BY <3>2, <3>3, <3>4 DEF Queuing
  <2> QED BY <2>2, <2>3
<1>21. Upheld'
  BY <1>2, <1>4, <1>17, <1>19, <1>20 DEF Asked, Upheld
<1> QED BY <1>7, <1>9, <1>15, <1>16, <1>21 DEF Asked

\* The other steps ask for nothing: they lose what they lose.
LEMMA AskedElse ==
  ASSUME IsFiniteSet(Filters), SeatedInv, Structure', Placed', Asked,
         \/ \E o \in Opens : OpenJoin(o) /\ Refused(FilterOf[o], offered)
         \/ \E o \in Opens : OpenCancel(o) \/ Drop(o)
         \/ \E t \in Topics : ServerPublish(t)
         \/ ReceiveSuback \/ ReceivePublish \/ Reap \/ UNCHANGED vars
  PROVE  Asked'
<1> USE DEF SeatedInv, CInv
<1>1. Vector(requests) /\ Vector(incoming) /\ RegistryTypeOK
  BY IncomingVector DEF Shape, Structure
<1>2. \A o \in Opens : (Alive(o) => Holds(FilterOf[o])) /\ (Alive(o)' => Holds(FilterOf[o])')
  <2>1. OneWireServes /\ OneWireServes'
    BY ServesPlaced, ServesPlacedNext
  <2> QED BY <2>1 DEF OneWireServes, Holds
<1>3. ASSUME Telling, UNCHANGED <<todo, member, server, history>>,
             \/ UNCHANGED pc
             \/ \E o \in Opens : \E s : pc' = [pc EXCEPT ![o] = s] /\ s \notin {"sending", "waiting", "open"},
             \A o \in Opens : Refuse(o) => Refuse(o)',
             \A i, r : Reply(i, r)' => \E k : Reply(k, r),
             \/ requests' = requests
             \/ \E u : requests' = Append(requests, u) /\ u.kind = "unsubscribe" /\ ~Holds(u.filter)'
      PROVE  Asked'
  <2>1. \A p \in Opens : /\ Alive(p)' => Alive(p)
                         /\ pc'[p] = "sending" => pc[p] = "sending"
                         /\ Alive(p)' /\ pc'[p] # "sending" => pc[p] # "sending"
    BY <1>3 DEF Alive, TypeOK
  <2> QED BY <1>1, <1>2, <1>3, <2>1, AskedCalm
<1>4. ASSUME NEW m, Release(m) \/ (Leave(m) /\ UNCHANGED requests)
      PROVE  /\ Telling
             /\ \/ requests' = requests
                \/ \E u : requests' = Append(requests, u) /\ u.kind = "unsubscribe" /\ ~Holds(u.filter)'
  <2>1. Leave(m)
    BY <1>4 DEF Release
  <2>2. Telling
    BY <1>1, <2>1, LeaveTells
  <2>3. CASE requests' = requests
    BY <2>2, <2>3
  <2>4. CASE requests' # requests
    <3>1. PICK f : f = CHOOSE g \in TakenOff(m) : TRUE
      OBVIOUS
    <3>2. TakenOff(m) # {} /\ requests' = Append(requests, [kind |-> "unsubscribe", filter |-> f])
      BY <1>4, <2>4, <3>1 DEF Release
    <3>3. f \in TakenOff(m)
      BY <3>1, <3>2
    <3>4. ~Holds(f)'
      BY <2>1, <3>3, HoldsLeft
    <3>5. PICK u : u = [kind |-> "unsubscribe", filter |-> f]
      OBVIOUS
    <3>6. u.kind = "unsubscribe" /\ u.filter = f
      BY <3>5
    <3>7. ~Holds(u.filter)'
      BY <3>4, <3>6 DEF Holds
    <3> QED BY <2>2, <3>2, <3>5, <3>6, <3>7
  <2> QED BY <2>3, <2>4
<1>5. ASSUME UNCHANGED incoming
      PROVE  /\ \A o \in Opens : Refuse(o) => Refuse(o)'
             /\ \A i, r : Reply(i, r)' => \E k : Reply(k, r)
  BY <1>5 DEF Refuse, Answered, Reply
\* What is read leaves the other answers.
<1>6. ASSUME incoming # <<>>, incoming' = Tail(incoming)
      PROVE  /\ 1 \in DOMAIN incoming /\ Head(incoming) = incoming[1]
             /\ \A o \in Opens :
                  Refuse(o) /\ ~(Answered(1) /\ incoming[1].open = o /\ ~incoming[1].accepted) => Refuse(o)'
             /\ \A i, r : Reply(i, r)' => \E k : Reply(k, r)
  <2>1. /\ DOMAIN incoming = 1..Len(incoming) /\ DOMAIN incoming' = 1..(Len(incoming) - 1)
        /\ Len(incoming) \in Nat /\ Head(incoming) = incoming[1] /\ 1 \in DOMAIN incoming
        /\ \A i \in DOMAIN incoming' : i + 1 \in DOMAIN incoming /\ incoming'[i] = incoming[i + 1]
    BY <1>1, <1>6, VectorTail
  <2>2. ASSUME NEW i \in DOMAIN incoming, i # 1
        PROVE  i - 1 \in DOMAIN incoming' /\ incoming'[i - 1] = incoming[i]
    <3>1. i - 1 \in DOMAIN incoming' /\ (i - 1) + 1 = i
      BY <2>1, <2>2
    <3> QED BY <2>1, <3>1
  <2>3. ASSUME NEW o \in Opens, Refuse(o), ~(Answered(1) /\ incoming[1].open = o /\ ~incoming[1].accepted)
        PROVE  Refuse(o)'
    <3>1. PICK i \in DOMAIN incoming : Answered(i) /\ incoming[i].open = o /\ ~incoming[i].accepted
      BY <2>3 DEF Refuse
    <3>2. i - 1 \in DOMAIN incoming' /\ incoming'[i - 1] = incoming[i]
      BY <2>2, <2>3, <3>1
    <3> QED BY <3>1, <3>2 DEF Refuse, Answered
  <2>4. \A i, r : Reply(i, r)' => Reply(i + 1, r)
    BY <2>1 DEF Reply
  <2> QED BY <2>1, <2>3, <2>4
<1>7. ASSUME NEW o \in Opens, OpenJoin(o), Refused(FilterOf[o], offered) PROVE Asked'
  <2>1. /\ UNCHANGED <<registryVars, todo, member, server, history, requests, incoming>>
        /\ pc' = [pc EXCEPT ![o] = "failed"]
    BY <1>7 DEF OpenJoin, serverVars, history
  <2>2. Telling
    BY <1>1, <2>1, RouteTells DEF registryVars
  <2>3. \E x \in Opens : \E s : pc' = [pc EXCEPT ![x] = s] /\ s \notin {"sending", "waiting", "open"}
    <3>1. "failed" \notin {"sending", "waiting", "open"}
      OBVIOUS
    <3> QED BY <2>1, <3>1
  <2> QED BY <1>3, <1>5, <2>1, <2>2, <2>3
<1>8. ASSUME NEW o \in Opens, OpenCancel(o) PROVE Asked'
  <2>1. /\ UNCHANGED <<registryVars, todo, member, server, history, requests, incoming>>
        /\ pc' = [pc EXCEPT ![o] = "cancelled"]
    BY <1>8 DEF OpenCancel, serverVars
  <2>2. Telling
    BY <1>1, <2>1, RouteTells DEF registryVars
  <2>3. \E x \in Opens : \E s : pc' = [pc EXCEPT ![x] = s] /\ s \notin {"sending", "waiting", "open"}
    <3>1. "cancelled" \notin {"sending", "waiting", "open"}
      OBVIOUS
    <3> QED BY <2>1, <3>1
  <2> QED BY <1>3, <1>5, <2>1, <2>2, <2>3
<1>9. ASSUME NEW o \in Opens, Drop(o) PROVE Asked'
  <2>1. /\ UNCHANGED <<todo, member, server, history, incoming>>
        /\ pc' = [pc EXCEPT ![o] = "closed"]
        /\ Release(member[o]) \/ (Leave(member[o]) /\ UNCHANGED requests)
    BY <1>9 DEF Drop, serverVars
  <2>2. \E x \in Opens : \E s : pc' = [pc EXCEPT ![x] = s] /\ s \notin {"sending", "waiting", "open"}
    <3>1. "closed" \notin {"sending", "waiting", "open"}
      OBVIOUS
    <3> QED BY <2>1, <3>1
  <2> QED BY <1>3, <1>4, <1>5, <2>1, <2>2
<1>10. CASE Reap
  <2>1. UNCHANGED <<pc, todo, member, server, history, incoming>> /\ Release(Head(reaping))
    BY <1>10 DEF Reap, serverVars, openVars
  <2> QED BY <1>3, <1>4, <1>5, <2>1
<1>11. CASE UNCHANGED vars
  <2>1. UNCHANGED <<wires, pc, todo, member, server, history, requests, incoming>>
    BY <1>11 DEF vars, serverVars, openVars, registryVars
  <2>2. Telling
    BY <1>1, <2>1, RouteTells
  <2> QED BY <1>3, <1>5, <2>1, <2>2
<1>12. ASSUME NEW t \in Topics, ServerPublish(t) PROVE Asked'
  <2>1. UNCHANGED <<wires, pc, todo, member, server, history, requests>>
    BY <1>12 DEF ServerPublish, openVars, registryVars
  <2>2. Telling
    BY <1>1, <2>1, RouteTells
  <2>3. PICK s : /\ Vector(s) /\ incoming' = incoming \o s
                 /\ \A i \in DOMAIN s : s[i].kind = "publish"
    BY <1>1, <1>12, CopiesSent
  <2>4. /\ DOMAIN incoming' = 1..(Len(incoming) + Len(s)) /\ Len(incoming) \in Nat /\ Len(s) \in Nat
        /\ DOMAIN incoming = 1..Len(incoming) /\ DOMAIN s = 1..Len(s)
        /\ \A i \in DOMAIN incoming' :
             incoming'[i] = IF i <= Len(incoming) THEN incoming[i] ELSE s[i - Len(incoming)]
    BY <1>1, <2>3, VectorConcat, VectorPlaces
  <2>5. \A i \in DOMAIN incoming : i \in DOMAIN incoming' /\ incoming'[i] = incoming[i]
    BY <2>4
  <2>6. ASSUME NEW i \in DOMAIN incoming', incoming'[i].kind # "publish"
        PROVE  i \in DOMAIN incoming
    <3>1. CASE i <= Len(incoming)
      BY <2>4, <3>1
    <3>2. CASE ~(i <= Len(incoming))
      <4>1. i - Len(incoming) \in DOMAIN s /\ incoming'[i] = s[i - Len(incoming)]
        BY <2>4, <3>2
      <4> QED BY <2>3, <2>6, <4>1
    <3> QED BY <3>1, <3>2
  <2>7. /\ \A o \in Opens : Refuse(o) => Refuse(o)'
        /\ \A i, r : Reply(i, r)' => \E k : Reply(k, r)
    BY <2>5, <2>6 DEF Refuse, Answered, Reply
  <2> QED BY <1>3, <2>1, <2>2, <2>7
<1>13. CASE ReceivePublish
  <2>1. /\ incoming # <<>> /\ incoming' = Tail(incoming) /\ Head(incoming).kind = "publish"
        /\ UNCHANGED <<pc, todo, member, server, history, requests>>
        /\ UNCHANGED wires \/ \E t, ids : Route(t, ids)
    BY <1>13 DEF ReceivePublish, serverVars, openVars, registryVars
  <2>2. Telling
    BY <1>1, <2>1, RouteTells
  <2>3. ~Answered(1)
    BY <1>6, <2>1 DEF Answered
  <2> QED BY <1>3, <1>6, <2>1, <2>2, <2>3
<1>14. CASE ReceiveSuback
  <2>1. /\ incoming # <<>> /\ incoming' = Tail(incoming) /\ Head(incoming).kind = "suback"
        /\ UNCHANGED <<todo, member, server, history, requests>>
    BY <1>14 DEF ReceiveSuback, serverVars
  <2>2. PICK a : a = incoming[1] /\ a = Head(incoming)
    BY <1>6, <2>1
  <2>3. CASE a.request.refresh
    <3>1. PICK r : r = a.request
      OBVIOUS
    <3>2. PICK accepted : accepted = a.accepted
      OBVIOUS
    <3>3. Identified(r.filter, accepted) /\ UNCHANGED pc
      BY <1>14, <2>2, <2>3, <3>1, <3>2 DEF ReceiveSuback
    <3>4. Reply(1, r) /\ r.refresh /\ ~Answered(1)
      BY <1>6, <2>1, <2>2, <2>3, <3>1 DEF Reply, Answered
    <3>5. Answers = {TRUE} => accepted = TRUE
      BY <1>6, <2>1, <2>2, <2>3, <3>2 DEF IncomingSent, Sent
    <3>6. \A o \in Opens : member[o] >= NoMember
      BY DEF TypeOK, NoMember
    <3> QED BY <1>1, <1>2, <1>6, <2>1, <3>3, <3>4, <3>5, <3>6, AskedIdentified
  <2>4. CASE ~a.request.refresh
    <3>1. Answered(1)
      BY <1>6, <2>1, <2>2, <2>4 DEF Answered
    <3>2. PICK o \in Opens : o = a.open /\ pc[o] \in Pending
      BY <1>6, <2>1, <2>2, <3>1 DEF Answering
    <3>3. /\ pc' = [pc EXCEPT ![o] = Outcome(pc[o], a.accepted)]
          /\ UNCHANGED registryVars \/ Leave(member[o])
      BY <1>14, <2>2, <2>4, <3>2 DEF ReceiveSuback
    <3>4. Telling
      BY <1>1, <3>3, RouteTells, LeaveTells DEF registryVars
    <3>5. /\ \A x \in Opens \ {o} : pc'[x] = pc[x]
          /\ pc'[o] \in {"open", "failed", "cancelled"}
          /\ pc'[o] = "open" => pc[o] = "waiting" /\ a.accepted
      BY <3>2, <3>3 DEF TypeOK, Pending, Outcome
    <3>6. \A p \in Opens : /\ Alive(p)' => Alive(p)
                           /\ Alive(p)' => ~(Answered(1) /\ incoming[1].open = p /\ ~incoming[1].accepted)
                           /\ pc'[p] = "sending" => pc[p] = "sending"
                           /\ Alive(p)' /\ pc'[p] # "sending" => pc[p] # "sending"
      BY <2>2, <3>2, <3>5 DEF Alive
    <3> QED BY <1>1, <1>2, <1>6, <2>1, <3>4, <3>6, AskedCalm
  <2> QED BY <2>3, <2>4
<1> QED BY <1>7, <1>8, <1>9, <1>10, <1>11, <1>12, <1>13, <1>14

\* Every step keeps it.
LEMMA AskedStep ==
  ASSUME IsFiniteSet(Filters), SeatedInv, Structure', Placed', Sendable, Asked,
         Answers = {TRUE} => Lettered(offered),
         server = [f \in Filters |-> server[f]], [Next]_vars
  PROVE  /\ Asked'
         /\ Answers = {TRUE} => Lettered(offered)'
         /\ server' = [f \in Filters |-> server'[f]]
<1>1. offered \in BOOLEAN /\ Structure /\ RegistryTypeOK /\ IncomingSent
  BY DEF SeatedInv, CInv, TypeOK, Structure
<1>2. ASSUME NEW o \in Opens, OpenJoin(o), ~Refused(FilterOf[o], offered)
      PROVE  Asked' /\ (Answers = {TRUE} => Lettered(offered)') /\ UNCHANGED server
  <2>1. Join(FilterOf[o], QosOf[o], offered) /\ UNCHANGED <<offered, server>>
    BY <1>2 DEF OpenJoin, serverVars
  <2>2. FilterOf[o] \in Filters /\ QosOf[o] \in Qos
    BY ConnectionAssumption
  <2>3. PICK offers : offers = offered /\ offers = offered'
    BY <2>1
  <2>4. Lettered(offers) => Lettered(offers)'
    BY <1>1, <2>1, <2>2, <2>3, JoinLetters
  <2>5. Answers = {TRUE} => Lettered(offered)'
    BY <2>3, <2>4 DEF Lettered
  <2> QED BY <1>2, <2>1, <2>5, AskedJoined
<1>3. ASSUME Answers = {TRUE} => Subsiding, UNCHANGED offered PROVE Answers = {TRUE} => Lettered(offered)'
  <2>1. PICK offers : offers = offered /\ offers = offered'
    BY <1>3
  <2>2. Answers = {TRUE} /\ Lettered(offers) => Lettered(offers)'
    BY <1>3, LetteredSubsides
  <2> QED BY <2>1, <2>2 DEF Lettered
<1>4. ASSUME NEW o \in Opens, OpenSend(o)
      PROVE  Asked' /\ (Answers = {TRUE} => Lettered(offered)') /\ UNCHANGED server
  <2>1. UNCHANGED <<registryVars, offered, server>>
    BY <1>4 DEF OpenSend, serverVars
  <2>2. Subsiding
    BY <1>1, <2>1, InPlaceSubsides DEF registryVars
  <2> QED BY <1>3, <1>4, <2>1, <2>2, AskedSent
<1>5. CASE ServerTake
  <2>1. UNCHANGED <<registryVars, offered>>
    BY <1>5 DEF ServerTake
  <2>2. Subsiding
    BY <1>1, <2>1, InPlaceSubsides DEF registryVars
  <2> QED BY <1>3, <1>5, <2>1, <2>2, AskedTaken DEF SeatedInv
<1>6. CASE \/ \E o \in Opens : OpenJoin(o) /\ Refused(FilterOf[o], offered)
           \/ \E o \in Opens : OpenCancel(o) \/ Drop(o)
           \/ \E t \in Topics : ServerPublish(t)
           \/ ReceiveSuback \/ ReceivePublish \/ Reap \/ UNCHANGED vars
  <2>1. Asked'
    BY <1>6, AskedElse
  <2>2. UNCHANGED <<offered, server>>
    BY <1>6 DEF OpenJoin, OpenCancel, Drop, ServerPublish, ReceiveSuback, ReceivePublish, Reap, vars,
                serverVars
  <2>3. \/ UNCHANGED registryVars
        \/ \E m : Leave(m)
        \/ \E t, ids : Route(t, ids)
        \/ ReceiveSuback /\ \E f : Identified(f, Head(incoming).accepted) /\ Head(incoming).request.refresh
    BY <1>6 DEF OpenJoin, OpenCancel, Drop, Release, ServerPublish, ReceiveSuback, ReceivePublish,
                Reap, vars
  <2>4. Answers = {TRUE} => Subsiding
    <3>1. CASE ReceiveSuback /\ \E f : Identified(f, Head(incoming).accepted) /\ Head(incoming).request.refresh
      <4>1. Sent(Head(incoming)) /\ Head(incoming).kind = "suback"
        BY <1>1, <3>1, IncomingTail DEF ReceiveSuback
      <4>2. Answers = {TRUE} => Head(incoming).accepted = TRUE
        BY <3>1, <4>1 DEF Sent
      <4> QED BY <1>1, <3>1, <4>2, InPlaceSubsides
    <3> QED BY <1>1, <2>3, <3>1, InPlaceSubsides, LeaveSubsides DEF registryVars
  <2> QED BY <1>3, <2>1, <2>2, <2>4
<1> QED BY <1>2, <1>4, <1>5, <1>6 DEF Next

AskedInv ==
  /\ SeatedInv /\ Sendable /\ Asked
  /\ Answers = {TRUE} => Lettered(offered)
  /\ server = [f \in Filters |-> server[f]]

LEMMA AskedInit == Init => AskedInv
<1> SUFFICES ASSUME Init PROVE AskedInv
  OBVIOUS
<1>1. SeatedInv
  BY SeatedInit
<1>2. /\ pc = [o \in Opens |-> "idle"] /\ todo = [o \in Opens |-> <<>>]
      /\ RegistryInit /\ requests = <<>> /\ incoming = <<>> /\ DOMAIN <<>> = {}
      /\ server \in Resumable
  BY DEF Init
<1>3. Sendable
  BY <1>2 DEF Sendable
<1>4. Asked
  BY <1>2 DEF Asked, Kinds, DueFits, Due, RefreshFits, Sub, Reply, Upheld, Alive
<1>5. Lettered(offered)
  BY <1>2, LetteredInit
<1>6. server = [f \in Filters |-> server[f]]
  BY <1>2, ConnectionAssumption
<1> QED BY <1>1, <1>3, <1>4, <1>5, <1>6 DEF AskedInv

LEMMA AskedInvStep ==
  ASSUME IsFiniteSet(Filters)
  PROVE  AskedInv /\ [Next]_vars => AskedInv'
<1> SUFFICES ASSUME AskedInv, [Next]_vars PROVE AskedInv'
  OBVIOUS
<1>1. SeatedInv'
  BY SeatedStep DEF AskedInv
<1>2. Structure' /\ Placed'
  BY <1>1 DEF SeatedInv, CInv
<1>3. Sendable'
  BY <1>2, SendableStep DEF AskedInv, SeatedInv
<1>4. /\ Asked' /\ (Answers = {TRUE} => Lettered(offered)')
      /\ server' = [f \in Filters |-> server'[f]]
  BY <1>2, AskedStep DEF AskedInv
<1> QED BY <1>1, <1>3, <1>4 DEF AskedInv, Lettered

\* What an open stream needs, the server has: its subscribe was answered, and was not refused.
LEMMA OpenServed ==
  ASSUME AskedInv, NEW o \in Opens, pc[o] = "open"
  PROVE  \A s : s = server[FilterOf[o]] => Suits(s, o)
<1>1. Alive(o) /\ pc[o] # "sending"
  BY DEF Alive
<1>2. ~Refuse(o) /\ ~Queuing(o)
  BY DEF AskedInv, SeatedInv, Answering, Refuse, Queuing, Pending
<1>3. Served(o)
  BY <1>1, <1>2 DEF AskedInv, Asked, Upheld
<1> QED BY <1>3 DEF Served

\* The server serves every open stream at the quality of service it asked for or above,
\* whatever else opens, is refused, is given up, is refreshed and goes, and in whichever
\* order their requests are queued: until a request about its filter overtakes an earlier
\* join's.
THEOREM StreamsServed ==
  ASSUME IsFiniteSet(Filters)
  PROVE  Spec => []QosServedInTurn
<1>1. Init => AskedInv
  BY AskedInit
<1>2. AskedInv /\ [Next]_vars => AskedInv'
  BY AskedInvStep
<1>3. AskedInv => QosServedInTurn
  <2> SUFFICES ASSUME AskedInv, NEW o \in Opens, pc[o] = "open", FilterOf[o] \notin overtaken
               PROVE  server[FilterOf[o]].qos >= QosOf[o]
    BY DEF QosServedInTurn
  <2> QED BY OpenServed DEF Suits
<1> QED BY <1>1, <1>2, <1>3, PTL DEF Spec

\* A server that grants what it is asked to refresh holds every open stream's filter with
\* the identifier its packets are routed by, or without one while a refresh is to come,
\* whatever the requests of other opens, refreshes and unsubscribes it took since: until a
\* request about the filter overtakes an earlier join's, or it is opened anew with a
\* refresh unanswered.
THEOREM ServerAgrees ==
  ASSUME IsFiniteSet(Filters), Answers = {TRUE}
  PROVE  Spec => []IdentifiersAgree
<1>1. Init => AskedInv
  BY AskedInit
<1>2. AskedInv /\ [Next]_vars => AskedInv'
  BY AskedInvStep
<1>3. AskedInv => IdentifiersAgree
  <2> SUFFICES ASSUME AskedInv, NEW o \in Opens, NEW n \in DOMAIN wires,
                      pc[o] = "open", FilterOf[o] \notin overtaken \cup reopened,
                      wires[n].filter = FilterOf[o]
               PROVE  \/ server[FilterOf[o]].identifier = wires[n].identifier
                      \/ wires[n].unnamed /\ server[FilterOf[o]].identifier = NoIdentifier
    BY DEF IdentifiersAgree
  <2>1. Firm(FilterOf[o])
    BY DEF Firm
  <2>2. Fits(FilterOf[o], server[FilterOf[o]].identifier)
    BY <2>1, OpenServed DEF Suits
  <2> QED BY <2>2 DEF Fits
<1> QED BY <1>1, <1>2, <1>3, PTL DEF Spec
=============================================================================
