-------------------------- MODULE InProcessProofs --------------------------
(***************************************************************************)
(* The in-process transport, for any number of subscriptions and threads:   *)
(* the harness's count is that of the deliveries the streams hold, what a   *)
(* stream reads of one thread's retained messages gets no older, and at     *)
(* rest the server holds what is open and routes names who is handed what.  *)
(* They rest on who sits at the registry's table and what it asks for,      *)
(* which RegistryProofs says, and on how far each packet and request got.   *)
(***************************************************************************)
EXTENDS InProcess, RegistryProofs

-----------------------------------------------------------------------------
(* Types.                                                                  *)

\* What the variables are made of.  A subscription that was not opened has no member and
\* no deliveries.
OpenShape ==
  /\ pc = [o \in Opens |-> pc[o]] /\ member = [o \in Opens |-> member[o]]
  /\ handing = [o \in Opens |-> handing[o]]
  /\ \A o \in Opens : Vector(handing[o]) /\ (pc[o] = "idle" => member[o] = NoMember)

StreamShape ==
  /\ inbox = [o \in Opens |-> inbox[o]] /\ settled = [o \in Opens |-> settled[o]]
  /\ \A o \in Opens : /\ Vector(inbox[o]) /\ settled[o] \in 0..Len(inbox[o])
                      /\ pc[o] = "idle" => inbox[o] = <<>>
  /\ Vector(held) /\ Len(held) <= HeldCapacity

ServerShape ==
  /\ Vector(server) /\ Vector(published)
  /\ retained = [t \in Topics |-> retained[t]]

ThreadShape ==
  /\ next = [th \in Threads |-> next[th]] /\ sending = [th \in Threads |-> sending[th]]
  /\ \A th \in Threads : Vector(sending[th]) /\ next[th] \in Nat

Shape == OpenShape /\ StreamShape /\ ServerShape /\ ThreadShape

\* A packet is held, or handed to the takers of its targets, one copy each.
LEMMA HandCases ==
  ASSUME Shape, NEW p, HandOver(p), NEW targets, targets = Targets(p.topic, p.ids)
  PROVE  \/ targets = {} /\ Hold(p) /\ UNCHANGED <<registryVars, inbox>>
         \/ /\ targets # {} /\ Route(p.topic, p.ids) /\ UNCHANGED held
            /\ inFlight' = inFlight + Cardinality(targets)
            /\ inbox' = [o \in Opens |-> inbox'[o]]
            /\ \A o \in Opens :
                 \/ /\ o \in Takers(targets)
                    /\ \E d : inbox'[o] = Append(inbox[o], d) /\ d.packet = p
                 \/ o \notin Takers(targets) /\ inbox'[o] = inbox[o]
<1> DEFINE CopyOf(o) == [packet |-> p,
                         ack |-> p.acks /\ \E n \in targets : /\ Taker(n) = member[o]
                                                              /\ CarriesAck(n, targets)]
<1>1. CASE targets = {}
  BY <1>1 DEF HandOver
<1>2. CASE targets # {}
  <2>1. /\ Route(p.topic, p.ids) /\ UNCHANGED held
        /\ inFlight' = inFlight + Cardinality(targets)
    BY <1>2 DEF HandOver
  <2>2. inbox' = [o \in Opens |-> IF o \in Takers(targets) THEN Append(inbox[o], CopyOf(o))
                                  ELSE inbox[o]]
    BY <1>2 DEF HandOver
  <2>3. \A o : CopyOf(o).packet = p
    OBVIOUS
  <2> HIDE DEF CopyOf
  <2>4. inbox' = [o \in Opens |-> inbox'[o]]
    BY <2>2
  <2>5. \A o \in Opens :
          \/ /\ o \in Takers(targets)
             /\ \E d : inbox'[o] = Append(inbox[o], d) /\ d.packet = p
          \/ o \notin Takers(targets) /\ inbox'[o] = inbox[o]
    BY <2>2, <2>3
  <2> QED BY <1>2, <2>1, <2>4, <2>5
<1> QED BY <1>1, <1>2

\* A delivery is one of those before, or the last.
LEMMA Longer ==
  ASSUME NEW s, Vector(s), NEW d, NEW t, t = Append(s, d)
  PROVE  /\ Vector(t) /\ Len(s) \in Nat /\ Len(t) = Len(s) + 1
         /\ DOMAIN s = 1..Len(s) /\ DOMAIN t = 1..(Len(s) + 1)
         /\ \A i \in DOMAIN s : i \in DOMAIN t /\ t[i] = s[i]
         /\ t[Len(s) + 1] = d
<1>1. /\ Vector(Append(s, d))
      /\ Len(s) \in Nat /\ DOMAIN s = 1..Len(s)
      /\ Len(Append(s, d)) = Len(s) + 1 /\ DOMAIN Append(s, d) = 1..(Len(s) + 1)
      /\ \A i \in DOMAIN s : Append(s, d)[i] = s[i]
      /\ Append(s, d)[Len(s) + 1] = d
  BY VectorLonger
<1>2. 1..Len(s) \subseteq 1..(Len(s) + 1)
  BY <1>1
<1> QED BY <1>1, <1>2

\* The buffer holds no more than it has room for.
LEMMA HoldPlaces ==
  ASSUME Vector(held), Len(held) <= HeldCapacity, NEW p, Hold(p)
  PROVE  Vector(held') /\ Len(held') <= HeldCapacity /\ Taking(held, p, held')
<1> DEFINE t == held'
<1>1. \/ Len(held) >= HeldCapacity /\ t = Append(Tail(held), p)
      \/ ~(Len(held) >= HeldCapacity) /\ t = Append(held, p)
  BY DEF Hold
<1>2. HeldCapacity \in Nat \ {0}
  BY InProcessAssumption
<1> HIDE DEF t
<1>3. Vector(t) /\ Len(t) <= HeldCapacity /\ Taking(held, p, t)
  BY <1>1, <1>2, VectorRoom
<1> QED BY <1>3 DEF t

\* The claimed packets become deliveries, one each, in their order; the others stay.
LEMMA JoinPlaces ==
  ASSUME Shape, NEW o \in Opens, OpenJoin(o)
  PROVE  \E P, Q \in SUBSET DOMAIN held :
           /\ held' = At(held, Q)
           /\ inbox' = [x \in Opens |-> inbox'[x]]
           /\ \A x \in Opens \ {o} : inbox'[x] = inbox[x]
           /\ Vector(inbox'[o]) /\ DOMAIN inbox'[o] = DOMAIN At(held, P)
           /\ \A i \in DOMAIN inbox'[o] : inbox'[o][i].packet = At(held, P)[i]
           /\ Len(inbox'[o]) \in Nat /\ inFlight' = inFlight + Len(inbox'[o])
<1> DEFINE P == {i \in DOMAIN held : Claimed(held[i], o)}
           Q == {i \in DOMAIN held : ~Claimed(held[i], o)}
           claimed == At(held, P)
           handed == [n \in DOMAIN claimed |-> [packet |-> claimed[n], ack |-> claimed[n].acks]]
<1>1. held' = At(held, Q)
  BY DEF OpenJoin, Select, Unclaimed
<1>2. inbox' = [inbox EXCEPT ![o] = handed] /\ inFlight' = inFlight + Len(claimed)
  <2>1. Select(held, LAMBDA p : Claimed(p, o)) = claimed
    BY DEF Select
  <2>2. /\ inbox' = [inbox EXCEPT ![o] =
                      [n \in DOMAIN Select(held, LAMBDA p : Claimed(p, o)) |->
                         [packet |-> Select(held, LAMBDA p : Claimed(p, o))[n],
                          ack |-> Select(held, LAMBDA p : Claimed(p, o))[n].acks]]]
        /\ inFlight' = inFlight + Len(Select(held, LAMBDA p : Claimed(p, o)))
    BY DEF OpenJoin
  <2> HIDE DEF claimed
  <2> QED BY <2>1, <2>2
<1>3. P \in SUBSET DOMAIN held /\ Q \in SUBSET DOMAIN held
  OBVIOUS
<1> HIDE DEF P, Q
<1>4. Len(claimed) \in Nat /\ DOMAIN claimed = 1..Len(claimed)
  BY <1>3, VectorAt DEF Shape, StreamShape
<1>5. DOMAIN handed = DOMAIN claimed /\ \A i \in DOMAIN handed : handed[i].packet = claimed[i]
  OBVIOUS
<1> HIDE DEF claimed
<1>6. handed = [i \in 1..Len(claimed) |-> handed[i]]
  BY <1>4
<1> HIDE DEF handed
<1>7. Vector(handed) /\ Len(handed) = Len(claimed)
  BY <1>4, <1>6, VectorFunction
<1>8. /\ inbox'[o] = handed /\ inbox' = [x \in Opens |-> inbox'[x]]
      /\ \A x \in Opens \ {o} : inbox'[x] = inbox[x]
  BY <1>2 DEF Shape, StreamShape
<1> QED BY <1>1, <1>2, <1>3, <1>4, <1>5, <1>7, <1>8 DEF claimed

\* A packet handed over keeps the streams' shape.
LEMMA StreamsHanded ==
  ASSUME Structure, Shape, NEW p, HandOver(p), UNCHANGED <<pc, settled>>
  PROVE  StreamShape'
<1> DEFINE targets == Targets(p.topic, p.ids)
<1>1. CASE targets = {}
  <2>1. Hold(p) /\ UNCHANGED inbox
    BY <1>1 DEF HandOver
  <2>2. Vector(held') /\ Len(held') <= HeldCapacity
    BY <2>1, HoldPlaces DEF Shape, StreamShape
  <2> QED BY <2>1, <2>2 DEF Shape, StreamShape
<1>2. CASE targets # {}
  <2>1. /\ UNCHANGED held /\ inbox' = [o \in Opens |-> inbox'[o]]
        /\ \A o \in Opens :
             \/ /\ o \in Takers(targets)
                /\ \E d : inbox'[o] = Append(inbox[o], d) /\ d.packet = p
             \/ o \notin Takers(targets) /\ inbox'[o] = inbox[o]
    <3> HIDE DEF targets
    <3>1. targets = Targets(p.topic, p.ids)
      BY DEF targets
    <3> QED BY <1>2, <3>1, HandCases
  <2>2. \A o \in Takers(targets) : pc[o] # "idle"
    <3>1. targets \subseteq DOMAIN wires
      BY DEF Targets
    <3>2. \A n \in DOMAIN wires : Taker(n) \in Nat
      BY TakerSits
    <3> QED BY <3>1, <3>2 DEF Takers, NoMember, Shape, OpenShape
  <2>3. ASSUME NEW o \in Opens
        PROVE  /\ Vector(inbox'[o]) /\ settled[o] \in 0..Len(inbox'[o])
               /\ pc[o] = "idle" => inbox'[o] = <<>>
    <3>1. CASE inbox'[o] = inbox[o]
      BY <3>1 DEF Shape, StreamShape
    <3>2. ASSUME o \in Takers(targets), NEW d, inbox'[o] = Append(inbox[o], d)
          PROVE  /\ Vector(inbox'[o]) /\ settled[o] \in 0..Len(inbox'[o])
                 /\ pc[o] = "idle" => inbox'[o] = <<>>
      <4> DEFINE s == inbox[o]
                 t == inbox'[o]
      <4>1. Vector(s) /\ t = Append(s, d) /\ settled[o] \in 0..Len(s)
        BY <3>2 DEF Shape, StreamShape
      <4> HIDE DEF s, t
      <4>2. Vector(t) /\ Len(s) \in Nat /\ Len(t) = Len(s) + 1
        BY <4>1, Longer
      <4>3. settled[o] \in 0..Len(t)
        BY <4>1, <4>2
      <4> QED BY <2>2, <3>2, <4>2, <4>3 DEF t
    <3> QED BY <2>1, <3>1, <3>2
  <2> QED BY <2>1, <2>3 DEF Shape, StreamShape
<1> QED BY <1>1, <1>2

\* A subscribe changes the server's table in place or at its end.
LEMMA PutServer ==
  ASSUME Vector(server), NEW o, NEW request, Put(o, request)
  PROVE  Vector(server')
<1> DEFINE sub == [filter |-> request.filter, qos |-> request.qos,
                   identifier |-> request.identifier, since |-> Len(published)]
           Replaced(n) == IF server[n].filter = request.filter
                          THEN [sub EXCEPT !.since = server[n].since] ELSE server[n]
           put == [n \in DOMAIN server |-> Replaced(n)]
<1>1. server' = IF Served(request.filter) THEN put ELSE Append(server, sub)
  BY DEF Put
<1>2. Len(server) \in Nat /\ DOMAIN server = 1..Len(server)
  BY VectorPlaces
<1> HIDE DEF sub, Replaced
<1>3. put = [n \in 1..Len(server) |-> put[n]]
  BY <1>2
<1> HIDE DEF put
<1>4. Vector(put)
  BY <1>2, <1>3, VectorFunction
<1>5. Vector(Append(server, sub))
  BY VectorLonger
<1> QED BY <1>1, <1>4, <1>5

\* The server sends a packet for each of its subscriptions the message is for.
LEMMA SentPackets ==
  ASSUME Shape, NEW th \in Threads, Receive(th)
  PROVE  \E message \in [topic : Topics, qos : Qos, retain : BOOLEAN, empty : BOOLEAN, thread : {th}] :
           /\ published' = Append(published, message)
           /\ retained' = IF message.retain
                          THEN [retained EXCEPT ![message.topic] =
                                  IF message.empty THEN 0 ELSE Len(published) + 1]
                          ELSE retained
           /\ sending' = [x \in Threads |-> sending'[x]]
           /\ \A x \in Threads \ {th} : sending'[x] = sending[x]
           /\ Vector(sending'[th])
           /\ \A i \in DOMAIN sending'[th] : \E k \in DOMAIN server :
                /\ server[k].filter \in ServerMatching[message.topic]
                /\ sending'[th][i] = Packet(Len(published) + 1, message, server[k], FALSE)
<1> DEFINE message == Script[th][next[th] + 1]
           n       == Len(published) + 1
           P       == {k \in DOMAIN server : server[k].filter \in ServerMatching[message.topic]}
           subs    == At(server, P)
           sent    == [i \in DOMAIN subs |-> Packet(n, message, subs[i], FALSE)]
           Kind    == [topic : Topics, qos : Qos, retain : BOOLEAN, empty : BOOLEAN, thread : {th}]
<1>1. message \in Kind
  <2>1. Script[th] \in Seq(Kind) /\ next[th] \in Nat /\ next[th] < Len(Script[th])
    BY InProcessAssumption DEF Receive, Shape, ThreadShape
  <2> HIDE DEF Kind
  <2>2. next[th] + 1 \in DOMAIN Script[th] /\ \A i \in DOMAIN Script[th] : Script[th][i] \in Kind
    BY <2>1, SeqPlaces
  <2> QED BY <2>2
<1>2. /\ published' = Append(published, message)
      /\ retained' = IF message.retain
                     THEN [retained EXCEPT ![message.topic] = IF message.empty THEN 0 ELSE n]
                     ELSE retained
  BY DEF Receive
<1>3. sending' = [sending EXCEPT ![th] = sent]
  <2>1. Select(server, LAMBDA sub : sub.filter \in ServerMatching[message.topic]) = subs
    BY DEF Select
  <2>2. sending' = [sending EXCEPT ![th] =
           [i \in DOMAIN Select(server, LAMBDA sub : sub.filter \in ServerMatching[message.topic]) |->
              Packet(n, message,
                     Select(server, LAMBDA sub : sub.filter \in ServerMatching[message.topic])[i], FALSE)]]
    BY DEF Receive
  <2> HIDE DEF subs
  <2> QED BY <2>1, <2>2
<1>4. P \in SUBSET DOMAIN server
  OBVIOUS
<1>4a. \A k \in P : server[k].filter \in ServerMatching[message.topic]
  OBVIOUS
<1> HIDE DEF P
<1>5. /\ Cardinality(P) \in Nat /\ DOMAIN subs = 1..Cardinality(P)
      /\ \A i \in DOMAIN subs : \E k \in P : subs[i] = server[k]
  BY <1>4, VectorAt DEF Shape, ServerShape
<1> HIDE DEF subs, message, n
<1>6. sent = [i \in 1..Cardinality(P) |-> sent[i]] /\ DOMAIN sent = DOMAIN subs
      /\ \A i \in DOMAIN sent : sent[i] = Packet(n, message, subs[i], FALSE)
  BY <1>5
<1> HIDE DEF sent
<1>7. Vector(sent)
  BY <1>5, <1>6, VectorFunction
<1>8. /\ sending' = [x \in Threads |-> sending'[x]]
      /\ \A x \in Threads \ {th} : sending'[x] = sending[x]
      /\ sending'[th] = sent
  BY <1>3 DEF Shape, ThreadShape
<1>9. \A i \in DOMAIN sent : \E k \in DOMAIN server :
        /\ server[k].filter \in ServerMatching[message.topic]
        /\ sent[i] = Packet(Len(published) + 1, message, server[k], FALSE)
  BY <1>4, <1>4a, <1>5, <1>6 DEF n
<1> QED BY <1>1, <1>2, <1>7, <1>8, <1>9 DEF n

\* What a subscribe asks for: the last retained message of each topic it is for.
LEMMA RetainedPackets ==
  ASSUME IsFiniteSet(Topics), NEW request, NEW s, s = Retained(request)
  PROVE  /\ Vector(s)
         /\ \A i \in DOMAIN s : \E t \in Topics :
              /\ retained[t] # 0
              /\ s[i] = Packet(retained[t], published[retained[t]], request, TRUE)
<1>1. CASE request.filter \in ShareFilters
  <2>1. s = <<>> /\ DOMAIN <<>> = {}
    BY <1>1 DEF Retained
  <2> QED BY <2>1, VectorEmpty
<1>2. CASE request.filter \notin ShareFilters
  <2> DEFINE topics == {t \in Topics : retained[t] # 0 /\ request.filter \in ServerMatching[t]}
             k == Cardinality(topics)
             order == SetToSeq(topics)
             r == [n \in 1..k |-> Packet(retained[order[n]], published[retained[order[n]]], request, TRUE)]
  <2>1. s = r
    BY <1>2 DEF Retained
  <2>2. \A t \in topics : t \in Topics /\ retained[t] # 0
    OBVIOUS
  <2>3. IsFiniteSet(topics)
    BY FS_Subset
  <2> HIDE DEF topics
  <2>4. k \in Nat /\ ExistsBijection(1..k, topics)
    BY <2>3, FS_CardinalityType
  <2>5. \E f \in [1..k -> topics] : IsInjective(f)
    BY <2>4 DEF ExistsBijection, Bijection, Injection
  <2>6. order \in [1..k -> topics]
    BY <2>5 DEF SetToSeq
  <2> HIDE DEF k, order
  <2>7. r = [i \in 1..k |-> r[i]] /\ DOMAIN r = 1..k
    OBVIOUS
  <2>8. \A i \in 1..k : \E t \in Topics :
          retained[t] # 0 /\ r[i] = Packet(retained[t], published[retained[t]], request, TRUE)
    BY <2>2, <2>6
  <2> HIDE DEF r
  <2>9. Vector(r)
    BY <2>4, <2>7, VectorFunction DEF k
  <2> QED BY <2>1, <2>7, <2>8, <2>9
<1> QED BY <1>1, <1>2

\* Each step keeps the shape.
LEMMA ShapeStep ==
  ASSUME IsFiniteSet(Topics), Structure, Shape, [Next]_vars
  PROVE  Shape'
<1> USE DEF Shape
<1>1. ASSUME UNCHANGED <<inbox, settled, held>>, \A o \in Opens : pc'[o] = "idle" => pc[o] = "idle"
      PROVE  StreamShape'
  BY <1>1 DEF StreamShape
<1>2. ASSUME UNCHANGED serverVars PROVE ServerShape'
  BY <1>2 DEF ServerShape, serverVars
<1>3. ASSUME UNCHANGED threadVars PROVE ThreadShape'
  BY <1>3 DEF ThreadShape, threadVars
<1>4. ASSUME NEW o \in Opens, NEW at, at # "idle", pc' = [pc EXCEPT ![o] = at],
             UNCHANGED <<member, handing>>
      PROVE  OpenShape' /\ \A x \in Opens : pc'[x] = "idle" => pc[x] = "idle"
  BY <1>4 DEF OpenShape
<1>5. ASSUME NEW o \in Opens, OpenJoin(o) PROVE Shape'
  <2>1. ServerShape' /\ ThreadShape'
    BY <1>2, <1>3, <1>5 DEF OpenJoin
  <2>2. OpenShape'
    BY <1>5 DEF OpenJoin, OpenShape
  <2>3. PICK P \in SUBSET DOMAIN held, Q \in SUBSET DOMAIN held :
           /\ held' = At(held, Q)
           /\ inbox' = [x \in Opens |-> inbox'[x]]
           /\ \A x \in Opens \ {o} : inbox'[x] = inbox[x]
           /\ Vector(inbox'[o]) /\ DOMAIN inbox'[o] = DOMAIN At(held, P)
           /\ \A i \in DOMAIN inbox'[o] : inbox'[o][i].packet = At(held, P)[i]
           /\ Len(inbox'[o]) \in Nat /\ inFlight' = inFlight + Len(inbox'[o])
    BY <1>5, JoinPlaces
  <2>4. Vector(held') /\ Len(held') <= HeldCapacity
    <3>1. /\ Vector(At(held, Q)) /\ Cardinality(Q) \in Nat /\ Cardinality(Q) <= Len(held)
          /\ Len(At(held, Q)) = Cardinality(Q)
      BY VectorAt DEF StreamShape
    <3>2. Len(held) \in Nat /\ Len(held) <= HeldCapacity /\ HeldCapacity \in Nat
      BY VectorPlaces, InProcessAssumption DEF StreamShape
    <3>3. Cardinality(Q) <= HeldCapacity
      BY <3>1, <3>2
    <3> QED BY <2>3, <3>1, <3>3
  <2>5. settled[o] = 0 /\ pc[o] = "idle"
    <3>1. pc[o] = "idle" /\ inbox[o] = <<>> /\ settled[o] \in 0..Len(inbox[o])
      BY <1>5 DEF OpenJoin, StreamShape
    <3>2. Len(<<>>) = 0
      OBVIOUS
    <3> QED BY <3>1, <3>2
  <2>6. settled' = settled /\ pc' = [pc EXCEPT ![o] = "sending"]
    BY <1>5 DEF OpenJoin
  <2>7. ASSUME NEW x \in Opens
        PROVE  /\ Vector(inbox'[x]) /\ settled[x] \in 0..Len(inbox'[x])
               /\ pc'[x] = "idle" => inbox'[x] = <<>>
    <3>1. CASE x = o
      <4>1. pc'[x] = "sending"
        BY <2>6, <3>1 DEF OpenShape
      <4> QED BY <2>3, <2>5, <3>1, <4>1
    <3>2. CASE x # o
      <4>1. inbox'[x] = inbox[x] /\ pc'[x] = pc[x]
        BY <2>3, <2>6, <3>2 DEF OpenShape
      <4> QED BY <4>1 DEF StreamShape
    <3> QED BY <3>1, <3>2
  <2>8. StreamShape'
    BY <2>3, <2>4, <2>6, <2>7 DEF StreamShape
  <2> QED BY <2>1, <2>2, <2>8
<1>6. ASSUME NEW o \in Opens, RefreshCheck(o) PROVE Shape'
  <2>1. /\ UNCHANGED <<member, handing, streamVars, serverVars, threadVars>>
        /\ pc' = pc \/ pc' = [pc EXCEPT ![o] = "refreshing"]
    BY <1>6 DEF RefreshCheck
  <2>2. OpenShape' /\ \A x \in Opens : pc'[x] = "idle" => pc[x] = "idle"
    BY <1>4, <2>1 DEF OpenShape
  <2> QED BY <1>1, <1>2, <1>3, <2>1, <2>2 DEF streamVars
<1>7. ASSUME NEW o \in Opens, RefreshSubscribe(o) PROVE Shape'
  <2>1. /\ UNCHANGED <<member, handing, streamVars, retained, published, threadVars>>
        /\ pc' = [pc EXCEPT ![o] = "attached"] /\ Put(o, Head(todo[o]))
    BY <1>7 DEF RefreshSubscribe
  <2>2. OpenShape' /\ \A x \in Opens : pc'[x] = "idle" => pc[x] = "idle"
    BY <1>4, <2>1
  <2>3. Vector(server')
    BY <2>1, PutServer DEF ServerShape
  <2>4. ServerShape'
    BY <2>1, <2>3 DEF ServerShape
  <2> QED BY <1>1, <1>3, <2>1, <2>2, <2>4 DEF streamVars
<1>8. ASSUME NEW o \in Opens, RefreshIdentified(o) PROVE Shape'
  <2>1. /\ UNCHANGED <<member, handing, streamVars, serverVars, threadVars>>
        /\ pc' = [pc EXCEPT ![o] = "sending"]
    BY <1>8 DEF RefreshIdentified
  <2>2. OpenShape' /\ \A x \in Opens : pc'[x] = "idle" => pc[x] = "idle"
    BY <1>4, <2>1
  <2> QED BY <1>1, <1>2, <1>3, <2>1, <2>2 DEF streamVars
<1>9. ASSUME NEW o \in Opens, Subscribe(o) PROVE Shape'
  <2> DEFINE s == Retained(Head(todo[o]))
  <2>1. /\ UNCHANGED <<member, streamVars, retained, published, threadVars>>
        /\ pc' = [pc EXCEPT ![o] = "handing"] /\ Put(o, Head(todo[o]))
        /\ handing' = [handing EXCEPT ![o] = s]
    BY <1>9 DEF Subscribe
  <2>2. Vector(s)
    BY RetainedPackets
  <2> HIDE DEF s
  <2>3. OpenShape' /\ \A x \in Opens : pc'[x] = "idle" => pc[x] = "idle"
    BY <2>1, <2>2 DEF OpenShape
  <2>4. Vector(server')
    BY <2>1, PutServer DEF ServerShape
  <2>5. ServerShape'
    BY <2>1, <2>4 DEF ServerShape
  <2> QED BY <1>1, <1>3, <2>1, <2>3, <2>5 DEF streamVars
<1>10. ASSUME NEW o \in Opens, HandRetained(o) PROVE Shape'
  <2>1. /\ UNCHANGED <<pc, member, settled, serverVars, threadVars>>
        /\ handing[o] # <<>> /\ HandOver(Head(handing[o]))
        /\ handing' = [handing EXCEPT ![o] = Tail(handing[o])]
    BY <1>10 DEF HandRetained
  <2>2. StreamShape'
    BY <2>1, StreamsHanded
  <2>3. Vector(Tail(handing[o]))
    BY <2>1, VectorTail DEF OpenShape
  <2>4. OpenShape'
    BY <2>1, <2>3 DEF OpenShape
  <2> QED BY <1>2, <1>3, <2>1, <2>2, <2>4
<1>11. ASSUME NEW o \in Opens, Opened(o) PROVE Shape'
  <2>1. /\ UNCHANGED <<member, handing, streamVars, serverVars, threadVars>>
        /\ pc' = [pc EXCEPT ![o] = "open"]
    BY <1>11 DEF Opened
  <2>2. OpenShape' /\ \A x \in Opens : pc'[x] = "idle" => pc[x] = "idle"
    BY <1>4, <2>1
  <2> QED BY <1>1, <1>2, <1>3, <2>1, <2>2 DEF streamVars
<1>12. ASSUME NEW o \in Opens, Drop(o) PROVE Shape'
  <2>1. /\ UNCHANGED <<member, handing, inbox, held, retained, published, threadVars>>
        /\ pc' = [pc EXCEPT ![o] = "closed"] /\ settled' = [settled EXCEPT ![o] = Len(inbox[o])]
        /\ server' = server \/ server' = Released(TakenOff(member[o]))
    BY <1>12 DEF Drop
  <2>2. OpenShape' /\ \A x \in Opens : pc'[x] = "idle" => pc[x] = "idle"
    BY <1>4, <2>1
  <2>3. \A x \in Opens : Len(inbox[x]) \in Nat
    BY VectorPlaces DEF StreamShape
  <2>4. StreamShape'
    BY <2>1, <2>2, <2>3 DEF StreamShape
  <2>5. Vector(Released(TakenOff(member[o])))
    <3> DEFINE P == {i \in DOMAIN server : server[i].filter \notin TakenOff(member[o])}
    <3>1. Released(TakenOff(member[o])) = At(server, P)
      BY DEF Released, Select
    <3>2. P \in SUBSET DOMAIN server
      OBVIOUS
    <3> HIDE DEF P
    <3> QED BY <3>1, <3>2, VectorAt DEF ServerShape
  <2>6. ServerShape'
    BY <2>1, <2>5 DEF ServerShape
  <2> QED BY <1>3, <2>1, <2>2, <2>4, <2>6
<1>13. ASSUME NEW o \in Opens, Settle(o) PROVE Shape'
  <2>1. /\ UNCHANGED <<openVars, inbox, held, serverVars, threadVars>>
        /\ settled' = [settled EXCEPT ![o] = settled[o] + 1] /\ settled[o] < Len(inbox[o])
    BY <1>13 DEF Settle
  <2>2. \A x \in Opens : Len(inbox[x]) \in Nat
    BY VectorPlaces DEF StreamShape
  <2>3. StreamShape'
    <3>1. \A x \in Opens : settled'[x] = IF x = o THEN settled[o] + 1 ELSE settled[x]
      BY <2>1 DEF StreamShape
    <3>2. \A x \in Opens : settled'[x] \in 0..Len(inbox[x])
      BY <2>1, <2>2, <3>1 DEF StreamShape
    <3>3. settled' = [x \in Opens |-> settled'[x]]
      BY <2>1 DEF StreamShape
    <3> QED BY <2>1, <3>2, <3>3 DEF StreamShape, openVars
  <2>4. OpenShape'
    BY <2>1 DEF OpenShape, openVars
  <2> QED BY <1>2, <1>3, <2>1, <2>3, <2>4
<1>14. ASSUME NEW th \in Threads, Receive(th) PROVE Shape'
  <2>1. UNCHANGED <<openVars, streamVars, server>> /\ next' = [next EXCEPT ![th] = next[th] + 1]
    BY <1>14 DEF Receive
  <2>2. PICK message \in [topic : Topics, qos : Qos, retain : BOOLEAN, empty : BOOLEAN, thread : {th}] :
           /\ published' = Append(published, message)
           /\ retained' = IF message.retain
                          THEN [retained EXCEPT ![message.topic] =
                                  IF message.empty THEN 0 ELSE Len(published) + 1]
                          ELSE retained
           /\ sending' = [x \in Threads |-> sending'[x]]
           /\ \A x \in Threads \ {th} : sending'[x] = sending[x]
           /\ Vector(sending'[th])
    BY <1>14, SentPackets
  <2>3. Vector(published')
    BY <2>2, VectorLonger DEF ServerShape
  <2>4. ServerShape'
    BY <2>1, <2>2, <2>3 DEF ServerShape
  <2>5. ThreadShape'
    BY <2>1, <2>2 DEF ThreadShape
  <2>6. OpenShape' /\ StreamShape'
    BY <1>1, <2>1 DEF OpenShape, openVars, streamVars
  <2> QED BY <2>4, <2>5, <2>6
<1>15. ASSUME NEW th \in Threads, Send(th) PROVE Shape'
  <2>1. /\ UNCHANGED <<openVars, settled, serverVars, next>> /\ sending[th] # <<>>
        /\ HandOver(Head(sending[th])) /\ sending' = [sending EXCEPT ![th] = Tail(sending[th])]
    BY <1>15 DEF Send
  <2>2. StreamShape'
    BY <2>1, StreamsHanded DEF openVars
  <2>3. Vector(Tail(sending[th]))
    BY <2>1, VectorTail DEF ThreadShape
  <2>4. ThreadShape'
    BY <2>1, <2>3 DEF ThreadShape
  <2>5. OpenShape'
    BY <2>1 DEF OpenShape, openVars
  <2> QED BY <1>2, <2>1, <2>2, <2>4, <2>5
<1>16. CASE UNCHANGED vars
  BY <1>1, <1>2, <1>3, <1>16 DEF vars, openVars, streamVars, OpenShape
<1> QED BY <1>5, <1>6, <1>7, <1>8, <1>9, <1>10, <1>11, <1>12, <1>13, <1>14, <1>15, <1>16 DEF Next

-----------------------------------------------------------------------------
(* Where packets come from.                                                *)

\* Two of the messages received that a stream must not read in the other order.
SameKey(received, m, n) ==
  /\ received[m].thread = received[n].thread /\ received[m].topic = received[n].topic
  /\ received[m].retain /\ received[n].retain

\* A packet about to be handed over is of the last message with its key.
LatestOf(received, p) ==
  /\ p.message \in DOMAIN received /\ p.topic \in Topics /\ NoIdentifier \notin p.ids
  /\ \A n \in DOMAIN received : SameKey(received, n, p.message) => n <= p.message

Latest(p) == LatestOf(published, p)

\* The messages, what is retained of them and what is about to be handed over.
Sources ==
  /\ \A n \in DOMAIN published : published[n].topic \in Topics
  /\ \A t \in Topics : retained[t] # 0 =>
       /\ retained[t] \in DOMAIN published /\ published[retained[t]].topic = t
       /\ \A n \in DOMAIN published :
            published[n].topic = t /\ published[n].retain => n <= retained[t]
  /\ \A o \in Opens : \A i \in DOMAIN handing[o] : Latest(handing[o][i])
  /\ \A th \in Threads : \A i \in DOMAIN sending[th] :
       Latest(sending[th][i]) /\ published[sending[th][i].message].thread = th

\* What is left of a row has what the row had.
LEMMA TailKeeps ==
  ASSUME NEW s, Vector(s), s # <<>>
  PROVE  /\ 1 \in DOMAIN s /\ Head(s) = s[1]
         /\ \A i \in DOMAIN Tail(s) : \E k \in DOMAIN s : Tail(s)[i] = s[k]
<1>1. /\ 1 \in DOMAIN s /\ Head(s) = s[1]
      /\ \A i \in DOMAIN Tail(s) : i + 1 \in DOMAIN s /\ Tail(s)[i] = s[i + 1]
  BY VectorTail
<1> QED BY <1>1

\* A new message comes after all there were, which stay what they were.
LEMMA SourcesReceived ==
  ASSUME Shape, Sources, NEW th \in Threads, Receive(th)
  PROVE  Sources'
<1> DEFINE n == Len(published) + 1
<1>0. PICK message \in [topic : Topics, qos : Qos, retain : BOOLEAN, empty : BOOLEAN, thread : {th}] :
         /\ published' = Append(published, message)
         /\ retained' = IF message.retain
                        THEN [retained EXCEPT ![message.topic] =
                                IF message.empty THEN 0 ELSE Len(published) + 1]
                        ELSE retained
         /\ sending' = [x \in Threads |-> sending'[x]]
         /\ \A x \in Threads \ {th} : sending'[x] = sending[x]
         /\ Vector(sending'[th])
         /\ \A i \in DOMAIN sending'[th] : \E k \in DOMAIN server :
              /\ server[k].filter \in ServerMatching[message.topic]
              /\ sending'[th][i] = Packet(Len(published) + 1, message, server[k], FALSE)
  BY SentPackets
<1>1. /\ message.topic \in Topics /\ message.thread = th /\ message.retain \in BOOLEAN
  BY <1>0
<1>2. /\ n \in DOMAIN published' /\ published'[n] = message
      /\ \A k \in DOMAIN published : k \in DOMAIN published' /\ published'[k] = published[k]
      /\ \A k \in DOMAIN published' : k = n \/ k \in DOMAIN published
      /\ \A k \in DOMAIN published' : k <= n
  <2>1. Vector(published)
    BY DEF Shape, ServerShape
  <2>2. /\ Len(published) \in Nat /\ DOMAIN published = 1..Len(published)
        /\ DOMAIN Append(published, message) = 1..(Len(published) + 1)
        /\ \A i \in DOMAIN published : Append(published, message)[i] = published[i]
        /\ Append(published, message)[Len(published) + 1] = message
    BY <2>1, VectorLonger
  <2>3. n \in 1..n /\ 1..Len(published) \subseteq 1..n /\ \A k \in 1..n : k <= n /\ (k = n \/ k \in 1..Len(published))
    BY <2>2
  <2> QED BY <1>0, <2>2, <2>3
<1> HIDE DEF n
<1>3. \A k \in DOMAIN published' : published'[k].topic \in Topics
  BY <1>1, <1>2 DEF Sources
<1>5. ASSUME NEW t \in Topics, retained'[t] # 0
      PROVE  /\ retained'[t] \in DOMAIN published' /\ published'[retained'[t]].topic = t
             /\ \A k \in DOMAIN published' :
                  published'[k].topic = t /\ published'[k].retain => k <= retained'[t]
  <2>1. CASE message.retain /\ t = message.topic
    <3>1. retained'[t] = n
      BY <1>0, <1>1, <1>5, <2>1 DEF n, Shape, ServerShape
    <3> QED BY <1>2, <2>1, <3>1
  <2>2. CASE ~(message.retain /\ t = message.topic)
    <3>1. retained'[t] = retained[t]
      BY <1>0, <2>2 DEF Shape, ServerShape
    <3>2. /\ retained[t] \in DOMAIN published /\ published[retained[t]].topic = t
          /\ \A k \in DOMAIN published :
               published[k].topic = t /\ published[k].retain => k <= retained[t]
      BY <1>5, <3>1 DEF Sources
    <3> QED BY <1>2, <2>2, <3>1, <3>2
  <2> QED BY <2>1, <2>2
<1>6. \A o \in Opens : DOMAIN handing'[o] = {}
  BY DEF Receive, ServerFree, openVars
<1>7. ASSUME NEW x \in Threads, NEW i \in DOMAIN sending'[x], NEW p, p = sending'[x][i]
      PROVE  LatestOf(published', p) /\ published'[p.message].thread = x
  <2>1. CASE x = th
    <3>1. PICK sub : p = Packet(n, message, sub, FALSE)
      BY <1>0, <1>7, <2>1 DEF n
    <3>2. p.message = n /\ p.topic = message.topic /\ NoIdentifier \notin p.ids
      BY <3>1 DEF Packet
    <3>3. LatestOf(published', p)
      BY <1>1, <1>2, <3>2 DEF LatestOf
    <3> QED BY <1>1, <1>2, <2>1, <3>2, <3>3
  <2>2. CASE x # th
    <3>1. i \in DOMAIN sending[x] /\ p = sending[x][i]
      BY <1>0, <1>7, <2>2
    <3>2. /\ LatestOf(published, p) /\ published[p.message].thread = x
      BY <3>1 DEF Sources, Latest
    <3>3. /\ p.message \in DOMAIN published /\ p.topic \in Topics /\ NoIdentifier \notin p.ids
          /\ \A k \in DOMAIN published : SameKey(published, k, p.message) => k <= p.message
      BY <3>2 DEF LatestOf
    <3>4. p.message \in DOMAIN published' /\ published'[p.message] = published[p.message]
      BY <1>2, <3>3
    <3>5. ASSUME NEW k \in DOMAIN published', SameKey(published', k, p.message) PROVE k <= p.message
      <4>1. k # n
        BY <1>1, <1>2, <2>2, <3>2, <3>4, <3>5 DEF SameKey
      <4>2. k \in DOMAIN published /\ SameKey(published, k, p.message)
        BY <1>2, <3>4, <3>5, <4>1 DEF SameKey
      <4> QED BY <3>3, <4>2
    <3> QED BY <3>2, <3>3, <3>4, <3>5 DEF LatestOf
  <2> QED BY <2>1, <2>2
<1>8. \A x \in Threads : \A i \in DOMAIN sending'[x] :
        LatestOf(published', sending'[x][i]) /\ published'[sending'[x][i].message].thread = x
  BY <1>7
<1> QED BY <1>3, <1>5, <1>6, <1>8 DEF Sources, Latest

\* Each step keeps what packets come from.
LEMMA SourcesStep ==
  ASSUME IsFiniteSet(Topics), Shape, Sources, [Next]_vars
  PROVE  Sources'
<1>1. ASSUME UNCHANGED <<retained, published>>,
             \A o \in Opens : \A i \in DOMAIN handing'[o] : Latest(handing'[o][i]),
             \A th \in Threads : \A i \in DOMAIN sending'[th] :
               Latest(sending'[th][i]) /\ published[sending'[th][i].message].thread = th
      PROVE  Sources'
  BY <1>1 DEF Sources, Latest
<1>2. ASSUME UNCHANGED <<retained, published, handing, sending>> PROVE Sources'
  BY <1>2 DEF Sources, Latest
<1>3. CASE \/ \E o \in Opens : \/ OpenJoin(o) \/ RefreshCheck(o) \/ RefreshSubscribe(o)
                               \/ RefreshIdentified(o) \/ Opened(o) \/ Drop(o) \/ Settle(o)
           \/ UNCHANGED vars
  <2>1. UNCHANGED <<retained, published, handing, sending>>
    BY <1>3 DEF OpenJoin, RefreshCheck, RefreshSubscribe, RefreshIdentified, Opened, Drop, Settle,
                vars, openVars, serverVars, threadVars
  <2> QED BY <1>2, <2>1
<1>4. ASSUME NEW o \in Opens, Subscribe(o) PROVE Sources'
  <2> DEFINE s == Retained(Head(todo[o]))
  <2>1. UNCHANGED <<retained, published, sending>> /\ handing' = [handing EXCEPT ![o] = s]
    BY <1>4 DEF Subscribe, threadVars
  <2> DEFINE request == Head(todo[o])
  <2>2. s = Retained(request)
    OBVIOUS
  <2> HIDE DEF s, request
  <2>5. \A i \in DOMAIN s : \E t \in Topics :
          retained[t] # 0 /\ s[i] = Packet(retained[t], published[retained[t]], request, TRUE)
    BY <2>2, RetainedPackets
  <2>3. ASSUME NEW i \in DOMAIN s PROVE Latest(s[i])
    <3>1. PICK t \in Topics :
            retained[t] # 0 /\ s[i] = Packet(retained[t], published[retained[t]], request, TRUE)
      BY <2>3, <2>5
    <3>2. /\ s[i].message = retained[t] /\ s[i].topic = published[retained[t]].topic
          /\ NoIdentifier \notin s[i].ids /\ retained[t] # 0
      BY <3>1 DEF Packet
    <3>3. /\ retained[t] \in DOMAIN published /\ published[retained[t]].topic = t
          /\ \A n \in DOMAIN published :
               published[n].topic = t /\ published[n].retain => n <= retained[t]
      BY <3>2 DEF Sources
    <3> QED BY <3>2, <3>3 DEF Latest, LatestOf, SameKey
  <2>4. \A x \in Opens : \A i \in DOMAIN handing'[x] : Latest(handing'[x][i])
    BY <2>1, <2>3 DEF Shape, OpenShape, Sources
  <2> QED BY <1>1, <2>1, <2>4 DEF Sources
<1>5. ASSUME NEW o \in Opens, HandRetained(o) PROVE Sources'
  <2>1. /\ UNCHANGED <<retained, published, sending>> /\ handing[o] # <<>>
        /\ handing' = [handing EXCEPT ![o] = Tail(handing[o])]
    BY <1>5 DEF HandRetained, serverVars, threadVars
  <2>2. \A i \in DOMAIN Tail(handing[o]) : \E k \in DOMAIN handing[o] : Tail(handing[o])[i] = handing[o][k]
    BY <2>1, TailKeeps DEF Shape, OpenShape
  <2>3. \A x \in Opens : \A i \in DOMAIN handing'[x] : Latest(handing'[x][i])
    BY <2>1, <2>2 DEF Shape, OpenShape, Sources
  <2> QED BY <1>1, <2>1, <2>3 DEF Sources
<1>6. ASSUME NEW th \in Threads, Send(th) PROVE Sources'
  <2>1. /\ UNCHANGED <<retained, published, handing>> /\ sending[th] # <<>>
        /\ sending' = [sending EXCEPT ![th] = Tail(sending[th])]
    BY <1>6 DEF Send, openVars, serverVars
  <2>2. \A i \in DOMAIN Tail(sending[th]) : \E k \in DOMAIN sending[th] : Tail(sending[th])[i] = sending[th][k]
    BY <2>1, TailKeeps DEF Shape, ThreadShape
  <2>3. \A x \in Threads : \A i \in DOMAIN sending'[x] :
          Latest(sending'[x][i]) /\ published[sending'[x][i].message].thread = x
    BY <2>1, <2>2 DEF Shape, ThreadShape, Sources
  <2> QED BY <1>1, <2>1, <2>3 DEF Sources
<1>7. ASSUME NEW th \in Threads, Receive(th) PROVE Sources'
  BY <1>7, SourcesReceived
<1> QED BY <1>3, <1>4, <1>5, <1>6, <1>7 DEF Next

-----------------------------------------------------------------------------
(* The registry's table.                                                   *)

Table == Structure /\ Bounded

\* The answer to a refresh of any filter.
LEMMA IdentifiedTable ==
  ASSUME Table, NEW f, Identified(f, TRUE)
  PROVE  Table'
<1>1. Bounded'
  BY DEF Table, Bounded, Identified
<1>2. CASE f \in Filters
  BY <1>1, <1>2, RetellingStructure DEF Table, Retelling
<1>3. CASE f \notin Filters
  <2>1. ASSUME NEW n \in DOMAIN wires PROVE wires[n].filter # f
    <3>1. wires[n] \in Wire
      BY SeqPlaces DEF Table, Structure, RegistryTypeOK
    <3> QED BY <1>3, <3>1 DEF Wire
  <2>2. wires' = [n \in DOMAIN wires |-> wires[n]]
    BY <2>1 DEF Identified
  <2>3. wires = [n \in DOMAIN wires |-> wires[n]]
    BY SeqPlaces, InPlace DEF Table, Structure, RegistryTypeOK
  <2>4. UNCHANGED registryVars
    BY <2>2, <2>3 DEF Identified, registryVars
  <2> QED BY <1>1, <2>4, StructureStep DEF Table
<1> QED BY <1>2, <1>3

\* A packet that is handed over is on a topic of the service.
LEMMA HandedTable ==
  ASSUME Table, NEW p, Latest(p), HandOver(p)
  PROVE  Table'
<1>1. CASE Targets(p.topic, p.ids) = {}
  <2>1. UNCHANGED registryVars
    BY <1>1 DEF HandOver
  <2> QED BY <2>1, StructureStep DEF Table, Bounded, registryVars
<1>2. CASE Targets(p.topic, p.ids) # {}
  <2>1. Route(p.topic, p.ids)
    BY <1>2 DEF HandOver
  <2>2. Called
    BY <1>2, <2>1, RouteCalled DEF Latest, LatestOf, Table
  <2> QED BY <2>2, StructureStep, BoundedStep DEF Table, Called
<1> QED BY <1>1, <1>2

\* Each step calls a method of the registry at most.
LEMMA TableStep ==
  ASSUME Table, Shape, Sources, [Next]_vars
  PROVE  Table'
<1>1. ASSUME UNCHANGED registryVars PROVE Table'
  BY <1>1, StructureStep DEF Table, Bounded, registryVars
<1>2. CASE \/ \E o \in Opens : \/ RefreshCheck(o) \/ RefreshSubscribe(o) \/ Subscribe(o)
                               \/ Opened(o) \/ Settle(o)
           \/ (\E th \in Threads : Receive(th)) \/ UNCHANGED vars
  <2>1. UNCHANGED registryVars
    BY <1>2 DEF RefreshCheck, RefreshSubscribe, Subscribe, Opened, Settle, Receive, vars
  <2> QED BY <1>1, <2>1
<1>3. ASSUME NEW o \in Opens, OpenJoin(o) PROVE Table'
  <2>1. Join(FilterOf[o], QosOf[o], TRUE)
    BY <1>3 DEF OpenJoin
  <2>2. FilterOf[o] \in Filters /\ QosOf[o] \in Qos
    BY InProcessAssumption
  <2>3. Structure'
    BY <2>1, <2>2, JoiningStructure DEF Table
  <2>4. nextMember < MaxMember /\ nextMember' = nextMember + 1 /\ nextMember \in Nat /\ MaxMember \in Nat
    BY <2>1, RegistryAssumption DEF Join, Table, Structure, RegistryTypeOK
  <2> QED BY <2>3, <2>4 DEF Table, Bounded
<1>4. ASSUME NEW o \in Opens, RefreshIdentified(o) PROVE Table'
  BY <1>4, IdentifiedTable DEF RefreshIdentified
<1>5. ASSUME NEW o \in Opens, Drop(o) PROVE Table'
  <2>1. Leave(member[o])
    BY <1>5 DEF Drop
  <2>2. Called
    BY <2>1, LeaveCalled DEF Table
  <2> QED BY <2>2, StructureStep, BoundedStep DEF Table, Called
<1>6. ASSUME NEW o \in Opens, HandRetained(o) PROVE Table'
  <2>1. handing[o] # <<>> /\ HandOver(Head(handing[o]))
    BY <1>6 DEF HandRetained
  <2>2. Latest(Head(handing[o]))
    BY <2>1, TailKeeps DEF Shape, OpenShape, Sources
  <2> QED BY <2>1, <2>2, HandedTable
<1>7. ASSUME NEW th \in Threads, Send(th) PROVE Table'
  <2>1. sending[th] # <<>> /\ HandOver(Head(sending[th]))
    BY <1>7 DEF Send
  <2>2. Latest(Head(sending[th]))
    BY <2>1, TailKeeps DEF Shape, ThreadShape, Sources
  <2> QED BY <2>1, <2>2, HandedTable
<1> QED BY <1>2, <1>3, <1>4, <1>5, <1>6, <1>7 DEF Next

-----------------------------------------------------------------------------
(* What a stream reads gets no older.                                      *)

\* A row of messages: all were received, and of those with one key none comes before an
\* older one.
Received(received, m) == m \in DOMAIN received
NotOlder(received, m, n) == SameKey(received, m, n) => m <= n

HeldOlder ==
  /\ \A i \in DOMAIN held : Received(published, held[i].message)
  /\ \A i, j \in DOMAIN held : i < j => NotOlder(published, held[i].message, held[j].message)

StreamsOlder ==
  \A o \in Opens :
    /\ \A i \in DOMAIN inbox[o] : Received(published, inbox[o][i].packet.message)
    /\ \A i, j \in DOMAIN inbox[o] :
         i < j => NotOlder(published, inbox[o][i].packet.message, inbox[o][j].packet.message)

\* What is held for later is in order too, as it may be handed to a stream.
Older == HeldOlder /\ StreamsOlder

\* A packet of the last message with its key may follow any other.
LEMMA LatestLast ==
  ASSUME NEW p, Latest(p)
  PROVE  /\ Received(published, p.message)
         /\ \A m : Received(published, m) => NotOlder(published, m, p.message)
BY DEF Latest, LatestOf, Received, NotOlder

\* It goes to the end of the buffer or of streams.
LEMMA HandedOlder ==
  ASSUME Shape, Older, NEW p, Latest(p), HandOver(p), UNCHANGED published
  PROVE  Older'
<1>0. /\ Received(published, p.message)
      /\ \A m : Received(published, m) => NotOlder(published, m, p.message)
  BY LatestLast
<1> DEFINE targets == Targets(p.topic, p.ids)
<1>1. CASE targets = {}
  <2>1. Hold(p) /\ UNCHANGED inbox
    BY <1>1 DEF HandOver
  <2>2. Taking(held, p, held')
    BY <2>1, HoldPlaces DEF Shape, StreamShape
  <2>3. PICK d \in {0, 1} :
          /\ DOMAIN held' = 1..(Len(held) + 1 - d) /\ Len(held) \in Nat
          /\ DOMAIN held = 1..Len(held) /\ d <= Len(held)
          /\ held'[Len(held) + 1 - d] = p
          /\ \A i \in 1..(Len(held) - d) : held'[i] = held[i + d]
    BY <2>2 DEF Taking
  <2> DEFINE last == Len(held) + 1 - d
  <2>4. /\ last \in Nat /\ held'[last] = p
        /\ \A i \in DOMAIN held' : i = last \/ (i < last /\ i + d \in DOMAIN held /\ held'[i] = held[i + d])
        /\ \A i, j \in DOMAIN held' : i < j => i # last /\ i + d < j + d
    <3>1. CASE d = 0
      BY <2>3, <3>1
    <3>2. CASE d = 1
      BY <2>3, <3>2
    <3> QED BY <3>1, <3>2
  <2> HIDE DEF last
  <2>5. \A i \in DOMAIN held' : Received(published, held'[i].message)
    BY <1>0, <2>4 DEF Older, HeldOlder
  <2>6. ASSUME NEW i \in DOMAIN held', NEW j \in DOMAIN held', i < j
        PROVE  NotOlder(published, held'[i].message, held'[j].message)
    <3>1. CASE j = last
      BY <1>0, <2>4, <2>5, <3>1
    <3>2. CASE j # last
      BY <2>4, <2>6, <3>2 DEF Older, HeldOlder
    <3> QED BY <3>1, <3>2
  <2> QED BY <2>1, <2>5, <2>6 DEF Older, HeldOlder, StreamsOlder
<1>2. CASE targets # {}
  <2>1. /\ UNCHANGED held
        /\ \A o \in Opens :
             \/ \E d : inbox'[o] = Append(inbox[o], d) /\ d.packet = p
             \/ inbox'[o] = inbox[o]
    <3> HIDE DEF targets
    <3>1. targets = Targets(p.topic, p.ids)
      BY DEF targets
    <3> QED BY <1>2, <3>1, HandCases
  <2>2. ASSUME NEW o \in Opens
        PROVE  /\ \A i \in DOMAIN inbox'[o] : Received(published, inbox'[o][i].packet.message)
               /\ \A i, j \in DOMAIN inbox'[o] :
                    i < j => NotOlder(published, inbox'[o][i].packet.message,
                                      inbox'[o][j].packet.message)
    <3>1. CASE inbox'[o] = inbox[o]
      BY <3>1 DEF Older, StreamsOlder
    <3>2. ASSUME NEW e, inbox'[o] = Append(inbox[o], e), e.packet = p
          PROVE  /\ \A i \in DOMAIN inbox'[o] : Received(published, inbox'[o][i].packet.message)
                 /\ \A i, j \in DOMAIN inbox'[o] :
                      i < j => NotOlder(published, inbox'[o][i].packet.message,
                                        inbox'[o][j].packet.message)
      <4> DEFINE s == inbox[o]
                 t == inbox'[o]
      <4>1. /\ \A i \in DOMAIN s : Received(published, s[i].packet.message)
            /\ \A i, j \in DOMAIN s :
                 i < j => NotOlder(published, s[i].packet.message, s[j].packet.message)
        BY DEF Older, StreamsOlder
      <4>2. Vector(s) /\ t = Append(s, e)
        BY <3>2 DEF Shape, StreamShape
      <4> HIDE DEF s, t
      <4>3. /\ Len(s) \in Nat /\ DOMAIN s = 1..Len(s) /\ DOMAIN t = 1..(Len(s) + 1)
            /\ \A i \in DOMAIN s : i \in DOMAIN t /\ t[i] = s[i]
            /\ t[Len(s) + 1] = e
        BY <4>2, Longer
      <4>4. /\ \A i \in DOMAIN t : i = Len(s) + 1 \/ i \in DOMAIN s
            /\ \A i, j \in DOMAIN t : i < j => i # Len(s) + 1
        BY <4>3
      <4>5. \A i \in DOMAIN t : Received(published, t[i].packet.message)
        BY <1>0, <3>2, <4>1, <4>3, <4>4
      <4>6. ASSUME NEW i \in DOMAIN t, NEW j \in DOMAIN t, i < j
            PROVE  NotOlder(published, t[i].packet.message, t[j].packet.message)
        <5>1. CASE j = Len(s) + 1
          BY <1>0, <3>2, <4>3, <4>5, <5>1
        <5>2. CASE j # Len(s) + 1
          BY <4>1, <4>3, <4>4, <4>6, <5>2
        <5> QED BY <5>1, <5>2
      <4> QED BY <4>5, <4>6 DEF t
    <3> QED BY <2>1, <3>1, <3>2
  <2> QED BY <2>1, <2>2 DEF Older, HeldOlder, StreamsOlder
<1> QED BY <1>1, <1>2

\* What a join hands over keeps the order it was held in.
LEMMA JoinedOlder ==
  ASSUME Shape, Older, NEW o \in Opens, OpenJoin(o)
  PROVE  Older'
<1>1. PICK P \in SUBSET DOMAIN held, Q \in SUBSET DOMAIN held :
        /\ held' = At(held, Q)
        /\ \A x \in Opens \ {o} : inbox'[x] = inbox[x]
        /\ DOMAIN inbox'[o] = DOMAIN At(held, P)
        /\ \A i \in DOMAIN inbox'[o] : inbox'[o][i].packet = At(held, P)[i]
  BY JoinPlaces
<1>2. UNCHANGED published
  BY DEF OpenJoin, serverVars
<1>3. ASSUME NEW R \in SUBSET DOMAIN held, NEW s, s = At(held, R)
      PROVE  /\ \A i \in DOMAIN s : Received(published, s[i].message)
             /\ \A i, j \in DOMAIN s : i < j => NotOlder(published, s[i].message, s[j].message)
  <2>1. /\ \A i \in DOMAIN At(held, R) : \E p \in R : At(held, R)[i] = held[p]
        /\ \A i, j \in DOMAIN At(held, R) :
             i < j => \E p, q \in R : p < q /\ At(held, R)[i] = held[p] /\ At(held, R)[j] = held[q]
    BY VectorAt DEF Shape, StreamShape
  <2>2. /\ \A i \in DOMAIN s : \E p \in R : s[i] = held[p]
        /\ \A i, j \in DOMAIN s : i < j => \E p, q \in R : p < q /\ s[i] = held[p] /\ s[j] = held[q]
    BY <1>3, <2>1
  <2> QED BY <2>2 DEF Older, HeldOlder
<1>4. HeldOlder'
  <2>1. /\ \A i \in DOMAIN held' : Received(published, held'[i].message)
        /\ \A i, j \in DOMAIN held' : i < j => NotOlder(published, held'[i].message, held'[j].message)
    BY <1>1, <1>3
  <2> QED BY <1>2, <2>1 DEF HeldOlder
<1>5. /\ \A i \in DOMAIN inbox'[o] : Received(published, inbox'[o][i].packet.message)
      /\ \A i, j \in DOMAIN inbox'[o] :
           i < j => NotOlder(published, inbox'[o][i].packet.message, inbox'[o][j].packet.message)
  <2> DEFINE s == At(held, P)
  <2>1. /\ \A i \in DOMAIN s : Received(published, s[i].message)
        /\ \A i, j \in DOMAIN s : i < j => NotOlder(published, s[i].message, s[j].message)
    <3>1. s = At(held, P)
      OBVIOUS
    <3> HIDE DEF s
    <3> QED BY <1>3, <3>1
  <2>2. DOMAIN inbox'[o] = DOMAIN s /\ \A i \in DOMAIN inbox'[o] : inbox'[o][i].packet = s[i]
    BY <1>1
  <2> HIDE DEF s
  <2> QED BY <2>1, <2>2
<1> QED BY <1>1, <1>2, <1>4, <1>5 DEF Older, StreamsOlder

\* A message received leaves those before it what they were.
LEMMA ReceivedOlder ==
  ASSUME Shape, Older, NEW th \in Threads, Receive(th)
  PROVE  Older'
<1>1. UNCHANGED <<inbox, held>>
  BY DEF Receive, streamVars
<1>2. PICK message : published' = Append(published, message)
  BY DEF Receive
<1>3. \A k \in DOMAIN published : k \in DOMAIN published' /\ published'[k] = published[k]
  BY <1>2, Longer DEF Shape, ServerShape
<1>4. \A m : Received(published, m) => Received(published', m)
  BY <1>3 DEF Received
<1>5. \A m, n : Received(published, m) /\ Received(published, n) /\ NotOlder(published, m, n)
                  => NotOlder(published', m, n)
  BY <1>3 DEF Received, NotOlder, SameKey
<1> QED BY <1>1, <1>4, <1>5 DEF Older, HeldOlder, StreamsOlder

\* Each step keeps the streams and the buffer in order.
LEMMA OlderStep ==
  ASSUME Shape, Sources, Older, [Next]_vars
  PROVE  Older'
<1>1. CASE \/ \E o \in Opens : \/ RefreshCheck(o) \/ RefreshSubscribe(o) \/ RefreshIdentified(o)
                               \/ Subscribe(o) \/ Opened(o) \/ Drop(o) \/ Settle(o)
           \/ UNCHANGED vars
  <2>1. UNCHANGED <<inbox, held, published>>
    BY <1>1 DEF RefreshCheck, RefreshSubscribe, RefreshIdentified, Subscribe, Opened, Drop, Settle,
                vars, streamVars, serverVars
  <2> QED BY <2>1 DEF Older, HeldOlder, StreamsOlder
<1>2. ASSUME NEW o \in Opens, OpenJoin(o) PROVE Older'
  BY <1>2, JoinedOlder
<1>3. ASSUME NEW o \in Opens, HandRetained(o) PROVE Older'
  <2>1. handing[o] # <<>> /\ HandOver(Head(handing[o])) /\ UNCHANGED published
    BY <1>3 DEF HandRetained, serverVars
  <2>2. Latest(Head(handing[o]))
    BY <2>1, TailKeeps DEF Shape, OpenShape, Sources
  <2> QED BY <2>1, <2>2, HandedOlder
<1>4. ASSUME NEW th \in Threads, Send(th) PROVE Older'
  <2>1. sending[th] # <<>> /\ HandOver(Head(sending[th])) /\ UNCHANGED published
    BY <1>4 DEF Send, serverVars
  <2>2. Latest(Head(sending[th]))
    BY <2>1, TailKeeps DEF Shape, ThreadShape, Sources
  <2> QED BY <2>1, <2>2, HandedOlder
<1>5. ASSUME NEW th \in Threads, Receive(th) PROVE Older'
  BY <1>5, ReceivedOlder
<1> QED BY <1>1, <1>2, <1>3, <1>4, <1>5 DEF Next

\* What the steps keep: the table, how far packets got and the order they come in.
Course == Table /\ Shape /\ Sources /\ Older

\* At first there is nothing in order to keep.
LEMMA CourseInit == Init => Course
<1> SUFFICES ASSUME Init PROVE Course
  OBVIOUS
<1> USE VectorEmpty DEF Init
<1>1. Table
  BY RegistryAssumption, StructureInit DEF Table, Bounded, RegistryInit
<1>2. OpenShape
  BY DEF OpenShape
<1>3. Len(<<>>) = 0 /\ DOMAIN <<>> = {}
  OBVIOUS
<1>4. StreamShape
  <2>1. HeldCapacity \in Nat
    BY InProcessAssumption
  <2> QED BY <1>3, <2>1 DEF StreamShape
<1>5. ServerShape /\ ThreadShape
  BY DEF ServerShape, ThreadShape
<1>6. Sources
  BY <1>3 DEF Sources
<1>7. Older
  BY <1>3 DEF Older, HeldOlder, StreamsOlder
<1> QED BY <1>1, <1>2, <1>4, <1>5, <1>6, <1>7 DEF Course, Shape

\* Each part is kept with the help of those before it.
LEMMA CourseStep ==
  ASSUME IsFiniteSet(Topics), Course, [Next]_vars
  PROVE  Course'
<1>1. Structure
  BY DEF Course, Table
<1>2. Table' /\ Shape'
  BY <1>1, TableStep, ShapeStep DEF Course
<1>3. Sources' /\ Older'
  BY SourcesStep, OlderStep DEF Course
<1> QED BY <1>2, <1>3 DEF Course

\* Every behaviour of the transport keeps to it.
LEMMA OnCourse ==
  ASSUME IsFiniteSet(Topics)
  PROVE  Spec => []Course
<1>1. Course /\ [Next]_vars => Course'
  BY CourseStep
<1> QED BY <1>1, CourseInit, PTL DEF Spec

\* Of the messages one thread publishes as retained on one topic, a stream never reads an
\* older one after a newer, however many threads publish while subscriptions open: what
\* Bus::subscribe hands over under the server's lock, what send_all sends under none and
\* what was held for the stream come in that order.
THEOREM ReadInOrder ==
  ASSUME IsFiniteSet(Topics)
  PROVE  Spec => []NeverOlder
<1>1. Course => NeverOlder
  <2> SUFFICES ASSUME StreamsOlder PROVE NeverOlder
    BY DEF Course, Older
  <2> QED BY DEF StreamsOlder, NotOlder, SameKey, NeverOlder
<1> QED BY <1>1, OnCourse, PTL

-----------------------------------------------------------------------------
(* Who sits at the table.                                                  *)

\* Each subscription that joined has a number of its own.
Numbered ==
  /\ \A o \in Opens : member[o] # NoMember => member[o] \in Nat /\ member[o] < nextMember
  /\ \A o, x \in Opens : member[o] = member[x] /\ member[o] # NoMember => o = x

\* Who sits at the table is a subscription that joined and was not dropped.
Seats == \A m : Sits(m) => \E o \in Opens : pc[o] \notin {"idle", "closed"} /\ member[o] = m

\* A handover turns the wires at most.
LEMMA HandedSits ==
  ASSUME Structure, NEW p, HandOver(p)
  PROVE  UNCHANGED nextMember /\ \A m : Sits(m)' <=> Sits(m)
<1>1. UNCHANGED registryVars \/ Route(p.topic, p.ids)
  BY DEF HandOver
<1> QED BY <1>1, SitsSame DEF Route, registryVars

\* Each step keeps the numbers apart, and with them whose each seat is.
LEMMA SeatsStep ==
  ASSUME Table, Shape, Numbered, Seats, [Next]_vars
  PROVE  Numbered' /\ Seats'
<1> USE DEF Table
<1>1. ASSUME UNCHANGED <<member, nextMember>>, \A m : Sits(m)' => Sits(m),
             \A x \in Opens : pc[x] \notin {"idle", "closed"} => pc'[x] \notin {"idle", "closed"}
      PROVE  Numbered' /\ Seats'
  BY <1>1 DEF Numbered, Seats
<1>2. ASSUME NEW o \in Opens, NEW at, at \notin {"idle", "closed"}, pc' = [pc EXCEPT ![o] = at]
      PROVE  \A x \in Opens : pc[x] \notin {"idle", "closed"} => pc'[x] \notin {"idle", "closed"}
  BY <1>2 DEF Shape, OpenShape
<1>3. ASSUME UNCHANGED pc
      PROVE  \A x \in Opens : pc[x] \notin {"idle", "closed"} => pc'[x] \notin {"idle", "closed"}
  BY <1>3
<1>4. UNCHANGED registryVars => UNCHANGED nextMember /\ \A m : Sits(m)' => Sits(m)
  BY SitsSame DEF registryVars
<1>5. ASSUME NEW o \in Opens, OpenJoin(o) PROVE Numbered' /\ Seats'
  <2>1. /\ Join(FilterOf[o], QosOf[o], TRUE) /\ pc[o] = "idle"
        /\ pc' = [pc EXCEPT ![o] = "sending"] /\ member' = [member EXCEPT ![o] = nextMember]
    BY <1>5 DEF OpenJoin
  <2>2. FilterOf[o] \in Filters /\ QosOf[o] \in Qos
    BY InProcessAssumption
  <2>3. \A m : Sits(m)' => Sits(m) \/ m = nextMember
    BY <2>1, <2>2, SitsJoined
  <2>4. nextMember \in Nat /\ nextMember' = nextMember + 1
    BY <2>1 DEF Join, Structure, RegistryTypeOK
  <2>5. /\ member'[o] = nextMember /\ \A x \in Opens \ {o} : member'[x] = member[x]
        /\ pc'[o] = "sending" /\ \A x \in Opens \ {o} : pc'[x] = pc[x]
    BY <2>1 DEF Shape, OpenShape
  <2>6. Numbered'
    <3>1. ASSUME NEW x \in Opens, member'[x] # NoMember
          PROVE  member'[x] \in Nat /\ member'[x] < nextMember'
      BY <2>4, <2>5, <3>1 DEF Numbered
    <3>2. ASSUME NEW x \in Opens, NEW y \in Opens, member'[x] = member'[y], member'[x] # NoMember
          PROVE  x = y
      BY <2>4, <2>5, <3>2 DEF Numbered
    <3> QED BY <3>1, <3>2 DEF Numbered
  <2>7. Seats'
    <3>1. ASSUME NEW m, Sits(m)'
          PROVE  \E x \in Opens : pc'[x] \notin {"idle", "closed"} /\ member'[x] = m
      <4>1. CASE m = nextMember
        BY <2>5, <4>1
      <4>2. CASE Sits(m)
        BY <2>1, <2>5, <4>2 DEF Seats
      <4> QED BY <2>3, <3>1, <4>1, <4>2
    <3> QED BY <3>1 DEF Seats
  <2> QED BY <2>6, <2>7
<1>6. ASSUME NEW o \in Opens, RefreshCheck(o) PROVE Numbered' /\ Seats'
  <2>1. UNCHANGED <<registryVars, member>> /\ (pc' = [pc EXCEPT ![o] = "refreshing"] \/ pc' = pc)
    BY <1>6 DEF RefreshCheck
  <2> QED BY <1>1, <1>2, <1>3, <1>4, <2>1
<1>7. ASSUME NEW o \in Opens, RefreshSubscribe(o) PROVE Numbered' /\ Seats'
  <2>1. UNCHANGED <<registryVars, member>> /\ pc' = [pc EXCEPT ![o] = "attached"]
    BY <1>7 DEF RefreshSubscribe
  <2> QED BY <1>1, <1>2, <1>4, <2>1
<1>8. ASSUME NEW o \in Opens, RefreshIdentified(o) PROVE Numbered' /\ Seats'
  <2>1. UNCHANGED member /\ pc' = [pc EXCEPT ![o] = "sending"] /\ \E f : Identified(f, TRUE)
    BY <1>8 DEF RefreshIdentified
  <2>2. UNCHANGED nextMember /\ \A m : Sits(m)' => Sits(m)
    BY <2>1, SitsSame DEF Identified
  <2> QED BY <1>1, <1>2, <2>1, <2>2
<1>9. ASSUME NEW o \in Opens, Subscribe(o) PROVE Numbered' /\ Seats'
  <2>1. UNCHANGED <<registryVars, member>> /\ pc' = [pc EXCEPT ![o] = "handing"]
    BY <1>9 DEF Subscribe
  <2> QED BY <1>1, <1>2, <1>4, <2>1
<1>10. ASSUME NEW o \in Opens, HandRetained(o) PROVE Numbered' /\ Seats'
  <2>1. UNCHANGED <<pc, member>> /\ HandOver(Head(handing[o]))
    BY <1>10 DEF HandRetained
  <2> QED BY <1>1, <1>3, <2>1, HandedSits
<1>11. ASSUME NEW o \in Opens, Opened(o) PROVE Numbered' /\ Seats'
  <2>1. UNCHANGED <<registryVars, member>> /\ pc' = [pc EXCEPT ![o] = "open"]
    BY <1>11 DEF Opened
  <2> QED BY <1>1, <1>2, <1>4, <2>1
<1>12. ASSUME NEW o \in Opens, Drop(o) PROVE Numbered' /\ Seats'
  <2>1. /\ Leave(member[o]) /\ UNCHANGED member
        /\ \A x \in Opens \ {o} : pc'[x] = pc[x]
    BY <1>12 DEF Drop, Shape, OpenShape
  <2>2. PICK left : left = member[o]
    OBVIOUS
  <2>3. (\A k : Sits(k)' => Sits(k)) /\ ~Sits(left)' /\ UNCHANGED nextMember
    BY <2>1, <2>2, SitsLeft DEF Leave
  <2>4. Numbered'
    BY <2>1, <2>3 DEF Numbered
  <2>5. ASSUME NEW m, Sits(m)'
        PROVE  \E x \in Opens : pc'[x] \notin {"idle", "closed"} /\ member'[x] = m
    <3>1. PICK x \in Opens : pc[x] \notin {"idle", "closed"} /\ member[x] = m
      BY <2>3, <2>5 DEF Seats
    <3>2. x # o
      BY <2>2, <2>3, <2>5, <3>1
    <3> QED BY <2>1, <3>1, <3>2
  <2> QED BY <2>4, <2>5 DEF Seats
<1>13. CASE \/ \E o \in Opens : Settle(o)
            \/ (\E th \in Threads : Receive(th))
            \/ UNCHANGED vars
  <2>1. UNCHANGED <<registryVars, member, pc>>
    BY <1>13 DEF Settle, Receive, vars, openVars
  <2> QED BY <1>1, <1>3, <1>4, <2>1
<1>14. ASSUME NEW th \in Threads, Send(th) PROVE Numbered' /\ Seats'
  <2>1. UNCHANGED <<pc, member>> /\ HandOver(Head(sending[th]))
    BY <1>14 DEF Send, openVars
  <2> QED BY <1>1, <1>3, <2>1, HandedSits
<1> QED BY <1>5, <1>6, <1>7, <1>8, <1>9, <1>10, <1>11, <1>12, <1>13, <1>14 DEF Next

-----------------------------------------------------------------------------
(* The harness's count.                                                    *)

Counted == IsFiniteSet(Waiting) /\ InFlightCounts

\* A delivery waits when its stream does and nobody is done with it.
LEMMA Pairs ==
  ASSUME NEW at, NEW box, NEW done,
         \A o \in Opens : Len(box[o]) \in Nat /\ done[o] \in 0..Len(box[o]),
         NEW W, W = UNION {{o} \X ((done[o] + 1)..Len(box[o])) : o \in {x \in Opens : at[x] # "closed"}}
  PROVE  \A w : w \in W <=>
           /\ w \in Opens \X Nat /\ at[w[1]] # "closed"
           /\ done[w[1]] < w[2] /\ w[2] <= Len(box[w[1]])
<1>1. ASSUME NEW o \in Opens
      PROVE  \A k : k \in (done[o] + 1)..Len(box[o]) <=>
                       k \in Nat /\ done[o] < k /\ k <= Len(box[o])
  OBVIOUS
<1>2. ASSUME NEW w
      PROVE  w \in W <=> \E o \in Opens : /\ at[o] # "closed"
                                          /\ w \in {o} \X ((done[o] + 1)..Len(box[o]))
  OBVIOUS
<1> QED BY <1>1, <1>2

\* So it is before a step and after it.
LEMMA WaitingPairs ==
  ASSUME Shape, Shape'
  PROVE  /\ \A w : w \in Waiting <=>
              /\ w \in Opens \X Nat /\ pc[w[1]] # "closed"
              /\ settled[w[1]] < w[2] /\ w[2] <= Len(inbox[w[1]])
         /\ \A w : w \in Waiting' <=>
              /\ w \in Opens \X Nat /\ pc'[w[1]] # "closed"
              /\ settled'[w[1]] < w[2] /\ w[2] <= Len(inbox'[w[1]])
<1>1. ASSUME NEW s, Vector(s) PROVE Len(s) \in Nat
  BY <1>1, VectorPlaces
<1>2. \A o \in Opens : Len(inbox[o]) \in Nat /\ settled[o] \in 0..Len(inbox[o])
  BY <1>1 DEF Shape, StreamShape
<1>3. \A o \in Opens : Len(inbox'[o]) \in Nat /\ settled'[o] \in 0..Len(inbox'[o])
  BY <1>1 DEF Shape, StreamShape
<1>4. PICK at, box, done, W : at = pc /\ box = inbox /\ done = settled /\ W = Waiting
  OBVIOUS
<1>5. \A w : w \in W <=>
        /\ w \in Opens \X Nat /\ at[w[1]] # "closed"
        /\ done[w[1]] < w[2] /\ w[2] <= Len(box[w[1]])
  <2>1. \A o \in Opens : Len(box[o]) \in Nat /\ done[o] \in 0..Len(box[o])
    BY <1>2, <1>4
  <2>2. W = UNION {{o} \X ((done[o] + 1)..Len(box[o])) : o \in {x \in Opens : at[x] # "closed"}}
    BY <1>4 DEF Waiting, Alive
  <2> QED BY <2>1, <2>2, Pairs
<1>6. PICK later, boxes, over, V : later = pc' /\ boxes = inbox' /\ over = settled' /\ V = Waiting'
  OBVIOUS
<1>7. \A w : w \in V <=>
        /\ w \in Opens \X Nat /\ later[w[1]] # "closed"
        /\ over[w[1]] < w[2] /\ w[2] <= Len(boxes[w[1]])
  <2>1. \A o \in Opens : Len(boxes[o]) \in Nat /\ over[o] \in 0..Len(boxes[o])
    BY <1>3, <1>6
  <2>2. V = UNION {{o} \X ((over[o] + 1)..Len(boxes[o])) : o \in {x \in Opens : later[x] # "closed"}}
    BY <1>6 DEF Waiting, Alive
  <2> QED BY <2>1, <2>2, Pairs
<1> QED BY <1>4, <1>5, <1>6, <1>7

\* So many wait in a stream.
LEMMA RowPlaces ==
  ASSUME NEW o, NEW done \in Nat, NEW n \in Nat, done <= n
  PROVE  /\ IsFiniteSet({o} \X ((done + 1)..n))
         /\ Cardinality({o} \X ((done + 1)..n)) = n - done
<1> DEFINE k == n - done
           E == {o} \X ((done + 1)..n)
           place == [i \in 1..k |-> <<o, done + i>>]
<1>1. k \in Nat
  OBVIOUS
<1>2. place \in Bijection(1..k, E)
  <2>1. \A i \in 1..k : <<o, done + i>> \in E
    OBVIOUS
  <2>2. ASSUME NEW e \in E PROVE \E i \in 1..k : place[i] = e
    <3>1. PICK j \in (done + 1)..n : e = <<o, j>>
      OBVIOUS
    <3>2. j - done \in 1..k /\ done + (j - done) = j
      OBVIOUS
    <3> QED BY <3>1, <3>2
  <2>3. \A i, j \in 1..k : place[i] = place[j] => i = j
    OBVIOUS
  <2> QED BY <2>1, <2>2, <2>3 DEF Bijection, Injection, Surjection, IsInjective
<1>3. ExistsBijection(1..k, E)
  BY <1>2 DEF ExistsBijection
<1> HIDE DEF k, E
<1>4. IsFiniteSet(1..k) /\ Cardinality(1..k) = k
  BY <1>1, FS_Interval
<1>5. IsFiniteSet(E) /\ Cardinality(E) = k
  BY <1>3, <1>4, FS_Bijection
<1> QED BY <1>5 DEF E, k

\* As many begin to wait as are counted in.
LEMMA CountedIn ==
  ASSUME Counted, NEW E, IsFiniteSet(E), Waiting' = Waiting \cup E, Waiting \cap E = {},
         inFlight' = inFlight + Cardinality(E)
  PROVE  Counted'
<1>1. /\ IsFiniteSet(Waiting \cup E)
      /\ Cardinality(Waiting \cup E) = Cardinality(Waiting) + Cardinality(E) - Cardinality(Waiting \cap E)
  BY FS_Union DEF Counted
<1>2. Cardinality(Waiting \cap E) = 0
  BY FS_EmptySet
<1>3. Cardinality(Waiting) \in Nat /\ Cardinality(E) \in Nat
  BY FS_CardinalityType DEF Counted
<1> QED BY <1>1, <1>2, <1>3 DEF Counted, InFlightCounts

\* As many stop waiting as are counted out.
LEMMA CountedOut ==
  ASSUME Counted, NEW E, E \subseteq Waiting, Waiting' = Waiting \ E,
         inFlight' = inFlight - Cardinality(E)
  PROVE  Counted'
<1> DEFINE rest == Waiting \ E
<1>1. IsFiniteSet(E) /\ IsFiniteSet(rest)
  BY FS_Subset DEF Counted
<1>2. Waiting = rest \cup E /\ rest \cap E = {}
  OBVIOUS
<1> HIDE DEF rest
<1>3. Cardinality(rest \cup E) = Cardinality(rest) + Cardinality(E) - Cardinality(rest \cap E)
  BY <1>1, FS_Union
<1>4. Cardinality(rest \cap E) = 0
  BY <1>2, FS_EmptySet
<1>5. Cardinality(rest) \in Nat /\ Cardinality(E) \in Nat
  BY <1>1, FS_CardinalityType
<1>6. Waiting' = rest
  BY DEF rest
<1>7. inFlight = Cardinality(rest) + Cardinality(E)
  BY <1>2, <1>3, <1>4, <1>5 DEF Counted, InFlightCounts
<1>8. inFlight' = Cardinality(rest)
  BY <1>5, <1>7
<1> QED BY <1>1, <1>6, <1>8 DEF Counted, InFlightCounts

\* Nothing else changes what waits.
LEMMA CountedSame ==
  ASSUME Shape, Shape', Counted, UNCHANGED <<inbox, settled, inFlight>>,
         \A o \in Opens : pc'[o] = "closed" <=> pc[o] = "closed"
  PROVE  Counted'
<1>1. \A w : w \in Waiting' <=> w \in Waiting
  BY WaitingPairs
<1>2. Waiting' = Waiting
  BY <1>1
<1> QED BY <1>2 DEF Counted, InFlightCounts

\* A held delivery is not counted; the copies handed over are, one for each target.
LEMMA CountedHanded ==
  ASSUME Structure, Shape, Shape', Numbered, Seats, Counted, NEW p, HandOver(p),
         UNCHANGED <<pc, settled>>
  PROVE  Counted'
<1> DEFINE targets == Targets(p.topic, p.ids)
<1>1. CASE targets = {}
  <2>1. UNCHANGED <<inbox, inFlight>>
    BY <1>1 DEF HandOver, Hold
  <2> QED BY <2>1, CountedSame
<1>2. CASE targets # {}
  <2> DEFINE takers == Takers(targets)
             E == {<<o, Len(inbox[o]) + 1>> : o \in takers}
             Owner(n) == CHOOSE o \in takers : member[o] = Taker(n)
             place == [n \in targets |-> <<Owner(n), Len(inbox[Owner(n)]) + 1>>]
  <2>1. /\ inFlight' = inFlight + Cardinality(targets)
        /\ \A o \in Opens :
             \/ o \in takers /\ \E d : inbox'[o] = Append(inbox[o], d)
             \/ o \notin takers /\ inbox'[o] = inbox[o]
    <3>1. takers = Takers(targets) /\ targets = Targets(p.topic, p.ids)
      OBVIOUS
    <3> HIDE DEF targets, takers
    <3>2. \/ targets = {} /\ Hold(p) /\ UNCHANGED <<registryVars, inbox>>
          \/ /\ targets # {} /\ Route(p.topic, p.ids) /\ UNCHANGED held
             /\ inFlight' = inFlight + Cardinality(targets)
             /\ inbox' = [o \in Opens |-> inbox'[o]]
             /\ \A o \in Opens :
                  \/ /\ o \in Takers(targets)
                     /\ \E d : inbox'[o] = Append(inbox[o], d) /\ d.packet = p
                  \/ o \notin Takers(targets) /\ inbox'[o] = inbox[o]
      BY <3>1, HandCases
    <3>3. \A o \in Opens :
            \/ /\ o \in Takers(targets)
               /\ \E d : inbox'[o] = Append(inbox[o], d) /\ d.packet = p
            \/ o \notin Takers(targets) /\ inbox'[o] = inbox[o]
      BY <1>2, <3>2
    <3>4. \A o \in Opens :
            \/ o \in takers /\ \E d : inbox'[o] = Append(inbox[o], d)
            \/ o \notin takers /\ inbox'[o] = inbox[o]
      BY <3>1, <3>3
    <3> QED BY <1>2, <3>2, <3>4
  <2>2. IsFiniteSet(targets) /\ targets \subseteq DOMAIN wires
    <3>1. targets \in SUBSET (1..Len(wires)) /\ Len(wires) \in Nat /\ DOMAIN wires = 1..Len(wires)
      BY SeqPlaces DEF Structure, RegistryTypeOK, Targets
    <3> QED BY <3>1, PlacesFinite
  <2>3. takers \subseteq Opens /\ \A o \in takers : \E n \in targets : Taker(n) = member[o]
    BY DEF Takers
  <2>4. /\ \A n \in targets : Taker(n) \in Nat /\ Sits(Taker(n))
        /\ \A n, k \in targets : Taker(n) = Taker(k) => n = k
    BY <2>2, TakerSits
  <2>5. \A n \in targets : \E o \in Opens : member[o] = Taker(n) /\ pc[o] \notin {"idle", "closed"}
    BY <2>4 DEF Seats
  <2>6. \A n \in targets : \E o \in takers : member[o] = Taker(n)
    BY <2>5 DEF Takers
  <2> HIDE DEF takers, targets
  <2>7. \A n \in targets : Owner(n) \in takers /\ member[Owner(n)] = Taker(n)
    BY <2>6
  <2>8. \A o \in takers : pc[o] # "closed"
    <3> SUFFICES ASSUME NEW o \in takers PROVE pc[o] # "closed"
      OBVIOUS
    <3>1. PICK n \in targets : Taker(n) = member[o]
      BY <2>3
    <3>2. PICK x \in Opens : member[x] = Taker(n) /\ pc[x] \notin {"idle", "closed"}
      BY <2>5
    <3>3. x = o
      BY <2>3, <2>4, <3>1, <3>2 DEF Numbered, NoMember
    <3> QED BY <3>2, <3>3
  <2>9. place \in Bijection(targets, E)
    <3>1. \A n \in targets : place[n] \in E
      BY <2>7
    <3>2. ASSUME NEW n \in targets, NEW k \in targets, place[n] = place[k] PROVE n = k
      <4>1. Owner(n) = Owner(k)
        <5>1. /\ place[n] = <<Owner(n), Len(inbox[Owner(n)]) + 1>>
              /\ place[k] = <<Owner(k), Len(inbox[Owner(k)]) + 1>>
          OBVIOUS
        <5> HIDE DEF place, Owner
        <5>2. place[n][1] = Owner(n) /\ place[k][1] = Owner(k)
          BY <5>1
        <5> QED BY <3>2, <5>2
      <4> HIDE DEF Owner
      <4> QED BY <2>4, <2>7, <4>1
    <3>3. ASSUME NEW e \in E PROVE \E n \in targets : place[n] = e
      <4>1. PICK o \in takers : e = <<o, Len(inbox[o]) + 1>>
        OBVIOUS
      <4>2. PICK n \in targets : Taker(n) = member[o]
        BY <2>3
      <4>3. Owner(n) \in takers /\ member[Owner(n)] = Taker(n)
        BY <2>7
      <4> HIDE DEF Owner
      <4>4. Owner(n) = o
        BY <2>3, <2>4, <4>2, <4>3 DEF Numbered, NoMember
      <4> QED BY <4>1, <4>4
    <3> HIDE DEF Owner, E
    <3> QED BY <3>1, <3>2, <3>3 DEF Bijection, Injection, Surjection, IsInjective
  <2>10. ExistsBijection(targets, E)
    BY <2>9 DEF ExistsBijection
  <2> HIDE DEF place
  <2>11. IsFiniteSet(E) /\ Cardinality(E) = Cardinality(targets)
    <3> HIDE DEF E
    <3> QED BY <2>2, <2>10, FS_Bijection
  <2>12. \A o \in Opens : settled[o] \in Nat /\ settled[o] <= Len(inbox[o]) /\ Len(inbox[o]) \in Nat
    BY VectorPlaces DEF Shape, StreamShape
  <2>13. \A o \in takers : Len(inbox'[o]) = Len(inbox[o]) + 1
    BY <2>1, <2>3, Longer DEF Shape, StreamShape
  <2>14. \A o \in Opens \ takers : inbox'[o] = inbox[o]
    BY <2>1
  <2>15. /\ \A w : w \in Waiting <=>
              /\ w \in Opens \X Nat /\ pc[w[1]] # "closed"
              /\ settled[w[1]] < w[2] /\ w[2] <= Len(inbox[w[1]])
         /\ \A w : w \in Waiting' <=>
              /\ w \in Opens \X Nat /\ pc[w[1]] # "closed"
              /\ settled[w[1]] < w[2] /\ w[2] <= Len(inbox'[w[1]])
    BY WaitingPairs
  <2>16. ASSUME NEW w PROVE w \in Waiting' <=> w \in Waiting \/ w \in E
    <3>1. CASE w \in Opens \X Nat
      <4>1. CASE w[1] \in takers
        <5>1. w \in E <=> w[2] = Len(inbox[w[1]]) + 1
          BY <3>1, <4>1
        <5> QED BY <2>3, <2>8, <2>12, <2>13, <2>15, <3>1, <4>1, <5>1
      <4>2. CASE w[1] \notin takers
        <5>1. w \notin E
          BY <3>1, <4>2
        <5> QED BY <2>14, <2>15, <3>1, <4>2, <5>1
      <4> QED BY <4>1, <4>2
    <3>2. CASE w \notin Opens \X Nat
      <4>1. w \notin E
        BY <2>3, <2>12, <3>2
      <4> QED BY <2>15, <3>2, <4>1
    <3> QED BY <3>1, <3>2
  <2>17. ASSUME NEW w \in Waiting, w \in E PROVE FALSE
    <3>1. PICK o \in takers : w = <<o, Len(inbox[o]) + 1>>
      BY <2>17
    <3> QED BY <2>3, <2>12, <2>15, <3>1
  <2> HIDE DEF E
  <2>18. Waiting' = Waiting \cup E /\ Waiting \cap E = {}
    BY <2>16, <2>17
  <2> QED BY <2>1, <2>11, <2>18, CountedIn
<1> QED BY <1>1, <1>2

\* What a join hands over is counted.
LEMMA CountedJoined ==
  ASSUME Shape, Shape', Counted, NEW o \in Opens, OpenJoin(o)
  PROVE  Counted'
<1> DEFINE n == Len(inbox'[o])
           E == {o} \X ((0 + 1)..n)
<1>1. /\ pc[o] = "idle" /\ pc' = [pc EXCEPT ![o] = "sending"] /\ UNCHANGED settled
  BY DEF OpenJoin
<1>2. /\ n \in Nat /\ inFlight' = inFlight + n
      /\ \A x \in Opens \ {o} : inbox'[x] = inbox[x]
  BY JoinPlaces
<1>3. inbox[o] = <<>> /\ settled[o] = 0 /\ Len(<<>>) = 0
  BY <1>1 DEF Shape, StreamShape
<1>4. pc'[o] = "sending" /\ \A x \in Opens \ {o} : pc'[x] = pc[x]
  BY <1>1 DEF Shape, OpenShape
<1>5. IsFiniteSet(E) /\ Cardinality(E) = n
  <2> HIDE DEF n
  <2>1. 0 \in Nat /\ 0 <= n /\ n - 0 = n
    BY <1>2
  <2> QED BY <1>2, <2>1, RowPlaces
<1>6. ASSUME NEW w PROVE (w \in Waiting' <=> w \in Waiting \/ w \in E) /\ ~(w \in Waiting /\ w \in E)
  <2>1. /\ w \in Waiting <=>
             /\ w \in Opens \X Nat /\ pc[w[1]] # "closed"
             /\ settled[w[1]] < w[2] /\ w[2] <= Len(inbox[w[1]])
        /\ w \in Waiting' <=>
             /\ w \in Opens \X Nat /\ pc'[w[1]] # "closed"
             /\ settled[w[1]] < w[2] /\ w[2] <= Len(inbox'[w[1]])
    BY <1>1, WaitingPairs
  <2>2. w \in E <=> w \in Opens \X Nat /\ w[1] = o /\ 0 < w[2] /\ w[2] <= n
    BY <1>2
  <2> HIDE DEF E
  <2>3. CASE w \in Opens \X Nat /\ w[1] = o
    BY <1>1, <1>3, <1>4, <2>1, <2>2, <2>3
  <2>4. CASE ~(w \in Opens \X Nat /\ w[1] = o)
    BY <1>2, <1>4, <2>1, <2>2, <2>4
  <2> QED BY <2>3, <2>4
<1> HIDE DEF E, n
<1>7. Waiting' = Waiting \cup E /\ Waiting \cap E = {}
  BY <1>6
<1>8. inFlight' = inFlight + Cardinality(E)
  BY <1>2, <1>5
<1> QED BY <1>5, <1>7, <1>8, CountedIn

\* What a dropped subscription's stream still held is counted out.
LEMMA CountedDropped ==
  ASSUME Shape, Shape', Counted, NEW o \in Opens, Drop(o)
  PROVE  Counted'
<1> DEFINE n == Len(inbox[o])
           done == settled[o]
           E == {o} \X ((done + 1)..n)
<1>1. /\ pc[o] = "open" /\ pc' = [pc EXCEPT ![o] = "closed"] /\ UNCHANGED inbox
      /\ settled' = [settled EXCEPT ![o] = n] /\ inFlight' = inFlight - (n - done)
  BY DEF Drop
<1>2. n \in Nat /\ done \in Nat /\ done <= n
  BY VectorPlaces DEF Shape, StreamShape
<1>3. /\ pc'[o] = "closed" /\ \A x \in Opens \ {o} : pc'[x] = pc[x] /\ settled'[x] = settled[x]
  BY <1>1 DEF Shape, OpenShape, StreamShape
<1>4. IsFiniteSet(E) /\ Cardinality(E) = n - done
  <2> HIDE DEF n, done
  <2> QED BY <1>2, RowPlaces
<1>5. ASSUME NEW w PROVE (w \in Waiting' <=> w \in Waiting /\ w \notin E) /\ (w \in E => w \in Waiting)
  <2>1. /\ w \in Waiting <=>
             /\ w \in Opens \X Nat /\ pc[w[1]] # "closed"
             /\ settled[w[1]] < w[2] /\ w[2] <= Len(inbox[w[1]])
        /\ w \in Waiting' <=>
             /\ w \in Opens \X Nat /\ pc'[w[1]] # "closed"
             /\ settled'[w[1]] < w[2] /\ w[2] <= Len(inbox[w[1]])
    BY <1>1, WaitingPairs
  <2>2. w \in E <=> w \in Opens \X Nat /\ w[1] = o /\ done < w[2] /\ w[2] <= n
    BY <1>2
  <2> HIDE DEF E
  <2>3. CASE w \in Opens \X Nat /\ w[1] = o
    BY <1>1, <1>3, <2>1, <2>2, <2>3
  <2>4. CASE ~(w \in Opens \X Nat /\ w[1] = o)
    BY <1>3, <2>1, <2>2, <2>4
  <2> QED BY <2>3, <2>4
<1> HIDE DEF E, n, done
<1>6. Waiting' = Waiting \ E /\ E \subseteq Waiting
  BY <1>5
<1>7. inFlight' = inFlight - Cardinality(E)
  BY <1>1, <1>4
<1> QED BY <1>6, <1>7, CountedOut

\* And so is one a handler is done with.
LEMMA CountedSettled ==
  ASSUME Shape, Shape', Counted, NEW o \in Opens, Settle(o)
  PROVE  Counted'
<1> DEFINE e == <<o, settled[o] + 1>>
           E == {e}
<1>1. /\ pc[o] # "closed" /\ settled[o] < Len(inbox[o]) /\ UNCHANGED <<pc, inbox>>
      /\ settled' = [settled EXCEPT ![o] = settled[o] + 1] /\ inFlight' = inFlight - 1
  BY DEF Settle, openVars
<1>2. Len(inbox[o]) \in Nat /\ settled[o] \in Nat
  BY VectorPlaces DEF Shape, StreamShape
<1>3. settled'[o] = settled[o] + 1 /\ \A x \in Opens \ {o} : settled'[x] = settled[x]
  BY <1>1 DEF Shape, StreamShape
<1>4. Cardinality(E) = 1
  BY FS_Singleton
<1>5. ASSUME NEW w PROVE (w \in Waiting' <=> w \in Waiting /\ w \notin E) /\ (w \in E => w \in Waiting)
  <2>1. /\ w \in Waiting <=>
             /\ w \in Opens \X Nat /\ pc[w[1]] # "closed"
             /\ settled[w[1]] < w[2] /\ w[2] <= Len(inbox[w[1]])
        /\ w \in Waiting' <=>
             /\ w \in Opens \X Nat /\ pc[w[1]] # "closed"
             /\ settled'[w[1]] < w[2] /\ w[2] <= Len(inbox[w[1]])
    BY <1>1, WaitingPairs
  <2>2. w \in E <=> w \in Opens \X Nat /\ w[1] = o /\ w[2] = settled[o] + 1
    BY <1>2
  <2> HIDE DEF E
  <2>3. CASE w \in Opens \X Nat /\ w[1] = o
    BY <1>1, <1>2, <1>3, <2>1, <2>2, <2>3
  <2>4. CASE ~(w \in Opens \X Nat /\ w[1] = o)
    BY <1>3, <2>1, <2>2, <2>4
  <2> QED BY <2>3, <2>4
<1> HIDE DEF E
<1>6. Waiting' = Waiting \ E /\ E \subseteq Waiting
  BY <1>5
<1>7. inFlight' = inFlight - Cardinality(E)
  BY <1>1, <1>4
<1> QED BY <1>6, <1>7, CountedOut

\* Each step keeps the count.
LEMMA CountedStep ==
  ASSUME Structure, Shape, Shape', Numbered, Seats, Counted, [Next]_vars
  PROVE  Counted'
<1>1. ASSUME UNCHANGED <<inbox, settled, inFlight>>, NEW o \in Opens, NEW at,
             pc[o] # "closed", at # "closed", pc' = pc \/ pc' = [pc EXCEPT ![o] = at]
      PROVE  Counted'
  <2>1. \A x \in Opens : pc'[x] = "closed" <=> pc[x] = "closed"
    BY <1>1 DEF Shape, OpenShape
  <2> QED BY <1>1, <2>1, CountedSame
<1>2. ASSUME UNCHANGED <<inbox, settled, inFlight, pc>> PROVE Counted'
  BY <1>2, CountedSame
<1>3. ASSUME NEW o \in Opens, RefreshCheck(o) PROVE Counted'
  <2>1. /\ UNCHANGED <<inbox, settled, inFlight>> /\ pc[o] = "sending"
        /\ pc' = pc \/ pc' = [pc EXCEPT ![o] = "refreshing"]
    BY <1>3 DEF RefreshCheck, streamVars
  <2> QED BY <1>1, <2>1
<1>4. ASSUME NEW o \in Opens, RefreshSubscribe(o) PROVE Counted'
  <2>1. /\ UNCHANGED <<inbox, settled, inFlight>> /\ pc[o] = "refreshing"
        /\ pc' = [pc EXCEPT ![o] = "attached"]
    BY <1>4 DEF RefreshSubscribe, streamVars
  <2> QED BY <1>1, <2>1
<1>5. ASSUME NEW o \in Opens, RefreshIdentified(o) PROVE Counted'
  <2>1. /\ UNCHANGED <<inbox, settled, inFlight>> /\ pc[o] = "attached"
        /\ pc' = [pc EXCEPT ![o] = "sending"]
    BY <1>5 DEF RefreshIdentified, streamVars
  <2> QED BY <1>1, <2>1
<1>6. ASSUME NEW o \in Opens, Subscribe(o) PROVE Counted'
  <2>1. /\ UNCHANGED <<inbox, settled, inFlight>> /\ pc[o] = "sending"
        /\ pc' = [pc EXCEPT ![o] = "handing"]
    BY <1>6 DEF Subscribe, streamVars
  <2> QED BY <1>1, <2>1
<1>7. ASSUME NEW o \in Opens, Opened(o) PROVE Counted'
  <2>1. /\ UNCHANGED <<inbox, settled, inFlight>> /\ pc[o] = "handing"
        /\ pc' = [pc EXCEPT ![o] = "open"]
    BY <1>7 DEF Opened, streamVars
  <2> QED BY <1>1, <2>1
<1>8. CASE (\E th \in Threads : Receive(th)) \/ UNCHANGED vars
  <2>1. UNCHANGED <<inbox, settled, inFlight, pc>>
    BY <1>8 DEF Receive, vars, openVars, streamVars
  <2> QED BY <1>2, <2>1
<1>9. ASSUME NEW o \in Opens, HandRetained(o) PROVE Counted'
  <2>1. HandOver(Head(handing[o])) /\ UNCHANGED <<pc, settled>>
    BY <1>9 DEF HandRetained
  <2> QED BY <2>1, CountedHanded
<1>10. ASSUME NEW th \in Threads, Send(th) PROVE Counted'
  <2>1. HandOver(Head(sending[th])) /\ UNCHANGED <<pc, settled>>
    BY <1>10 DEF Send, openVars
  <2> QED BY <2>1, CountedHanded
<1>11. ASSUME NEW o \in Opens, OpenJoin(o) \/ Drop(o) \/ Settle(o) PROVE Counted'
  BY <1>11, CountedJoined, CountedDropped, CountedSettled
<1> QED BY <1>3, <1>4, <1>5, <1>6, <1>7, <1>8, <1>9, <1>10, <1>11 DEF Next

\* The harness counts exactly what the streams hold and no handler is done with: each copy
\* the registry hands over is in one stream that was not dropped, what is held is not
\* counted, and a drop counts out what its stream still held.  So the count is zero when,
\* and only when, every stream was read.
THEOREM HarnessCounts ==
  ASSUME IsFiniteSet(Topics)
  PROVE  Spec => []InFlightCounts
<1> DEFINE Inv == Course /\ Numbered /\ Seats /\ Counted
<1>1. Init => Inv
  <2> SUFFICES ASSUME Init PROVE Inv
    OBVIOUS
  <2>1. Course
    BY CourseInit
  <2>2. Numbered
    BY DEF Init, Numbered
  <2>3. Seats
    BY SitsInit DEF Init, Seats
  <2>4. Waiting = {}
    <3>1. \A o \in Opens : {o} \X ((settled[o] + 1)..Len(inbox[o])) = {}
      BY DEF Init
    <3> QED BY <3>1 DEF Waiting, Alive
  <2>5. Counted
    BY <2>4, FS_EmptySet DEF Init, Counted, InFlightCounts
  <2> QED BY <2>1, <2>2, <2>3, <2>5
<1>2. Inv /\ [Next]_vars => Inv'
  <2> SUFFICES ASSUME Inv, [Next]_vars PROVE Inv'
    OBVIOUS
  <2>1. Course'
    BY CourseStep
  <2>2. Table /\ Structure /\ Shape /\ Shape'
    BY <2>1 DEF Course, Table
  <2>3. Numbered' /\ Seats'
    BY <2>2, SeatsStep
  <2>4. Counted'
    BY <2>2, CountedStep
  <2> QED BY <2>1, <2>3, <2>4
<1>3. Inv => InFlightCounts
  BY DEF Counted
<1> QED BY <1>1, <1>2, <1>3, PTL DEF Spec

-----------------------------------------------------------------------------
(* What the server is asked for, and what it holds, as opens ask for theirs *)
(* in whatever turns: each subscription needs a quality of service and its  *)
(* filter's identifier, and the requests of joins that came after its own   *)
(* ask for no less.  That holds of a filter until a request about it        *)
(* overtakes an earlier join's.                                             *)

\* The open has joined and not left, and has requests to make or to finish.
Stands(o)     == pc[o] \notin {"idle", "closed"}
Requesting(o) == pc[o] \in {"sending", "refreshing", "attached"}

\* An open asks for one thing after another: the refreshes first, its own filter last.
OpenRequests ==
  /\ todo = [o \in Opens |-> todo[o]]
  /\ \A o \in Opens :
       /\ Vector(todo[o])
       /\ \/ pc[o] \in {"idle", "handing", "open", "closed"} /\ todo[o] = <<>>
          \/ /\ Requesting(o) /\ todo[o] # <<>>
             /\ \A i \in DOMAIN todo[o] : todo[o][i].refresh <=> i < Len(todo[o])
             /\ pc[o] # "sending" => todo[o][1].refresh

\* The server has a filter once.
Subscribed == \A j, k \in DOMAIN server : server[j].filter = server[k].filter => j = k

\* An open's member sits on its filter; its refreshes are of filters that meet it.
Placed ==
  \A o \in Opens :
    /\ Stands(o) => SitsOn(member[o], FilterOf[o], QosOf[o])
    /\ \A i \in DOMAIN todo[o] :
         IF todo[o][i].refresh
         THEN todo[o][i].filter # FilterOf[o] /\ Overlap(todo[o][i].filter, FilterOf[o])
         ELSE todo[o][i].filter = FilterOf[o]

\* A wire the server may hold without its identifier has a refresh under way.
Announced ==
  \A n \in DOMAIN wires : wires[n].unnamed =>
    \E o \in Opens : \E i \in DOMAIN todo[o] :
      todo[o][i].refresh /\ todo[o][i].filter = wires[n].filter

\* The open o has the request r to make; it has made the refresh r.
Due(r, o)  == \E i \in DOMAIN todo[o] : todo[o][i] = r /\ (pc[o] = "attached" => i # 1)
Sent(r, o) == pc[o] = "attached" /\ r = todo[o][1]

\* Nothing about f went out of turn.
Clear(f) == f \notin overtaken

\* A request to be made asks for what the opens that joined before it need, and where
\* later ones have been faster the filter is overtaken.
DueFits ==
  \A o, p \in Opens : \A r : Due(r, o) /\ Stands(p) /\ FilterOf[p] = r.filter =>
    /\ member[p] <= member[o] =>
         r.qos >= QosOf[p] /\ (Clear(r.filter) => Fits(r.filter, r.identifier))
    /\ member[p] > member[o] /\ ~Requesting(p) => ~Clear(r.filter)

\* f's identifier id is there to stay, as far as the opens know that joined as m or later.
Attaching(f, id, m) ==
  /\ id # NoIdentifier /\ Named(f, id)
  /\ \A p \in Opens : \A q : Due(q, p) /\ member[p] >= m /\ q.filter = f => q.identifier = id

\* f was subscribed with the identifier it has.
Told(f) == \A n \in DOMAIN wires :
             wires[n].filter = f => ~wires[n].unnamed /\ wires[n].identifier # NoIdentifier

\* A refresh names the identifier that stays, once made on the server too; or else all that
\* shared its filter left, and it was opened again with an identifier of its own.
RefreshFits ==
  \A o \in Opens : \A r : r.refresh /\ Clear(r.filter) /\ Holds(r.filter) =>
    /\ Due(r, o) => Told(r.filter) \/ Attaching(r.filter, r.identifier, member[o])
    /\ Sent(r, o) =>
         \/ Told(r.filter)
         \/ /\ Attaching(r.filter, r.identifier, NoMember)
            /\ \A k \in DOMAIN server :
                 server[k].filter = r.filter => server[k].identifier = r.identifier

\* What the server is to hold for an open that asked for it.
Holding(o) ==
  \E k \in DOMAIN server : /\ server[k].filter = FilterOf[o] /\ server[k].qos >= QosOf[o]
                           /\ Fits(FilterOf[o], server[k].identifier)

Upheld == \A o \in Opens : Stands(o) /\ ~Requesting(o) /\ Clear(FilterOf[o]) => Holding(o)

Asked == OpenRequests /\ Subscribed /\ Placed /\ Announced /\ DueFits /\ RefreshFits /\ Upheld

\* Who joined has a number.
LEMMA MemberNumbers ==
  ASSUME Structure, Numbered
  PROVE  nextMember \in Nat /\ \A o \in Opens : /\ member[o] \in Int /\ member[o] >= NoMember
                                                /\ member[o] < nextMember
BY DEF Numbered, NoMember, Structure, RegistryTypeOK

\* A filter an open stands on is held.
LEMMA StandsHeld ==
  ASSUME Placed
  PROVE  \A o \in Opens : Stands(o) => Holds(FilterOf[o])
BY DEF Placed, SitsOn, Holds

\* While the table tells as before, the opens only finish what they had to ask for, and the
\* server keeps what is held, what they need is asked for as before.
LEMMA FitsCalm ==
  ASSUME DueFits, RefreshFits, Upheld, Placed', Telling, UNCHANGED <<member, overtaken>>,
         \A o \in Opens : /\ Stands(o)' => Stands(o)
                          /\ Stands(o)' /\ ~Requesting(o)' => ~Requesting(o)
                          /\ \A r : (Due(r, o)' => Due(r, o)) /\ (Sent(r, o)' => Sent(r, o)),
         \A k \in DOMAIN server' : \E j \in DOMAIN server : server'[k] = server[j],
         \A f : Holds(f)' => \A j \in DOMAIN server : server[j].filter = f =>
           \E k \in DOMAIN server' : server'[k] = server[j]
  PROVE  DueFits' /\ RefreshFits' /\ Upheld'
<1>1. /\ \A f, id : (Named(f, id) => Named(f, id)') /\ (Fits(f, id) => Fits(f, id)')
      /\ \A f : (Holds(f)' => Holds(f)) /\ (Told(f) => Told(f)') /\ (Clear(f)' <=> Clear(f))
  <2>1. \A f : (Holds(f)' => Holds(f)) /\ (Told(f) => Told(f)')
    BY DEF Telling, Holds, Told
  <2> QED BY <2>1, FitsTold DEF Clear
<1>2. \A f, id, m : Attaching(f, id, m) => Attaching(f, id, m)'
  BY <1>1 DEF Attaching
<1>3. DueFits'
  BY <1>1 DEF DueFits
<1>4. RefreshFits'
  <2> SUFFICES ASSUME NEW o \in Opens, NEW r, r.refresh, Clear(r.filter), Holds(r.filter)'
               PROVE  /\ Due(r, o)' => Told(r.filter)' \/ Attaching(r.filter, r.identifier, member[o])'
                      /\ Sent(r, o)' =>
                           \/ Told(r.filter)'
                           \/ /\ Attaching(r.filter, r.identifier, NoMember)'
                              /\ \A k \in DOMAIN server' :
                                   server'[k].filter = r.filter => server'[k].identifier = r.identifier
    BY <1>1 DEF RefreshFits
  <2>1. PICK m : m = member[o] /\ m = member'[o]
    OBVIOUS
  <2>2. Due(r, o)' => Told(r.filter)' \/ Attaching(r.filter, r.identifier, m)'
    BY <1>1, <1>2, <2>1 DEF RefreshFits
  <2>3. Sent(r, o)' => Told(r.filter)' \/ Attaching(r.filter, r.identifier, NoMember)'
    BY <1>1, <1>2 DEF RefreshFits
  <2>4. ASSUME Sent(r, o)', ~Told(r.filter)', NEW k \in DOMAIN server', server'[k].filter = r.filter
        PROVE  server'[k].identifier = r.identifier
    <3>1. Sent(r, o) /\ ~Told(r.filter) /\ Holds(r.filter)
      BY <1>1, <2>4
    <3> QED BY <2>4, <3>1 DEF RefreshFits
  <2>5. Due(r, o)' => Told(r.filter)' \/ Attaching(r.filter, r.identifier, member[o])'
    BY <2>1, <2>2 DEF Attaching
  <2> QED BY <2>3, <2>4, <2>5
<1>5. Upheld'
  <2> SUFFICES ASSUME NEW o \in Opens, Stands(o)', ~Requesting(o)', Clear(FilterOf[o])
               PROVE  Holding(o)'
    BY <1>1 DEF Upheld
  <2>1. PICK j \in DOMAIN server : /\ server[j].filter = FilterOf[o] /\ server[j].qos >= QosOf[o]
                                   /\ Fits(FilterOf[o], server[j].identifier)
    BY DEF Upheld, Holding
  <2>2. Holds(FilterOf[o])'
    BY DEF Placed, SitsOn, Holds
  <2>3. PICK k \in DOMAIN server' : server'[k] = server[j]
    BY <2>1, <2>2
  <2>4. PICK id : id = server[j].identifier
    OBVIOUS
  <2>5. Fits(FilterOf[o], id)'
    BY <1>1, <2>1, <2>4
  <2> QED BY <2>1, <2>3, <2>4, <2>5 DEF Holding, Fits
<1> QED BY <1>3, <1>4, <1>5

\* After a subscribe the server holds what it asked for, and what it held of the others.
LEMMA PutHolds ==
  ASSUME Vector(server), Subscribed, NEW o, NEW request, Put(o, request)
  PROVE  /\ Subscribed'
         /\ \E k \in DOMAIN server' : /\ server'[k].filter = request.filter
                                      /\ server'[k].identifier = request.identifier
                                      /\ server'[k].qos = request.qos
         /\ \A k \in DOMAIN server :
              server[k].filter # request.filter => \E j \in DOMAIN server' : server'[j] = server[k]
         /\ \A k \in DOMAIN server' :
              \/ \E j \in DOMAIN server : server'[k] = server[j]
              \/ server'[k].filter = request.filter /\ server'[k].identifier = request.identifier
         /\ \A k \in DOMAIN server' :
              server'[k].filter = request.filter => server'[k].identifier = request.identifier
<1> DEFINE sub == [filter |-> request.filter, qos |-> request.qos,
                   identifier |-> request.identifier, since |-> Len(published)]
           As(k) == [sub EXCEPT !.since = server[k].since]
<1>1. /\ sub.filter = request.filter /\ sub.qos = request.qos
      /\ sub.identifier = request.identifier
      /\ \A k : /\ As(k).filter = request.filter /\ As(k).qos = request.qos
                /\ As(k).identifier = request.identifier
  OBVIOUS
<1>2. server' = IF Served(request.filter)
                THEN [n \in DOMAIN server |-> IF server[n].filter = request.filter THEN As(n)
                                              ELSE server[n]]
                ELSE Append(server, sub)
  BY DEF Put
<1> HIDE DEF sub, As
<1>3. CASE Served(request.filter)
  <2>1. /\ DOMAIN server' = DOMAIN server
        /\ \A k \in DOMAIN server :
             /\ server[k].filter = request.filter => server'[k] = As(k)
             /\ server[k].filter # request.filter => server'[k] = server[k]
    BY <1>2, <1>3
  <2>2. \A k \in DOMAIN server : server'[k].filter = server[k].filter
    BY <1>1, <2>1
  <2>3. Subscribed'
    BY <2>1, <2>2 DEF Subscribed
  <2> QED BY <1>1, <1>3, <2>1, <2>2, <2>3 DEF Served
<1>4. CASE ~Served(request.filter)
  <2>1. server' = Append(server, sub)
    BY <1>2, <1>4
  <2>2. /\ Len(server) \in Nat /\ DOMAIN server = 1..Len(server)
        /\ DOMAIN Append(server, sub) = 1..(Len(server) + 1)
        /\ \A k \in DOMAIN server : Append(server, sub)[k] = server[k]
        /\ Append(server, sub)[Len(server) + 1] = sub
    BY VectorLonger
  <2>3. /\ DOMAIN server' = 1..(Len(server) + 1)
        /\ \A k \in DOMAIN server : server'[k] = server[k]
        /\ server'[Len(server) + 1] = sub
    BY <2>1, <2>2
  <2>4. \A k \in DOMAIN server' : k \in DOMAIN server \/ k = Len(server) + 1
    BY <2>2, <2>3
  <2>5. \A k \in DOMAIN server : k \in DOMAIN server' /\ server[k].filter # request.filter
    BY <1>4, <2>2, <2>3 DEF Served
  <2>6. Len(server) + 1 \in DOMAIN server'
    BY <2>2, <2>3
  <2>7. Subscribed'
    BY <1>1, <2>3, <2>4, <2>5 DEF Subscribed
  <2>8. \A k \in DOMAIN server' :
          \/ k \in DOMAIN server /\ server'[k] = server[k] /\ server'[k].filter # request.filter
          \/ server'[k].filter = request.filter /\ server'[k].identifier = request.identifier
    BY <1>1, <2>3, <2>4, <2>5
  <2> QED BY <1>1, <2>3, <2>5, <2>6, <2>7, <2>8
<1> QED BY <1>3, <1>4

\* What is released is gone, and the rest stays.
LEMMA ReleasedHolds ==
  ASSUME Vector(server), Subscribed, NEW fs, server' = Released(fs)
  PROVE  /\ Subscribed'
         /\ \A k \in DOMAIN server :
              server[k].filter \notin fs => \E j \in DOMAIN server' : server'[j] = server[k]
         /\ \A k \in DOMAIN server' : \E j \in DOMAIN server : server'[k] = server[j]
<1> DEFINE P == {k \in DOMAIN server : server[k].filter \notin fs}
<1>1. server' = At(server, P)
  BY DEF Released, Select
<1>2. P \in SUBSET DOMAIN server
  OBVIOUS
<1>3. \A k \in DOMAIN server : server[k].filter \notin fs => k \in P
  OBVIOUS
<1> HIDE DEF P
<1>4. PICK after : after = At(server, P)
  OBVIOUS
<1>5. /\ Cardinality(P) \in Nat /\ DOMAIN after = 1..Cardinality(P)
      /\ \A i \in DOMAIN after : \E p \in P : after[i] = server[p]
      /\ \A i, j \in DOMAIN after :
           i < j => \E p, q \in P : p < q /\ after[i] = server[p] /\ after[j] = server[q]
  BY <1>2, <1>4, VectorAt
<1>6. \A k \in P : \E i \in DOMAIN after : after[i] = server[k]
  BY <1>2, <1>4, AtProperties DEF Vector
<1>7. DOMAIN server \subseteq Int
  BY VectorPlaces
<1>8. \A j, k \in DOMAIN after : after[j].filter = after[k].filter => j = k
  <2>1. ASSUME NEW j \in DOMAIN after, NEW k \in DOMAIN after, j < k
        PROVE  after[j].filter # after[k].filter
    <3>1. PICK p \in P, q \in P : p < q /\ after[j] = server[p] /\ after[k] = server[q]
      BY <1>5, <2>1
    <3> QED BY <1>2, <1>7, <3>1 DEF Subscribed
  <2>2. \A j, k \in DOMAIN after : j = k \/ j < k \/ k < j
    BY <1>5
  <2> QED BY <2>1, <2>2
<1>9. server' = after
  BY <1>1, <1>4
<1>10. Subscribed'
  BY <1>8, <1>9 DEF Subscribed
<1> QED BY <1>2, <1>3, <1>5, <1>6, <1>9, <1>10

\* A row of requests without its first one.
LEMMA RowTail ==
  ASSUME NEW s, Vector(s), s # <<>>, \A i \in DOMAIN s : s[i].refresh <=> i < Len(s)
  PROVE  /\ Vector(Tail(s)) /\ 1 \in DOMAIN s /\ Head(s) = s[1]
         /\ \A i \in DOMAIN Tail(s) : /\ i + 1 \in DOMAIN s /\ Tail(s)[i] = s[i + 1]
                                      /\ Tail(s)[i].refresh <=> i < Len(Tail(s))
         /\ \A k \in DOMAIN s : k = 1 \/ \E i \in DOMAIN Tail(s) : Tail(s)[i] = s[k]
         /\ s[1].refresh <=> Tail(s) # <<>>
         /\ ~s[1].refresh => DOMAIN s = {1}
<1>1. /\ Vector(Tail(s))
      /\ Len(s) \in Nat \ {0} /\ DOMAIN s = 1..Len(s)
      /\ Len(Tail(s)) = Len(s) - 1 /\ DOMAIN Tail(s) = 1..(Len(s) - 1)
      /\ Head(s) = s[1] /\ 1 \in DOMAIN s
      /\ \A i \in DOMAIN Tail(s) : i + 1 \in DOMAIN s /\ Tail(s)[i] = s[i + 1]
  BY VectorTail
<1>2. PICK rest : rest = Tail(s)
  OBVIOUS
<1>3. \A i \in DOMAIN rest : rest[i].refresh <=> i < Len(rest)
  <2>1. SUFFICES ASSUME NEW i \in DOMAIN rest
                 PROVE  rest[i].refresh <=> i < Len(rest)
    OBVIOUS
  <2>2. i + 1 \in DOMAIN s /\ rest[i] = s[i + 1]
    BY <1>1, <1>2
  <2>3. i + 1 < Len(s) <=> i < Len(rest)
    BY <1>1, <1>2
  <2> QED BY <2>2, <2>3
<1>4. \A k \in DOMAIN s : k = 1 \/ \E i \in DOMAIN rest : rest[i] = s[k]
  <2>1. SUFFICES ASSUME NEW k \in DOMAIN s, k # 1
                 PROVE  \E i \in DOMAIN rest : rest[i] = s[k]
    OBVIOUS
  <2>2. k - 1 \in DOMAIN rest /\ (k - 1) + 1 = k
    BY <1>1, <1>2, <2>1
  <2> QED BY <1>1, <1>2, <2>2
<1>5. s[1].refresh <=> 1 < Len(s)
  BY <1>1
<1>6. rest # <<>> <=> Len(rest) # 0
  BY <1>1, <1>2, EmptySeq DEF Vector
<1>7. 1 < Len(s) <=> Len(rest) # 0
  BY <1>1, <1>2
<1>8. ~(1 < Len(s)) => DOMAIN s = {1}
  BY <1>1
<1> QED BY <1>1, <1>2, <1>3, <1>4, <1>5, <1>6, <1>7, <1>8

\* What is left to do of an open that got on is what it had to do, but for the first request
\* where that was made.
Fewer(o) ==
  /\ \A x \in Opens : /\ \A i \in DOMAIN todo'[x] : \E j \in DOMAIN todo[x] : todo'[x][i] = todo[x][j]
                      /\ \A j \in DOMAIN todo[x] :
                           (x = o /\ j = 1) \/ \E i \in DOMAIN todo'[x] : todo'[x][i] = todo[x][j]
                      /\ \A r : Due(r, x)' => Due(r, x)

\* The opens ask in their way after the next request was made or passed over.
LEMMA NextRequest ==
  ASSUME Shape, OpenRequests, NEW o \in Opens, Requesting(o), NEW rest, rest = Tail(todo[o]),
         NEW at, at = IF rest = <<>> THEN "handing" ELSE "sending",
         pc' = [pc EXCEPT ![o] = at], todo' = [todo EXCEPT ![o] = rest]
  PROVE  /\ OpenRequests' /\ Fewer(o)
         /\ \A x \in Opens : /\ Stands(x)' => Stands(x)
                             /\ \A r : Sent(r, x)' => Sent(r, x)
         /\ \A x \in Opens : ~Requesting(x)' => ~Requesting(x) \/ (x = o /\ ~todo[o][1].refresh)
<1>1. /\ todo' = [x \in Opens |-> todo'[x]] /\ todo'[o] = rest
      /\ \A x \in Opens \ {o} : todo'[x] = todo[x]
      /\ pc'[o] = at /\ \A x \in Opens \ {o} : pc'[x] = pc[x]
  BY DEF OpenRequests, Shape, OpenShape
<1>2. /\ Vector(todo[o]) /\ todo[o] # <<>>
      /\ \A i \in DOMAIN todo[o] : todo[o][i].refresh <=> i < Len(todo[o])
  BY DEF OpenRequests, Requesting
<1>3. /\ Vector(rest)
      /\ \A i \in DOMAIN rest : /\ i + 1 \in DOMAIN todo[o] /\ rest[i] = todo[o][i + 1]
                                /\ rest[i].refresh <=> i < Len(rest)
      /\ \A k \in DOMAIN todo[o] : k = 1 \/ \E i \in DOMAIN rest : rest[i] = todo[o][k]
      /\ todo[o][1].refresh <=> rest # <<>>
  BY <1>2, RowTail
<1>4. at \in {"handing", "sending"} /\ (at = "handing" <=> rest = <<>>)
  OBVIOUS
<1>5. ASSUME NEW x \in Opens
      PROVE  /\ Vector(todo'[x])
             /\ \/ pc'[x] \in {"idle", "handing", "open", "closed"} /\ todo'[x] = <<>>
                \/ /\ Requesting(x)' /\ todo'[x] # <<>>
                   /\ \A i \in DOMAIN todo'[x] : todo'[x][i].refresh <=> i < Len(todo'[x])
                   /\ pc'[x] # "sending" => todo'[x][1].refresh
  <2>1. CASE x = o
    BY <1>1, <1>3, <1>4, <2>1 DEF Requesting
  <2>2. CASE x # o
    BY <1>1, <2>2 DEF OpenRequests, Requesting
  <2> QED BY <2>1, <2>2
<1>6. OpenRequests'
  BY <1>1, <1>5 DEF OpenRequests
<1>7. \A i \in DOMAIN rest : i + 1 # 1
  BY <1>3, VectorPlaces
<1>8. Fewer(o)
  <2>1. ASSUME NEW x \in Opens, x = o
        PROVE  /\ \A i \in DOMAIN todo'[x] : \E j \in DOMAIN todo[x] : todo'[x][i] = todo[x][j]
               /\ \A j \in DOMAIN todo[x] :
                    (x = o /\ j = 1) \/ \E i \in DOMAIN todo'[x] : todo'[x][i] = todo[x][j]
    BY <1>1, <1>3, <2>1
  <2>2. ASSUME NEW r, Due(r, o)' PROVE Due(r, o)
    <3>1. PICK i \in DOMAIN rest : rest[i] = r
      BY <1>1, <2>2 DEF Due
    <3>2. i + 1 \in DOMAIN todo[o] /\ todo[o][i + 1] = r /\ i + 1 # 1
      BY <1>3, <1>7, <3>1
    <3> QED BY <3>2 DEF Due
  <2>3. ASSUME NEW x \in Opens, x # o
        PROVE  /\ \A i \in DOMAIN todo'[x] : \E j \in DOMAIN todo[x] : todo'[x][i] = todo[x][j]
               /\ \A j \in DOMAIN todo[x] : \E i \in DOMAIN todo'[x] : todo'[x][i] = todo[x][j]
               /\ \A r : Due(r, x)' => Due(r, x)
    BY <1>1, <2>3 DEF Due
  <2> QED BY <2>1, <2>2, <2>3 DEF Fewer
<1>9. /\ \A x \in Opens : Stands(x)' => Stands(x)
      /\ \A x \in Opens : ~Requesting(x)' => ~Requesting(x) \/ (x = o /\ ~todo[o][1].refresh)
  BY <1>1, <1>3, <1>4 DEF Stands, Requesting
<1>10. \A x \in Opens : \A r : Sent(r, x)' => Sent(r, x)
  BY <1>1, <1>4 DEF Sent
<1> QED BY <1>6, <1>8, <1>9, <1>10

\* They ask as before where an open got on with the request it is about to make.
LEMMA SameRequest ==
  ASSUME Shape, OpenRequests, NEW o \in Opens, UNCHANGED todo,
         NEW at, pc' = [pc EXCEPT ![o] = at],
         \/ pc[o] = "sending" /\ at = "refreshing" /\ todo[o][1].refresh
         \/ pc[o] = "refreshing" /\ at = "attached"
         \/ pc[o] = "handing" /\ at = "open"
         \/ pc[o] = "open" /\ at = "closed"
  PROVE  /\ OpenRequests' /\ Fewer(o)
         /\ \A x \in Opens : /\ Stands(x)' => Stands(x) /\ (x = o => at # "closed")
                             /\ ~Requesting(x)' => ~Requesting(x)
         /\ \A x \in Opens : \A r : Sent(r, x)' => Sent(r, x) \/ (x = o /\ at = "attached" /\ r = todo[o][1])
<1>1. pc'[o] = at /\ \A x \in Opens \ {o} : pc'[x] = pc[x]
  BY DEF Shape, OpenShape
<1>2. ASSUME NEW x \in Opens
      PROVE  \/ pc'[x] \in {"idle", "handing", "open", "closed"} /\ todo'[x] = <<>>
             \/ /\ Requesting(x)' /\ todo'[x] # <<>>
                /\ \A i \in DOMAIN todo'[x] : todo'[x][i].refresh <=> i < Len(todo'[x])
                /\ pc'[x] # "sending" => todo'[x][1].refresh
  <2>1. CASE x = o
    BY <1>1, <2>1 DEF OpenRequests, Requesting
  <2>2. CASE x # o
    BY <1>1, <2>2 DEF OpenRequests, Requesting
  <2> QED BY <2>1, <2>2
<1>3. OpenRequests'
  BY <1>2 DEF OpenRequests
<1>4. Fewer(o)
  BY <1>1 DEF Fewer, Due
<1>5. \A x \in Opens : /\ Stands(x)' => Stands(x) /\ (x = o => at # "closed")
                       /\ ~Requesting(x)' => ~Requesting(x)
  BY <1>1 DEF Stands, Requesting
<1>6. \A x \in Opens : \A r : Sent(r, x)' => Sent(r, x) \/ (x = o /\ at = "attached" /\ r = todo[o][1])
  BY <1>1 DEF Sent
<1> QED BY <1>3, <1>4, <1>5, <1>6

\* Who stands stays on its seat, and asks for nothing new.
LEMMA PlacedKept ==
  ASSUME Placed, UNCHANGED member,
         \A x \in Opens : \A m, f, q : Stands(x)' /\ m = member[x] /\ SitsOn(m, f, q) => SitsOn(m, f, q)',
         \A x \in Opens : Stands(x)' => Stands(x),
         \A x \in Opens : \A i \in DOMAIN todo'[x] :
           \E j \in DOMAIN todo[x] : todo'[x][i] = todo[x][j]
  PROVE  Placed'
<1>1. ASSUME NEW o \in Opens, NEW i \in DOMAIN todo'[o]
      PROVE  IF todo'[o][i].refresh
             THEN todo'[o][i].filter # FilterOf[o] /\ Overlap(todo'[o][i].filter, FilterOf[o])
             ELSE todo'[o][i].filter = FilterOf[o]
  BY DEF Placed
<1>2. ASSUME NEW o \in Opens, Stands(o)'
      PROVE  SitsOn(member[o], FilterOf[o], QosOf[o])'
  <2>1. SitsOn(member[o], FilterOf[o], QosOf[o])
    BY <1>2 DEF Placed
  <2>2. PICK m, f, q : m = member[o] /\ f = FilterOf[o] /\ q = QosOf[o]
    OBVIOUS
  <2>3. SitsOn(m, f, q)'
    BY <1>2, <2>1, <2>2
  <2> QED BY <2>2, <2>3
<1> QED BY <1>1, <1>2 DEF Placed, Overlap

\* A wire that has to be announced still is, but for the one whose refresh is over.
LEMMA AnnouncedKept ==
  ASSUME Announced, NEW o \in Opens, Fewer(o),
         \A n \in DOMAIN wires' : wires'[n].unnamed =>
           \E k \in DOMAIN wires : wires[k].unnamed /\ wires[k].filter = wires'[n].filter,
         \/ UNCHANGED todo
         \/ \A n \in DOMAIN wires' : wires'[n].unnamed => wires'[n].filter # todo[o][1].filter
         \/ ~todo[o][1].refresh
  PROVE  Announced'
<1> SUFFICES ASSUME NEW n \in DOMAIN wires', wires'[n].unnamed
             PROVE  \E x \in Opens : \E i \in DOMAIN todo'[x] :
                      todo'[x][i].refresh /\ todo'[x][i].filter = wires'[n].filter
  BY DEF Announced
<1>1. PICK x \in Opens : \E j \in DOMAIN todo[x] : todo[x][j].refresh /\ todo[x][j].filter = wires'[n].filter
  BY DEF Announced
<1>2. PICK j \in DOMAIN todo[x] : todo[x][j].refresh /\ todo[x][j].filter = wires'[n].filter
  BY <1>1
<1>3. CASE UNCHANGED todo
  BY <1>2, <1>3
<1>4. CASE ~(x = o /\ j = 1)
  <2>1. \E i \in DOMAIN todo'[x] : todo'[x][i] = todo[x][j]
    BY <1>4 DEF Fewer
  <2> QED BY <1>2, <2>1
<1> QED BY <1>2, <1>3, <1>4

\* What the opens are asked of is as before while the table only hands over packets and
\* nothing is asked.
LEMMA AskedResting ==
  ASSUME Structure, Asked, UNCHANGED <<pc, todo, member, overtaken, server>>,
         UNCHANGED registryVars \/ \E t, ids : Route(t, ids)
  PROVE  Asked'
<1>1. Telling
  BY RouteTells DEF Structure, registryVars
<1>2. /\ \A x \in Opens : /\ (Stands(x)' <=> Stands(x)) /\ (Requesting(x)' <=> Requesting(x))
                          /\ \A r : (Due(r, x)' <=> Due(r, x)) /\ (Sent(r, x)' <=> Sent(r, x))
      /\ OpenRequests' /\ Subscribed'
  BY DEF Stands, Requesting, Due, Sent, Asked, OpenRequests, Subscribed
<1>3. Placed'
  <2>1. \A m, f, q : SitsOn(m, f, q) => SitsOn(m, f, q)'
    BY SitsOnSame
  <2> QED BY <1>2, <2>1, PlacedKept DEF Asked
<1>4. Announced'
  BY <1>1 DEF Asked, Announced, Telling
<1>5. DueFits' /\ RefreshFits' /\ Upheld'
  BY <1>1, <1>2, <1>3, FitsCalm DEF Asked
<1> QED BY <1>2, <1>3, <1>4, <1>5 DEF Asked

LEMMA AskedHanded ==
  ASSUME Structure, Asked, NEW p, HandOver(p), UNCHANGED <<pc, todo, member, overtaken, server>>
  PROVE  Asked'
<1>1. UNCHANGED registryVars \/ \E t, ids : Route(t, ids)
  BY DEF HandOver
<1> QED BY <1>1, AskedResting

\* Before a refresh: a filter nobody holds any more is left alone.
LEMMA AskedChecked ==
  ASSUME Structure, Shape, Asked, NEW o \in Opens, RefreshCheck(o)
  PROVE  Asked'
<1>1. /\ pc[o] = "sending" /\ Head(todo[o]).refresh /\ Requesting(o)
      /\ \/ pc' = [pc EXCEPT ![o] = "refreshing"] /\ UNCHANGED todo
         \/ /\ ~Holds(Head(todo[o]).filter)
            /\ todo' = [todo EXCEPT ![o] = Tail(todo[o])] /\ UNCHANGED pc
      /\ UNCHANGED <<registryVars, wires, member, server, overtaken>>
  BY DEF RefreshCheck, serverVars, registryVars, Requesting
<1>2. /\ Vector(todo[o]) /\ todo[o] # <<>>
      /\ \A i \in DOMAIN todo[o] : todo[o][i].refresh <=> i < Len(todo[o])
  BY <1>1 DEF Asked, OpenRequests, Requesting
<1>3. 1 \in DOMAIN todo[o] /\ Head(todo[o]) = todo[o][1] /\ Tail(todo[o]) # <<>>
  BY <1>1, <1>2, RowTail
<1>4. OpenRequests /\ Placed /\ Announced
  BY DEF Asked
<1>5. /\ OpenRequests' /\ Fewer(o)
      /\ \A x \in Opens : /\ Stands(x)' => Stands(x)
                          /\ ~Requesting(x)' => ~Requesting(x)
                          /\ \A r : Sent(r, x)' => Sent(r, x)
  <2>1. CASE pc' = [pc EXCEPT ![o] = "refreshing"] /\ UNCHANGED todo
    <3>1. PICK at : at = "refreshing"
      OBVIOUS
    <3>2. /\ OpenRequests' /\ Fewer(o)
          /\ \A x \in Opens : /\ Stands(x)' => Stands(x)
                              /\ ~Requesting(x)' => ~Requesting(x)
          /\ \A x \in Opens : \A r : Sent(r, x)' => Sent(r, x) \/ (x = o /\ at = "attached" /\ r = todo[o][1])
      BY <1>1, <1>3, <1>4, <2>1, <3>1, SameRequest
    <3> QED BY <3>1, <3>2
  <2>2. CASE todo' = [todo EXCEPT ![o] = Tail(todo[o])] /\ UNCHANGED pc
    <3>1. PICK rest : rest = Tail(todo[o])
      OBVIOUS
    <3>2. PICK at : at = IF rest = <<>> THEN "handing" ELSE "sending"
      OBVIOUS
    <3>3. pc' = [pc EXCEPT ![o] = at]
      BY <1>1, <1>3, <2>2, <3>1, <3>2 DEF Shape, OpenShape
    <3>4. /\ OpenRequests' /\ Fewer(o)
          /\ \A x \in Opens : /\ Stands(x)' => Stands(x)
                              /\ \A r : Sent(r, x)' => Sent(r, x)
          /\ \A x \in Opens : ~Requesting(x)' => ~Requesting(x) \/ (x = o /\ ~todo[o][1].refresh)
      BY <1>1, <1>4, <2>2, <3>1, <3>2, <3>3, NextRequest
    <3> QED BY <1>1, <1>3, <3>4
  <2> QED BY <1>1, <2>1, <2>2
<1>6. Telling
  BY <1>1, RouteTells DEF Structure
<1>7. Placed'
  <2>1. \A m, f, q : SitsOn(m, f, q) => SitsOn(m, f, q)'
    BY <1>1, SitsOnSame
  <2> QED BY <1>1, <1>4, <1>5, <2>1, PlacedKept DEF Fewer
<1>8. Announced'
  <2>1. \/ UNCHANGED todo
        \/ \A n \in DOMAIN wires' : wires'[n].unnamed => wires'[n].filter # todo[o][1].filter
    BY <1>1, <1>3 DEF Holds
  <2>2. \A n \in DOMAIN wires' : wires'[n].unnamed =>
          \E k \in DOMAIN wires : wires[k].unnamed /\ wires[k].filter = wires'[n].filter
    BY <1>1
  <2> QED BY <1>4, <1>5, <2>1, <2>2, AnnouncedKept
<1>9. DueFits' /\ RefreshFits' /\ Upheld'
  <2>1. \A x \in Opens : /\ Stands(x)' => Stands(x)
                         /\ Stands(x)' /\ ~Requesting(x)' => ~Requesting(x)
                         /\ \A r : (Due(r, x)' => Due(r, x)) /\ (Sent(r, x)' => Sent(r, x))
    BY <1>5 DEF Fewer
  <2> QED BY <1>1, <1>6, <1>7, <2>1, FitsCalm DEF Asked
<1> QED BY <1>1, <1>5, <1>7, <1>8, <1>9 DEF Asked, Subscribed

\* An open that has all it asked for only returns.
LEMMA AskedOpened ==
  ASSUME Structure, Shape, Asked, NEW o \in Opens, Opened(o)
  PROVE  Asked'
<1>1. /\ pc[o] = "handing" /\ pc' = [pc EXCEPT ![o] = "open"]
      /\ UNCHANGED <<registryVars, wires, member, todo, server, overtaken>>
  BY DEF Opened, serverVars, registryVars
<1>2. OpenRequests /\ Placed /\ Announced
  BY DEF Asked
<1>3. /\ OpenRequests' /\ Fewer(o)
      /\ \A x \in Opens : /\ Stands(x)' => Stands(x)
                          /\ ~Requesting(x)' => ~Requesting(x)
                          /\ \A r : Sent(r, x)' => Sent(r, x)
  <2>1. PICK at : at = "open"
    OBVIOUS
  <2>2. /\ OpenRequests' /\ Fewer(o)
        /\ \A x \in Opens : /\ Stands(x)' => Stands(x)
                            /\ ~Requesting(x)' => ~Requesting(x)
        /\ \A x \in Opens : \A r : Sent(r, x)' => Sent(r, x) \/ (x = o /\ at = "attached" /\ r = todo[o][1])
    BY <1>1, <1>2, <2>1, SameRequest
  <2> QED BY <2>1, <2>2
<1>4. Telling
  BY <1>1, RouteTells DEF Structure
<1>5. Placed'
  <2>1. \A m, f, q : SitsOn(m, f, q) => SitsOn(m, f, q)'
    BY <1>1, SitsOnSame
  <2> QED BY <1>1, <1>2, <1>3, <2>1, PlacedKept DEF Fewer
<1>6. Announced'
  BY <1>1, <1>2 DEF Announced
<1>7. DueFits' /\ RefreshFits' /\ Upheld'
  <2>1. \A x \in Opens : /\ Stands(x)' => Stands(x)
                         /\ Stands(x)' /\ ~Requesting(x)' => ~Requesting(x)
                         /\ \A r : (Due(r, x)' => Due(r, x)) /\ (Sent(r, x)' => Sent(r, x))
    BY <1>3 DEF Fewer
  <2> QED BY <1>1, <1>4, <1>5, <2>1, FitsCalm DEF Asked
<1> QED BY <1>1, <1>3, <1>5, <1>6, <1>7 DEF Asked, Subscribed

\* A drop takes off the server only what nobody stands on any more.
LEMMA AskedDropped ==
  ASSUME Structure, Structure', Shape, Numbered, Asked, NEW o \in Opens, Drop(o)
  PROVE  Asked'
<1>1. PICK left : left = member[o]
  OBVIOUS
<1>2. /\ pc[o] = "open" /\ Leave(left) /\ pc' = [pc EXCEPT ![o] = "closed"]
      /\ UNCHANGED <<member, todo, overtaken>>
      /\ UNCHANGED server \/ server' = Released(TakenOff(left))
  BY <1>1 DEF Drop
<1>3. OpenRequests /\ Placed /\ Announced /\ Subscribed /\ Vector(server)
  BY DEF Asked, Shape, ServerShape
<1>4. /\ OpenRequests' /\ Fewer(o)
      /\ \A x \in Opens : /\ Stands(x)' => Stands(x) /\ x # o
                          /\ ~Requesting(x)' => ~Requesting(x)
                          /\ \A r : Sent(r, x)' => Sent(r, x)
  <2>1. PICK at : at = "closed"
    OBVIOUS
  <2>2. /\ OpenRequests' /\ Fewer(o)
        /\ \A x \in Opens : /\ Stands(x)' => Stands(x) /\ (x = o => at # "closed")
                            /\ ~Requesting(x)' => ~Requesting(x)
        /\ \A x \in Opens : \A r : Sent(r, x)' => Sent(r, x) \/ (x = o /\ at = "attached" /\ r = todo[o][1])
    BY <1>2, <1>3, <2>1, SameRequest
  <2> QED BY <2>1, <2>2
<1>5. Telling
  BY <1>2, LeaveTells DEF Structure
<1>6. Placed'
  <2>1. \A k, f, q : k # left /\ SitsOn(k, f, q) => SitsOn(k, f, q)'
    BY <1>2, SitsOnLeft
  <2>2. ASSUME NEW x \in Opens, NEW m, NEW f, NEW q, Stands(x)', m = member[x], SitsOn(m, f, q)
        PROVE  SitsOn(m, f, q)'
    <3>1. x # o
      BY <1>4, <2>2
    <3>2. Sits(m)
      BY <2>2 DEF SitsOn, Sits
    <3>3. m # NoMember
      <4>1. m \in Nat
        BY <3>2, SitsBefore
      <4> QED BY <4>1 DEF NoMember
    <3>4. m # left
      BY <1>1, <2>2, <3>1, <3>3 DEF Numbered
    <3> QED BY <2>1, <2>2, <3>4
  <2> QED BY <1>2, <1>3, <1>4, <2>2, PlacedKept DEF Fewer
<1>7. Announced'
  BY <1>2, <1>3, <1>5 DEF Announced, Telling
<1>8. PICK fs : fs = TakenOff(left)
  OBVIOUS
<1>9. /\ Subscribed'
      /\ \A k \in DOMAIN server' : \E j \in DOMAIN server : server'[k] = server[j]
      /\ \A k \in DOMAIN server :
           server[k].filter \notin fs => \E j \in DOMAIN server' : server'[j] = server[k]
  <2>1. CASE UNCHANGED server
    BY <1>3, <2>1 DEF Subscribed
  <2>2. CASE server' = Released(fs)
    BY <1>3, <2>2, ReleasedHolds
  <2> QED BY <1>2, <1>8, <2>1, <2>2
<1>10. \A f : Holds(f)' => f \notin fs
  BY <1>2, <1>8, HoldsLeft
<1>11. DueFits' /\ RefreshFits' /\ Upheld'
  <2>1. \A x \in Opens : /\ Stands(x)' => Stands(x)
                         /\ Stands(x)' /\ ~Requesting(x)' => ~Requesting(x)
                         /\ \A r : (Due(r, x)' => Due(r, x)) /\ (Sent(r, x)' => Sent(r, x))
    BY <1>4 DEF Fewer
  <2>2. \A f : Holds(f)' => \A j \in DOMAIN server : server[j].filter = f =>
          \E k \in DOMAIN server' : server'[k] = server[j]
    BY <1>9, <1>10
  <2> QED BY <1>2, <1>5, <1>6, <1>9, <2>1, <2>2, FitsCalm DEF Asked
<1> QED BY <1>4, <1>6, <1>7, <1>9, <1>11 DEF Asked

\* A request that is made is what all need that joined before its open; from those that
\* joined later it takes nothing, or its filter was overtaken.
LEMMA FitsPut ==
  ASSUME Structure, Numbered, Vector(server), Asked, Placed', NEW o \in Opens, NEW request,
         Put(o, request), Due(request, o), UNCHANGED <<wires, member>>, Fewer(o), Stands(o),
         \A x \in Opens : /\ Stands(x)' => Stands(x)
                          /\ ~Requesting(x)' => ~Requesting(x) \/ (x = o /\ FilterOf[o] = request.filter),
         \A x \in Opens : \A r : Sent(r, x)' => Sent(r, x) \/ (x = o /\ r = request)
  PROVE  DueFits' /\ RefreshFits' /\ Upheld' /\ Subscribed'
<1>1. /\ Subscribed'
      /\ \E k \in DOMAIN server' : /\ server'[k].filter = request.filter
                                   /\ server'[k].identifier = request.identifier
                                   /\ server'[k].qos = request.qos
      /\ \A k \in DOMAIN server :
           server[k].filter # request.filter => \E j \in DOMAIN server' : server'[j] = server[k]
      /\ \A k \in DOMAIN server' :
           \/ \E j \in DOMAIN server : server'[k] = server[j]
           \/ server'[k].filter = request.filter /\ server'[k].identifier = request.identifier
      /\ \A k \in DOMAIN server' :
           server'[k].filter = request.filter => server'[k].identifier = request.identifier
  BY PutHolds DEF Asked
<1>2. /\ \A f : (Holds(f)' <=> Holds(f)) /\ (Told(f)' <=> Told(f)) /\ (Clear(f)' => Clear(f))
      /\ \A f, id : (Named(f, id)' <=> Named(f, id)) /\ (Fits(f, id)' <=> Fits(f, id))
  BY DEF Holds, Told, Clear, Named, Fits, Put
<1>3. \A x \in Opens : \A r : Due(r, x)' => Due(r, x)
  BY DEF Fewer
\* An earlier join's requests about the filter are overtaken.
<1>4. ASSUME NEW x \in Opens, NEW r, Due(r, x), r.filter = request.filter, member[x] < member[o],
             Holds(r.filter)
      PROVE  ~Clear(r.filter)'
  <2>1. r.filter \in Filters
    <3>1. \A n \in DOMAIN wires : wires[n] \in Wire
      BY SeqPlaces DEF Structure, RegistryTypeOK
    <3> QED BY <1>4, <3>1 DEF Holds, Wire
  <2>2. PICK i \in DOMAIN todo[x] : todo[x][i] = r /\ (pc[x] = "attached" => i # 1)
    BY <1>4 DEF Due
  <2>3. Opening(x)
    <3>1. todo[x] # <<>>
      BY <2>2, EmptySeq
    <3> QED BY <3>1 DEF Asked, OpenRequests, Requesting, Opening
  <2>4. r.filter \in Delayed(member[o], request.filter)
    BY <1>4, <2>1, <2>2, <2>3 DEF Delayed
  <2> QED BY <2>4 DEF Put, Clear
<1>5. \A x \in Opens : member[x] \in Int /\ member[x] >= NoMember
  BY MemberNumbers
<1>6. \A f, id, m : Attaching(f, id, m) => Attaching(f, id, m)'
  BY <1>2, <1>3 DEF Attaching
<1>7. \A x \in Opens : Stands(x) => Holds(FilterOf[x])
  BY StandsHeld DEF Asked
<1>8. DueFits'
  <2> SUFFICES ASSUME NEW x \in Opens, NEW p \in Opens, NEW r, Due(r, x)', Stands(p)', FilterOf[p] = r.filter
               PROVE  /\ member[p] <= member[x] =>
                           r.qos >= QosOf[p] /\ (Clear(r.filter)' => Fits(r.filter, r.identifier)')
                      /\ member[p] > member[x] /\ ~Requesting(p)' => ~Clear(r.filter)'
    BY DEF DueFits
  <2>1. Due(r, x) /\ Stands(p) /\ Holds(r.filter)
    BY <1>3, <1>7
  <2>2. member[p] <= member[x] => r.qos >= QosOf[p] /\ (Clear(r.filter)' => Fits(r.filter, r.identifier)')
    BY <1>2, <2>1 DEF Asked, DueFits
  <2>3. ASSUME member[p] > member[x], ~Requesting(p)' PROVE ~Clear(r.filter)'
    <3>1. CASE ~Requesting(p)
      BY <1>2, <2>1, <2>3, <3>1 DEF Asked, DueFits
    <3>2. CASE p = o /\ FilterOf[o] = request.filter
      BY <1>4, <1>5, <2>1, <2>3, <3>2
    <3> QED BY <2>3, <3>1, <3>2
  <2> QED BY <2>2, <2>3
<1>9. RefreshFits'
  <2> SUFFICES ASSUME NEW x \in Opens, NEW r, r.refresh, Clear(r.filter)', Holds(r.filter)'
               PROVE  /\ Due(r, x)' => Told(r.filter)' \/ Attaching(r.filter, r.identifier, member[x])'
                      /\ Sent(r, x)' =>
                           \/ Told(r.filter)'
                           \/ /\ Attaching(r.filter, r.identifier, NoMember)'
                              /\ \A k \in DOMAIN server' :
                                   server'[k].filter = r.filter => server'[k].identifier = r.identifier
    BY DEF RefreshFits
  <2>1. Clear(r.filter) /\ Holds(r.filter)
    BY <1>2
  <2>2. PICK m : m = member[x]
    OBVIOUS
  <2>3. Due(r, x)' => Told(r.filter)' \/ Attaching(r.filter, r.identifier, m)'
    BY <1>2, <1>3, <1>6, <2>1, <2>2 DEF Asked, RefreshFits
  <2>4. Due(r, x)' => Told(r.filter)' \/ Attaching(r.filter, r.identifier, member[x])'
    BY <2>2, <2>3 DEF Attaching
  <2>5. ASSUME Sent(r, x), ~Told(r.filter)
        PROVE  /\ Attaching(r.filter, r.identifier, NoMember)'
               /\ \A k \in DOMAIN server' :
                    server'[k].filter = r.filter => server'[k].identifier = r.identifier
    <3>1. /\ Attaching(r.filter, r.identifier, NoMember)
          /\ \A k \in DOMAIN server : server[k].filter = r.filter => server[k].identifier = r.identifier
      BY <2>1, <2>5 DEF Asked, RefreshFits
    <3>2. request.filter = r.filter => request.identifier = r.identifier
      BY <1>5, <3>1 DEF Attaching
    <3>3. ASSUME NEW k \in DOMAIN server', server'[k].filter = r.filter PROVE server'[k].identifier = r.identifier
      <4>1. CASE \E j \in DOMAIN server : server'[k] = server[j]
        BY <3>1, <3>3, <4>1
      <4>2. CASE server'[k].filter = request.filter /\ server'[k].identifier = request.identifier
        BY <3>2, <3>3, <4>2
      <4> QED BY <1>1, <4>1, <4>2
    <3> QED BY <1>6, <3>1, <3>3
  <2>6. ASSUME x = o, r = request, ~Told(r.filter)
        PROVE  /\ Attaching(r.filter, r.identifier, NoMember)'
               /\ \A k \in DOMAIN server' :
                    server'[k].filter = r.filter => server'[k].identifier = r.identifier
    <3>1. Attaching(r.filter, r.identifier, member[o])
      BY <2>1, <2>6 DEF Asked, RefreshFits
    <3>2. ASSUME NEW p \in Opens, NEW q, Due(q, p), q.filter = r.filter PROVE q.identifier = r.identifier
      <4>1. ~(member[p] < member[o])
        BY <1>4, <2>1, <2>6, <3>2
      <4>2. member[p] >= member[o]
        BY <1>5, <4>1
      <4> QED BY <3>1, <3>2, <4>2 DEF Attaching
    <3>3. Attaching(r.filter, r.identifier, NoMember)
      BY <3>1, <3>2 DEF Attaching
    <3> QED BY <1>1, <1>6, <2>6, <3>3
  <2> QED BY <1>2, <2>4, <2>5, <2>6
<1>10. Upheld'
  <2> SUFFICES ASSUME NEW p \in Opens, Stands(p)', ~Requesting(p)', Clear(FilterOf[p])'
               PROVE  Holding(p)'
    BY DEF Upheld, Clear
  <2>1. Stands(p) /\ Clear(FilterOf[p])
    BY <1>2
  <2>2. CASE FilterOf[p] = request.filter
    <3>1. ~(member[p] > member[o] /\ ~Requesting(p))
      BY <2>1, <2>2 DEF Asked, DueFits
    <3>2. member[p] <= member[o]
      BY <1>5, <3>1
    <3>3. request.qos >= QosOf[p] /\ Fits(request.filter, request.identifier)
      BY <2>1, <2>2, <3>2 DEF Asked, DueFits
    <3>4. PICK k \in DOMAIN server' : /\ server'[k].filter = request.filter
                                      /\ server'[k].identifier = request.identifier
                                      /\ server'[k].qos = request.qos
      BY <1>1
    <3> QED BY <1>2, <2>2, <3>3, <3>4 DEF Holding, Fits
  <2>3. CASE FilterOf[p] # request.filter
    <3>1. PICK j \in DOMAIN server : /\ server[j].filter = FilterOf[p] /\ server[j].qos >= QosOf[p]
                                     /\ Fits(FilterOf[p], server[j].identifier)
      BY <2>1, <2>3 DEF Asked, Upheld, Holding
    <3>2. PICK k \in DOMAIN server' : server'[k] = server[j]
      BY <1>1, <2>3, <3>1
    <3> QED BY <1>2, <3>1, <3>2 DEF Holding, Fits
  <2> QED BY <2>2, <2>3
<1> QED BY <1>1, <1>8, <1>9, <1>10

\* A refresh is subscribed.
LEMMA AskedRefreshed ==
  ASSUME Structure, Shape, Numbered, Asked, NEW o \in Opens, RefreshSubscribe(o)
  PROVE  Asked'
<1>1. /\ pc[o] = "refreshing" /\ Put(o, Head(todo[o])) /\ pc' = [pc EXCEPT ![o] = "attached"]
      /\ UNCHANGED <<registryVars, wires, member, todo>> /\ Requesting(o)
  BY DEF RefreshSubscribe, registryVars, Requesting
<1>2. /\ Vector(todo[o]) /\ todo[o] # <<>> /\ todo[o][1].refresh
      /\ \A i \in DOMAIN todo[o] : todo[o][i].refresh <=> i < Len(todo[o])
  BY <1>1 DEF Asked, OpenRequests, Requesting
<1>3. 1 \in DOMAIN todo[o] /\ Head(todo[o]) = todo[o][1]
  BY <1>2, RowTail
<1>4. OpenRequests /\ Placed /\ Announced /\ Vector(server)
  BY DEF Asked, Shape, ServerShape
<1>5. PICK request : request = todo[o][1]
  OBVIOUS
<1>6. /\ OpenRequests' /\ Fewer(o)
      /\ \A x \in Opens : Stands(x)' => Stands(x)
      /\ \A x \in Opens : ~Requesting(x)' => ~Requesting(x)
      /\ \A x \in Opens : \A r : Sent(r, x)' => Sent(r, x) \/ (x = o /\ r = request)
  <2>1. PICK at : at = "attached"
    OBVIOUS
  <2>2. /\ OpenRequests' /\ Fewer(o)
        /\ \A x \in Opens : /\ Stands(x)' => Stands(x) /\ (x = o => at # "closed")
                            /\ ~Requesting(x)' => ~Requesting(x)
        /\ \A x \in Opens : \A r : Sent(r, x)' => Sent(r, x) \/ (x = o /\ at = "attached" /\ r = todo[o][1])
    BY <1>1, <1>4, <2>1, SameRequest
  <2> QED BY <1>5, <2>1, <2>2
<1>7. Placed'
  <2>1. \A m, f, q : SitsOn(m, f, q) => SitsOn(m, f, q)'
    BY <1>1, SitsOnSame
  <2> QED BY <1>1, <1>4, <1>6, <2>1, PlacedKept DEF Fewer
<1>8. Announced'
  BY <1>1, <1>4 DEF Announced
<1>9. DueFits' /\ RefreshFits' /\ Upheld' /\ Subscribed'
  <2>1. Put(o, request) /\ Due(request, o) /\ Stands(o)
    BY <1>1, <1>3, <1>5 DEF Due, Stands
  <2> QED BY <1>1, <1>4, <1>6, <1>7, <2>1, FitsPut
<1> QED BY <1>6, <1>7, <1>8, <1>9 DEF Asked

\* So is the open's own filter, its last request.
LEMMA AskedSubscribed ==
  ASSUME Structure, Shape, Numbered, Asked, NEW o \in Opens, Subscribe(o)
  PROVE  Asked'
<1>1. /\ pc[o] = "sending" /\ ~Head(todo[o]).refresh /\ Put(o, Head(todo[o]))
      /\ todo' = [todo EXCEPT ![o] = Tail(todo[o])] /\ pc' = [pc EXCEPT ![o] = "handing"]
      /\ UNCHANGED <<registryVars, wires, member>> /\ Requesting(o)
  BY DEF Subscribe, registryVars, Requesting
<1>2. /\ Vector(todo[o]) /\ todo[o] # <<>>
      /\ \A i \in DOMAIN todo[o] : todo[o][i].refresh <=> i < Len(todo[o])
  BY <1>1 DEF Asked, OpenRequests, Requesting
<1>3. /\ 1 \in DOMAIN todo[o] /\ Head(todo[o]) = todo[o][1]
      /\ ~todo[o][1].refresh /\ Tail(todo[o]) = <<>>
  BY <1>1, <1>2, RowTail
<1>4. OpenRequests /\ Placed /\ Announced /\ Vector(server)
  BY DEF Asked, Shape, ServerShape
<1>5. PICK request : request = todo[o][1]
  OBVIOUS
<1>6. /\ OpenRequests' /\ Fewer(o)
      /\ \A x \in Opens : Stands(x)' => Stands(x)
      /\ \A x \in Opens : ~Requesting(x)' => ~Requesting(x) \/ x = o
      /\ \A x \in Opens : \A r : Sent(r, x)' => Sent(r, x)
  <2>1. PICK rest : rest = Tail(todo[o])
    OBVIOUS
  <2>2. PICK at : at = IF rest = <<>> THEN "handing" ELSE "sending"
    OBVIOUS
  <2>3. pc' = [pc EXCEPT ![o] = at] /\ todo' = [todo EXCEPT ![o] = rest]
    BY <1>1, <1>3, <2>1, <2>2
  <2>4. /\ OpenRequests' /\ Fewer(o)
        /\ \A x \in Opens : /\ Stands(x)' => Stands(x)
                            /\ \A r : Sent(r, x)' => Sent(r, x)
        /\ \A x \in Opens : ~Requesting(x)' => ~Requesting(x) \/ (x = o /\ ~todo[o][1].refresh)
    BY <1>1, <1>4, <2>1, <2>2, <2>3, NextRequest
  <2> QED BY <2>4
<1>7. Placed'
  <2>1. \A m, f, q : SitsOn(m, f, q) => SitsOn(m, f, q)'
    BY <1>1, SitsOnSame
  <2> QED BY <1>1, <1>4, <1>6, <2>1, PlacedKept DEF Fewer
<1>8. Announced'
  <2>1. \A n \in DOMAIN wires' : wires'[n].unnamed =>
          \E k \in DOMAIN wires : wires[k].unnamed /\ wires[k].filter = wires'[n].filter
    BY <1>1
  <2> QED BY <1>3, <1>4, <1>6, <2>1, AnnouncedKept
<1>9. DueFits' /\ RefreshFits' /\ Upheld' /\ Subscribed'
  <2>1. Put(o, request) /\ Due(request, o) /\ Stands(o)
    BY <1>1, <1>3, <1>5 DEF Due, Stands
  <2>2. FilterOf[o] = request.filter
    BY <1>3, <1>4, <1>5 DEF Placed
  <2> QED BY <1>1, <1>4, <1>6, <1>7, <2>1, <2>2, FitsPut
<1> QED BY <1>6, <1>7, <1>8, <1>9 DEF Asked

\* The answer to a refresh finds the server and whatever is still to be asked naming the
\* filter's identifier, or its wire told of it already.
LEMMA AskedIdentified ==
  ASSUME Structure, Shape, Numbered, Asked, NEW o \in Opens, RefreshIdentified(o)
  PROVE  Asked'
<1>1. /\ pc[o] = "attached" /\ Identified(Head(todo[o]).filter, TRUE) /\ Requesting(o)
      /\ todo' = [todo EXCEPT ![o] = Tail(todo[o])] /\ pc' = [pc EXCEPT ![o] = "sending"]
      /\ UNCHANGED <<member, server, overtaken>>
  BY DEF RefreshIdentified, serverVars, Requesting
<1>2. /\ Vector(todo[o]) /\ todo[o] # <<>> /\ todo[o][1].refresh
      /\ \A i \in DOMAIN todo[o] : todo[o][i].refresh <=> i < Len(todo[o])
  BY <1>1 DEF Asked, OpenRequests, Requesting
<1>3. 1 \in DOMAIN todo[o] /\ Head(todo[o]) = todo[o][1] /\ Tail(todo[o]) # <<>>
  BY <1>2, RowTail
<1>4. OpenRequests /\ Placed /\ Announced /\ RegistryTypeOK
  BY DEF Asked, Structure
<1>5. PICK r, f : r = todo[o][1] /\ f = r.filter
  OBVIOUS
<1>6. /\ OpenRequests' /\ Fewer(o)
      /\ \A x \in Opens : Stands(x)' => Stands(x)
      /\ \A x \in Opens : ~Requesting(x)' => ~Requesting(x)
      /\ \A x \in Opens : \A q : Sent(q, x)' => Sent(q, x)
  <2>1. PICK rest : rest = Tail(todo[o])
    OBVIOUS
  <2>2. PICK at : at = IF rest = <<>> THEN "handing" ELSE "sending"
    OBVIOUS
  <2>3. pc' = [pc EXCEPT ![o] = at] /\ todo' = [todo EXCEPT ![o] = rest]
    BY <1>1, <1>3, <2>1, <2>2
  <2>4. /\ OpenRequests' /\ Fewer(o)
        /\ \A x \in Opens : /\ Stands(x)' => Stands(x)
                            /\ \A q : Sent(q, x)' => Sent(q, x)
        /\ \A x \in Opens : ~Requesting(x)' => ~Requesting(x) \/ (x = o /\ ~todo[o][1].refresh)
    BY <1>1, <1>4, <2>1, <2>2, <2>3, NextRequest
  <2> QED BY <1>2, <2>4
<1>7. Identified(f, TRUE)
  BY <1>1, <1>3, <1>5
<1>8. Placed'
  <2>1. \A m, g, q : SitsOn(m, g, q) => SitsOn(m, g, q)'
    BY <1>7, SitsOnSame
  <2> QED BY <1>1, <1>4, <1>6, <2>1, PlacedKept DEF Fewer
<1>9. /\ DOMAIN wires' = DOMAIN wires
      /\ \A n \in DOMAIN wires : IF wires[n].filter = f
           THEN wires'[n] = [wires[n] EXCEPT !.unnamed = FALSE, !.identifier = @]
           ELSE wires'[n] = wires[n]
  BY <1>7 DEF Identified
<1>10. \A n \in DOMAIN wires : /\ wires'[n].filter = wires[n].filter
                               /\ wires'[n].identifier = wires[n].identifier
                               /\ wires'[n].unnamed = (wires[n].unnamed /\ wires[n].filter # f)
  <2>1. \A n \in DOMAIN wires : wires[n] \in Wire
    BY <1>4, SeqPlaces DEF RegistryTypeOK
  <2> QED BY <1>9, <2>1 DEF Wire
<1>11. Announced'
  <2>1. \A n \in DOMAIN wires' : wires'[n].unnamed =>
          \E k \in DOMAIN wires : wires[k].unnamed /\ wires[k].filter = wires'[n].filter
    BY <1>9, <1>10
  <2>2. \A n \in DOMAIN wires' : wires'[n].unnamed => wires'[n].filter # todo[o][1].filter
    BY <1>5, <1>9, <1>10
  <2> QED BY <1>4, <1>6, <2>1, <2>2, AnnouncedKept
<1>12. /\ \A g : (Holds(g)' <=> Holds(g)) /\ (Told(g) => Told(g)') /\ (Clear(g)' <=> Clear(g))
       /\ \A g, id : Named(g, id)' <=> Named(g, id)
       /\ \A g, id : Fits(g, id) /\ (g # f \/ Told(f) \/ Named(g, id)) => Fits(g, id)'
  <2>1. \A g, id : Fits(g, id) /\ g # f => Fits(g, id)'
    BY <1>9, <1>10 DEF Fits
  <2>2. \A g, id : Named(g, id) => Fits(g, id)'
    BY <1>9, <1>10 DEF Named, Fits
  <2>3. \A id : Fits(f, id) /\ Told(f) => Named(f, id)
    BY DEF Fits, Told, Named
  <2>4. \A g : (Holds(g)' <=> Holds(g)) /\ (Told(g) => Told(g)') /\ (Clear(g)' <=> Clear(g))
    BY <1>1, <1>9, <1>10 DEF Holds, Told, Clear
  <2>5. \A g, id : Named(g, id)' <=> Named(g, id)
    BY <1>9, <1>10 DEF Named
  <2> QED BY <2>1, <2>2, <2>3, <2>4, <2>5
<1>13. \A x \in Opens : \A q : Due(q, x)' => Due(q, x)
  BY <1>6 DEF Fewer
<1>14. \A g, id, m : Attaching(g, id, m) => Attaching(g, id, m)'
  BY <1>1, <1>12, <1>13 DEF Attaching
\* The refresh names what stays.
<1>15. Clear(f) /\ Holds(f) /\ ~Told(f) =>
         /\ Attaching(f, r.identifier, NoMember)
         /\ \A k \in DOMAIN server : server[k].filter = f => server[k].identifier = r.identifier
  <2>1. Sent(r, o) /\ r.refresh
    BY <1>1, <1>2, <1>5 DEF Sent
  <2> QED BY <1>5, <2>1 DEF Asked, RefreshFits
<1>16. \A x \in Opens : member[x] \in Int /\ member[x] >= NoMember
  BY MemberNumbers
<1>17. \A x \in Opens : Stands(x) => Holds(FilterOf[x])
  BY <1>4, StandsHeld
<1>18. DueFits'
  <2> SUFFICES ASSUME NEW x \in Opens, NEW p \in Opens, NEW q, Due(q, x)', Stands(p)', FilterOf[p] = q.filter
               PROVE  /\ member[p] <= member[x] =>
                           q.qos >= QosOf[p] /\ (Clear(q.filter)' => Fits(q.filter, q.identifier)')
                      /\ member[p] > member[x] /\ ~Requesting(p)' => ~Clear(q.filter)'
    BY <1>1 DEF DueFits
  <2>1. Due(q, x) /\ Stands(p) /\ Holds(q.filter)
    BY <1>6, <1>13, <1>17
  <2>2. member[p] > member[x] /\ ~Requesting(p)' => ~Clear(q.filter)'
    BY <1>6, <1>12, <2>1 DEF Asked, DueFits
  <2>3. ASSUME member[p] <= member[x]
        PROVE  q.qos >= QosOf[p] /\ (Clear(q.filter)' => Fits(q.filter, q.identifier)')
    <3>1. q.qos >= QosOf[p] /\ (Clear(q.filter) => Fits(q.filter, q.identifier))
      BY <2>1, <2>3 DEF Asked, DueFits
    <3>2. ASSUME Clear(q.filter), q.filter = f, ~Told(f) PROVE Named(q.filter, q.identifier)
      <4>1. Attaching(f, r.identifier, NoMember)
        BY <1>15, <2>1, <3>2
      <4>2. q.identifier = r.identifier
        BY <1>16, <2>1, <3>2, <4>1 DEF Attaching
      <4> QED BY <3>2, <4>1, <4>2 DEF Attaching
    <3> QED BY <1>12, <3>1, <3>2
  <2> QED BY <2>2, <2>3
<1>19. RefreshFits'
  <2> SUFFICES ASSUME NEW x \in Opens, NEW q, q.refresh, Clear(q.filter)', Holds(q.filter)'
               PROVE  /\ Due(q, x)' => Told(q.filter)' \/ Attaching(q.filter, q.identifier, member[x])'
                      /\ Sent(q, x)' =>
                           \/ Told(q.filter)'
                           \/ /\ Attaching(q.filter, q.identifier, NoMember)'
                              /\ \A k \in DOMAIN server' :
                                   server'[k].filter = q.filter => server'[k].identifier = q.identifier
    BY DEF RefreshFits
  <2>1. Clear(q.filter) /\ Holds(q.filter)
    BY <1>12
  <2>2. PICK m : m = member[x] /\ m = member'[x]
    BY <1>1
  <2>3. Due(q, x)' => Told(q.filter)' \/ Attaching(q.filter, q.identifier, m)'
    BY <1>12, <1>13, <1>14, <2>1, <2>2 DEF Asked, RefreshFits
  <2>4. Due(q, x)' => Told(q.filter)' \/ Attaching(q.filter, q.identifier, member[x])'
    BY <2>2, <2>3 DEF Attaching
  <2>5. Sent(q, x)' => \/ Told(q.filter)'
                       \/ /\ Attaching(q.filter, q.identifier, NoMember)'
                          /\ \A k \in DOMAIN server :
                               server[k].filter = q.filter => server[k].identifier = q.identifier
    BY <1>6, <1>12, <1>14, <2>1 DEF Asked, RefreshFits
  <2> QED BY <1>1, <2>4, <2>5
<1>20. Upheld'
  <2> SUFFICES ASSUME NEW p \in Opens, Stands(p)', ~Requesting(p)', Clear(FilterOf[p])'
               PROVE  Holding(p)'
    BY DEF Upheld, Clear
  <2>1. Stands(p) /\ ~Requesting(p) /\ Clear(FilterOf[p]) /\ Holds(FilterOf[p])
    BY <1>6, <1>12, <1>17
  <2>2. PICK k \in DOMAIN server : /\ server[k].filter = FilterOf[p] /\ server[k].qos >= QosOf[p]
                                   /\ Fits(FilterOf[p], server[k].identifier)
    BY <2>1 DEF Asked, Upheld, Holding
  <2>3. PICK id : id = server[k].identifier
    OBVIOUS
  <2>4. FilterOf[p] = f /\ ~Told(f) => Named(FilterOf[p], id)
    BY <1>15, <2>1, <2>2, <2>3 DEF Attaching
  <2>5. Fits(FilterOf[p], id)'
    BY <1>12, <2>2, <2>3, <2>4
  <2> QED BY <1>1, <2>2, <2>3, <2>5 DEF Holding, Fits
<1> QED BY <1>1, <1>6, <1>8, <1>11, <1>18, <1>19, <1>20 DEF Asked, Subscribed

\* The quality of service of a wire is what those that stand there need.
OneWireServes ==
  \A o \in Opens : Stands(o) => \A n \in DOMAIN wires : wires[n].filter = FilterOf[o] => wires[n].qos >= QosOf[o]

LEMMA ServesPlaced == Structure /\ Placed => OneWireServes
<1> SUFFICES ASSUME Structure, Placed, NEW o \in Opens, Stands(o),
                    NEW n \in DOMAIN wires, wires[n].filter = FilterOf[o]
             PROVE  wires[n].qos >= QosOf[o]
  BY DEF OneWireServes
<1>1. SitsOn(member[o], FilterOf[o], QosOf[o])
  BY DEF Placed
<1> QED BY <1>1, SitsServed

LEMMA ServesPlacedNext == (Structure /\ Placed => OneWireServes)'
BY ServesPlaced, PTL

\* A join asks for whatever it changed, its own filter included.  Where it opens a filter
\* again that has an old refresh under way, the filter meets that open's, and so has an
\* identifier of its own.
LEMMA AskedJoined ==
  ASSUME Apart, Apart', Shape, Numbered, Asked, NEW o \in Opens, OpenJoin(o)
  PROVE  Asked'
<1>1. /\ Structure /\ Structure' /\ FilterOf[o] \in Filters /\ QosOf[o] \in Qos
      /\ OpenRequests /\ Placed /\ Announced
  BY InProcessAssumption DEF Apart, Asked
<1>2. PICK f : f = FilterOf[o]
  OBVIOUS
<1>3. PICK asked : asked = JoinRequests(wires, wires', f, TRUE)
  OBVIOUS
<1>4. /\ pc[o] = "idle" /\ Join(f, QosOf[o], TRUE)
      /\ pc' = [pc EXCEPT ![o] = "sending"] /\ member' = [member EXCEPT ![o] = nextMember]
      /\ todo' = [todo EXCEPT ![o] = asked]
      /\ UNCHANGED <<server, overtaken>>
  BY <1>2, <1>3 DEF OpenJoin, serverVars
<1>5. PICK offered \in BOOLEAN : offered = TRUE /\ Join(f, QosOf[o], offered)
                                 /\ asked = JoinRequests(wires, wires', f, offered)
  BY <1>3, <1>4
<1>6. /\ Vector(asked) /\ asked # <<>>
      /\ \A i \in DOMAIN asked :
           /\ asked[i].refresh <=> i < Len(asked)
           /\ \E n \in DOMAIN wires' : /\ asked[i].filter = wires'[n].filter
                                       /\ asked[i].identifier = wires'[n].identifier
                                       /\ asked[i].qos = wires'[n].qos
           /\ asked[i].refresh =>
                /\ asked[i].filter # f
                /\ \E k \in DOMAIN wires : /\ wires[k].filter = asked[i].filter
                                           /\ wires[k].identifier # asked[i].identifier
      /\ asked[Len(asked)].filter = f
      /\ \A n \in DOMAIN wires' :
           \/ wires'[n].filter = f /\ (wires'[n].unnamed =>
                \E k \in DOMAIN wires : wires[k].filter = f /\ wires[k].unnamed)
           \/ \E i \in DOMAIN asked : asked[i].refresh /\ asked[i].filter = wires'[n].filter
           \/ \E k \in DOMAIN wires : /\ wires'[n].filter = wires[k].filter
                                      /\ wires'[n].identifier = wires[k].identifier
                                      /\ wires'[n].qos = wires[k].qos
                                      /\ wires'[n].unnamed = wires[k].unnamed
  <2>1. AsksFor(asked, f, offered)
    BY <1>1, <1>2, <1>5, JoinAsks
  <2> QED BY <1>5, <2>1 DEF AsksFor
<1>7. /\ pc'[o] = "sending" /\ member'[o] = nextMember /\ todo'[o] = asked
      /\ \A p \in Opens \ {o} : /\ pc'[p] = pc[p] /\ member'[p] = member[p] /\ todo'[p] = todo[p]
                                /\ Stands(p)' <=> Stands(p)
                                /\ Requesting(p)' <=> Requesting(p)
      /\ todo' = [p \in Opens |-> todo'[p]]
  <2>1. todo = [p \in Opens |-> todo[p]]
    BY <1>1 DEF OpenRequests
  <2> QED BY <1>4, <2>1 DEF Shape, OpenShape, Stands, Requesting
<1>8. nextMember \in Nat /\ \A p \in Opens : member[p] \in Int /\ member[p] < nextMember
  BY <1>1, MemberNumbers
<1>9. \A n \in DOMAIN wires' :
        \/ ~Holds(f) /\ wires'[n].filter = f /\ ~wires'[n].unnamed
        \/ /\ n \in DOMAIN wires /\ wires'[n].filter = wires[n].filter
           /\ \/ wires'[n].identifier = wires[n].identifier /\ wires'[n].unnamed = wires[n].unnamed
              \/ /\ wires[n].identifier = NoIdentifier /\ wires'[n].identifier # NoIdentifier
                 /\ \/ wires[n].filter = f
                    \/ wires'[n].unnamed /\ Overlap(wires[n].filter, f)
  BY <1>1, <1>2, <1>5, JoinTells
<1>10. \A g : Holds(g)' => Holds(g) \/ g = f
  BY <1>9 DEF Holds
<1>11. /\ \A g, id : Holds(g) /\ Fits(g, id) => Fits(g, id)'
       /\ \A g, id : Holds(g) /\ Named(g, id) /\ id # NoIdentifier => Named(g, id)'
  <2>1. Lettered(offered)
    BY <1>5 DEF Lettered
  <2> QED BY <1>1, <1>2, <1>5, <2>1, JoinLetters
<1>12. \A r : \A p \in Opens : /\ Due(r, p)' => IF p = o THEN \E i \in DOMAIN asked : asked[i] = r
                                                         ELSE Due(r, p)
                               /\ Sent(r, p)' => p # o /\ Sent(r, p)
  BY <1>7 DEF Due, Sent
<1>13. /\ \A m, g, q : SitsOn(m, g, q) => SitsOn(m, g, q)'
       /\ \A m : m = nextMember => SitsOn(m, f, QosOf[o])'
  BY <1>1, <1>2, <1>4, SitsOnJoined
<1>14. ASSUME NEW i \in DOMAIN asked
       PROVE  /\ asked[i].refresh => /\ asked[i].identifier # NoIdentifier
                                     /\ asked[i].filter # f /\ Overlap(asked[i].filter, f)
              /\ ~asked[i].refresh => asked[i].filter = f
              /\ Named(asked[i].filter, asked[i].identifier)' /\ Holds(asked[i].filter)'
  <2>1. PICK n \in DOMAIN wires' : /\ asked[i].filter = wires'[n].filter
                                   /\ asked[i].identifier = wires'[n].identifier
    BY <1>6
  <2>2. ASSUME asked[i].refresh
        PROVE  /\ asked[i].identifier # NoIdentifier
               /\ asked[i].filter # f /\ Overlap(asked[i].filter, f)
    <3>1. PICK k \in DOMAIN wires : /\ wires[k].filter = asked[i].filter
                                    /\ wires[k].identifier # asked[i].identifier
      BY <1>6, <2>2
    <3>2. asked[i].filter # f
      BY <1>6, <2>2
    <3>3. n \in DOMAIN wires /\ wires'[n].filter = wires[n].filter
      BY <1>9, <2>1, <3>2
    <3>4. n = k
      BY <1>1, <2>1, <3>1, <3>3 DEF Structure, OneWirePerFilter
    <3>5. wires[n].identifier # wires'[n].identifier
      BY <2>1, <3>1, <3>4
    <3> QED BY <1>9, <2>1, <3>2, <3>3, <3>5
  <2>3. ~asked[i].refresh => asked[i].filter = f
    <3>1. DOMAIN asked = 1..Len(asked) /\ Len(asked) \in Nat
      BY <1>6, VectorPlaces
    <3>2. PICK many \in Nat : many = Len(asked)
      BY <3>1
    <3>3. \A j \in 1..many : ~(j < many) => j = many
      OBVIOUS
    <3> QED BY <1>6, <3>1, <3>2, <3>3
  <2>4. \A k \in DOMAIN wires' : wires'[k].filter = asked[i].filter => k = n
    BY <1>1, <2>1 DEF Structure, OneWirePerFilter
  <2>5. PICK g, id : g = asked[i].filter /\ id = asked[i].identifier
    OBVIOUS
  <2>6. Named(g, id)' /\ Holds(g)'
    BY <2>1, <2>4, <2>5 DEF Named, Holds
  <2> QED BY <2>2, <2>3, <2>5, <2>6 DEF Named, Holds
<1>15. \A g, id, iid : Holds(g)' /\ Named(g, id)' /\ Named(g, iid)' => id = iid
  BY DEF Holds, Named
<1>16. OpenRequests'
  <2>1. \A p \in Opens : /\ Vector(todo'[p])
                         /\ \/ pc'[p] \in {"idle", "handing", "open", "closed"} /\ todo'[p] = <<>>
                            \/ /\ Requesting(p)' /\ todo'[p] # <<>>
                               /\ \A i \in DOMAIN todo'[p] : todo'[p][i].refresh <=> i < Len(todo'[p])
                               /\ pc'[p] # "sending" => todo'[p][1].refresh
    <3>1. ASSUME NEW p \in Opens, p # o
          PROVE  /\ Vector(todo'[p])
                 /\ \/ pc'[p] \in {"idle", "handing", "open", "closed"} /\ todo'[p] = <<>>
                    \/ /\ Requesting(p)' /\ todo'[p] # <<>>
                       /\ \A i \in DOMAIN todo'[p] : todo'[p][i].refresh <=> i < Len(todo'[p])
                       /\ pc'[p] # "sending" => todo'[p][1].refresh
      BY <1>1, <1>7, <3>1 DEF OpenRequests
    <3>2. Requesting(o)'
      BY <1>7 DEF Requesting
    <3> QED BY <1>6, <1>7, <3>1, <3>2
  <2> QED BY <1>7, <2>1 DEF OpenRequests
<1>17. Placed'
  <2>1. ASSUME NEW p \in Opens, Stands(p)' PROVE SitsOn(member[p], FilterOf[p], QosOf[p])'
    <3>1. PICK m, g, q : m = member'[p] /\ g = FilterOf[p] /\ q = QosOf[p]
      OBVIOUS
    <3>2. CASE p = o
      <4>1. m = nextMember /\ g = f /\ q = QosOf[o]
        BY <1>2, <1>7, <3>1, <3>2
      <4>2. SitsOn(m, f, QosOf[o])'
        BY <1>13, <4>1
      <4>3. SitsOn(m, g, q)'
        BY <4>1, <4>2
      <4> QED BY <3>1, <4>3 DEF SitsOn, Seat
    <3>3. CASE p # o
      <4>1. SitsOn(m, g, q)
        BY <1>1, <1>7, <2>1, <3>1, <3>3 DEF Placed
      <4>2. SitsOn(m, g, q)'
        BY <1>13, <4>1
      <4> QED BY <3>1, <4>2 DEF SitsOn, Seat
    <3> QED BY <3>2, <3>3
  <2>2. ASSUME NEW p \in Opens, NEW i \in DOMAIN todo'[p]
        PROVE  IF todo'[p][i].refresh
               THEN todo'[p][i].filter # FilterOf[p] /\ Overlap(todo'[p][i].filter, FilterOf[p])
               ELSE todo'[p][i].filter = FilterOf[p]
    <3>1. CASE p = o
      BY <1>2, <1>7, <1>14, <3>1
    <3>2. CASE p # o
      BY <1>1, <1>7, <3>2 DEF Placed
    <3> QED BY <3>1, <3>2
  <2> QED BY <2>1, <2>2 DEF Placed, Overlap
<1>18. Announced'
  <2> SUFFICES ASSUME NEW n \in DOMAIN wires', wires'[n].unnamed
               PROVE  \E p \in Opens : \E i \in DOMAIN todo'[p] :
                        todo'[p][i].refresh /\ todo'[p][i].filter = wires'[n].filter
    BY DEF Announced
  <2>1. CASE \E i \in DOMAIN asked : asked[i].refresh /\ asked[i].filter = wires'[n].filter
    BY <1>7, <2>1
  <2>2. CASE \E k \in DOMAIN wires : wires[k].filter = wires'[n].filter /\ wires[k].unnamed
    <3>1. PICK p \in Opens : \E i \in DOMAIN todo[p] :
                        todo[p][i].refresh /\ todo[p][i].filter = wires'[n].filter
      BY <1>1, <2>2 DEF Announced
    <3>2. p # o
      <4>1. todo[o] = <<>>
        BY <1>1, <1>4 DEF OpenRequests, Requesting
      <4> QED BY <3>1, <4>1
    <3> QED BY <1>7, <3>1, <3>2
  <2> QED BY <1>6, <2>1, <2>2
<1>19. OneWireServes'
  BY <1>1, <1>17, ServesPlacedNext
<1>20. ASSUME NEW g, NEW id, NEW m, Holds(g), Attaching(g, id, m) PROVE Attaching(g, id, m)'
  <2>1. Named(g, id)' /\ id # NoIdentifier
    BY <1>11, <1>20 DEF Attaching
  <2>2. ASSUME NEW p \in Opens, NEW r, Due(r, p)', member'[p] >= m, r.filter = g PROVE r.identifier = id
    <3>1. CASE p = o
      <4>1. PICK i \in DOMAIN asked : asked[i] = r
        BY <1>12, <2>2, <3>1
      <4>2. Named(g, r.identifier)' /\ Holds(g)'
        BY <1>14, <2>2, <4>1
      <4> QED BY <1>15, <2>1, <4>2
    <3>2. CASE p # o
      BY <1>7, <1>12, <1>20, <2>2, <3>2 DEF Attaching
    <3> QED BY <3>1, <3>2
  <2> QED BY <2>1, <2>2 DEF Attaching
<1>21. \A p \in Opens : Stands(p) => Holds(FilterOf[p])
  BY <1>1, StandsHeld
<1>22. DueFits'
  <2> SUFFICES ASSUME NEW x \in Opens, NEW p \in Opens, NEW r, Due(r, x)', Stands(p)', FilterOf[p] = r.filter
               PROVE  /\ member'[p] <= member'[x] =>
                           r.qos >= QosOf[p] /\ (Clear(r.filter)' => Fits(r.filter, r.identifier)')
                      /\ member'[p] > member'[x] /\ ~Requesting(p)' => ~Clear(r.filter)'
    BY DEF DueFits
  <2>1. CASE x = o
    <3>1. PICK i \in DOMAIN asked : asked[i] = r
      BY <1>12, <2>1
    <3>2. PICK n \in DOMAIN wires' : r.filter = wires'[n].filter /\ r.qos = wires'[n].qos
      BY <1>6, <3>1
    <3>3. r.qos >= QosOf[p]
      BY <1>19, <3>2 DEF OneWireServes
    <3>4. Named(r.filter, r.identifier)'
      BY <1>14, <3>1
    <3>5. Fits(r.filter, r.identifier)'
      BY <3>4 DEF Named, Fits
    <3>6. ~(member'[p] > member'[x])
      BY <1>7, <1>8, <2>1
    <3> QED BY <3>3, <3>5, <3>6
  <2>2. CASE x # o /\ p = o
    <3>1. ~(member'[p] <= member'[x]) /\ Requesting(p)'
      BY <1>7, <1>8, <2>2 DEF Requesting
    <3> QED BY <3>1
  <2>3. CASE x # o /\ p # o
    <3>1. Due(r, x) /\ Stands(p) /\ Holds(r.filter)
      BY <1>7, <1>12, <1>21, <2>3
    <3>2. Clear(r.filter)' <=> Clear(r.filter)
      BY <1>4 DEF Clear
    <3> QED BY <1>7, <1>11, <2>3, <3>1, <3>2 DEF Asked, DueFits
  <2> QED BY <2>1, <2>2, <2>3
\* A filter that is opened again while an old refresh of it is under way.
<1>23. ASSUME NEW x \in Opens, NEW i \in DOMAIN todo[x], todo[x][i].refresh, todo[x][i].filter = f,
              x # o, ~Holds(f)
       PROVE  Told(f)'
  <2>1. f # FilterOf[x] /\ Overlap(f, FilterOf[x])
    BY <1>1, <1>23 DEF Placed
  <2>2. Stands(x)
    <3>1. todo[x] # <<>>
      BY <1>23
    <3> QED BY <1>1, <3>1 DEF OpenRequests, Requesting, Stands
  <2>3. PICK k \in DOMAIN wires' : wires'[k].filter = FilterOf[x]
    <3>1. SitsOn(member[x], FilterOf[x], QosOf[x])'
      BY <1>7, <1>17, <1>23, <2>2 DEF Placed
    <3> QED BY <3>1 DEF SitsOn
  <2>4. ASSUME NEW n \in DOMAIN wires', wires'[n].filter = f
        PROVE  ~wires'[n].unnamed /\ wires'[n].identifier # NoIdentifier
    <3>1. ~wires'[n].unnamed
      BY <1>9, <1>23, <2>4 DEF Holds
    <3>2. wires'[n].identifier # NoIdentifier
      BY <2>1, <2>3, <2>4 DEF Apart, MeetingIdentified, Overlap
    <3> QED BY <3>1, <3>2
  <2> QED BY <2>4 DEF Told
<1>24. \A g : Holds(g) /\ Told(g) => Told(g)'
  <2> SUFFICES ASSUME NEW g, Holds(g), Told(g), NEW n \in DOMAIN wires', wires'[n].filter = g
               PROVE  ~wires'[n].unnamed /\ wires'[n].identifier # NoIdentifier
    BY DEF Told
  <2>1. n \in DOMAIN wires /\ wires[n].filter = g
    BY <1>9
  <2> QED BY <1>9, <2>1 DEF Told
<1>25. RefreshFits'
  <2> SUFFICES ASSUME NEW x \in Opens, NEW r, r.refresh, Clear(r.filter)', Holds(r.filter)'
               PROVE  /\ Due(r, x)' => Told(r.filter)' \/ Attaching(r.filter, r.identifier, member[x])'
                      /\ Sent(r, x)' =>
                           \/ Told(r.filter)'
                           \/ /\ Attaching(r.filter, r.identifier, NoMember)'
                              /\ \A k \in DOMAIN server' :
                                   server'[k].filter = r.filter => server'[k].identifier = r.identifier
    BY DEF RefreshFits
  <2>1. Clear(r.filter)
    BY <1>4 DEF Clear
  <2>2. PICK m : m = member'[x]
    OBVIOUS
  <2>3. ASSUME Due(r, x)' PROVE Told(r.filter)' \/ Attaching(r.filter, r.identifier, m)'
    <3>1. CASE x = o
      <4>1. PICK i \in DOMAIN asked : asked[i] = r
        BY <1>12, <2>3, <3>1
      <4>2. r.identifier # NoIdentifier /\ Named(r.filter, r.identifier)' /\ Holds(r.filter)'
        BY <1>14, <4>1
      <4>3. ASSUME NEW p \in Opens, NEW q, Due(q, p)', member'[p] >= m, q.filter = r.filter
            PROVE  q.identifier = r.identifier
        <5>1. p = o
          BY <1>7, <1>8, <2>2, <3>1, <4>3
        <5>2. PICK k \in DOMAIN asked : asked[k] = q
          BY <1>12, <4>3, <5>1
        <5>3. Named(r.filter, q.identifier)'
          BY <1>14, <4>3, <5>2
        <5> QED BY <1>15, <4>2, <5>3
      <4> QED BY <4>2, <4>3 DEF Attaching
    <3>2. CASE x # o /\ Holds(r.filter)
      <4>1. Due(r, x) /\ m = member[x]
        BY <1>7, <1>12, <2>2, <2>3, <3>2
      <4>2. Told(r.filter) \/ Attaching(r.filter, r.identifier, m)
        BY <2>1, <3>2, <4>1 DEF Asked, RefreshFits
      <4> QED BY <1>20, <1>24, <3>2, <4>2
    <3>3. CASE x # o /\ ~Holds(r.filter)
      <4>1. Due(r, x) /\ r.filter = f
        BY <1>10, <1>12, <2>3, <3>3
      <4>2. PICK i \in DOMAIN todo[x] : todo[x][i] = r
        BY <4>1 DEF Due
      <4>3. Told(f)'
        BY <1>23, <3>3, <4>1, <4>2
      <4> QED BY <4>1, <4>3
    <3> QED BY <3>1, <3>2, <3>3
  <2>4. Due(r, x)' => Told(r.filter)' \/ Attaching(r.filter, r.identifier, member[x])'
    BY <2>2, <2>3 DEF Attaching
  <2>5. ASSUME Sent(r, x)', ~Told(r.filter)'
        PROVE  /\ Attaching(r.filter, r.identifier, NoMember)'
               /\ \A k \in DOMAIN server' :
                    server'[k].filter = r.filter => server'[k].identifier = r.identifier
    <3>1. Sent(r, x) /\ x # o
      BY <1>12, <2>5
    <3>2. CASE Holds(r.filter)
      <4>1. /\ Attaching(r.filter, r.identifier, NoMember)
            /\ \A k \in DOMAIN server : server[k].filter = r.filter => server[k].identifier = r.identifier
        BY <1>24, <2>1, <2>5, <3>1, <3>2 DEF Asked, RefreshFits
      <4>2. PICK g, id, mm : g = r.filter /\ id = r.identifier /\ mm = NoMember
        OBVIOUS
      <4>3. Attaching(g, id, mm)'
        BY <1>20, <3>2, <4>1, <4>2
      <4>4. Attaching(r.filter, r.identifier, NoMember)'
        BY <4>2, <4>3 DEF Attaching
      <4> QED BY <1>4, <4>1, <4>4
    <3>3. CASE ~Holds(r.filter)
      <4>1. r.filter = f
        BY <1>10, <3>3
      <4>2. 1 \in DOMAIN todo[x] /\ todo[x][1] = r
        <5>1. Vector(todo[x]) /\ todo[x] # <<>> /\ r = todo[x][1]
          BY <1>1, <3>1 DEF Sent, OpenRequests
        <5> QED BY <5>1, VectorTail
      <4>3. Told(f)'
        BY <1>23, <3>1, <3>3, <4>1, <4>2
      <4> QED BY <2>5, <4>1, <4>3
    <3> QED BY <3>2, <3>3
  <2> QED BY <2>4, <2>5
<1>26. Upheld'
  <2> SUFFICES ASSUME NEW p \in Opens, Stands(p)', ~Requesting(p)', Clear(FilterOf[p])'
               PROVE  Holding(p)'
    BY DEF Upheld, Clear
  <2>1. p # o /\ Stands(p) /\ ~Requesting(p)
    BY <1>7 DEF Requesting
  <2>2. Clear(FilterOf[p]) /\ Holds(FilterOf[p])
    BY <1>4, <1>21, <2>1 DEF Clear
  <2>3. PICK k \in DOMAIN server : /\ server[k].filter = FilterOf[p] /\ server[k].qos >= QosOf[p]
                                   /\ Fits(FilterOf[p], server[k].identifier)
    BY <2>1, <2>2 DEF Asked, Upheld, Holding
  <2>4. PICK id : id = server[k].identifier
    OBVIOUS
  <2>5. Fits(FilterOf[p], id)'
    BY <1>11, <2>2, <2>3, <2>4
  <2> QED BY <1>4, <2>3, <2>4, <2>5 DEF Holding, Fits
<1>27. Subscribed'
  BY <1>4 DEF Asked, Subscribed
<1> QED BY <1>16, <1>17, <1>18, <1>22, <1>25, <1>26, <1>27 DEF Asked

\* At first nothing is asked for and nothing is held.
LEMMA AskedInit == Init => Asked
<1> SUFFICES ASSUME Init PROVE Asked
  OBVIOUS
<1>1. /\ DOMAIN wires = {} /\ DOMAIN server = {}
      /\ pc = [o \in Opens |-> "idle"] /\ todo = [o \in Opens |-> <<>>]
  BY DEF Init, RegistryInit
<1>2. \A o \in Opens : pc[o] = "idle" /\ todo[o] = <<>> /\ DOMAIN todo[o] = {} /\ Vector(todo[o])
  BY <1>1, VectorEmpty
<1>3. OpenRequests
  BY <1>1, <1>2 DEF OpenRequests
<1>4. \A o \in Opens : ~Stands(o) /\ \A r : ~Due(r, o) /\ ~Sent(r, o)
  BY <1>2 DEF Stands, Due, Sent
<1>5. Subscribed /\ Announced
  BY <1>1 DEF Subscribed, Announced
<1>6. Placed
  BY <1>2, <1>4 DEF Placed
<1>7. DueFits /\ RefreshFits /\ Upheld
  BY <1>4 DEF DueFits, RefreshFits, Upheld
<1> QED BY <1>3, <1>5, <1>6, <1>7 DEF Asked

\* Every step leaves the server with what is needed, or going to be asked for it.
LEMMA AskedStep ==
  ASSUME Apart, Apart', Shape, Numbered, Asked, [Next]_vars
  PROVE  Asked'
<1>1. Structure /\ Structure'
  BY DEF Apart
<1>2. CASE \/ \E o \in Opens : Settle(o)
           \/ \E th \in Threads : Receive(th)
           \/ UNCHANGED vars
  <2>1. UNCHANGED <<registryVars, pc, todo, member, overtaken, server>>
    BY <1>2 DEF Settle, Receive, vars, openVars, serverVars
  <2> QED BY <1>1, <2>1, AskedResting
<1>3. ASSUME NEW o \in Opens, HandRetained(o) PROVE Asked'
  <2>1. PICK p : p = Head(handing[o])
    OBVIOUS
  <2>2. HandOver(p) /\ UNCHANGED <<pc, todo, member, overtaken, server>>
    BY <1>3, <2>1 DEF HandRetained, serverVars
  <2> QED BY <1>1, <2>2, AskedHanded
<1>4. ASSUME NEW th \in Threads, Send(th) PROVE Asked'
  <2>1. PICK p : p = Head(sending[th])
    OBVIOUS
  <2>2. HandOver(p) /\ UNCHANGED <<pc, todo, member, overtaken, server>>
    BY <1>4, <2>1 DEF Send, openVars, serverVars
  <2> QED BY <1>1, <2>2, AskedHanded
<1> QED BY <1>1, <1>2, <1>3, <1>4, AskedJoined, AskedChecked, AskedOpened, AskedDropped,
           AskedRefreshed, AskedSubscribed, AskedIdentified DEF Next

\* The server offers identifiers and accepts every refresh, so the wires stay told apart.
LEMMA ApartKept ==
  ASSUME Apart, Structure', [Next]_vars
  PROVE  Apart'
<1>1. ASSUME \/ UNCHANGED wires
             \/ \E t, ids : Route(t, ids)
             \/ \E f : Identified(f, TRUE)
      PROVE  Apart'
  BY <1>1, InPlaceSubsides, SubsidingApart DEF Apart, Structure
<1>2. ASSUME NEW o \in Opens, OpenJoin(o) PROVE Apart'
  <2>1. Join(FilterOf[o], QosOf[o], TRUE) /\ FilterOf[o] \in Filters /\ QosOf[o] \in Qos
    BY <1>2, InProcessAssumption DEF OpenJoin
  <2> QED BY <2>1, JoiningApart
<1>3. ASSUME NEW o \in Opens, Drop(o) PROVE Apart'
  <2>1. \E m : Leave(m)
    BY <1>3 DEF Drop
  <2> QED BY <2>1, LeaveSubsides, SubsidingApart DEF Apart
<1>4. ASSUME NEW o \in Opens, RefreshIdentified(o) PROVE Apart'
  <2>1. \E f : Identified(f, TRUE)
    BY <1>4 DEF RefreshIdentified
  <2> QED BY <1>1, <2>1
<1>5. ASSUME NEW p, HandOver(p) PROVE Apart'
  <2>1. UNCHANGED wires \/ \E t, ids : Route(t, ids)
    BY <1>5 DEF HandOver, registryVars
  <2> QED BY <1>1, <2>1
<1>6. CASE \E o \in Opens : HandRetained(o)
  BY <1>5, <1>6 DEF HandRetained
<1>7. CASE \E th \in Threads : Send(th)
  BY <1>5, <1>7 DEF Send
<1>8. CASE \/ \E o \in Opens : \/ RefreshCheck(o) \/ RefreshSubscribe(o) \/ Subscribe(o)
                               \/ Opened(o) \/ Settle(o)
           \/ \E th \in Threads : Receive(th)
           \/ UNCHANGED vars
  <2>1. UNCHANGED wires
    BY <1>8 DEF RefreshCheck, RefreshSubscribe, Subscribe, Opened, Settle, Receive, vars, registryVars
  <2> QED BY <1>1, <2>1
<1> QED BY <1>2, <1>3, <1>4, <1>6, <1>7, <1>8 DEF Next

\* What the theorems below rest on.
Serving == Course /\ Numbered /\ Seats /\ Apart /\ Asked

LEMMA OnServing ==
  ASSUME IsFiniteSet(Topics)
  PROVE  Spec => []Serving
<1>1. Init => Serving
  <2>1. Init => Course /\ Asked /\ Apart
    BY CourseInit, AskedInit, ApartInit DEF Init
  <2>2. Init => Numbered /\ Seats
    BY SitsInit DEF Init, Numbered, Seats
  <2> QED BY <2>1, <2>2 DEF Serving
<1>2. Serving /\ [Next]_vars => Serving'
  <2> SUFFICES ASSUME Serving, [Next]_vars PROVE Serving'
    OBVIOUS
  <2>1. Course'
    BY CourseStep DEF Serving
  <2>2. Apart'
    BY <2>1, ApartKept DEF Serving, Course, Table
  <2>3. Numbered' /\ Seats'
    BY SeatsStep DEF Serving, Course
  <2>4. Asked'
    BY <2>2, AskedStep DEF Serving, Course
  <2> QED BY <2>1, <2>2, <2>3, <2>4 DEF Serving
<1> QED BY <1>1, <1>2, PTL DEF Spec

\* From the moment an open returns the server has its filter at the quality of service
\* asked for or above, with the identifier packets are routed by or none while a refresh
\* attaches it: whatever other threads open, refresh, pass over and drop in whatever turns,
\* unless the filter's own subscribe was overtaken (Shared::open over in_process.rs).
THEOREM OpensServed ==
  ASSUME IsFiniteSet(Topics)
  PROVE  Spec => []OpenIsServed
<1>1. Serving => OpenIsServed
  <2> SUFFICES ASSUME Serving, NEW o \in Opens, NEW n \in DOMAIN wires, pc[o] = "open",
                      Clear(FilterOf[o]), wires[n].filter = FilterOf[o]
               PROVE  \E k \in DOMAIN server :
                        /\ server[k].filter = FilterOf[o] /\ server[k].qos >= QosOf[o]
                        /\ \/ server[k].identifier = wires[n].identifier
                           \/ wires[n].unnamed /\ server[k].identifier = NoIdentifier
    BY DEF OpenIsServed, Clear
  <2>1. Holding(o)
    BY DEF Serving, Asked, Upheld, Stands, Requesting
  <2> QED BY <2>1 DEF Holding, Fits
<1> QED BY <1>1, OnServing, PTL

-----------------------------------------------------------------------------
(* What the harness is told of routes.                                     *)

\* No two members of a set have one rank in it.
LEMMA RankApart ==
  ASSUME NEW ms \in SUBSET Nat, IsFiniteSet(ms), NEW m \in ms, NEW n \in ms, Rank0(m, ms) = Rank0(n, ms)
  PROVE  m = n
<1>1. ASSUME NEW a \in ms, NEW b \in ms, a < b PROVE Rank0(a, ms) # Rank0(b, ms)
  <2> DEFINE under(x) == {k \in ms : k < x}
  <2>1. IsFiniteSet(under(b)) /\ under(a) \in SUBSET under(b)
    <3>1. under(b) \in SUBSET ms
      OBVIOUS
    <3>2. \A k \in ms : k < a => k < b
      BY <1>1
    <3> QED BY <3>1, <3>2, FS_Subset
  <2>2. a \in under(b) /\ a \notin under(a)
    BY <1>1
  <2>3. under(a) # under(b)
    BY <2>2
  <2> HIDE DEF under
  <2>4. Cardinality(under(b)) # Cardinality(under(a))
    BY <2>1, <2>3, FS_Subset
  <2> QED BY <2>4 DEF Rank0, under
<1>2. m < n \/ n < m \/ m = n
  OBVIOUS
<1> QED BY <1>1, <1>2

\* Whoever sits is the member of a subscription that stands there.
LEMMA SeatStands ==
  ASSUME Structure, Placed, Seats, NEW n \in DOMAIN wires, NEW i \in DOMAIN wires[n].members
  PROVE  \E o \in Opens : /\ Stands(o) /\ member[o] = wires[n].members[i].id
                          /\ FilterOf[o] = wires[n].filter
<1>1. PICK m : m = wires[n].members[i].id
  OBVIOUS
<1>2. PICK o \in Opens : Stands(o) /\ member[o] = m
  BY <1>1 DEF Seats, Sits, Seat, Stands
<1>3. PICK k \in DOMAIN wires : \E j \in DOMAIN wires[k].members :
        Seat(m, k, j) /\ wires[k].filter = FilterOf[o]
  BY <1>2 DEF Placed, SitsOn
<1>4. k = n
  BY <1>1, <1>3 DEF Structure, OneSeatPerMember, Seat
<1> QED BY <1>1, <1>2, <1>3, <1>4

\* So is whoever takes the next delivery, and nobody else has its number.
LEMMA TakerStands ==
  ASSUME Serving, NEW n \in DOMAIN wires
  PROVE  /\ Taker(n) \in Nat /\ \E i \in DOMAIN wires[n].members : Taker(n) = wires[n].members[i].id
         /\ \E p \in Opens : Stands(p) /\ member[p] = Taker(n) /\ FilterOf[p] = wires[n].filter
         /\ \A o \in Opens : member[o] = Taker(n) => Stands(o) /\ FilterOf[o] = wires[n].filter
<1>1. Structure /\ Placed /\ Seats /\ Numbered
  BY DEF Serving, Asked, Apart
<1>2. Taker(n) \in Nat /\ \E i \in DOMAIN wires[n].members : Taker(n) = wires[n].members[i].id
  BY <1>1, TakerSits DEF Seat
<1>3. PICK p \in Opens : Stands(p) /\ member[p] = Taker(n) /\ FilterOf[p] = wires[n].filter
  BY <1>1, <1>2, SeatStands
<1>4. \A o \in Opens : member[o] = Taker(n) => o = p
  BY <1>1, <1>2, <1>3 DEF Numbered, NoMember
<1> QED BY <1>2, <1>3, <1>4

\* Once all is settled the server holds every wire as it is.
LEMMA SettledServes ==
  ASSUME Serving, Settled
  PROVE  \A n \in DOMAIN wires :
           /\ ~wires[n].unnamed
           /\ \E k \in DOMAIN server : server[k].filter = wires[n].filter
           /\ \A k \in DOMAIN server : server[k].filter = wires[n].filter =>
                server[k].identifier = wires[n].identifier
<1> SUFFICES ASSUME NEW n \in DOMAIN wires
             PROVE  /\ ~wires[n].unnamed
                    /\ \E k \in DOMAIN server : server[k].filter = wires[n].filter
                    /\ \A k \in DOMAIN server : server[k].filter = wires[n].filter =>
                         server[k].identifier = wires[n].identifier
  OBVIOUS
<1>1. \A o \in Opens : ~Requesting(o) /\ todo[o] = <<>>
  BY DEF Serving, Asked, OpenRequests, Settled, Requesting, Opening
<1>2. ~wires[n].unnamed
  BY <1>1, EmptySeq DEF Serving, Asked, Announced
<1>3. PICK o \in Opens : Stands(o) /\ FilterOf[o] = wires[n].filter
  BY TakerStands
<1>4. PICK k \in DOMAIN server : /\ server[k].filter = FilterOf[o]
                                 /\ Fits(FilterOf[o], server[k].identifier)
  BY <1>1, <1>3 DEF Serving, Asked, Upheld, Holding, Clear, Settled
<1>5. server[k].identifier = wires[n].identifier
  BY <1>2, <1>3, <1>4 DEF Fits
<1> QED BY <1>2, <1>3, <1>4, <1>5 DEF Serving, Asked, Subscribed

\* A packet made up for a subscription then reaches the one wire that has its filter.
LEMMA CopyReaches ==
  ASSUME Serving, Settled, ServerMatching = Matching,
         NEW t \in Topics, NEW k \in DOMAIN server, server[k].filter \in ServerMatching[t],
         NEW n \in DOMAIN wires, wires[n].filter = server[k].filter
  PROVE  Targets(t, {server[k].identifier} \ {NoIdentifier}) = {n}
<1>1. ~wires[n].unnamed /\ server[k].identifier = wires[n].identifier
  BY SettledServes
<1>2. {server[k].identifier} \ {NoIdentifier} = Names(n)
  BY <1>1 DEF Names
<1>3. Targets(t, Names(n)) = {n}
  BY ApartRoutes DEF RoutedHome, Serving
<1> QED BY <1>2, <1>3

\* So each wire of the topic hands a copy to the member whose turn it is, and nobody else.
LEMMA TakesTurns ==
  ASSUME Serving, Settled, ServerMatching = Matching, NEW t \in Topics, NEW o \in Opens
  PROVE  o \in Takes(t) <=> \E n \in DOMAIN wires : wires[n].filter \in Matching[t] /\ member[o] = Taker(n)
<1> DEFINE For(k) == Targets(t, {server[k].identifier} \ {NoIdentifier})
<1>1. \A k \in DOMAIN server : \A n \in DOMAIN wires :
        server[k].filter \in Matching[t] /\ wires[n].filter = server[k].filter => For(k) = {n}
  BY CopyReaches
<1>2. o \in Takes(t) <=> \E k \in DOMAIN server : /\ server[k].filter \in Matching[t]
                                                  /\ \E n \in For(k) : member[o] = Taker(n)
  BY DEF Takes
<1> HIDE DEF For
<1>3. ASSUME NEW k \in DOMAIN server, server[k].filter \in Matching[t],
             NEW x \in For(k), member[o] = Taker(x)
      PROVE  \E n \in DOMAIN wires : wires[n].filter \in Matching[t] /\ member[o] = Taker(n)
  <2>1. PICK n \in DOMAIN wires : wires[n].filter = server[k].filter
    BY DEF Settled, Holds
  <2>2. For(k) = {n}
    BY <1>1, <1>3, <2>1
  <2> QED BY <1>3, <2>1, <2>2
<1>4. ASSUME NEW n \in DOMAIN wires, wires[n].filter \in Matching[t], member[o] = Taker(n)
      PROVE  \E k \in DOMAIN server : /\ server[k].filter \in Matching[t]
                                      /\ \E x \in For(k) : member[o] = Taker(x)
  <2>1. PICK k \in DOMAIN server : server[k].filter = wires[n].filter
    BY SettledServes
  <2>2. For(k) = {n}
    BY <1>1, <1>4, <2>1
  <2> QED BY <1>4, <2>1, <2>2
<1> QED BY <1>2, <1>3, <1>4

\* Under a name that no subscription closed on but the last ones, the ranks among the
\* members left are the places in the app's list, so the list tells whose turn it is.
LEMMA PlacesTold ==
  ASSUME Serving, Settled, NEW name, NEW o \in Opens,
         \A x \in Opens : pc[x] = "closed" /\ NameOf[FilterOf[x]] = name =>
           Left(x) # {} /\ \A p \in Left(x) : member[p] < member[x]
  PROVE  /\ o \in Listed(name)
         /\ NextTakers(name) = {} \/ Rank0(member[o], {member[p] : p \in Listed(name)}) \in NextTakers(name)
         <=> \E n \in WiresOf(name) : member[o] = Taker(n)
<1> DEFINE all == {member[p] : p \in Listed(name)}
           sitting == SittingAt(WiresOf(name))
<1>1. Structure /\ Placed /\ Seats /\ Numbered /\ Shape
  BY DEF Serving, Asked, Apart, Course
<1>2. nextMember \in Nat /\ all \in SUBSET Nat /\ IsFiniteSet(all)
  <2>1. nextMember \in Nat
    BY <1>1, MemberNumbers
  <2>2. \A m \in all : m \in Nat /\ m < nextMember
    BY <1>1 DEF Listed, Numbered
  <2>3. all \in SUBSET (0..nextMember)
    BY <2>1, <2>2
  <2>4. IsFiniteSet(0..nextMember)
    BY <2>1, FS_Interval
  <2>5. all \in SUBSET Nat
    BY <2>2
  <2> HIDE DEF all
  <2> QED BY <2>1, <2>3, <2>4, <2>5, FS_Subset
\* Who sits under the name: the subscriptions open under it.
<1>3. ASSUME NEW m
      PROVE  m \in sitting <=> \E p \in Opens : Stands(p) /\ NameOf[FilterOf[p]] = name /\ member[p] = m
  <2>1. m \in sitting <=> \E n \in WiresOf(name) : \E i \in DOMAIN wires[n].members : m = wires[n].members[i].id
    BY DEF SittingAt
  <2>2. ASSUME NEW p \in Opens, Stands(p), NameOf[FilterOf[p]] = name, member[p] = m
        PROVE  m \in sitting
    <3>1. SitsOn(m, FilterOf[p], QosOf[p])
      BY <1>1, <2>2 DEF Placed
    <3> QED BY <2>1, <2>2, <3>1 DEF SitsOn, Seat, WiresOf
  <2>3. ASSUME m \in sitting
        PROVE  \E p \in Opens : Stands(p) /\ NameOf[FilterOf[p]] = name /\ member[p] = m
    <3>1. PICK n \in WiresOf(name) : \E i \in DOMAIN wires[n].members : m = wires[n].members[i].id
      BY <2>1, <2>3
    <3> QED BY <1>1, <3>1, SeatStands DEF WiresOf
  <2> QED BY <2>2, <2>3
\* Who is listed sits, or is closed and came after all that sit.
<1>4. ASSUME NEW p \in Opens, Stands(p) PROVE member[p] # NoMember /\ member[p] \in Nat /\ p \in Alive
  <2>1. Sits(member[p])
    BY <1>1, <1>4 DEF Placed, SitsOn, Sits
  <2> QED BY <1>1, <1>4, <2>1, SitsBefore DEF NoMember, Alive, Stands
<1>5. sitting \subseteq all
  BY <1>3, <1>4 DEF Listed
<1>6. ASSUME NEW p \in Listed(name), member[p] \notin sitting
      PROVE  sitting # {} /\ \A m \in sitting : m < member[p]
  <2>1. p \in Opens /\ member[p] # NoMember /\ NameOf[FilterOf[p]] = name
    BY DEF Listed
  <2>2. pc[p] = "closed"
    <3>1. pc[p] # "idle"
      BY <1>1, <2>1 DEF Shape, OpenShape
    <3>2. ~Stands(p)
      BY <1>3, <1>6, <2>1
    <3> QED BY <3>1, <3>2 DEF Stands
  <2>3. PICK x \in Left(p) : TRUE
    BY <2>1, <2>2
  <2>4. Stands(x) /\ NameOf[FilterOf[x]] = name
    BY <1>1, <2>1 DEF Left, Alive, Stands, Shape, OpenShape
  <2>5. ASSUME NEW m \in sitting PROVE m < member[p]
    <3>1. PICK y \in Opens : Stands(y) /\ NameOf[FilterOf[y]] = name /\ member[y] = m
      BY <1>3
    <3>2. y \in Left(p)
      BY <1>4, <2>1, <3>1 DEF Left
    <3> QED BY <2>1, <2>2, <3>1, <3>2
  <2>6. member[x] \in sitting
    BY <1>3, <2>4 DEF Left, Alive
  <2> QED BY <2>5, <2>6
<1>7. \A m \in sitting : Rank0(m, sitting) = Rank0(m, all)
  <2> SUFFICES ASSUME NEW m \in sitting PROVE {k \in sitting : k < m} = {k \in all : k < m}
    BY DEF Rank0
  <2>1. ASSUME NEW k \in all, k < m PROVE k \in sitting
    <3>1. PICK p \in Listed(name) : member[p] = k
      OBVIOUS
    <3>2. k \in Nat /\ m \in Nat
      BY <1>2, <1>5
    <3>3. ~(m < k)
      BY <2>1, <3>2
    <3> QED BY <1>6, <3>1, <3>3
  <2> QED BY <1>5, <2>1
\* Whose turn it is sits.
<1>8. \A n \in WiresOf(name) : Upcoming(n) = Taker(n) /\ Taker(n) \in sitting
  <2>1. \A n \in WiresOf(name) : n \in DOMAIN wires /\ \E i \in DOMAIN wires[n].members : Taker(n) = wires[n].members[i].id
    BY TakerStands DEF WiresOf
  <2> QED BY <2>1 DEF Upcoming, Taker, SittingAt
<1>9. NextTakers(name) = {Rank0(Taker(n), all) : n \in WiresOf(name)}
  BY <1>7, <1>8 DEF NextTakers
<1>10. sitting # {} => WiresOf(name) # {}
  BY DEF SittingAt
<1> HIDE DEF all, sitting
<1>11. ASSUME o \in Listed(name), NextTakers(name) = {} \/ Rank0(member[o], all) \in NextTakers(name)
       PROVE  \E n \in WiresOf(name) : member[o] = Taker(n)
  <2>1. sitting # {}
    BY <1>6, <1>11
  <2>2. PICK n \in WiresOf(name) : Rank0(member[o], all) = Rank0(Taker(n), all)
    BY <1>9, <1>10, <1>11, <2>1
  <2>3. member[o] \in all /\ Taker(n) \in all
    BY <1>5, <1>8, <1>11 DEF all
  <2> QED BY <1>2, <2>2, <2>3, RankApart
<1>12. ASSUME NEW n \in WiresOf(name), member[o] = Taker(n)
       PROVE  o \in Listed(name) /\ Rank0(member[o], all) \in NextTakers(name)
  <2>1. Stands(o) /\ FilterOf[o] = wires[n].filter
    BY <1>12, TakerStands DEF WiresOf
  <2> QED BY <1>4, <1>9, <1>12, <2>1 DEF Listed, WiresOf
<1> QED BY <1>11, <1>12 DEF all

\* At rest, and where nothing was overtaken, routes names the subscriptions that the packets
\* of the next message are handed to, as long as those that closed under a name were opened
\* after those that are left.  The server is to match topics as the registry does, which it
\* does not for its own ($SYS), of which it sends wildcards nothing.
THEOREM HarnessTold ==
  ASSUME IsFiniteSet(Topics), ServerMatching = Matching
  PROVE  Spec => []RoutesToldLastClosed
<1>1. ASSUME Serving PROVE RoutesToldLastClosed
  <2> SUFFICES ASSUME Settled, NEW t \in Topics,
                      \A o \in Closed(t) : Left(o) # {} /\ \A p \in Left(o) : member[p] < member[o]
               PROVE  Routes(t) = Takes(t)
    BY DEF RoutesToldLastClosed
  <2>1. \A f, g \in Filters : NameOf[f] = NameOf[g] => (f \in Matching[t] <=> g \in Matching[t])
    BY InProcessAssumption
  <2>2. /\ Matching[t] \subseteq Filters /\ \A o \in Opens : FilterOf[o] \in Filters
        /\ \A n \in DOMAIN wires : wires[n].filter \in Filters
    <3>1. Matching[t] \subseteq Filters /\ \A o \in Opens : FilterOf[o] \in Filters
      BY RegistryAssumption, InProcessAssumption
    <3>2. \A n \in DOMAIN wires : wires[n] \in Wire
      BY <1>1, SeqPlaces DEF Serving, Apart, Structure, RegistryTypeOK
    <3> QED BY <3>1, <3>2 DEF Wire
  <2>3. ASSUME NEW o \in Opens, NEW f \in Matching[t]
        PROVE  /\ o \in Listed(NameOf[f])
               /\ \/ NextTakers(NameOf[f]) = {}
                  \/ Rank0(member[o], {member[p] : p \in Listed(NameOf[f])}) \in NextTakers(NameOf[f])
               <=> \E n \in WiresOf(NameOf[f]) : member[o] = Taker(n)
    <3>1. \A x \in Opens : pc[x] = "closed" /\ NameOf[FilterOf[x]] = NameOf[f] => x \in Closed(t)
      BY <2>1, <2>2 DEF Closed
    <3> QED BY <1>1, <3>1, PlacesTold
  <2>4. ASSUME NEW o \in Opens
        PROVE  o \in Routes(t) <=> \E n \in DOMAIN wires : wires[n].filter \in Matching[t] /\ member[o] = Taker(n)
    <3>1. o \in Routes(t) <=>
            \E f \in Matching[t] :
              /\ o \in Listed(NameOf[f])
              /\ \/ NextTakers(NameOf[f]) = {}
                 \/ Rank0(member[o], {member[p] : p \in Listed(NameOf[f])}) \in NextTakers(NameOf[f])
      <4> DEFINE Place(x, name) == Rank0(member[x], {member[p] : p \in Listed(name)})
                 Chosen(name) == {x \in Listed(name) : NextTakers(name) = {} \/ Place(x, name) \in NextTakers(name)}
      <4>1. Routes(t) = UNION {Chosen(name) : name \in {NameOf[f] : f \in Matching[t]}}
        BY DEF Routes
      <4>2. \A name : o \in Chosen(name) <=>
                      /\ o \in Listed(name)
                      /\ \/ NextTakers(name) = {}
                         \/ Rank0(member[o], {member[p] : p \in Listed(name)}) \in NextTakers(name)
        OBVIOUS
      <4> HIDE DEF Chosen
      <4>3. o \in Routes(t) <=> \E f \in Matching[t] : o \in Chosen(NameOf[f])
        BY <4>1
      <4> QED BY <4>2, <4>3
    <3>2. o \in Routes(t) <=> \E f \in Matching[t] : \E n \in WiresOf(NameOf[f]) : member[o] = Taker(n)
      BY <2>3, <3>1
    <3> QED BY <2>1, <2>2, <3>2 DEF WiresOf
  <2>5. \A o \in Opens : o \in Routes(t) <=> o \in Takes(t)
    BY <1>1, <2>4, TakesTurns
  <2> QED BY <2>5 DEF Routes, Takes, Listed
<1> QED BY <1>1, OnServing, PTL
=============================================================================
