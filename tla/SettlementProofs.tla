-------------------------- MODULE SettlementProofs --------------------------
(***************************************************************************)
(* While no session is lost under the handlers of its deliveries, the       *)
(* acknowledgements of Settlement reach the messages they are for, for any  *)
(* number of messages, window, queue and losses.                            *)
(***************************************************************************)
EXTENDS Settlement, TLAPS

\* What an acknowledgement names: the message the server sent under a packet id of
\* this session.
Names(d) == d.id \in 1..Len(issued) /\ issued[d.id] = d.message

\* The sequences and sets the facts below are about.
Types ==
  /\ backlog \in Seq(Messages) /\ issued \in Seq(Messages)
  /\ unconfirmed \subseteq 1..Len(issued) /\ resend \subseteq unconfirmed
  /\ wire \in Seq([message : Messages, id : Nat, conn : Nat]) /\ losses \in Nat
  /\ published \in Nat /\ present \in BOOLEAN

\* Every delivery names its message, and so does every acknowledgement, unless the
\* session is gone, with which the deliveries and the queue are gone too.
Named ==
  /\ \A n \in DOMAIN wire : Names(wire[n])
  /\ \A d \in stream \cup queue : Names(d)
  /\ present => \A d \in parked : Names(d)
  /\ ~present => stream = {} /\ queue = {}
  /\ up => present
  /\ ~up => wire = <<>>

\* Acknowledgements are of messages that were settled.
OfSettled == \A d \in queue \cup parked : d.message \in settled

IInv == Types /\ Named /\ OfSettled /\ AckedMeansSettled

-----------------------------------------------------------------------------
(* The steps.                                                              *)

\* A packet goes to the end of those on the wire.
LEMMA WireGrows ==
  ASSUME Types, NEW p \in [message : Messages, id : Nat, conn : Nat], wire' = Append(wire, p)
  PROVE  /\ wire' \in Seq([message : Messages, id : Nat, conn : Nat])
         /\ \A n \in DOMAIN wire' : wire'[n] = p \/ (n \in DOMAIN wire /\ wire'[n] = wire[n])
BY DEF Types

\* The server sends under the next packet id, and older ones keep their messages.
LEMMA SendStep == IInv /\ Send => IInv'
<1> SUFFICES ASSUME IInv, Send PROVE IInv'
  OBVIOUS
<1> DEFINE next == Len(issued) + 1
           p == Packet(Head(backlog), next)
<1>1. /\ backlog # <<>> /\ Head(backlog) \in Messages /\ Tail(backlog) \in Seq(Messages)
      /\ next \in Nat
  BY DEF IInv, Types, Send
<1>2. /\ issued' = Append(issued, Head(backlog)) /\ backlog' = Tail(backlog)
      /\ unconfirmed' = unconfirmed \cup {next} /\ wire' = Append(wire, p)
      /\ UNCHANGED <<published, resend, confirmed, up, present, losses, clientVars>>
  BY DEF Send
<1>3. p \in [message : Messages, id : Nat, conn : Nat] /\ p.id = next /\ p.message = Head(backlog)
  BY <1>1 DEF Packet, IInv, Types
<1>4. /\ issued' \in Seq(Messages) /\ Len(issued') = next /\ issued'[next] = Head(backlog)
      /\ \A k \in 1..Len(issued) : k \in 1..Len(issued') /\ issued'[k] = issued[k]
  BY <1>1, <1>2 DEF IInv, Types
<1>5. Types'
  <2>1. wire' \in Seq([message : Messages, id : Nat, conn : Nat])
    BY <1>2, <1>3, WireGrows DEF IInv
  <2>2. unconfirmed' \subseteq 1..Len(issued') /\ resend' \subseteq unconfirmed'
    <3>1. unconfirmed \subseteq 1..Len(issued) /\ resend \subseteq unconfirmed
      BY DEF IInv, Types
    <3>2. next \in 1..next
      BY <1>1
    <3>3. QED
      BY <1>2, <1>4, <3>1, <3>2
  <2>3. losses' = losses /\ published' = published /\ present' = present
    BY <1>2
  <2>4. QED
    BY <1>1, <1>2, <1>4, <2>1, <2>2, <2>3 DEF IInv, Types
<1>6. /\ \A d : Names(d) => d.id \in 1..Len(issued') /\ issued'[d.id] = d.message
      /\ p.id \in 1..Len(issued') /\ issued'[p.id] = p.message
  <2>1. ASSUME NEW d, Names(d) PROVE d.id \in 1..Len(issued') /\ issued'[d.id] = d.message
    BY <1>4, <2>1 DEF Names
  <2>2. next \in 1..next
    BY <1>1
  <2>3. p.id \in 1..Len(issued') /\ issued'[p.id] = p.message
    BY <1>3, <1>4, <2>2
  <2>4. QED
    BY <2>1, <2>3
<1>7. Named'
  <2>1. up /\ up' /\ present /\ present'
    BY <1>2 DEF Send, IInv, Named
  <2>2. ASSUME NEW n \in DOMAIN wire'
        PROVE  wire'[n].id \in 1..Len(issued') /\ issued'[wire'[n].id] = wire'[n].message
    <3>1. wire'[n] = p \/ (n \in DOMAIN wire /\ wire'[n] = wire[n])
      BY <1>2, <1>3, WireGrows DEF IInv
    <3>2. n \in DOMAIN wire => Names(wire[n])
      BY DEF IInv, Named
    <3>3. QED
      BY <1>6, <3>1, <3>2
  <2>3. ASSUME NEW d \in stream' \cup queue' \cup parked'
        PROVE  d.id \in 1..Len(issued') /\ issued'[d.id] = d.message
    <3>1. Names(d)
      BY <1>2, <2>1 DEF IInv, Named, clientVars
    <3>2. QED
      BY <1>6, <3>1
  <2>4. QED
    BY <2>1, <2>2, <2>3 DEF Named, Names
<1>8. OfSettled' /\ AckedMeansSettled'
  BY <1>2 DEF IInv, OfSettled, AckedMeansSettled, clientVars
<1>9. QED
  BY <1>5, <1>7, <1>8 DEF IInv

\* What it sends again keeps its packet id.
LEMMA ResendStep == ASSUME IInv, NEW id \in resend, Resend(id) PROVE IInv'
<1> DEFINE p == Packet(issued[id], id)
<1>1. /\ resend' = resend \ {id} /\ wire' = Append(wire, p) /\ up
      /\ UNCHANGED <<published, backlog, issued, unconfirmed, confirmed, up, present, losses,
                     clientVars>>
  BY DEF Resend
<1>2. /\ id \in 1..Len(issued) /\ issued[id] \in Messages
      /\ p \in [message : Messages, id : Nat, conn : Nat] /\ Names(p)
  BY DEF Packet, IInv, Types, Names
<1>3. Types'
  BY <1>1, <1>2, WireGrows DEF IInv, Types
<1>4. Named'
  BY <1>1, <1>2, WireGrows DEF IInv, Named, Names, clientVars
<1>5. QED
  BY <1>1, <1>3, <1>4 DEF IInv, OfSettled, AckedMeansSettled, clientVars

\* A packet that arrives is a delivery as it was on the wire.
LEMMA ReceiveStep == IInv /\ Receive => IInv'
<1> SUFFICES ASSUME IInv, Receive PROVE IInv'
  OBVIOUS
<1>1. /\ wire # <<>> /\ stream' = stream \cup {Head(wire)} /\ wire' = Tail(wire) /\ up
      /\ UNCHANGED <<serverVars, up, present, losses, queue, parked, settled, refused>>
  BY DEF Receive
<1>2. /\ Head(wire) = wire[1] /\ 1 \in DOMAIN wire
      /\ wire' \in Seq([message : Messages, id : Nat, conn : Nat])
      /\ \A n \in DOMAIN wire' : n + 1 \in DOMAIN wire /\ wire'[n] = wire[n + 1]
  BY <1>1 DEF IInv, Types
<1>3. Types'
  BY <1>1, <1>2 DEF IInv, Types, serverVars
<1>4. Named'
  BY <1>1, <1>2 DEF IInv, Named, Names, serverVars
<1>5. QED
  BY <1>1, <1>3, <1>4 DEF IInv, OfSettled, AckedMeansSettled, serverVars

\* The server takes an acknowledgement for the message it names, which was settled.
LEMMA WriteAckStep == ASSUME IInv, NEW d \in queue, WriteAck(d) PROVE IInv'
<1>1. Names(d) /\ d.message \in settled
  BY DEF IInv, Named, OfSettled
<1>2. confirmed' \subseteq confirmed \cup {d.message}
  BY <1>1 DEF WriteAck, Names
<1>3. AckedMeansSettled'
  BY <1>1, <1>2 DEF WriteAck, IInv, AckedMeansSettled
<1>4. Types' /\ Named' /\ OfSettled'
  BY DEF WriteAck, IInv, Types, Named, Names, OfSettled, linkVars
<1>5. QED
  BY <1>3, <1>4 DEF IInv

\* A connection that is lost keeps its session, or has no delivery in a handler.
LEMMA LoseStep == ~Overtakes /\ IInv /\ Loses => IInv'
<1> SUFFICES ASSUME ~Overtakes, IInv, Loses PROVE IInv'
  OBVIOUS
<1> USE DEF IInv, Types, Named, Names, OfSettled, AckedMeansSettled
<1>1. ASSUME NEW keeps \in BOOLEAN, NEW kept \in SUBSET queue, Lose(keeps, kept) PROVE IInv'
  BY <1>1 DEF Lose, Park
<1>2. ASSUME NEW kept \in SUBSET queue, DialFails(kept) PROVE IInv'
  BY <1>2 DEF DialFails, Park, serverVars, linkVars
<1>3. ASSUME NEW keeps \in BOOLEAN, Crash(keeps) PROVE IInv'
  BY <1>3 DEF Crash
<1>4. QED
  BY <1>1, <1>2, <1>3 DEF Loses

\* Every step preserves the invariant.
LEMMA InvariantStep == ~Overtakes /\ IInv /\ [Next]_vars => IInv'
<1> SUFFICES ASSUME ~Overtakes, IInv, [Next]_vars PROVE IInv'
  OBVIOUS
<1> USE DEF IInv, Types, Named, Names, OfSettled, AckedMeansSettled
<1>1. ASSUME Publish PROVE IInv'
  <2>1. present /\ published < Count /\ published' = published + 1
        /\ backlog' = Append(backlog, published + 1)
    BY <1>1 DEF Publish
  <2>2. published + 1 \in Messages
    BY <2>1, SettlementAssumption DEF Messages
  <2>3. backlog' \in Seq(Messages)
    BY <2>1, <2>2
  <2>4. QED
    BY <1>1, <2>1, <2>3 DEF Publish, linkVars, clientVars
<1>2. ASSUME NEW d \in stream, Settle(d) \/ Refuse(d) PROVE IInv'
  BY <1>2 DEF Settle, Refuse, serverVars, linkVars
<1>3. ASSUME Connack PROVE IInv'
  <2>1. /\ ~up /\ wire = <<>> /\ up' = TRUE /\ present' = TRUE /\ parked' = {}
        /\ UNCHANGED <<published, confirmed, wire, losses, stream, settled, refused>>
    BY <1>3 DEF Connack
  <2>2. CASE present
    <3>1. /\ queue' = parked \cup queue /\ resend' = unconfirmed
          /\ UNCHANGED <<backlog, issued, unconfirmed>>
      BY <1>3, <2>2 DEF Connack, Unpark
    <3>2. Types'
      BY <2>1, <3>1
    <3>3. Named' /\ OfSettled' /\ AckedMeansSettled'
      BY <2>1, <2>2, <3>1
    <3>4. QED
      BY <3>2, <3>3
  <2>3. CASE ~present
    <3>1. /\ queue' = {} /\ stream = {} /\ resend' = {} /\ unconfirmed' = {}
          /\ backlog' = <<>> /\ issued' = <<>>
      BY <1>3, <2>3 DEF Connack, Unpark
    <3>2. <<>> \in Seq(Messages)
      OBVIOUS
    <3>3. Types'
      BY <2>1, <3>1, <3>2
    <3>4. Named' /\ OfSettled' /\ AckedMeansSettled'
      BY <2>1, <3>1
    <3>5. QED
      BY <3>3, <3>4
  <2>4. QED
    BY <2>2, <2>3
<1>4. CASE UNCHANGED vars
  BY <1>4 DEF vars, serverVars, linkVars, clientVars
<1>5. QED
  BY <1>1, <1>2, <1>3, <1>4, SendStep, ResendStep, ReceiveStep, WriteAckStep, LoseStep
     DEF Next, Resends, Handles, WritesAck

\* The server takes a message for acknowledged only once a delivery of it was, as long
\* as no session is lost under the handlers of its deliveries.
THEOREM AcksFindTheirMessages == ~Overtakes => (Spec => []AckedMeansSettled)
<1> SUFFICES ASSUME ~Overtakes PROVE Spec => []AckedMeansSettled
  OBVIOUS
<1>1. Init => IInv
  BY DEF Init, IInv, Types, Named, OfSettled, AckedMeansSettled
<1>2. IInv /\ [Next]_vars => IInv'
  BY InvariantStep
<1>3. IInv => AckedMeansSettled
  BY DEF IInv
<1>4. QED
  BY <1>1, <1>2, <1>3, PTL DEF Spec
=============================================================================
