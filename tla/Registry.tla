------------------------------ MODULE Registry ------------------------------
(***************************************************************************)
(* The table of one connection's subscriptions to the server               *)
(* (crates/ruststream-rumqttc/src/registry.rs): which wire filters the      *)
(* connection holds, the local subscriptions (members) sharing each, the   *)
(* subscription identifiers that tell overlapping filters apart, and the   *)
(* rule that decides which filters a PUBLISH packet belongs to.            *)
(*                                                                         *)
(* Every action here is one method of the Registry, run under the registry *)
(* mutex.  The module says nothing about who calls it when: Next lets any  *)
(* caller call any method, so what holds here holds for every caller.      *)
(* Connection.tla composes these actions with the code that calls them.    *)
(***************************************************************************)
EXTENDS Integers, Sequences, Vectors

CONSTANTS
  Filters,        \* wire filters (a share group's filter is one of its own)
  Topics,         \* topics a message can be published to
  Matching,       \* Matching[t]: the wire filters whose plain filter matches t
  Derived,        \* Derived[f]: the identifier derived_identifier gives f
  MaxIdentifier,  \* MAX_IDENTIFIER; 268435455 in the code
  TurnRange,      \* the turn counter wraps here; 2^64 in the code
  MaxMember,      \* bound: how many members ever join
  Offers,         \* what CONNACKs say of identifiers: a set of booleans
  Answers         \* what SUBACKs of refreshes say: a set of booleans

Qos         == 0..2
Identifiers == 1..MaxIdentifier
NoIdentifier == 0           \* an identifier of None

ASSUME RegistryAssumption ==
  /\ Matching \in [Topics -> SUBSET Filters]
  /\ MaxIdentifier \in Nat \ {0}
  /\ Derived \in [Filters -> Identifiers]
  /\ TurnRange \in Nat \ {0}
  /\ MaxMember \in Nat
  /\ Offers \subseteq BOOLEAN
  /\ Answers \subseteq BOOLEAN

VARIABLES
  wires,          \* Registry::wires, a Vec: the order of the wires is state
  nextMember      \* Registry::next_member

registryVars == <<wires, nextMember>>

Member == [id : Nat, qos : Qos]
Wire   == [filter     : Filters,
           qos        : Qos,
           identifier : Identifiers \cup {NoIdentifier},
           unnamed    : BOOLEAN,
           members    : Seq(Member),
           turn       : 0..(TurnRange - 1)]

-----------------------------------------------------------------------------
(* What the methods read.                                                  *)

\* Mutation: the latest quality of service replaces the one before.
HigherLatest(q, r) == r

Higher(q, r) == IF q >= r THEN q ELSE r

\* Some topic matches both filters.  TopicFilter.tla checks the code's
\* level-by-level comparison against this definition.
Overlap(f, g) == \E t \in Topics : f \in Matching[t] /\ g \in Matching[t]

Holds(f) == \E n \in DOMAIN wires : wires[n].filter = f

\* The wires a filter meets: other filters that can match one of its topics.
Met(f) == {n \in DOMAIN wires : wires[n].filter # f /\ Overlap(wires[n].filter, f)}

Refused(f, offered) == ~offered /\ ~Holds(f) /\ Met(f) # {}

\* The identifier after k steps of the probe from the derived one.
Probe(f, k) == ((Derived[f] - 1 + k) % MaxIdentifier) + 1

\* The probe from f's derived identifier stops at id: free_identifier returns it.
FreeIdentifier(f, taken, id) ==
  \E k \in 0..(MaxIdentifier - 1) :
    /\ id = Probe(f, k)
    /\ id \notin taken
    /\ \A j \in 0..(k - 1) : Probe(f, j) \in taken

Taken(ws) == {ws[n].identifier : n \in DOMAIN ws}

\* A member's quality of service that no other exceeds.
Highest(ms) == CHOOSE q \in Qos : /\ \E i \in DOMAIN ms : ms[i].qos = q
                                  /\ \A i \in DOMAIN ms : ms[i].qos <= q

\* Mutation: the last element is moved and not popped.
SwapKeep(s, n) == [i \in 1..Len(s) |-> IF i = n THEN s[Len(s)] ELSE s[i]]

\* Vec::swap_remove: the last element takes the place of the removed one.
SwapRemove(s, n) == [i \in 1..(Len(s) - 1) |-> IF i = n THEN s[Len(s)] ELSE s[i]]

\* Vec::retain of every element but the n-th.
Without(s, n) == [i \in 1..(Len(s) - 1) |-> IF i < n THEN s[i] ELSE s[i + 1]]

\* Whether a held delivery naming ids belongs to the wire filter f.
Claims(ws, f, ids) ==
  \/ ids = {}
  \/ \E n \in DOMAIN ws : ws[n].filter = f /\ ws[n].identifier \in ids
  \/ Derived[f] \in ids

-----------------------------------------------------------------------------
(* join: a local subscription is added on f.                               *)

\* Mutation: a filter already on a wire gets a second one.
SeatedApart(f, q) ==
  Append(wires, [filter |-> f, qos |-> q, identifier |-> NoIdentifier, unnamed |-> FALSE,
                 members |-> <<[id |-> nextMember, qos |-> q]>>, turn |-> 0])

\* The wires once the member is on f's, before any identifier is given.
Seated(f, q) ==
  LET entry == [id |-> nextMember, qos |-> q]
  IN IF Holds(f)
     THEN [n \in DOMAIN wires |->
             IF wires[n].filter = f
             THEN [wires[n] EXCEPT !.members = Append(@, entry),
                                   !.qos     = Higher(@, q)]
             ELSE wires[n]]
     ELSE Append(wires, [filter     |-> f,
                         qos        |-> q,
                         identifier |-> NoIdentifier,
                         unnamed    |-> FALSE,
                         members    |-> <<entry>>,
                         turn       |-> 0])

\* Mutation: only the joining filter gains one.
GainingOwn(ws, f) ==
  {n \in DOMAIN ws : ws[n].identifier = NoIdentifier /\ ws[n].filter = f}

\* The wires that gain an identifier when f meets another one.
Gaining(ws, f) ==
  {n \in DOMAIN ws : /\ ws[n].identifier = NoIdentifier
                     /\ ws[n].filter = f \/ Overlap(ws[n].filter, f)}

\* Mutation: a probe does not see what this join gave out before it.
GivenBlind(ws, f, ids) ==
  \A n \in DOMAIN ids : FreeIdentifier(ws[n].filter, Taken(ws), ids[n])

\* The loop gives them out in the order of the wires, f's own last; each
\* probe sees the identifiers already on a wire and the ones just given.
Given(ws, f, ids) ==
  LET gaining == DOMAIN ids
      Before(m, n) == IF ws[n].filter = f THEN m # n
                      ELSE ws[m].filter # f /\ m < n
  IN \A n \in gaining :
       FreeIdentifier(ws[n].filter,
                      Taken(ws) \cup {ids[m] : m \in {k \in gaining : Before(k, n)}},
                      ids[n])

\* Mutation: the joining filter counts as held without its identifier too.
IdentifyAll(ws, f, ids) ==
  [n \in DOMAIN ws |->
     IF n \in DOMAIN ids
     THEN [ws[n] EXCEPT !.identifier = ids[n], !.unnamed = TRUE]
     ELSE ws[n]]

Identify(ws, f, ids) ==
  [n \in DOMAIN ws |->
     IF n \in DOMAIN ids
     THEN [ws[n] EXCEPT !.identifier = ids[n],
                        !.unnamed    = IF ws[n].filter = f THEN @ ELSE TRUE]
     ELSE ws[n]]

Join(f, q, offered) ==
  /\ nextMember < MaxMember
  /\ ~Refused(f, offered)
  /\ nextMember' = nextMember + 1
  /\ \/ /\ offered
        /\ Met(f) # {}
        /\ \E ids \in [Gaining(Seated(f, q), f) -> Identifiers] :
             /\ Given(Seated(f, q), f, ids)
             /\ wires' = Identify(Seated(f, q), f, ids)
     \/ /\ ~offered \/ Met(f) = {}
        /\ wires' = Seated(f, q)

\* Mutation: the joining filter is subscribed without its identifier.
JoinRequestsPlain(before, after, f, offered) ==
  LET own == CHOOSE n \in DOMAIN after : after[n].filter = f
  IN <<[filter |-> f, qos |-> after[own].qos, identifier |-> NoIdentifier,
        refresh |-> FALSE]>>

\* Joined::requests, from the wires before and after the join: the filters
\* that gained an identifier first, the joining filter last.
JoinRequests(before, after, f, offered) ==
  LET Gained(w) == /\ w.filter # f
                   /\ \E n \in DOMAIN before :
                        /\ before[n].filter = w.filter
                        /\ before[n].identifier # w.identifier
      gained == Select(after, Gained)
      own    == CHOOSE n \in DOMAIN after : after[n].filter = f
      Request(w, id, refresh) == [filter |-> w.filter, qos |-> w.qos,
                                  identifier |-> id, refresh |-> refresh]
  IN [n \in DOMAIN gained |-> Request(gained[n], gained[n].identifier, TRUE)]
     \o <<Request(after[own],
                  IF offered THEN after[own].identifier ELSE NoIdentifier,
                  FALSE)>>

-----------------------------------------------------------------------------
(* leave: the local subscription m is taken out.                           *)

\* Member m sits at place i of wire n.
Seat(m, n, i) == wires[n].members[i].id = m

\* Mutation: every leave takes the filter off the server.
TakenOffAlways(m) ==
  {wires[n].filter : n \in {k \in DOMAIN wires : \E i \in DOMAIN wires[k].members : Seat(m, k, i)}}

\* What leave answers: the filter m was the last member of, if any.
TakenOff(m) == {wires[n].filter : n \in {k \in DOMAIN wires :
                  Len(wires[k].members) = 1 /\ wires[k].members[1].id = m}}

Leave(m) ==
  /\ \/ \E n \in DOMAIN wires : \E i \in DOMAIN wires[n].members :
          /\ Seat(m, n, i)
          /\ LET rest == Without(wires[n].members, i)
             IN wires' = IF rest = <<>>
                         THEN SwapRemove(wires, n)
                         ELSE [wires EXCEPT ![n] = [@ EXCEPT !.members = rest,
                                                             !.qos = Highest(rest)]]
     \/ /\ \A n \in DOMAIN wires : \A i \in DOMAIN wires[n].members : ~Seat(m, n, i)
        /\ UNCHANGED wires
  /\ UNCHANGED nextMember

-----------------------------------------------------------------------------
(* The server's answers and a lost session.                                *)

Identified(f, accepted) ==
  /\ wires' = [n \in DOMAIN wires |->
                 IF wires[n].filter = f
                 THEN [wires[n] EXCEPT !.unnamed = FALSE,
                                       !.identifier = IF accepted THEN @ ELSE NoIdentifier]
                 ELSE wires[n]]
  /\ UNCHANGED nextMember

Resubscribing(offered) ==
  /\ wires' = [n \in DOMAIN wires |->
                 [wires[n] EXCEPT !.unnamed = wires[n].identifier # NoIdentifier /\ ~offered]]
  /\ UNCHANGED nextMember

-----------------------------------------------------------------------------
(* route: a packet on topic t naming the identifiers ids.                  *)

\* Mutation: a packet naming none goes past a filter whose identifier is on
\* its way.
TargetsNamed(t, ids) ==
  LET matching == {n \in DOMAIN wires : wires[n].filter \in Matching[t]}
      named    == {n \in matching : IF ids = {} THEN wires[n].identifier = NoIdentifier
                                    ELSE wires[n].identifier \in ids}
  IN IF named # {} \/ ids # {} THEN named ELSE matching

\* Mutation: a packet naming none is for the wires without an identifier only.
TargetsStrict(t, ids) ==
  {n \in DOMAIN wires : /\ wires[n].filter \in Matching[t]
                        /\ IF ids = {} THEN wires[n].identifier = NoIdentifier
                           ELSE wires[n].identifier \in ids}

\* The wires it is handed to.  {} means it is answered back, to be held.
Targets(t, ids) ==
  LET matching == {n \in DOMAIN wires : wires[n].filter \in Matching[t]}
      named    == {n \in matching :
                     IF ids = {}
                     THEN wires[n].identifier = NoIdentifier \/ wires[n].unnamed
                     ELSE wires[n].identifier \in ids}
      fallback == {n \in matching :
                     \/ ids = {}
                     \/ /\ wires[n].identifier = NoIdentifier
                        /\ Derived[wires[n].filter] \in ids}
  IN IF named # {} THEN named ELSE fallback

\* The member of wire n that takes the delivery.
Taker(n) == wires[n].members[(wires[n].turn % Len(wires[n].members)) + 1].id

\* Mutation: every copy carries the acknowledgement.
CarriesAckEach(n, targets) == n \in targets

\* The first copy, in the order of the wires, carries the acknowledgement.
CarriesAck(n, targets) == \A m \in targets : n <= m

\* Mutation: the counter of turns does not wrap.
RouteUnwrapped(t, ids) ==
  /\ wires' = [n \in DOMAIN wires |->
                 IF n \in Targets(t, ids) THEN [wires[n] EXCEPT !.turn = @ + 1] ELSE wires[n]]
  /\ UNCHANGED nextMember

Route(t, ids) ==
  /\ wires' = [n \in DOMAIN wires |->
                 IF n \in Targets(t, ids)
                 THEN [wires[n] EXCEPT !.turn = (@ + 1) % TurnRange]
                 ELSE wires[n]]
  /\ UNCHANGED nextMember

-----------------------------------------------------------------------------
(* Wires taken out by the connection task.                                 *)

\* Shared::end_filter: one filter's subscriptions end.
EndFilter(f) ==
  /\ \E n \in DOMAIN wires : /\ wires[n].filter = f
                             /\ wires' = SwapRemove(wires, n)
  /\ UNCHANGED nextMember

\* Shared::end: the connection is gone for good.
End == wires' = <<>> /\ UNCHANGED nextMember

-----------------------------------------------------------------------------
RegistryInit == wires = <<>> /\ nextMember = 0

RegistryNext ==
  \/ \E f \in Filters, q \in Qos, offered \in Offers : Join(f, q, offered)
  \/ \E m \in 0..(MaxMember - 1) : Leave(m)
  \/ \E f \in Filters, accepted \in Answers : Identified(f, accepted)
  \/ \E offered \in Offers : Resubscribing(offered)
  \/ \E t \in Topics, ids \in SUBSET Identifiers : Route(t, ids)
  \/ \E f \in Filters : EndFilter(f)
  \/ End

RegistrySpec == RegistryInit /\ [][RegistryNext]_registryVars

-----------------------------------------------------------------------------
(* Properties.                                                             *)

\* Each variable has its type.
RegistryTypeOK == wires \in Seq(Wire) /\ nextMember \in Nat

\* A filter is on at most one wire, so the server holds it once, and every
\* wire has a member, so the last one to leave took its filter off the server.
OneWirePerFilter ==
  /\ \A i, j \in DOMAIN wires : wires[i].filter = wires[j].filter => i = j
  /\ \A n \in DOMAIN wires : wires[n].members # <<>>

\* A member sits in one place of one wire, so a leave takes out exactly it,
\* and no id ever handed out comes round again.
OneSeatPerMember ==
  \A n1, n2 \in DOMAIN wires :
    \A i1 \in DOMAIN wires[n1].members : \A i2 \in DOMAIN wires[n2].members :
      /\ wires[n1].members[i1].id < nextMember
      /\ wires[n1].members[i1].id = wires[n2].members[i2].id => n1 = n2 /\ i1 = i2

\* The quality of service a wire asks the server for is the highest one its
\* members need, whatever joined and left in whatever order: a member that
\* acknowledges is never subscribed below what it acknowledges.
QosOfMembers ==
  \A n \in DOMAIN wires : wires[n].qos = Highest(wires[n].members)

\* No two wires carry one identifier, whatever was derived from their filters
\* and in whatever order identifiers were given out and refused.
DistinctIdentifiers ==
  \A i, j \in DOMAIN wires :
    /\ wires[i].identifier # NoIdentifier
    /\ wires[i].identifier = wires[j].identifier
    => i = j

\* Two wires that can match one topic both carry an identifier: join gives one
\* to every wire that meets another, or refuses.  (A server that refuses a
\* refresh takes one away again, so this needs Answers without FALSE.)
MeetingIdentified ==
  \A i, j \in DOMAIN wires :
    i # j /\ Overlap(wires[i].filter, wires[j].filter)
      => wires[i].identifier # NoIdentifier

\* Of two wires that can match one topic, the server holds at most one without
\* its identifier, so a packet naming none cannot belong to either of two.
\* (A server that stops offering identifiers breaks this: Offers = {TRUE}.)
OneUnnamed ==
  \A i, j \in DOMAIN wires :
    i # j /\ Overlap(wires[i].filter, wires[j].filter)
      => ~(wires[i].unnamed /\ wires[j].unnamed)

\* The identifiers the server names in the copy it sends for wire n.
Names(n) == IF wires[n].identifier = NoIdentifier \/ wires[n].unnamed
            THEN {} ELSE {wires[n].identifier}

\* The copy of a publish the server sends for a wire is handed to that wire and
\* to no other, whatever the registry went through: overlapping filters each
\* receive a message once.
RoutedHome ==
  \A n \in DOMAIN wires : \A t \in Topics :
    wires[n].filter \in Matching[t] => Targets(t, Names(n)) = {n}

=============================================================================
