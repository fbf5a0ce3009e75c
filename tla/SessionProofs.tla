--------------------------- MODULE SessionProofs ---------------------------
(***************************************************************************)
(* What a session promises of the publishes and of the SUBACK records, for *)
(* every number of opens, publishes, losses and recoveries.  A publish or a *)
(* release is ahead of the client's write or written and not confirmed; a   *)
(* lemma for each step says what the step makes of the two sequences, and   *)
(* the invariants of the publishes are about nothing else.  Those of the    *)
(* subscriptions relate the subscribes and unsubscribes among the requests  *)
(* to the records, the table of the registry and what the server holds.     *)
(***************************************************************************)
EXTENDS Session, RegistryProofs

IsTraffic(r) == r.kind \in {"publish", "release"}

\* What is still to be written, in the order it will be: nothing is parked while the
\* client has a connection, and nothing set aside while it has none.
Ahead == parked \o setAside \o channel

Traffic(s) == Select(s, IsTraffic)
ToWrite    == Traffic(Ahead)

\* The records of publishes and releases, wherever they are.
Records  == Elements(ToWrite) \cup Elements(unconfirmed)
Publishes == {r \in Records : IsPublish(r)}
Releases  == {r \in Records : IsRelease(r)}

MessagesOf(s) == {r.message : r \in {x \in Elements(s) : IsPublish(x)}}

\* A message is at one place of s at most.
Once(s) ==
  \A i, j \in DOMAIN s :
    IsPublish(s[i]) /\ IsPublish(s[j]) /\ s[i].message = s[j].message => i = j

\* The server has been given what is sent under this packet id: it keeps the id to be
\* released, has answered, or was answered itself.
Confirmations == {"puback", "pubrec", "pubcomp"}
Answered(pkid) ==
  \E a \in Elements(incoming) : a.kind \in Confirmations /\ a.pkid = pkid
Seen(pkid) ==
  \/ pkid \in unreleased
  \/ Answered(pkid)
  \/ \E r \in Releases : r.pkid = pkid

PublishRecord == [kind : {"publish"}, message : Messages, pkid : Nat]
ReleaseRecord == [kind : {"release"}, pkid : Nat \ {NoPkid}]

\* Where things can be, and what they are.
Shape ==
  /\ Vector(parked) /\ Vector(setAside) /\ Vector(channel) /\ Vector(unconfirmed)
  /\ Vector(incoming)
  /\ Connected => parked = <<>>
  /\ task = "down" => setAside = <<>> /\ unconfirmed = <<>>
  /\ Elements(unconfirmed) \subseteq PublishRecord \cup ReleaseRecord
  /\ Elements(ToWrite) \subseteq PublishRecord \cup ReleaseRecord
  /\ received \in [Messages -> Nat]
  /\ publishing \in [Messages -> {"idle", "queuing", "accepted", "refused"}]

\* No packet id is ahead of the counter, so a fresh one is no other's.
Numbered ==
  /\ lastPkid \in Nat
  /\ unreleased \subseteq 1..lastPkid
  /\ \A r \in Records : r.pkid \in 0..lastPkid
  /\ \A r \in Elements(unconfirmed) : r.pkid # NoPkid
  /\ \A a \in Elements(incoming) : a.kind \in Confirmations => a.pkid \in 1..lastPkid

\* A message is at one place at most, and only one that was accepted.
Placed ==
  /\ Once(ToWrite) /\ Once(unconfirmed)
  /\ MessagesOf(ToWrite) \cap MessagesOf(unconfirmed) = {}
  /\ \A r \in Publishes : publishing[r.message] = "accepted"

\* A packet id is one message's, which the server was given before it answered, and
\* which is waiting or written, not both, once it did.
PkidsKnown ==
  /\ \A r, s \in Publishes : r.pkid = s.pkid /\ r.pkid # NoPkid => r.message = s.message
  /\ \A r \in Publishes : r.pkid # NoPkid /\ Seen(r.pkid) => received[r.message] > 0
  /\ \A r \in Publishes, s \in Releases : r.pkid # s.pkid
  /\ \A r \in Elements(ToWrite) : IsPublish(r) => ~Answered(r.pkid)

\* What was given the server once and is still here it will know again.
Known ==
  /\ \A m \in Messages : publishing[m] # "accepted" => received[m] = 0
  /\ ~renewed => \A r \in Publishes : LevelOf[r.message] = 2 /\ received[r.message] > 0
                                        => r.pkid \in unreleased
Ledger == Numbered /\ Placed /\ PkidsKnown /\ Known /\ ExactlyOnce

\* The inductive invariant.
SInv == Shape /\ Ledger /\ Vector(wires)

-----------------------------------------------------------------------------
(* Traffic.                                                                *)

\* The publishes and releases of a sequence, and their order.
LEMMA TrafficProperties ==
  ASSUME NEW s, Vector(s)
  PROVE  /\ Vector(Traffic(s))
         /\ Elements(Traffic(s)) = {r \in Elements(s) : IsTraffic(r)}
<1> DEFINE K == {r \in Elements(s) : IsTraffic(r)}
<1>1. Traffic(s) = Keep(s, K)
  BY DEF Traffic, Select, Keep, Passing, Elements
<1>2. Elements(s) \cap K = K
  OBVIOUS
<1> HIDE DEF K
<1>3. Vector(Keep(s, K)) /\ Elements(Keep(s, K)) = Elements(s) \cap K
  BY VectorKeep
<1>4. Vector(Traffic(s)) /\ Elements(Traffic(s)) = K
  BY <1>1, <1>2, <1>3
<1> QED BY <1>4 DEF K

\* The traffic of one sequence after another is that of each, in turn.
LEMMA TrafficConcat ==
  ASSUME NEW s, Vector(s), NEW t, Vector(t)
  PROVE  Traffic(s \o t) = Traffic(s) \o Traffic(t)
<1> DEFINE K == {r \in Elements(s) \cup Elements(t) : IsTraffic(r)}
<1>1. Elements(s \o t) = Elements(s) \cup Elements(t)
  BY VectorConcat
<1>2. Traffic(s) = Keep(s, K) /\ Traffic(t) = Keep(t, K)
  BY DEF Traffic, Select, Keep, Passing, Elements
<1>3. Traffic(s \o t) = Keep(s \o t, K)
  BY <1>1 DEF Traffic, Select, Keep, Passing, Elements
<1> HIDE DEF K
<1>4. Keep(s \o t, K) = Keep(s, K) \o Keep(t, K)
  BY VectorKeeps
<1> QED BY <1>2, <1>3, <1>4

\* One request is traffic or leaves none.
LEMMA TrafficOne ==
  ASSUME NEW e
  PROVE  Traffic(<<e>>) = IF IsTraffic(e) THEN <<e>> ELSE <<>>
<1> DEFINE K == {r \in {e} : IsTraffic(r)}
<1>1. Traffic(<<e>>) = Keep(<<e>>, K)
  BY DEF Traffic, Select, Keep, Passing
<1>2. e \in K <=> IsTraffic(e)
  OBVIOUS
<1> HIDE DEF K
<1> QED BY <1>1, <1>2, VectorKeeps

\* A request at the end adds itself or nothing.
LEMMA TrafficAppend ==
  ASSUME NEW s, Vector(s), NEW e
  PROVE  Traffic(Append(s, e)) = IF IsTraffic(e) THEN Append(Traffic(s), e) ELSE Traffic(s)
<1> DEFINE u == Traffic(s)
<1>1. Vector(u)
  BY TrafficProperties
<1> HIDE DEF u
<1>2. u \o <<>> = u /\ u \o <<e>> = Append(u, e)
  BY <1>1, VectorConcats, VectorAppend
<1>3. Append(s, e) = s \o <<e>> /\ Vector(<<e>>)
  BY VectorAppend
<1>4. Traffic(s \o <<e>>) = Traffic(s) \o Traffic(<<e>>)
  BY <1>3, TrafficConcat
<1> QED BY <1>2, <1>3, <1>4, TrafficOne DEF u

\* What belongs to a message is that message's in each part.
LEMMA MessagesConcat ==
  ASSUME NEW s, Vector(s), NEW t, Vector(t)
  PROVE  /\ MessagesOf(s \o t) = MessagesOf(s) \cup MessagesOf(t)
         /\ Once(s \o t) <=> Once(s) /\ Once(t) /\ MessagesOf(s) \cap MessagesOf(t) = {}
<1> DEFINE u == s \o t
           n == Len(s)
           m == Len(t)
<1>1. /\ Elements(u) = Elements(s) \cup Elements(t)
      /\ n \in Nat /\ m \in Nat
      /\ DOMAIN s = 1..n /\ DOMAIN t = 1..m /\ DOMAIN u = 1..(n + m)
      /\ \A i \in 1..(n + m) : u[i] = IF i <= n THEN s[i] ELSE t[i - n]
  BY VectorConcat, VectorPlaces
<1> HIDE DEF u, n, m
<1>2. MessagesOf(u) = MessagesOf(s) \cup MessagesOf(t)
  BY <1>1 DEF MessagesOf
<1>3. /\ \A i \in 1..n : i \in 1..(n + m) /\ u[i] = s[i]
      /\ \A i \in 1..m : n + i \in 1..(n + m) /\ u[n + i] = t[i]
  BY <1>1
<1>4. ASSUME Once(u) PROVE Once(s) /\ Once(t) /\ MessagesOf(s) \cap MessagesOf(t) = {}
  <2>1. Once(s)
    BY <1>1, <1>3, <1>4 DEF Once
  <2>2. Once(t)
    <3> SUFFICES ASSUME NEW i \in 1..m, NEW j \in 1..m, IsPublish(t[i]), IsPublish(t[j]),
                        t[i].message = t[j].message
                 PROVE  i = j
      BY <1>1 DEF Once
    <3>1. n + i = n + j
      BY <1>1, <1>3, <1>4 DEF Once
    <3> QED BY <1>1, <3>1
  <2>3. ASSUME NEW x \in MessagesOf(s) \cap MessagesOf(t) PROVE FALSE
    <3>1. PICK i \in 1..n : IsPublish(s[i]) /\ s[i].message = x
      BY <1>1, <2>3 DEF MessagesOf, Elements
    <3>2. PICK j \in 1..m : IsPublish(t[j]) /\ t[j].message = x
      BY <1>1, <2>3 DEF MessagesOf, Elements
    <3>3. i = n + j
      BY <1>1, <1>3, <1>4, <3>1, <3>2 DEF Once
    <3> QED BY <1>1, <3>3
  <2> QED BY <2>1, <2>2, <2>3
<1>5. ASSUME Once(s), Once(t), MessagesOf(s) \cap MessagesOf(t) = {} PROVE Once(u)
  <2> SUFFICES ASSUME NEW i \in 1..(n + m), NEW j \in 1..(n + m),
                      IsPublish(u[i]), IsPublish(u[j]), u[i].message = u[j].message
               PROVE  i = j
    BY <1>1 DEF Once
  <2>1. ASSUME NEW k \in 1..(n + m), IsPublish(u[k]), ~(k <= n)
        PROVE  k - n \in 1..m /\ u[k] = t[k - n] /\ u[k].message \in MessagesOf(t)
    <3>1. k - n \in 1..m /\ u[k] = t[k - n]
      BY <1>1, <2>1
    <3>2. t[k - n] \in Elements(t)
      BY <1>1, <3>1 DEF Elements
    <3> QED BY <2>1, <3>1, <3>2 DEF MessagesOf
  <2>2. ASSUME NEW k \in 1..(n + m), IsPublish(u[k]), k <= n
        PROVE  k \in 1..n /\ u[k] = s[k] /\ u[k].message \in MessagesOf(s)
    <3>1. k \in 1..n /\ u[k] = s[k]
      BY <1>1, <2>2
    <3>2. s[k] \in Elements(s)
      BY <1>1, <3>1 DEF Elements
    <3> QED BY <2>2, <3>1, <3>2 DEF MessagesOf
  <2>3. CASE i <= n /\ j <= n
    BY <1>1, <1>5, <2>2, <2>3 DEF Once
  <2>4. CASE ~(i <= n) /\ ~(j <= n)
    <3>1. i - n = j - n
      BY <1>1, <1>5, <2>1, <2>4 DEF Once
    <3> QED BY <1>1, <3>1
  <2>5. CASE (i <= n) # (j <= n)
    BY <1>5, <2>1, <2>2, <2>5
  <2> QED BY <2>3, <2>4, <2>5
<1> QED BY <1>2, <1>4, <1>5 DEF u

\* One record is at one place.
LEMMA MessagesOne ==
  ASSUME NEW e
  PROVE  /\ MessagesOf(<<e>>) = IF IsPublish(e) THEN {e.message} ELSE {}
         /\ Once(<<e>>)
         /\ MessagesOf(<<>>) = {} /\ Once(<<>>)
<1> DEFINE s == <<e>>
<1>1. DOMAIN s = {1} /\ s[1] = e
  OBVIOUS
<1> HIDE DEF s
<1>2. Elements(s) = {e}
  BY <1>1 DEF Elements
<1>3. MessagesOf(s) = IF IsPublish(e) THEN {e.message} ELSE {}
  BY <1>2 DEF MessagesOf
<1>4. Once(s)
  BY <1>1 DEF Once
<1>5. DOMAIN <<>> = {}
  OBVIOUS
<1>6. MessagesOf(<<>>) = {} /\ Once(<<>>)
  BY <1>5 DEF MessagesOf, Once, Elements
<1> QED BY <1>3, <1>4, <1>6 DEF s

\* What is kept of a sequence that has each message once has it once.
LEMMA OnceKept ==
  ASSUME NEW s, Vector(s), NEW K, Once(s)
  PROVE  Once(Keep(s, K)) /\ MessagesOf(Keep(s, K)) \subseteq MessagesOf(s)
<1> DEFINE k == Keep(s, K)
<1>1. /\ s \in Seq(Elements(s)) /\ Passing(s, K) \in SUBSET DOMAIN s
      /\ Elements(k) = Elements(s) \cap K
  BY VectorKeep DEF Vector, Passing
<1>2. /\ \A i \in DOMAIN k : \E p \in Passing(s, K) : k[i] = s[p]
      /\ DOMAIN k \subseteq Nat
      /\ \A i, j \in DOMAIN k :
           i < j => \E p, q \in Passing(s, K) : p < q /\ k[i] = s[p] /\ k[j] = s[q]
  BY <1>1, AtProperties DEF Keep
<1>3. DOMAIN s \subseteq Nat
  BY VectorPlaces
<1> HIDE DEF k
<1>4. MessagesOf(k) \subseteq MessagesOf(s)
  BY <1>1 DEF MessagesOf
<1>5. ASSUME NEW i \in DOMAIN k, NEW j \in DOMAIN k, i < j, IsPublish(k[i]), IsPublish(k[j]),
             k[i].message = k[j].message
      PROVE  FALSE
  <2>1. PICK p \in DOMAIN s, q \in DOMAIN s : p < q /\ k[i] = s[p] /\ k[j] = s[q]
    BY <1>1, <1>2, <1>5
  <2>2. p = q
    BY <1>5, <2>1 DEF Once
  <2> QED BY <1>3, <2>1, <2>2
<1>6. Once(k)
  <2> SUFFICES ASSUME NEW i \in DOMAIN k, NEW j \in DOMAIN k, IsPublish(k[i]), IsPublish(k[j]),
                      k[i].message = k[j].message, i # j
               PROVE  FALSE
    BY DEF Once
  <2>1. i < j \/ j < i
    BY <1>2
  <2> QED BY <1>5, <2>1
<1> QED BY <1>4, <1>6 DEF k

\* A sequence whose traffic has each message once has it once.
LEMMA OnceTraffic ==
  ASSUME NEW s, Vector(s), Once(Traffic(s))
  PROVE  Once(s)
<1> DEFINE P == {i \in DOMAIN s : IsTraffic(s[i])}
           t == Traffic(s)
<1>1. /\ s \in Seq(Elements(s)) /\ P \in SUBSET DOMAIN s
      /\ Len(s) \in Nat /\ DOMAIN s = 1..Len(s)
      /\ t = At(s, P)
  BY VectorPlaces DEF Vector, Traffic, Select
<1>2. \A i \in DOMAIN s : IsPublish(s[i]) => i \in P
  BY DEF IsPublish, IsTraffic
<1> HIDE DEF P, t
<1>3. \A p \in P : Rank(P, p) \in DOMAIN t /\ t[Rank(P, p)] = s[p]
  BY <1>1, AtProperties
<1>4. \A p, q \in P : p < q => Rank(P, p) < Rank(P, q)
  BY <1>1, RankProperties
<1>5. \A p \in P : Rank(P, p) \in Nat
  <2>1. \A p \in P : Rank(P, p) \in 1..Cardinality(P)
    BY <1>1, RankProperties
  <2> QED BY <2>1
<1>6. ASSUME NEW i \in DOMAIN s, NEW j \in DOMAIN s, i < j, IsPublish(s[i]), IsPublish(s[j]),
             s[i].message = s[j].message
      PROVE  FALSE
  <2>1. Rank(P, i) < Rank(P, j)
    BY <1>2, <1>4, <1>6
  <2>2. Rank(P, i) = Rank(P, j)
    BY <1>2, <1>3, <1>6 DEF Once, t
  <2> QED BY <1>2, <1>5, <1>6, <2>1, <2>2
<1> SUFFICES ASSUME NEW i \in DOMAIN s, NEW j \in DOMAIN s, IsPublish(s[i]), IsPublish(s[j]),
                    s[i].message = s[j].message, i # j
             PROVE  FALSE
  BY DEF Once
<1>7. i < j \/ j < i
  BY <1>1
<1> QED BY <1>6, <1>7

-----------------------------------------------------------------------------
(* What the steps are made of.                                             *)

Typed ==
  /\ Vector(ToWrite) /\ Vector(unconfirmed) /\ Vector(incoming)
  /\ Records \subseteq PublishRecord \cup ReleaseRecord
  /\ received \in [Messages -> Nat]
  /\ publishing \in [Messages -> {"idle", "queuing", "accepted", "refused"}]

\* A shaped session is typed, and what is to be written is the traffic ahead.
LEMMA ShapeTyped ==
  ASSUME Shape
  PROVE  /\ Typed /\ Vector(Ahead)
         /\ Elements(ToWrite) = {r \in Elements(Ahead) : IsTraffic(r)}
<1>1. Vector(parked \o setAside)
  BY VectorConcat DEF Shape
<1>2. Vector(Ahead)
  BY <1>1, VectorConcat DEF Shape, Ahead
<1> QED BY <1>2, TrafficProperties DEF Shape, Typed, ToWrite, Records

\* The first request is written.
LEMMA Dequeued ==
  ASSUME Shape, NEW kind, Up(kind), Dequeue, UNCHANGED parked
  PROVE  /\ Vector(setAside') /\ Vector(channel') /\ Vector(parked') /\ parked' = <<>>
         /\ Vector(ToWrite') /\ ToWrite = Traffic(<<Request>>) \o ToWrite'
         /\ Ahead = <<Request>> \o Ahead' /\ Vector(Ahead')
         /\ Request.kind = kind /\ Request \in Elements(Ahead)
<1>1. /\ parked = <<>> /\ parked' = <<>> /\ Request.kind = kind
      /\ Vector(setAside) /\ Vector(channel)
  BY DEF Up, Shape
<1>2. Vector(<<>>)
  BY VectorEmpty
<1>3. Ahead = setAside \o channel /\ setAside \o channel # <<>>
  BY <1>1, VectorConcats DEF Ahead, Up
<1>4. CASE setAside # <<>>
  <2> DEFINE h == Head(setAside)
             t == Tail(setAside)
  <2>1. Request = h /\ setAside' = t /\ channel' = channel
    BY <1>4 DEF Request, Dequeue
  <2>2. Vector(t) /\ setAside = <<h>> \o t
    BY <1>1, <1>4, VectorHeadTail
  <2> HIDE DEF h, t
  <2>3. Vector(<<h>>) /\ Elements(<<h>>) = {h}
    BY <1>2, VectorAppend
  <2>4. setAside \o channel = <<h>> \o (t \o channel) /\ <<>> \o t = t
    BY <1>1, <2>2, <2>3, VectorConcats
  <2>5. Vector(t \o channel)
    BY <1>1, <2>2, VectorConcat
  <2>6. Ahead' = t \o channel
    BY <1>1, <2>1, <2>4 DEF Ahead
  <2>7. h \in Elements(<<h>> \o (t \o channel))
    BY <2>3, <2>5, VectorConcat
  <2>8. Traffic(<<h>> \o (t \o channel)) = Traffic(<<h>>) \o Traffic(t \o channel)
    BY <2>3, <2>5, TrafficConcat
  <2>9. Vector(Traffic(t \o channel))
    BY <2>5, TrafficProperties
  <2> QED BY <1>1, <1>2, <1>3, <2>1, <2>2, <2>4, <2>5, <2>6, <2>7, <2>8, <2>9 DEF ToWrite
<1>5. CASE setAside = <<>>
  <2> DEFINE h == Head(channel)
             t == Tail(channel)
  <2>1. Request = h /\ setAside' = setAside /\ channel' = t
    BY <1>5 DEF Request, Dequeue
  <2>0. setAside \o channel = channel
    BY <1>1, <1>5, VectorConcats
  <2>2. Vector(t) /\ channel = <<h>> \o t
    BY <1>1, <1>3, <2>0, VectorHeadTail
  <2> HIDE DEF h, t
  <2>3. Vector(<<h>>) /\ Elements(<<h>>) = {h}
    BY <1>2, VectorAppend
  <2>4. <<>> \o t = t /\ <<>> \o <<>> = <<>>
    BY <1>2, <2>2, VectorConcats
  <2>6. Ahead' = t /\ Ahead = <<h>> \o t
    BY <1>1, <1>3, <1>5, <2>0, <2>1, <2>2, <2>4 DEF Ahead
  <2>7. h \in Elements(<<h>> \o t)
    BY <2>2, <2>3, VectorConcat
  <2>8. Traffic(<<h>> \o t) = Traffic(<<h>>) \o Traffic(t)
    BY <2>2, <2>3, TrafficConcat
  <2>9. Vector(Traffic(t))
    BY <2>2, TrafficProperties
  <2> QED BY <1>1, <1>2, <1>5, <2>1, <2>2, <2>6, <2>7, <2>8, <2>9 DEF ToWrite
<1> QED BY <1>4, <1>5

\* A request enters the queue.
LEMMA Enqueued ==
  ASSUME Shape, NEW x, channel' = Append(channel, x), UNCHANGED <<parked, setAside>>
  PROVE  /\ Vector(channel')
         /\ Ahead' = Append(Ahead, x)
         /\ ToWrite' = IF IsTraffic(x) THEN Append(ToWrite, x) ELSE ToWrite
<1> DEFINE s == parked \o setAside
<1>1. Vector(s) /\ Vector(channel)
  BY VectorConcat DEF Shape
<1>2. Ahead = s \o channel /\ Ahead' = s \o channel'
  BY DEF Ahead
<1> HIDE DEF s
<1>3. Vector(channel') /\ channel' = channel \o <<x>> /\ Vector(<<x>>)
  BY <1>1, VectorAppend
<1>4. s \o (channel \o <<x>>) = (s \o channel) \o <<x>> /\ Vector(s \o channel)
  <2> DEFINE one == <<x>>
  <2>1. Vector(one)
    BY <1>3
  <2> HIDE DEF one
  <2>2. (s \o channel) \o one = s \o (channel \o one)
    BY <1>1, <2>1, VectorConcats
  <2>3. Vector(s \o channel)
    BY <1>1, VectorConcat
  <2> QED BY <2>2, <2>3 DEF one
<1>5. Append(s \o channel, x) = (s \o channel) \o <<x>>
  BY <1>4, VectorAppend
<1>6. Ahead' = Append(Ahead, x) /\ Vector(Ahead)
  BY <1>2, <1>3, <1>4, <1>5
<1>7. Traffic(Append(Ahead, x)) = IF IsTraffic(x) THEN Append(Traffic(Ahead), x) ELSE Traffic(Ahead)
  BY <1>6, TrafficAppend
<1> QED BY <1>3, <1>6, <1>7 DEF ToWrite

\* The server's answer comes in, or is lost.
LEMMA AnswerProperties ==
  ASSUME Vector(incoming), NEW a, Answer(a)
  PROVE  /\ Vector(incoming')
         /\ severed => incoming' = incoming
         /\ ~severed => Elements(incoming') = Elements(incoming) \cup {a}
<1>1. CASE severed
  BY <1>1 DEF Answer
<1>2. CASE ~severed
  <2>1. incoming' = Append(incoming, a)
    BY <1>2 DEF Answer
  <2> QED BY <1>2, <2>1, VectorAppend
<1> QED BY <1>1, <1>2

-----------------------------------------------------------------------------
(* The steps that leave the traffic as it is.                              *)

Still ==
  /\ ToWrite' = ToWrite /\ unconfirmed' = unconfirmed
  /\ \A k : Answered(k)' => Answered(k)
  /\ unreleased' = unreleased /\ received' = received
  /\ lastPkid' \in Nat /\ lastPkid' >= lastPkid
  /\ renewed => renewed'
  /\ publishing' \in [Messages -> {"idle", "queuing", "accepted", "refused"}]
  /\ \A m \in Messages : publishing[m] = "accepted" <=> publishing'[m] = "accepted"

\* They keep the ledger.
LEMMA StillLedger ==
  ASSUME Typed, Ledger, Still
  PROVE  Ledger'
<1> USE DEF Still
<1>1. /\ Records' = Records /\ Publishes' = Publishes /\ Releases' = Releases
      /\ MessagesOf(ToWrite)' = MessagesOf(ToWrite)
      /\ MessagesOf(unconfirmed)' = MessagesOf(unconfirmed)
  BY DEF Records, Publishes, Releases, MessagesOf
<1>2. \A r \in Publishes : r.message \in Messages
  BY DEF Typed, Publishes, IsPublish, PublishRecord, ReleaseRecord
<1>3. \A k : Seen(k)' => Seen(k)
  BY <1>1 DEF Seen
<1>4. Numbered'
  <2>1. ASSUME NEW a \in Elements(incoming)', a.kind \in Confirmations
        PROVE  a.pkid \in 1..lastPkid
    <3>1. Answered(a.pkid)'
      BY <2>1 DEF Answered
    <3>2. PICK b \in Elements(incoming) : b.kind \in Confirmations /\ b.pkid = a.pkid
      BY <3>1 DEF Answered
    <3> QED BY <3>2 DEF Ledger, Numbered
  <2>2. lastPkid \in Nat /\ 1..lastPkid \subseteq 1..lastPkid' /\ 0..lastPkid \subseteq 0..lastPkid'
    BY DEF Ledger, Numbered
  <2> QED BY <1>1, <2>1, <2>2 DEF Ledger, Numbered
<1>5. Placed'
  BY <1>1, <1>2 DEF Ledger, Placed, Once
<1>6. PkidsKnown'
  BY <1>1, <1>3 DEF Ledger, PkidsKnown
<1>7. Known' /\ ExactlyOnce'
  BY <1>1 DEF Ledger, Known, ExactlyOnce
<1> QED BY <1>4, <1>5, <1>6, <1>7 DEF Ledger

\* Nothing is said of the traffic, or another kind of request enters the queue.
Quiet ==
  /\ UNCHANGED <<parked, setAside, unconfirmed, incoming, lastPkid, unreleased, received, renewed>>
  /\ \/ UNCHANGED channel
     \/ \E x : ~IsTraffic(x) /\ channel' = Append(channel, x)
  /\ Connected' => Connected
  /\ task' = "down" => task = "down"
  /\ publishing' \in [Messages -> {"idle", "queuing", "accepted", "refused"}]
  /\ \A m \in Messages : publishing[m] = "accepted" <=> publishing'[m] = "accepted"

\* A quiet step moves no record.
LEMMA QuietStill ==
  ASSUME Shape, Ledger, Quiet
  PROVE  Shape' /\ Still
<1> USE DEF Quiet
<1>1. Vector(channel') /\ ToWrite' = ToWrite
  <2>1. CASE UNCHANGED channel
    BY <2>1 DEF Shape, ToWrite, Ahead
  <2>2. ASSUME NEW x, ~IsTraffic(x), channel' = Append(channel, x)
        PROVE  Vector(channel') /\ ToWrite' = ToWrite
    BY <2>2, Enqueued
  <2> QED BY <2>1, <2>2
<1>2. \A k : Answered(k)' => Answered(k)
  BY DEF Answered
<1>3. lastPkid' \in Nat /\ lastPkid' >= lastPkid
  BY DEF Ledger, Numbered
<1>4. Still
  BY <1>1, <1>2, <1>3 DEF Still
<1>5. Shape'
  BY <1>1 DEF Shape
<1> QED BY <1>4, <1>5

\* The callers other than a publish that enters the queue.
LEMMA CallersQuiet ==
  ASSUME Shape,
         \/ \E o \in Opens : OpenCheck(o) \/ OpenJoin(o) \/ OpenSend(o) \/ Drop(o)
         \/ \E m \in Messages : PublishCheck(m)
         \/ Shutdown \/ ShutdownQueue
  PROVE  Quiet
<1>0. publishing \in [Messages -> {"idle", "queuing", "accepted", "refused"}]
  BY DEF Shape
<1>1. ASSUME NEW o \in Opens, OpenCheck(o) \/ OpenJoin(o) PROVE Quiet
  BY <1>0, <1>1 DEF OpenCheck, OpenJoin, Quiet, clientVars, wireVars, serverVars,
                    taskVars, Connected
<1>2. ASSUME NEW o \in Opens, OpenSend(o) PROVE Quiet
  <2>1. \A request, awaiting :
          SendSubscribe(request, awaiting) =>
            \E x : ~IsTraffic(x) /\ channel' = Append(channel, x)
    BY DEF SendSubscribe, Subscribe, IsTraffic
  <2>2. UNCHANGED channel \/ \E x : ~IsTraffic(x) /\ channel' = Append(channel, x)
    BY <1>2, <2>1 DEF OpenSend
  <2> QED BY <1>0, <1>2, <2>2 DEF OpenSend, Quiet, wireVars, serverVars, taskVars, Connected
<1>3. ASSUME NEW o \in Opens, Drop(o) PROVE Quiet
  <2>1. \A f : ~IsTraffic(Unsubscribe(f))
    BY DEF Unsubscribe, IsTraffic
  <2>2. UNCHANGED channel \/ \E x : ~IsTraffic(x) /\ channel' = Append(channel, x)
    BY <1>3, <2>1 DEF Drop
  <2> QED BY <1>0, <1>3, <2>2 DEF Drop, Quiet, wireVars, serverVars, taskVars, Connected
<1>4. ASSUME NEW m \in Messages, PublishCheck(m) PROVE Quiet
  <2>1. UNCHANGED <<clientVars, wireVars, taskVars>>
        /\ publishing' = [publishing EXCEPT ![m] = IF closed THEN "refused" ELSE "queuing"]
        /\ publishing[m] = "idle"
    BY <1>4 DEF PublishCheck
  <2> QED BY <1>0, <2>1 DEF Quiet, clientVars, wireVars, serverVars, taskVars, Connected
<1>5. CASE Shutdown
  BY <1>0, <1>5 DEF Shutdown, Quiet, clientVars, wireVars, serverVars, Connected
<1>6. CASE ShutdownQueue
  <2>1. ~IsTraffic(Disconnect)
    BY DEF Disconnect, IsTraffic
  <2>2. UNCHANGED channel \/ \E x : ~IsTraffic(x) /\ channel' = Append(channel, x)
    BY <1>6, <2>1 DEF ShutdownQueue
  <2> QED BY <1>0, <1>6, <2>2 DEF ShutdownQueue, Quiet, wireVars, serverVars, taskVars, Connected
<1> QED BY <1>1, <1>2, <1>3, <1>4, <1>5, <1>6

\* A publish that is refused, the loss that is not noticed yet, and the task's way out.
LEMMA TaskQuiet ==
  ASSUME Shape,
         \/ \E m \in Messages : PublishQueue(m) /\ UNCHANGED channel
         \/ Sever \/ DialFails \/ Closing \/ EndRecords \/ Exit \/ UNCHANGED vars
  PROVE  Quiet
<1>0. publishing \in [Messages -> {"idle", "queuing", "accepted", "refused"}]
  BY DEF Shape
<1>1. ASSUME NEW m \in Messages, PublishQueue(m), UNCHANGED channel PROVE Quiet
  <2>1. \/ publishing' = [publishing EXCEPT ![m] = "refused"]
        \/ channel' = Append(channel, Publish(m))
    BY <1>1 DEF PublishQueue
  <2>2. channel' # Append(channel, Publish(m))
    <3>1. Vector(channel)
      BY DEF Shape
    <3>2. Len(channel) \in Nat /\ Len(Append(channel, Publish(m))) = Len(channel) + 1
      BY <3>1 DEF Vector
    <3> QED BY <1>1, <3>2
  <2>3. publishing[m] = "queuing"
    BY <1>1 DEF PublishQueue
  <2> QED BY <1>0, <1>1, <2>1, <2>2, <2>3
          DEF PublishQueue, Quiet, wireVars, serverVars, taskVars, Connected
<1>2. CASE Sever \/ DialFails \/ Closing \/ EndRecords \/ Exit \/ UNCHANGED vars
  <2>1. UNCHANGED <<clientVars, incoming, serverVars, renewed, publishing>>
    BY <1>2 DEF Sever, DialFails, Closing, EndRecords, Exit, callerVars, wireVars, vars
  <2>2. (Connected' => Connected) /\ (task' = "down" => task = "down")
    <3>1. CASE Sever \/ UNCHANGED vars
      BY <3>1 DEF Sever, Connected, taskVars, vars
    <3>2. CASE Closing \/ EndRecords \/ Exit
      BY <3>2 DEF Closing, EndRecords, Exit, Connected
    <3>3. CASE DialFails
      BY <3>3 DEF DialFails, GiveUp, Connected
    <3> QED BY <1>2, <3>1, <3>2, <3>3
  <2> QED BY <1>0, <2>1, <2>2 DEF Quiet, clientVars, serverVars
<1> QED BY <1>1, <1>2

\* The other requests are written, the SUBACKs read, and a session that was kept gets
\* back all that was parked.
LEMMA OthersStill ==
  ASSUME Shape, Ledger,
         \/ WriteSubscribe \/ WriteUnsubscribe \/ WriteDisconnect \/ ReceiveSuback
         \/ \E identifiers \in Offers : Connack(TRUE, identifiers)
  PROVE  Shape' /\ Still
<1> DEFINE Same == /\ UNCHANGED <<unconfirmed, unreleased, received, publishing>>
                   /\ renewed => renewed'
                   /\ Vector(incoming')
                   /\ \A k : Answered(k)' => Answered(k)
                   /\ lastPkid' \in Nat /\ lastPkid' >= lastPkid
<1>0. lastPkid \in Nat /\ Vector(incoming)
  BY DEF Ledger, Numbered, Shape
<1>1. ASSUME Same, ToWrite' = ToWrite,
             Vector(setAside'), Vector(channel'), Vector(parked'),
             Connected' => parked' = <<>>,
             task' = "down" => setAside' = <<>> /\ unconfirmed = <<>>
      PROVE  Shape' /\ Still
  <2>1. Still
    BY <1>1 DEF Still, Shape
  <2> QED BY <1>1, <2>1 DEF Shape, Still
<1>2. ASSUME NEW kind, ~(kind \in {"publish", "release"}), Up(kind), Dequeue, UNCHANGED parked, Same,
             task' # "down"
      PROVE  Shape' /\ Still
  <2>1. /\ Vector(setAside') /\ Vector(channel') /\ Vector(parked') /\ parked' = <<>>
        /\ Vector(ToWrite') /\ ToWrite = Traffic(<<Request>>) \o ToWrite'
        /\ Request.kind = kind
    BY <1>2, Dequeued
  <2>2. Traffic(<<Request>>) = <<>>
    BY <1>2, <2>1, TrafficOne DEF IsTraffic
  <2>3. ToWrite' = ToWrite
    BY <2>1, <2>2, VectorConcats
  <2> QED BY <1>1, <1>2, <2>1, <2>3
<1>3. CASE WriteSubscribe
  <2>1. PICK accepted \in Accepts :
          Answer([kind |-> "suback", pkid |-> lastPkid + 1, accepted |-> accepted])
    BY <1>3 DEF WriteSubscribe
  <2> DEFINE a == [kind |-> "suback", pkid |-> lastPkid + 1, accepted |-> accepted]
  <2>2. ~(a.kind \in Confirmations)
    BY DEF Confirmations
  <2>3. Answer(a)
    BY <2>1
  <2> HIDE DEF a
  <2>4. Vector(incoming') /\ Elements(incoming)' \subseteq Elements(incoming) \cup {a}
    <3>1. /\ Vector(incoming')
          /\ severed => incoming' = incoming
          /\ ~severed => Elements(incoming') = Elements(incoming) \cup {a}
      BY <1>0, <2>3, AnswerProperties
    <3>2. Elements(incoming)' = Elements(incoming')
      BY DEF Elements
    <3> QED BY <3>1, <3>2
  <2>5. \A k : Answered(k)' => Answered(k)
    BY <2>2, <2>4 DEF Answered
  <2>6. Same
    BY <1>0, <1>3, <2>4, <2>5 DEF WriteSubscribe, callerVars
  <2>7. Up("subscribe") /\ Dequeue /\ UNCHANGED parked /\ task' # "down"
    BY <1>3 DEF WriteSubscribe, taskVars, Up, Connected
  <2> QED BY <1>2, <2>6, <2>7
<1>4. CASE WriteUnsubscribe
  <2>1. Same
    BY <1>0, <1>4 DEF WriteUnsubscribe, callerVars, Answered
  <2>2. Up("unsubscribe") /\ Dequeue /\ UNCHANGED parked /\ task' # "down"
    BY <1>4 DEF WriteUnsubscribe, taskVars, Up, Connected
  <2> QED BY <1>2, <2>1, <2>2
<1>5. CASE WriteDisconnect
  <2>1. Same
    BY <1>0, <1>5 DEF WriteDisconnect, callerVars, wireVars, serverVars, Answered
  <2>2. Up("disconnect") /\ Dequeue /\ UNCHANGED parked /\ task' # "down"
    BY <1>5 DEF WriteDisconnect, Up, Connected
  <2> QED BY <1>2, <2>1, <2>2
<1>6. CASE ReceiveSuback
  <2>1. incoming # <<>> /\ incoming' = Tail(incoming)
    BY <1>6 DEF ReceiveSuback, Reads
  <2>2. Vector(incoming') /\ Elements(incoming') \subseteq Elements(incoming)
    BY <1>0, <2>1, VectorHeadTail
  <2>3. \A k : Answered(k)' => Answered(k)
    BY <2>2 DEF Answered, Elements
  <2>5. UNCHANGED <<parked, setAside, channel, task, unconfirmed, unreleased, received,
                    renewed, publishing, lastPkid>>
    BY <1>6 DEF ReceiveSuback, clientVars, serverVars, taskVars
  <2>4. Same
    BY <1>0, <2>2, <2>3, <2>5
  <2>6. ToWrite' = ToWrite
    BY <2>5 DEF ToWrite, Ahead
  <2> QED BY <1>1, <2>4, <2>5, <2>6 DEF Shape, Connected
<1>7. ASSUME NEW identifiers \in Offers, Connack(TRUE, identifiers) PROVE Shape' /\ Still
  <2>1. /\ task = "down" /\ task' \in {"up", "restoring"}
        /\ parked' = <<>> /\ setAside' = setAside \o parked /\ channel' = channel
        /\ UNCHANGED <<unconfirmed, lastPkid, incoming, received, unreleased, publishing>>
        /\ renewed => renewed'
    BY <1>7 DEF Connack, Unpark, callerVars
  <2>2. setAside = <<>> /\ unconfirmed = <<>> /\ Vector(parked) /\ Vector(channel)
    BY <2>1 DEF Shape
  <2>3. setAside' = parked
    BY <2>1, <2>2, VectorConcats
  <2>4. parked \o <<>> = parked /\ <<>> \o parked = parked
    BY <2>2, VectorConcats
  <2>5. Ahead' = Ahead
    BY <2>1, <2>2, <2>3, <2>4 DEF Ahead
  <2>6. ToWrite' = ToWrite
    BY <2>5 DEF ToWrite
  <2>7. Same
    BY <1>0, <2>1 DEF Answered
  <2> QED BY <1>1, <2>1, <2>2, <2>3, <2>6, <2>7, VectorEmpty
<1> QED BY <1>3, <1>4, <1>5, <1>6, <1>7

-----------------------------------------------------------------------------
(* The steps that move traffic.                                            *)

\* What a record is.
LEMMA RecordTypes ==
  ASSUME Typed
  PROVE  /\ \A r \in Publishes : r \in PublishRecord /\ r.message \in Messages /\ r.pkid \in Nat
         /\ \A r \in Releases : r \in ReleaseRecord /\ r.pkid \in Nat \ {NoPkid}
         /\ \A r \in Records : r \in Publishes \/ r \in Releases
         /\ \A r \in Publishes : r.message \in MessagesOf(ToWrite) \cup MessagesOf(unconfirmed)
  BY DEF Typed, Publishes, Releases, IsPublish, IsRelease, PublishRecord, ReleaseRecord,
         Records, MessagesOf

\* A publish enters the queue: its message is nowhere yet, and the server never had it.
LEMMA QueuedLedger ==
  ASSUME Shape, Ledger, NEW m \in Messages, PublishQueue(m), channel' = Append(channel, Publish(m))
  PROVE  /\ Shape' /\ Ledger'
         /\ Publishes' = Publishes \cup {Publish(m)}
         /\ received' = received /\ publishing' = [publishing EXCEPT ![m] = "accepted"]
<1> DEFINE p == Publish(m)
<1>1. /\ p \in PublishRecord /\ IsPublish(p) /\ ~IsRelease(p) /\ IsTraffic(p)
      /\ p.message = m /\ p.pkid = 0 /\ NoPkid = 0
  BY DEF Publish, PublishRecord, IsPublish, IsRelease, IsTraffic, NoPkid
<1>2. Typed
  BY ShapeTyped
<1>3. /\ publishing[m] = "queuing"
      /\ UNCHANGED <<setAside, parked, unconfirmed, incoming, lastPkid, unreleased, received,
                     renewed, task>>
      /\ publishing' = [publishing EXCEPT ![m] = "accepted"]
  <2>1. channel # Append(channel, Publish(m))
    <3>1. Len(channel) \in Nat /\ Len(Append(channel, Publish(m))) = Len(channel) + 1
      BY DEF Shape, Vector
    <3> QED BY <3>1
  <2> QED BY <2>1 DEF PublishQueue, wireVars, serverVars, taskVars
<1>4. Vector(channel') /\ ToWrite' = Append(ToWrite, p)
  BY <1>1, <1>3, Enqueued
<1> HIDE DEF p
<1>5. /\ Vector(ToWrite') /\ Elements(ToWrite') = Elements(ToWrite) \cup {p}
      /\ ToWrite' = ToWrite \o <<p>> /\ Vector(<<p>>)
  BY <1>2, <1>4, VectorAppend DEF Typed
<1>6. /\ Elements(ToWrite)' = Elements(ToWrite) \cup {p}
      /\ Elements(unconfirmed)' = Elements(unconfirmed)
  BY <1>3, <1>5 DEF Elements
<1>7. /\ Records' = Records \cup {p} /\ Publishes' = Publishes \cup {p} /\ Releases' = Releases
  BY <1>1, <1>6 DEF Records, Publishes, Releases
<1>8. Shape'
  <2>1. Elements(ToWrite)' \subseteq PublishRecord \cup ReleaseRecord
    BY <1>1, <1>2, <1>6 DEF Typed, Records
  <2> QED BY <1>3, <1>4, <1>6, <2>1 DEF Shape, Connected
<1>9. m \notin MessagesOf(ToWrite) /\ m \notin MessagesOf(unconfirmed)
  BY <1>3 DEF Ledger, Placed, Publishes, Records, MessagesOf
<1>10. Numbered'
  BY <1>1, <1>3, <1>7 DEF Ledger, Numbered
<1>11. Placed'
  <2> DEFINE one == <<p>>
  <2>1. MessagesOf(one) = {m} /\ Once(one) /\ Vector(one)
    BY <1>1, <1>5, MessagesOne
  <2> HIDE DEF one
  <2>2. /\ MessagesOf(ToWrite \o one) = MessagesOf(ToWrite) \cup {m}
        /\ Once(ToWrite \o one)
    <3>1. Vector(ToWrite) /\ Once(ToWrite) /\ MessagesOf(ToWrite) \cap {m} = {}
      BY <1>2, <1>9 DEF Typed, Ledger, Placed
    <3> QED BY <2>1, <3>1, MessagesConcat
  <2>3. Once(ToWrite') /\ MessagesOf(ToWrite') = MessagesOf(ToWrite) \cup {m}
    BY <1>5, <2>2 DEF one
  <2>4. Once(ToWrite)' /\ MessagesOf(ToWrite)' = MessagesOf(ToWrite) \cup {m}
    BY <2>3 DEF Once, MessagesOf, Elements
  <2>5. \A r \in Publishes' : publishing'[r.message] = "accepted"
    <3>1. \A r \in Publishes : r.message \in Messages
      BY <1>2, RecordTypes
    <3> QED BY <1>1, <1>3, <1>7, <3>1 DEF Shape, Ledger, Placed
  <2>6. Once(unconfirmed)' /\ MessagesOf(unconfirmed)' = MessagesOf(unconfirmed)
    BY <1>3 DEF Ledger, Placed, MessagesOf, Once, Elements
  <2>7. (MessagesOf(ToWrite) \cup {m}) \cap MessagesOf(unconfirmed) = {}
    BY <1>9 DEF Ledger, Placed
  <2> QED BY <2>4, <2>5, <2>6, <2>7 DEF Placed
<1>12. \A k : Seen(k)' <=> Seen(k)
  BY <1>3, <1>7 DEF Seen, Answered, Elements
<1>13. PkidsKnown'
  <2>1. \A r \in Releases : r.pkid # 0
    BY <1>1, <1>2, RecordTypes
  <2>2. ~Answered(0)
    BY DEF Answered, Ledger, Numbered
  <2>3. ~Answered(0)'
    BY <1>3, <2>2 DEF Answered, Elements
  <2>4. \A r \in Elements(ToWrite)' : IsPublish(r) => ~Answered(r.pkid)'
    BY <1>1, <1>3, <1>6, <2>3 DEF Ledger, PkidsKnown, Answered, Elements
  <2> QED BY <1>1, <1>3, <1>7, <1>12, <2>1, <2>4 DEF Ledger, PkidsKnown
<1>14. Known' /\ ExactlyOnce'
  BY <1>1, <1>3, <1>7 DEF Shape, Ledger, Known, ExactlyOnce
<1> QED BY <1>3, <1>7, <1>8, <1>10, <1>11, <1>13, <1>14 DEF Ledger, p

\* The first publish is written, with the packet id it had or a fresh one: the server
\* takes it unless it knows it already.
LEMMA WrittenLedger ==
  ASSUME Shape, Ledger, WritePublish
  PROVE  /\ Shape' /\ Ledger'
         /\ \E r \in Publishes, p \in PublishRecord :
              /\ r.message = p.message
              /\ Publishes' = (Publishes \ {r}) \cup {p}
              /\ \/ received' = received
                 \/ received' = [received EXCEPT ![p.message] = @ + 1]
         /\ Connected /\ task' = task /\ publishing' = publishing
<1> DEFINE r == Request
           k == IF r.pkid = NoPkid THEN lastPkid + 1 ELSE r.pkid
           p == [kind |-> "publish", message |-> r.message, pkid |-> k]
           given == received' # received
<1>1. /\ Vector(setAside') /\ Vector(channel') /\ Vector(parked') /\ parked' = <<>>
      /\ Vector(ToWrite') /\ ToWrite = Traffic(<<r>>) \o ToWrite'
      /\ r.kind = "publish" /\ r \in Elements(Ahead)
  BY Dequeued DEF WritePublish, callerVars
<1>2. /\ UNCHANGED <<parked, severed, renewed, task, publishing>>
      /\ lastPkid' = IF r.pkid = NoPkid THEN lastPkid + 1 ELSE lastPkid
      /\ unconfirmed' = Append(unconfirmed, p)
      /\ received' = IF severed \/ k \in unreleased THEN received
                     ELSE [received EXCEPT ![r.message] = @ + 1]
      /\ unreleased' = IF severed \/ LevelOf[r.message] = 1 THEN unreleased
                       ELSE unreleased \cup {k}
      /\ Answer([kind |-> IF LevelOf[r.message] = 1 THEN "puback" ELSE "pubrec", pkid |-> k])
      /\ Connected
  BY DEF WritePublish, callerVars, taskVars, Up
<1>3. /\ Typed /\ lastPkid \in Nat /\ NoPkid = 0
  BY ShapeTyped DEF Ledger, Numbered, NoPkid
<1>4. /\ r \in Publishes /\ r \in PublishRecord /\ r.message \in Messages /\ r.pkid \in 0..lastPkid
      /\ r \in Elements(ToWrite)
  <2>1. r \in Elements(ToWrite)
    BY <1>1, ShapeTyped DEF IsTraffic
  <2>2. r \in Publishes
    BY <1>1, <2>1 DEF Publishes, Records, IsPublish
  <2> QED BY <1>3, <2>1, <2>2, RecordTypes DEF Ledger, Numbered, Publishes
<1>5. /\ k \in 1..lastPkid' /\ lastPkid' \in Nat /\ lastPkid <= lastPkid'
      /\ r.pkid # NoPkid => k = r.pkid
      /\ r.pkid = NoPkid => k \notin 0..lastPkid
  BY <1>2, <1>3, <1>4
<1>6. p \in PublishRecord /\ p.message = r.message /\ p.pkid = k /\ IsPublish(p) /\ ~IsRelease(p)
  BY <1>3, <1>4, <1>5 DEF PublishRecord, IsPublish, IsRelease
<1>7. /\ ToWrite = <<r>> \o ToWrite' /\ Vector(<<r>>) /\ Elements(<<r>>) = {r}
      /\ IsPublish(r) /\ ~IsRelease(r) /\ r.kind = "publish"
  BY <1>1, TrafficOne, VectorAppend, VectorEmpty DEF IsTraffic, IsPublish, IsRelease
<1> DEFINE a == [kind |-> IF LevelOf[r.message] = 1 THEN "puback" ELSE "pubrec", pkid |-> k]
<1>8. /\ a.pkid = k /\ a.kind \in Confirmations /\ Answer(a)
  BY <1>2 DEF Confirmations
<1>9. /\ Vector(incoming')
      /\ severed => incoming' = incoming
      /\ ~severed => Elements(incoming)' = Elements(incoming) \cup {a}
  <2> HIDE DEF a
  <2>1. /\ Vector(incoming')
        /\ severed => incoming' = incoming
        /\ ~severed => Elements(incoming') = Elements(incoming) \cup {a}
    BY <1>3, <1>8, AnswerProperties DEF Typed
  <2>2. Elements(incoming)' = Elements(incoming')
    BY DEF Elements
  <2> QED BY <2>1, <2>2
<1> HIDE DEF r, k, p, a, given
<1>10. /\ Elements(ToWrite) = Elements(ToWrite)' \cup {r}
       /\ MessagesOf(ToWrite)' \subseteq MessagesOf(ToWrite)
       /\ Once(ToWrite)' /\ r.message \notin MessagesOf(ToWrite)'
       /\ r.message \in MessagesOf(ToWrite)
  <2> DEFINE one == <<r>>
             w == ToWrite'
  <2>1. Vector(one) /\ Vector(w) /\ MessagesOf(one) = {r.message} /\ Elements(one) = {r}
    BY <1>1, <1>7, MessagesOne
  <2> HIDE DEF one, w
  <2>2. Once(one \o w)
    BY <1>7 DEF Ledger, Placed, one, w
  <2>3. /\ MessagesOf(one \o w) = {r.message} \cup MessagesOf(w)
        /\ Once(w) /\ {r.message} \cap MessagesOf(w) = {}
        /\ Elements(one \o w) = {r} \cup Elements(w)
    <3>1. Elements(one \o w) = {r} \cup Elements(w)
      BY <2>1, VectorConcat
    <3>2. /\ MessagesOf(one \o w) = MessagesOf(one) \cup MessagesOf(w)
          /\ Once(w) /\ MessagesOf(one) \cap MessagesOf(w) = {}
      BY <2>1, <2>2, MessagesConcat
    <3> QED BY <2>1, <3>1, <3>2
  <2>4. one \o w = ToWrite
    BY <1>7 DEF one, w
  <2>5. /\ Elements(ToWrite)' = Elements(w) /\ MessagesOf(ToWrite)' = MessagesOf(w)
        /\ Once(ToWrite)' <=> Once(w)
    BY DEF w, Elements, MessagesOf, Once
  <2> QED BY <2>3, <2>4, <2>5
<1>11. /\ Vector(unconfirmed')
       /\ Elements(unconfirmed)' = Elements(unconfirmed) \cup {p}
       /\ MessagesOf(unconfirmed)' = MessagesOf(unconfirmed) \cup {r.message}
       /\ Once(unconfirmed)'
       /\ r.message \notin MessagesOf(unconfirmed)
  <2> DEFINE one == <<p>>
  <2>1. r.message \notin MessagesOf(unconfirmed)
    BY <1>10 DEF Ledger, Placed
  <2>2. /\ Vector(unconfirmed') /\ Elements(unconfirmed') = Elements(unconfirmed) \cup {p}
        /\ unconfirmed' = unconfirmed \o one /\ Vector(one)
    BY <1>2, <1>3, VectorAppend DEF Typed
  <2>3. MessagesOf(one) = {r.message} /\ Once(one)
    BY <1>6, MessagesOne
  <2> HIDE DEF one
  <2>4. /\ MessagesOf(unconfirmed \o one) = MessagesOf(unconfirmed) \cup {r.message}
        /\ Once(unconfirmed \o one)
    <3>1. Vector(unconfirmed) /\ Once(unconfirmed)
      BY <1>3 DEF Typed, Ledger, Placed
    <3> QED BY <2>1, <2>2, <2>3, <3>1, MessagesConcat
  <2>5. /\ Elements(unconfirmed)' = Elements(unconfirmed')
        /\ MessagesOf(unconfirmed)' = MessagesOf(unconfirmed')
        /\ Once(unconfirmed)' <=> Once(unconfirmed')
    BY DEF Elements, MessagesOf, Once
  <2> QED BY <2>1, <2>2, <2>4, <2>5
<1>12. \A q \in Elements(ToWrite)' \cup Elements(unconfirmed) :
         IsPublish(q) => q \in Publishes /\ q.message # r.message
  BY <1>10, <1>11 DEF Publishes, Records, MessagesOf
<1>13. /\ Publishes' = (Publishes \ {r}) \cup {p}
       /\ Releases' = Releases
       /\ Records' \subseteq Records \cup {p}
       /\ \A q \in Publishes \ {r} : q.message # r.message
  BY <1>6, <1>7, <1>10, <1>11, <1>12 DEF Publishes, Releases, Records
<1>14. Shape'
  <2>1. Elements(ToWrite)' \cup Elements(unconfirmed)' \subseteq PublishRecord \cup ReleaseRecord
    BY <1>3, <1>6, <1>10, <1>11 DEF Typed, Records
  <2>2. received' \in [Messages -> Nat]
    BY <1>2, <1>3, <1>4 DEF Typed
  <2>3. task' # "down" /\ (Connected' => Connected)
    BY <1>2 DEF Connected
  <2> QED BY <1>1, <1>2, <1>9, <1>11, <2>1, <2>2, <2>3 DEF Shape
<1>15. \A j : Answered(j)' => Answered(j) \/ (~severed /\ j = k)
  BY <1>8, <1>9 DEF Answered, Elements
<1>16. \A j : Seen(j)' => Seen(j) \/ (~severed /\ j = k)
  BY <1>2, <1>13, <1>15 DEF Seen
<1>17. Numbered'
  <2>1. \A b \in Elements(incoming)' : b.kind \in Confirmations => b.pkid \in 1..lastPkid'
    <3>1. ASSUME NEW b \in Elements(incoming)', b.kind \in Confirmations
          PROVE  Answered(b.pkid) \/ b.pkid = k
      BY <1>15, <3>1 DEF Answered
    <3>2. \A j : Answered(j) => j \in 1..lastPkid'
      BY <1>3, <1>5 DEF Answered, Ledger, Numbered
    <3> QED BY <1>5, <3>1, <3>2
  <2>2. unreleased' \subseteq 1..lastPkid'
    BY <1>2, <1>3, <1>5 DEF Ledger, Numbered
  <2>3. \A q \in Records' : q.pkid \in 0..lastPkid'
    BY <1>3, <1>5, <1>6, <1>13 DEF Ledger, Numbered
  <2>4. \A q \in Elements(unconfirmed)' : q.pkid # NoPkid
    BY <1>3, <1>5, <1>6, <1>11 DEF Ledger, Numbered
  <2> QED BY <1>5, <2>1, <2>2, <2>3, <2>4 DEF Numbered
<1>18. Placed'
  <2>1. MessagesOf(ToWrite)' \cap MessagesOf(unconfirmed)' = {}
    BY <1>10, <1>11 DEF Ledger, Placed
  <2>2. \A q \in Publishes' : publishing'[q.message] = "accepted"
    BY <1>2, <1>4, <1>6, <1>13 DEF Ledger, Placed
  <2> QED BY <1>10, <1>11, <2>1, <2>2 DEF Placed
\* Another record has the id only if it has the message.
<1>19. \A q \in Publishes \ {r} : q.pkid # k
  <2>1. \A q \in Publishes : q.pkid \in 0..lastPkid
    BY DEF Ledger, Numbered, Publishes
  <2> QED BY <1>4, <1>5, <1>13, <2>1 DEF Ledger, PkidsKnown
<1>20. \A q \in Publishes \ {r} : q.message \in Messages /\ q.pkid \in Nat
  BY <1>3, RecordTypes
<1>21. PkidsKnown'
  <2>1. \A q, s \in Publishes' : q.pkid = s.pkid /\ q.pkid # NoPkid => q.message = s.message
    BY <1>6, <1>13, <1>19 DEF Ledger, PkidsKnown
  <2>2. \A q \in Publishes \ {r} : received'[q.message] = received[q.message]
    BY <1>2, <1>3, <1>4, <1>13, <1>20 DEF Typed
  <2>3. \A q \in Publishes \ {r} : q.pkid # NoPkid /\ Seen(q.pkid)' => received'[q.message] > 0
    BY <1>16, <1>19, <2>2 DEF Ledger, PkidsKnown
  <2>4. ASSUME NEW j, j = k, Seen(j)' PROVE received'[r.message] > 0
    <3>1. received[r.message] \in Nat
      BY <1>3, <1>4 DEF Typed
    <3>2. CASE ~severed /\ k \notin unreleased
      <4>1. received'[r.message] = received[r.message] + 1
        BY <1>2, <1>3, <1>4, <3>2 DEF Typed
      <4> QED BY <3>1, <4>1
    <3>3. CASE severed \/ k \in unreleased
      <4>0. k \in unreleased => Seen(k)
        BY DEF Seen
      <4>1. Seen(k)
        BY <1>16, <2>4, <3>3, <4>0
      <4>2. \A id : Seen(id) => id \in 0..lastPkid
        BY DEF Seen, Answered, Ledger, Numbered, Releases
      <4>3. r.pkid # NoPkid /\ k = r.pkid
        BY <1>5, <4>1, <4>2
      <4>4. received[r.message] > 0
        BY <1>4, <4>1, <4>3 DEF Ledger, PkidsKnown
      <4> QED BY <1>2, <3>3, <4>4
    <3> QED BY <3>2, <3>3
  <2>5. \A q \in Publishes', s \in Releases' : q.pkid # s.pkid
    <3>1. \A s \in Releases : s.pkid \in 1..lastPkid
      BY <1>3, RecordTypes DEF Ledger, Numbered, Releases
    <3>2. \A s \in Releases : s.pkid # k
      BY <1>4, <1>5, <3>1 DEF Ledger, PkidsKnown
    <3> QED BY <1>6, <1>13, <3>2 DEF Ledger, PkidsKnown
  <2>6. \A q \in Elements(ToWrite)' : IsPublish(q) => ~Answered(q.pkid)'
    <3>1. ASSUME NEW q \in Elements(ToWrite)', IsPublish(q) PROVE ~Answered(q.pkid)'
      <4>1. q \in Elements(ToWrite) /\ q \in Publishes \ {r}
        BY <1>10, <1>12, <3>1
      <4> QED BY <1>15, <1>19, <3>1, <4>1 DEF Ledger, PkidsKnown
    <3> QED BY <3>1
  <2>7. \A q \in Publishes' : q.pkid # NoPkid /\ Seen(q.pkid)' => received'[q.message] > 0
    BY <1>6, <1>13, <2>3, <2>4
  <2> QED BY <2>1, <2>5, <2>6, <2>7 DEF PkidsKnown
<1>22. Known'
  <2>1. \A m \in Messages : publishing'[m] # "accepted" => received'[m] = 0
    <3>1. publishing[r.message] = "accepted"
      BY <1>4 DEF Ledger, Placed
    <3> QED BY <1>2, <1>3, <1>4, <3>1 DEF Typed, Ledger, Known
  <2>2. ASSUME ~renewed', NEW q \in Publishes', LevelOf[q.message] = 2, received'[q.message] > 0
        PROVE  q.pkid \in unreleased'
    <3>1. CASE q \in Publishes \ {r}
      <4>1. received'[q.message] = received[q.message]
        BY <1>2, <1>3, <1>4, <1>13, <1>20, <3>1 DEF Typed
      <4>2. q.pkid \in unreleased
        BY <1>2, <2>2, <3>1, <4>1 DEF Ledger, Known
      <4> QED BY <1>2, <4>2
    <3>2. CASE q = p
      <4>1. CASE ~severed
        BY <1>2, <1>6, <2>2, <3>2, <4>1
      <4>2. CASE severed
        <5>1. received[r.message] > 0 /\ unreleased' = unreleased /\ ~renewed
          BY <1>2, <1>6, <2>2, <3>2, <4>2
        <5>2. r.pkid \in unreleased
          BY <1>4, <1>6, <2>2, <3>2, <5>1 DEF Ledger, Known
        <5>3. r.pkid # NoPkid
          BY <1>3, <5>2 DEF Ledger, Numbered
        <5> QED BY <1>5, <1>6, <3>2, <5>1, <5>2, <5>3
      <4> QED BY <4>1, <4>2
    <3> QED BY <1>13, <2>2, <3>1, <3>2
  <2> QED BY <2>1, <2>2 DEF Known
<1>23. ExactlyOnce'
  <2> SUFFICES ASSUME ~renewed', NEW m \in Messages, LevelOf[m] = 2 PROVE received'[m] <= 1
    BY DEF ExactlyOnce
  <2>1. received[m] \in Nat /\ received[m] <= 1
    BY <1>2, <1>3 DEF Typed, Ledger, ExactlyOnce
  <2>2. CASE received'[m] = received[m]
    BY <2>1, <2>2
  <2>3. CASE received'[m] # received[m]
    <3>1. ~severed /\ k \notin unreleased /\ m = r.message /\ received'[m] = received[m] + 1
      BY <1>2, <1>3, <1>4, <2>3 DEF Typed
    <3>2. ~(received[m] > 0)
      <4>1. received[m] > 0 => r.pkid \in unreleased
        BY <1>2, <1>4, <3>1 DEF Ledger, Known
      <4>2. r.pkid \in unreleased => r.pkid # NoPkid
        BY <1>3 DEF Ledger, Numbered
      <4> QED BY <1>5, <3>1, <4>1, <4>2
    <3> QED BY <2>1, <3>1, <3>2
  <2> QED BY <2>2, <2>3
<1>24. \/ received' = received
       \/ received' = [received EXCEPT ![p.message] = @ + 1]
  BY <1>2, <1>6
<1>25. Ledger'
  BY <1>17, <1>18, <1>21, <1>22, <1>23 DEF Ledger
<1> QED BY <1>2, <1>4, <1>6, <1>13, <1>14, <1>24, <1>25

\* The first release is written, and the server lets go of its packet id.
LEMMA ReleasedLedger ==
  ASSUME Shape, Ledger, WriteRelease
  PROVE  /\ Shape' /\ Ledger'
         /\ Publishes' = Publishes /\ received' = received /\ publishing' = publishing
         /\ Connected /\ task' = task
<1> DEFINE r == Request
           k == r.pkid
           a == [kind |-> "pubcomp", pkid |-> k]
<1>1. /\ Vector(setAside') /\ Vector(channel') /\ Vector(parked') /\ parked' = <<>>
      /\ Vector(ToWrite') /\ ToWrite = Traffic(<<r>>) \o ToWrite'
      /\ r.kind = "release" /\ r \in Elements(Ahead)
  BY Dequeued DEF WriteRelease, callerVars
<1>2. /\ UNCHANGED <<parked, severed, renewed, task, publishing, received, lastPkid>>
      /\ unconfirmed' = Append(unconfirmed, r)
      /\ unreleased' = IF severed THEN unreleased ELSE unreleased \ {k}
      /\ Answer(a)
      /\ Connected
  BY DEF WriteRelease, ServerReleases, callerVars, taskVars, Up
<1>3. /\ Typed /\ lastPkid \in Nat /\ NoPkid = 0
  BY ShapeTyped DEF Ledger, Numbered, NoPkid
<1>4. /\ r \in Releases /\ r \in ReleaseRecord /\ r.pkid \in 1..lastPkid
      /\ r \in Elements(ToWrite) /\ r \in Records
  <2>1. r \in Elements(ToWrite)
    BY <1>1, ShapeTyped DEF IsTraffic
  <2>2. r \in Releases /\ r \in Records
    BY <1>1, <2>1 DEF Releases, Records, IsRelease
  <2>3. r.pkid \in 0..lastPkid
    BY <2>2 DEF Ledger, Numbered
  <2>4. r \in ReleaseRecord /\ r.pkid \in Nat \ {NoPkid}
    BY <1>3, <2>2, RecordTypes
  <2> QED BY <1>3, <2>1, <2>2, <2>3, <2>4
<1>7. /\ ToWrite = <<r>> \o ToWrite' /\ Vector(<<r>>) /\ Elements(<<r>>) = {r}
      /\ ~IsPublish(r) /\ IsRelease(r)
  BY <1>1, TrafficOne, VectorAppend, VectorEmpty DEF IsTraffic, IsPublish, IsRelease
<1>8. a.pkid = k /\ a.kind \in Confirmations
  BY DEF Confirmations
<1>9. /\ Vector(incoming')
      /\ severed => incoming' = incoming
      /\ ~severed => Elements(incoming)' = Elements(incoming) \cup {a}
  <2> HIDE DEF a
  <2>1. /\ Vector(incoming')
        /\ severed => incoming' = incoming
        /\ ~severed => Elements(incoming') = Elements(incoming) \cup {a}
    BY <1>2, <1>3, AnswerProperties DEF Typed
  <2>2. Elements(incoming)' = Elements(incoming')
    BY DEF Elements
  <2> QED BY <2>1, <2>2
<1>k. r.pkid = k
  OBVIOUS
<1> HIDE DEF r, k, a
<1>10. /\ Elements(ToWrite) = Elements(ToWrite)' \cup {r}
       /\ MessagesOf(ToWrite)' = MessagesOf(ToWrite)
       /\ Once(ToWrite)'
  <2> DEFINE one == <<r>>
             w == ToWrite'
  <2>1. Vector(one) /\ Vector(w) /\ MessagesOf(one) = {} /\ Elements(one) = {r}
    BY <1>1, <1>7, MessagesOne
  <2> HIDE DEF one, w
  <2>2. Once(one \o w)
    BY <1>7 DEF Ledger, Placed, one, w
  <2>3. Elements(one \o w) = {r} \cup Elements(w)
    BY <2>1, VectorConcat
  <2>4. MessagesOf(one \o w) = MessagesOf(w) /\ Once(w)
    BY <2>1, <2>2, MessagesConcat
  <2>5. one \o w = ToWrite
    BY <1>7 DEF one, w
  <2>6. /\ Elements(ToWrite)' = Elements(w) /\ MessagesOf(ToWrite)' = MessagesOf(w)
        /\ Once(ToWrite)' <=> Once(w)
    BY DEF w, Elements, MessagesOf, Once
  <2> QED BY <2>3, <2>4, <2>5, <2>6
<1>11. /\ Vector(unconfirmed')
       /\ Elements(unconfirmed)' = Elements(unconfirmed) \cup {r}
       /\ MessagesOf(unconfirmed)' = MessagesOf(unconfirmed)
       /\ Once(unconfirmed)'
  <2> DEFINE one == <<r>>
  <2>1. /\ Vector(unconfirmed') /\ Elements(unconfirmed') = Elements(unconfirmed) \cup {r}
        /\ unconfirmed' = unconfirmed \o one /\ Vector(one)
    BY <1>2, <1>3, VectorAppend DEF Typed
  <2>2. MessagesOf(one) = {} /\ Once(one)
    BY <1>7, MessagesOne
  <2> HIDE DEF one
  <2>3. /\ MessagesOf(unconfirmed \o one) = MessagesOf(unconfirmed)
        /\ Once(unconfirmed \o one)
    <3>1. Vector(unconfirmed) /\ Once(unconfirmed)
      BY <1>3 DEF Typed, Ledger, Placed
    <3>2. /\ MessagesOf(unconfirmed \o one) = MessagesOf(unconfirmed) \cup MessagesOf(one)
          /\ Once(unconfirmed \o one) <=>
               /\ Once(unconfirmed) /\ Once(one)
               /\ MessagesOf(unconfirmed) \cap MessagesOf(one) = {}
      BY <2>1, <3>1, MessagesConcat
    <3> QED BY <2>2, <3>1, <3>2
  <2>4. /\ Elements(unconfirmed)' = Elements(unconfirmed')
        /\ MessagesOf(unconfirmed)' = MessagesOf(unconfirmed')
        /\ Once(unconfirmed)' <=> Once(unconfirmed')
    BY DEF Elements, MessagesOf, Once
  <2> QED BY <2>1, <2>3, <2>4
<1>12. Records' = Records /\ Publishes' = Publishes /\ Releases' = Releases
  <2>1. Records' = Records
    BY <1>10, <1>11 DEF Records
  <2> QED BY <2>1 DEF Publishes, Releases
<1>13. Shape'
  <2>1. Elements(ToWrite)' \cup Elements(unconfirmed)' \subseteq PublishRecord \cup ReleaseRecord
    BY <1>3, <1>12 DEF Typed, Records
  <2>2. task' # "down" /\ (Connected' => Connected)
    BY <1>2 DEF Connected
  <2> QED BY <1>1, <1>2, <1>9, <1>11, <2>1, <2>2 DEF Shape
<1>14. \A j : Answered(j)' => Answered(j) \/ j = k
  BY <1>8, <1>9 DEF Answered, Elements
<1>15. \A j : Seen(j)' => Seen(j)
  <2>1. Seen(k)
    BY <1>4, <1>k DEF Seen
  <2>2. \A j : Seen(j)' => Seen(j) \/ j = k
    BY <1>2, <1>12, <1>14 DEF Seen
  <2> QED BY <2>1, <2>2
<1>16. Numbered'
  <2>1. \A b \in Elements(incoming)' : b.kind \in Confirmations => b.pkid \in 1..lastPkid
    BY <1>4, <1>8, <1>9, <1>k DEF Ledger, Numbered, Elements
  <2>2. \A q \in Elements(unconfirmed)' : q.pkid # NoPkid
    BY <1>3, <1>4, <1>11 DEF Ledger, Numbered
  <2> QED BY <1>2, <1>12, <2>1, <2>2 DEF Ledger, Numbered
<1>17. Placed'
  BY <1>2, <1>10, <1>11, <1>12 DEF Ledger, Placed
<1>18. \A q \in Publishes : q.pkid # k
  BY <1>4, <1>k DEF Ledger, PkidsKnown
<1>19. PkidsKnown'
  <2>1. \A q \in Elements(ToWrite)' : IsPublish(q) => ~Answered(q.pkid)'
    <3>1. ASSUME NEW q \in Elements(ToWrite)', IsPublish(q) PROVE ~Answered(q.pkid)'
      <4>1. q \in Elements(ToWrite) /\ q \in Publishes
        BY <1>10, <3>1 DEF Publishes, Records
      <4> QED BY <1>14, <1>18, <3>1, <4>1 DEF Ledger, PkidsKnown
    <3> QED BY <3>1
  <2> QED BY <1>2, <1>12, <1>15, <2>1 DEF Ledger, PkidsKnown
<1>20. Known' /\ ExactlyOnce'
  BY <1>2, <1>12, <1>18 DEF Ledger, Known, ExactlyOnce
<1> QED BY <1>2, <1>12, <1>13, <1>16, <1>17, <1>19, <1>20 DEF Ledger

\* An answer comes in: what is confirmed was given to the server, and what is
\* received is released from then on.
LEMMA ConfirmedLedger ==
  ASSUME Shape, Ledger, ReceiveConfirmation
  PROVE  /\ Shape' /\ Ledger'
         /\ \E k : /\ Seen(k) /\ k # NoPkid
                   /\ Publishes' = {q \in Publishes : q.pkid # k}
         /\ received' = received /\ publishing' = publishing
         /\ Connected /\ task' = task
<1> DEFINE answer == Head(incoming)
           k == answer.pkid
           rest == Tail(incoming)
           Other(r) == r.pkid # k
           others == Select(unconfirmed, Other)
           K == {q \in Elements(unconfirmed) : q.pkid # k}
           rel == [kind |-> "release", pkid |-> k]
           comp == [kind |-> "pubcomp", pkid |-> k]
<1>1. /\ UNCHANGED <<parked, setAside, channel, severed, renewed, task, publishing, received,
                     lastPkid>>
      /\ \/ /\ unconfirmed' = Append(others, rel)
            /\ unreleased' = IF severed THEN unreleased ELSE unreleased \ {k}
            /\ incoming' = IF severed THEN rest ELSE Append(rest, comp)
         \/ /\ unconfirmed' = others
            /\ incoming' = rest
            /\ unreleased' = unreleased
      /\ Connected /\ incoming # <<>> /\ answer.kind \in Confirmations
  BY DEF ReceiveConfirmation, Reads, callerVars, taskVars, Confirmations
<1>2. Typed /\ lastPkid \in Nat /\ NoPkid = 0
  BY ShapeTyped DEF Ledger, Numbered, NoPkid
<1>3. /\ Vector(rest) /\ Elements(incoming) = {answer} \cup Elements(rest)
  BY <1>1, <1>2, VectorHeadTail DEF Typed
<1>4. Answered(k) /\ k \in 1..lastPkid /\ Seen(k)
  <2>1. answer \in Elements(incoming)
    BY <1>3
  <2>2. Answered(k) /\ k \in 1..lastPkid
    BY <1>1, <2>1 DEF Answered, Ledger, Numbered
  <2> QED BY <2>2 DEF Seen
<1>5. /\ others = Keep(unconfirmed, K)
      /\ \A q : q \in K <=> q \in Elements(unconfirmed) /\ q.pkid # k
      /\ Elements(unconfirmed) \cap K = K
  BY DEF Select, Keep, Passing, Elements
<1>6. /\ rel \in ReleaseRecord /\ rel.pkid = k /\ IsRelease(rel) /\ ~IsPublish(rel)
      /\ comp.pkid = k
  BY <1>2, <1>4 DEF ReleaseRecord, IsRelease, IsPublish
<1>k. answer.pkid = k
  OBVIOUS
<1> HIDE DEF answer, k, rest, Other, others, K, rel, comp
<1>7. /\ Vector(others) /\ Elements(others) = K
      /\ Once(others) /\ MessagesOf(others) \subseteq MessagesOf(unconfirmed)
  <2>1. Vector(unconfirmed) /\ Once(unconfirmed)
    BY <1>2 DEF Typed, Ledger, Placed
  <2>2. Vector(Keep(unconfirmed, K)) /\ Elements(Keep(unconfirmed, K)) = K
    BY <1>5, <2>1, VectorKeep
  <2>3. Once(Keep(unconfirmed, K)) /\ MessagesOf(Keep(unconfirmed, K)) \subseteq MessagesOf(unconfirmed)
    BY <2>1, OnceKept
  <2> QED BY <1>5, <2>2, <2>3
<1>8. /\ Vector(incoming')
      /\ Elements(incoming)' \subseteq Elements(incoming) \cup {comp}
  <2>0. Elements(incoming)' = Elements(incoming')
    BY DEF Elements
  <2>1. CASE incoming' = rest
    BY <1>3, <2>0, <2>1
  <2>2. CASE incoming' = Append(rest, comp)
    <3>1. Vector(Append(rest, comp)) /\ Elements(Append(rest, comp)) = Elements(rest) \cup {comp}
      BY <1>3, VectorAppend
    <3> QED BY <1>3, <2>0, <2>2, <3>1
  <2> QED BY <1>1, <2>1, <2>2
<1>9. /\ Vector(unconfirmed') /\ Once(unconfirmed)'
      /\ K \subseteq Elements(unconfirmed)' /\ Elements(unconfirmed)' \subseteq K \cup {rel}
      /\ MessagesOf(unconfirmed)' \subseteq MessagesOf(unconfirmed)
  <2>0. /\ Elements(unconfirmed)' = Elements(unconfirmed')
        /\ MessagesOf(unconfirmed)' = MessagesOf(unconfirmed')
        /\ Once(unconfirmed)' <=> Once(unconfirmed')
    BY DEF Elements, MessagesOf, Once
  <2>1. CASE unconfirmed' = others
    BY <1>7, <2>0, <2>1
  <2>2. CASE unconfirmed' = Append(others, rel)
    <3> DEFINE one == <<rel>>
    <3>1. /\ Vector(unconfirmed') /\ Elements(unconfirmed') = K \cup {rel}
          /\ unconfirmed' = others \o one /\ Vector(one)
      BY <1>7, <2>2, VectorAppend
    <3>2. MessagesOf(one) = {} /\ Once(one)
      BY <1>6, MessagesOne
    <3> HIDE DEF one
    <3>3. MessagesOf(others \o one) = MessagesOf(others) /\ Once(others \o one)
      <4>1. /\ MessagesOf(others \o one) = MessagesOf(others) \cup MessagesOf(one)
            /\ Once(others \o one) <=> /\ Once(others) /\ Once(one)
                                       /\ MessagesOf(others) \cap MessagesOf(one) = {}
        BY <1>7, <3>1, MessagesConcat
      <4> QED BY <1>7, <3>2, <4>1
    <3> QED BY <1>7, <2>0, <3>1, <3>3
  <2> QED BY <1>1, <2>1, <2>2
<1>10. ToWrite' = ToWrite /\ Elements(ToWrite)' = Elements(ToWrite)
  BY <1>1 DEF ToWrite, Ahead, Elements
\* What waits was not answered.
<1>11. \A q \in Elements(ToWrite) : IsPublish(q) => q.pkid # k
  BY <1>4 DEF Ledger, PkidsKnown
<1>12. /\ Publishes' = {q \in Publishes : q.pkid # k}
       /\ Releases' \subseteq Releases \cup {rel}
       /\ Records' \subseteq Records \cup {rel}
  BY <1>5, <1>6, <1>9, <1>10, <1>11 DEF Publishes, Releases, Records
<1>13. Shape'
  <2>1. Elements(ToWrite)' \cup Elements(unconfirmed)' \subseteq PublishRecord \cup ReleaseRecord
    BY <1>2, <1>5, <1>6, <1>9, <1>10 DEF Typed, Records
  <2>2. task' # "down" /\ (Connected' => Connected)
    BY <1>1 DEF Connected
  <2> QED BY <1>1, <1>8, <1>9, <2>1, <2>2 DEF Shape
<1>14. \A j : Answered(j)' => Answered(j)
  <2>1. \A j : Answered(j)' => Answered(j) \/ j = k
    BY <1>6, <1>8 DEF Answered
  <2> QED BY <1>4, <2>1
<1>15. \A j : Seen(j)' => Seen(j)
  <2>1. \A j : Seen(j)' => Seen(j) \/ j = k
    BY <1>1, <1>6, <1>12, <1>14 DEF Seen
  <2> QED BY <1>4, <2>1
<1>16. Numbered'
  <2>1. \A b \in Elements(incoming)' : b.kind \in Confirmations => b.pkid \in 1..lastPkid
    BY <1>4, <1>6, <1>8 DEF Ledger, Numbered
  <2>2. \A q \in Elements(unconfirmed)' : q.pkid # NoPkid
    BY <1>2, <1>4, <1>5, <1>6, <1>9 DEF Ledger, Numbered
  <2>3. \A q \in Records' : q.pkid \in 0..lastPkid
    BY <1>4, <1>6, <1>12 DEF Ledger, Numbered
  <2>4. unreleased' \subseteq 1..lastPkid
    BY <1>1 DEF Ledger, Numbered
  <2> QED BY <1>1, <1>2, <2>1, <2>2, <2>3, <2>4 DEF Numbered
<1>17. Placed'
  <2>1. MessagesOf(ToWrite)' = MessagesOf(ToWrite) /\ (Once(ToWrite)' <=> Once(ToWrite))
    BY <1>10 DEF MessagesOf, Once, Elements
  <2>2. \A q \in Publishes' : publishing'[q.message] = "accepted"
    BY <1>1, <1>12 DEF Ledger, Placed
  <2>3. MessagesOf(ToWrite)' \cap MessagesOf(unconfirmed)' = {}
    BY <1>9, <2>1 DEF Ledger, Placed
  <2> QED BY <1>9, <2>1, <2>2, <2>3 DEF Ledger, Placed
<1>18. PkidsKnown'
  <2>1. \A q \in Elements(ToWrite)' : IsPublish(q) => ~Answered(q.pkid)'
    BY <1>10, <1>14 DEF Ledger, PkidsKnown
  <2>2. \A q \in Publishes', s \in Releases' : q.pkid # s.pkid
    BY <1>6, <1>12 DEF Ledger, PkidsKnown
  <2>3. \A q \in Publishes' : q.pkid # NoPkid /\ Seen(q.pkid)' => received'[q.message] > 0
    BY <1>1, <1>12, <1>15 DEF Ledger, PkidsKnown
  <2>4. \A q, s \in Publishes' : q.pkid = s.pkid /\ q.pkid # NoPkid => q.message = s.message
    BY <1>12 DEF Ledger, PkidsKnown
  <2> QED BY <2>1, <2>2, <2>3, <2>4 DEF PkidsKnown
<1>19. Known' /\ ExactlyOnce'
  BY <1>1, <1>12 DEF Ledger, Known, ExactlyOnce
<1>20. Ledger' /\ k # NoPkid
  BY <1>2, <1>4, <1>16, <1>17, <1>18, <1>19 DEF Ledger
<1> QED BY <1>1, <1>4, <1>12, <1>13, <1>20

\* The connection is lost: what was written and not confirmed is to be written again,
\* the publishes before the releases and both between what was set aside and the queue.
LEMMA LostLedger ==
  ASSUME Shape, Ledger, Lose
  PROVE  /\ Shape' /\ Ledger'
         /\ Publishes' = Publishes /\ received' = received /\ publishing' = publishing
         /\ task = "up" /\ ~Connected'
<1> DEFINE P == {r \in Elements(unconfirmed) : IsPublish(r)}
           Q == {r \in Elements(unconfirmed) : IsRelease(r)}
           p == Keep(unconfirmed, P)
           q == Keep(unconfirmed, Q)
           left == setAside \o p \o q \o channel
<1>1. LeftBehind = left
  BY DEF LeftBehind, Select, Keep, Passing, Elements
<1>2. /\ Typed /\ Vector(setAside) /\ Vector(channel) /\ Vector(unconfirmed) /\ Vector(parked)
      /\ Elements(unconfirmed) \subseteq PublishRecord \cup ReleaseRecord
  BY ShapeTyped DEF Shape
<1>3. /\ Elements(unconfirmed) \cap P = P /\ Elements(unconfirmed) \cap Q = Q
      /\ P \cup Q = Elements(unconfirmed)
      /\ \A r \in P : IsTraffic(r)
      /\ \A r \in Q : IsTraffic(r) /\ ~IsPublish(r)
  BY <1>2 DEF IsPublish, IsRelease, IsTraffic, PublishRecord, ReleaseRecord
<1>4. /\ task = "up" /\ parked = <<>>
      /\ UNCHANGED <<publishing, lastPkid, received, unreleased, renewed>>
      /\ channel' = <<>> /\ unconfirmed' = <<>> /\ incoming' = <<>>
      /\ \/ /\ task' \in {"stopping", "ending"}
            /\ setAside' = LeftBehind /\ parked' = parked
         \/ /\ task' \in {"ending", "down"}
            /\ setAside' = <<>> /\ parked' = parked \o LeftBehind
  BY DEF Lose, GiveUp, Park, callerVars, serverVars, Shape, Connected
<1> HIDE DEF P, Q
<1>5. /\ Vector(p) /\ Elements(p) = P /\ Vector(q) /\ Elements(q) = Q
      /\ Once(p) /\ MessagesOf(p) \subseteq MessagesOf(unconfirmed)
  <2>1. Once(unconfirmed)
    BY DEF Ledger, Placed
  <2> QED BY <1>2, <1>3, <2>1, VectorKeep, OnceKept
<1> HIDE DEF p, q
<1>6. Vector(setAside \o p) /\ Vector(setAside \o p \o q) /\ Vector(left)
  <2>1. Vector(setAside \o p)
    BY <1>2, <1>5, VectorConcat
  <2>2. Vector(setAside \o p \o q)
    BY <1>5, <2>1, VectorConcat
  <2> QED BY <1>2, <2>1, <2>2, VectorConcat
<1> DEFINE a == Traffic(setAside)
           b == Traffic(p)
           c == Traffic(q)
           d == Traffic(channel)
<1>7. /\ Vector(a) /\ Vector(b) /\ Vector(c) /\ Vector(d)
      /\ Elements(b) = P /\ Elements(c) = Q
  <2>1. Vector(a) /\ Vector(d)
    BY <1>2, TrafficProperties
  <2>2. Vector(b) /\ Elements(b) = {r \in P : IsTraffic(r)}
    BY <1>5, TrafficProperties
  <2>3. Vector(c) /\ Elements(c) = {r \in Q : IsTraffic(r)}
    BY <1>5, TrafficProperties
  <2> QED BY <1>3, <2>1, <2>2, <2>3
<1>8. Traffic(left) = a \o b \o c \o d
  <2>1. Traffic(setAside \o p) = a \o b
    BY <1>2, <1>5, TrafficConcat
  <2>2. Traffic(setAside \o p \o q) = Traffic(setAside \o p) \o c
    BY <1>5, <1>6, TrafficConcat
  <2>3. Traffic(left) = Traffic(setAside \o p \o q) \o d
    BY <1>2, <1>6, TrafficConcat
  <2> QED BY <2>1, <2>2, <2>3
<1>9. ToWrite = a \o d
  <2>1. Ahead = setAside \o channel
    BY <1>2, <1>4, VectorConcats DEF Ahead
  <2> QED BY <1>2, <2>1, TrafficConcat DEF ToWrite
\* A message of b is a message of p.
<1>10. Once(b) /\ MessagesOf(b) \subseteq MessagesOf(unconfirmed)
  <2>1. MessagesOf(b) = MessagesOf(p)
    BY <1>5, <1>7 DEF MessagesOf
  <2>2. b = Keep(p, P)
    BY <1>3, <1>5 DEF Traffic, Select, Keep, Passing, Elements
  <2> QED BY <1>5, <2>1, <2>2, OnceKept
<1>11. Once(c) /\ MessagesOf(c) = {}
  <2>1. \A r \in Elements(c) : ~IsPublish(r)
    BY <1>3, <1>7
  <2> QED BY <2>1 DEF Once, MessagesOf, Elements
<1> HIDE DEF a, b, c, d, left
<1>12. /\ Elements(a \o d) = Elements(a) \cup Elements(d)
       /\ MessagesOf(a \o d) = MessagesOf(a) \cup MessagesOf(d)
       /\ Once(a) /\ Once(d) /\ MessagesOf(a) \cap MessagesOf(d) = {}
       /\ (MessagesOf(a) \cup MessagesOf(d)) \cap MessagesOf(b) = {}
  <2>1. Elements(a \o d) = Elements(a) \cup Elements(d)
    BY <1>7, VectorConcat
  <2>2. /\ MessagesOf(a \o d) = MessagesOf(a) \cup MessagesOf(d)
        /\ Once(a \o d) => Once(a) /\ Once(d) /\ MessagesOf(a) \cap MessagesOf(d) = {}
    BY <1>7, MessagesConcat
  <2>3. Once(a \o d) /\ MessagesOf(a \o d) \cap MessagesOf(unconfirmed) = {}
    BY <1>9 DEF Ledger, Placed
  <2> QED BY <1>10, <2>1, <2>2, <2>3
<1>13. /\ Vector(a \o b) /\ Elements(a \o b) = Elements(a) \cup P
       /\ MessagesOf(a \o b) = MessagesOf(a) \cup MessagesOf(b) /\ Once(a \o b)
  <2>1. Vector(a \o b) /\ Elements(a \o b) = Elements(a) \cup P
    BY <1>7, VectorConcat
  <2>2. /\ MessagesOf(a \o b) = MessagesOf(a) \cup MessagesOf(b)
        /\ Once(a \o b) <=> Once(a) /\ Once(b) /\ MessagesOf(a) \cap MessagesOf(b) = {}
    BY <1>7, MessagesConcat
  <2> QED BY <1>10, <1>12, <2>1, <2>2
<1> DEFINE ab == a \o b
<1> HIDE DEF ab
<1>14. /\ Vector(ab \o c) /\ Elements(ab \o c) = Elements(a) \cup P \cup Q
       /\ MessagesOf(ab \o c) = MessagesOf(a) \cup MessagesOf(b) /\ Once(ab \o c)
  <2>0. /\ Vector(ab) /\ Elements(ab) = Elements(a) \cup P
        /\ MessagesOf(ab) = MessagesOf(a) \cup MessagesOf(b) /\ Once(ab)
    BY <1>13 DEF ab
  <2>1. Vector(ab \o c) /\ Elements(ab \o c) = Elements(ab) \cup Q
    BY <1>7, <2>0, VectorConcat
  <2>2. /\ MessagesOf(ab \o c) = MessagesOf(ab) \cup MessagesOf(c)
        /\ Once(ab \o c) <=> Once(ab) /\ Once(c) /\ MessagesOf(ab) \cap MessagesOf(c) = {}
    BY <1>7, <2>0, MessagesConcat
  <2> QED BY <1>11, <2>0, <2>1, <2>2
<1> DEFINE abc == ab \o c
<1> HIDE DEF abc
<1>15. /\ Vector(abc \o d) /\ Elements(abc \o d) = Elements(ToWrite) \cup Elements(unconfirmed)
       /\ Once(abc \o d)
  <2>0. /\ Vector(abc) /\ Elements(abc) = Elements(a) \cup P \cup Q
        /\ MessagesOf(abc) = MessagesOf(a) \cup MessagesOf(b) /\ Once(abc)
    BY <1>14 DEF abc
  <2>1. Vector(abc \o d) /\ Elements(abc \o d) = Elements(abc) \cup Elements(d)
    BY <1>7, <2>0, VectorConcat
  <2>2. /\ Once(abc \o d) <=> Once(abc) /\ Once(d) /\ MessagesOf(abc) \cap MessagesOf(d) = {}
    BY <1>7, <2>0, MessagesConcat
  <2>3. MessagesOf(abc) \cap MessagesOf(d) = {}
    BY <1>12, <2>0
  <2>4. Elements(abc) \cup Elements(d) = Elements(ToWrite) \cup Elements(unconfirmed)
    BY <1>3, <1>9, <1>12, <2>0
  <2> QED BY <1>12, <2>0, <2>1, <2>2, <2>3, <2>4
<1>16. Vector(setAside') /\ Vector(parked') /\ Vector(channel') /\ Ahead' = left
  <2>1. <<>> \o left = left /\ left \o <<>> = left /\ Vector(<<>>)
    BY <1>6, VectorConcats, VectorEmpty
  <2> QED BY <1>1, <1>4, <1>6, <2>1 DEF Ahead
<1>17. ToWrite' = abc \o d
  BY <1>8, <1>16 DEF ToWrite, ab, abc
<1>18. /\ Elements(ToWrite)' = Records /\ Once(ToWrite)'
       /\ Elements(unconfirmed)' = {} /\ MessagesOf(unconfirmed)' = {} /\ Once(unconfirmed)'
       /\ Elements(incoming)' = {}
  <2>1. Elements(ToWrite)' = Elements(abc \o d) /\ (Once(ToWrite)' <=> Once(abc \o d))
    BY <1>17 DEF Elements, Once
  <2>2. Elements(<<>>) = {} /\ MessagesOf(<<>>) = {} /\ Once(<<>>)
    BY MessagesOne, VectorEmpty
  <2>3. /\ Elements(unconfirmed)' = Elements(<<>>) /\ MessagesOf(unconfirmed)' = MessagesOf(<<>>)
        /\ Once(unconfirmed)' <=> Once(<<>>)
        /\ Elements(incoming)' = Elements(<<>>)
    BY <1>4 DEF Elements, MessagesOf, Once
  <2> QED BY <1>15, <2>1, <2>2, <2>3 DEF Records
<1>19. Records' = Records /\ Publishes' = Publishes /\ Releases' = Releases
  <2>1. Records' = Records
    BY <1>18 DEF Records
  <2> QED BY <2>1 DEF Publishes, Releases
<1>20. ~Connected'
  BY <1>4 DEF Connected
<1>21. Shape'
  <2>1. Elements(ToWrite)' \cup Elements(unconfirmed)' \subseteq PublishRecord \cup ReleaseRecord
    BY <1>2, <1>18 DEF Typed
  <2>2. task' = "down" => setAside' = <<>>
    BY <1>4
  <2>3. Vector(unconfirmed') /\ Vector(incoming')
    BY <1>4, VectorEmpty
  <2> QED BY <1>4, <1>16, <1>20, <2>1, <2>2, <2>3 DEF Shape
<1>22. \A j : ~Answered(j)' /\ (Seen(j)' => Seen(j))
  <2>1. \A j : ~Answered(j)'
    BY <1>18 DEF Answered
  <2> QED BY <1>4, <1>19, <2>1 DEF Seen
<1>23. Numbered' /\ Placed' /\ PkidsKnown'
  <2>1. Numbered'
    BY <1>4, <1>18, <1>19 DEF Ledger, Numbered
  <2>2. Placed'
    BY <1>4, <1>18, <1>19 DEF Ledger, Placed
  <2>3. PkidsKnown'
    BY <1>4, <1>19, <1>22 DEF Ledger, PkidsKnown
  <2> QED BY <2>1, <2>2, <2>3
<1>24. Known' /\ ExactlyOnce'
  BY <1>4, <1>19 DEF Ledger, Known, ExactlyOnce
<1> QED BY <1>4, <1>19, <1>20, <1>21, <1>23, <1>24 DEF Ledger

\* The wires stay a sequence, whichever method of the registry a step calls.
LEMMA WiresStep ==
  ASSUME Vector(wires),
         \/ UNCHANGED wires
         \/ \E f, q, offers : Join(f, q, offers)
         \/ \E x : Leave(x)
         \/ \E f, accepted : Identified(f, accepted)
         \/ \E offers : Resubscribing(offers)
         \/ End
  PROVE  Vector(wires')
<1>1. Len(wires) \in Nat /\ DOMAIN wires = 1..Len(wires)
  BY VectorPlaces
<1>2. ASSUME NEW n \in Nat, NEW s, DOMAIN s = 1..n, s = [i \in 1..n |-> s[i]] PROVE Vector(s)
  <2>1. s \in [1..n -> Elements(s)]
    BY <1>2 DEF Elements
  <2> QED BY <2>1, FunctionIsSeq DEF Vector
<1>3. ASSUME NEW f, NEW q, NEW offers, Join(f, q, offers) PROVE Vector(wires')
  <2> DEFINE seated == Seated(f, q)
  <2>1. Vector(seated)
    <3>1. CASE Holds(f)
      <4>1. DOMAIN seated = 1..Len(wires) /\ seated = [i \in 1..Len(wires) |-> seated[i]]
        BY <1>1, <3>1 DEF Seated
      <4> HIDE DEF seated
      <4> QED BY <1>1, <1>2, <4>1
    <3>2. CASE ~Holds(f)
      BY <3>2, VectorAppend DEF Seated
    <3> QED BY <3>1, <3>2
  <2> HIDE DEF seated
  <2>2. Len(seated) \in Nat /\ DOMAIN seated = 1..Len(seated)
    BY <2>1, VectorPlaces
  <2>3. CASE wires' = seated
    BY <2>1, <2>3
  <2>4. ASSUME NEW ids, wires' = Identify(seated, f, ids) PROVE Vector(wires')
    <3>1. DOMAIN wires' = 1..Len(seated) /\ wires' = [i \in 1..Len(seated) |-> wires'[i]]
      BY <2>2, <2>4 DEF Identify
    <3> QED BY <1>2, <2>2, <3>1
  <2> QED BY <1>3, <2>3, <2>4 DEF Join, seated
<1>4. ASSUME NEW x, Leave(x) PROVE Vector(wires')
  <2>1. CASE wires' = wires
    BY <2>1
  <2>2. ASSUME NEW n \in DOMAIN wires, wires' = SwapRemove(wires, n) PROVE Vector(wires')
    <3>1. Len(wires) - 1 \in Nat
      BY <1>1, <2>2
    <3>2. /\ DOMAIN wires' = 1..(Len(wires) - 1)
          /\ wires' = [i \in 1..(Len(wires) - 1) |-> wires'[i]]
      BY <2>2 DEF SwapRemove
    <3> QED BY <1>2, <3>1, <3>2
  <2>3. ASSUME NEW n \in DOMAIN wires, NEW e, wires' = [wires EXCEPT ![n] = e]
        PROVE  Vector(wires')
    <3>1. DOMAIN wires' = 1..Len(wires) /\ wires' = [i \in 1..Len(wires) |-> wires'[i]]
      BY <1>1, <2>3
    <3> QED BY <1>1, <1>2, <3>1
  <2> QED BY <1>4, <2>1, <2>2, <2>3 DEF Leave
<1>5. ASSUME \/ \E f, accepted : Identified(f, accepted)
             \/ \E offers : Resubscribing(offers)
      PROVE  Vector(wires')
  <2>1. DOMAIN wires' = 1..Len(wires) /\ wires' = [i \in 1..Len(wires) |-> wires'[i]]
    BY <1>1, <1>5 DEF Identified, Resubscribing
  <2> QED BY <1>1, <1>2, <2>1
<1>6. CASE End
  BY <1>6, VectorEmpty DEF End
<1> QED BY <1>3, <1>4, <1>5, <1>6

\* What a new session is subscribed to again.
LEMMA ResubscribedProperties ==
  ASSUME Vector(wires), Vector(channel), NEW identifiers
  PROVE  /\ Vector(Resubscribed(identifiers))
         /\ \A r \in Elements(Resubscribed(identifiers)) : r.kind = "subscribe"
<1> DEFINE again == Resubscribed(identifiers)
           room == Capacity - Len(channel)
           k == IF Len(wires) <= room THEN Len(wires) ELSE room
<1>1. Len(wires) \in Nat /\ room \in Int
  <2>1. Len(wires) \in Nat /\ Len(channel) \in Nat
    BY VectorPlaces
  <2> QED BY <2>1, SessionAssumption
<1>2. PICK n \in Nat : 1..k = 1..n
  <2> HIDE DEF room
  <2>1. k \in Int
    BY <1>1
  <2> HIDE DEF k
  <2>2. CASE k \in Nat
    BY <2>2
  <2>3. CASE k \notin Nat
    <3>1. 1..k = 1..0
      BY <2>1, <2>3
    <3> QED BY <3>1
  <2> QED BY <2>2, <2>3
<1>3. /\ DOMAIN again = 1..n
      /\ \A i \in 1..n : again[i].kind = "subscribe"
      /\ again = [i \in 1..n |-> again[i]]
  BY <1>2 DEF Resubscribed, Subscribe
<1> HIDE DEF again
<1>4. again \in [1..n -> Elements(again)]
  BY <1>3 DEF Elements
<1>5. Vector(again)
  BY <1>4, FunctionIsSeq DEF Vector
<1> QED BY <1>3, <1>5 DEF Elements, again

\* A new session: the publishes that were parked are made again, as fresh ones, and
\* what the server kept of them is gone with the old one.
LEMMA RenewedLedger ==
  ASSUME Shape, Ledger, Vector(wires), NEW identifiers \in Offers, Connack(FALSE, identifiers)
  PROVE  /\ Shape' /\ Ledger'
         /\ {r.message : r \in Publishes'} = {r.message : r \in Publishes}
         /\ received' = received /\ publishing' = publishing
         /\ task = "down" /\ task' \in {"up", "restoring"}
<1> DEFINE P == {r \in Elements(parked) : IsPublish(r)}
           p == Select(parked, IsPublish)
           fresh == [i \in DOMAIN p |-> [p[i] EXCEPT !.pkid = NoPkid]]
           again == IF policy = "custom" THEN <<>> ELSE Resubscribed(identifiers)
\* A fresh publish of r's message.
           anew(r) == [kind |-> "publish", message |-> r.message, pkid |-> 0]
<1>1. /\ Typed /\ Vector(channel) /\ Vector(parked) /\ NoPkid = 0 /\ lastPkid \in Nat
      /\ Elements(ToWrite) \subseteq PublishRecord \cup ReleaseRecord
  BY ShapeTyped DEF Shape, NoPkid, Ledger, Numbered
<1>2. /\ task = "down" /\ task' \in {"up", "restoring"} /\ setAside = <<>> /\ unconfirmed = <<>>
      /\ parked' = <<>> /\ setAside' = fresh /\ channel' = channel \o again
      /\ unreleased' = {} /\ renewed'
      /\ UNCHANGED <<unconfirmed, lastPkid, incoming, received, publishing>>
  BY DEF Connack, Unpark, callerVars, Shape
<1>3. Vector(again) /\ \A r \in Elements(again) : ~IsTraffic(r)
  <2> DEFINE resubscribed == Resubscribed(identifiers)
  <2>1. Vector(resubscribed) /\ \A r \in Elements(resubscribed) : ~IsTraffic(r)
    BY <1>1, ResubscribedProperties DEF IsTraffic
  <2> QED BY <2>1, VectorEmpty
<1>4. p = Keep(parked, P) /\ Elements(parked) \cap P = P
  BY DEF Select, Keep, Passing, Elements
<1> DEFINE a == Traffic(parked)
           d == Traffic(channel)
<1>5. ToWrite = a \o d
  <2>1. Ahead = parked \o channel
    BY <1>1, <1>2, VectorConcats DEF Ahead
  <2> QED BY <1>1, <2>1, TrafficConcat DEF ToWrite
<1>6. /\ Vector(a) /\ Elements(a) = {r \in Elements(parked) : IsTraffic(r)}
      /\ Vector(d) /\ Elements(d) = {r \in Elements(channel) : IsTraffic(r)}
  BY <1>1, TrafficProperties
<1>7. Vector(p) /\ Elements(p) = P
  BY <1>1, <1>4, VectorKeep
\* The traffic parked and the traffic in the queue have no message in common.
<1>8. /\ MessagesOf(ToWrite) = MessagesOf(a) \cup MessagesOf(d)
      /\ Once(a) /\ Once(d) /\ MessagesOf(a) \cap MessagesOf(d) = {}
  <2> HIDE DEF a, d
  <2>1. /\ MessagesOf(a \o d) = MessagesOf(a) \cup MessagesOf(d)
        /\ Once(a \o d) <=> Once(a) /\ Once(d) /\ MessagesOf(a) \cap MessagesOf(d) = {}
    BY <1>6, MessagesConcat
  <2> QED BY <1>5, <2>1 DEF Ledger, Placed
<1>9. Once(p) /\ MessagesOf(p) = MessagesOf(a)
  <2>1. Once(parked)
    BY <1>1, <1>8, OnceTraffic
  <2>2. Once(p)
    BY <1>1, <1>4, <2>1, OnceKept
  <2>3. MessagesOf(p) = MessagesOf(a)
    BY <1>6, <1>7 DEF MessagesOf, IsPublish, IsTraffic
  <2> QED BY <2>2, <2>3
<1>10. P \subseteq Publishes /\ P \subseteq PublishRecord
  <2>1. Elements(ToWrite) = Elements(a) \cup Elements(d)
    <3> HIDE DEF a, d
    <3> QED BY <1>5, <1>6, VectorConcat
  <2>2. P \subseteq Publishes
    BY <1>6, <2>1 DEF Publishes, Records, IsPublish, IsTraffic
  <2> QED BY <1>1, <2>2, RecordTypes
<1> HIDE DEF P, p
<1>11. /\ fresh \in Seq(PublishRecord) /\ Vector(fresh) /\ DOMAIN fresh = DOMAIN p
       /\ \A i \in DOMAIN p : fresh[i] = anew(p[i]) /\ fresh[i].message = p[i].message
                              /\ p[i] \in P
  <2>1. Len(p) \in Nat /\ DOMAIN p = 1..Len(p) /\ \A i \in DOMAIN p : p[i] \in P
    BY <1>7, VectorPlaces
  <2>2. \A i \in DOMAIN p : /\ fresh[i] = anew(p[i])
                            /\ fresh[i].message = p[i].message /\ fresh[i] \in PublishRecord
    BY <1>1, <1>10, <2>1 DEF PublishRecord
  <2>3. fresh = [i \in 1..Len(p) |-> fresh[i]] /\ DOMAIN fresh = 1..Len(p)
    BY <2>1
  <2> HIDE DEF fresh
  <2>4. fresh \in Seq(PublishRecord)
    BY <2>1, <2>2, <2>3, FunctionIsSeq
  <2> QED BY <2>1, <2>2, <2>3, <2>4, VectorOf
<1> HIDE DEF fresh
<1>12. /\ Elements(fresh) = {anew(r) : r \in P} /\ Elements(fresh) \subseteq PublishRecord
       /\ MessagesOf(fresh) = MessagesOf(p) /\ Once(fresh)
       /\ \A r \in Elements(fresh) : IsPublish(r) /\ r.pkid = 0
  <2>1. Elements(fresh) = {anew(r) : r \in P}
    BY <1>7, <1>11 DEF Elements
  <2>2. \A r \in P : IsPublish(r) /\ IsPublish(anew(r)) /\ anew(r).pkid = 0
    BY DEF P, IsPublish
  <2>3. Once(fresh)
    <3>1. \A i \in DOMAIN p : IsPublish(p[i])
      BY <1>11, <2>2
    <3> QED BY <1>9, <1>11, <3>1 DEF Once
  <2>4. MessagesOf(fresh) = MessagesOf(p)
    <3>1. MessagesOf(fresh) = {r.message : r \in Elements(fresh)}
      BY <2>1, <2>2 DEF MessagesOf
    <3>2. MessagesOf(p) = {r.message : r \in P}
      BY <1>7, <2>2 DEF MessagesOf
    <3>3. \A r : anew(r).message = r.message
      OBVIOUS
    <3>4. {r.message : r \in {anew(q) : q \in P}} = {anew(q).message : q \in P}
      OBVIOUS
    <3>5. {anew(q).message : q \in P} = {q.message : q \in P}
      BY <3>3
    <3> QED BY <2>1, <3>1, <3>2, <3>4, <3>5
  <2>5. Elements(fresh) \subseteq PublishRecord
    BY <1>11, VectorOf
  <2> QED BY <2>1, <2>2, <2>3, <2>4, <2>5
<1> DEFINE b == Traffic(fresh)
<1>13. /\ Vector(b) /\ Elements(b) = Elements(fresh)
       /\ Once(b) /\ MessagesOf(b) = MessagesOf(fresh)
  <2>1. Vector(b) /\ Elements(b) = {r \in Elements(fresh) : IsTraffic(r)}
    BY <1>11, TrafficProperties
  <2>2. Elements(b) = Elements(fresh)
    BY <1>12, <2>1 DEF IsTraffic, IsPublish
  <2>3. b = Keep(fresh, Elements(fresh))
    BY <1>12 DEF Traffic, Select, Keep, Passing, Elements, IsTraffic, IsPublish
  <2>4. Once(b)
    BY <1>11, <1>12, <2>3, OnceKept
  <2>5. MessagesOf(b) = MessagesOf(fresh)
    BY <2>2 DEF MessagesOf
  <2> QED BY <2>1, <2>2, <2>4, <2>5
<1> HIDE DEF again
<1>14. /\ Vector(channel') /\ Vector(setAside') /\ Vector(parked')
       /\ ToWrite' = b \o d
  <2>1. Traffic(again) = <<>>
    <3>1. Vector(Traffic(again)) /\ Elements(Traffic(again)) = {r \in Elements(again) : IsTraffic(r)}
      BY <1>3, TrafficProperties
    <3> DEFINE t == Traffic(again)
    <3>2. Vector(t) /\ Elements(t) = {}
      BY <1>3, <3>1
    <3> HIDE DEF t
    <3>3. t = <<>>
      BY <3>2, VectorNone
    <3> QED BY <3>3 DEF t
  <2>2. Traffic(channel \o again) = d \o <<>> /\ Vector(channel \o again)
    BY <1>1, <1>3, <2>1, TrafficConcat, VectorConcat
  <2>3. d \o <<>> = d
    <3> HIDE DEF d
    <3> QED BY <1>6, VectorConcats
  <2>4. Ahead' = fresh \o (channel \o again)
    BY <1>2, <1>11, VectorConcats DEF Ahead
  <2>5. Traffic(fresh \o (channel \o again)) = b \o Traffic(channel \o again)
    BY <1>11, <2>2, TrafficConcat
  <2> QED BY <1>2, <1>11, <2>2, <2>3, <2>4, <2>5, VectorEmpty DEF ToWrite
<1> HIDE DEF a, b, d
<1>15. /\ Elements(ToWrite)' = Elements(fresh) \cup Elements(d)
       /\ Elements(ToWrite) = Elements(a) \cup Elements(d)
       /\ MessagesOf(ToWrite)' = MessagesOf(ToWrite)
       /\ Once(ToWrite)'
  <2>1. Elements(b \o d) = Elements(fresh) \cup Elements(d)
    BY <1>6, <1>13, VectorConcat
  <2>2. Elements(a \o d) = Elements(a) \cup Elements(d)
    BY <1>6, VectorConcat
  <2>3. /\ MessagesOf(b \o d) = MessagesOf(b) \cup MessagesOf(d)
        /\ Once(b \o d) <=> Once(b) /\ Once(d) /\ MessagesOf(b) \cap MessagesOf(d) = {}
    BY <1>6, <1>13, MessagesConcat
  <2>4. MessagesOf(b) = MessagesOf(a)
    BY <1>9, <1>12, <1>13
  <2>5. Once(b \o d) /\ MessagesOf(b \o d) = MessagesOf(ToWrite)
    BY <1>8, <1>13, <2>3, <2>4
  <2>6. /\ Elements(ToWrite)' = Elements(b \o d) /\ MessagesOf(ToWrite)' = MessagesOf(b \o d)
        /\ Once(ToWrite)' <=> Once(b \o d)
    BY <1>14 DEF Elements, MessagesOf, Once
  <2> QED BY <1>5, <2>1, <2>2, <2>5, <2>6
<1>16. /\ Elements(unconfirmed)' = {} /\ Elements(unconfirmed) = {}
       /\ MessagesOf(unconfirmed)' = {} /\ Once(unconfirmed)'
       /\ Vector(unconfirmed')
  <2>1. Elements(<<>>) = {} /\ MessagesOf(<<>>) = {} /\ Once(<<>>) /\ Vector(<<>>)
    BY MessagesOne, VectorEmpty
  <2>2. /\ Elements(unconfirmed)' = Elements(<<>>) /\ MessagesOf(unconfirmed)' = MessagesOf(<<>>)
        /\ Once(unconfirmed)' <=> Once(<<>>) 
        /\ Elements(unconfirmed) = Elements(<<>>)
    BY <1>2 DEF Elements, MessagesOf, Once
  <2> QED BY <1>2, <2>1, <2>2
<1>17. /\ Records' = Elements(fresh) \cup Elements(d)
       /\ Records = Elements(a) \cup Elements(d)
       /\ \A r \in Publishes' : r \in Publishes \/ r \in Elements(fresh)
       /\ Releases' \subseteq Releases
  <2>1. Records' = Elements(fresh) \cup Elements(d) /\ Records = Elements(a) \cup Elements(d)
    BY <1>15, <1>16 DEF Records
  <2>2. \A r \in Elements(fresh) : ~IsRelease(r)
    BY <1>12 DEF IsPublish, IsRelease
  <2> QED BY <2>1, <2>2 DEF Publishes, Releases
<1>18. \A r \in Elements(fresh) : \E q \in Publishes : r.message = q.message
  BY <1>10, <1>12
<1>19. {r.message : r \in Publishes'} = {r.message : r \in Publishes}
  <2>1. /\ MessagesOf(ToWrite) = {r.message : r \in Publishes}
        /\ MessagesOf(ToWrite)' = {r.message : r \in Publishes'}
    BY <1>16 DEF MessagesOf, Publishes, Records
  <2> QED BY <1>15, <2>1
<1>20. Shape'
  <2>1. Elements(ToWrite)' \cup Elements(unconfirmed)' \subseteq PublishRecord \cup ReleaseRecord
    BY <1>1, <1>12, <1>15, <1>16
  <2> QED BY <1>1, <1>2, <1>14, <1>16, <2>1 DEF Shape, Typed
<1>21. /\ \A j : Answered(j)' <=> Answered(j)
       /\ \A j : Seen(j)' => Seen(j)
  BY <1>2, <1>17 DEF Seen, Answered, Elements
<1>22. Numbered'
  <2>1. \A r \in Records' : r.pkid \in 0..lastPkid
    BY <1>1, <1>12, <1>17 DEF Ledger, Numbered
  <2>2. Elements(incoming)' = Elements(incoming)
    BY <1>2 DEF Elements
  <2> QED BY <1>1, <1>2, <1>16, <2>1, <2>2 DEF Ledger, Numbered
<1>23. Placed'
  <2>1. \A r \in Publishes' : publishing'[r.message] = "accepted"
    BY <1>2, <1>17, <1>18 DEF Ledger, Placed
  <2> QED BY <1>15, <1>16, <2>1 DEF Placed
<1>24. PkidsKnown'
  <2>1. \A r, s \in Publishes' : r.pkid = s.pkid /\ r.pkid # NoPkid => r.message = s.message
    BY <1>1, <1>12, <1>17 DEF Ledger, PkidsKnown
  <2>2. \A r \in Publishes' : r.pkid # NoPkid /\ Seen(r.pkid)' => received'[r.message] > 0
    BY <1>1, <1>2, <1>12, <1>17, <1>21 DEF Ledger, PkidsKnown
  <2>3. \A r \in Publishes', s \in Releases' : r.pkid # s.pkid
    <3>1. \A s \in Releases : s.pkid # 0
      BY <1>1, RecordTypes
    <3> QED BY <1>12, <1>17, <3>1 DEF Ledger, PkidsKnown
  <2>4. \A r \in Elements(ToWrite)' : IsPublish(r) => ~Answered(r.pkid)'
    <3>1. ~Answered(0)
      BY DEF Answered, Ledger, Numbered
    <3>2. \A r \in Elements(d) : IsPublish(r) => ~Answered(r.pkid)
      BY <1>15 DEF Ledger, PkidsKnown
    <3> QED BY <1>12, <1>15, <1>21, <3>1, <3>2
  <2> QED BY <2>1, <2>2, <2>3, <2>4 DEF PkidsKnown
<1>25. Known' /\ ExactlyOnce'
  BY <1>2 DEF Ledger, Known, ExactlyOnce
<1> QED BY <1>2, <1>19, <1>20, <1>22, <1>23, <1>24, <1>25 DEF Ledger

-----------------------------------------------------------------------------
(* The invariant.                                                          *)

\* Every step that calls the registry calls one method of it.
LEMMA WiresKept ==
  ASSUME Vector(wires), [Next]_vars
  PROVE  Vector(wires')
<1> DEFINE Method == \/ UNCHANGED wires
                     \/ \E f, q, offers : Join(f, q, offers)
                     \/ \E x : Leave(x)
                     \/ \E f, accepted : Identified(f, accepted)
                     \/ \E offers : Resubscribing(offers)
                     \/ End
<1>1. ASSUME NEW o \in Opens, OpenCheck(o) \/ OpenJoin(o) \/ OpenSend(o) \/ Drop(o) PROVE Method
  BY <1>1 DEF OpenCheck, OpenJoin, OpenSend, Drop, registryVars
<1>2. ASSUME \/ \E m \in Messages : PublishCheck(m) \/ PublishQueue(m)
             \/ Shutdown \/ ShutdownQueue \/ Write \/ ReceiveConfirmation \/ Sever \/ Closing
             \/ EndRecords \/ Exit \/ UNCHANGED vars
      PROVE  Method
  BY <1>2 DEF PublishCheck, PublishQueue, Shutdown, ShutdownQueue, Write, WriteSubscribe,
              WriteUnsubscribe, WritePublish, WriteRelease, WriteDisconnect,
              ReceiveConfirmation, Sever, Closing, EndRecords, Exit, vars, registryVars
<1>3. ASSUME ReceiveSuback PROVE Method
  <2>1. \/ UNCHANGED wires
        \/ \E o : Leave(member[o])
        \/ \E f : Identified(f, Head(incoming).accepted)
    BY <1>3 DEF ReceiveSuback, registryVars
  <2> QED BY <2>1
<1>4. ASSUME Lose \/ DialFails PROVE Method
  BY <1>4 DEF Lose, DialFails, GiveUp, registryVars
<1>5. ASSUME NEW present, NEW identifiers, Connack(present, identifiers) PROVE Method
  BY <1>5 DEF Connack, registryVars
<1>6. Method
  BY <1>1, <1>2, <1>3, <1>4, <1>5 DEF Next
<1> QED BY <1>6, WiresStep

\* A session begins with nothing accepted.
LEMMA SInvInit == Init => SInv
<1> SUFFICES ASSUME Init PROVE SInv
  OBVIOUS
<1>1. /\ parked = <<>> /\ setAside = <<>> /\ channel = <<>> /\ unconfirmed = <<>>
      /\ incoming = <<>> /\ wires = <<>> /\ task = "up" /\ lastPkid = 0 /\ unreleased = {}
      /\ received = [m \in Messages |-> 0] /\ publishing = [m \in Messages |-> "idle"]
  BY DEF Init, RegistryInit
<1>2. Vector(<<>>) /\ Elements(<<>>) = {} /\ MessagesOf(<<>>) = {} /\ Once(<<>>)
  BY VectorEmpty, MessagesOne
<1>3. ToWrite = <<>>
  <2>1. <<>> \o <<>> = <<>>
    BY <1>2, VectorConcats
  <2>2. Ahead = <<>>
    BY <1>1, <2>1 DEF Ahead
  <2>3. Vector(Traffic(<<>>)) /\ Elements(Traffic(<<>>)) = {}
    BY <1>2, TrafficProperties
  <2> DEFINE t == Traffic(<<>>)
  <2>4. Vector(t) /\ Elements(t) = {}
    BY <2>3
  <2> HIDE DEF t
  <2>5. t = <<>>
    BY <2>4, VectorNone
  <2> QED BY <2>2, <2>5 DEF ToWrite, t
<1>4. Elements(ToWrite) = {} /\ Elements(unconfirmed) = {} /\ Elements(incoming) = {}
  BY <1>1, <1>2, <1>3
<1>5. Records = {} /\ Publishes = {} /\ Releases = {}
  BY <1>4 DEF Records, Publishes, Releases
<1>6. Shape
  BY <1>1, <1>2, <1>4 DEF Shape
<1>7. Numbered /\ Placed /\ PkidsKnown
  BY <1>1, <1>2, <1>3, <1>4, <1>5 DEF Numbered, Placed, PkidsKnown
<1>8. Known /\ ExactlyOnce
  BY <1>1, <1>5 DEF Known, ExactlyOnce
<1> QED BY <1>1, <1>2, <1>6, <1>7, <1>8 DEF SInv, Ledger

\* Each step keeps the shape, the ledger and the table's form.
LEMMA SInvStep == SInv /\ [Next]_vars => SInv'
<1> SUFFICES ASSUME SInv, [Next]_vars PROVE SInv'
  OBVIOUS
<1>1. Shape /\ Ledger /\ Vector(wires) /\ Typed
  BY ShapeTyped DEF SInv
<1>2. Vector(wires')
  BY <1>1, WiresKept
<1>3. ASSUME Shape', Still PROVE SInv'
  BY <1>1, <1>2, <1>3, StillLedger DEF SInv
<1>4. ASSUME Quiet PROVE SInv'
  BY <1>1, <1>3, <1>4, QuietStill
<1>5. CASE \/ \E o \in Opens : OpenCheck(o) \/ OpenJoin(o) \/ OpenSend(o) \/ Drop(o)
           \/ \E m \in Messages : PublishCheck(m)
           \/ Shutdown \/ ShutdownQueue
  BY <1>1, <1>4, <1>5, CallersQuiet
<1>6. CASE \E m \in Messages : PublishQueue(m)
  <2>1. PICK m \in Messages : PublishQueue(m)
    BY <1>6
  <2>2. CASE UNCHANGED channel
    BY <1>1, <1>4, <2>1, <2>2, TaskQuiet
  <2>3. CASE channel' = Append(channel, Publish(m))
    BY <1>1, <1>2, <2>1, <2>3, QueuedLedger DEF SInv
  <2> QED BY <2>1, <2>2, <2>3 DEF PublishQueue
<1>7. CASE Sever \/ DialFails \/ Closing \/ EndRecords \/ Exit \/ UNCHANGED vars
  BY <1>1, <1>4, <1>7, TaskQuiet
<1>8. CASE WritePublish
  BY <1>1, <1>2, <1>8, WrittenLedger DEF SInv
<1>9. CASE WriteRelease
  BY <1>1, <1>2, <1>9, ReleasedLedger DEF SInv
<1>10. CASE WriteSubscribe \/ WriteUnsubscribe \/ WriteDisconnect \/ ReceiveSuback
  BY <1>1, <1>3, <1>10, OthersStill
<1>11. CASE ReceiveConfirmation
  BY <1>1, <1>2, <1>11, ConfirmedLedger DEF SInv
<1>12. CASE Lose
  BY <1>1, <1>2, <1>12, LostLedger DEF SInv
<1>13. ASSUME NEW identifiers \in Offers, Connack(TRUE, identifiers) PROVE SInv'
  BY <1>1, <1>3, <1>13, OthersStill
<1>14. ASSUME NEW identifiers \in Offers, Connack(FALSE, identifiers) PROVE SInv'
  BY <1>1, <1>2, <1>14, RenewedLedger DEF SInv
<1> QED
  BY <1>5, <1>6, <1>7, <1>8, <1>9, <1>10, <1>11, <1>12, <1>13, <1>14 DEF Next, Write

\* In a session the server never lost, a publish at level 2 reaches it once, however
\* often the connection is lost and the publish sent again: ExactlyOnce of Session.tla
\* for every number of publishes, losses and resumed sessions.
THEOREM LevelTwoOnce == Spec => []ExactlyOnce
<1>1. Init => SInv
  BY SInvInit
<1>2. SInv /\ [Next]_vars => SInv'
  BY SInvStep
<1>3. SInv => ExactlyOnce
  BY DEF SInv, Ledger
<1> QED BY <1>1, <1>2, <1>3, PTL DEF Spec

-----------------------------------------------------------------------------
(* The outbox.                                                             *)

\* A message is kept while a record of it is somewhere.
KeptByRecord == \A m : Kept(m) <=> \E r \in Publishes : r.message = m

\* A publish is kept when a record of it is somewhere.
LEMMA KeptRecord == Shape => KeptByRecord
<1> SUFFICES ASSUME Shape, NEW m PROVE Kept(m) <=> \E r \in Publishes : r.message = m
  BY DEF KeptByRecord
<1> DEFINE s == setAside \o parked \o unconfirmed \o channel
<1>1. Elements(s) = Elements(setAside) \cup Elements(parked) \cup Elements(unconfirmed)
                      \cup Elements(channel)
  <2>1. /\ Vector(setAside \o parked)
        /\ Elements(setAside \o parked) = Elements(setAside) \cup Elements(parked)
    BY VectorConcat DEF Shape
  <2> DEFINE t == setAside \o parked
  <2> HIDE DEF t
  <2>2. /\ Vector(t \o unconfirmed)
        /\ Elements(t \o unconfirmed) = Elements(t) \cup Elements(unconfirmed)
    BY <2>1, VectorConcat DEF Shape, t
  <2> DEFINE u == t \o unconfirmed
  <2> HIDE DEF u
  <2>3. Elements(u \o channel) = Elements(u) \cup Elements(channel)
    BY <2>2, VectorConcat DEF Shape, u
  <2> QED BY <2>1, <2>2, <2>3 DEF t, u
<1>2. Elements(Ahead) = Elements(setAside) \cup Elements(parked) \cup Elements(channel)
  <2>1. /\ Vector(parked \o setAside)
        /\ Elements(parked \o setAside) = Elements(parked) \cup Elements(setAside)
    BY VectorConcat DEF Shape
  <2> DEFINE t == parked \o setAside
  <2> HIDE DEF t
  <2>2. Elements(t \o channel) = Elements(t) \cup Elements(channel)
    BY <2>1, VectorConcat DEF Shape, t
  <2> QED BY <2>1, <2>2 DEF t, Ahead
<1>3. Kept(m) <=> \E r \in Elements(s) : r.kind = "publish" /\ r.message = m
  BY DEF Kept, Elements
<1>4. Elements(ToWrite) = {r \in Elements(Ahead) : IsTraffic(r)}
  BY ShapeTyped
<1> HIDE DEF s
<1>5. \A r : r \in Publishes <=> r \in Elements(s) /\ r.kind = "publish"
  BY <1>1, <1>2, <1>4 DEF Publishes, Records, IsPublish, IsTraffic
<1> QED BY <1>3, <1>5

Statuses == [m \in Messages |-> Status(m)]

\* Where a message is depends on how far its publish is and on whether a record is left.
Held == {r.message : r \in Publishes}

StatusByRecord ==
  \A m \in Messages :
    /\ publishing[m] \in {"idle", "queuing"} => Statuses[m] = "idle"
    /\ publishing[m] = "refused" => Statuses[m] = "refused"
    /\ publishing[m] = "accepted" =>
         Statuses[m] = IF m \in Held THEN "accepted" ELSE "confirmed"

\* What the outbox sees of a publish follows from how far its caller is and from where its record is.
LEMMA StatusRecord == Shape => StatusByRecord
<1> SUFFICES ASSUME Shape, NEW m \in Messages
             PROVE  /\ publishing[m] \in {"idle", "queuing"} => Statuses[m] = "idle"
                    /\ publishing[m] = "refused" => Statuses[m] = "refused"
                    /\ publishing[m] = "accepted" =>
                         Statuses[m] = IF m \in Held THEN "accepted" ELSE "confirmed"
  BY DEF StatusByRecord
<1>1. Kept(m) <=> m \in Held
  BY KeptRecord DEF KeptByRecord, Held
<1>2. Statuses[m] = Status(m)
  BY DEF Statuses
<1> QED BY <1>1, <1>2 DEF Status

\* And so it does after a step.
LEMMA StatusRecordNext == Shape' => StatusByRecord'
  BY StatusRecord, PTL

\* The same publishes, the same statuses.
LEMMA StatusSame ==
  ASSUME Shape, Shape', NEW m \in Messages, publishing'[m] = publishing[m],
         m \in Held' <=> m \in Held
  PROVE  Statuses'[m] = Statuses[m]
<1>1. publishing[m] \in {"idle", "queuing", "accepted", "refused"}
  BY DEF Shape
<1>2. StatusByRecord /\ StatusByRecord'
  BY StatusRecord, StatusRecordNext
<1> QED BY <1>1, <1>2 DEF StatusByRecord

\* The connection task does not come back.
LEMMA OverStays ==
  ASSUME [Next]_vars, Over
  PROVE  Over'
<1>1. ASSUME NEW o \in Opens, OpenCheck(o) \/ OpenJoin(o) \/ OpenSend(o) \/ Drop(o) PROVE task' = task
  BY <1>1 DEF OpenCheck, OpenJoin, OpenSend, Drop, taskVars
<1>2. ASSUME \/ \E m \in Messages : PublishCheck(m) \/ PublishQueue(m)
             \/ Shutdown \/ ShutdownQueue \/ Sever \/ UNCHANGED vars
      PROVE task' = task
  BY <1>2 DEF PublishCheck, PublishQueue, Shutdown, ShutdownQueue, Sever, taskVars, vars
<1>3. ASSUME Write \/ ReceiveSuback \/ ReceiveConfirmation PROVE FALSE
  BY <1>3 DEF Write, WriteSubscribe, WriteUnsubscribe, WritePublish, WriteRelease,
              WriteDisconnect, ReceiveSuback, ReceiveConfirmation, Up, Reads, Connected, Over
<1>4. ASSUME \/ Lose \/ DialFails \/ Closing
             \/ \E present \in BOOLEAN, identifiers \in Offers : Connack(present, identifiers)
      PROVE FALSE
  BY <1>4 DEF Lose, DialFails, Closing, Connack, Over
<1>5. CASE EndRecords \/ Exit
  BY <1>5 DEF EndRecords, Exit, Over
<1>6. CASE task' = task
  BY <1>6 DEF Over
<1> QED BY <1>1, <1>2, <1>3, <1>4, <1>5, <1>6 DEF Next

BoxVars == <<Statuses, received, Over>>

\* A step that changes no publish is none of the outbox, or the end of the task.
LEMMA StepOutside ==
  ASSUME Shape, Shape', [Next]_vars, publishing' = publishing, received' = received, Held' = Held
  PROVE  Box!Next \/ UNCHANGED BoxVars
<1>1. Statuses' = Statuses
  <2>1. \A m \in Messages : Statuses'[m] = Statuses[m]
    BY StatusSame
  <2> QED BY <2>1 DEF Statuses
<1>2. CASE Over' <=> Over
  BY <1>1, <1>2 DEF BoxVars, Over
<1>3. CASE ~Over /\ Over'
  BY <1>1, <1>3 DEF Box!Next, Box!Stop, Statuses, Over
<1> QED BY <1>2, <1>3, OverStays

\* A step that changes one message's status.
LEMMA StepMoves ==
  ASSUME Shape, Shape', NEW m \in Messages, NEW from, NEW to,
         Statuses[m] = from, Statuses'[m] = to,
         \A n \in Messages \ {m} : publishing'[n] = publishing[n] /\ (n \in Held' <=> n \in Held),
         received' = received, task' = task
  PROVE  Box!Move(m, from, to)
<1>1. \A n \in Messages \ {m} : Statuses'[n] = Statuses[n]
  BY StatusSame
<1>2. Statuses' = [Statuses EXCEPT ![m] = to]
  BY <1>1 DEF Statuses
<1> QED BY <1>2 DEF Box!Move, Statuses, Over

\* Every step is one of the outbox, or one it does not see.
LEMMA OutboxStep == SInv /\ SInv' /\ [Next]_vars => Box!Next \/ UNCHANGED BoxVars
<1> SUFFICES ASSUME SInv, SInv', [Next]_vars PROVE Box!Next \/ UNCHANGED BoxVars
  OBVIOUS
<1>1. /\ Shape /\ Ledger /\ Vector(wires) /\ Typed /\ Shape'
      /\ StatusByRecord /\ StatusByRecord'
  BY ShapeTyped, StatusRecord, StatusRecordNext DEF SInv
<1>2. publishing \in [Messages -> {"idle", "queuing", "accepted", "refused"}]
  BY <1>1 DEF Shape
<1>3. ASSUME publishing' = publishing, received' = received, Held' = Held
      PROVE  Box!Next \/ UNCHANGED BoxVars
  BY <1>1, <1>3, StepOutside
<1>4. ASSUME Still PROVE received' = received /\ Held' = Held
  <2>1. Publishes' = Publishes
    BY <1>4 DEF Still, Publishes, Records, Elements
  <2> QED BY <1>4, <2>1 DEF Still, Held
<1>5. ASSUME Quiet PROVE received' = received /\ Held' = Held
  BY <1>1, <1>4, <1>5, QuietStill
<1>6. CASE \/ \E o \in Opens : OpenCheck(o) \/ OpenJoin(o) \/ OpenSend(o) \/ Drop(o)
           \/ Shutdown \/ ShutdownQueue
  <2>1. Quiet
    BY <1>1, <1>6, CallersQuiet
  <2>2. publishing' = publishing
    BY <1>6 DEF OpenCheck, OpenJoin, OpenSend, Drop, Shutdown, ShutdownQueue
  <2> QED BY <1>3, <1>5, <2>1, <2>2
<1>7. CASE Sever \/ DialFails \/ Closing \/ EndRecords \/ Exit \/ UNCHANGED vars
  <2>1. Quiet
    BY <1>1, <1>7, TaskQuiet
  <2>2. publishing' = publishing
    BY <1>7 DEF Sever, DialFails, Closing, EndRecords, Exit, callerVars, vars
  <2> QED BY <1>3, <1>5, <2>1, <2>2
\* A publish that is taken on or refused moves from idle, and changes no record.
<1>8. ASSUME NEW m \in Messages, Quiet, task' = task, publishing[m] \in {"idle", "queuing"},
             publishing' = [publishing EXCEPT ![m] = "queuing"]
               \/ publishing' = [publishing EXCEPT ![m] = "refused"]
      PROVE  Box!Next \/ UNCHANGED BoxVars
  <2>1. received' = received /\ Held' = Held
    BY <1>5, <1>8
  <2>2. Statuses[m] = "idle"
    BY <1>1, <1>8 DEF StatusByRecord
  <2>3. \A n \in Messages \ {m} : publishing'[n] = publishing[n]
    BY <1>2, <1>8
  <2>4. publishing'[m] \in {"queuing", "refused"}
    BY <1>2, <1>8
  <2>5. CASE publishing'[m] = "queuing"
    <3>1. Statuses'[m] = "idle"
      BY <1>1, <2>5 DEF StatusByRecord
    <3>2. \A n \in Messages : Statuses'[n] = Statuses[n]
      BY <1>1, <2>1, <2>2, <2>3, <3>1, StatusSame
    <3>3. Statuses' = Statuses
      BY <3>2 DEF Statuses
    <3> QED BY <1>8, <2>1, <3>3 DEF BoxVars, Over
  <2>6. CASE publishing'[m] = "refused"
    <3>1. Statuses'[m] = "refused"
      BY <1>1, <2>6 DEF StatusByRecord
    <3>2. Box!Move(m, "idle", "refused")
      BY <1>1, <1>8, <2>1, <2>2, <2>3, <3>1, StepMoves
    <3> QED BY <3>2 DEF Box!Next
  <2> QED BY <2>4, <2>5, <2>6
<1>9. CASE \E m \in Messages : PublishCheck(m)
  <2>1. PICK m \in Messages : PublishCheck(m)
    BY <1>9
  <2>2. Quiet
    BY <1>1, <1>9, CallersQuiet
  <2>3. task' = task /\ publishing[m] = "idle"
        /\ (\/ publishing' = [publishing EXCEPT ![m] = "queuing"]
            \/ publishing' = [publishing EXCEPT ![m] = "refused"])
    BY <2>1 DEF PublishCheck, taskVars
  <2> QED BY <1>8, <2>2, <2>3
<1>10. CASE \E m \in Messages : PublishQueue(m)
  <2>1. PICK m \in Messages : PublishQueue(m)
    BY <1>10
  <2>2. task' = task /\ publishing[m] = "queuing"
    BY <2>1 DEF PublishQueue, taskVars
  <2>3. CASE UNCHANGED channel
    <3>1. Quiet
      BY <1>1, <2>1, <2>3, TaskQuiet
    <3>2. \/ publishing' = [publishing EXCEPT ![m] = "refused"]
          \/ publishing' = [publishing EXCEPT ![m] = "accepted"]
      BY <2>1 DEF PublishQueue
    <3>3. ~(publishing' = [publishing EXCEPT ![m] = "accepted"])
      BY <1>2, <2>2, <3>1 DEF Quiet
    <3> QED BY <1>8, <2>2, <3>1, <3>2, <3>3
  <2>4. CASE channel' = Append(channel, Publish(m))
    <3>1. /\ Publishes' = Publishes \cup {Publish(m)} /\ received' = received
          /\ publishing' = [publishing EXCEPT ![m] = "accepted"]
      BY <1>1, <2>1, <2>4, QueuedLedger
    <3>2. Held' = Held \cup {m}
      <4> DEFINE p == Publish(m)
      <4>1. p.message = m
        BY DEF Publish
      <4>2. Publishes' = Publishes \cup {p}
        BY <3>1
      <4> HIDE DEF p
      <4> QED BY <4>1, <4>2 DEF Held
    <3>3. Statuses[m] = "idle" /\ Statuses'[m] = "accepted"
      BY <1>1, <1>2, <2>2, <3>1, <3>2 DEF StatusByRecord
    <3>4. \A n \in Messages \ {m} : publishing'[n] = publishing[n] /\ (n \in Held' <=> n \in Held)
      BY <1>2, <3>1, <3>2
    <3>5. Box!Move(m, "idle", "accepted")
      BY <1>1, <2>2, <3>1, <3>3, <3>4, StepMoves
    <3> QED BY <3>5 DEF Box!Next
  <2> QED BY <2>1, <2>3, <2>4 DEF PublishQueue
<1>11. CASE WriteSubscribe \/ WriteUnsubscribe \/ WriteDisconnect \/ ReceiveSuback
  <2>1. Still
    BY <1>1, <1>11, OthersStill
  <2>2. publishing' = publishing
    BY <1>11 DEF WriteSubscribe, WriteUnsubscribe, WriteDisconnect, ReceiveSuback, callerVars
  <2> QED BY <1>3, <1>4, <2>1, <2>2
<1>12. CASE WriteRelease
  BY <1>1, <1>3, <1>12, ReleasedLedger DEF Held
<1>13. CASE Lose
  BY <1>1, <1>3, <1>13, LostLedger DEF Held
<1>14. ASSUME NEW identifiers \in Offers, Connack(FALSE, identifiers)
       PROVE  Box!Next \/ UNCHANGED BoxVars
  BY <1>1, <1>3, <1>14, RenewedLedger DEF Held
<1>15. ASSUME NEW identifiers \in Offers, Connack(TRUE, identifiers)
       PROVE  Box!Next \/ UNCHANGED BoxVars
  <2>1. Still
    BY <1>1, <1>15, OthersStill
  <2>2. publishing' = publishing
    BY <1>15 DEF Connack, callerVars
  <2> QED BY <1>3, <1>4, <2>1, <2>2
<1>16. CASE WritePublish
  <2>1. /\ \E r \in Publishes, p \in PublishRecord :
             /\ r.message = p.message
             /\ Publishes' = (Publishes \ {r}) \cup {p}
             /\ \/ received' = received
                \/ received' = [received EXCEPT ![p.message] = @ + 1]
        /\ Connected /\ task' = task /\ publishing' = publishing
    BY <1>1, <1>16, WrittenLedger
  <2>2. PICK r \in Publishes, p \in PublishRecord :
             /\ r.message = p.message
             /\ Publishes' = (Publishes \ {r}) \cup {p}
             /\ \/ received' = received
                \/ received' = [received EXCEPT ![p.message] = @ + 1]
    BY <2>1
  <2>3. Held' = Held
    BY <2>2 DEF Held
  <2>4. CASE received' = received
    BY <1>3, <2>1, <2>3, <2>4
  <2>5. CASE received' = [received EXCEPT ![p.message] = @ + 1]
    <3>1. r.message \in Messages /\ publishing[r.message] = "accepted" /\ r.message \in Held
      BY <1>1, <2>2, RecordTypes DEF Ledger, Placed, Held
    <3>2. Statuses[r.message] = "accepted"
      BY <1>1, <3>1 DEF StatusByRecord
    <3>3. \A n \in Messages : Statuses'[n] = Statuses[n]
      BY <1>1, <2>1, <2>3, StatusSame
    <3>4. Statuses' = Statuses
      BY <3>3 DEF Statuses
    <3>5. ~Over /\ (Over' <=> Over)
      BY <2>1 DEF Over, Connected
    <3>6. Box!Receive(r.message)
      BY <2>2, <2>5, <3>2, <3>4, <3>5 DEF Box!Receive, Statuses, Over
    <3> QED BY <3>1, <3>6 DEF Box!Next
  <2> QED BY <2>2, <2>4, <2>5
<1>17. CASE ReceiveConfirmation
  <2>1. /\ received' = received /\ publishing' = publishing
        /\ Connected /\ task' = task
        /\ \E k : /\ Seen(k) /\ k # NoPkid
                  /\ Publishes' = {q \in Publishes : q.pkid # k}
    BY <1>1, <1>17, ConfirmedLedger
  <2>2. PICK k : /\ Seen(k) /\ k # NoPkid
                 /\ Publishes' = {q \in Publishes : q.pkid # k}
    BY <2>1
  <2>3. CASE Held' = Held
    BY <1>3, <2>1, <2>3
  <2>4. CASE Held' # Held
    <3>1. PICK r \in Publishes : r.pkid = k
      BY <2>2, <2>4 DEF Held
    <3> DEFINE m == r.message
    <3>2. m \in Messages /\ m \in Held /\ publishing[m] = "accepted" /\ received[m] > 0
      <4>1. Seen(r.pkid) /\ r.pkid # NoPkid
        BY <2>2, <3>1
      <4> QED BY <1>1, <4>1, RecordTypes DEF Ledger, Placed, PkidsKnown, Held
    <3>3. \A q \in Publishes : q.pkid = k => q.message = m
      BY <1>1, <2>2, <3>1 DEF Ledger, PkidsKnown
    <3> HIDE DEF m
    <3>4. \A n : n # m => (n \in Held' <=> n \in Held)
      BY <2>2, <3>3 DEF Held
    <3>5. m \notin Held'
      <4>1. Held' \subseteq Held
        BY <2>2 DEF Held
      <4> QED BY <2>4, <3>2, <3>4, <4>1
    <3>6. Statuses[m] = "accepted" /\ Statuses'[m] = "confirmed"
      BY <1>1, <2>1, <3>2, <3>5 DEF StatusByRecord
    <3>7. \A n \in Messages \ {m} : publishing'[n] = publishing[n] /\ (n \in Held' <=> n \in Held)
      BY <2>1, <3>4
    <3>8. Box!Move(m, "accepted", "confirmed")
      BY <1>1, <2>1, <3>2, <3>6, <3>7, StepMoves
    <3>9. ~Over
      BY <2>1 DEF Over, Connected
    <3>10. Box!Confirm(m)
      BY <3>2, <3>8, <3>9 DEF Box!Confirm, Over
    <3> QED BY <3>2, <3>10 DEF Box!Next
  <2> QED BY <2>3, <2>4
<1> QED
  BY <1>6, <1>7, <1>9, <1>10, <1>11, <1>12, <1>13, <1>14, <1>15, <1>16, <1>17 DEF Next, Write

\* Nothing was published yet.
LEMMA OutboxInit == Init => Box!Init
<1> SUFFICES ASSUME Init PROVE Box!Init
  OBVIOUS
<1>1. /\ received = [m \in Messages |-> 0] /\ publishing = [m \in Messages |-> "idle"]
      /\ task = "up"
  BY DEF Init
<1>2. \A m \in Messages : Status(m) = "idle"
  BY <1>1 DEF Status
<1> QED BY <1>1, <1>2 DEF Box!Init, Over

\* A publish that returned Ok is let go of only once the server has it: the session
\* implements the outbox (KeepsPublishes of Session.tla), for every number of
\* publishes, losses and sessions, until the task ends.
THEOREM OutboxImplemented == Spec => KeepsPublishes
<1>1. Init => SInv /\ Box!Init
  BY SInvInit, OutboxInit
<1>2. SInv /\ [Next]_vars => SInv'
  BY SInvStep
<1>3. SInv /\ SInv' /\ [Next]_vars => [Box!Next]_BoxVars
  BY OutboxStep
<1> QED BY <1>1, <1>2, <1>3, PTL DEF Spec, KeepsPublishes, Box!Spec, BoxVars, Statuses

-----------------------------------------------------------------------------
(* The records.                                                            *)

AwaitedIn(s) == [i \in DOMAIN s |-> s[i].awaiting]

\* Whom the subscribes of s are sent for, and who waits in s for a packet id, both in
\* their order.
SentFor(s)    == AwaitedIn(Select(s, IsSubscribe))
WaitingIn(s) == AwaitedIn(Select(s, Unnumbered))

IsRecord(r) == DOMAIN r = {"awaiting", "pkid", "answers"}

\* The records are records, no answer names no packet id, and the records match the
\* subscribes still to be written where they are known to.
InStep(known) ==
  /\ Vector(pending)
  /\ \A r \in Elements(pending) : IsRecord(r)
  /\ \A a \in Elements(incoming) : a.kind = "suback" => a.pkid # NoPkid
  /\ known => SentFor(Ahead) = WaitingIn(pending)

\* They are as long as the server keeps the session.
RInv == InStep(FALSE) /\ (~renewed /\ ~Over => InStep(TRUE))

\* Whom the records of a sequence are for, one by one.
LEMMA AwaitedProperties ==
  /\ \A s : Vector(s) => /\ Vector(AwaitedIn(s)) /\ Len(AwaitedIn(s)) = Len(s)
                         /\ DOMAIN AwaitedIn(s) = DOMAIN s
                         /\ \A i \in DOMAIN s : AwaitedIn(s)[i] = s[i].awaiting
  /\ \A e : AwaitedIn(<<e>>) = <<e.awaiting>>
  /\ AwaitedIn(<<>>) = <<>>
<1>1. ASSUME NEW s, Vector(s)
      PROVE  /\ Vector(AwaitedIn(s)) /\ Len(AwaitedIn(s)) = Len(s)
             /\ DOMAIN AwaitedIn(s) = DOMAIN s
             /\ \A i \in DOMAIN s : AwaitedIn(s)[i] = s[i].awaiting
  <2> DEFINE w == AwaitedIn(s)
             S == {s[i].awaiting : i \in DOMAIN s}
  <2>1. Len(s) \in Nat /\ DOMAIN s = 1..Len(s)
    BY <1>1, VectorPlaces
  <2>2. w \in [1..Len(s) -> S] /\ DOMAIN w = DOMAIN s
    BY <2>1 DEF AwaitedIn
  <2>3. \A i \in DOMAIN s : w[i] = s[i].awaiting
    BY DEF AwaitedIn
  <2> HIDE DEF w, S
  <2>4. w \in Seq(S) /\ Len(w) = Len(s)
    BY <2>1, <2>2, FunctionIsSeq
  <2>5. Vector(w)
    BY <2>4, VectorOf
  <2> QED BY <2>2, <2>3, <2>4, <2>5 DEF w
<1>2. ASSUME NEW e PROVE AwaitedIn(<<e>>) = <<e.awaiting>>
  BY DEF AwaitedIn
<1>3. AwaitedIn(<<>>) = <<>>
  BY DEF AwaitedIn
<1> QED BY <1>1, <1>2, <1>3

\* And of one sequence after another.
LEMMA AwaitedConcat ==
  ASSUME NEW s, Vector(s), NEW t, Vector(t)
  PROVE  AwaitedIn(s \o t) = AwaitedIn(s) \o AwaitedIn(t)
<1> DEFINE u == s \o t
           x == AwaitedIn(u)
           v == AwaitedIn(s)
           w == AwaitedIn(t)
           y == v \o w
<1>1. /\ Vector(u) /\ Len(u) = Len(s) + Len(t)
      /\ \A i \in DOMAIN u : u[i] = IF i <= Len(s) THEN s[i] ELSE t[i - Len(s)]
  BY VectorConcat
<1> HIDE DEF u
<1>2. /\ Vector(x) /\ Len(x) = Len(u) /\ DOMAIN x = DOMAIN u
      /\ \A i \in DOMAIN u : x[i] = u[i].awaiting
  BY <1>1, AwaitedProperties
<1>3. /\ Vector(v) /\ Len(v) = Len(s) /\ \A i \in DOMAIN s : v[i] = s[i].awaiting
      /\ Vector(w) /\ Len(w) = Len(t) /\ \A i \in DOMAIN t : w[i] = t[i].awaiting
  BY AwaitedProperties
<1> HIDE DEF x, v, w
<1>4. /\ Vector(y) /\ Len(y) = Len(s) + Len(t)
      /\ \A i \in DOMAIN y : y[i] = IF i <= Len(s) THEN v[i] ELSE w[i - Len(s)]
  BY <1>3, VectorConcat
<1> HIDE DEF y
<1>5. /\ Len(s) \in Nat /\ Len(t) \in Nat /\ DOMAIN s = 1..Len(s) /\ DOMAIN t = 1..Len(t)
      /\ DOMAIN u = 1..(Len(s) + Len(t)) /\ DOMAIN y = 1..(Len(s) + Len(t))
  BY <1>1, <1>4, VectorPlaces
<1>6. ASSUME NEW i \in DOMAIN x PROVE x[i] = y[i]
  <2>1. CASE i <= Len(s)
    <3>1. i \in DOMAIN s
      BY <1>2, <1>5, <2>1
    <3> QED BY <1>1, <1>2, <1>3, <1>4, <1>5, <2>1, <3>1
  <2>2. CASE ~(i <= Len(s))
    <3>1. i - Len(s) \in DOMAIN t
      BY <1>2, <1>5, <2>2
    <3> QED BY <1>1, <1>2, <1>3, <1>4, <1>5, <2>2, <3>1
  <2> QED BY <2>1, <2>2
<1>7. x = y
  BY <1>1, <1>2, <1>4, <1>6, VectorSame
<1> QED BY <1>7 DEF x, y, u, v, w

\* Whom the subscribes of a sequence are sent for.
LEMMA SentForProperties ==
  /\ \A s : Vector(s) => Vector(Select(s, IsSubscribe)) /\ Vector(SentFor(s))
  /\ \A s, t : Vector(s) /\ Vector(t) => SentFor(s \o t) = SentFor(s) \o SentFor(t)
  /\ \A e : SentFor(<<e>>) = IF IsSubscribe(e) THEN <<e.awaiting>> ELSE <<>>
  /\ \A s : Vector(s) /\ (\A r \in Elements(s) : ~IsSubscribe(r)) => SentFor(s) = <<>>
<1>1. ASSUME NEW s, NEW S, Elements(s) \subseteq S
      PROVE  Select(s, IsSubscribe) = Keep(s, {r \in S : IsSubscribe(r)})
  BY <1>1 DEF Select, Keep, Passing, Elements
<1>2. ASSUME NEW s, Vector(s) PROVE Vector(Select(s, IsSubscribe))
  <2> DEFINE K == {r \in Elements(s) : IsSubscribe(r)}
  <2>1. Select(s, IsSubscribe) = Keep(s, K)
    BY <1>1
  <2> HIDE DEF K
  <2> QED BY <1>2, <2>1, VectorKeep
<1>3. ASSUME NEW s, Vector(s) PROVE Vector(SentFor(s))
  <2> DEFINE k == Select(s, IsSubscribe)
  <2>1. Vector(k)
    BY <1>2, <1>3
  <2> HIDE DEF k
  <2>2. Vector(AwaitedIn(k))
    BY <2>1, AwaitedProperties
  <2> QED BY <2>2 DEF SentFor, k
<1>4. ASSUME NEW s, NEW t, Vector(s), Vector(t) PROVE SentFor(s \o t) = SentFor(s) \o SentFor(t)
  <2> DEFINE S == Elements(s) \cup Elements(t)
             K == {r \in S : IsSubscribe(r)}
             j == Select(s, IsSubscribe)
             k == Select(t, IsSubscribe)
  <2>1. Elements(s \o t) \subseteq S
    BY <1>4, VectorConcat
  <2>2. j = Keep(s, K) /\ k = Keep(t, K) /\ Select(s \o t, IsSubscribe) = Keep(s \o t, K)
    BY <1>1, <2>1
  <2>3. Vector(j) /\ Vector(k)
    BY <1>2, <1>4
  <2> HIDE DEF S, K, j, k
  <2>4. Keep(s \o t, K) = Keep(s, K) \o Keep(t, K)
    BY <1>4, VectorKeeps
  <2>5. AwaitedIn(j \o k) = AwaitedIn(j) \o AwaitedIn(k)
    BY <2>3, AwaitedConcat
  <2> QED BY <2>2, <2>4, <2>5 DEF SentFor, j, k
<1>5. ASSUME NEW e PROVE SentFor(<<e>>) = IF IsSubscribe(e) THEN <<e.awaiting>> ELSE <<>>
  <2> DEFINE K == {r \in {e} : IsSubscribe(r)}
             one == <<e>>
  <2>1. Elements(one) = {e}
    BY VectorEmpty, VectorAppend
  <2>2. Select(one, IsSubscribe) = Keep(one, K)
    BY <1>1, <2>1
  <2>3. e \in K <=> IsSubscribe(e)
    OBVIOUS
  <2> HIDE DEF K
  <2>4. Keep(one, K) = IF e \in K THEN one ELSE <<>>
    BY VectorKeeps
  <2>5. AwaitedIn(one) = <<e.awaiting>> /\ AwaitedIn(<<>>) = <<>>
    BY AwaitedProperties
  <2> HIDE DEF one
  <2>6. SentFor(one) = IF IsSubscribe(e) THEN <<e.awaiting>> ELSE <<>>
    BY <2>2, <2>3, <2>4, <2>5 DEF SentFor
  <2> QED BY <2>6 DEF one
<1>6. ASSUME NEW s, Vector(s), \A r \in Elements(s) : ~IsSubscribe(r) PROVE SentFor(s) = <<>>
  <2> DEFINE K == {r \in Elements(s) : IsSubscribe(r)}
  <2>1. Select(s, IsSubscribe) = Keep(s, K)
    BY <1>1
  <2>2. Elements(s) \cap K = {}
    BY <1>6
  <2> HIDE DEF K
  <2>3. Keep(s, K) = <<>>
    BY <1>6, <2>2, VectorKeeps
  <2> QED BY <2>1, <2>3, AwaitedProperties DEF SentFor
<1> QED BY <1>2, <1>3, <1>4, <1>5, <1>6

\* Who waits in a sequence of records for a packet id.
LEMMA WaitingInProperties ==
  /\ \A s : Vector(s) => Vector(Select(s, Unnumbered)) /\ Vector(WaitingIn(s))
  /\ \A s, t : Vector(s) /\ Vector(t) => WaitingIn(s \o t) = WaitingIn(s) \o WaitingIn(t)
  /\ \A e : WaitingIn(<<e>>) = IF Unnumbered(e) THEN <<e.awaiting>> ELSE <<>>
  /\ \A s : Vector(s) /\ (\A r \in Elements(s) : ~Unnumbered(r)) => WaitingIn(s) = <<>>
<1>1. ASSUME NEW s, NEW S, Elements(s) \subseteq S
      PROVE  Select(s, Unnumbered) = Keep(s, {r \in S : Unnumbered(r)})
  BY <1>1 DEF Select, Keep, Passing, Elements
<1>2. ASSUME NEW s, Vector(s) PROVE Vector(Select(s, Unnumbered))
  <2> DEFINE K == {r \in Elements(s) : Unnumbered(r)}
  <2>1. Select(s, Unnumbered) = Keep(s, K)
    BY <1>1
  <2> HIDE DEF K
  <2> QED BY <1>2, <2>1, VectorKeep
<1>3. ASSUME NEW s, Vector(s) PROVE Vector(WaitingIn(s))
  <2> DEFINE k == Select(s, Unnumbered)
  <2>1. Vector(k)
    BY <1>2, <1>3
  <2> HIDE DEF k
  <2>2. Vector(AwaitedIn(k))
    BY <2>1, AwaitedProperties
  <2> QED BY <2>2 DEF WaitingIn, k
<1>4. ASSUME NEW s, NEW t, Vector(s), Vector(t) PROVE WaitingIn(s \o t) = WaitingIn(s) \o WaitingIn(t)
  <2> DEFINE S == Elements(s) \cup Elements(t)
             K == {r \in S : Unnumbered(r)}
             j == Select(s, Unnumbered)
             k == Select(t, Unnumbered)
  <2>1. Elements(s \o t) \subseteq S
    BY <1>4, VectorConcat
  <2>2. j = Keep(s, K) /\ k = Keep(t, K) /\ Select(s \o t, Unnumbered) = Keep(s \o t, K)
    BY <1>1, <2>1
  <2>3. Vector(j) /\ Vector(k)
    BY <1>2, <1>4
  <2> HIDE DEF S, K, j, k
  <2>4. Keep(s \o t, K) = Keep(s, K) \o Keep(t, K)
    BY <1>4, VectorKeeps
  <2>5. AwaitedIn(j \o k) = AwaitedIn(j) \o AwaitedIn(k)
    BY <2>3, AwaitedConcat
  <2> QED BY <2>2, <2>4, <2>5 DEF WaitingIn, j, k
<1>5. ASSUME NEW e PROVE WaitingIn(<<e>>) = IF Unnumbered(e) THEN <<e.awaiting>> ELSE <<>>
  <2> DEFINE K == {r \in {e} : Unnumbered(r)}
             one == <<e>>
  <2>1. Elements(one) = {e}
    BY VectorEmpty, VectorAppend
  <2>2. Select(one, Unnumbered) = Keep(one, K)
    BY <1>1, <2>1
  <2>3. e \in K <=> Unnumbered(e)
    OBVIOUS
  <2> HIDE DEF K
  <2>4. Keep(one, K) = IF e \in K THEN one ELSE <<>>
    BY VectorKeeps
  <2>5. AwaitedIn(one) = <<e.awaiting>> /\ AwaitedIn(<<>>) = <<>>
    BY AwaitedProperties
  <2> HIDE DEF one
  <2>6. WaitingIn(one) = IF Unnumbered(e) THEN <<e.awaiting>> ELSE <<>>
    BY <2>2, <2>3, <2>4, <2>5 DEF WaitingIn
  <2> QED BY <2>6 DEF one
<1>6. ASSUME NEW s, Vector(s), \A r \in Elements(s) : ~Unnumbered(r) PROVE WaitingIn(s) = <<>>
  <2> DEFINE K == {r \in Elements(s) : Unnumbered(r)}
  <2>1. Select(s, Unnumbered) = Keep(s, K)
    BY <1>1
  <2>2. Elements(s) \cap K = {}
    BY <1>6
  <2> HIDE DEF K
  <2>3. Keep(s, K) = <<>>
    BY <1>6, <2>2, VectorKeeps
  <2> QED BY <2>1, <2>3, AwaitedProperties DEF WaitingIn
<1> QED BY <1>2, <1>3, <1>4, <1>5, <1>6

\* A step that leaves the records, and the subscribes still to be written.
LEMMA RecordsUndisturbed ==
  ASSUME NEW known, InStep(known), pending' = pending,
         \A a \in Elements(incoming)' : a.kind = "suback" => a.pkid # NoPkid,
         known => SentFor(Ahead)' = SentFor(Ahead)
  PROVE  InStep(known)'
<1>1. WaitingIn(pending)' = WaitingIn(pending) /\ Elements(pending)' = Elements(pending)
      /\ Vector(pending)' = Vector(pending)
  BY DEF WaitingIn, Select, At, Unnumbered, AwaitedIn, Elements, Vector
<1> QED BY <1>1 DEF InStep

\* A request enters the queue: a subscribe with its record, or another without one.
LEMMA RecordsQueued ==
  ASSUME NEW known, Shape, InStep(known), NEW x, channel' = Append(channel, x),
         UNCHANGED <<parked, setAside, incoming>>,
         \/ ~IsSubscribe(x) /\ pending' = pending
         \/ IsSubscribe(x) /\ pending' = Append(pending, Record(x.awaiting))
  PROVE  InStep(known)'
<1> DEFINE one == <<x>>
           r == Record(x.awaiting)
           rec == <<r>>
<1>1. Vector(Ahead) /\ Ahead' = Append(Ahead, x) /\ Vector(pending)
  BY ShapeTyped, Enqueued DEF InStep
<1>2. /\ IsRecord(r) /\ r.awaiting = x.awaiting /\ Unnumbered(r)
  BY DEF Record, IsRecord, Unnumbered
<1>3. /\ SentFor(one) = IF IsSubscribe(x) THEN <<x.awaiting>> ELSE <<>>
      /\ WaitingIn(rec) = IF Unnumbered(r) THEN <<r.awaiting>> ELSE <<>>
  BY SentForProperties, WaitingInProperties
<1>4. \A a \in Elements(incoming)' : a.kind = "suback" => a.pkid # NoPkid
  BY DEF InStep, Elements
<1> HIDE DEF r
<1>5. /\ Vector(one) /\ Ahead' = Ahead \o one
      /\ Vector(rec) /\ Append(pending, r) = pending \o rec
      /\ Vector(Append(pending, r)) /\ Elements(Append(pending, r)) = Elements(pending) \cup {r}
  BY <1>1, VectorAppend
<1> HIDE DEF one, rec
<1>6. SentFor(Ahead \o one) = SentFor(Ahead) \o SentFor(one) /\ Vector(SentFor(Ahead))
  BY <1>1, <1>5, SentForProperties
<1>7. WaitingIn(pending \o rec) = WaitingIn(pending) \o WaitingIn(rec)
  BY <1>1, <1>5, WaitingInProperties
<1>8. SentFor(Ahead)' = SentFor(Ahead')
  BY DEF SentFor, Select, At, IsSubscribe, AwaitedIn
<1>9. CASE ~IsSubscribe(x) /\ pending' = pending
  <2>1. SentFor(Ahead)' = SentFor(Ahead)
    BY <1>3, <1>5, <1>6, <1>8, <1>9, VectorConcats
  <2> QED BY <1>4, <1>9, <2>1, RecordsUndisturbed
<1>10. CASE IsSubscribe(x) /\ pending' = Append(pending, r)
  <2>1. WaitingIn(pending)' = WaitingIn(pending')
    BY DEF WaitingIn, Select, At, Unnumbered, AwaitedIn
  <2>2. Elements(pending)' = Elements(pending') /\ Vector(pending)' = Vector(pending')
    BY DEF Elements, Vector
  <2>3. \A q \in Elements(pending)' : IsRecord(q)'
    BY <1>2, <1>5, <1>10, <2>2 DEF InStep, IsRecord
  <2>4. known => SentFor(Ahead)' = WaitingIn(pending)'
    <3> SUFFICES ASSUME known PROVE SentFor(Ahead)' = WaitingIn(pending)'
      OBVIOUS
    <3>1. SentFor(Ahead) = WaitingIn(pending)
      BY DEF InStep
    <3>2. SentFor(Ahead)' = SentFor(Ahead) \o <<x.awaiting>>
      BY <1>3, <1>5, <1>6, <1>8, <1>10
    <3>3. WaitingIn(pending)' = WaitingIn(pending) \o <<x.awaiting>>
      BY <1>2, <1>3, <1>5, <1>7, <1>10, <2>1
    <3> QED BY <3>1, <3>2, <3>3
  <2> QED BY <1>4, <1>5, <1>10, <2>2, <2>3, <2>4 DEF InStep
<1> QED BY <1>9, <1>10 DEF r

\* The client writes its first request: what is left is sent for those left.
LEMMA RecordsWritten ==
  ASSUME Shape, NEW kind, Up(kind), Dequeue, UNCHANGED parked
  PROVE  /\ SentFor(Ahead)' = SentFor(Ahead') /\ Vector(SentFor(Ahead'))
         /\ SentFor(Ahead) = SentFor(<<Request>>) \o SentFor(Ahead')
         /\ kind # "subscribe" => SentFor(Ahead)' = SentFor(Ahead)
         /\ kind = "subscribe" => SentFor(<<Request>>) = <<Request.awaiting>>
<1> DEFINE r == Request
           one == <<r>>
           rest == Ahead'
<1>1. Ahead = one \o rest /\ Vector(rest) /\ r.kind = kind
  BY Dequeued
<1>2. SentFor(Ahead)' = SentFor(rest)
  BY DEF SentFor, Select, At, IsSubscribe, AwaitedIn
<1>3. SentFor(one) = IF IsSubscribe(r) THEN <<r.awaiting>> ELSE <<>>
  BY SentForProperties
<1> HIDE DEF r, rest
<1>4. Vector(one)
  BY VectorEmpty, VectorAppend
<1> HIDE DEF one
<1>5. SentFor(one \o rest) = SentFor(one) \o SentFor(rest) /\ Vector(SentFor(rest))
  BY <1>1, <1>4, SentForProperties
<1>6. kind # "subscribe" => SentFor(rest) = SentFor(one) \o SentFor(rest)
  BY <1>1, <1>3, <1>5, VectorConcats DEF IsSubscribe
<1> QED BY <1>1, <1>2, <1>3, <1>5, <1>6 DEF IsSubscribe, one, r, rest

\* The steps that only queue requests, or leave the queues alone.
LEMMA RecordsCallers ==
  ASSUME NEW known, SInv, InStep(known),
         \/ \E o \in Opens : OpenCheck(o) \/ OpenJoin(o) \/ OpenSend(o) \/ Drop(o)
         \/ \E m \in Messages : PublishCheck(m) \/ PublishQueue(m)
         \/ Shutdown \/ ShutdownQueue \/ ReceiveConfirmation
         \/ Sever \/ DialFails \/ Closing \/ Exit \/ UNCHANGED vars
  PROVE  InStep(known)'
<1>1. Shape /\ Vector(incoming)
  BY DEF SInv, Shape
<1>2. ASSUME UNCHANGED <<parked, setAside, channel, pending, incoming, renewed>> PROVE InStep(known)'
  <2>1. Elements(incoming)' = Elements(incoming)
    BY <1>2 DEF Elements
  <2>2. SentFor(Ahead)' = SentFor(Ahead)
    BY <1>2 DEF Ahead, SentFor, Select, At, IsSubscribe, AwaitedIn
  <2> QED BY <1>2, <2>1, <2>2, RecordsUndisturbed DEF InStep
<1>3. CASE \/ \E o \in Opens : OpenCheck(o) \/ OpenJoin(o)
           \/ \E m \in Messages : PublishCheck(m)
           \/ Shutdown \/ Sever \/ DialFails \/ Closing \/ Exit \/ UNCHANGED vars
  <2>1. UNCHANGED <<parked, setAside, channel, pending, incoming, renewed>>
    BY <1>3 DEF OpenCheck, OpenJoin, PublishCheck, Shutdown, Sever, DialFails, Closing, Exit,
                vars, clientVars, wireVars
  <2> QED BY <1>2, <2>1
<1>4. ASSUME NEW o \in Opens, OpenSend(o) PROVE InStep(known)'
  <2>1. UNCHANGED <<parked, setAside, incoming, renewed>>
    BY <1>4 DEF OpenSend, wireVars
  <2>2. \/ UNCHANGED <<channel, pending>>
        \/ \E request, awaiting : SendSubscribe(request, awaiting)
    BY <1>4 DEF OpenSend
  <2>3. ASSUME NEW request, NEW awaiting, SendSubscribe(request, awaiting) PROVE InStep(known)'
    <3> DEFINE x == Subscribe(request.filter, request.identifier, awaiting)
    <3>1. IsSubscribe(x) /\ x.awaiting = awaiting
      BY DEF Subscribe, IsSubscribe
    <3>2. channel' = Append(channel, x) /\ pending' = Append(pending, Record(awaiting))
      BY <2>3 DEF SendSubscribe
    <3> HIDE DEF x
    <3> QED BY <1>1, <2>1, <3>1, <3>2, RecordsQueued
  <2> QED BY <1>2, <2>1, <2>2, <2>3
<1>5. ASSUME NEW o \in Opens, Drop(o) PROVE InStep(known)'
  <2>1. UNCHANGED <<parked, setAside, pending, incoming, renewed>>
    BY <1>5 DEF Drop, wireVars
  <2> DEFINE x == Unsubscribe(FilterOf[o])
  <2>2. ~IsSubscribe(x)
    BY DEF Unsubscribe, IsSubscribe
  <2>3. channel' = channel \/ channel' = Append(channel, x)
    BY <1>5 DEF Drop
  <2> HIDE DEF x
  <2> QED BY <1>1, <1>2, <2>1, <2>2, <2>3, RecordsQueued
<1>6. ASSUME NEW m \in Messages, PublishQueue(m) PROVE InStep(known)'
  <2>1. UNCHANGED <<parked, setAside, pending, incoming, renewed>>
    BY <1>6 DEF PublishQueue, wireVars
  <2> DEFINE x == Publish(m)
  <2>2. ~IsSubscribe(x)
    BY DEF Publish, IsSubscribe
  <2>3. channel' = channel \/ channel' = Append(channel, x)
    BY <1>6 DEF PublishQueue
  <2> HIDE DEF x
  <2> QED BY <1>1, <1>2, <2>1, <2>2, <2>3, RecordsQueued
<1>7. CASE ShutdownQueue
  <2>1. UNCHANGED <<parked, setAside, pending, incoming, renewed>>
    BY <1>7 DEF ShutdownQueue, wireVars
  <2> DEFINE x == Disconnect
  <2>2. ~IsSubscribe(x)
    BY DEF Disconnect, IsSubscribe
  <2>3. channel' = channel \/ channel' = Append(channel, x)
    BY <1>7 DEF ShutdownQueue
  <2> HIDE DEF x
  <2> QED BY <1>1, <1>2, <2>1, <2>2, <2>3, RecordsQueued
<1>8. CASE ReceiveConfirmation
  <2>1. UNCHANGED <<parked, setAside, channel, pending, renewed>> /\ incoming # <<>>
    BY <1>8 DEF ReceiveConfirmation, Reads
  <2>2. \E k : \/ incoming' = Tail(incoming)
               \/ incoming' = Append(Tail(incoming), [kind |-> "pubcomp", pkid |-> k])
    BY <1>8 DEF ReceiveConfirmation
  <2>3. PICK k : \/ incoming' = Tail(incoming)
                 \/ incoming' = Append(Tail(incoming), [kind |-> "pubcomp", pkid |-> k])
    BY <2>2
  <2> DEFINE a == [kind |-> "pubcomp", pkid |-> k]
             t == Tail(incoming)
  <2>4. a.kind # "suback"
    OBVIOUS
  <2>5. incoming' = t \/ incoming' = Append(t, a)
    BY <2>3
  <2>6. Vector(t) /\ Elements(t) \subseteq Elements(incoming)
    BY <1>1, <2>1, VectorHeadTail
  <2> HIDE DEF a, t
  <2>7. Elements(incoming') \subseteq Elements(incoming) \cup {a}
    <3>1. Elements(Append(t, a)) = Elements(t) \cup {a}
      BY <2>6, VectorAppend
    <3> QED BY <2>5, <2>6, <3>1
  <2>8. \A b \in Elements(incoming)' : b.kind = "suback" => b.pkid # NoPkid
    BY <2>4, <2>7 DEF InStep, Elements
  <2>9. SentFor(Ahead)' = SentFor(Ahead)
    BY <2>1 DEF Ahead, SentFor, Select, At, IsSubscribe, AwaitedIn
  <2> QED BY <2>1, <2>8, <2>9, RecordsUndisturbed
<1> QED BY <1>3, <1>4, <1>5, <1>6, <1>7, <1>8

\* The writes of what is no subscribe.
LEMMA RecordsOtherWrites ==
  ASSUME NEW known, SInv, InStep(known),
         WriteUnsubscribe \/ WritePublish \/ WriteRelease \/ WriteDisconnect
  PROVE  InStep(known)'
<1>1. Shape /\ Vector(incoming)
  BY DEF SInv, Shape
<1>2. \E kind : Up(kind) /\ kind # "subscribe"
  <2>1. Up("unsubscribe") \/ Up("publish") \/ Up("release") \/ Up("disconnect")
    BY DEF WriteUnsubscribe, WritePublish, WriteRelease, WriteDisconnect
  <2>2. "unsubscribe" # "subscribe" /\ "publish" # "subscribe" /\ "release" # "subscribe"
        /\ "disconnect" # "subscribe"
    OBVIOUS
  <2> QED BY <2>1, <2>2
<1>3. Dequeue /\ UNCHANGED <<parked, pending, renewed>>
  BY DEF WriteUnsubscribe, WritePublish, WriteRelease, WriteDisconnect, wireVars
<1>4. SentFor(Ahead)' = SentFor(Ahead)
  BY <1>1, <1>2, <1>3, RecordsWritten
<1>5. \E a : /\ a.kind # "suback"
             /\ incoming' = incoming \/ incoming' = Append(incoming, a)
  <2>1. CASE WriteUnsubscribe \/ WriteDisconnect
    <3> DEFINE a == [kind |-> "none"]
    <3>1. a.kind # "suback" /\ incoming' = incoming
      BY <2>1 DEF WriteUnsubscribe, WriteDisconnect, wireVars
    <3> QED BY <3>1
  <2>2. CASE WritePublish
    <3>1. \E pkid, kind : /\ kind \in {"puback", "pubrec"}
                          /\ Answer([kind |-> kind, pkid |-> pkid])
      <4> DEFINE kind == IF LevelOf[Request.message] = 1 THEN "puback" ELSE "pubrec"
                 pkid == IF Request.pkid = NoPkid THEN lastPkid + 1 ELSE Request.pkid
      <4>1. kind \in {"puback", "pubrec"} /\ Answer([kind |-> kind, pkid |-> pkid])
        BY <2>2 DEF WritePublish
      <4> QED BY <4>1
    <3>2. PICK pkid, kind : /\ kind \in {"puback", "pubrec"}
                            /\ Answer([kind |-> kind, pkid |-> pkid])
      BY <3>1
    <3> DEFINE a == [kind |-> kind, pkid |-> pkid]
    <3>3. a.kind # "suback" /\ Answer(a)
      BY <3>2
    <3> HIDE DEF a
    <3> QED BY <3>3 DEF Answer
  <2>3. CASE WriteRelease
    <3> DEFINE a == [kind |-> "pubcomp", pkid |-> Request.pkid]
    <3>1. a.kind # "suback" /\ Answer(a)
      BY <2>3 DEF WriteRelease, ServerReleases
    <3> HIDE DEF a
    <3> QED BY <3>1 DEF Answer
  <2> QED BY <2>1, <2>2, <2>3
<1>6. \A b \in Elements(incoming)' : b.kind = "suback" => b.pkid # NoPkid
  <2>1. PICK a : /\ a.kind # "suback"
                 /\ incoming' = incoming \/ incoming' = Append(incoming, a)
    BY <1>5
  <2>2. Elements(incoming') \subseteq Elements(incoming) \cup {a}
    BY <1>1, <2>1, VectorAppend
  <2> QED BY <2>1, <2>2 DEF InStep, Elements
<1> QED BY <1>3, <1>4, <1>6, RecordsUndisturbed

\* The packet id of a subscribe goes to the record it was queued with, the first that
\* has none.
LEMMA RecordsNumbered ==
  ASSUME NEW known, SInv, InStep(known), WriteSubscribe
  PROVE  InStep(known)'
<1> DEFINE free == \E i \in DOMAIN pending : pending[i].pkid = NoPkid
           k == lastPkid + 1
<1>1. Shape /\ Vector(incoming) /\ lastPkid \in Nat /\ Vector(pending)
  BY DEF SInv, Shape, Ledger, Numbered, InStep
<1>2. /\ Up("subscribe") /\ Dequeue /\ UNCHANGED <<parked, renewed, task>> /\ ~Over
      /\ pending' = IF free THEN [pending EXCEPT ![Oldest] = [@ EXCEPT !.pkid = k,
                                                                  !.answers = Request.awaiting]]
                    ELSE pending
  BY DEF WriteSubscribe, taskVars, Up, Connected, Over
<1>3. k # NoPkid
  BY <1>1 DEF NoPkid
<1>4. \A b \in Elements(incoming)' : b.kind = "suback" => b.pkid # NoPkid
  <2>1. PICK accepted : Answer([kind |-> "suback", pkid |-> k, accepted |-> accepted])
    BY DEF WriteSubscribe
  <2> DEFINE a == [kind |-> "suback", pkid |-> k, accepted |-> accepted]
  <2>2. a.pkid = k /\ Answer(a)
    BY <2>1
  <2> HIDE DEF a
  <2>3. incoming' = incoming \/ incoming' = Append(incoming, a)
    BY <2>2 DEF Answer
  <2>4. Elements(Append(incoming, a)) = Elements(incoming) \cup {a}
    BY <1>1, VectorAppend
  <2>5. Elements(incoming') \subseteq Elements(incoming) \cup {a}
    BY <2>3, <2>4
  <2> QED BY <1>3, <2>2, <2>5 DEF InStep, Elements
<1> HIDE DEF k
<1> DEFINE rest == SentFor(Ahead')
           x == Request.awaiting
<1>5. /\ SentFor(Ahead)' = rest /\ Vector(rest)
      /\ SentFor(Ahead) = <<x>> \o rest
  BY <1>1, <1>2, RecordsWritten
<1> HIDE DEF rest, x
<1>6. CASE ~free
  <2>1. WaitingIn(pending) = <<>>
    <3>1. \A r \in Elements(pending) : ~Unnumbered(r)
      BY <1>6 DEF Elements, Unnumbered
    <3> QED BY <1>1, <3>1, WaitingInProperties
  <2>2. ~known
    <3> SUFFICES ASSUME known PROVE FALSE
      OBVIOUS
    <3>1. <<x>> \o rest = <<>>
      BY <1>2, <1>5, <2>1 DEF InStep
    <3> DEFINE one == <<x>>
               all == one \o rest
    <3>2. Vector(one) /\ Elements(one) = {x}
      BY VectorEmpty, VectorAppend
    <3> HIDE DEF one
    <3>3. Elements(all) = Elements(one) \cup Elements(rest)
      BY <1>5, <3>2, VectorConcat
    <3>4. all = <<>>
      BY <3>1 DEF one
    <3> HIDE DEF all
    <3> QED BY <3>2, <3>3, <3>4, VectorEmpty
  <2>3. pending' = pending
    BY <1>2, <1>6
  <2> QED BY <1>2, <1>4, <2>2, <2>3, RecordsUndisturbed
<1>7. CASE free
  <2> DEFINE i == Oldest
             e == pending[i]
             n == [e EXCEPT !.pkid = k, !.answers = x]
  <2>1. i \in DOMAIN pending /\ e.pkid = NoPkid /\ \A j \in 1..(i - 1) : pending[j].pkid # NoPkid
    <3> DEFINE First(q) == /\ pending[q].pkid = NoPkid
                           /\ \A j \in 1..(q - 1) : pending[j].pkid # NoPkid
               U == {q \in DOMAIN pending : pending[q].pkid = NoPkid}
    <3>1. DOMAIN pending = 1..Len(pending) /\ Len(pending) \in Nat
      BY <1>1, VectorPlaces
    <3>2. \E q \in DOMAIN pending : First(q)
      <4>1. U # {} /\ U \subseteq 1..Len(pending)
        BY <1>7, <3>1
      <4>2. PICK q \in U : \A p \in U : q <= p
        BY <3>1, <4>1, FirstPlace
      <4>3. First(q)
        BY <3>1, <4>1, <4>2
      <4> QED BY <4>1, <4>3
    <3> QED BY <3>2 DEF Oldest
  <2>2. pending' = [pending EXCEPT ![i] = n]
    BY <1>2, <1>7 DEF x
  <2> HIDE DEF i
  <2>3. PICK a, b :
          /\ Vector(a) /\ Vector(b)
          /\ Len(a) = i - 1 /\ Len(b) = Len(pending) - i
          /\ \A j \in DOMAIN a : a[j] = pending[j]
          /\ \A j \in DOMAIN b : b[j] = pending[i + j]
          /\ pending = a \o (<<e>> \o b)
          /\ \A z : [pending EXCEPT ![i] = z] = a \o (<<z>> \o b)
    BY <1>1, <2>1, VectorAround
  <2>4. pending' = a \o (<<n>> \o b)
    BY <2>2, <2>3
  <2>5. IsRecord(e)
    BY <2>1 DEF InStep, Elements
  <2>6. IsRecord(n) /\ n.pkid = k /\ n.awaiting = e.awaiting /\ n.answers = x
    <3> HIDE DEF e, x
    <3>1. DOMAIN e = {"awaiting", "pkid", "answers"}
      BY <2>5 DEF IsRecord
    <3>2. DOMAIN n = DOMAIN e /\ n.pkid = k /\ n.awaiting = e.awaiting /\ n.answers = x
      BY <3>1
    <3> QED BY <3>1, <3>2 DEF IsRecord
  <2> HIDE DEF e, n
  <2>7. ASSUME NEW z
        PROVE  /\ Vector(a \o (<<z>> \o b))
               /\ Elements(a \o (<<z>> \o b)) = Elements(a) \cup {z} \cup Elements(b)
               /\ WaitingIn(a \o (<<z>> \o b))
                    = WaitingIn(a) \o ((IF Unnumbered(z) THEN <<z.awaiting>> ELSE <<>>)
                                         \o WaitingIn(b))
    <3> DEFINE one == <<z>>
               tail == one \o b
    <3>1. Vector(one) /\ Elements(one) = {z}
      BY VectorEmpty, VectorAppend
    <3>2. WaitingIn(one) = IF Unnumbered(z) THEN <<z.awaiting>> ELSE <<>>
      BY WaitingInProperties
    <3> HIDE DEF one
    <3>3. Vector(tail) /\ Elements(tail) = Elements(one) \cup Elements(b)
      BY <2>3, <3>1, VectorConcat
    <3>4. WaitingIn(tail) = WaitingIn(one) \o WaitingIn(b)
      BY <2>3, <3>1, WaitingInProperties
    <3> HIDE DEF tail
    <3>5. Vector(a \o tail) /\ Elements(a \o tail) = Elements(a) \cup Elements(tail)
      BY <2>3, <3>3, VectorConcat
    <3>6. WaitingIn(a \o tail) = WaitingIn(a) \o WaitingIn(tail)
      BY <2>3, <3>3, WaitingInProperties
    <3> QED BY <3>1, <3>2, <3>3, <3>4, <3>5, <3>6 DEF tail, one
  <2>8. WaitingIn(a) = <<>> /\ Vector(WaitingIn(b))
    <3>1. DOMAIN a = 1..(i - 1)
      BY <2>3, VectorPlaces
    <3>2. \A r \in Elements(a) : ~Unnumbered(r)
      BY <2>1, <2>3, <3>1 DEF Elements, Unnumbered
    <3> QED BY <2>3, <3>2, WaitingInProperties
  <2>9. /\ Unnumbered(e) /\ ~Unnumbered(n)
    BY <1>3, <2>1, <2>6 DEF Unnumbered, e
  <2> DEFINE w == WaitingIn(b)
             y == e.awaiting
             hd == <<y>>
  <2>10. WaitingIn(pending) = hd \o w
    <3>1. WaitingIn(pending) = <<>> \o (hd \o w)
      BY <2>3, <2>7, <2>8, <2>9
    <3>2. Vector(hd) /\ Vector(w)
      BY <2>8, VectorEmpty, VectorAppend
    <3> HIDE DEF hd, w
    <3>3. Vector(hd \o w)
      BY <3>2, VectorConcat
    <3> QED BY <3>1, <3>3, VectorConcats
  <2>11. WaitingIn(pending') = w
    <3>1. WaitingIn(pending') = <<>> \o (<<>> \o w)
      BY <2>4, <2>7, <2>8, <2>9
    <3> QED BY <2>8, <3>1, VectorConcats
  <2>12. known => rest = w
    <3> SUFFICES ASSUME known PROVE rest = w
      OBVIOUS
    <3>1. <<x>> \o rest = <<y>> \o w
      BY <1>2, <1>5, <2>10 DEF InStep
    <3> HIDE DEF w, y
    <3>2. Vector(w)
      BY <2>8 DEF w
    <3> QED BY <1>5, <3>1, <3>2, VectorCancel
  <2>13. /\ WaitingIn(pending)' = w
         /\ Vector(pending)' /\ Elements(pending)' = Elements(a) \cup {n} \cup Elements(b)
    <3>1. /\ WaitingIn(pending)' = WaitingIn(pending') /\ Elements(pending)' = Elements(pending')
          /\ Vector(pending)' = Vector(pending')
      BY DEF WaitingIn, Select, At, Unnumbered, AwaitedIn, Elements, Vector
    <3> QED BY <2>4, <2>7, <2>11, <3>1
  <2>14. \A r \in Elements(pending)' : IsRecord(r)'
    <3>1. Elements(pending) = Elements(a) \cup {e} \cup Elements(b)
      BY <2>3, <2>7
    <3> QED BY <2>6, <2>13, <3>1 DEF InStep, IsRecord
  <2> QED BY <1>2, <1>4, <1>5, <2>12, <2>13, <2>14 DEF InStep
<1> QED BY <1>6, <1>7

\* Without a place of it a sequence is what stands before and after the place.
Around(s, n, a, b) ==
  /\ Vector(a) /\ Vector(b)
  /\ s = a \o (<<s[n]>> \o b) /\ Without(s, n) = a \o b

\* A place parts a sequence in what is before and what is behind it.
LEMMA WithoutAround ==
  ASSUME NEW s, Vector(s), NEW n \in DOMAIN s
  PROVE  \E a, b : Around(s, n, a, b)
<1>0. PICK a, b :
        /\ Vector(a) /\ Vector(b)
        /\ Len(a) = n - 1 /\ Len(b) = Len(s) - n
        /\ \A i \in DOMAIN a : a[i] = s[i]
        /\ \A i \in DOMAIN b : b[i] = s[n + i]
        /\ s = a \o (<<s[n]>> \o b)
        /\ \A e : [s EXCEPT ![n] = e] = a \o (<<e>> \o b)
  BY VectorAround
<1> DEFINE t == a \o b
           w == Without(s, n)
           l == Len(s)
<1>1. l \in Nat /\ n \in 1..l /\ \A i \in 1..l : s[i] \in Elements(s)
  BY VectorPlaces
<1>2. /\ Vector(t) /\ Len(t) = l - 1
      /\ \A i \in DOMAIN t : t[i] = IF i <= n - 1 THEN a[i] ELSE b[i - (n - 1)]
  <2>1. /\ Vector(t) /\ Len(t) = Len(a) + Len(b)
        /\ \A i \in DOMAIN t : t[i] = IF i <= Len(a) THEN a[i] ELSE b[i - Len(a)]
    BY <1>0, VectorConcat
  <2> HIDE DEF t
  <2>2. Len(t) = l - 1
    BY <1>0, <1>1, <2>1
  <2> QED BY <1>0, <2>1, <2>2
<1> HIDE DEF t
<1>3. DOMAIN t = 1..(l - 1) /\ DOMAIN a = 1..(n - 1) /\ DOMAIN b = 1..(l - n)
  BY <1>0, <1>2, VectorPlaces
<1>4. w = [i \in 1..(l - 1) |-> IF i < n THEN s[i] ELSE s[i + 1]]
  BY DEF Without
<1>5. w \in [1..(l - 1) -> Elements(s)] /\ l - 1 \in Nat
  BY <1>1, <1>4
<1>6. \A i \in 1..(l - 1) : w[i] = IF i < n THEN s[i] ELSE s[i + 1]
  BY <1>4
<1> HIDE DEF w, l
<1>7. w \in Seq(Elements(s)) /\ Len(w) = l - 1 /\ DOMAIN w = 1..(l - 1)
  BY <1>5, FunctionIsSeq
<1>8. ASSUME NEW i \in 1..(l - 1) PROVE w[i] = t[i]
  <2>1. CASE i < n
    <3>1. i <= n - 1 /\ i \in 1..(n - 1)
      BY <1>1, <2>1
    <3> QED BY <1>0, <1>2, <1>3, <1>6, <2>1, <3>1
  <2>2. CASE ~(i < n)
    <3> DEFINE j == i - (n - 1)
    <3>1. ~(i <= n - 1) /\ j \in 1..(l - n) /\ n + j = i + 1
      BY <1>1, <2>2
    <3>2. t[i] = b[j]
      BY <1>2, <1>3, <3>1
    <3> HIDE DEF j
    <3>3. b[j] = s[i + 1]
      BY <1>0, <1>3, <3>1
    <3> QED BY <1>6, <2>2, <3>2, <3>3
  <2> QED BY <2>1, <2>2
<1>9. Vector(w)
  BY <1>7, VectorOf
<1>10. w = t
  BY <1>2, <1>7, <1>8, <1>9, VectorSame
<1>11. Around(s, n, a, b)
  BY <1>0, <1>10 DEF Around, w, t
<1> QED BY <1>11

\* An answer takes out a record that has a packet id.
LEMMA RecordsAnswered ==
  ASSUME NEW known, SInv, InStep(known), ReceiveSuback
  PROVE  InStep(known)'
<1> DEFINE a == Head(incoming)
           places == {i \in DOMAIN pending : pending[i].pkid = a.pkid}
           n == CHOOSE i \in places : \A j \in places : i <= j
<1>1. /\ incoming # <<>> /\ incoming' = Tail(incoming) /\ a.kind = "suback"
      /\ UNCHANGED <<parked, setAside, channel, renewed>>
      /\ IF places = {} THEN pending' = pending ELSE pending' = Without(pending, n)
  BY DEF ReceiveSuback, Reads, clientVars
<1>2. Vector(incoming) /\ Vector(pending) /\ DOMAIN pending = 1..Len(pending) /\ Len(pending) \in Nat
  BY VectorPlaces DEF SInv, Shape, InStep
<1>3. /\ \A b \in Elements(incoming)' : b.kind = "suback" => b.pkid # NoPkid
      /\ a.pkid # NoPkid
  <2>1. Elements(incoming) = {a} \cup Elements(Tail(incoming))
    BY <1>1, <1>2, VectorHeadTail
  <2>2. Elements(incoming)' = Elements(Tail(incoming))
    BY <1>1 DEF Elements
  <2> QED BY <1>1, <2>1, <2>2 DEF InStep
<1>4. SentFor(Ahead)' = SentFor(Ahead)
  BY <1>1 DEF Ahead, SentFor, Select, At, IsSubscribe, AwaitedIn
<1>5. CASE places = {}
  BY <1>1, <1>3, <1>4, <1>5, RecordsUndisturbed
<1>6. CASE places # {}
  <2>1. n \in places
    <3>1. \E i \in places : \A j \in places : i <= j
      BY <1>2, <1>6, FirstPlace
    <3> QED BY <3>1
  <2>2. n \in DOMAIN pending /\ pending[n].pkid = a.pkid
    BY <2>1
  <2> HIDE DEF n, places, a
  <2> DEFINE e == pending[n]
  <2>3. PICK b, c : Around(pending, n, b, c)
    BY <1>2, <2>2, WithoutAround
  <2>4. pending' = b \o c
    BY <1>1, <1>6, <2>3 DEF Around
  <2>5. ~Unnumbered(e)
    BY <1>3, <2>2 DEF Unnumbered
  <2> HIDE DEF e
  <2> DEFINE one == <<e>>
             tail == one \o c
  <2>6. Vector(one) /\ Elements(one) = {e}
    BY VectorEmpty, VectorAppend
  <2>7. WaitingIn(one) = <<>>
    BY <2>5, WaitingInProperties
  <2> HIDE DEF one
  <2>8. Vector(tail) /\ Elements(tail) = Elements(one) \cup Elements(c)
    BY <2>3, <2>6, VectorConcat DEF Around
  <2>9. WaitingIn(tail) = WaitingIn(c)
    <3>1. WaitingIn(tail) = WaitingIn(one) \o WaitingIn(c) /\ Vector(WaitingIn(c))
      BY <2>3, <2>6, WaitingInProperties DEF Around
    <3> QED BY <2>7, <3>1, VectorConcats
  <2>10. pending = b \o tail
    BY <2>3 DEF Around, one, e
  <2> HIDE DEF tail
  <2>11. WaitingIn(pending) = WaitingIn(b) \o WaitingIn(c) /\ Elements(c) \subseteq Elements(pending)
         /\ Elements(b) \subseteq Elements(pending)
    <3>1. WaitingIn(b \o tail) = WaitingIn(b) \o WaitingIn(tail)
      BY <2>3, <2>8, WaitingInProperties DEF Around
    <3>2. Elements(b \o tail) = Elements(b) \cup Elements(tail)
      BY <2>3, <2>8, VectorConcat DEF Around
    <3> QED BY <2>8, <2>9, <2>10, <3>1, <3>2
  <2>12. WaitingIn(b \o c) = WaitingIn(b) \o WaitingIn(c)
    BY <2>3, WaitingInProperties DEF Around
  <2>13. Vector(b \o c) /\ Elements(b \o c) = Elements(b) \cup Elements(c)
    BY <2>3, VectorConcat DEF Around
  <2>14. /\ WaitingIn(pending)' = WaitingIn(pending) /\ Elements(pending)' \subseteq Elements(pending)
         /\ Vector(pending)'
    <3>1. /\ WaitingIn(pending)' = WaitingIn(pending') /\ Elements(pending)' = Elements(pending')
          /\ Vector(pending)' = Vector(pending')
      BY DEF WaitingIn, Select, At, Unnumbered, AwaitedIn, Elements, Vector
    <3> QED BY <2>4, <2>11, <2>12, <2>13, <3>1
  <2>15. \A r \in Elements(pending)' : IsRecord(r)'
    BY <2>14 DEF InStep, IsRecord
  <2> QED BY <1>1, <1>3, <1>4, <2>14, <2>15 DEF InStep
<1> QED BY <1>5, <1>6

\* What is parked when the connection is lost is sent for the same.
LEMMA RecordsLost ==
  ASSUME NEW known, SInv, InStep(known), known => ~Over', Lose
  PROVE  InStep(known)'
<1> DEFINE P == {r \in Elements(unconfirmed) : IsPublish(r)}
           Q == {r \in Elements(unconfirmed) : IsRelease(r)}
           p == Keep(unconfirmed, P)
           q == Keep(unconfirmed, Q)
           left == setAside \o p \o q \o channel
<1>1. LeftBehind = left
  BY DEF LeftBehind, Select, Keep, Passing, Elements
<1>2. /\ Vector(setAside) /\ Vector(channel) /\ Vector(unconfirmed) /\ parked = <<>>
  BY DEF SInv, Shape, Lose, Connected
<1>3. /\ \A r \in P : ~IsSubscribe(r)
      /\ \A r \in Q : ~IsSubscribe(r)
  BY DEF IsPublish, IsRelease, IsSubscribe
<1>4. /\ UNCHANGED <<pending, renewed>> /\ channel' = <<>> /\ incoming' = <<>>
      /\ \/ Over'
         \/ setAside' = <<>> /\ parked' = parked \o left
  BY <1>1 DEF Lose, GiveUp, Park, Over
<1> HIDE DEF P, Q
<1>5. /\ Vector(p) /\ Elements(p) \subseteq P /\ Vector(q) /\ Elements(q) \subseteq Q
  BY <1>2, VectorKeep
<1> HIDE DEF p, q
<1>6. Vector(setAside \o p) /\ Vector(setAside \o p \o q) /\ Vector(left)
  <2>1. Vector(setAside \o p)
    BY <1>2, <1>5, VectorConcat
  <2>2. Vector(setAside \o p \o q)
    BY <1>5, <2>1, VectorConcat
  <2> QED BY <1>2, <2>1, <2>2, VectorConcat
<1>7. SentFor(left) = SentFor(setAside) \o SentFor(channel)
  <2>1. SentFor(p) = <<>> /\ SentFor(q) = <<>> /\ Vector(SentFor(setAside))
    BY <1>2, <1>3, <1>5, SentForProperties
  <2>2. SentFor(setAside \o p) = SentFor(setAside) \o SentFor(p)
    BY <1>2, <1>5, SentForProperties
  <2>3. SentFor(setAside \o p \o q) = SentFor(setAside \o p) \o SentFor(q)
    BY <1>5, <1>6, SentForProperties
  <2>4. SentFor(left) = SentFor(setAside \o p \o q) \o SentFor(channel)
    BY <1>2, <1>6, SentForProperties
  <2>5. SentFor(setAside) \o <<>> = SentFor(setAside)
    BY <2>1, VectorConcats
  <2> QED BY <2>1, <2>2, <2>3, <2>4, <2>5
<1> HIDE DEF left
<1>8. SentFor(Ahead) = SentFor(setAside) \o SentFor(channel)
  <2>1. Ahead = setAside \o channel
    BY <1>2, VectorConcats DEF Ahead
  <2> QED BY <1>2, <2>1, SentForProperties
<1>9. known => SentFor(Ahead)' = SentFor(Ahead)
  <2> SUFFICES ASSUME ~Over' PROVE SentFor(Ahead)' = SentFor(Ahead)
    OBVIOUS
  <2>1. setAside' = <<>> /\ parked' = left
    BY <1>2, <1>4, <1>6, VectorConcats
  <2>2. Ahead' = left
    BY <1>4, <1>6, <2>1, VectorConcats DEF Ahead
  <2>3. SentFor(Ahead)' = SentFor(Ahead')
    BY DEF SentFor, Select, At, IsSubscribe, AwaitedIn
  <2> QED BY <1>7, <1>8, <2>2, <2>3
<1>10. Elements(incoming)' = {}
  BY <1>4, VectorEmpty DEF Elements
<1> QED BY <1>4, <1>9, <1>10, RecordsUndisturbed

\* A resumed session takes the requests back in their order; a new one is renewed.
LEMMA RecordsConnack ==
  ASSUME NEW known, SInv, InStep(known), NEW present \in BOOLEAN, known => present, NEW identifiers,
         Connack(present, identifiers)
  PROVE  InStep(known)'
<1>1. incoming' = incoming /\ task = "down"
  BY DEF Connack
<1>2. \A b \in Elements(incoming)' : b.kind = "suback" => b.pkid # NoPkid
  BY <1>1 DEF Elements, InStep
<1>3. CASE present
  <2>1. /\ parked' = <<>> /\ setAside' = setAside \o parked
        /\ UNCHANGED <<channel, pending>>
    BY <1>3 DEF Connack, Unpark
  <2>2. setAside = <<>> /\ Vector(parked) /\ Vector(channel)
    BY <1>1 DEF SInv, Shape
  <2>3. setAside' = parked
    BY <2>1, <2>2, VectorConcats
  <2>4. parked \o <<>> = parked /\ <<>> \o parked = parked
    BY <2>2, VectorConcats
  <2>5. Ahead' = Ahead
    BY <2>1, <2>2, <2>3, <2>4 DEF Ahead
  <2>6. SentFor(Ahead)' = SentFor(Ahead)
    BY <2>5 DEF SentFor, Select, At, IsSubscribe, AwaitedIn
  <2> QED BY <1>2, <2>1, <2>6, RecordsUndisturbed
<1>4. CASE ~present
  <2>1. ~known
    BY <1>4
  <2>2. PICK again : /\ Vector(again)
                     /\ pending' = pending \o [n \in DOMAIN again |-> Record(again[n].awaiting)]
    <3> DEFINE again == IF policy = "custom" THEN <<>> ELSE Resubscribed(identifiers)
    <3>1. pending' = pending \o [n \in DOMAIN again |-> Record(again[n].awaiting)]
      BY <1>4 DEF Connack
    <3>2. Vector(Resubscribed(identifiers))
      BY ResubscribedProperties DEF SInv, Shape
    <3>3. Vector(again)
      BY <3>2, VectorEmpty
    <3> HIDE DEF again
    <3> QED BY <3>1, <3>3
  <2> DEFINE new == [n \in DOMAIN again |-> Record(again[n].awaiting)]
             S == {Record(again[n].awaiting) : n \in DOMAIN again}
  <2>3. Len(again) \in Nat /\ DOMAIN again = 1..Len(again)
    BY <2>2, VectorPlaces
  <2>4. new \in [1..Len(again) -> S]
    BY <2>3
  <2>5. \A r \in S : IsRecord(r)
    BY DEF Record, IsRecord
  <2> HIDE DEF new, S
  <2>6. Vector(new) /\ Elements(new) \subseteq S
    BY <2>3, <2>4, FunctionIsSeq, VectorOf
  <2>7. Vector(pending)
    BY DEF InStep
  <2>8. Vector(pending \o new) /\ Elements(pending \o new) = Elements(pending) \cup Elements(new)
    BY <2>6, <2>7, VectorConcat
  <2>9. pending' = pending \o new
    BY <2>2 DEF new
  <2>10. Elements(pending)' = Elements(pending') /\ Vector(pending)' = Vector(pending')
    BY DEF Elements, Vector
  <2>11. Vector(pending)' /\ \A r \in Elements(pending)' : IsRecord(r)'
    BY <2>5, <2>6, <2>8, <2>9, <2>10 DEF InStep, IsRecord
  <2> QED BY <1>2, <2>1, <2>11 DEF InStep
<1> QED BY <1>3, <1>4

\* Nothing is on its way at the start.
LEMMA RInvInit == Init => RInv
<1> SUFFICES ASSUME Init PROVE RInv
  OBVIOUS
<1>1. /\ parked = <<>> /\ setAside = <<>> /\ channel = <<>> /\ incoming = <<>> /\ pending = <<>>
  BY DEF Init
<1>2. Vector(<<>>) /\ Elements(<<>>) = {} /\ <<>> \o <<>> = <<>>
  BY VectorEmpty, VectorConcats
<1>3. SentFor(<<>>) = <<>> /\ WaitingIn(<<>>) = <<>>
  BY <1>2, SentForProperties, WaitingInProperties
<1> QED BY <1>1, <1>2, <1>3 DEF RInv, InStep, Ahead

\* Every step keeps the records in order, where they are known to be, but the end of the
\* task and a new session.
LEMMA InStepKept ==
  ASSUME NEW known, SInv, InStep(known), [Next]_vars, known => ~Over',
         known => ~\E identifiers \in Offers : Connack(FALSE, identifiers)
  PROVE  InStep(known)'
<1>1. CASE WriteSubscribe
  BY <1>1, RecordsNumbered
<1>2. CASE WriteUnsubscribe \/ WritePublish \/ WriteRelease \/ WriteDisconnect
  BY <1>2, RecordsOtherWrites
<1>3. CASE ReceiveSuback
  BY <1>3, RecordsAnswered
<1>4. CASE Lose
  BY <1>4, RecordsLost
<1>5. ASSUME NEW present \in BOOLEAN, NEW identifiers \in Offers, Connack(present, identifiers)
      PROVE  InStep(known)'
  <2>1. known => present
    BY <1>5
  <2> QED BY <1>5, <2>1, RecordsConnack
<1>6. CASE EndRecords
  <2>1. pending' = <<>> /\ incoming' = incoming /\ ~known
    BY <1>6 DEF EndRecords, wireVars, Over
  <2>2. Elements(incoming)' = Elements(incoming) /\ Elements(pending)' = {} /\ Vector(pending)'
    BY <2>1, VectorEmpty DEF Elements, Vector
  <2> QED BY <2>1, <2>2 DEF InStep
<1>7. CASE \/ \E o \in Opens : OpenCheck(o) \/ OpenJoin(o) \/ OpenSend(o) \/ Drop(o)
           \/ \E m \in Messages : PublishCheck(m) \/ PublishQueue(m)
           \/ Shutdown \/ ShutdownQueue \/ ReceiveConfirmation
           \/ Sever \/ DialFails \/ Closing \/ Exit \/ UNCHANGED vars
  BY <1>7, RecordsCallers
<1> QED BY <1>1, <1>2, <1>3, <1>4, <1>5, <1>6, <1>7 DEF Next, Write

\* A session that is new stays so.
LEMMA RenewedStays ==
  ASSUME [Next]_vars
  PROVE  renewed => renewed'
<1>1. CASE \/ \E o \in Opens : OpenCheck(o) \/ OpenJoin(o) \/ OpenSend(o) \/ Drop(o)
           \/ \E m \in Messages : PublishCheck(m) \/ PublishQueue(m)
           \/ Shutdown \/ ShutdownQueue
  BY <1>1 DEF OpenCheck, OpenJoin, OpenSend, Drop, PublishCheck, PublishQueue, Shutdown,
                    ShutdownQueue, wireVars
<1>2. CASE \/ Write \/ ReceiveSuback \/ ReceiveConfirmation
  BY <1>2 DEF Write, WriteSubscribe, WriteUnsubscribe, WritePublish, WriteRelease,
                    WriteDisconnect, ReceiveSuback, ReceiveConfirmation, wireVars
<1>3. CASE \/ Sever \/ Lose \/ DialFails \/ Closing \/ EndRecords \/ Exit \/ UNCHANGED vars
  BY <1>3 DEF Sever, Lose, DialFails, Closing, EndRecords, Exit, vars, wireVars
<1>4. CASE \E present \in BOOLEAN, identifiers \in Offers : Connack(present, identifiers)
  BY <1>4 DEF Connack
<1> QED BY <1>1, <1>2, <1>3, <1>4 DEF Next

\* So they stay in order while the server keeps the session.
LEMMA RInvStep == SInv /\ RInv /\ [Next]_vars => RInv'
<1> SUFFICES ASSUME SInv, RInv, [Next]_vars PROVE RInv'
  OBVIOUS
<1>1. InStep(FALSE)'
  BY InStepKept DEF RInv
<1>2. ASSUME ~renewed', ~Over' PROVE InStep(TRUE)'
  <2>1. ~renewed /\ ~Over /\ ~\E identifiers \in Offers : Connack(FALSE, identifiers)
    BY <1>2, OverStays, RenewedStays DEF Connack
  <2>2. InStep(TRUE)
    BY <2>1 DEF RInv
  <2> QED BY <1>2, <2>1, <2>2, InStepKept
<1> QED BY <1>1, <1>2 DEF RInv

\* What the records and the requests are in step for, one by one.
LEMMA InStepMatches ==
  ASSUME Shape, Vector(pending)
  PROVE  RecordsMatch <=> SentFor(Ahead) = WaitingIn(pending)
<1> DEFINE unsent  == Select(Ahead, IsSubscribe)
           records == Select(pending, Unnumbered)
           v == AwaitedIn(unsent)
           w == AwaitedIn(records)
<1>1. Vector(Ahead) /\ v = SentFor(Ahead) /\ w = WaitingIn(pending)
  BY ShapeTyped DEF SentFor, WaitingIn
<1>2. Vector(unsent) /\ Vector(records)
  BY <1>1, SentForProperties, WaitingInProperties
<1>3. RecordsMatch <=> /\ Len(unsent) = Len(records)
                       /\ \A i \in DOMAIN records : records[i].awaiting = unsent[i].awaiting
  BY DEF RecordsMatch, Ahead
<1> HIDE DEF unsent, records
<1>4. /\ Vector(v) /\ Len(v) = Len(unsent) /\ \A i \in DOMAIN unsent : v[i] = unsent[i].awaiting
      /\ Vector(w) /\ Len(w) = Len(records) /\ \A i \in DOMAIN records : w[i] = records[i].awaiting
      /\ DOMAIN unsent = DOMAIN v /\ DOMAIN records = DOMAIN w
  BY <1>2, AwaitedProperties
<1>5. /\ DOMAIN unsent = 1..Len(unsent) /\ DOMAIN records = 1..Len(records)
  BY <1>2, VectorPlaces
<1> HIDE DEF v, w
<1>6. v = w <=> /\ Len(unsent) = Len(records)
                /\ \A i \in DOMAIN records : records[i].awaiting = unsent[i].awaiting
  <2>1. ASSUME Len(unsent) = Len(records),
               \A i \in DOMAIN records : records[i].awaiting = unsent[i].awaiting
        PROVE  v = w
    <3>1. DOMAIN unsent = DOMAIN records
      BY <1>5, <2>1
    <3> QED BY <1>4, <2>1, <3>1, VectorSame
  <2>2. ASSUME v = w
        PROVE  /\ Len(unsent) = Len(records)
               /\ \A i \in DOMAIN records : records[i].awaiting = unsent[i].awaiting
    BY <1>4, <2>2
  <2> QED BY <2>1, <2>2
<1> QED BY <1>1, <1>3, <1>6

\* Records that answer to the requests are in their order.
LEMMA RecordsAreInOrder == SInv /\ RInv => RecordsInOrder
<1> SUFFICES ASSUME SInv, RInv, ~renewed, ~Over PROVE RecordsMatch
  BY DEF RecordsInOrder
<1>1. InStep(TRUE) /\ Shape
  BY DEF SInv, RInv
<1> QED BY <1>1, InStepMatches DEF InStep

\* As long as the server keeps the session, the records without a packet id are those of
\* the subscribes still to be written, in their order: RecordsInOrder of Session.tla,
\* through every number of losses and resumed sessions.
THEOREM RecordsMatched == Spec => []RecordsInOrder
<1>1. Init => SInv /\ RInv
  BY SInvInit, RInvInit
<1>2. SInv /\ RInv /\ [Next]_vars => SInv' /\ RInv'
  BY SInvStep, RInvStep
<1>3. SInv /\ RInv => RecordsInOrder
  BY RecordsAreInOrder
<1> QED BY <1>1, <1>2, <1>3, PTL DEF Spec

-----------------------------------------------------------------------------
(* The subscriptions, through the first loss.  What the requests ahead of   *)
(* the client's write will make of them, one filter at a time.             *)

\* Whom a subscribe is sent for; a restore is a custom mode's, see Recovery.tla.
Waiters ==
  {AwaitingOpen(o) : o \in Opens}
    \cup {AwaitingIdentify(f) : f \in Filters} \cup {AwaitingResubscribe(f) : f \in Filters}
    \cup [kind : {"restore"}, filter : Filters, loss : Nat]

\* The requests that change what the server holds.  A subscribe is for the filter that
\* is waited for.
Subscribes ==
  {r \in [kind : {"subscribe"}, filter : Filters, identifier : Nat, awaiting : Waiters] :
     r.awaiting.filter = r.filter}
Demands == Subscribes \cup [kind : {"unsubscribe"}, filter : Filters]

Demanded(s) == Keep(s, Demands)

\* Those that are still to be written, in the order they will be.
Asked == Demanded(Ahead)

\* An open has a member in the registry from its join to its drop.
Joined(o) == pc[o] \in {"sending", "waiting", "open"}

CallersTyped ==
  /\ pc \in [Opens -> {"idle", "failed", "joining", "sending", "waiting", "open", "closed"}]
  /\ member \in [Opens -> Int]
  /\ todo = [o \in Opens |-> todo[o]]
  /\ DOMAIN server = Filters /\ offered \in BOOLEAN

\* One of its own, which sits on its filter.
Members ==
  /\ \A o \in Opens : Joined(o) => SitsOn(member[o], FilterOf[o], QosOf[o])
  /\ \A o, x \in Opens : Joined(o) /\ Joined(x) /\ member[o] = member[x] => o = x

\* What an open has still to queue: refreshes, and its own subscribe last.
Queueing ==
  \A o \in Opens : pc[o] = "sending" =>
    /\ Vector(todo[o]) /\ todo[o] # <<>> /\ todo[o][Len(todo[o])].filter = FilterOf[o]
    /\ \A i \in DOMAIN todo[o] : /\ todo[o][i].refresh <=> i < Len(todo[o])
                                 /\ todo[o][i].filter \in Filters /\ todo[o][i].identifier \in Nat

IsDemand(r) == r.kind \in {"subscribe", "unsubscribe"}

Worded == \A r \in Elements(Ahead) : IsDemand(r) => r \in Demands

\* An open that waits has one record, and a record that awaits an open that open.
Recorded ==
  /\ \A r \in Elements(pending) :
       /\ r.awaiting \in Waiters /\ r.pkid \in 0..lastPkid
       /\ r.awaiting.kind = "open" => pc[r.awaiting.open] = "waiting"
  /\ \A i, j \in DOMAIN pending :
       pending[i].awaiting = pending[j].awaiting /\ pending[i].awaiting.kind = "open" => i = j

Granted ==
  \A a \in Elements(incoming) : a.kind = "suback" => a.accepted = TRUE /\ a.pkid \in 1..lastPkid

\* A filter is taken off before the open that waits subscribes to it.
Behind ==
  ~renewed => \A o \in Opens : pc[o] = "waiting" =>
    \A i, j \in DOMAIN Asked :
      /\ Asked[i] = Unsubscribe(FilterOf[o])
      /\ Asked[j].kind = "subscribe" /\ Asked[j].awaiting = AwaitingOpen(o)
      => i < j

\* The server has f, and nothing on its way takes it off.
Firm(f) == server[f] # NotHeld /\ Unsubscribe(f) \notin Elements(Asked)

Upheld ==
  ~renewed =>
    /\ \A o \in Opens : pc[o] = "open" => Firm(FilterOf[o])
    /\ \A r \in Elements(pending), a \in Elements(incoming) :
         r.awaiting.kind = "open" /\ a.kind = "suback" /\ a.pkid = r.pkid => Firm(r.awaiting.filter)

\* The server has f once all that is on its way is written.
Subscribing(j, f) == Asked[j].kind = "subscribe" /\ Asked[j].filter = f
Coming(f) ==
  /\ server[f] # NotHeld \/ \E j \in DOMAIN Asked : Subscribing(j, f)
  /\ \A i \in DOMAIN Asked :
       Asked[i] = Unsubscribe(f) => \E j \in DOMAIN Asked : i < j /\ Subscribing(j, f)

Restored ==
  renewed /\ losses <= 1 /\ ~severed =>
    \A o \in Opens : pc[o] \in {"waiting", "open"} => Coming(FilterOf[o])

\* Where the first loss leads.
Course ==
  /\ policy # "custom" /\ task # "restoring" /\ losses \in Nat /\ renewed \in BOOLEAN
  /\ losses = 0 => ~renewed /\ task # "down"
  /\ renewed /\ losses <= 1 => task # "down"

\* An open gives up, and leaves its seat: the queue is full and the broker is closed.
GivesUp(o) ==
  /\ pc[o] = "sending" /\ Leave(member[o]) /\ pc' = [pc EXCEPT ![o] = "failed"]
  /\ UNCHANGED <<member, todo, channel, pending>>

\* The subscriptions' part of the invariant, and the inductive invariant.
Lasting == Worded /\ Recorded /\ Granted /\ Behind /\ Upheld /\ Restored
FInv ==
  ~Over => Course /\ CallersTyped /\ Structure /\ Members /\ Queueing /\ Lasting

\* A new session that begins finds room in the queue for the subscribes of every filter;
\* without it those that do not fit are dropped (conn.rs, connected).
RoomToRenew ==
  \A identifiers \in Offers : Connack(FALSE, identifiers) => Len(channel) + Len(wires) <= Capacity

\* The kinds of the requests that are demands.
LEMMA DemandKinds ==
  /\ \A r \in Demands : \/ r.kind = "subscribe" /\ r \in Subscribes
                        \/ r.kind = "unsubscribe" /\ r.filter \in Filters /\ r = Unsubscribe(r.filter)
  /\ \A r \in Demands : r.kind = "subscribe" <=> r \in Subscribes
  /\ \A f \in Filters : Unsubscribe(f) \in Demands /\ Unsubscribe(f).kind = "unsubscribe"
                        /\ Unsubscribe(f).filter = f
  /\ \A r \in Subscribes : /\ r.kind = "subscribe" /\ r.filter \in Filters /\ r.identifier \in Nat
                           /\ r.awaiting \in Waiters /\ r.awaiting.filter = r.filter
<1>1. \A r \in Subscribes : /\ r.kind = "subscribe" /\ r.filter \in Filters /\ r.identifier \in Nat
                            /\ r.awaiting \in Waiters /\ r.awaiting.filter = r.filter
  BY DEF Subscribes
<1>2. \A r \in [kind : {"unsubscribe"}, filter : Filters] :
        r.kind = "unsubscribe" /\ r.filter \in Filters /\ r = Unsubscribe(r.filter)
  BY DEF Unsubscribe
<1>3. \A f \in Filters : /\ Unsubscribe(f) \in [kind : {"unsubscribe"}, filter : Filters]
                         /\ Unsubscribe(f).kind = "unsubscribe" /\ Unsubscribe(f).filter = f
  BY DEF Unsubscribe
<1> QED BY <1>1, <1>2, <1>3 DEF Demands

\* Who waits for what.
LEMMA WaitersKinds ==
  /\ \A w \in Waiters : w.filter \in Filters
  /\ \A w \in Waiters : w.kind = "open" =>
       w.open \in Opens /\ w.filter = FilterOf[w.open] /\ w = AwaitingOpen(w.open)
  /\ \A w \in Waiters : w.kind \in {"open", "identify", "resubscribe", "restore"}
  /\ \A o \in Opens : /\ AwaitingOpen(o) \in Waiters /\ AwaitingOpen(o).filter = FilterOf[o]
                      /\ AwaitingOpen(o).kind = "open" /\ AwaitingOpen(o).open = o
  /\ \A f \in Filters : /\ AwaitingIdentify(f) \in Waiters /\ AwaitingIdentify(f).filter = f
                        /\ AwaitingIdentify(f).kind = "identify"
                        /\ AwaitingResubscribe(f) \in Waiters /\ AwaitingResubscribe(f).filter = f
                        /\ AwaitingResubscribe(f).kind = "resubscribe"
<1>1. \A o \in Opens : /\ AwaitingOpen(o).filter = FilterOf[o] /\ FilterOf[o] \in Filters
                       /\ AwaitingOpen(o).kind = "open" /\ AwaitingOpen(o).open = o
  BY SessionAssumption DEF AwaitingOpen
<1>2. \A f \in Filters : /\ AwaitingIdentify(f).filter = f /\ AwaitingIdentify(f).kind = "identify"
                         /\ AwaitingResubscribe(f).filter = f
                         /\ AwaitingResubscribe(f).kind = "resubscribe"
  BY DEF AwaitingIdentify, AwaitingResubscribe
<1> QED BY <1>1, <1>2 DEF Waiters

\* The demands of a sequence, and of one after another.
LEMMA DemandedProperties ==
  /\ \A s : Vector(s) => /\ Vector(Demanded(s)) /\ Elements(Demanded(s)) = Elements(s) \cap Demands
  /\ \A s, t : Vector(s) /\ Vector(t) => Demanded(s \o t) = Demanded(s) \o Demanded(t)
  /\ \A e : Demanded(<<e>>) = IF e \in Demands THEN <<e>> ELSE <<>>
  /\ \A s : Vector(s) /\ Elements(s) \cap Demands = {} => Demanded(s) = <<>>
<1> HIDE DEF Demands
<1> QED BY VectorKeep, VectorKeeps DEF Demanded

\* What is asked for in the next state is what the next requests ask for.
LEMMA AskedNext == Asked' = Demanded(Ahead')
<1> QED BY DEF Asked, Demanded, Keep, At, Passing

\* The same requests ask for the same.
LEMMA AskedKept ==
  ASSUME UNCHANGED <<parked, setAside, channel>>
  PROVE  Asked' = Asked
<1>1. Ahead' = Ahead
  BY DEF Ahead
<1> QED BY <1>1, AskedNext DEF Asked

\* The demands among the requests, and no others.
LEMMA AskedVector ==
  ASSUME Shape
  PROVE  Vector(Asked) /\ Elements(Asked) = Elements(Ahead) \cap Demands
<1> QED BY ShapeTyped, DemandedProperties DEF Asked

\* A request enters the queue.
LEMMA AskedQueued ==
  ASSUME Shape, NEW x, channel' = Append(channel, x), UNCHANGED <<parked, setAside>>
  PROVE  /\ Asked' = IF x \in Demands THEN Append(Asked, x) ELSE Asked
         /\ Elements(Ahead') = Elements(Ahead) \cup {x}
<1>1. Vector(Ahead) /\ Ahead' = Append(Ahead, x)
  BY ShapeTyped, Enqueued
<1> DEFINE one == <<x>>
<1>2. /\ Elements(Append(Ahead, x)) = Elements(Ahead) \cup {x}
      /\ Append(Ahead, x) = Ahead \o one /\ Vector(one)
  BY <1>1, VectorAppend
<1>3. Demanded(one) = IF x \in Demands THEN <<x>> ELSE <<>>
  BY DemandedProperties
<1> HIDE DEF one
<1>4. Demanded(Ahead \o one) = Asked \o Demanded(one) /\ Vector(Asked)
  BY <1>1, <1>2, DemandedProperties DEF Asked
<1>5. Asked \o <<>> = Asked /\ Append(Asked, x) = Asked \o <<x>>
  BY <1>4, VectorConcats, VectorAppend
<1>6. Asked' = Asked \o Demanded(one)
  BY <1>1, <1>2, <1>4, AskedNext
<1> QED BY <1>1, <1>2, <1>3, <1>5, <1>6

\* The client writes its first request.
LEMMA AskedWritten ==
  ASSUME Shape, NEW kind, Up(kind), Dequeue, UNCHANGED parked
  PROVE  /\ Vector(Asked') /\ Request.kind = kind
         /\ Asked = IF Request \in Demands THEN <<Request>> \o Asked' ELSE Asked'
         /\ Elements(Ahead') \subseteq Elements(Ahead) /\ Request \in Elements(Ahead)
<1> DEFINE one == <<Request>>
           rest == Ahead'
<1>1. Ahead = one \o rest /\ Vector(rest) /\ Request.kind = kind /\ Request \in Elements(Ahead)
  BY Dequeued
<1>2. Demanded(one) = IF Request \in Demands THEN <<Request>> ELSE <<>>
  BY DemandedProperties
<1>3. Vector(one)
  BY VectorEmpty, VectorAppend
<1>4. Asked' = Demanded(rest)
  BY AskedNext
<1> HIDE DEF one, rest
<1>5. Demanded(one \o rest) = Demanded(one) \o Demanded(rest) /\ Vector(Demanded(rest))
  BY <1>1, <1>3, DemandedProperties
<1>6. Elements(one \o rest) = Elements(one) \cup Elements(rest)
  BY <1>1, <1>3, VectorConcat
<1>7. <<>> \o Demanded(rest) = Demanded(rest)
  BY <1>5, VectorConcats
<1>8. Asked = Demanded(one) \o Demanded(rest)
  BY <1>1, <1>5 DEF Asked
<1>9. Asked = IF Request \in Demands THEN <<Request>> \o Asked' ELSE Asked'
  BY <1>2, <1>4, <1>7, <1>8
<1> QED BY <1>1, <1>4, <1>5, <1>6, <1>9 DEF rest

\* What is parked over a loss asks for the same.
LEMMA AskedLost ==
  ASSUME SInv, Lose, ~Over'
  PROVE  /\ Asked' = Asked
         /\ \A r \in Elements(Ahead') : r.kind \in {"publish", "release"} \/ r \in Elements(Ahead)
<1> DEFINE P == {r \in Elements(unconfirmed) : IsPublish(r)}
           Q == {r \in Elements(unconfirmed) : IsRelease(r)}
           p == Keep(unconfirmed, P)
           q == Keep(unconfirmed, Q)
           left == setAside \o p \o q \o channel
<1>1. LeftBehind = left
  BY DEF LeftBehind, Select, Keep, Passing, Elements
<1>2. /\ Vector(setAside) /\ Vector(channel) /\ Vector(unconfirmed) /\ parked = <<>>
  BY DEF SInv, Shape, Lose, Connected
<1>3. /\ \A r \in P : r.kind = "publish" /\ ~IsDemand(r)
      /\ \A r \in Q : r.kind = "release" /\ ~IsDemand(r)
  BY DEF IsPublish, IsRelease, IsDemand
<1>4. channel' = <<>> /\ setAside' = <<>> /\ parked' = parked \o left
  BY <1>1 DEF Lose, GiveUp, Park, Over
<1> HIDE DEF P, Q
<1>5. /\ Vector(p) /\ Elements(p) \subseteq P /\ Vector(q) /\ Elements(q) \subseteq Q
  BY <1>2, VectorKeep
<1> HIDE DEF p, q
<1>6. /\ Vector(setAside \o p) /\ Vector(setAside \o p \o q) /\ Vector(left)
      /\ Elements(left) = Elements(setAside) \cup Elements(p) \cup Elements(q) \cup Elements(channel)
  <2>1. Vector(setAside \o p) /\ Elements(setAside \o p) = Elements(setAside) \cup Elements(p)
    BY <1>2, <1>5, VectorConcat
  <2>2. /\ Vector(setAside \o p \o q)
        /\ Elements(setAside \o p \o q) = Elements(setAside \o p) \cup Elements(q)
    BY <1>5, <2>1, VectorConcat
  <2> QED BY <1>2, <2>1, <2>2, VectorConcat
<1>7. Demanded(left) = Demanded(setAside) \o Demanded(channel)
  <2>0. \A r \in Demands : IsDemand(r)
    BY DemandKinds DEF IsDemand
  <2>1. Demanded(p) = <<>> /\ Demanded(q) = <<>> /\ Vector(Demanded(setAside))
    BY <1>2, <1>3, <1>5, <2>0, DemandedProperties
  <2>2. Demanded(setAside \o p) = Demanded(setAside) \o Demanded(p)
    BY <1>2, <1>5, DemandedProperties
  <2>3. Demanded(setAside \o p \o q) = Demanded(setAside \o p) \o Demanded(q)
    BY <1>5, <1>6, DemandedProperties
  <2>4. Demanded(left) = Demanded(setAside \o p \o q) \o Demanded(channel)
    BY <1>2, <1>6, DemandedProperties
  <2>5. Demanded(setAside) \o <<>> = Demanded(setAside)
    BY <2>1, VectorConcats
  <2> QED BY <2>1, <2>2, <2>3, <2>4, <2>5
<1> HIDE DEF left
<1>8. Asked = Demanded(setAside) \o Demanded(channel) /\ Ahead = setAside \o channel
  <2>1. Ahead = setAside \o channel
    BY <1>2, VectorConcats DEF Ahead
  <2> QED BY <1>2, <2>1, DemandedProperties DEF Asked
<1>9. Ahead' = left
  <2>1. parked' = left
    BY <1>2, <1>4, <1>6, VectorConcats
  <2> QED BY <1>4, <1>6, <2>1, VectorConcats DEF Ahead
<1>10. Elements(Ahead) = Elements(setAside) \cup Elements(channel)
  BY <1>2, <1>8, VectorConcat
<1> QED BY <1>3, <1>5, <1>6, <1>7, <1>8, <1>9, <1>10, AskedNext

\* A resumed session takes the requests back in their order.
LEMMA AskedResumed ==
  ASSUME Shape, NEW identifiers, Connack(TRUE, identifiers)
  PROVE  Ahead' = Ahead /\ Asked' = Asked
<1>1. parked' = <<>> /\ setAside' = setAside \o parked /\ UNCHANGED channel /\ task = "down"
  BY DEF Connack, Unpark
<1>2. setAside = <<>> /\ Vector(parked) /\ Vector(channel)
  BY <1>1 DEF Shape
<1>3. setAside' = parked
  BY <1>1, <1>2, VectorConcats
<1>4. parked \o <<>> = parked /\ <<>> \o parked = parked
  BY <1>2, VectorConcats
<1>5. Ahead' = Ahead
  BY <1>1, <1>2, <1>3, <1>4 DEF Ahead
<1> QED BY <1>5, AskedNext DEF Asked

\* A new session gets the publishes that were parked, as fresh ones, and what the queue holds.
LEMMA PublishesAnew ==
  ASSUME Shape, Shape', NEW identifiers, Connack(FALSE, identifiers)
  PROVE  /\ task = "down" /\ setAside = <<>> /\ parked' = <<>>
         /\ Vector(parked) /\ Vector(channel) /\ Vector(setAside') /\ Vector(channel')
         /\ Ahead = parked \o channel /\ Ahead' = setAside' \o channel'
         /\ \A r \in Elements(setAside') : r.kind = "publish"
         /\ Demanded(setAside') = <<>>
<1> DEFINE P == {r \in Elements(parked) : IsPublish(r)}
           p == Select(parked, IsPublish)
           fresh == [i \in DOMAIN p |-> [p[i] EXCEPT !.pkid = NoPkid]]
<1>1. /\ setAside = <<>> /\ Vector(parked) /\ Vector(channel) /\ task = "down"
      /\ parked' = <<>> /\ setAside' = fresh /\ Vector(setAside') /\ Vector(channel')
  BY VectorOf DEF Connack, Unpark, Shape
<1>2. Ahead = parked \o channel /\ Ahead' = setAside' \o channel'
  <2>1. parked \o setAside = parked /\ <<>> \o setAside' = setAside'
    BY <1>1, VectorConcats
  <2> QED BY <1>1, <2>1 DEF Ahead
<1>3. \A r \in Elements(setAside') : r.kind = "publish"
  <2>1. p = Keep(parked, P)
    BY DEF Select, Keep, Passing, Elements
  <2>2. Vector(p) /\ Elements(p) \subseteq P
    BY <1>1, <2>1, VectorKeep
  <2>3. P \subseteq PublishRecord
    <3>1. Elements(Ahead) = Elements(parked) \cup Elements(channel)
      BY <1>1, <1>2, VectorConcat
    <3>2. \A r \in P : r \in Elements(ToWrite) /\ r.kind = "publish"
      BY <3>1, ShapeTyped DEF IsPublish, IsTraffic
    <3> QED BY <3>2 DEF Shape, PublishRecord, ReleaseRecord
  <2>4. \A i \in DOMAIN p : p[i] \in P
    BY <2>2 DEF Elements
  <2> HIDE DEF p, P
  <2>5. \A i \in DOMAIN p : [p[i] EXCEPT !.pkid = NoPkid].kind = "publish"
    BY <2>3, <2>4 DEF PublishRecord
  <2> QED BY <1>1, <2>5 DEF Elements
<1> HIDE DEF p, fresh
<1>4. Demanded(setAside') = <<>>
  <2>1. Elements(setAside') \cap Demands = {}
    BY <1>3, DemandKinds
  <2> QED BY <1>1, <2>1, DemandedProperties
<1> QED BY <1>1, <1>2, <1>3, <1>4

\* A new session is asked for every wire's filter, after what the queue holds.
LEMMA AskedAnew ==
  ASSUME Shape, Shape', Worded, Structure, policy # "custom", NEW identifiers \in BOOLEAN,
         Connack(FALSE, identifiers), Len(channel) + Len(wires) <= Capacity
  PROVE  /\ Worded'
         /\ \E a, b : /\ Vector(a) /\ Vector(b) /\ Asked' = a \o b
                      /\ Elements(b) \subseteq Subscribes
                      /\ \A n \in DOMAIN wires : \E j \in DOMAIN b : b[j].filter = wires[n].filter
<1> DEFINE again == Resubscribed(identifiers)
<1>1. /\ Vector(channel) /\ Vector(wires) /\ channel' = channel \o again
      /\ Vector(setAside') /\ Vector(channel')
  BY PublishesAnew, VectorOf DEF Connack, Structure, RegistryTypeOK
<1>2. \A r \in Elements(setAside') : r.kind = "publish"
  BY PublishesAnew
<1>3. /\ Vector(again) /\ Elements(again) \subseteq Subscribes
      /\ \A n \in DOMAIN wires : \E j \in DOMAIN again : again[j].filter = wires[n].filter
  <2> DEFINE room == Capacity - Len(channel)
             k == IF Len(wires) <= room THEN Len(wires) ELSE room
             id(n) == IF identifiers THEN wires[n].identifier ELSE NoIdentifier
  <2>1. Vector(again)
    BY <1>1, ResubscribedProperties
  <2>2. /\ Len(wires) \in Nat /\ DOMAIN wires = 1..Len(wires) /\ Len(channel) \in Nat
        /\ Capacity \in Nat \ {0}
    BY <1>1, VectorPlaces, SessionAssumption
  <2>3. again = [n \in 1..k |-> Subscribe(wires[n].filter, id(n), AwaitingResubscribe(wires[n].filter))]
    BY DEF Resubscribed
  <2>4. k = Len(wires)
    BY <2>2
  <2>5. \A n \in DOMAIN wires : wires[n].filter \in Filters /\ id(n) \in Nat
    <3>1. \A n \in DOMAIN wires : wires[n] \in Wire
      BY SeqPlaces DEF Structure, RegistryTypeOK
    <3>2. \A n \in DOMAIN wires :
            wires[n].filter \in Filters /\ wires[n].identifier \in Identifiers \cup {NoIdentifier}
      BY <3>1 DEF Wire
    <3> QED BY <3>2, RegistryAssumption DEF Identifiers, NoIdentifier
  <2> HIDE DEF k, id
  <2>6. \A n \in DOMAIN wires : Subscribe(wires[n].filter, id(n), AwaitingResubscribe(wires[n].filter))
                                 \in Subscribes
    BY <2>5, WaitersKinds DEF Subscribe, Subscribes
  <2>7. DOMAIN again = DOMAIN wires /\ \A n \in DOMAIN wires :
           again[n] \in Subscribes /\ again[n].filter = wires[n].filter
    BY <2>2, <2>3, <2>4, <2>6 DEF Subscribe
  <2> HIDE DEF again
  <2> QED BY <2>1, <2>7 DEF Elements
<1> HIDE DEF again
<1>4. /\ Ahead' = setAside' \o (channel \o again) /\ Vector(channel \o again)
      /\ Elements(channel \o again) = Elements(channel) \cup Elements(again)
  BY <1>1, <1>3, PublishesAnew, VectorConcat
<1>5. Elements(Ahead') = Elements(setAside') \cup Elements(channel) \cup Elements(again)
  BY <1>1, <1>4, VectorConcat
<1>6. Elements(channel) \subseteq Elements(Ahead)
  <2>1. Ahead = parked \o channel /\ Vector(parked)
    BY PublishesAnew
  <2>2. Elements(parked \o channel) = Elements(parked) \cup Elements(channel)
    BY <1>1, <2>1, VectorConcat
  <2> QED BY <2>1, <2>2
<1>7. Worded'
  <2>1. \A r \in Elements(Ahead') : IsDemand(r) => r \in Demands
    BY <1>2, <1>3, <1>5, <1>6 DEF Worded, IsDemand, Demands
  <2>2. Elements(Ahead)' = Elements(Ahead')
    BY DEF Elements
  <2> QED BY <2>1, <2>2 DEF Worded, IsDemand
<1>8. Demanded(setAside') = <<>>
  BY PublishesAnew
<1> DEFINE a == Demanded(channel)
           b == Demanded(again)
<1>9. /\ Vector(b) /\ Elements(b) = Elements(again)
      /\ \A n \in DOMAIN wires : \E j \in DOMAIN b : b[j].filter = wires[n].filter
  <2>1. Elements(again) \subseteq Demands
    BY <1>3 DEF Demands
  <2>2. Vector(b) /\ Elements(b) = Elements(again)
    BY <1>3, <2>1, DemandedProperties
  <2> HIDE DEF b
  <2>3. \A j \in DOMAIN again : \E k \in DOMAIN b : b[k] = again[j]
    BY <2>2 DEF Elements
  <2> QED BY <1>3, <2>2, <2>3
<1>10. Vector(a) /\ Demanded(channel \o again) = a \o b
  BY <1>1, <1>3, DemandedProperties
<1> HIDE DEF a, b
<1>11. Asked' = a \o b
  <2>1. Asked' = <<>> \o Demanded(channel \o again)
    BY <1>1, <1>4, <1>8, AskedNext, DemandedProperties
  <2>2. Vector(a \o b)
    BY <1>9, <1>10, VectorConcat
  <2> QED BY <1>10, <2>1, <2>2, VectorConcats
<1>12. Elements(b) \subseteq Subscribes
  BY <1>3, <1>9
<1> QED BY <1>7, <1>9, <1>10, <1>11, <1>12

\* The task moves on to a recovery, out of one, or to its end.
LEMMA CourseStep ==
  ASSUME Course, ~Over', [Next]_vars
  PROVE  Course'
<1>1. ASSUME UNCHANGED <<task, policy, losses, renewed>> PROVE Course'
  BY <1>1 DEF Course
<1>2. CASE Lose
  <2>1. task' = "down" /\ losses' = losses + 1 /\ UNCHANGED <<policy, renewed>>
    BY <1>2 DEF Lose, GiveUp, Over
  <2> QED BY <2>1 DEF Course
<1>3. ASSUME NEW present \in BOOLEAN, NEW identifiers \in Offers, Connack(present, identifiers)
      PROVE  Course'
  <2>1. /\ task = "down" /\ UNCHANGED <<policy, losses>>
        /\ task' = IF policy = "custom" THEN "restoring" ELSE "up"
        /\ renewed' = (renewed \/ ~present)
    BY <1>3 DEF Connack
  <2> QED BY <2>1 DEF Course
<1>4. CASE DialFails \/ Closing \/ EndRecords \/ Exit \/ WriteDisconnect
  <2>1. task' = task \/ Over'
    BY <1>4 DEF DialFails, GiveUp, Closing, EndRecords, Exit, WriteDisconnect, Over
  <2>2. UNCHANGED <<policy, losses, renewed>>
    BY <1>4 DEF DialFails, GiveUp, Closing, EndRecords, Exit, WriteDisconnect, wireVars
  <2> QED BY <1>1, <2>1, <2>2
<1>5. CASE \/ \E o \in Opens : OpenCheck(o) \/ OpenJoin(o) \/ OpenSend(o) \/ Drop(o)
           \/ \E m \in Messages : PublishCheck(m) \/ PublishQueue(m)
           \/ Shutdown \/ ShutdownQueue
  BY <1>1, <1>5 DEF OpenCheck, OpenJoin, OpenSend, Drop, PublishCheck, PublishQueue, Shutdown,
                    ShutdownQueue, wireVars, taskVars
<1>6. CASE \/ WriteSubscribe \/ WriteUnsubscribe \/ WritePublish \/ WriteRelease
           \/ ReceiveSuback \/ ReceiveConfirmation \/ Sever \/ UNCHANGED vars
  BY <1>1, <1>6 DEF WriteSubscribe, WriteUnsubscribe, WritePublish, WriteRelease, ReceiveSuback,
                    ReceiveConfirmation, Sever, vars, wireVars, taskVars
<1> QED BY <1>2, <1>3, <1>4, <1>5, <1>6 DEF Next, Write

\* What the callers keep has its type.
LEMMA CallersStep ==
  ASSUME CallersTyped, Structure, ~Over', [Next]_vars
  PROVE  CallersTyped'
<1>0. nextMember \in Int
  BY DEF Structure, RegistryTypeOK
<1>1. ASSUME UNCHANGED <<pc, member, todo, server, offered>> PROVE CallersTyped'
  BY <1>1 DEF CallersTyped
<1>2. CASE \/ \E m \in Messages : PublishCheck(m) \/ PublishQueue(m)
           \/ Shutdown \/ ShutdownQueue \/ WritePublish \/ WriteRelease \/ WriteDisconnect
           \/ ReceiveConfirmation \/ Sever \/ Lose \/ DialFails \/ Closing \/ Exit
           \/ UNCHANGED vars
  <2>1. UNCHANGED <<pc, member, todo, server, offered>>
    BY <1>2 DEF PublishCheck, PublishQueue, Shutdown, ShutdownQueue, WritePublish, WriteRelease,
                ServerReleases, WriteDisconnect, ReceiveConfirmation, Sever, Lose, DialFails,
                Closing, Exit, vars, callerVars, openVars, wireVars, serverVars
  <2> QED BY <1>1, <2>1
<1>3. CASE WriteSubscribe \/ WriteUnsubscribe
  <2>1. UNCHANGED <<pc, member, todo, offered>>
    BY <1>3 DEF WriteSubscribe, WriteUnsubscribe, callerVars, openVars
  <2>2. DOMAIN server' = DOMAIN server
    BY <1>3 DEF WriteSubscribe, WriteUnsubscribe
  <2> QED BY <2>1, <2>2 DEF CallersTyped
<1>4. ASSUME NEW present \in BOOLEAN, NEW identifiers \in Offers, Connack(present, identifiers)
      PROVE  CallersTyped'
  <2>1. UNCHANGED <<pc, member, todo>> /\ offered' = identifiers
    BY <1>4 DEF Connack, callerVars, openVars
  <2>2. DOMAIN server' = Filters
    BY <1>4 DEF Connack, CallersTyped
  <2> QED BY <2>1, <2>2, RegistryAssumption DEF CallersTyped
<1>5. CASE ReceiveSuback
  <2>1. UNCHANGED <<member, todo, server, offered>>
    BY <1>5 DEF ReceiveSuback, serverVars
  <2>2. \/ pc' = pc
        \/ \E x, s : s \in {"open", "failed"} /\ pc' = [pc EXCEPT ![x] = s]
    <3> DEFINE a == Head(incoming)
               places == {i \in DOMAIN pending : pending[i].pkid = a.pkid}
               n == CHOOSE i \in places : \A j \in places : i <= j
               x == pending[n].awaiting.open
               s == IF a.accepted THEN "open" ELSE "failed"
    <3>1. pc' = pc \/ pc' = [pc EXCEPT ![x] = s]
      BY <1>5 DEF ReceiveSuback
    <3>2. s \in {"open", "failed"}
      OBVIOUS
    <3> QED BY <3>1, <3>2
  <2> QED BY <2>1, <2>2 DEF CallersTyped
<1>6. CASE EndRecords
  BY <1>6 DEF EndRecords, Over
<1>7. ASSUME NEW o \in Opens, OpenCheck(o) \/ Drop(o) PROVE CallersTyped'
  <2>1. /\ UNCHANGED <<member, todo, server, offered>>
        /\ \E s \in {"failed", "joining", "closed"} : pc' = [pc EXCEPT ![o] = s]
    BY <1>7 DEF OpenCheck, Drop, wireVars, serverVars
  <2> QED BY <2>1 DEF CallersTyped
<1>8. ASSUME NEW o \in Opens, OpenJoin(o) PROVE CallersTyped'
  <2>1. /\ UNCHANGED <<server, offered>>
        /\ \E s \in {"failed", "sending"} : pc' = [pc EXCEPT ![o] = s]
        /\ member' = member \/ member' = [member EXCEPT ![o] = nextMember]
        /\ \E t : todo' = todo \/ todo' = [todo EXCEPT ![o] = t]
    BY <1>8 DEF OpenJoin, wireVars, serverVars
  <2> QED BY <1>0, <2>1 DEF CallersTyped
<1>9. ASSUME NEW o \in Opens, OpenSend(o) PROVE CallersTyped'
  <2>1. /\ UNCHANGED <<member, server, offered>>
        /\ pc' = pc \/ \E s \in {"failed", "waiting"} : pc' = [pc EXCEPT ![o] = s]
        /\ \E t : todo' = todo \/ todo' = [todo EXCEPT ![o] = t]
    BY <1>9 DEF OpenSend, wireVars, serverVars
  <2> QED BY <2>1 DEF CallersTyped
<1> QED BY <1>2, <1>3, <1>4, <1>5, <1>6, <1>7, <1>8, <1>9 DEF Next, Write

\* The opens that stay joined keep the members they have, in their seats.
LEMMA MembersKept ==
  ASSUME Members,
         \A o \in Opens : Joined(o)' => Joined(o) /\ member'[o] = member[o],
         \A k, f, q : (\E o \in Opens : Joined(o)' /\ member[o] = k) /\ SitsOn(k, f, q)
                        => SitsOn(k, f, q)'
  PROVE  Members'
<1>1. ASSUME NEW o \in Opens, Joined(o)' PROVE SitsOn(member[o], FilterOf[o], QosOf[o])'
  <2>1. PICK k : k = member[o]
    OBVIOUS
  <2>2. SitsOn(k, FilterOf[o], QosOf[o]) /\ k = member'[o]
    BY <1>1, <2>1 DEF Members
  <2>3. SitsOn(k, FilterOf[o], QosOf[o])'
    BY <1>1, <2>1, <2>2
  <2> QED BY <2>2, <2>3 DEF SitsOn, Seat
<1>2. ASSUME NEW o \in Opens, NEW x \in Opens, Joined(o)', Joined(x)', member'[o] = member'[x]
      PROVE  o = x
  BY <1>2 DEF Members
<1> QED BY <1>1, <1>2 DEF Members

\* What is still to be queued is the same.
LEMMA QueueingKept ==
  ASSUME Queueing,
         \A o \in Opens : pc'[o] = "sending" => pc[o] = "sending" /\ todo'[o] = todo[o]
  PROVE  Queueing'
<1> SUFFICES ASSUME NEW o \in Opens, pc'[o] = "sending"
             PROVE  /\ Vector(todo[o])' /\ todo'[o] # <<>>
                    /\ todo'[o][Len(todo'[o])].filter = FilterOf[o]
                    /\ \A i \in DOMAIN todo'[o] :
                         /\ todo'[o][i].refresh <=> i < Len(todo'[o])
                         /\ todo'[o][i].filter \in Filters /\ todo'[o][i].identifier \in Nat
  BY DEF Queueing
<1>1. pc[o] = "sending" /\ todo'[o] = todo[o]
  OBVIOUS
<1>2. Vector(todo[o])' <=> Vector(todo'[o])
  BY DEF Vector
<1> QED BY <1>1, <1>2 DEF Queueing

\* A step of no open, or one that joins and leaves nothing.
LEMMA TableSteady ==
  ASSUME Structure, Members, Queueing, UNCHANGED <<registryVars, member, todo>>,
         \A o \in Opens : /\ Joined(o)' => Joined(o)
                          /\ pc'[o] = "sending" => pc[o] = "sending"
  PROVE  Structure' /\ Members' /\ Queueing'
<1>1. Structure'
  BY StructureStep
<1>2. \A k, f, q : SitsOn(k, f, q) => SitsOn(k, f, q)'
  BY SitsOnSame
<1>3. Members'
  BY <1>2, MembersKept
<1> QED BY <1>1, <1>3, QueueingKept

\* A new session leaves every member where it sits.
LEMMA SitsOnRetold ==
  ASSUME Structure, NEW offers \in BOOLEAN, Resubscribing(offers)
  PROVE  Structure' /\ \A k, f, q : SitsOn(k, f, q) => SitsOn(k, f, q)'
<1>1. Retelling
  BY DEF Retelling
<1>2. Structure'
  BY <1>1, RetellingStructure
<1>3. /\ DOMAIN wires' = DOMAIN wires
      /\ \A n \in DOMAIN wires : RetoldAs(wires[n], wires'[n])
  BY <1>1, RetellingProperties DEF Structure
<1>4. \A n \in DOMAIN wires : /\ wires'[n].members = wires[n].members
                              /\ wires'[n].filter = wires[n].filter
  BY <1>3 DEF RetoldAs
<1> QED BY <1>2, <1>3, <1>4 DEF SitsOn, Seat

\* One who leaves keeps the table's structure.
LEMMA LeaveStructure ==
  ASSUME Structure, NEW m, Leave(m)
  PROVE  Structure'
<1>1. CASE UNCHANGED registryVars
  BY <1>1, StructureStep
<1> QED BY <1>1, LeaveCases, PartingStructure, RemovalStructure

\* A join leaves the table in order, and to the one who joined what to queue.
LEMMA QueueingJoined ==
  ASSUME CallersTyped, Structure, Queueing, NEW o \in Opens, OpenJoin(o)
  PROVE  Structure' /\ Queueing'
<1>1. CASE Refused(FilterOf[o], offered)
  <2>1. UNCHANGED <<registryVars, member, todo>> /\ pc' = [pc EXCEPT ![o] = "failed"]
    BY <1>1 DEF OpenJoin
  <2>2. \A p \in Opens : pc'[p] = IF p = o THEN "failed" ELSE pc[p]
    BY <2>1 DEF CallersTyped
  <2> QED BY <2>1, <2>2, QueueingKept, StructureStep
<1>2. CASE ~Refused(FilterOf[o], offered)
  <2>1. /\ Join(FilterOf[o], QosOf[o], offered) /\ pc' = [pc EXCEPT ![o] = "sending"]
        /\ member' = [member EXCEPT ![o] = nextMember]
        /\ todo' = [todo EXCEPT ![o] = JoinRequests(wires, wires', FilterOf[o], offered)]
    BY <1>2 DEF OpenJoin
  <2>2. PICK f \in Filters, q \in Qos, offers \in BOOLEAN :
          f = FilterOf[o] /\ q = QosOf[o] /\ offers = offered
    BY SessionAssumption DEF CallersTyped
  <2>3. Join(f, q, offers)
    BY <2>1, <2>2
  <2>4. Structure'
    BY <2>3, JoiningStructure
  <2>5. PICK asked : asked = JoinRequests(wires, wires', f, offers)
    OBVIOUS
  <2>6. AsksFor(asked, f, offers)
    BY <2>3, <2>4, <2>5, JoinAsks
  <2>9. /\ \A p \in Opens : pc'[p] = IF p = o THEN "sending" ELSE pc[p]
        /\ \A p \in Opens : todo'[p] = IF p = o THEN asked ELSE todo[p]
    BY <2>1, <2>2, <2>5 DEF CallersTyped
  <2>11. \A n \in DOMAIN wires' : wires'[n].filter \in Filters /\ wires'[n].identifier \in Nat
    <3>1. wires' \in Seq(Wire)
      BY <2>4 DEF Structure, RegistryTypeOK
    <3>2. \A n \in DOMAIN wires' : wires'[n] \in Wire
      BY <3>1, SeqPlaces
    <3>3. \A n \in DOMAIN wires' :
            wires'[n].filter \in Filters /\ wires'[n].identifier \in Identifiers \cup {NoIdentifier}
      BY <3>2 DEF Wire
    <3> QED BY <3>3, RegistryAssumption DEF Identifiers, NoIdentifier
  <2>12. /\ Vector(asked) /\ asked # <<>> /\ asked[Len(asked)].filter = f
         /\ \A i \in DOMAIN asked : /\ asked[i].refresh <=> i < Len(asked)
                                    /\ asked[i].filter \in Filters /\ asked[i].identifier \in Nat
    BY <2>6, <2>11 DEF AsksFor, NoIdentifier
  <2>13. Queueing'
    <3> SUFFICES ASSUME NEW p \in Opens, pc'[p] = "sending"
                 PROVE  /\ Vector(todo[p])' /\ todo'[p] # <<>>
                        /\ todo'[p][Len(todo'[p])].filter = FilterOf[p]
                        /\ \A i \in DOMAIN todo'[p] :
                             /\ todo'[p][i].refresh <=> i < Len(todo'[p])
                             /\ todo'[p][i].filter \in Filters /\ todo'[p][i].identifier \in Nat
      BY DEF Queueing
    <3>1. Vector(todo[p])' <=> Vector(todo'[p])
      BY DEF Vector
    <3>2. CASE p = o
      BY <2>2, <2>9, <2>12, <3>1, <3>2
    <3>3. CASE p # o
      BY <2>9, <3>1, <3>3 DEF Queueing
    <3> QED BY <3>2, <3>3
  <2> QED BY <2>4, <2>13
<1> QED BY <1>1, <1>2

\* An open that joins gets a member of its own, and a request for its filter to end with.
LEMMA TableJoined ==
  ASSUME CallersTyped, Structure, Members, Queueing, NEW o \in Opens, OpenJoin(o)
  PROVE  Structure' /\ Members' /\ Queueing'
<1>1. CASE Refused(FilterOf[o], offered)
  <2>1. UNCHANGED <<registryVars, member, todo>> /\ pc' = [pc EXCEPT ![o] = "failed"]
    BY <1>1 DEF OpenJoin
  <2>2. \A p \in Opens : pc'[p] = IF p = o THEN "failed" ELSE pc[p]
    BY <2>1 DEF CallersTyped
  <2> QED BY <2>1, <2>2, TableSteady DEF Joined
<1>2. CASE ~Refused(FilterOf[o], offered)
  <2>1. /\ Join(FilterOf[o], QosOf[o], offered) /\ pc' = [pc EXCEPT ![o] = "sending"]
        /\ member' = [member EXCEPT ![o] = nextMember]
    BY <1>2 DEF OpenJoin
  <2>2. PICK f \in Filters, q \in Qos, offers \in BOOLEAN :
          f = FilterOf[o] /\ q = QosOf[o] /\ offers = offered
    BY SessionAssumption DEF CallersTyped
  <2>3. Join(f, q, offers)
    BY <2>1, <2>2
  <2>4. Structure' /\ Queueing'
    BY QueueingJoined
  <2>7. /\ \A m, g, r : SitsOn(m, g, r) => SitsOn(m, g, r)'
        /\ \A m : m = nextMember => SitsOn(m, f, q)'
    BY <2>3, SitsOnJoined
  <2>8. \A m : Sits(m) => m # nextMember
    BY SitsBefore DEF Structure, RegistryTypeOK
  <2>9. /\ \A p \in Opens : pc'[p] = IF p = o THEN "sending" ELSE pc[p]
        /\ \A p \in Opens : member'[p] = IF p = o THEN nextMember ELSE member[p]
    BY <2>1 DEF CallersTyped
  <2>10. Members'
    <3>1. ASSUME NEW p \in Opens, Joined(p)' PROVE SitsOn(member[p], FilterOf[p], QosOf[p])'
      <4>1. PICK k : k = member'[p]
        OBVIOUS
      <4>2. CASE p = o
        <5>1. SitsOn(k, FilterOf[p], QosOf[p])'
          BY <2>2, <2>7, <2>9, <4>1, <4>2
        <5> QED BY <4>1, <5>1 DEF SitsOn, Seat
      <4>3. CASE p # o
        <5>1. Joined(p) /\ k = member[p]
          BY <2>9, <3>1, <4>1, <4>3 DEF Joined
        <5>2. SitsOn(k, FilterOf[p], QosOf[p])
          BY <5>1 DEF Members
        <5>3. SitsOn(k, FilterOf[p], QosOf[p])'
          BY <2>7, <5>2
        <5> QED BY <4>1, <5>3 DEF SitsOn, Seat
      <4> QED BY <4>2, <4>3
    <3>2. ASSUME NEW p \in Opens, Joined(p)', p # o PROVE member'[p] # nextMember
      <4>1. Joined(p) /\ member'[p] = member[p]
        BY <2>9, <3>2 DEF Joined
      <4>2. SitsOn(member[p], FilterOf[p], QosOf[p])
        BY <4>1 DEF Members
      <4>3. Sits(member[p])
        BY <4>2 DEF SitsOn, Sits
      <4> QED BY <2>8, <4>1, <4>3
    <3>3. ASSUME NEW p \in Opens, NEW x \in Opens, Joined(p)', Joined(x)', member'[p] = member'[x]
          PROVE  p = x
      <4>1. CASE p # o /\ x # o
        BY <2>9, <3>3, <4>1 DEF Members, Joined
      <4> QED BY <2>9, <3>2, <3>3, <4>1
    <3> QED BY <3>1, <3>3 DEF Members
  <2> QED BY <2>4, <2>10
<1> QED BY <1>1, <1>2

\* So does an open that queues a request of its own, or finds one moot.
LEMMA QueueingSent ==
  ASSUME CallersTyped, Structure, Queueing, NEW o \in Opens, OpenSend(o), ~GivesUp(o)
  PROVE  /\ Structure' /\ Queueing' /\ UNCHANGED <<registryVars, member>>
         /\ \A p \in Opens : Joined(p)' => Joined(p)
<1> DEFINE request == Head(todo[o])
           rest == Tail(todo[o])
<1>1. /\ UNCHANGED <<registryVars, member>> /\ todo' = [todo EXCEPT ![o] = rest]
      /\ pc[o] = "sending"
      /\ \/ request.refresh /\ pc' = pc
         \/ pc' = IF request.refresh THEN pc ELSE [pc EXCEPT ![o] = "waiting"]
  BY DEF OpenSend, GivesUp
<1>2. /\ Vector(todo[o]) /\ todo[o] # <<>> /\ todo[o][Len(todo[o])].filter = FilterOf[o]
      /\ \A i \in DOMAIN todo[o] : /\ todo[o][i].refresh <=> i < Len(todo[o])
                                   /\ todo[o][i].filter \in Filters
                                   /\ todo[o][i].identifier \in Nat
  BY <1>1 DEF Queueing
<1>3. /\ Vector(rest) /\ Len(todo[o]) \in Nat \ {0} /\ DOMAIN todo[o] = 1..Len(todo[o])
      /\ Len(rest) = Len(todo[o]) - 1 /\ DOMAIN rest = 1..(Len(todo[o]) - 1)
      /\ request = todo[o][1] /\ 1 \in DOMAIN todo[o]
      /\ \A i \in DOMAIN rest : i + 1 \in DOMAIN todo[o] /\ rest[i] = todo[o][i + 1]
  BY <1>2, VectorTail
<1> HIDE DEF request, rest
<1>4. /\ \A p \in Opens : todo'[p] = IF p = o THEN rest ELSE todo[p]
      /\ \A p \in Opens \ {o} : pc'[p] = pc[p]
      /\ pc'[o] = IF request.refresh THEN "sending" ELSE "waiting"
  BY <1>1 DEF CallersTyped
<1>5. Structure'
  BY <1>1, StructureStep
<1>6. \A p \in Opens : Joined(p)' => Joined(p)
  BY <1>1, <1>4 DEF Joined
<1>7. PICK len \in Nat \ {0} : len = Len(todo[o])
  BY <1>3
<1>8. ASSUME request.refresh
      PROVE  /\ rest # <<>> /\ rest[Len(rest)].filter = FilterOf[o]
             /\ \A i \in DOMAIN rest : /\ rest[i].refresh <=> i < Len(rest)
                                       /\ rest[i].filter \in Filters /\ rest[i].identifier \in Nat
  <2>1. 1 < len
    BY <1>2, <1>3, <1>7, <1>8
  <2>2. Len(rest) \in DOMAIN rest /\ Len(rest) + 1 = len
    BY <1>3, <1>7, <2>1
  <2>3. rest # <<>>
    <3>1. DOMAIN <<>> = {}
      OBVIOUS
    <3> QED BY <2>2, <3>1, Zenon
  <2>4. rest[Len(rest)] = todo[o][Len(todo[o])]
    BY <1>3, <1>7, <2>2
  <2>5. \A i \in DOMAIN rest : i < Len(rest) <=> i + 1 < len
    BY <1>3, <1>7
  <2> QED BY <1>2, <1>3, <1>7, <2>3, <2>4, <2>5
<1>9. Queueing'
  <2> SUFFICES ASSUME NEW p \in Opens, pc'[p] = "sending"
               PROVE  /\ Vector(todo[p])' /\ todo'[p] # <<>>
                      /\ todo'[p][Len(todo'[p])].filter = FilterOf[p]
                      /\ \A i \in DOMAIN todo'[p] :
                           /\ todo'[p][i].refresh <=> i < Len(todo'[p])
                           /\ todo'[p][i].filter \in Filters /\ todo'[p][i].identifier \in Nat
    BY DEF Queueing
  <2>1. Vector(todo[p])' <=> Vector(todo'[p])
    BY DEF Vector
  <2>2. CASE p = o
    <3>1. request.refresh
      BY <1>4, <2>2
    <3> QED BY <1>3, <1>4, <1>8, <2>1, <2>2, <3>1
  <2>3. CASE p # o
    <3>1. todo'[p] = todo[p] /\ pc[p] = "sending"
      BY <1>4, <2>3
    <3> QED BY <2>1, <3>1 DEF Queueing
  <2> QED BY <2>2, <2>3
<1> QED BY <1>1, <1>5, <1>6, <1>9

\* An open queues a request of its own, or finds one moot.
LEMMA TableSent ==
  ASSUME CallersTyped, Structure, Members, Queueing, NEW o \in Opens, OpenSend(o), ~GivesUp(o)
  PROVE  Structure' /\ Members' /\ Queueing'
<1>1. /\ Structure' /\ Queueing' /\ UNCHANGED <<registryVars, member>>
      /\ \A p \in Opens : Joined(p)' => Joined(p)
  BY QueueingSent
<1>2. \A k, f, q : SitsOn(k, f, q) => SitsOn(k, f, q)'
  BY <1>1, SitsOnSame
<1>3. Members'
  BY <1>1, <1>2, MembersKept
<1> QED BY <1>1, <1>3

\* A subscriber that is dropped, or an open that gives up, leaves its seat.
LEMMA TableLeft ==
  ASSUME CallersTyped, Structure, Members, Queueing, NEW o \in Opens, pc[o] \in {"sending", "open"},
         Leave(member[o]), UNCHANGED <<member, todo>>,
         NEW s \in {"failed", "closed"}, pc' = [pc EXCEPT ![o] = s]
  PROVE  Structure' /\ Members' /\ Queueing'
<1>1. \A p \in Opens : pc'[p] = IF p = o THEN s ELSE pc[p]
  BY DEF CallersTyped
<1>2. PICK m : m = member[o]
  OBVIOUS
<1>3. Leave(m)
  BY <1>2
<1>4. Structure' /\ \A k, f, q : k # m /\ SitsOn(k, f, q) => SitsOn(k, f, q)'
  BY <1>3, LeaveStructure, SitsOnLeft
<1>5. \A p \in Opens : Joined(p)' => Joined(p) /\ member'[p] = member[p] /\ member[p] # m
  BY <1>1, <1>2 DEF Joined, Members
<1>6. Members'
  BY <1>4, <1>5, MembersKept
<1> QED BY <1>1, <1>4, <1>6, QueueingKept

\* What the answer to a subscribe makes of its record and of the open that waits for it.
Told(r, a) ==
  /\ r \in Elements(pending) /\ a \in Elements(incoming) /\ a.kind = "suback" /\ a.pkid = r.pkid
  /\ \A s \in Elements(pending)' :
       s.awaiting.kind = "open" => s.awaiting # r.awaiting
  /\ \/ /\ r.awaiting.kind = "open" /\ pc' = [pc EXCEPT ![r.awaiting.open] = "open"]
        /\ UNCHANGED registryVars
     \/ /\ \E accepted \in BOOLEAN : Identified(r.awaiting.filter, accepted)
        /\ UNCHANGED pc
     \/ UNCHANGED <<registryVars, pc>>

\* A SUBACK that is read leaves fewer answers and records, and tells the one it is for.
LEMMA SubackTaken ==
  ASSUME SInv, RInv, Recorded, Granted, ReceiveSuback
  PROVE  /\ Elements(incoming)' \subseteq Elements(incoming)
         /\ Vector(pending)' /\ Elements(pending)' \subseteq Elements(pending)
         /\ \A i, j \in DOMAIN pending' :
              pending'[i].awaiting = pending'[j].awaiting /\ pending'[i].awaiting.kind = "open"
                => i = j
         /\ UNCHANGED <<registryVars, pc, pending>> \/ \E r, a : Told(r, a)
<1> DEFINE a == Head(incoming)
           places == {i \in DOMAIN pending : pending[i].pkid = a.pkid}
           n == CHOOSE i \in places : \A j \in places : i <= j
<1>1. /\ incoming # <<>> /\ incoming' = Tail(incoming) /\ a.kind = "suback"
      /\ IF places = {} THEN UNCHANGED <<registryVars, pc, pending>>
         ELSE /\ pending' = Without(pending, n)
              /\ \/ /\ pending[n].awaiting.kind = "open"
                    /\ pc' = [pc EXCEPT ![pending[n].awaiting.open] =
                                IF a.accepted THEN "open" ELSE "failed"]
                    /\ IF a.accepted THEN UNCHANGED registryVars
                       ELSE Leave(member[pending[n].awaiting.open])
                 \/ /\ Identified(pending[n].awaiting.filter, a.accepted)
                    /\ UNCHANGED pc
                 \/ UNCHANGED <<registryVars, pc>>
  BY DEF ReceiveSuback, Reads
<1>2. Vector(incoming) /\ Vector(pending) /\ DOMAIN pending = 1..Len(pending) /\ Len(pending) \in Nat
      /\ \A i \in DOMAIN pending : pending[i] \in Elements(pending)
  BY VectorPlaces DEF SInv, Shape, RInv, InStep
<1>3. a \in Elements(incoming) /\ Elements(incoming)' \subseteq Elements(incoming)
  <2>1. Elements(incoming) = {a} \cup Elements(Tail(incoming))
    BY <1>1, <1>2, VectorHeadTail
  <2>2. Elements(incoming)' = Elements(Tail(incoming))
    BY <1>1 DEF Elements
  <2> QED BY <2>1, <2>2
<1>4. a.accepted = TRUE
  BY <1>1, <1>3 DEF Granted
<1>5. CASE places = {}
  <2>1. UNCHANGED <<registryVars, pc, pending>>
    BY <1>1, <1>5
  <2>2. Elements(pending)' = Elements(pending) /\ Vector(pending)' = Vector(pending)
    BY <2>1 DEF Elements, Vector
  <2> QED BY <1>2, <1>3, <2>1, <2>2 DEF Recorded
<1>6. CASE places # {}
  <2>1. n \in places
    <3>1. \E i \in places : \A j \in places : i <= j
      BY <1>2, <1>6, FirstPlace
    <3> QED BY <3>1
  <2>2. n \in DOMAIN pending /\ pending[n].pkid = a.pkid
    BY <2>1
  <2>3. PICK p : p = n
    OBVIOUS
  <2>4. PICK acc : acc = a.accepted
    OBVIOUS
  <2>5. /\ pending' = Without(pending, p)
        /\ \/ /\ pending[p].awaiting.kind = "open"
              /\ pc' = [pc EXCEPT ![pending[p].awaiting.open] = "open"]
              /\ UNCHANGED registryVars
           \/ Identified(pending[p].awaiting.filter, acc) /\ UNCHANGED pc
           \/ UNCHANGED <<registryVars, pc>>
    BY <1>1, <1>4, <1>6, <2>3, <2>4
  <2>6. /\ p \in DOMAIN pending /\ pending[p].pkid = a.pkid /\ acc \in BOOLEAN
        /\ a.kind = "suback"
    BY <1>1, <1>4, <2>2, <2>3, <2>4
  <2> HIDE DEF n, places, a
  <2>7. pending \in Seq(Elements(pending))
    BY <1>2, VectorIn
  <2>8. PICK w : w = Without(pending, p)
    OBVIOUS
  <2>9. /\ w \in Seq(Elements(pending))
        /\ \A i \in DOMAIN w : /\ Shifted(p, i) \in DOMAIN pending \ {p}
                               /\ w[i] = pending[Shifted(p, i)]
        /\ \A i, j \in DOMAIN w : Shifted(p, i) = Shifted(p, j) => i = j
    BY <2>6, <2>7, <2>8, WithoutProperties
  <2>10. pending' = w /\ Vector(w) /\ Elements(w) \subseteq Elements(pending)
    BY <2>5, <2>8, <2>9, VectorOf
  <2>11. Elements(pending)' = Elements(w) /\ Vector(pending)'
    BY <2>10 DEF Elements, Vector
  <2>12. \A s \in Elements(w) : s.awaiting.kind = "open" => s.awaiting # pending[p].awaiting
    <3> SUFFICES ASSUME NEW i \in DOMAIN w, w[i].awaiting.kind = "open",
                        w[i].awaiting = pending[p].awaiting
                 PROVE  FALSE
      BY DEF Elements
    <3>1. Shifted(p, i) \in DOMAIN pending /\ Shifted(p, i) # p /\ w[i] = pending[Shifted(p, i)]
      BY <2>9
    <3> QED BY <2>6, <3>1 DEF Recorded
  <2>13. \A i, j \in DOMAIN w :
           w[i].awaiting = w[j].awaiting /\ w[i].awaiting.kind = "open" => i = j
    <3> SUFFICES ASSUME NEW i \in DOMAIN w, NEW j \in DOMAIN w, w[i].awaiting = w[j].awaiting,
                        w[i].awaiting.kind = "open"
                 PROVE  i = j
      OBVIOUS
    <3>1. /\ Shifted(p, i) \in DOMAIN pending /\ w[i] = pending[Shifted(p, i)]
          /\ Shifted(p, j) \in DOMAIN pending /\ w[j] = pending[Shifted(p, j)]
      BY <2>9
    <3>2. Shifted(p, i) = Shifted(p, j)
      BY <3>1 DEF Recorded
    <3> QED BY <2>9, <3>2
  <2>14. Told(pending[p], a)
    <3>1. PICK r : r = pending[p]
      OBVIOUS
    <3>2. Told(r, a)
      BY <1>2, <1>3, <2>5, <2>6, <2>11, <2>12, <3>1 DEF Told
    <3> QED BY <3>1, <3>2
  <2> QED BY <1>3, <2>10, <2>11, <2>13, <2>14
<1> QED BY <1>5, <1>6

\* Every step keeps the registry's table, who sits at it, and what the opens have to queue.
LEMMA TableStep ==
  ASSUME SInv, RInv, CallersTyped, Structure, Members, Queueing, Recorded, Granted,
         ~Over', [Next]_vars
  PROVE  Structure' /\ Members' /\ Queueing'
<1>0. ~Over
  BY OverStays
<1>1. ASSUME NEW o \in Opens, OpenJoin(o) PROVE Structure' /\ Members' /\ Queueing'
  BY <1>1, TableJoined
<1>2. ASSUME NEW o \in Opens, OpenSend(o) PROVE Structure' /\ Members' /\ Queueing'
  <2>1. CASE GivesUp(o)
    BY <2>1, TableLeft DEF GivesUp
  <2>2. CASE ~GivesUp(o)
    BY <1>2, <2>2, TableSent
  <2> QED BY <2>1, <2>2
<1>3. ASSUME NEW o \in Opens, Drop(o) PROVE Structure' /\ Members' /\ Queueing'
  BY <1>3, TableLeft DEF Drop
<1>4. CASE ReceiveSuback
  <2>1. UNCHANGED <<member, todo>>
    BY <1>4 DEF ReceiveSuback
  <2>2. ASSUME UNCHANGED <<registryVars, pc>> PROVE Structure' /\ Members' /\ Queueing'
    BY <2>1, <2>2, TableSteady DEF Joined
  <2>3. ASSUME NEW r, NEW a, Told(r, a) PROVE Structure' /\ Members' /\ Queueing'
    <3>1. r.awaiting \in Waiters /\ (r.awaiting.kind = "open" => pc[r.awaiting.open] = "waiting")
      BY <2>3 DEF Told, Recorded
    <3>2. CASE /\ r.awaiting.kind = "open" /\ pc' = [pc EXCEPT ![r.awaiting.open] = "open"]
               /\ UNCHANGED registryVars
      <4>1. \A p \in Opens : pc'[p] = pc[p] \/ (pc[p] = "waiting" /\ pc'[p] = "open")
        BY <3>1, <3>2 DEF CallersTyped
      <4>2. \A p \in Opens : (Joined(p)' => Joined(p)) /\ (pc'[p] = "sending" => pc[p] = "sending")
        BY <4>1 DEF Joined
      <4> QED BY <2>1, <3>2, <4>2, TableSteady
    <3>3. ASSUME NEW accepted \in BOOLEAN, Identified(r.awaiting.filter, accepted), UNCHANGED pc
          PROVE  Structure' /\ Members' /\ Queueing'
      <4>1. PICK f \in Filters : f = r.awaiting.filter
        BY <3>1, WaitersKinds
      <4>2. Identified(f, accepted)
        BY <3>3, <4>1
      <4>3. Structure'
        BY <4>2, RetellingStructure DEF Retelling
      <4>4. \A k, g, q : SitsOn(k, g, q) => SitsOn(k, g, q)'
        BY <4>2, SitsOnSame
      <4>5. Members'
        BY <2>1, <3>3, <4>4, MembersKept DEF Joined
      <4> QED BY <2>1, <3>3, <4>3, <4>5, QueueingKept
    <3> QED BY <2>2, <2>3, <3>2, <3>3 DEF Told
  <2> QED BY <1>4, <2>2, <2>3, SubackTaken
<1>5. ASSUME NEW present \in BOOLEAN, NEW identifiers \in Offers, Connack(present, identifiers)
      PROVE  Structure' /\ Members' /\ Queueing'
  <2>1. UNCHANGED <<pc, member, todo>>
    BY <1>5 DEF Connack, callerVars, openVars
  <2>2. CASE present
    <3>1. UNCHANGED registryVars
      BY <1>5, <2>2 DEF Connack
    <3> QED BY <2>1, <3>1, TableSteady DEF Joined
  <2>3. CASE ~present
    <3>1. Resubscribing(identifiers) /\ identifiers \in BOOLEAN
      BY <1>5, <2>3, RegistryAssumption DEF Connack
    <3>2. Structure' /\ \A k, f, q : SitsOn(k, f, q) => SitsOn(k, f, q)'
      BY <3>1, SitsOnRetold
    <3>3. Members'
      BY <2>1, <3>2, MembersKept DEF Joined
    <3> QED BY <2>1, <3>2, <3>3, QueueingKept
  <2> QED BY <2>2, <2>3
<1>6. ASSUME NEW o \in Opens, OpenCheck(o) PROVE Structure' /\ Members' /\ Queueing'
  <2>1. /\ UNCHANGED <<registryVars, member, todo>>
        /\ \E s \in {"failed", "joining"} : pc' = [pc EXCEPT ![o] = s]
    BY <1>6 DEF OpenCheck
  <2>2. \A p \in Opens : pc'[p] = pc[p] \/ pc'[p] \in {"failed", "joining"}
    BY <2>1 DEF CallersTyped
  <2>3. \A p \in Opens : (Joined(p)' => Joined(p)) /\ (pc'[p] = "sending" => pc[p] = "sending")
    BY <2>2 DEF Joined
  <2> QED BY <2>1, <2>3, TableSteady
<1>7. CASE \/ \E m \in Messages : PublishCheck(m) \/ PublishQueue(m)
           \/ Shutdown \/ ShutdownQueue \/ Write
           \/ ReceiveConfirmation \/ Sever \/ Lose \/ DialFails \/ Closing \/ Exit
           \/ UNCHANGED vars
  <2>1. UNCHANGED <<registryVars, pc, member, todo>>
    <3>1. CASE \/ \E m \in Messages : PublishCheck(m) \/ PublishQueue(m)
               \/ Shutdown \/ ShutdownQueue \/ ReceiveConfirmation \/ Sever \/ Closing \/ Exit
               \/ UNCHANGED vars
      BY <3>1 DEF PublishCheck, PublishQueue, Shutdown, ShutdownQueue, ReceiveConfirmation, Sever,
                  Closing, Exit, vars, callerVars, openVars
    <3>2. CASE Write
      BY <3>2 DEF Write, WriteSubscribe, WriteUnsubscribe, WritePublish, WriteRelease,
                  WriteDisconnect, callerVars, openVars
    <3>3. CASE Lose \/ DialFails
      BY <1>0, <3>3 DEF Lose, DialFails, GiveUp, Over, callerVars, openVars
    <3> QED BY <1>7, <3>1, <3>2, <3>3
  <2> QED BY <2>1, TableSteady DEF Joined
<1>8. CASE EndRecords
  BY <1>8 DEF EndRecords, Over
<1> QED BY <1>1, <1>2, <1>3, <1>4, <1>5, <1>6, <1>7, <1>8 DEF Next

\* Nothing that the subscriptions depend on changes, but that subscribers are dropped and
\* connections lost.
Calm ==
  /\ UNCHANGED <<pending, renewed, server>> /\ Asked' = Asked
  /\ \A r \in Elements(Ahead') : IsDemand(r) => r \in Elements(Ahead)
  /\ \A a \in Elements(incoming') : a.kind = "suback" => a \in Elements(incoming)
  /\ lastPkid \in Nat /\ lastPkid' \in Nat /\ lastPkid' >= lastPkid
  /\ \A o \in Opens : /\ pc'[o] = "waiting" <=> pc[o] = "waiting"
                      /\ pc'[o] = "open" => pc[o] = "open"
  /\ renewed /\ losses' <= 1 /\ ~severed' => losses <= 1 /\ ~severed

\* Such a step keeps what is told of the subscriptions.
LEMMA CalmKeeps ==
  ASSUME Lasting, Calm
  PROVE  Lasting'
<1>1. /\ Elements(Ahead)' = Elements(Ahead') /\ Elements(incoming)' = Elements(incoming')
      /\ Elements(pending)' = Elements(pending) /\ Elements(Asked)' = Elements(Asked)
  BY DEF Elements, Calm
<1>2. Worded'
  BY <1>1 DEF Lasting, Calm, Worded, IsDemand
<1>3. Recorded'
  <2>1. \A r \in Elements(pending) : /\ r.awaiting \in Waiters /\ r.pkid \in 0..lastPkid
                                     /\ r.awaiting.kind = "open" => pc[r.awaiting.open] = "waiting"
    BY DEF Lasting, Recorded
  <2>2. ASSUME NEW r \in Elements(pending)
        PROVE  /\ r.awaiting \in Waiters /\ r.pkid \in 0..lastPkid'
               /\ r.awaiting.kind = "open" => pc'[r.awaiting.open] = "waiting"
    <3>1. r.awaiting.kind = "open" => r.awaiting.open \in Opens
      BY <2>1, WaitersKinds
    <3>2. r.pkid \in 0..lastPkid'
      BY <2>1 DEF Calm
    <3> QED BY <2>1, <3>1, <3>2 DEF Calm
  <2>3. pending' = pending
    BY DEF Calm
  <2> QED BY <1>1, <2>2, <2>3 DEF Lasting, Recorded, Waiters
<1>4. Granted'
  <2>1. \A a \in Elements(incoming) : a.kind = "suback" => a.accepted = TRUE /\ a.pkid \in 1..lastPkid
    BY DEF Lasting, Granted
  <2>2. \A k \in 1..lastPkid : k \in 1..lastPkid'
    BY DEF Calm
  <2> QED BY <1>1, <2>1, <2>2 DEF Granted, Calm
<1>5. Behind'
  BY DEF Lasting, Calm, Behind
<1>6. \A f : Firm(f)' = Firm(f)
  BY <1>1 DEF Firm, Calm
<1>7. Upheld'
  <2> SUFFICES ASSUME ~renewed'
               PROVE  /\ \A o \in Opens : pc'[o] = "open" => Firm(FilterOf[o])'
                      /\ \A r \in Elements(pending)', a \in Elements(incoming)' :
                           r.awaiting.kind = "open" /\ a.kind = "suback" /\ a.pkid = r.pkid
                             => Firm(r.awaiting.filter)'
    BY DEF Upheld
  <2>1. /\ \A o \in Opens : pc[o] = "open" => Firm(FilterOf[o])
        /\ \A r \in Elements(pending), a \in Elements(incoming) :
             r.awaiting.kind = "open" /\ a.kind = "suback" /\ a.pkid = r.pkid
               => Firm(r.awaiting.filter)
    BY DEF Lasting, Upheld, Calm
  <2>2. \A o \in Opens : pc'[o] = "open" => Firm(FilterOf[o])'
    BY <1>6, <2>1 DEF Calm
  <2>3. \A r \in Elements(pending), a \in Elements(incoming') :
             r.awaiting.kind = "open" /\ a.kind = "suback" /\ a.pkid = r.pkid
               => Firm(r.awaiting.filter)'
    BY <1>6, <2>1 DEF Calm
  <2> QED BY <1>1, <2>2, <2>3
<1>8. \A f : Coming(f)' = Coming(f)
  BY DEF Coming, Subscribing, Calm
<1>9. Restored'
  <2> SUFFICES ASSUME renewed', losses' <= 1, ~severed', NEW o \in Opens,
                      pc'[o] \in {"waiting", "open"}
               PROVE  Coming(FilterOf[o])'
    BY DEF Restored
  <2> QED BY <1>8 DEF Lasting, Restored, Calm
<1> QED BY <1>2, <1>3, <1>4, <1>5, <1>7, <1>9 DEF Lasting

\* The steps of callers, and of the task, that no subscription depends on.
LEMMA CalmSteady ==
  ASSUME SInv, SInv', UNCHANGED <<pending, parked, setAside, channel, incoming, lastPkid, renewed,
                                  server, losses>>,
         severed => severed',
         \A o \in Opens : /\ pc'[o] = "waiting" <=> pc[o] = "waiting"
                          /\ pc'[o] = "open" => pc[o] = "open"
  PROVE  Calm
<1>1. Asked' = Asked /\ Ahead' = Ahead
  BY AskedKept DEF Ahead
<1>2. lastPkid \in Nat
  BY DEF SInv, Ledger, Numbered
<1> QED BY <1>1, <1>2 DEF Calm

\* A request that asks for nothing enters the queue.
LEMMA CalmQueued ==
  ASSUME SInv, SInv', NEW x, ~IsDemand(x), channel' = Append(channel, x),
         UNCHANGED <<pc, pending, parked, setAside, incoming, lastPkid, renewed, server, losses, severed>>
  PROVE  Calm
<1>1. x \notin Demands
  BY DemandKinds DEF IsDemand
<1>2. Asked' = Asked /\ Elements(Ahead') = Elements(Ahead) \cup {x}
  BY <1>1, AskedQueued DEF SInv
<1>3. lastPkid \in Nat
  BY DEF SInv, Ledger, Numbered
<1> QED BY <1>2, <1>3 DEF Calm

\* What is sent and answered besides.
LEMMA CalmTraffic ==
  ASSUME SInv, SInv', WritePublish \/ WriteRelease \/ ReceiveConfirmation
  PROVE  Calm
<1>1. /\ Shape /\ Vector(incoming) /\ lastPkid \in Nat /\ lastPkid' \in Nat
  BY DEF SInv, Shape, Ledger, Numbered
<1>2. UNCHANGED <<pc, pending, parked, renewed, server, losses, severed>>
  BY DEF WritePublish, WriteRelease, ServerReleases, ReceiveConfirmation, callerVars, openVars,
         taskVars
<1>3. lastPkid' >= lastPkid
  <2>1. lastPkid' = lastPkid \/ lastPkid' = lastPkid + 1
    BY DEF WritePublish, WriteRelease, ReceiveConfirmation
  <2> QED BY <1>1, <2>1
<1>4. /\ Asked' = Asked
      /\ \A r \in Elements(Ahead') : IsDemand(r) => r \in Elements(Ahead)
  <2>1. CASE ReceiveConfirmation
    <3>1. UNCHANGED <<parked, setAside, channel>>
      BY <2>1 DEF ReceiveConfirmation
    <3> QED BY <3>1, AskedKept DEF Ahead
  <2>2. ASSUME NEW kind \in {"publish", "release"}, Up(kind), Dequeue
        PROVE  /\ Asked' = Asked
               /\ \A r \in Elements(Ahead') : IsDemand(r) => r \in Elements(Ahead)
    <3>1. /\ Vector(Asked') /\ Request.kind = kind
          /\ Asked = IF Request \in Demands THEN <<Request>> \o Asked' ELSE Asked'
          /\ Elements(Ahead') \subseteq Elements(Ahead)
      BY <1>1, <1>2, <2>2, AskedWritten
    <3>2. Request \notin Demands
      BY <3>1, DemandKinds
    <3> QED BY <3>1, <3>2
  <2> QED BY <2>1, <2>2 DEF WritePublish, WriteRelease
<1>5. \E a, s : /\ a.kind # "suback" /\ Vector(s) /\ Elements(s) \subseteq Elements(incoming)
                /\ incoming' = s \/ incoming' = Append(s, a)
  <2>1. CASE ReceiveConfirmation
    <3>1. incoming # <<>>
      BY <2>1 DEF ReceiveConfirmation, Reads
    <3>2. Vector(Tail(incoming)) /\ Elements(Tail(incoming)) \subseteq Elements(incoming)
      BY <1>1, <3>1, VectorHeadTail
    <3> DEFINE a == [kind |-> "pubcomp", pkid |-> Head(incoming).pkid]
    <3>3. incoming' = Tail(incoming) \/ incoming' = Append(Tail(incoming), a)
      BY <2>1 DEF ReceiveConfirmation
    <3>4. a.kind # "suback"
      OBVIOUS
    <3> HIDE DEF a
    <3> QED BY <3>2, <3>3, <3>4
  <2>2. CASE WritePublish
    <3> DEFINE kind == IF LevelOf[Request.message] = 1 THEN "puback" ELSE "pubrec"
               pkid == IF Request.pkid = NoPkid THEN lastPkid + 1 ELSE Request.pkid
               a == [kind |-> kind, pkid |-> pkid]
    <3>1. Answer(a)
      BY <2>2 DEF WritePublish
    <3>2. a.kind # "suback"
      OBVIOUS
    <3> HIDE DEF a
    <3> QED BY <1>1, <3>1, <3>2 DEF Answer
  <2>3. CASE WriteRelease
    <3> DEFINE a == [kind |-> "pubcomp", pkid |-> Request.pkid]
    <3>1. a.kind # "suback" /\ Answer(a)
      BY <2>3 DEF WriteRelease, ServerReleases
    <3> HIDE DEF a
    <3> QED BY <1>1, <3>1 DEF Answer
  <2> QED BY <2>1, <2>2, <2>3
<1>6. \A a \in Elements(incoming') : a.kind = "suback" => a \in Elements(incoming)
  <2>1. PICK a, s : /\ a.kind # "suback" /\ Vector(s) /\ Elements(s) \subseteq Elements(incoming)
                    /\ incoming' = s \/ incoming' = Append(s, a)
    BY <1>5
  <2>2. Elements(Append(s, a)) = Elements(s) \cup {a}
    BY <2>1, VectorAppend
  <2> QED BY <2>1, <2>2
<1> QED BY <1>1, <1>2, <1>3, <1>4, <1>6 DEF Calm

\* The connection is lost: what was asked for is parked, and no answer is left.  A
\* connection lost once has a session that was never renewed.
LEMMA CalmLost ==
  ASSUME SInv, SInv', Course, Lose, ~Over'
  PROVE  Calm
<1>1. UNCHANGED <<pc, pending, renewed, server, lastPkid>> /\ losses' = losses + 1 /\ incoming' = <<>>
  BY DEF Lose, callerVars, openVars, serverVars
<1>2. /\ Asked' = Asked
      /\ \A r \in Elements(Ahead') : r.kind \in {"publish", "release"} \/ r \in Elements(Ahead)
  BY AskedLost
<1>3. Elements(incoming') = {} /\ lastPkid \in Nat
  BY <1>1, VectorEmpty DEF SInv, Ledger, Numbered
<1>4. ~(renewed /\ losses' <= 1)
  BY <1>1 DEF Course
<1> QED BY <1>1, <1>2, <1>3, <1>4 DEF Calm, IsDemand

\* A resumed session has all it had.
LEMMA CalmResumed ==
  ASSUME SInv, SInv', Course, NEW identifiers \in Offers, Connack(TRUE, identifiers)
  PROVE  Calm
<1>1. Ahead' = Ahead /\ Asked' = Asked
  BY AskedResumed DEF SInv
<1>2. /\ UNCHANGED <<pc, pending, server, lastPkid, incoming, severed, losses>>
      /\ renewed' = (renewed \/ FALSE)
  BY DEF Connack, callerVars, openVars
<1>3. lastPkid \in Nat
  BY DEF SInv, Ledger, Numbered
<1>4. renewed' = renewed
  <2>1. renewed \in BOOLEAN
    BY DEF Course
  <2> QED BY <1>2, <2>1
<1> QED BY <1>1, <1>2, <1>3, <1>4 DEF Calm

\* Each subscribe still to be written has a record that awaits its answer for the same.
LEMMA RecordedFor ==
  ASSUME SInv, InStep(TRUE)
  PROVE  \A s \in Elements(Ahead) : s.kind = "subscribe" =>
           \E r \in Elements(pending) : r.awaiting = s.awaiting
<1> SUFFICES ASSUME NEW s \in Elements(Ahead), s.kind = "subscribe"
             PROVE  \E r \in Elements(pending) : r.awaiting = s.awaiting
  OBVIOUS
<1> DEFINE K == {r \in Elements(Ahead) : IsSubscribe(r)}
           L == {r \in Elements(pending) : Unnumbered(r)}
           sent == Keep(Ahead, K)
           waits == Keep(pending, L)
           a == AwaitedIn(sent)
           b == AwaitedIn(waits)
<1>1. Vector(Ahead) /\ Vector(pending)
  BY ShapeTyped DEF SInv, InStep
<1>2. Select(Ahead, IsSubscribe) = sent /\ Select(pending, Unnumbered) = waits
  BY DEF Select, Keep, Passing, Elements
<1>3. a = b
  BY <1>2 DEF InStep, SentFor, WaitingIn
<1>4. s \in Elements(Ahead) \cap K
  BY DEF IsSubscribe
<1> HIDE DEF K, L
<1>5. Vector(sent) /\ s \in Elements(sent)
  BY <1>1, <1>4, VectorKeep
<1>6. Vector(waits) /\ Elements(waits) \subseteq Elements(pending)
  BY <1>1, VectorKeep
<1> HIDE DEF sent, waits
<1>7. /\ DOMAIN a = DOMAIN sent /\ \A i \in DOMAIN sent : a[i] = sent[i].awaiting
      /\ DOMAIN b = DOMAIN waits /\ \A i \in DOMAIN waits : b[i] = waits[i].awaiting
  BY <1>5, <1>6, AwaitedProperties
<1> HIDE DEF a, b
<1>8. PICK i \in DOMAIN sent : sent[i] = s
  BY <1>5 DEF Elements
<1>9. i \in DOMAIN waits /\ waits[i].awaiting = s.awaiting
  BY <1>3, <1>7, <1>8
<1> QED BY <1>6, <1>9 DEF Elements

\* A subscribe is queued behind all that is asked for, with its record.
LEMMA LastingSent ==
  ASSUME SInv, SInv', RInv, Lasting, ~Over, NEW o \in Opens, pc[o] = "sending",
         NEW aw \in Waiters, NEW id \in Nat, NEW r, r = Subscribe(aw.filter, id, aw),
         channel' = Append(channel, r), pending' = Append(pending, Record(aw)),
         UNCHANGED <<parked, setAside, incoming, lastPkid, renewed, server, losses, severed>>,
         \/ aw.kind # "open" /\ pc' = pc
         \/ aw = AwaitingOpen(o) /\ \A p \in Opens : pc'[p] = IF p = o THEN "waiting" ELSE pc[p]
  PROVE  Lasting'
<1>1. /\ aw.filter \in Filters /\ r \in Subscribes /\ r \in Demands
      /\ r.kind = "subscribe" /\ r.filter = aw.filter /\ r.awaiting = aw
  <2>1. aw.filter \in Filters
    BY WaitersKinds
  <2>2. r \in Subscribes
    BY <2>1 DEF Subscribe, Subscribes
  <2> QED BY <2>1, <2>2 DEF Subscribe, Demands
<1>2. /\ Asked' = Append(Asked, r) /\ Elements(Ahead') = Elements(Ahead) \cup {r}
      /\ Vector(Asked) /\ Elements(Asked) = Elements(Ahead) \cap Demands
  BY <1>1, AskedQueued, AskedVector DEF SInv
<1>3. PICK n \in Nat : n = Len(Asked)
  BY <1>2, VectorLonger
<1>4. /\ DOMAIN Asked = 1..n /\ DOMAIN Asked' = 1..(n + 1)
      /\ \A i \in 1..n : Asked'[i] = Asked[i]
      /\ Asked'[n + 1] = r
      /\ Elements(Asked') = Elements(Asked) \cup {r}
  <2>1. PICK longer : longer = Append(Asked, r)
    OBVIOUS
  <2>2. /\ Len(Asked) \in Nat /\ DOMAIN Asked = 1..Len(Asked)
        /\ DOMAIN longer = 1..(Len(Asked) + 1)
        /\ \A i \in DOMAIN Asked : longer[i] = Asked[i]
        /\ longer[Len(Asked) + 1] = r
    BY <1>2, <2>1, VectorLonger
  <2>3. Elements(longer) = Elements(Asked) \cup {r}
    BY <1>2, <2>1, VectorAppend
  <2>4. Asked' = longer
    BY <1>2, <2>1
  <2> QED BY <1>3, <2>2, <2>3, <2>4
<1>5. PICK rec : rec = Record(aw)
  OBVIOUS
<1>6. rec.awaiting = aw /\ rec.pkid = NoPkid
  BY <1>5 DEF Record
<1>7. PICK k \in Nat : k = Len(pending)
  BY VectorLonger DEF RInv, InStep
<1>8. /\ DOMAIN pending = 1..k /\ DOMAIN pending' = 1..(k + 1)
      /\ \A i \in 1..k : pending'[i] = pending[i]
      /\ pending'[k + 1] = rec
      /\ Elements(pending') = Elements(pending) \cup {rec}
  <2>1. PICK longer : longer = Append(pending, rec)
    OBVIOUS
  <2>2. /\ Len(pending) \in Nat /\ DOMAIN pending = 1..Len(pending)
        /\ DOMAIN longer = 1..(Len(pending) + 1)
        /\ \A i \in DOMAIN pending : longer[i] = pending[i]
        /\ longer[Len(pending) + 1] = rec
    BY <2>1, VectorLonger DEF RInv, InStep
  <2>3. Elements(longer) = Elements(pending) \cup {rec}
    BY <2>1, VectorAppend DEF RInv, InStep
  <2>4. pending' = longer
    BY <1>5, <2>1
  <2> QED BY <1>7, <2>2, <2>3, <2>4
<1>9. /\ Elements(Ahead)' = Elements(Ahead') /\ Elements(incoming)' = Elements(incoming)
      /\ Elements(pending)' = Elements(pending') /\ Elements(Asked)' = Elements(Asked')
  BY DEF Elements
<1>10. lastPkid \in Nat
  BY DEF SInv, Ledger, Numbered
<1>11. \A s \in Elements(pending) : s.awaiting # AwaitingOpen(o)
  BY WaitersKinds DEF Lasting, Recorded
<1>12. /\ \A p \in Opens : pc[p] = "waiting" => pc'[p] = "waiting"
       /\ \A p \in Opens : pc'[p] = "waiting" => pc[p] = "waiting" \/ (p = o /\ aw = AwaitingOpen(o))
       /\ \A p \in Opens : pc'[p] = "open" => pc[p] = "open"
  OBVIOUS
<1>13. Worded'
  BY <1>1, <1>2, <1>9 DEF Lasting, Worded, IsDemand
<1>14. Recorded'
  <2>1. ASSUME NEW s \in Elements(pending')
        PROVE  /\ s.awaiting \in Waiters /\ s.pkid \in 0..lastPkid
               /\ s.awaiting.kind = "open" => pc'[s.awaiting.open] = "waiting"
    <3>1. CASE s \in Elements(pending)
      <4>1. /\ s.awaiting \in Waiters /\ s.pkid \in 0..lastPkid
            /\ s.awaiting.kind = "open" => pc[s.awaiting.open] = "waiting"
        BY <3>1 DEF Lasting, Recorded
      <4> QED BY <1>12, <4>1, WaitersKinds
    <3>2. CASE s = rec
      <4>1. aw.kind = "open" => aw.open = o /\ pc'[o] = "waiting"
        BY WaitersKinds
      <4> QED BY <1>6, <1>10, <3>2, <4>1 DEF NoPkid
    <3> QED BY <1>8, <3>1, <3>2
  <2>2. ASSUME NEW i \in 1..(k + 1), NEW j \in 1..(k + 1),
               pending'[i].awaiting = pending'[j].awaiting, pending'[i].awaiting.kind = "open"
        PROVE  i = j
    <3>1. \A x \in 1..(k + 1) : x \in 1..k \/ x = k + 1
      OBVIOUS
    <3>2. CASE i \in 1..k /\ j \in 1..k
      BY <1>8, <2>2, <3>2 DEF Lasting, Recorded
    <3>3. ASSUME NEW x \in 1..k, pending[x].awaiting = aw, aw.kind = "open" PROVE FALSE
      <4>1. aw = AwaitingOpen(o)
        BY <3>3
      <4> QED BY <1>8, <1>11, <3>3, <4>1 DEF Elements
    <3> QED BY <1>6, <1>8, <2>2, <3>1, <3>2, <3>3
  <2> QED BY <1>8, <1>9, <2>1, <2>2 DEF Recorded, Waiters
<1>15. Granted'
  BY <1>9 DEF Lasting, Granted
<1>16. Behind'
  <2> SUFFICES ASSUME ~renewed, NEW p \in Opens, pc'[p] = "waiting",
                      NEW i \in 1..(n + 1), NEW j \in 1..(n + 1),
                      Asked'[i] = Unsubscribe(FilterOf[p]),
                      Asked'[j].kind = "subscribe", Asked'[j].awaiting = AwaitingOpen(p)
               PROVE  i < j
    BY <1>4 DEF Behind
  <2>1. i # n + 1
    BY <1>1, <1>4 DEF Unsubscribe
  <2>2. i \in 1..n
    BY <2>1
  <2>3. CASE j = n + 1
    BY <2>2, <2>3
  <2>4. CASE j # n + 1
    <3>1. j \in 1..n
      BY <2>4
    <3>2. Asked[j] \in Elements(Ahead) /\ Asked[j].kind = "subscribe"
          /\ Asked[j].awaiting = AwaitingOpen(p)
      BY <1>2, <1>4, <3>1 DEF Elements
    <3>3. PICK s \in Elements(pending) : s.awaiting = AwaitingOpen(p)
      BY <3>2, RecordedFor DEF RInv
    <3>4. pc[p] = "waiting"
      BY <1>11, <1>12, <3>3
    <3> QED BY <1>4, <2>2, <3>1, <3>2, <3>4 DEF Lasting, Behind
  <2> QED BY <2>3, <2>4
<1>17. \A f : Firm(f) => Firm(f)'
  <2>1. \A f : r # Unsubscribe(f)
    BY <1>1 DEF Unsubscribe
  <2> QED BY <1>4, <1>9, <2>1 DEF Firm
<1>18. Upheld'
  <2> SUFFICES ASSUME ~renewed
               PROVE  /\ \A p \in Opens : pc'[p] = "open" => Firm(FilterOf[p])'
                      /\ \A s \in Elements(pending'), a \in Elements(incoming) :
                           s.awaiting.kind = "open" /\ a.kind = "suback" /\ a.pkid = s.pkid
                             => Firm(s.awaiting.filter)'
    BY <1>9 DEF Upheld
  <2>1. /\ \A p \in Opens : pc[p] = "open" => Firm(FilterOf[p])
        /\ \A s \in Elements(pending), a \in Elements(incoming) :
             s.awaiting.kind = "open" /\ a.kind = "suback" /\ a.pkid = s.pkid
               => Firm(s.awaiting.filter)
    BY DEF Lasting, Upheld
  <2>2. \A a \in Elements(incoming) : a.kind = "suback" => a.pkid # rec.pkid
    BY <1>6 DEF RInv, InStep
  <2> QED BY <1>8, <1>12, <1>17, <2>1, <2>2
<1>19. Subscribing(n + 1, aw.filter)' /\ \A j \in 1..n : \A f : Subscribing(j, f)' = Subscribing(j, f)
  BY <1>1, <1>4 DEF Subscribing
<1>20. ASSUME NEW f, f = aw.filter \/ Coming(f) PROVE Coming(f)'
  <2>1. server'[f] # NotHeld \/ \E j \in 1..(n + 1) : Subscribing(j, f)'
    <3>1. CASE f = aw.filter
      BY <1>19, <3>1
    <3>2. CASE Coming(f)
      <4>1. server[f] # NotHeld \/ \E j \in 1..n : Subscribing(j, f)
        BY <1>4, <3>2 DEF Coming
      <4>2. \A j \in 1..n : j \in 1..(n + 1)
        OBVIOUS
      <4> QED BY <1>19, <4>1, <4>2
    <3> QED BY <1>20, <3>1, <3>2
  <2>2. ASSUME NEW i \in 1..(n + 1), Asked'[i] = Unsubscribe(f)
        PROVE  \E j \in 1..(n + 1) : i < j /\ Subscribing(j, f)'
    <3>1. i # n + 1
      BY <1>1, <1>4, <2>2 DEF Unsubscribe
    <3>2. i \in 1..n /\ i < n + 1
      BY <3>1
    <3>3. CASE f = aw.filter
      BY <1>19, <3>2, <3>3
    <3>4. CASE Coming(f)
      <4>1. \E j \in 1..n : i < j /\ Subscribing(j, f)
        BY <1>4, <2>2, <3>2, <3>4 DEF Coming
      <4>2. \A j \in 1..n : j \in 1..(n + 1)
        OBVIOUS
      <4> QED BY <1>19, <4>1, <4>2
    <3> QED BY <1>20, <3>3, <3>4
  <2> QED BY <1>4, <2>1, <2>2 DEF Coming
<1>21. Restored'
  <2> SUFFICES ASSUME renewed, losses <= 1, ~severed, NEW p \in Opens,
                      pc'[p] \in {"waiting", "open"}
               PROVE  Coming(FilterOf[p])'
    BY DEF Restored
  <2>1. CASE pc[p] \in {"waiting", "open"}
    BY <1>20, <2>1 DEF Lasting, Restored
  <2>2. CASE p = o /\ aw = AwaitingOpen(o)
    BY <1>20, <2>2, WaitersKinds
  <2> QED BY <1>12, <2>1, <2>2
<1> QED BY <1>13, <1>14, <1>15, <1>16, <1>18, <1>21 DEF Lasting

\* The last subscriber of a filter is dropped, and no other open has the filter.
LEMMA LastingDropped ==
  ASSUME SInv, SInv', Lasting, NEW o \in Opens, pc[o] = "open",
         \A p \in Opens : pc'[p] = IF p = o THEN "closed" ELSE pc[p],
         \A p \in Opens \ {o} : Joined(p) => FilterOf[p] # FilterOf[o],
         channel' = Append(channel, Unsubscribe(FilterOf[o])),
         UNCHANGED <<parked, setAside, pending, incoming, lastPkid, renewed, server, losses, severed>>
  PROVE  Lasting'
<1>0. PICK r : r = Unsubscribe(FilterOf[o])
  OBVIOUS
<1>1. r \in Demands /\ r.kind = "unsubscribe" /\ r.filter = FilterOf[o]
      /\ \A f \in Filters : Unsubscribe(f).filter = f
      /\ \A p \in Opens : FilterOf[p] \in Filters
  BY <1>0, DemandKinds, SessionAssumption
<1>2. /\ Asked' = Append(Asked, r) /\ Elements(Ahead') = Elements(Ahead) \cup {r}
      /\ Vector(Asked)
  BY <1>0, <1>1, AskedQueued, AskedVector DEF SInv
<1>3. PICK n \in Nat : n = Len(Asked)
  BY <1>2, VectorLonger
<1>4. /\ DOMAIN Asked = 1..n /\ DOMAIN Asked' = 1..(n + 1)
      /\ \A i \in 1..n : Asked'[i] = Asked[i]
      /\ Asked'[n + 1] = r
      /\ Elements(Asked') = Elements(Asked) \cup {r}
  <2>1. PICK longer : longer = Append(Asked, r)
    OBVIOUS
  <2>2. /\ Len(Asked) \in Nat /\ DOMAIN Asked = 1..Len(Asked)
        /\ DOMAIN longer = 1..(Len(Asked) + 1)
        /\ \A i \in DOMAIN Asked : longer[i] = Asked[i]
        /\ longer[Len(Asked) + 1] = r
    BY <1>2, <2>1, VectorLonger
  <2>3. Elements(longer) = Elements(Asked) \cup {r}
    BY <1>2, <2>1, VectorAppend
  <2>4. Asked' = longer
    BY <1>2, <2>1
  <2> QED BY <1>3, <2>2, <2>3, <2>4
<1>5. /\ Elements(Ahead)' = Elements(Ahead') /\ Elements(incoming)' = Elements(incoming)
      /\ Elements(pending)' = Elements(pending) /\ Elements(Asked)' = Elements(Asked')
  BY DEF Elements
<1>6. /\ \A p \in Opens : pc'[p] = "waiting" <=> pc[p] = "waiting"
      /\ \A p \in Opens : pc'[p] = "open" => pc[p] = "open"
      /\ \A p \in Opens : pc'[p] \in {"waiting", "open"} => FilterOf[p] # FilterOf[o]
  BY DEF Joined
<1>7. Worded'
  BY <1>1, <1>2, <1>5 DEF Lasting, Worded, IsDemand
<1>8. Recorded'
  <2>1. \A s \in Elements(pending) :
          /\ s.awaiting \in Waiters /\ s.pkid \in 0..lastPkid
          /\ s.awaiting.kind = "open" => pc'[s.awaiting.open] = "waiting"
    BY <1>6, WaitersKinds DEF Lasting, Recorded
  <2> QED BY <1>5, <2>1 DEF Lasting, Recorded, Waiters
<1>9. Granted'
  BY <1>5 DEF Lasting, Granted
<1>10. \A p \in Opens : FilterOf[p] # FilterOf[o] => r # Unsubscribe(FilterOf[p])
  BY <1>1 DEF Unsubscribe
<1>11. Behind'
  <2> SUFFICES ASSUME ~renewed, NEW p \in Opens, pc'[p] = "waiting",
                      NEW i \in 1..(n + 1), NEW j \in 1..(n + 1),
                      Asked'[i] = Unsubscribe(FilterOf[p]),
                      Asked'[j].kind = "subscribe", Asked'[j].awaiting = AwaitingOpen(p)
               PROVE  i < j
    BY <1>4 DEF Behind
  <2>1. i # n + 1 /\ j # n + 1
    BY <1>1, <1>4, <1>6, <1>10
  <2>2. i \in 1..n /\ j \in 1..n
    BY <2>1
  <2> QED BY <1>4, <1>6, <2>2 DEF Lasting, Behind
<1>12. \A p \in Opens : FilterOf[p] # FilterOf[o] /\ Firm(FilterOf[p]) => Firm(FilterOf[p])'
  BY <1>4, <1>5, <1>10 DEF Firm
<1>13. Upheld'
  <2> SUFFICES ASSUME ~renewed
               PROVE  /\ \A p \in Opens : pc'[p] = "open" => Firm(FilterOf[p])'
                      /\ \A s \in Elements(pending), a \in Elements(incoming) :
                           s.awaiting.kind = "open" /\ a.kind = "suback" /\ a.pkid = s.pkid
                             => Firm(s.awaiting.filter)'
    BY <1>5 DEF Upheld
  <2>1. /\ \A p \in Opens : pc[p] = "open" => Firm(FilterOf[p])
        /\ \A s \in Elements(pending), a \in Elements(incoming) :
             s.awaiting.kind = "open" /\ a.kind = "suback" /\ a.pkid = s.pkid
               => Firm(s.awaiting.filter)
    BY DEF Lasting, Upheld
  <2>2. \A p \in Opens : pc'[p] = "open" => Firm(FilterOf[p])'
    BY <1>6, <1>12, <2>1
  <2>3. ASSUME NEW s \in Elements(pending), NEW a \in Elements(incoming), s.awaiting.kind = "open",
               a.kind = "suback", a.pkid = s.pkid
        PROVE  Firm(s.awaiting.filter)'
    <3>1. /\ s.awaiting.open \in Opens /\ s.awaiting.filter = FilterOf[s.awaiting.open]
          /\ pc[s.awaiting.open] = "waiting"
      BY <2>3, WaitersKinds DEF Lasting, Recorded
    <3>2. PICK p \in Opens : p = s.awaiting.open
      BY <3>1
    <3>3. FilterOf[p] # FilterOf[o] /\ Firm(FilterOf[p])
      BY <1>6, <2>1, <2>3, <3>1, <3>2
    <3>4. Firm(FilterOf[p])'
      BY <1>12, <3>3
    <3>5. s.awaiting.filter = FilterOf[p]
      BY <3>1, <3>2
    <3> QED BY <3>4, <3>5
  <2> QED BY <2>2, <2>3
<1>14. \A j \in 1..n : \A f : Subscribing(j, f)' = Subscribing(j, f)
  BY <1>4 DEF Subscribing
<1>15. ASSUME NEW f, r # Unsubscribe(f), Coming(f) PROVE Coming(f)'
  <2>0. \A j \in 1..n : j \in 1..(n + 1)
    OBVIOUS
  <2>1. server'[f] # NotHeld \/ \E j \in 1..(n + 1) : Subscribing(j, f)'
    <3>1. server[f] # NotHeld \/ \E j \in 1..n : Subscribing(j, f)
      BY <1>4, <1>15 DEF Coming
    <3> QED BY <1>14, <2>0, <3>1
  <2>2. ASSUME NEW i \in 1..(n + 1), Asked'[i] = Unsubscribe(f)
        PROVE  \E j \in 1..(n + 1) : i < j /\ Subscribing(j, f)'
    <3>1. i # n + 1
      BY <1>4, <1>15, <2>2
    <3>2. i \in 1..n
      BY <3>1
    <3>3. \E j \in 1..n : i < j /\ Subscribing(j, f)
      BY <1>4, <1>15, <2>2, <3>2 DEF Coming
    <3> QED BY <1>14, <2>0, <3>3
  <2> QED BY <1>4, <2>1, <2>2 DEF Coming
<1>16. Restored'
  <2> SUFFICES ASSUME renewed, losses <= 1, ~severed, NEW p \in Opens,
                      pc'[p] \in {"waiting", "open"}
               PROVE  Coming(FilterOf[p])'
    BY DEF Restored
  <2>1. pc[p] \in {"waiting", "open"} /\ r # Unsubscribe(FilterOf[p])
    BY <1>6, <1>10
  <2> QED BY <1>15, <2>1 DEF Lasting, Restored
<1> QED BY <1>7, <1>8, <1>9, <1>11, <1>13, <1>16 DEF Lasting

\* A request for the server is the first of what is asked for.
LEMMA AskedFirst ==
  ASSUME Shape, Worded, NEW kind \in {"subscribe", "unsubscribe"}, Up(kind), Dequeue, UNCHANGED parked
  PROVE  /\ Request \in Demands /\ Request.kind = kind /\ Request \in Elements(Ahead)
         /\ Elements(Ahead') \subseteq Elements(Ahead)
         /\ Elements(Asked) = {Request} \cup Elements(Asked')
         /\ \E n \in Nat : /\ DOMAIN Asked = 1..(n + 1) /\ DOMAIN Asked' = 1..n
                           /\ Asked[1] = Request
                           /\ \A i \in 1..n : Asked[i + 1] = Asked'[i]
<1>1. /\ Vector(Asked') /\ Request.kind = kind
      /\ Asked = IF Request \in Demands THEN <<Request>> \o Asked' ELSE Asked'
      /\ Elements(Ahead') \subseteq Elements(Ahead) /\ Request \in Elements(Ahead)
  BY AskedWritten
<1>2. Request \in Demands
  BY <1>1 DEF Worded, IsDemand
<1> DEFINE one == <<Request>>
<1>3. Vector(one) /\ Elements(one) = {Request} /\ Len(one) = 1 /\ one[1] = Request
  BY VectorEmpty, VectorAppend
<1> HIDE DEF one
<1>4. PICK rest : rest = Asked'
  OBVIOUS
<1>5. PICK all : all = one \o rest
  OBVIOUS
<1>6. Asked = all /\ Vector(rest)
  BY <1>1, <1>2, <1>4, <1>5 DEF one
<1>7. /\ Vector(all) /\ Elements(all) = Elements(one) \cup Elements(rest)
      /\ Len(all) = Len(one) + Len(rest)
      /\ \A i \in DOMAIN all : all[i] = IF i <= Len(one) THEN one[i] ELSE rest[i - Len(one)]
  BY <1>3, <1>5, <1>6, VectorConcat
<1>8. PICK n \in Nat : n = Len(rest)
  BY <1>6, VectorPlaces
<1>9. DOMAIN all = 1..(n + 1) /\ DOMAIN rest = 1..n
  <2>1. DOMAIN all = 1..Len(all) /\ DOMAIN rest = 1..Len(rest)
    BY <1>6, <1>7, VectorPlaces
  <2> QED BY <1>3, <1>7, <1>8, <2>1
<1>10. all[1] = Request /\ \A i \in 1..n : all[i + 1] = rest[i]
  BY <1>3, <1>7, <1>9
<1> QED BY <1>1, <1>2, <1>3, <1>4, <1>6, <1>7, <1>9, <1>10

\* In a session never renewed, the oldest record without a packet id awaits what the
\* subscribe is sent for that is written next.
LEMMA OldestAwaits ==
  ASSUME SInv, InStep(TRUE), WriteSubscribe
  PROVE  /\ \E i \in DOMAIN pending : pending[i].pkid = NoPkid
         /\ Oldest \in DOMAIN pending /\ pending[Oldest].pkid = NoPkid
         /\ pending[Oldest].awaiting = Request.awaiting
<1> DEFINE free == \E i \in DOMAIN pending : pending[i].pkid = NoPkid
           rest == SentFor(Ahead')
           x == Request.awaiting
<1>1. /\ Shape /\ Vector(pending) /\ Up("subscribe") /\ Dequeue /\ UNCHANGED parked /\ ~Over
  BY DEF SInv, InStep, WriteSubscribe, Up, Connected, Over
<1>2. Vector(rest) /\ SentFor(Ahead) = <<x>> \o rest
  BY <1>1, RecordsWritten
<1> HIDE DEF rest, x
<1>3. WaitingIn(pending) = <<x>> \o rest
  BY <1>1, <1>2 DEF InStep
<1>4. free
  <2> SUFFICES ASSUME ~free PROVE FALSE
    OBVIOUS
  <2>1. \A r \in Elements(pending) : ~Unnumbered(r)
    BY DEF Elements, Unnumbered
  <2>2. WaitingIn(pending) = <<>>
    BY <1>1, <2>1, WaitingInProperties
  <2> DEFINE one == <<x>>
             all == one \o rest
  <2>3. Vector(one) /\ Elements(one) = {x}
    BY VectorEmpty, VectorAppend
  <2> HIDE DEF one
  <2>4. Elements(all) = Elements(one) \cup Elements(rest)
    BY <1>2, <2>3, VectorConcat
  <2>5. all = <<>>
    BY <1>3, <2>2 DEF one
  <2> HIDE DEF all
  <2> QED BY <2>3, <2>4, <2>5, VectorEmpty
<1> DEFINE i == Oldest
           e == pending[i]
<1>5. i \in DOMAIN pending /\ e.pkid = NoPkid /\ \A j \in 1..(i - 1) : pending[j].pkid # NoPkid
  <2> DEFINE First(q) == /\ pending[q].pkid = NoPkid
                         /\ \A j \in 1..(q - 1) : pending[j].pkid # NoPkid
             U == {q \in DOMAIN pending : pending[q].pkid = NoPkid}
  <2>1. DOMAIN pending = 1..Len(pending) /\ Len(pending) \in Nat
    BY <1>1, VectorPlaces
  <2>2. \E q \in DOMAIN pending : First(q)
    <3>1. U # {} /\ U \subseteq 1..Len(pending)
      BY <1>4, <2>1
    <3>2. PICK q \in U : \A p \in U : q <= p
      BY <2>1, <3>1, FirstPlace
    <3>3. First(q)
      BY <2>1, <3>1, <3>2
    <3> QED BY <3>1, <3>3
  <2> QED BY <2>2 DEF Oldest
<1> HIDE DEF i
<1>6. PICK a, b :
        /\ Vector(a) /\ Vector(b) /\ Len(a) = i - 1
        /\ \A j \in DOMAIN a : a[j] = pending[j]
        /\ pending = a \o (<<e>> \o b)
  <2>1. Vector(pending) /\ i \in DOMAIN pending
    BY <1>1, <1>5
  <2>2. PICK a, b :
          /\ Vector(a) /\ Vector(b)
          /\ Len(a) = i - 1 /\ Len(b) = Len(pending) - i
          /\ \A j \in DOMAIN a : a[j] = pending[j]
          /\ \A j \in DOMAIN b : b[j] = pending[i + j]
          /\ pending = a \o (<<e>> \o b)
          /\ \A z : [pending EXCEPT ![i] = z] = a \o (<<z>> \o b)
    BY <2>1, VectorAround
  <2> HIDE DEF e
  <2> QED BY <2>2
<1> HIDE DEF e
<1> DEFINE one == <<e>>
           tail == one \o b
           w == WaitingIn(b)
<1>7. Vector(one) /\ WaitingIn(one) = <<e.awaiting>>
  BY <1>5, VectorEmpty, VectorAppend, WaitingInProperties DEF Unnumbered
<1>8. WaitingIn(a) = <<>>
  <2>1. DOMAIN a = 1..(i - 1)
    BY <1>6, VectorPlaces
  <2>2. \A r \in Elements(a) : ~Unnumbered(r)
    BY <1>5, <1>6, <2>1 DEF Elements, Unnumbered
  <2> QED BY <1>6, <2>2, WaitingInProperties
<1>9. pending = a \o tail
  BY <1>6
<1> HIDE DEF one
<1>10. Vector(tail) /\ WaitingIn(tail) = WaitingIn(one) \o w /\ Vector(w)
  BY <1>6, <1>7, VectorConcat, WaitingInProperties
<1> HIDE DEF tail, w
<1>11. WaitingIn(pending) = WaitingIn(a) \o WaitingIn(tail) /\ Vector(WaitingIn(tail))
  BY <1>6, <1>9, <1>10, WaitingInProperties
<1>12. WaitingIn(pending) = <<e.awaiting>> \o w
  BY <1>7, <1>8, <1>10, <1>11, VectorConcats
<1>13. x = e.awaiting
  BY <1>2, <1>3, <1>10, <1>12, VectorCancel
<1> QED BY <1>4, <1>5, <1>13 DEF x, e, i

\* A number past the last is not one of those up to it.
LEMMA NumberNew ==
  ASSUME NEW k \in Nat
  PROVE  /\ k + 1 \notin 0..k /\ k + 1 \notin 1..k
         /\ k + 1 \in 0..(k + 1) /\ k + 1 \in 1..(k + 1)
         /\ \A i \in 0..k : i \in 0..(k + 1)
         /\ \A i \in 1..k : i \in 1..(k + 1)
<1> QED OBVIOUS

\* What the client's write of a subscribe changes: the server has the filter, its answer
\* comes in, and a record has the packet id.
Heard(r, k) ==
  /\ \A f \in Filters : server[f] # NotHeld => server'[f] # NotHeld
  /\ ~severed => server'[r.filter] # NotHeld
  /\ \A a \in Elements(incoming') :
       a \in Elements(incoming) \/ (a.kind = "suback" /\ a.pkid = k /\ a.accepted = TRUE /\ ~severed)
  /\ DOMAIN pending' = DOMAIN pending
  /\ \A i \in DOMAIN pending :
       /\ pending'[i].awaiting = pending[i].awaiting
       /\ \/ pending'[i].pkid = pending[i].pkid
          \/ pending'[i].pkid = k /\ (~renewed => pending[i].awaiting = r.awaiting)

\* That is what a write makes of a session whose server grants every subscribe.
LEMMA SubscribeHeard ==
  ASSUME SInv, RInv, CallersTyped, Accepts = {TRUE}, WriteSubscribe, NEW r, r = Request,
         r.filter \in Filters, r.identifier \in Nat
  PROVE  Heard(r, lastPkid + 1) /\ lastPkid \in Nat /\ lastPkid' = lastPkid + 1
<1> DEFINE k == lastPkid + 1
           free == \E i \in DOMAIN pending : pending[i].pkid = NoPkid
<1>1. /\ lastPkid \in Nat /\ lastPkid' = k /\ Vector(incoming) /\ Vector(pending)
      /\ pending' = IF free THEN [pending EXCEPT ![Oldest] = [@ EXCEPT !.pkid = k,
                                                                  !.answers = Request.awaiting]]
                    ELSE pending
      /\ server' = IF severed THEN server ELSE [server EXCEPT ![r.filter] = r.identifier]
      /\ Answer([kind |-> "suback", pkid |-> k, accepted |-> TRUE])
  <2>1. lastPkid \in Nat /\ Vector(incoming) /\ Vector(pending)
    BY DEF SInv, Shape, Ledger, Numbered, RInv, InStep
  <2>2. /\ lastPkid' = k
        /\ pending' = IF free THEN [pending EXCEPT ![Oldest] = [@ EXCEPT !.pkid = k,
                                                                  !.answers = Request.awaiting]]
                      ELSE pending
    BY DEF WriteSubscribe
  <2>3. \E acc \in Accepts :
          /\ server' = IF severed \/ ~acc THEN server ELSE [server EXCEPT ![r.filter] = r.identifier]
          /\ Answer([kind |-> "suback", pkid |-> k, accepted |-> acc])
    BY DEF WriteSubscribe
  <2>4. PICK acc \in {TRUE} :
          /\ server' = IF severed \/ ~acc THEN server ELSE [server EXCEPT ![r.filter] = r.identifier]
          /\ Answer([kind |-> "suback", pkid |-> k, accepted |-> acc])
    BY <2>3
  <2>5. acc = TRUE
    OBVIOUS
  <2> QED BY <2>1, <2>2, <2>4, <2>5
<1> DEFINE a == [kind |-> "suback", pkid |-> k, accepted |-> TRUE]
<1>2. a.kind = "suback" /\ a.pkid = k /\ a.accepted = TRUE /\ Answer(a)
  BY <1>1
<1> HIDE DEF a
<1>3. \A b \in Elements(incoming') : b \in Elements(incoming) \/ (b = a /\ ~severed)
  BY <1>1, <1>2, AnswerProperties
<1>4. /\ \A f \in Filters : server[f] # NotHeld => server'[f] # NotHeld
      /\ ~severed => server'[r.filter] # NotHeld
  BY <1>1 DEF CallersTyped, NotHeld
<1>5. DOMAIN pending' = DOMAIN pending
  BY <1>1
<1>6. ASSUME NEW i \in DOMAIN pending
      PROVE  /\ pending'[i].awaiting = pending[i].awaiting
             /\ \/ pending'[i].pkid = pending[i].pkid
                \/ pending'[i].pkid = k /\ (~renewed => pending[i].awaiting = r.awaiting)
  <2>1. IsRecord(pending[i])
    BY <1>6 DEF RInv, InStep, Elements
  <2>2. ~renewed /\ i = Oldest => pending[i].awaiting = r.awaiting
    <3>1. ~renewed => InStep(TRUE)
      BY DEF RInv, WriteSubscribe, Up, Connected, Over
    <3> QED BY <3>1, OldestAwaits
  <2> QED BY <1>1, <2>1, <2>2 DEF IsRecord
<1> QED BY <1>1, <1>2, <1>3, <1>4, <1>5, <1>6 DEF Heard

\* A subscribe is written.
LEMMA LastingSubscribed ==
  ASSUME SInv, RInv, Lasting, CallersTyped, Accepts = {TRUE}, WriteSubscribe
  PROVE  Lasting'
<1>0. PICK r : r = Request
  OBVIOUS
<1>1. /\ Shape /\ Worded /\ Up("subscribe") /\ Dequeue
      /\ UNCHANGED <<parked, pc, severed, renewed, losses>>
  BY DEF SInv, Lasting, WriteSubscribe, callerVars, openVars, taskVars
<1>2. /\ r \in Demands /\ r.kind = "subscribe"
      /\ Elements(Ahead') \subseteq Elements(Ahead)
      /\ Elements(Asked) = {r} \cup Elements(Asked')
  BY <1>0, <1>1, AskedFirst
<1>3. PICK n \in Nat : /\ DOMAIN Asked = 1..(n + 1) /\ DOMAIN Asked' = 1..n
                       /\ Asked[1] = r
                       /\ \A i \in 1..n : Asked[i + 1] = Asked'[i]
  BY <1>0, <1>1, AskedFirst
<1>4. /\ r.filter \in Filters /\ r.identifier \in Nat
      /\ r.awaiting \in Waiters /\ r.awaiting.filter = r.filter
  BY <1>2, DemandKinds
<1>5. PICK k : k = lastPkid
  OBVIOUS
<1>6. Heard(r, k + 1) /\ k \in Nat /\ lastPkid' = k + 1
  BY <1>0, <1>4, <1>5, SubscribeHeard
<1>7. /\ Elements(Ahead)' = Elements(Ahead') /\ Elements(incoming)' = Elements(incoming')
      /\ Elements(pending)' = Elements(pending') /\ Elements(Asked)' = Elements(Asked')
  BY DEF Elements
<1>8. \A s \in Elements(pending') : \E q \in Elements(pending) :
        /\ s.awaiting = q.awaiting
        /\ s.pkid = q.pkid \/ (s.pkid = k + 1 /\ (~renewed => s.awaiting = r.awaiting))
  <2> SUFFICES ASSUME NEW i \in DOMAIN pending'
               PROVE  \E q \in Elements(pending) :
                        /\ pending'[i].awaiting = q.awaiting
                        /\ \/ pending'[i].pkid = q.pkid
                           \/ /\ pending'[i].pkid = k + 1
                              /\ ~renewed => pending'[i].awaiting = r.awaiting
    BY DEF Elements
  <2>1. i \in DOMAIN pending /\ pending[i] \in Elements(pending)
    BY <1>6 DEF Heard, Elements
  <2> QED BY <1>6, <2>1 DEF Heard
<1>9. Worded'
  BY <1>1, <1>2, <1>7 DEF Worded, IsDemand
<1>10. Recorded'
  <2>1. ASSUME NEW s \in Elements(pending')
        PROVE  /\ s.awaiting \in Waiters /\ s.pkid \in 0..(k + 1)
               /\ s.awaiting.kind = "open" => pc[s.awaiting.open] = "waiting"
    <3>1. PICK q \in Elements(pending) :
            s.awaiting = q.awaiting /\ (s.pkid = q.pkid \/ s.pkid = k + 1)
      BY <1>8
    <3>2. /\ q.awaiting \in Waiters /\ q.pkid \in 0..k
          /\ q.awaiting.kind = "open" => pc[q.awaiting.open] = "waiting"
      BY <1>5 DEF Lasting, Recorded
    <3>3. s.pkid \in 0..(k + 1)
      BY <1>6, <3>1, <3>2, NumberNew
    <3> QED BY <3>1, <3>2, <3>3
  <2>2. \A i, j \in DOMAIN pending' :
          pending'[i].awaiting = pending'[j].awaiting /\ pending'[i].awaiting.kind = "open" => i = j
    BY <1>6 DEF Heard, Lasting, Recorded
  <2> QED BY <1>1, <1>6, <1>7, <2>1, <2>2 DEF Recorded, Waiters
<1>11. Granted'
  <2>1. ASSUME NEW a \in Elements(incoming'), a.kind = "suback"
        PROVE  a.accepted = TRUE /\ a.pkid \in 1..(k + 1)
    BY <1>5, <1>6, <2>1, NumberNew DEF Heard, Lasting, Granted
  <2> QED BY <1>6, <1>7, <2>1 DEF Granted
<1>12. Behind'
  <2> SUFFICES ASSUME ~renewed, NEW o \in Opens, pc[o] = "waiting",
                      NEW i \in 1..n, NEW j \in 1..n,
                      Asked'[i] = Unsubscribe(FilterOf[o]),
                      Asked'[j].kind = "subscribe", Asked'[j].awaiting = AwaitingOpen(o)
               PROVE  i < j
    BY <1>1, <1>3 DEF Behind
  <2>1. i + 1 \in 1..(n + 1) /\ j + 1 \in 1..(n + 1)
    OBVIOUS
  <2>2. i + 1 < j + 1
    BY <1>3, <2>1 DEF Lasting, Behind
  <2> QED BY <2>2
<1>13. \A f \in Filters : Firm(f) => Firm(f)'
  BY <1>2, <1>6, <1>7 DEF Firm, Heard
<1>14. ASSUME ~renewed, NEW o \in Opens, r.awaiting = AwaitingOpen(o), pc[o] = "waiting", ~severed
       PROVE  Firm(FilterOf[o])'
  <2>1. r.filter = FilterOf[o]
    BY <1>4, <1>14, WaitersKinds
  <2>2. ASSUME Unsubscribe(FilterOf[o]) \in Elements(Asked') PROVE FALSE
    <3>1. PICK i \in 1..n : Asked'[i] = Unsubscribe(FilterOf[o])
      BY <1>3, <2>2 DEF Elements
    <3>2. i + 1 \in 1..(n + 1) /\ 1 \in 1..(n + 1) /\ ~(i + 1 < 1)
      OBVIOUS
    <3>3. i + 1 < 1
      BY <1>2, <1>3, <1>14, <3>1, <3>2 DEF Lasting, Behind
    <3> QED BY <3>2, <3>3
  <2> QED BY <1>6, <1>7, <1>14, <2>1, <2>2 DEF Firm, Heard
<1>15. Upheld'
  <2> SUFFICES ASSUME ~renewed
               PROVE  /\ \A o \in Opens : pc[o] = "open" => Firm(FilterOf[o])'
                      /\ \A s \in Elements(pending'), a \in Elements(incoming') :
                           s.awaiting.kind = "open" /\ a.kind = "suback" /\ a.pkid = s.pkid
                             => Firm(s.awaiting.filter)'
    BY <1>1, <1>7 DEF Upheld
  <2>1. /\ \A o \in Opens : pc[o] = "open" => Firm(FilterOf[o])
        /\ \A s \in Elements(pending), a \in Elements(incoming) :
             s.awaiting.kind = "open" /\ a.kind = "suback" /\ a.pkid = s.pkid
               => Firm(s.awaiting.filter)
    BY DEF Lasting, Upheld
  <2>2. \A o \in Opens : pc[o] = "open" => Firm(FilterOf[o])'
    BY <1>13, <2>1, SessionAssumption
  <2>3. ASSUME NEW s \in Elements(pending'), NEW a \in Elements(incoming'),
               s.awaiting.kind = "open", a.kind = "suback", a.pkid = s.pkid
        PROVE  Firm(s.awaiting.filter)'
    <3>1. PICK q \in Elements(pending) :
            /\ s.awaiting = q.awaiting
            /\ s.pkid = q.pkid \/ (s.pkid = k + 1 /\ s.awaiting = r.awaiting)
      BY <1>8
    <3>2. /\ q.awaiting \in Waiters /\ q.pkid \in 0..k
          /\ q.awaiting.kind = "open" => pc[q.awaiting.open] = "waiting"
      BY <1>5 DEF Lasting, Recorded
    <3>3. /\ s.awaiting.open \in Opens /\ s.awaiting.filter = FilterOf[s.awaiting.open]
          /\ pc[s.awaiting.open] = "waiting" /\ s.awaiting = AwaitingOpen(s.awaiting.open)
          /\ s.awaiting.filter \in Filters
      BY <2>3, <3>1, <3>2, WaitersKinds
    <3>4. CASE a \in Elements(incoming)
      <4>1. a.pkid \in 1..k
        BY <1>5, <2>3, <3>4 DEF Lasting, Granted
      <4>2. s.pkid = q.pkid
        BY <1>6, <2>3, <3>1, <4>1, NumberNew
      <4> QED BY <1>13, <2>1, <2>3, <3>1, <3>3, <3>4, <4>2
    <3>5. CASE a.pkid = k + 1 /\ ~severed
      <4>1. s.awaiting = r.awaiting
        BY <1>6, <2>3, <3>1, <3>2, <3>5, NumberNew
      <4>2. PICK o \in Opens : o = s.awaiting.open
        BY <3>3
      <4>3. r.awaiting = AwaitingOpen(o) /\ pc[o] = "waiting" /\ s.awaiting.filter = FilterOf[o]
        BY <3>3, <4>1, <4>2
      <4>4. Firm(FilterOf[o])'
        BY <1>14, <3>5, <4>3
      <4> QED BY <4>3, <4>4
    <3> QED BY <1>6, <3>4, <3>5 DEF Heard
  <2> QED BY <2>2, <2>3
<1>16. \A j \in 1..n : \A f : Subscribing(j, f)' = Subscribing(j + 1, f)
  BY <1>3 DEF Subscribing
<1>17. ASSUME ~severed, NEW f \in Filters, Coming(f) PROVE Coming(f)'
  <2>1. server'[f] # NotHeld \/ \E j \in 1..n : Subscribing(j, f)'
    <3>1. CASE f = r.filter
      BY <1>6, <1>17, <3>1 DEF Heard
    <3>2. CASE f # r.filter
      <4>1. ~Subscribing(1, f)
        BY <1>3, <3>2 DEF Subscribing
      <4>2. server[f] # NotHeld \/ \E j \in 1..(n + 1) : Subscribing(j, f)
        BY <1>3, <1>17 DEF Coming
      <4>3. \A j \in 1..(n + 1) : j = 1 \/ (j - 1 \in 1..n /\ (j - 1) + 1 = j)
        OBVIOUS
      <4> QED BY <1>6, <1>16, <4>1, <4>2, <4>3 DEF Heard
    <3> QED BY <3>1, <3>2
  <2>2. ASSUME NEW i \in 1..n, Asked'[i] = Unsubscribe(f)
        PROVE  \E j \in 1..n : i < j /\ Subscribing(j, f)'
    <3>1. i + 1 \in 1..(n + 1) /\ Asked[i + 1] = Unsubscribe(f)
      BY <1>3, <2>2
    <3>2. PICK j \in 1..(n + 1) : i + 1 < j /\ Subscribing(j, f)
      BY <1>3, <1>17, <3>1 DEF Coming
    <3>3. j - 1 \in 1..n /\ (j - 1) + 1 = j /\ i < j - 1
      BY <3>2
    <3> QED BY <1>16, <3>2, <3>3
  <2> QED BY <1>3, <2>1, <2>2 DEF Coming
<1>18. Restored'
  <2> SUFFICES ASSUME renewed, losses <= 1, ~severed, NEW o \in Opens,
                      pc[o] \in {"waiting", "open"}
               PROVE  Coming(FilterOf[o])'
    BY <1>1 DEF Restored
  <2> QED BY <1>17, SessionAssumption DEF Lasting, Restored
<1> QED BY <1>9, <1>10, <1>11, <1>12, <1>15, <1>18 DEF Lasting

\* An unsubscribe is written.
LEMMA LastingUnsubscribed ==
  ASSUME SInv, Lasting, CallersTyped, WriteUnsubscribe
  PROVE  Lasting'
<1>0. PICK r : r = Request
  OBVIOUS
<1>1. /\ Shape /\ Worded /\ Up("unsubscribe") /\ Dequeue
      /\ UNCHANGED <<parked, pc, pending, lastPkid, incoming, severed, renewed, losses>>
      /\ server' = IF severed THEN server ELSE [server EXCEPT ![r.filter] = NotHeld]
  BY <1>0 DEF SInv, Lasting, WriteUnsubscribe, callerVars, openVars, taskVars
<1>2. /\ r \in Demands /\ r.kind = "unsubscribe"
      /\ Elements(Ahead') \subseteq Elements(Ahead)
      /\ Elements(Asked) = {r} \cup Elements(Asked')
  BY <1>0, <1>1, AskedFirst
<1>3. PICK n \in Nat : /\ DOMAIN Asked = 1..(n + 1) /\ DOMAIN Asked' = 1..n
                       /\ Asked[1] = r
                       /\ \A i \in 1..n : Asked[i + 1] = Asked'[i]
  BY <1>0, <1>1, AskedFirst
<1>4. r.filter \in Filters /\ r = Unsubscribe(r.filter)
  BY <1>2, DemandKinds
<1>5. /\ Elements(Ahead)' = Elements(Ahead') /\ Elements(incoming)' = Elements(incoming)
      /\ Elements(pending)' = Elements(pending) /\ Elements(Asked)' = Elements(Asked')
  BY <1>1 DEF Elements
<1>6. \A f \in Filters : f # r.filter => server'[f] = server[f]
  BY <1>1 DEF CallersTyped
<1>7. Worded'
  BY <1>1, <1>2, <1>5 DEF Worded, IsDemand
<1>8. Recorded' /\ Granted'
  BY <1>1, <1>5 DEF Lasting, Recorded, Granted, Waiters
<1>9. Behind'
  <2> SUFFICES ASSUME ~renewed, NEW o \in Opens, pc[o] = "waiting",
                      NEW i \in 1..n, NEW j \in 1..n,
                      Asked'[i] = Unsubscribe(FilterOf[o]),
                      Asked'[j].kind = "subscribe", Asked'[j].awaiting = AwaitingOpen(o)
               PROVE  i < j
    BY <1>1, <1>3 DEF Behind
  <2>1. i + 1 \in 1..(n + 1) /\ j + 1 \in 1..(n + 1)
    OBVIOUS
  <2>2. i + 1 < j + 1
    BY <1>3, <2>1 DEF Lasting, Behind
  <2> QED BY <2>2
<1>10. ASSUME NEW f \in Filters, Firm(f) PROVE Firm(f)'
  <2>1. f # r.filter
    BY <1>2, <1>4, <1>10 DEF Firm
  <2> QED BY <1>2, <1>5, <1>6, <1>10, <2>1 DEF Firm
<1>11. Upheld'
  <2> SUFFICES ASSUME ~renewed
               PROVE  /\ \A o \in Opens : pc[o] = "open" => Firm(FilterOf[o])'
                      /\ \A s \in Elements(pending), a \in Elements(incoming) :
                           s.awaiting.kind = "open" /\ a.kind = "suback" /\ a.pkid = s.pkid
                             => Firm(s.awaiting.filter)'
    BY <1>1, <1>5 DEF Upheld
  <2>1. /\ \A o \in Opens : pc[o] = "open" => Firm(FilterOf[o])
        /\ \A s \in Elements(pending), a \in Elements(incoming) :
             s.awaiting.kind = "open" /\ a.kind = "suback" /\ a.pkid = s.pkid
               => Firm(s.awaiting.filter)
    BY DEF Lasting, Upheld
  <2>2. \A s \in Elements(pending) : s.awaiting.filter \in Filters
    BY WaitersKinds DEF Lasting, Recorded
  <2> QED BY <1>10, <2>1, <2>2, SessionAssumption
<1>12. \A j \in 1..n : \A f : Subscribing(j, f)' = Subscribing(j + 1, f)
  BY <1>3 DEF Subscribing
<1>13. ASSUME NEW f \in Filters, Coming(f) PROVE Coming(f)'
  <2>0. \A j \in 1..(n + 1) : 1 < j => j - 1 \in 1..n /\ (j - 1) + 1 = j
    OBVIOUS
  <2>1. \A j \in 1..(n + 1) : Subscribing(j, f) => 1 < j
    <3>1. ~Subscribing(1, f)
      BY <1>2, <1>3 DEF Subscribing
    <3> QED BY <3>1
  <2>2. \A j \in 1..(n + 1) : Subscribing(j, f) => \E i \in 1..n : Subscribing(i, f)'
    BY <1>12, <2>0, <2>1
  <2>3. server'[f] # NotHeld \/ \E j \in 1..n : Subscribing(j, f)'
    <3>1. CASE f = r.filter
      <4>1. 1 \in 1..(n + 1) /\ Asked[1] = Unsubscribe(f)
        BY <1>3, <1>4, <3>1
      <4>2. \E j \in 1..(n + 1) : 1 < j /\ Subscribing(j, f)
        BY <1>3, <1>13, <4>1 DEF Coming
      <4> QED BY <2>2, <4>2
    <3>2. CASE f # r.filter
      <4>1. server[f] # NotHeld \/ \E j \in 1..(n + 1) : Subscribing(j, f)
        BY <1>3, <1>13 DEF Coming
      <4> QED BY <1>6, <2>2, <3>2, <4>1
    <3> QED BY <3>1, <3>2
  <2>4. ASSUME NEW i \in 1..n, Asked'[i] = Unsubscribe(f)
        PROVE  \E j \in 1..n : i < j /\ Subscribing(j, f)'
    <3>1. i + 1 \in 1..(n + 1) /\ Asked[i + 1] = Unsubscribe(f)
      BY <1>3, <2>4
    <3>2. PICK j \in 1..(n + 1) : i + 1 < j /\ Subscribing(j, f)
      BY <1>3, <1>13, <3>1 DEF Coming
    <3>3. j - 1 \in 1..n /\ (j - 1) + 1 = j /\ i < j - 1
      BY <3>2
    <3> QED BY <1>12, <3>2, <3>3
  <2> QED BY <1>3, <2>3, <2>4 DEF Coming
<1>14. Restored'
  <2> SUFFICES ASSUME renewed, losses <= 1, ~severed, NEW o \in Opens,
                      pc[o] \in {"waiting", "open"}
               PROVE  Coming(FilterOf[o])'
    BY <1>1 DEF Restored
  <2> QED BY <1>13, SessionAssumption DEF Lasting, Restored
<1> QED BY <1>7, <1>8, <1>9, <1>11, <1>14 DEF Lasting

\* An answer to a subscribe is read.
LEMMA LastingAnswered ==
  ASSUME SInv, RInv, Lasting, CallersTyped, ReceiveSuback
  PROVE  Lasting'
<1>1. UNCHANGED <<parked, setAside, channel, lastPkid, server, severed, renewed, losses>>
  BY DEF ReceiveSuback, clientVars, serverVars, taskVars
<1>2. Recorded /\ Granted
  BY DEF Lasting
<1>3. /\ Elements(incoming)' \subseteq Elements(incoming)
      /\ Elements(pending)' \subseteq Elements(pending)
      /\ \A i, j \in DOMAIN pending' :
           pending'[i].awaiting = pending'[j].awaiting /\ pending'[i].awaiting.kind = "open"
             => i = j
      /\ UNCHANGED <<registryVars, pc, pending>> \/ \E r, a : Told(r, a)
  BY <1>2, SubackTaken
<1>4. Ahead' = Ahead /\ Asked' = Asked
  BY <1>1, AskedKept DEF Ahead
<1>5. Elements(Ahead)' = Elements(Ahead) /\ Elements(Asked)' = Elements(Asked)
  BY <1>4 DEF Elements
<1>6. \A r \in Elements(pending) :
        /\ r.awaiting \in Waiters /\ r.pkid \in 0..lastPkid
        /\ r.awaiting.kind = "open" => /\ r.awaiting.open \in Opens
                                       /\ pc[r.awaiting.open] = "waiting"
                                       /\ r.awaiting = AwaitingOpen(r.awaiting.open)
                                       /\ r.awaiting.filter = FilterOf[r.awaiting.open]
  BY <1>2, WaitersKinds DEF Recorded
<1> DEFINE Moved ==
        /\ \A s \in Elements(pending)' : s.awaiting.kind = "open" => pc'[s.awaiting.open] = "waiting"
        /\ \A o \in Opens : pc'[o] = "waiting" => pc[o] = "waiting"
        /\ \A o \in Opens : pc'[o] = "open" /\ pc[o] # "open" =>
             /\ pc[o] = "waiting"
             /\ \E r \in Elements(pending), a \in Elements(incoming) :
                  /\ r.awaiting.kind = "open" /\ r.awaiting.filter = FilterOf[o]
                  /\ a.kind = "suback" /\ a.pkid = r.pkid
<1> HIDE DEF Moved
<1>7. Moved
  <2>1. CASE UNCHANGED pc
    BY <1>3, <1>6, <2>1 DEF Moved
  <2>2. ASSUME NEW r, NEW a, Told(r, a), r.awaiting.kind = "open",
               pc' = [pc EXCEPT ![r.awaiting.open] = "open"]
        PROVE  Moved
    <3>1. /\ r \in Elements(pending) /\ a \in Elements(incoming)
          /\ a.kind = "suback" /\ a.pkid = r.pkid
          /\ \A s \in Elements(pending)' : s.awaiting.kind = "open" => s.awaiting # r.awaiting
      BY <2>2 DEF Told
    <3>2. PICK p \in Opens : p = r.awaiting.open
      BY <1>6, <2>2, <3>1
    <3>3. \A o \in Opens : pc'[o] = IF o = p THEN "open" ELSE pc[o]
      BY <2>2, <3>2 DEF CallersTyped
    <3>4. /\ pc[p] = "waiting" /\ r.awaiting = AwaitingOpen(p) /\ r.awaiting.filter = FilterOf[p]
      BY <1>6, <2>2, <3>1, <3>2
    <3>5. \A s \in Elements(pending)' : s.awaiting.kind = "open" => s.awaiting.open # p
      BY <1>3, <1>6, <3>1, <3>4
    <3> QED BY <1>3, <1>6, <2>2, <3>1, <3>3, <3>4, <3>5 DEF Moved
  <2>3. \/ UNCHANGED pc
        \/ \E r, a : /\ Told(r, a) /\ r.awaiting.kind = "open"
                     /\ pc' = [pc EXCEPT ![r.awaiting.open] = "open"]
    BY <1>3 DEF Told
  <2> QED BY <2>1, <2>2, <2>3
<1> USE DEF Moved
<1>8. Worded'
  BY <1>5 DEF Lasting, Worded, IsDemand
<1>9. Recorded' /\ Granted'
  BY <1>1, <1>3, <1>6, <1>7 DEF Lasting, Recorded, Granted, Waiters
<1>10. Behind'
  BY <1>1, <1>4, <1>7 DEF Lasting, Behind
<1>11. \A f : Firm(f)' = Firm(f) /\ Coming(f)' = Coming(f)
  BY <1>1, <1>4, <1>5 DEF Firm, Coming, Subscribing
<1>12. Upheld'
  <2> SUFFICES ASSUME ~renewed
               PROVE  /\ \A o \in Opens : pc'[o] = "open" => Firm(FilterOf[o])
                      /\ \A s \in Elements(pending)', a \in Elements(incoming)' :
                           s.awaiting.kind = "open" /\ a.kind = "suback" /\ a.pkid = s.pkid
                             => Firm(s.awaiting.filter)
    BY <1>1, <1>11 DEF Upheld
  <2>1. /\ \A o \in Opens : pc[o] = "open" => Firm(FilterOf[o])
        /\ \A s \in Elements(pending), a \in Elements(incoming) :
             s.awaiting.kind = "open" /\ a.kind = "suback" /\ a.pkid = s.pkid
               => Firm(s.awaiting.filter)
    BY DEF Lasting, Upheld
  <2>2. \A o \in Opens : pc'[o] = "open" => Firm(FilterOf[o])
    <3> SUFFICES ASSUME NEW o \in Opens, pc'[o] = "open", pc[o] # "open"
                 PROVE  Firm(FilterOf[o])
      BY <2>1
    <3>1. PICK r \in Elements(pending), a \in Elements(incoming) :
            /\ r.awaiting.kind = "open" /\ r.awaiting.filter = FilterOf[o]
            /\ a.kind = "suback" /\ a.pkid = r.pkid
      BY <1>7
    <3>2. Firm(r.awaiting.filter)
      BY <2>1, <3>1
    <3> QED BY <3>1, <3>2
  <2> QED BY <1>3, <2>1, <2>2
<1>13. Restored'
  <2> SUFFICES ASSUME renewed, losses <= 1, ~severed, NEW o \in Opens,
                      pc'[o] \in {"waiting", "open"}
               PROVE  Coming(FilterOf[o])
    BY <1>1, <1>11 DEF Restored
  <2>1. pc[o] \in {"waiting", "open"}
    BY <1>7
  <2> QED BY <2>1 DEF Lasting, Restored
<1> QED BY <1>8, <1>9, <1>10, <1>12, <1>13 DEF Lasting

\* The records of the subscribes of a new session await no open.
LEMMA RecordedAnew ==
  ASSUME SInv, RInv, Structure, Recorded, policy # "custom", NEW identifiers \in Offers,
         Connack(FALSE, identifiers)
  PROVE  Recorded'
<1> DEFINE again == Resubscribed(identifiers)
           new == [n \in DOMAIN again |-> Record(again[n].awaiting)]
<1>1. /\ pending' = pending \o new /\ UNCHANGED <<pc, lastPkid>>
      /\ Vector(pending) /\ Vector(wires) /\ Vector(channel) /\ lastPkid \in Nat
  BY DEF Connack, callerVars, openVars, SInv, Shape, Ledger, Numbered, RInv, InStep
<1>2. Vector(again) /\ \A n \in DOMAIN again : n \in DOMAIN wires
      /\ again[n].awaiting = AwaitingResubscribe(wires[n].filter)
  <2> DEFINE room == Capacity - Len(channel)
             k == IF Len(wires) <= room THEN Len(wires) ELSE room
             id(n) == IF identifiers THEN wires[n].identifier ELSE NoIdentifier
  <2>1. Vector(again)
    BY <1>1, ResubscribedProperties
  <2>2. Len(wires) \in Nat /\ DOMAIN wires = 1..Len(wires) /\ room \in Int
    <3>1. Len(wires) \in Nat /\ DOMAIN wires = 1..Len(wires) /\ Len(channel) \in Nat
      BY <1>1, VectorPlaces
    <3> QED BY <3>1, SessionAssumption
  <2>3. again = [n \in 1..k |-> Subscribe(wires[n].filter, id(n), AwaitingResubscribe(wires[n].filter))]
    BY DEF Resubscribed
  <2> HIDE DEF again, room, id
  <2>4. \A n \in 1..k : n \in DOMAIN wires
    BY <2>2
  <2> HIDE DEF k
  <2> QED BY <2>1, <2>3, <2>4 DEF Subscribe
<1>3. \A n \in DOMAIN wires : wires[n].filter \in Filters
  <2>1. \A n \in DOMAIN wires : wires[n] \in Wire
    BY SeqPlaces DEF Structure, RegistryTypeOK
  <2> QED BY <2>1 DEF Wire
<1> HIDE DEF again
<1>4. /\ DOMAIN new = DOMAIN again
      /\ \A n \in DOMAIN new : /\ new[n].pkid = NoPkid /\ new[n].awaiting.kind = "resubscribe"
                               /\ new[n].awaiting \in Waiters
  BY <1>2, <1>3, WaitersKinds DEF Record
<1>5. Vector(new)
  <2>1. Len(again) \in Nat /\ DOMAIN again = 1..Len(again)
    BY <1>2, VectorPlaces
  <2>2. new \in [1..Len(again) -> Elements(new)]
    BY <2>1 DEF Elements
  <2> HIDE DEF new
  <2> QED BY <2>1, <2>2, FunctionIsSeq DEF Vector
<1> HIDE DEF new
<1>6. PICK l \in Nat : l = Len(pending) /\ DOMAIN pending = 1..l
  BY <1>1, VectorPlaces
<1>7. PICK all : all = pending \o new
  OBVIOUS
<1>8. /\ Vector(all) /\ Elements(all) = Elements(pending) \cup Elements(new)
      /\ \A i \in DOMAIN all : all[i] = IF i <= l THEN pending[i] ELSE new[i - l]
      /\ \A i \in DOMAIN all : i > l => i - l \in DOMAIN new
      /\ \A i \in DOMAIN all : i \in Nat \ {0}
  <2>1. /\ Vector(all) /\ Elements(all) = Elements(pending) \cup Elements(new)
        /\ Len(all) = Len(pending) + Len(new)
        /\ \A i \in DOMAIN all : all[i] = IF i <= Len(pending) THEN pending[i]
                                          ELSE new[i - Len(pending)]
    BY <1>1, <1>5, <1>7, VectorConcat
  <2>2. DOMAIN all = 1..Len(all) /\ DOMAIN new = 1..Len(new) /\ Len(new) \in Nat
    BY <1>5, <2>1, VectorPlaces
  <2>3. \A i \in DOMAIN all : i \in Nat \ {0} /\ (i > l => i - l \in DOMAIN new)
    BY <1>6, <2>1, <2>2
  <2> QED BY <1>6, <2>1, <2>3
<1>9. pending' = all
  BY <1>1, <1>7
<1>10. ASSUME NEW s \in Elements(all)
       PROVE  /\ s.awaiting \in Waiters /\ s.pkid \in 0..lastPkid
              /\ s.awaiting.kind = "open" => pc[s.awaiting.open] = "waiting"
  <2>1. CASE s \in Elements(pending)
    BY <2>1 DEF Recorded
  <2>2. CASE s \in Elements(new)
    <3>1. PICK n \in DOMAIN new : s = new[n]
      BY <2>2 DEF Elements
    <3> QED BY <1>1, <1>4, <3>1 DEF NoPkid
  <2> QED BY <1>8, <2>1, <2>2
<1>11. ASSUME NEW i \in DOMAIN all, NEW j \in DOMAIN all,
              all[i].awaiting = all[j].awaiting, all[i].awaiting.kind = "open"
       PROVE  i = j
  <2>1. \A h \in DOMAIN all : all[h].awaiting.kind = "open" => h \in DOMAIN pending /\ all[h] = pending[h]
    <3> SUFFICES ASSUME NEW h \in DOMAIN all, all[h].awaiting.kind = "open"
                 PROVE  h \in DOMAIN pending /\ all[h] = pending[h]
      OBVIOUS
    <3>1. ~(h > l)
      BY <1>4, <1>8
    <3>2. h \in 1..l
      BY <1>8, <3>1
    <3> QED BY <1>6, <1>8, <3>2
  <2> QED BY <1>11, <2>1 DEF Recorded
<1>12. Elements(pending)' = Elements(all)
  BY <1>9 DEF Elements
<1> QED BY <1>1, <1>9, <1>10, <1>11, <1>12 DEF Recorded, Waiters

\* A new session begins, and every filter is subscribed again.
LEMMA LastingRenewed ==
  ASSUME SInv, SInv', RInv, Lasting, Course, Structure, Members, NEW identifiers \in Offers,
         Connack(FALSE, identifiers), Len(channel) + Len(wires) <= Capacity
  PROVE  Lasting'
<1>1. /\ UNCHANGED <<pc, incoming, lastPkid, severed, losses>> /\ renewed' = TRUE
      /\ identifiers \in BOOLEAN /\ policy # "custom"
  BY RegistryAssumption DEF Connack, callerVars, openVars, Course
<1>2. Elements(incoming)' = Elements(incoming)
  BY <1>1 DEF Elements
<1>3. Worded' /\ \E a, b : /\ Vector(a) /\ Vector(b) /\ Asked' = a \o b
                           /\ Elements(b) \subseteq Subscribes
                           /\ \A n \in DOMAIN wires : \E j \in DOMAIN b : b[j].filter = wires[n].filter
  BY <1>1, AskedAnew DEF SInv, Lasting
<1>4. Recorded'
  BY <1>1, RecordedAnew DEF Lasting
<1>5. Granted'
  BY <1>1, <1>2 DEF Lasting, Granted
<1>6. Behind' /\ Upheld'
  BY <1>1 DEF Behind, Upheld
<1>7. PICK a, b : /\ Vector(a) /\ Vector(b) /\ Asked' = a \o b
                  /\ Elements(b) \subseteq Subscribes
                  /\ \A n \in DOMAIN wires : \E j \in DOMAIN b : b[j].filter = wires[n].filter
  BY <1>3
<1>8. PICK all : all = a \o b
  OBVIOUS
<1>9. PICK l \in Nat, k \in Nat : l = Len(a) /\ k = Len(b) /\ DOMAIN b = 1..k /\ DOMAIN all = 1..(l + k)
                        /\ \A i \in 1..(l + k) : all[i] = IF i <= l THEN a[i] ELSE b[i - l]
  <2>1. /\ Vector(all) /\ Len(all) = Len(a) + Len(b)
        /\ \A i \in DOMAIN all : all[i] = IF i <= Len(a) THEN a[i] ELSE b[i - Len(a)]
    BY <1>7, <1>8, VectorConcat
  <2>2. /\ DOMAIN all = 1..Len(all) /\ DOMAIN b = 1..Len(b) /\ Len(b) \in Nat /\ Len(a) \in Nat
    BY <1>7, <2>1, VectorPlaces
  <2> QED BY <2>1, <2>2
<1>10. \A j \in 1..k : j + l \in 1..(l + k) /\ all[j + l] = b[j]
  BY <1>9
<1>11. \A j \in 1..k : b[j].kind = "subscribe"
  <2>1. \A j \in DOMAIN b : b[j] \in Elements(b)
    BY DEF Elements
  <2>2. \A r \in Elements(b) : r.kind = "subscribe"
    BY <1>7 DEF Subscribes
  <2> QED BY <1>9, <2>1, <2>2
<1>12. \A i \in 1..(l + k) : \A f : all[i] = Unsubscribe(f) => \A j \in 1..k : i < j + l
  <2> SUFFICES ASSUME NEW i \in 1..(l + k), NEW f, all[i] = Unsubscribe(f), NEW j \in 1..k,
                      ~(i < j + l)
               PROVE  FALSE
    OBVIOUS
  <2>1. i - l \in 1..k /\ all[i] = b[i - l]
    BY <1>9
  <2>2. all[i].kind = "subscribe"
    BY <1>11, <2>1
  <2> QED BY <2>2 DEF Unsubscribe
<1>13. ASSUME NEW o \in Opens, pc[o] \in {"waiting", "open"} PROVE Coming(FilterOf[o])'
  <2>1. SitsOn(member[o], FilterOf[o], QosOf[o])
    BY <1>13 DEF Members, Joined
  <2>2. \E n \in DOMAIN wires : wires[n].filter = FilterOf[o]
    BY <2>1 DEF SitsOn
  <2>3. PICK j \in 1..k : b[j].filter = FilterOf[o]
    BY <1>7, <1>9, <2>2
  <2>4. Asked' = all
    BY <1>7, <1>8
  <2>5. Subscribing(j + l, FilterOf[o])'
    BY <1>10, <1>11, <2>3, <2>4 DEF Subscribing
  <2> QED BY <1>9, <1>10, <1>12, <2>4, <2>5 DEF Coming
<1>14. Restored'
  BY <1>1, <1>13 DEF Restored
<1> QED BY <1>3, <1>4, <1>5, <1>6, <1>14 DEF Lasting

\* A subscriber is dropped.
LEMMA LastingLeft ==
  ASSUME SInv, SInv', Lasting, CallersTyped, Structure, Members, ~Over, NEW o \in Opens, Drop(o)
  PROVE  Lasting'
<1>1. /\ pc[o] = "open" /\ pc' = [pc EXCEPT ![o] = "closed"]
      /\ UNCHANGED <<pending, parked, setAside, incoming, lastPkid, renewed, server, losses, severed>>
      /\ channel' = IF TakenOff(member[o]) # {} /\ Room
                    THEN Append(channel, Unsubscribe(FilterOf[o])) ELSE channel
  BY DEF Drop, wireVars, serverVars, taskVars
<1>2. \A p \in Opens : pc'[p] = IF p = o THEN "closed" ELSE pc[p]
  BY <1>1 DEF CallersTyped
<1>3. CASE channel' = channel
  <2>1. \A p \in Opens : /\ pc'[p] = "waiting" <=> pc[p] = "waiting"
                         /\ pc'[p] = "open" => pc[p] = "open"
    BY <1>1, <1>2
  <2> QED BY <1>1, <1>3, <2>1, CalmSteady, CalmKeeps
<1>4. CASE TakenOff(member[o]) # {} /\ channel' = Append(channel, Unsubscribe(FilterOf[o]))
  <2>1. PICK m : m = member[o]
    OBVIOUS
  <2>2. Leave(m) /\ SitsOn(m, FilterOf[o], QosOf[o])
    BY <1>1, <2>1 DEF Drop, Members, Joined
  <2>3. Structure'
    BY <2>2, LeaveStructure
  <2>4. ~Holds(FilterOf[o])'
    BY <1>4, <2>1, <2>2, <2>3, HoldsLeft
  <2>5. ASSUME NEW p \in Opens \ {o}, Joined(p) PROVE FilterOf[p] # FilterOf[o]
    <3>1. SitsOn(member[p], FilterOf[p], QosOf[p]) /\ member[p] # m
      BY <1>1, <2>1, <2>5 DEF Members, Joined
    <3>2. PICK k : k = member[p]
      OBVIOUS
    <3>3. SitsOn(k, FilterOf[p], QosOf[p])'
      BY <2>2, <3>1, <3>2, SitsOnLeft
    <3>4. Holds(FilterOf[p])'
      BY <2>3, <3>3, HeldSitsNext
    <3> QED BY <2>4, <3>4
  <2> QED BY <1>1, <1>2, <1>4, <2>5, LastingDropped
<1> QED BY <1>1, <1>3, <1>4

\* An open queues its next subscribe, or finds that it need not.
LEMMA LastingOpened ==
  ASSUME SInv, SInv', RInv, Lasting, CallersTyped, Queueing, ~Over,
         NEW o \in Opens, OpenSend(o), ~GivesUp(o)
  PROVE  Lasting'
<1> DEFINE request == Head(todo[o])
           aw == IF request.refresh THEN AwaitingIdentify(request.filter) ELSE AwaitingOpen(o)
<1>1. /\ pc[o] = "sending"
      /\ UNCHANGED <<parked, setAside, incoming, lastPkid, renewed, server, losses, severed>>
      /\ \/ UNCHANGED <<pc, channel, pending>>
         \/ /\ channel' = Append(channel, Subscribe(request.filter, request.identifier, aw))
            /\ pending' = Append(pending, Record(aw))
            /\ pc' = IF request.refresh THEN pc ELSE [pc EXCEPT ![o] = "waiting"]
  BY DEF OpenSend, GivesUp, SendSubscribe, wireVars, serverVars, taskVars
<1>2. CASE UNCHANGED <<pc, channel, pending>>
  BY <1>1, <1>2, CalmSteady, CalmKeeps
<1>3. CASE /\ channel' = Append(channel, Subscribe(request.filter, request.identifier, aw))
           /\ pending' = Append(pending, Record(aw))
           /\ pc' = IF request.refresh THEN pc ELSE [pc EXCEPT ![o] = "waiting"]
  <2>1. /\ Vector(todo[o]) /\ todo[o] # <<>> /\ todo[o][Len(todo[o])].filter = FilterOf[o]
        /\ \A i \in DOMAIN todo[o] : /\ todo[o][i].refresh <=> i < Len(todo[o])
                                     /\ todo[o][i].filter \in Filters /\ todo[o][i].identifier \in Nat
    BY <1>1 DEF Queueing
  <2>2. PICK s : s = todo[o]
    OBVIOUS
  <2>3. Vector(s) /\ s # <<>>
    BY <2>1, <2>2
  <2>4. 1 \in DOMAIN s /\ (~(1 < Len(s)) => Len(s) = 1)
    <3>1. Len(s) \in Nat \ {0} /\ DOMAIN s = 1..Len(s)
      BY <2>3, VectorTail
    <3> QED BY <3>1
  <2>5. PICK q : q = request
    OBVIOUS
  <2>6. q = s[1]
    BY <2>2, <2>5
  <2>7. /\ q.filter \in Filters /\ q.identifier \in Nat
        /\ ~q.refresh => q.filter = FilterOf[o]
    BY <2>1, <2>2, <2>4, <2>6
  <2>8. PICK w : w = IF q.refresh THEN AwaitingIdentify(q.filter) ELSE AwaitingOpen(o)
    OBVIOUS
  <2>9. /\ channel' = Append(channel, Subscribe(q.filter, q.identifier, w))
        /\ pending' = Append(pending, Record(w))
        /\ pc' = IF q.refresh THEN pc ELSE [pc EXCEPT ![o] = "waiting"]
    BY <1>3, <2>5, <2>8
  <2> HIDE DEF request, aw
  <2>10. w \in Waiters /\ w.filter = q.filter
    BY <2>7, <2>8, WaitersKinds
  <2>11. \/ w.kind # "open" /\ pc' = pc
         \/ w = AwaitingOpen(o) /\ \A p \in Opens : pc'[p] = IF p = o THEN "waiting" ELSE pc[p]
    <3>1. CASE q.refresh
      BY <2>7, <2>8, <2>9, <3>1, WaitersKinds
    <3>2. CASE ~q.refresh
      BY <2>8, <2>9, <3>2 DEF CallersTyped
    <3> QED BY <3>1, <3>2
  <2>12. PICK r : r = Subscribe(w.filter, q.identifier, w)
    OBVIOUS
  <2>13. channel' = Append(channel, r)
    BY <2>9, <2>10, <2>12
  <2>14. PICK id \in Nat : id = q.identifier
    BY <2>7
  <2>15. r = Subscribe(w.filter, id, w)
    BY <2>12, <2>14
  <2> QED BY <1>1, <2>9, <2>10, <2>11, <2>13, <2>15, LastingSent
<1> QED BY <1>1, <1>2, <1>3

\* Every step keeps what is told of the subscriptions.
LEMMA LastingStep ==
  ASSUME SInv, SInv', RInv, Lasting, Course, CallersTyped, Structure, Members, Queueing, Accepts = {TRUE},
         RoomToRenew, ~Over', [Next]_vars
  PROVE  Lasting'
<1>0. ~Over
  BY OverStays
<1>1. ASSUME NEW o \in Opens, OpenCheck(o) \/ OpenJoin(o) PROVE Lasting'
  <2>1. /\ UNCHANGED <<pending, parked, setAside, channel, incoming, lastPkid, renewed, server,
                       losses, severed>>
        /\ \E s \in {"failed", "joining", "sending"} : pc' = [pc EXCEPT ![o] = s]
        /\ pc[o] \in {"idle", "joining"}
    BY <1>1 DEF OpenCheck, OpenJoin, clientVars, wireVars, serverVars, taskVars
  <2>2. \A p \in Opens : /\ pc'[p] = "waiting" <=> pc[p] = "waiting"
                         /\ pc'[p] = "open" => pc[p] = "open"
    BY <2>1 DEF CallersTyped
  <2> QED BY <2>1, <2>2, CalmSteady, CalmKeeps
<1>2. ASSUME NEW o \in Opens, OpenSend(o) PROVE Lasting'
  <2>1. CASE GivesUp(o)
    <3>1. /\ UNCHANGED <<pending, parked, setAside, channel, incoming, lastPkid, renewed, server,
                         losses, severed>>
      BY <1>2, <2>1 DEF OpenSend, GivesUp, wireVars, serverVars, taskVars
    <3>2. \A p \in Opens : /\ pc'[p] = "waiting" <=> pc[p] = "waiting"
                           /\ pc'[p] = "open" => pc[p] = "open"
      BY <2>1 DEF GivesUp, CallersTyped
    <3> QED BY <3>1, <3>2, CalmSteady, CalmKeeps
  <2>2. CASE ~GivesUp(o)
    BY <1>0, <1>2, <2>2, LastingOpened
  <2> QED BY <2>1, <2>2
<1>3. ASSUME NEW o \in Opens, Drop(o) PROVE Lasting'
  BY <1>0, <1>3, LastingLeft
<1>4. ASSUME \/ \E m \in Messages : PublishCheck(m)
             \/ Shutdown \/ Sever \/ DialFails \/ UNCHANGED vars
      PROVE  Lasting'
  <2>1. /\ UNCHANGED <<pc, pending, parked, setAside, channel, incoming, lastPkid, renewed, server,
                       losses>>
        /\ severed => severed'
    BY <1>4 DEF PublishCheck, Shutdown, Sever, DialFails, vars, callerVars, openVars, clientVars,
                wireVars, serverVars, taskVars
  <2> QED BY <2>1, CalmSteady, CalmKeeps
<1>5. ASSUME (\E m \in Messages : PublishQueue(m)) \/ ShutdownQueue PROVE Lasting'
  <2>1. /\ UNCHANGED <<pc, pending, parked, setAside, incoming, lastPkid, renewed, server, losses,
                       severed>>
        /\ channel' = channel \/ \E x : ~IsDemand(x) /\ channel' = Append(channel, x)
    <3>1. ASSUME NEW m \in Messages, PublishQueue(m)
          PROVE  channel' = channel \/ \E x : ~IsDemand(x) /\ channel' = Append(channel, x)
      <4>1. ~IsDemand(Publish(m))
        BY DEF IsDemand, Publish
      <4> QED BY <3>1, <4>1 DEF PublishQueue
    <3>2. ASSUME ShutdownQueue
          PROVE  channel' = channel \/ \E x : ~IsDemand(x) /\ channel' = Append(channel, x)
      <4>1. ~IsDemand(Disconnect)
        BY DEF IsDemand, Disconnect
      <4> QED BY <3>2, <4>1 DEF ShutdownQueue
    <3>3. UNCHANGED <<pc, pending, parked, setAside, incoming, lastPkid, renewed, server, losses,
                      severed>>
      BY <1>5 DEF PublishQueue, ShutdownQueue, openVars, wireVars, serverVars, taskVars
    <3> QED BY <1>5, <3>1, <3>2, <3>3
  <2>2. CASE channel' = channel
    BY <2>1, <2>2, CalmSteady, CalmKeeps
  <2>3. ASSUME NEW x, ~IsDemand(x), channel' = Append(channel, x) PROVE Lasting'
    BY <2>1, <2>3, CalmQueued, CalmKeeps
  <2> QED BY <2>1, <2>2, <2>3
<1>6. CASE WriteSubscribe
  BY <1>6, LastingSubscribed
<1>7. CASE WriteUnsubscribe
  BY <1>7, LastingUnsubscribed
<1>8. CASE WritePublish \/ WriteRelease \/ ReceiveConfirmation
  BY <1>8, CalmTraffic, CalmKeeps
<1>9. CASE ReceiveSuback
  BY <1>9, LastingAnswered
<1>10. CASE Lose
  BY <1>10, CalmLost, CalmKeeps
<1>11. ASSUME NEW present \in BOOLEAN, NEW identifiers \in Offers, Connack(present, identifiers)
       PROVE  Lasting'
  <2>1. CASE present = TRUE
    <3>1. Connack(TRUE, identifiers)
      BY <1>11, <2>1
    <3> QED BY <3>1, CalmResumed, CalmKeeps
  <2>2. CASE present = FALSE
    <3>1. Connack(FALSE, identifiers)
      BY <1>11, <2>2
    <3>2. Len(channel) + Len(wires) <= Capacity
      BY <3>1 DEF RoomToRenew
    <3> QED BY <3>1, <3>2, LastingRenewed
  <2> QED BY <2>1, <2>2
<1>12. ASSUME WriteDisconnect \/ Closing \/ EndRecords \/ Exit PROVE FALSE
  BY <1>12 DEF WriteDisconnect, Closing, EndRecords, Exit, Over
<1> QED BY <1>1, <1>2, <1>3, <1>4, <1>5, <1>6, <1>7, <1>8, <1>9, <1>10, <1>11, <1>12 DEF Next, Write

\* At the start no subscription is there.
LEMMA FInvInit ==
  ASSUME "custom" \notin Policies, Init
  PROVE  FInv
<1>1. /\ policy # "custom" /\ task = "up" /\ losses = 0 /\ renewed = FALSE /\ closed = FALSE
      /\ pc = [o \in Opens |-> "idle"] /\ member = [o \in Opens |-> NoMember]
      /\ todo = [o \in Opens |-> <<>>] /\ server = [f \in Filters |-> NotHeld]
      /\ offered \in BOOLEAN /\ RegistryInit
      /\ pending = <<>> /\ incoming = <<>> /\ parked = <<>> /\ setAside = <<>> /\ channel = <<>>
  BY RegistryAssumption DEF Init
<1>2. Course
  BY <1>1 DEF Course
<1>3. CallersTyped /\ Members /\ Queueing
  BY <1>1 DEF CallersTyped, Members, Queueing, Joined, NoMember
<1>4. Structure
  BY <1>1, StructureInit
<1>5. Ahead = <<>>
  <2>1. <<>> \o <<>> = <<>>
    BY VectorEmpty, VectorConcats
  <2> QED BY <1>1, <2>1 DEF Ahead
<1>6. Elements(Ahead) = {} /\ Elements(pending) = {} /\ Elements(incoming) = {}
      /\ DOMAIN pending = {}
  BY <1>1, <1>5, VectorEmpty
<1>7. Worded /\ Recorded /\ Granted
  BY <1>6 DEF Worded, Recorded, Granted
<1>8. Behind /\ Upheld /\ Restored
  BY <1>1, <1>6 DEF Behind, Upheld, Restored
<1> QED BY <1>2, <1>3, <1>4, <1>7, <1>8 DEF FInv, Lasting

\* Every step keeps the invariant.
LEMMA FInvStep ==
  ASSUME Accepts = {TRUE}, SInv, SInv', RInv, FInv, RoomToRenew, [Next]_vars
  PROVE  FInv'
<1> SUFFICES ASSUME ~Over'
             PROVE  (Course /\ CallersTyped /\ Structure /\ Members /\ Queueing /\ Lasting)'
  BY DEF FInv
<1>1. Course /\ CallersTyped /\ Structure /\ Members /\ Queueing /\ Lasting
  BY OverStays DEF FInv
<1>2. Course'
  BY <1>1, CourseStep
<1>3. CallersTyped'
  BY <1>1, CallersStep
<1>4. Structure' /\ Members' /\ Queueing'
  BY <1>1, TableStep DEF Lasting
<1>5. Lasting'
  BY <1>1, LastingStep
<1> QED BY <1>2, <1>3, <1>3, <1>4, <1>5

\* What is held where nothing is on its way any more.
LEMMA HeldWhenSettled == SInv /\ FInv => FirstLossRestored
<1> SUFFICES ASSUME SInv, FInv, losses <= 1, Settled, NEW o \in Opens, pc[o] = "open"
             PROVE  server[FilterOf[o]] # NotHeld
  BY DEF FirstLossRestored, OpenFiltersHeld
<1>1. Lasting /\ Course
  BY DEF FInv, Settled, Over
<1>2. Asked = <<>>
  <2>1. parked = <<>> /\ Vector(setAside) /\ Vector(channel) /\ setAside \o channel = <<>>
    BY DEF SInv, Shape, Settled, Connected
  <2>2. parked \o setAside = setAside
    BY <2>1, VectorConcats
  <2>3. Ahead = <<>>
    BY <2>1, <2>2 DEF Ahead
  <2>4. Elements(<<>>) \cap Demands = {} /\ Vector(<<>>)
    BY VectorEmpty
  <2>5. Demanded(<<>>) = <<>>
    BY <2>4, DemandedProperties
  <2> QED BY <2>3, <2>5 DEF Asked
<1>3. CASE ~renewed
  BY <1>1, <1>3 DEF Lasting, Upheld, Firm
<1>4. CASE renewed
  <2>1. Coming(FilterOf[o])
    BY <1>1, <1>4 DEF Lasting, Restored, Settled
  <2>2. DOMAIN Asked = {}
    BY <1>2
  <2> QED BY <2>1, <2>2 DEF Coming
<1> QED BY <1>3, <1>4

\* Where every subscribe is granted, no mode is custom and a new session finds room for
\* its subscribes, every open subscription is on the server again after the first loss.
THEOREM RestoredAfterFirstLoss ==
  ASSUME Accepts = {TRUE}, "custom" \notin Policies
  PROVE  Spec /\ [][RoomToRenew]_vars => []FirstLossRestored
<1>1. Init => SInv /\ RInv /\ FInv
  BY SInvInit, RInvInit, FInvInit
<1>2. SInv /\ RInv /\ FInv /\ [Next]_vars /\ [RoomToRenew]_vars => (SInv /\ RInv /\ FInv)'
  <2> SUFFICES ASSUME SInv, RInv, FInv, [Next]_vars, [RoomToRenew]_vars
               PROVE  (SInv /\ RInv /\ FInv)'
    OBVIOUS
  <2>1. SInv' /\ RInv'
    BY SInvStep, RInvStep
  <2>2. CASE RoomToRenew
    BY <2>1, <2>2, FInvStep
  <2>3. CASE UNCHANGED vars
    <3>1. RoomToRenew
      <4>1. ASSUME NEW identifiers \in Offers, Connack(FALSE, identifiers) PROVE FALSE
        BY <2>3, <4>1 DEF Connack, vars, taskVars
      <4> QED BY <4>1 DEF RoomToRenew
    <3> QED BY <2>1, <3>1, FInvStep
  <2> QED BY <2>2, <2>3
<1>3. SInv /\ FInv => FirstLossRestored
  BY HeldWhenSettled
<1> QED BY <1>1, <1>2, <1>3, PTL DEF Spec
=============================================================================
