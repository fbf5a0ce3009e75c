---------------------------- MODULE TopicFilter ----------------------------
(***************************************************************************)
(* Topic filters as the crate reads them: which topics a filter matches, by *)
(* the client and by a server, when two filters meet (filters_overlap in    *)
(* registry.rs), how a share group is written on the wire and read back,    *)
(* and which texts are topics.  A topic or a filter is the sequence of its  *)
(* levels; the text of a level is kept abstract up to its leading $.        *)
(***************************************************************************)
EXTENDS Naturals, Sequences

CONSTANTS
  Plain,        \* the levels without a wildcard
  Dollar,       \* those that start with $
  Strip,        \* Strip[d]: d without its first $
  One, Rest,    \* the levels + and #
  Share,        \* the level $share
  Groups,       \* names of share groups: levels
  FilterSet,    \* the filters and topics the properties range over
  TopicSet

Wild == {One, Rest}

\* A topic has no wildcard: check_topic, MqttTopic::validate.
ValidTopic(t) == t \in Seq(Plain) /\ t # <<>>

\* In a filter # comes last: MqttFilter::validate.
ValidFilter(f) ==
  /\ f \in Seq(Plain \cup Wild) /\ f # <<>>
  /\ \A n \in 1..(Len(f) - 1) : f[n] # Rest

ASSUME TopicFilterAssumption ==
  /\ Dollar \subseteq Plain /\ Strip \in [Dollar -> Plain]
  /\ \A d, e \in Dollar : Strip[d] = Strip[e] => d = e
  /\ One \notin Plain /\ Rest \notin Plain /\ One # Rest
  /\ Share \in Dollar /\ Groups \subseteq Plain
  /\ \A f \in FilterSet : ValidFilter(f) /\ f[1] # Share
  /\ \A t \in TopicSet : ValidTopic(t)

VARIABLE asked  \* the two filters a caller asks about: the functions below are pure

-----------------------------------------------------------------------------
(* Which topics a filter matches.                                          *)

Fits(t, f, n) == n <= Len(t) /\ (f[n] = One \/ f[n] = t[n])

Aligned(t, f) ==
  \/ \E n \in DOMAIN f : f[n] = Rest /\ \A m \in 1..(n - 1) : Fits(t, f, m)
  \/ Len(t) = Len(f) /\ \A m \in DOMAIN f : Fits(t, f, m)

\* The client's matches, which refuses a topic that starts with $.
ClientMatches(t, f) == t[1] \notin Dollar /\ Aligned(t, f)

Stripped(s) == [s EXCEPT ![1] = Strip[@]]

\* Mutation: the $ of the topic is dropped, and none is asked of the filter.
ServerMatchesAny(t, f) ==
  IF t[1] \in Dollar
  THEN ClientMatches(Stripped(t), IF f[1] \in Dollar THEN Stripped(f) ELSE f)
  ELSE ClientMatches(t, f)

\* server_matches: of both, the $ is dropped first.
ServerMatches(t, f) ==
  IF t[1] \in Dollar
  THEN f[1] \in Dollar /\ ClientMatches(Stripped(t), Stripped(f))
  ELSE ClientMatches(t, f)

-----------------------------------------------------------------------------
(* When two filters meet.                                                  *)

\* Mutation: the rule about $ is not asked of the first level.
VerdictPlain(l, r, n) ==
  IF n > Len(l) \/ n > Len(r)
  THEN IF \/ n > Len(l) /\ n > Len(r)
          \/ n <= Len(l) /\ l[n] = Rest
          \/ n <= Len(r) /\ r[n] = Rest THEN "meet" ELSE "apart"
  ELSE IF Rest \in {l[n], r[n]} THEN "meet"
  ELSE IF l[n] = r[n] \/ One \in {l[n], r[n]} THEN "next" ELSE "apart"

\* What the n-th turn of the loop decides.
Verdict(l, r, n) ==
  IF n > Len(l) \/ n > Len(r)
  THEN IF \/ n > Len(l) /\ n > Len(r)
          \/ n <= Len(l) /\ l[n] = Rest
          \/ n <= Len(r) /\ r[n] = Rest THEN "meet" ELSE "apart"
  ELSE IF n = 1 /\ {l[1], r[1]} \cap Wild # {} /\ {l[1], r[1]} \cap Dollar # {}
       THEN "apart"
  ELSE IF Rest \in {l[n], r[n]} THEN "meet"
  ELSE IF l[n] = r[n] \/ One \in {l[n], r[n]} THEN "next" ELSE "apart"

\* filters_overlap: the first turn that decides.
FiltersOverlap(l, r) ==
  \E n \in 1..(Len(l) + 1) :
    Verdict(l, r, n) = "meet" /\ \A m \in 1..(n - 1) : Verdict(l, r, m) = "next"

-----------------------------------------------------------------------------
(* A filter on the wire.                                                   *)

NoGroup == <<>>

\* MqttFilter::wire_filter, of a filter in a share group or in none.
WireFilter(group, f) == IF group = NoGroup THEN f ELSE <<Share, group>> \o f

Shared(w) == Len(w) > 2 /\ w[1] = Share

\* ServerSubscription::new: the filter the topics are matched against.
PlainOf(w) == IF Shared(w) THEN Tail(Tail(w)) ELSE w

-----------------------------------------------------------------------------
(* Properties.                                                             *)

\* No question yet.
Nothing == <<>>

TopicInit == asked \in FilterSet \X FilterSet

\* Nothing follows from an answer.
TopicSpec == TopicInit /\ [][FALSE]_asked

\* The registry tells two filters apart exactly when some topic matches both, so
\* that no pair of filters is delivered one message twice for lack of identifiers,
\* and none is refused for nothing.
OverlapIsMeeting ==
  asked # Nothing =>
    LET f == asked[1]
        g == asked[2]
    IN FiltersOverlap(f, g) <=> \E t \in TopicSet : ServerMatches(t, f) /\ ServerMatches(t, g)

\* The protocol's rule.
Delivers(t, f) ==
  /\ f[1] \in Wild => t[1] \notin Dollar
  /\ IF f[Len(f)] = Rest THEN Len(t) >= Len(f) - 1 ELSE Len(t) = Len(f)
  /\ \A n \in DOMAIN f : f[n] \in Plain => n <= Len(t) /\ t[n] = f[n]

\* No level starts with two $, so that a topic without its first $ starts with none.
SingleDollar == \A d \in Dollar : Strip[d] \notin Dollar

\* The in-process server delivers a message as the protocol says, $ topics
\* included.
ServerDelivers ==
  asked # Nothing /\ SingleDollar =>
    \A t \in TopicSet : ServerMatches(t, asked[1]) <=> Delivers(t, asked[1])

\* What a server sends for a filter, the client's match takes for it.  No run checks
\* it: it fails for topics that start with $, see the README.
DemultiplexTakes ==
  \A f \in FilterSet, t \in TopicSet : ServerMatches(t, f) => ClientMatches(t, f)
=============================================================================
