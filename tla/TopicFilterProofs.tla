-------------------------- MODULE TopicFilterProofs --------------------------
(***************************************************************************)
(* filters_overlap decides whether some topic matches both filters, and the *)
(* in-process server's match is the protocol's, for filters and topics of   *)
(* any number of levels over any levels.                                    *)
(***************************************************************************)
EXTENDS TopicFilter, TLAPS

\* The properties range over all topics.
EveryTopic == TopicSet = {t \in Seq(Plain) : ValidTopic(t)}

\* A topic has a level for each level of a filter but a last #, and the levels the
\* filter names.
Agrees(t, f) ==
  /\ IF f[Len(f)] = Rest THEN Len(t) >= Len(f) - 1 ELSE Len(t) = Len(f)
  /\ \A n \in DOMAIN f : f[n] \in Plain => n <= Len(t) /\ t[n] = f[n]

-----------------------------------------------------------------------------
(* The match.                                                              *)

\* What a filter is made of.
LEMMA FilterLevels ==
  ASSUME NEW f, ValidFilter(f)
  PROVE  /\ Len(f) \in Nat \ {0} /\ DOMAIN f = 1..Len(f)
         /\ \A n \in 1..Len(f) : f[n] \in Plain \cup Wild
         /\ \A n \in 1..Len(f) : f[n] = Rest => n = Len(f)
BY DEF ValidFilter

\* What a topic is made of.
LEMMA TopicLevels ==
  ASSUME NEW t, ValidTopic(t)
  PROVE  /\ Len(t) \in Nat \ {0} /\ DOMAIN t = 1..Len(t)
         /\ \A n \in 1..Len(t) : t[n] \in Plain
BY DEF ValidTopic

\* The wildcards are not plain levels.
LEMMA WildApart == One \notin Plain /\ Rest \notin Plain /\ One # Rest /\ Wild = {One, Rest}
                   /\ Dollar \subseteq Plain
BY TopicFilterAssumption DEF Wild

\* The client's walk through the levels, from first to last, is that agreement.
LEMMA AlignedAgrees ==
  ASSUME NEW t, NEW f, ValidTopic(t), ValidFilter(f)
  PROVE  Aligned(t, f) <=> Agrees(t, f)
<1> DEFINE last == Len(f)
<1>1. /\ last \in Nat \ {0} /\ last = Len(f) /\ DOMAIN f = 1..last
      /\ \A n \in 1..last : f[n] \in Plain \cup Wild
      /\ \A n \in 1..last : f[n] = Rest => n = last
  BY FilterLevels
<1>2. /\ Len(t) \in Nat \ {0} /\ \A n \in 1..Len(t) : t[n] \in Plain
  BY TopicLevels
<1> HIDE DEF last
<1>3. ASSUME f[last] = Rest PROVE Aligned(t, f) <=> Agrees(t, f)
  <2>1. ASSUME Aligned(t, f) PROVE Agrees(t, f)
    <3>1. CASE \E n \in DOMAIN f : f[n] = Rest /\ \A m \in 1..(n - 1) : Fits(t, f, m)
      <4>1. \A m \in 1..(last - 1) : Fits(t, f, m)
        BY <1>1, <3>1
      <4>2. Len(t) >= last - 1
        <5>1. CASE last = 1
          BY <5>1, <1>2
        <5>2. CASE last # 1
          <6>1. last - 1 \in 1..(last - 1)
            BY <5>2, <1>1
          <6>2. QED
            BY <4>1, <6>1 DEF Fits
        <5>3. QED
          BY <5>1, <5>2
      <4>3. ASSUME NEW n \in 1..last, f[n] \in Plain PROVE n <= Len(t) /\ t[n] = f[n]
        <5>1. n \in 1..(last - 1)
          BY <1>1, <1>3, <4>3, WildApart
        <5>2. QED
          BY <4>1, <4>3, <5>1, WildApart DEF Fits
      <4>4. QED
        BY <1>1, <1>3, <4>2, <4>3 DEF Agrees
    <3>2. CASE Len(t) = Len(f) /\ \A m \in DOMAIN f : Fits(t, f, m)
      <4>1. last \in DOMAIN f /\ last \in 1..Len(t)
        BY <1>1, <3>2
      <4>2. FALSE
        BY <1>2, <1>3, <3>2, <4>1, WildApart DEF Fits
      <4>3. QED
        BY <4>2
    <3>3. QED
      BY <2>1, <3>1, <3>2 DEF Aligned
  <2>2. ASSUME Agrees(t, f) PROVE Aligned(t, f)
    <3>1. ASSUME NEW m \in 1..(last - 1) PROVE Fits(t, f, m)
      <4>1. m \in 1..last /\ f[m] # Rest
        BY <1>1
      <4>2. m <= Len(t)
        BY <1>1, <1>2, <1>3, <2>2 DEF Agrees
      <4>3. f[m] = One \/ t[m] = f[m]
        BY <1>1, <2>2, <4>1, WildApart DEF Agrees
      <4>4. QED
        BY <4>2, <4>3 DEF Fits
    <3>2. QED
      BY <1>1, <1>3, <3>1 DEF Aligned
  <2>3. QED
    BY <2>1, <2>2
<1>4. ASSUME f[last] # Rest PROVE Aligned(t, f) <=> Agrees(t, f)
  <2>1. \A n \in DOMAIN f : f[n] # Rest /\ (f[n] = One \/ f[n] \in Plain)
    BY <1>1, <1>4, WildApart
  <2>2. Aligned(t, f) <=> Len(t) = Len(f) /\ \A m \in DOMAIN f : Fits(t, f, m)
    BY <2>1 DEF Aligned
  <2>3. Agrees(t, f) <=>
          Len(t) = Len(f) /\ \A n \in DOMAIN f : f[n] \in Plain => n <= Len(t) /\ t[n] = f[n]
    BY <1>1, <1>4 DEF Agrees
  <2>4. ASSUME Len(t) = Len(f), NEW n \in DOMAIN f
        PROVE  Fits(t, f, n) <=> (f[n] \in Plain => n <= Len(t) /\ t[n] = f[n])
    <3>1. n <= Len(t)
      BY <1>1, <2>4
    <3>2. QED
      BY <2>1, <3>1, WildApart DEF Fits
  <2>5. QED
    BY <2>2, <2>3, <2>4
<1>5. QED
  BY <1>3, <1>4

\* Without the first $ of both, topic and filter agree as they do with it.
LEMMA StrippedAligned ==
  ASSUME NEW t, NEW f, ValidTopic(t), ValidFilter(f), t[1] \in Dollar, f[1] \in Dollar
  PROVE  Aligned(Stripped(t), Stripped(f)) <=> Aligned(t, f)
<1> DEFINE s == Stripped(t)
           g == Stripped(f)
<1>1. /\ DOMAIN g = DOMAIN f /\ Len(g) = Len(f) /\ DOMAIN f = 1..Len(f) /\ Len(f) \in Nat \ {0}
      /\ g[1] = Strip[f[1]] /\ \A n \in DOMAIN f : n # 1 => g[n] = f[n]
  BY FilterLevels DEF Stripped, ValidFilter
<1>2. /\ Len(s) = Len(t) /\ Len(t) \in Nat \ {0} /\ DOMAIN t = 1..Len(t)
      /\ s[1] = Strip[t[1]] /\ \A n \in DOMAIN t : n # 1 => s[n] = t[n]
  BY TopicLevels DEF Stripped, ValidTopic
<1>3. /\ Strip[f[1]] \in Plain /\ (Strip[t[1]] = Strip[f[1]] <=> t[1] = f[1])
      /\ f[1] \in Plain
  BY TopicFilterAssumption
<1> HIDE DEF s, g
<1>4. ASSUME NEW n \in DOMAIN f PROVE Fits(s, g, n) <=> Fits(t, f, n)
  <2>1. CASE n = 1
    BY <1>1, <1>2, <1>3, <2>1, WildApart DEF Fits
  <2>2. CASE n # 1
    BY <1>1, <1>2, <2>2 DEF Fits
  <2>3. QED
    BY <2>1, <2>2
<1>5. \A n \in DOMAIN f : g[n] = Rest <=> f[n] = Rest
  BY <1>1, <1>3, WildApart
<1>6. \A n \in DOMAIN f : 1..(n - 1) \subseteq DOMAIN f
  BY <1>1
<1>7. Aligned(s, g) <=> Aligned(t, f)
  BY <1>1, <1>2, <1>4, <1>5, <1>6 DEF Aligned
<1>8. QED
  BY <1>7 DEF s, g

\* A server's match is the agreement of the levels, but for a topic that starts with
\* $ under a filter that starts with a wildcard.
LEMMA MatchAgrees ==
  ASSUME SingleDollar, NEW t, NEW f, ValidTopic(t), ValidFilter(f)
  PROVE  ServerMatches(t, f) <=> (f[1] \in Wild => t[1] \notin Dollar) /\ Agrees(t, f)
<1>1. CASE t[1] \notin Dollar
  BY <1>1, AlignedAgrees DEF ServerMatches, ClientMatches
<1>2. CASE t[1] \in Dollar /\ f[1] \in Dollar
  <2>1. Stripped(t)[1] \notin Dollar
    <3>1. Stripped(t)[1] = Strip[t[1]]
      BY TopicLevels DEF Stripped, ValidTopic
    <3>2. QED
      BY <1>2, <3>1 DEF SingleDollar
  <2>2. f[1] \notin Wild
    BY <1>2, WildApart
  <2>3. QED
    BY <1>2, <2>1, <2>2, StrippedAligned, AlignedAgrees DEF ServerMatches, ClientMatches
<1>3. CASE t[1] \in Dollar /\ f[1] \notin Dollar
  <2>1. ~ServerMatches(t, f)
    BY <1>3 DEF ServerMatches
  <2>2. f[1] \in Plain \cup Wild /\ 1 \in DOMAIN f
    BY FilterLevels
  <2>3. ASSUME Agrees(t, f), f[1] \in Plain PROVE FALSE
    BY <1>3, <2>2, <2>3 DEF Agrees
  <2>4. QED
    BY <1>3, <2>1, <2>2, <2>3
<1>4. QED
  BY <1>1, <1>2, <1>3

\* The in-process server delivers a message as the protocol says, whatever filters and
\* topics there are.
THEOREM ServerFollowsProtocol == TopicSpec => []ServerDelivers
<1>1. TopicInit => ServerDelivers
  <2> SUFFICES ASSUME TopicInit, SingleDollar, NEW t \in TopicSet
               PROVE  ServerMatches(t, asked[1]) <=> Delivers(t, asked[1])
    BY DEF ServerDelivers
  <2>1. asked[1] \in FilterSet
    BY DEF TopicInit
  <2>2. ValidFilter(asked[1]) /\ ValidTopic(t)
    BY <2>1, TopicFilterAssumption
  <2>3. QED
    BY <2>2, MatchAgrees DEF Delivers, Agrees
<1>2. ServerDelivers /\ [FALSE]_asked => ServerDelivers'
  <2> SUFFICES ASSUME ServerDelivers, asked' = asked PROVE ServerDelivers'
    OBVIOUS
  <2>1. QED
    BY DEF ServerDelivers
<1>3. QED
  BY <1>1, <1>2, PTL DEF TopicSpec

-----------------------------------------------------------------------------
(* When two filters meet.                                                  *)

\* The rule about $ that a match asks of the first level.
Permits(t, f) == f[1] \in Wild => t[1] \notin Dollar

\* The two filters may be swapped.
LEMMA VerdictSymmetric ==
  ASSUME NEW f, NEW g, NEW n
  PROVE  Verdict(f, g, n) = Verdict(g, f, n)
<1>1. {f[n], g[n]} = {g[n], f[n]} /\ {f[1], g[1]} = {g[1], f[1]}
  OBVIOUS
<1>2. (f[n] = g[n]) = (g[n] = f[n])
  OBVIOUS
<1>3. QED
  BY <1>1, <1>2 DEF Verdict

\* What a turn says while both filters have a level.
LEMMA VerdictWithin ==
  ASSUME NEW f, NEW g, ValidFilter(f), ValidFilter(g),
         NEW n \in Nat \ {0}, n <= Len(f), n <= Len(g)
  PROVE  LET ruled == n = 1 /\ \/ f[1] \in Wild /\ g[1] \in Dollar
                               \/ g[1] \in Wild /\ f[1] \in Dollar
         IN /\ Verdict(f, g, n) = "meet" <=> ~ruled /\ (f[n] = Rest \/ g[n] = Rest)
            /\ Verdict(f, g, n) = "next" <=>
                 /\ ~ruled /\ f[n] # Rest /\ g[n] # Rest
                 /\ f[n] = g[n] \/ f[n] = One \/ g[n] = One
<1>1. Len(f) \in Nat /\ Len(g) \in Nat
  BY FilterLevels
<1>2. ({f[1], g[1]} \cap Wild # {} /\ {f[1], g[1]} \cap Dollar # {}) <=>
        \/ f[1] \in Wild /\ g[1] \in Dollar
        \/ g[1] \in Wild /\ f[1] \in Dollar
  BY WildApart
<1>3. ~(n > Len(f)) /\ ~(n > Len(g))
  BY <1>1
<1>4. QED
  BY <1>2, <1>3 DEF Verdict

\* The n-th turn is the last: the second filter has its # there, or both have ended.
Ends(f, g, n) ==
  \/ n <= Len(g) /\ g[n] = Rest
  \/ n > Len(f) /\ n > Len(g)

\* A topic that both filters match, of the length of the first: its levels are the
\* first filter's where that names them, else the second's, else any.
LEMMA MeetingTopic ==
  ASSUME EveryTopic, SingleDollar, NEW w \in Plain \ Dollar,
         NEW f, NEW g, ValidFilter(f), ValidFilter(g),
         NEW n \in Nat \ {0}, Ends(f, g, n), Verdict(f, g, n) = "meet",
         \A m \in 1..(n - 1) : m <= Len(f) /\ m <= Len(g) /\ Verdict(f, g, m) = "next"
  PROVE  \E t \in TopicSet : ServerMatches(t, f) /\ ServerMatches(t, g)
<1> DEFINE Level(m) == IF f[m] \in Plain THEN f[m]
                       ELSE IF m < n /\ g[m] \in Plain THEN g[m] ELSE w
           t == [m \in 1..Len(f) |-> Level(m)]
<1>1. /\ Len(f) \in Nat \ {0} /\ DOMAIN f = 1..Len(f)
      /\ \A m \in 1..Len(f) : f[m] \in Plain \cup Wild
      /\ \A m \in 1..Len(f) : f[m] = Rest => m >= Len(f)
  BY FilterLevels
<1>2. /\ Len(g) \in Nat \ {0} /\ DOMAIN g = 1..Len(g)
      /\ \A m \in 1..Len(g) : g[m] \in Plain \cup Wild
      /\ \A m \in 1..Len(g) : g[m] = Rest => m >= Len(g)
  BY FilterLevels
<1>3. ASSUME NEW m \in 1..Len(f) PROVE Level(m) \in Plain
  OBVIOUS
<1>4. t \in Seq(Plain) /\ Len(t) = Len(f) /\ \A m \in 1..Len(f) : t[m] = Level(m)
  BY <1>1, <1>3
<1> HIDE DEF t
<1>5. ValidTopic(t) /\ t \in TopicSet
  <2>1. t # <<>>
    BY <1>1, <1>4
  <2>2. QED
    BY <1>4, <2>1 DEF ValidTopic, EveryTopic
<1>6. Agrees(t, f)
  BY <1>1, <1>4 DEF Agrees
<1>7. ASSUME NEW m \in 1..(n - 1)
      PROVE  /\ m \in 1..Len(f) /\ m \in 1..Len(g) /\ g[m] # Rest /\ f[m] # Rest
             /\ f[m] = g[m] \/ f[m] = One \/ g[m] = One
             /\ m = 1 => ~(f[1] \in Wild /\ g[1] \in Dollar) /\ ~(g[1] \in Wild /\ f[1] \in Dollar)
  <2>1. m \in Nat \ {0} /\ m <= Len(f) /\ m <= Len(g) /\ Verdict(f, g, m) = "next"
    OBVIOUS
  <2>2. QED
    BY <1>1, <1>2, <2>1, VerdictWithin
<1>8. \A m \in 1..Len(g) : g[m] \in Plain => m \in 1..(n - 1)
  BY <1>2, WildApart DEF Ends
<1>9. IF g[Len(g)] = Rest THEN Len(f) >= Len(g) - 1 ELSE Len(f) = Len(g)
  <2>1. n - 1 <= Len(f) /\ n - 1 <= Len(g)
    <3>1. n # 1 => n - 1 \in 1..(n - 1)
      OBVIOUS
    <3>2. QED
      BY <1>1, <1>2, <3>1
  <2>2. CASE n <= Len(g) /\ g[n] = Rest
    <3>1. Len(g) <= n /\ Len(g) >= n
      BY <1>2, <2>2
    <3>2. Len(f) >= Len(g) - 1
      BY <1>1, <1>2, <2>1, <3>1
    <3>3. g[Len(g)] = Rest
      BY <1>2, <2>2, <3>1
    <3>4. QED
      BY <3>2, <3>3
  <2>3. CASE n > Len(f) /\ n > Len(g)
    <3>1. Len(f) <= Len(g) /\ Len(g) <= Len(f)
      BY <1>1, <1>2, <2>1, <2>3
    <3>2. Len(f) = Len(g)
      <4>1. \A i, j \in Nat : i <= j /\ j <= i => i = j
        OBVIOUS
      <4>2. Len(f) \in Nat /\ Len(g) \in Nat
        BY <1>1, <1>2
      <4>3. QED
        BY <3>1, <4>1, <4>2, Zenon
    <3>3. Len(f) >= Len(g) - 1
      BY <1>1, <1>2, <3>1
    <3>4. QED
      BY <3>2, <3>3
  <2>4. QED
    BY <2>2, <2>3 DEF Ends
<1>10. Agrees(t, g)
  <2>1. ASSUME NEW m \in 1..Len(g), g[m] \in Plain PROVE m <= Len(t) /\ t[m] = g[m]
    <3>1. m < n /\ m \in 1..Len(f) /\ (f[m] = g[m] \/ f[m] \notin Plain)
      BY <1>7, <1>8, <2>1, WildApart
    <3>2. QED
      BY <1>1, <1>4, <2>1, <3>1
  <2>2. QED
    BY <1>2, <1>4, <1>9, <2>1 DEF Agrees
<1>11. Permits(t, f) /\ Permits(t, g)
  <2>1. ~(f[1] \in Wild /\ g[1] \in Dollar) /\ ~(g[1] \in Wild /\ f[1] \in Dollar)
    <3>1. CASE n = 1
      <4>1. n <= Len(f) /\ n <= Len(g)
        BY <1>1, <1>2, <3>1
      <4>2. QED
        BY <3>1, <4>1, VerdictWithin
    <3>2. CASE n # 1
      <4>1. 1 \in 1..(n - 1)
        BY <3>2
      <4>2. QED
        BY <1>7, <4>1
    <3>3. QED
      BY <3>1, <3>2
  <2>2. t[1] = Level(1) /\ f[1] \in Plain \cup Wild /\ g[1] \in Plain \cup Wild
    BY <1>1, <1>2, <1>4
  <2>3. Permits(t, f)
    BY <2>1, <2>2, WildApart DEF Permits
  <2>4. ASSUME g[1] \in Wild PROVE t[1] \notin Dollar
    BY <2>1, <2>2, <2>4, WildApart
  <2>5. QED
    BY <2>3, <2>4 DEF Permits
<1>12. QED
  BY <1>5, <1>6, <1>10, <1>11, MatchAgrees DEF Permits

\* While both filters have a level there, and one topic matches both, no turn tells
\* them apart.
LEMMA NeverApart ==
  ASSUME SingleDollar, NEW f, NEW g, NEW t, ValidFilter(f), ValidFilter(g), ValidTopic(t),
         ServerMatches(t, f), ServerMatches(t, g),
         NEW n \in Nat \ {0}, n <= Len(f), n <= Len(g)
  PROVE  IF f[n] = Rest \/ g[n] = Rest
         THEN Verdict(f, g, n) = "meet" ELSE Verdict(f, g, n) = "next"
<1>1. Agrees(t, f) /\ Agrees(t, g) /\ Permits(t, f) /\ Permits(t, g)
  BY MatchAgrees DEF Permits
<1>2. /\ DOMAIN f = 1..Len(f) /\ DOMAIN g = 1..Len(g) /\ Len(f) \in Nat /\ Len(g) \in Nat
      /\ \A m \in 1..Len(f) : f[m] \in Plain \cup Wild
      /\ \A m \in 1..Len(g) : g[m] \in Plain \cup Wild
  BY FilterLevels
<1>3. ASSUME NEW m \in DOMAIN f, f[m] \in Plain PROVE t[m] = f[m]
  BY <1>1, <1>3 DEF Agrees
<1>4. ASSUME NEW m \in DOMAIN g, g[m] \in Plain PROVE t[m] = g[m]
  BY <1>1, <1>4 DEF Agrees
<1>5. 1 \in DOMAIN f /\ 1 \in DOMAIN g /\ n \in DOMAIN f /\ n \in DOMAIN g
  BY <1>2
<1>6. ~(f[1] \in Wild /\ g[1] \in Dollar) /\ ~(g[1] \in Wild /\ f[1] \in Dollar)
  BY <1>1, <1>3, <1>4, <1>5, WildApart DEF Permits
<1>7. f[n] \in Wild \/ g[n] \in Wild \/ f[n] = g[n]
  BY <1>2, <1>3, <1>4, <1>5
<1>8. QED
  BY <1>6, <1>7, WildApart, VerdictWithin

\* Two filters that share a topic are seen to meet: at the first # of either, or when
\* both end.
LEMMA MeetingSeen ==
  ASSUME SingleDollar, NEW f, NEW g, NEW t, ValidFilter(f), ValidFilter(g), ValidTopic(t),
         ServerMatches(t, f), ServerMatches(t, g)
  PROVE  FiltersOverlap(f, g)
<1> DEFINE Meets(n) == /\ n \in 1..(Len(f) + 1) /\ Verdict(f, g, n) = "meet"
                       /\ \A m \in 1..(n - 1) : Verdict(f, g, m) = "next"
<1>1. Agrees(t, f) /\ Agrees(t, g) /\ Len(t) \in Nat
  BY MatchAgrees, TopicLevels
<1>2. /\ Len(f) \in Nat \ {0} /\ Len(g) \in Nat \ {0}
      /\ \A n \in 1..Len(f) : f[n] = Rest => n >= Len(f)
      /\ \A n \in 1..Len(g) : g[n] = Rest => n >= Len(g)
  BY FilterLevels
<1>3. ASSUME NEW n \in 1..(Len(f) + 1),
             \A m \in 1..(n - 1) : m <= Len(f) /\ m <= Len(g) /\ f[m] # Rest /\ g[m] # Rest
      PROVE  \A m \in 1..(n - 1) : Verdict(f, g, m) = "next"
  <2> TAKE m \in 1..(n - 1)
  <2>1. m \in Nat \ {0} /\ m <= Len(f) /\ m <= Len(g) /\ f[m] # Rest /\ g[m] # Rest
    BY <1>3
  <2>2. QED
    BY <2>1, NeverApart
<1>4. CASE f[Len(f)] = Rest /\ Len(f) <= Len(g)
  <2> DEFINE n == Len(f)
  <2>1. Verdict(f, g, n) = "meet"
    BY <1>2, <1>4, NeverApart
  <2>2. \A m \in 1..(n - 1) : m <= Len(f) /\ m <= Len(g) /\ f[m] # Rest /\ g[m] # Rest
    BY <1>2, <1>4
  <2>3. Meets(n)
    BY <1>2, <1>3, <2>1, <2>2
  <2>4. QED
    BY <2>3 DEF FiltersOverlap
<1>5. CASE g[Len(g)] = Rest /\ Len(g) <= Len(f)
  <2> DEFINE n == Len(g)
  <2>1. Verdict(f, g, n) = "meet"
    BY <1>2, <1>5, NeverApart
  <2>2. \A m \in 1..(n - 1) : m <= Len(f) /\ m <= Len(g) /\ f[m] # Rest /\ g[m] # Rest
    BY <1>2, <1>5
  <2>3. n \in 1..(Len(f) + 1)
    BY <1>2, <1>5
  <2>4. Meets(n)
    BY <1>3, <2>1, <2>2, <2>3
  <2>5. QED
    BY <2>4 DEF FiltersOverlap
<1>6. CASE f[Len(f)] = Rest /\ g[Len(g)] # Rest /\ Len(f) > Len(g)
  <2> DEFINE n == Len(f)
  <2>1. Len(t) = Len(g) /\ Len(t) >= Len(f) - 1
    BY <1>1, <1>6 DEF Agrees
  <2>2. n = Len(g) + 1
    BY <1>1, <1>2, <1>6, <2>1
  <2>3. Verdict(f, g, n) = "meet"
    <3>1. n > Len(g) /\ n <= Len(f) /\ f[n] = Rest
      BY <1>2, <1>6, <2>2
    <3>2. QED
      BY <3>1 DEF Verdict
  <2>4. \A m \in 1..(n - 1) : m <= Len(f) /\ m <= Len(g) /\ f[m] # Rest /\ g[m] # Rest
    BY <1>2, <1>6, <2>2
  <2>5. Meets(n)
    BY <1>2, <1>3, <2>3, <2>4
  <2>6. QED
    BY <2>5 DEF FiltersOverlap
<1>7. CASE g[Len(g)] = Rest /\ f[Len(f)] # Rest /\ Len(g) > Len(f)
  <2> DEFINE n == Len(g)
  <2>1. Len(t) = Len(f) /\ Len(t) >= Len(g) - 1
    BY <1>1, <1>7 DEF Agrees
  <2>2. n = Len(f) + 1
    BY <1>1, <1>2, <1>7, <2>1
  <2>3. Verdict(f, g, n) = "meet"
    <3>1. n > Len(f) /\ n <= Len(g) /\ g[n] = Rest
      BY <1>2, <1>7, <2>2
    <3>2. QED
      BY <3>1 DEF Verdict
  <2>4. \A m \in 1..(n - 1) : m <= Len(f) /\ m <= Len(g) /\ f[m] # Rest /\ g[m] # Rest
    BY <1>2, <1>7, <2>2
  <2>5. Meets(n)
    BY <1>2, <1>3, <2>2, <2>3, <2>4
  <2>6. QED
    BY <2>5 DEF FiltersOverlap
<1>8. CASE f[Len(f)] # Rest /\ g[Len(g)] # Rest
  <2> DEFINE n == Len(f) + 1
  <2>1. Len(f) = Len(g)
    BY <1>1, <1>8 DEF Agrees
  <2>2. Verdict(f, g, n) = "meet"
    <3>1. n > Len(f) /\ n > Len(g)
      BY <1>2, <2>1
    <3>2. QED
      BY <3>1 DEF Verdict
  <2>3. \A m \in 1..(n - 1) : m <= Len(f) /\ m <= Len(g) /\ f[m] # Rest /\ g[m] # Rest
    BY <1>2, <1>8, <2>1
  <2>4. Meets(n)
    BY <1>2, <1>3, <2>2, <2>3
  <2>5. QED
    BY <2>4 DEF FiltersOverlap
<1>9. QED
  BY <1>2, <1>4, <1>5, <1>6, <1>7, <1>8

\* Two filters that are seen to meet share a topic.
LEMMA SeenMeeting ==
  ASSUME EveryTopic, SingleDollar, Plain \ Dollar # {},
         NEW f, NEW g, ValidFilter(f), ValidFilter(g), FiltersOverlap(f, g)
  PROVE  \E t \in TopicSet : ServerMatches(t, f) /\ ServerMatches(t, g)
<1>1. PICK n \in 1..(Len(f) + 1) : /\ Verdict(f, g, n) = "meet"
                                   /\ \A m \in 1..(n - 1) : Verdict(f, g, m) = "next"
  BY DEF FiltersOverlap
<1>2. Len(f) \in Nat \ {0} /\ Len(g) \in Nat \ {0} /\ n \in Nat \ {0}
  BY FilterLevels
<1>3. PICK w : w \in Plain \ Dollar
  OBVIOUS
<1>4. Verdict(g, f, n) = "meet" /\ \A m \in 1..(n - 1) : Verdict(g, f, m) = "next"
  BY <1>1, VerdictSymmetric
<1>5. n <= Len(f) + 1 /\ n <= Len(g) + 1
  <2>1. CASE n = 1
    BY <1>2, <2>1
  <2>2. CASE n # 1
    <3> DEFINE m == n - 1
    <3>1. m \in 1..(n - 1) /\ m \in Nat \ {0} /\ m <= Len(f)
      BY <1>2, <2>2
    <3>2. Verdict(f, g, m) = "next"
      BY <1>1, <3>1
    <3>3. m <= Len(g)
      <4>1. ASSUME m > Len(g) PROVE FALSE
        <5>1. Verdict(f, g, m) \in {"meet", "apart"}
          BY <4>1 DEF Verdict
        <5>2. QED
          BY <3>2, <5>1
      <4>2. QED
        BY <1>2, <3>1, <4>1
    <3>4. QED
      BY <1>2, <3>3
  <2>3. QED
    BY <2>1, <2>2
<1>6. \/ n <= Len(g) /\ g[n] = Rest
      \/ n <= Len(f) /\ f[n] = Rest
      \/ n > Len(f) /\ n > Len(g)
  <2>1. CASE n <= Len(f) /\ n <= Len(g)
    BY <1>1, <1>2, <2>1, VerdictWithin
  <2>2. CASE n > Len(f) \/ n > Len(g)
    <3>1. \/ n > Len(f) /\ n > Len(g)
          \/ n <= Len(f) /\ f[n] = Rest
          \/ n <= Len(g) /\ g[n] = Rest
      BY <1>1, <2>2 DEF Verdict
    <3>2. QED
      BY <1>2, <1>5, <3>1
  <2>3. QED
    BY <1>2, <2>1, <2>2
<1>7. ASSUME NEW m \in 1..(n - 1) PROVE m <= Len(f) /\ m <= Len(g)
  BY <1>2, <1>5
<1>8. CASE n <= Len(f) /\ f[n] = Rest
  BY <1>2, <1>3, <1>4, <1>7, <1>8, MeetingTopic DEF Ends
<1>9. CASE \/ n <= Len(g) /\ g[n] = Rest
           \/ n > Len(f) /\ n > Len(g)
  BY <1>1, <1>2, <1>3, <1>7, <1>9, MeetingTopic DEF Ends
<1>10. QED
  BY <1>6, <1>8, <1>9

\* filters_overlap sees every pair of filters that some topic matches both of, and no
\* other, whatever filters there are, over all topics.
THEOREM OverlapDecides ==
  ASSUME EveryTopic, SingleDollar, Plain \ Dollar # {}
  PROVE  TopicSpec => []OverlapIsMeeting
<1>1. TopicInit => OverlapIsMeeting
  <2> SUFFICES ASSUME TopicInit
               PROVE  FiltersOverlap(asked[1], asked[2]) <=>
                        \E t \in TopicSet : /\ ServerMatches(t, asked[1])
                                            /\ ServerMatches(t, asked[2])
    BY DEF OverlapIsMeeting
  <2>1. asked[1] \in FilterSet /\ asked[2] \in FilterSet
    BY DEF TopicInit
  <2>2. ValidFilter(asked[1]) /\ ValidFilter(asked[2]) /\ \A t \in TopicSet : ValidTopic(t)
    BY <2>1, TopicFilterAssumption
  <2>3. QED
    BY <2>2, MeetingSeen, SeenMeeting
<1>2. OverlapIsMeeting /\ [FALSE]_asked => OverlapIsMeeting'
  <2> SUFFICES ASSUME OverlapIsMeeting, asked' = asked PROVE OverlapIsMeeting'
    OBVIOUS
  <2>1. QED
    BY DEF OverlapIsMeeting
<1>3. QED
  BY <1>1, <1>2, PTL DEF TopicSpec

=============================================================================
