---------------------------- MODULE MCInProcess ----------------------------
(***************************************************************************)
(* InProcess on two wire filters that match one topic, a share group's and  *)
(* a plain one that is opened twice.  The filters are read as TopicFilter   *)
(* reads them, and the run has TopicFilter's states too, apart from those   *)
(* of the transport: every pair of filters of up to three levels.           *)
(***************************************************************************)
EXTENDS InProcess, TopicFilter, TLC

CONSTANTS a, b, sys, group, first, second, third, main, other

MCPlain  == {a, b, sys, Share, group}
MCStrip  == sys :> a @@ Share :> group
MCLevels == {a, b, sys, One, Rest}

MCFilterSet ==
  {f \in UNION {[1..n -> MCLevels] : n \in 1..3} : \A n \in 1..(Len(f) - 1) : f[n] # Rest}
MCTopicSet == UNION {[1..n -> {a, b, sys}] : n \in 1..3}

exact == <<a, b>>
jobs  == WireFilter(group, exact)

MCTopics       == {exact}
MCFilters      == {exact, jobs}
MCShareFilters == {f \in MCFilters : Shared(f)}
MCServer       == [t \in MCTopics |-> {f \in MCFilters : ServerMatches(t, PlainOf(f))}]
MCClient       == [t \in MCTopics |-> {f \in MCFilters : ClientMatches(t, PlainOf(f))}]
MCNameOf       == [f \in MCFilters |-> PlainOf(f)]
MCDerived      == exact :> 1 @@ jobs :> 1

MCOpens    == {first, second, third}
MCFilterOf == first :> exact @@ second :> jobs @@ third :> exact
MCQosOf    == first :> 1 @@ second :> 2 @@ third :> 0

Value(th) == [topic |-> exact, qos |-> 1, retain |-> TRUE, empty |-> FALSE, thread |-> th]
MCScript  == main :> <<Value(main), Value(main)>>
               @@ other :> <<[Value(other) EXCEPT !.empty = TRUE]>>

\* The transport runs while no two filters are compared.
MCInit == Init /\ (asked = Nothing \/ TopicInit)
MCNext == asked = Nothing /\ Next /\ UNCHANGED asked
MCSpec == MCInit /\ [][MCNext]_<<vars, asked>>
=============================================================================
