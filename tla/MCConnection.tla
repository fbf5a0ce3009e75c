---------------------------- MODULE MCConnection ----------------------------
(***************************************************************************)
(* Connection on two filters that meet on one topic, one of them opened by *)
(* two subscriptions: `wide` also matches a topic `narrow` does not.       *)
(***************************************************************************)
EXTENDS Connection

CONSTANTS narrow, wide, sharedTopic, wideTopic, first, second, third

MCFilters  == {narrow, wide}
MCTopics   == {sharedTopic, wideTopic}
MCMatching == sharedTopic :> {narrow, wide} @@ wideTopic :> {wide}
MCDerived  == narrow :> 1 @@ wide :> 2
MCOpens    == {first, second, third}
MCFilterOf == first :> narrow @@ second :> wide @@ third :> narrow
MCQosOf    == first :> 0 @@ second :> 1 @@ third :> 1

\* One subscription on each filter, none sharing.
MCPair         == {first, second}
MCPairFilterOf == first :> narrow @@ second :> wide
MCPairQosOf    == first :> 1 @@ second :> 1

Fresh    == [f \in MCFilters |-> NotHeld]
Kept(id) == [qos |-> 1, identifier |-> id, since |-> 0]

\* No session, or one a process left in which the same filters were open.
OwnSessions == {Fresh, narrow :> Kept(1) @@ wide :> Kept(2)}
FreshOnly   == {Fresh}
=============================================================================
