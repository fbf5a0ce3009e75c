----------------------------- MODULE MCSession -----------------------------
(***************************************************************************)
(* Session on two filters that meet, one subscription on each, and two     *)
(* publishes, one at each quality of service that is confirmed.            *)
(***************************************************************************)
EXTENDS Session, TLC

CONSTANTS narrow, wide, sharedTopic, first, second, once, twice

MCFilters  == {narrow, wide}
MCTopics   == {sharedTopic}
MCMatching == sharedTopic :> {narrow, wide}
MCDerived  == narrow :> 1 @@ wide :> 2
MCFilterOf == [o \in Opens |-> IF o = second THEN wide ELSE narrow]
MCQosOf    == [o \in Opens |-> 1]
MCLevelOf  == [m \in Messages |-> IF m = twice THEN 2 ELSE 1]
=============================================================================
