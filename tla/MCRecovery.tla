----------------------------- MODULE MCRecovery -----------------------------
(***************************************************************************)
(* Recovery on two filters that do not meet, one subscription on each, and *)
(* one publish.                                                            *)
(***************************************************************************)
EXTENDS Recovery, TLC

CONSTANTS one, other, topic, first, second, once

MCFilters  == {one, other}
MCTopics   == {topic}
MCMatching == topic :> {one}
MCDerived  == one :> 1 @@ other :> 2
MCFilterOf == [o \in Opens |-> IF o = second THEN other ELSE one]
MCQosOf    == [o \in Opens |-> 1]
MCLevelOf  == [m \in Messages |-> 1]
=============================================================================
