----------------------------- MODULE MCRegistry -----------------------------
(***************************************************************************)
(* Registry on three wire filters: `both` meets `left` on one topic and     *)
(* `right` on another, which do not meet each other; `left` and `both`     *)
(* derive the same identifier and `right` derives the last one, so the     *)
(* probe for a free identifier collides and wraps.                         *)
(***************************************************************************)
EXTENDS Registry, TLC

CONSTANTS left, right, both, leftTopic, rightTopic

MCFilters  == {left, right, both}
MCTopics   == {leftTopic, rightTopic}
MCMatching == leftTopic :> {left, both} @@ rightTopic :> {right, both}
MCDerived  == left :> 1 @@ both :> 1 @@ right :> 3
=============================================================================
