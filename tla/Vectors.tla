------------------------------ MODULE Vectors ------------------------------
(***************************************************************************)
(* What Vec::retain and Iterator::filter leave of a sequence.  It is        *)
(* SelectSeq, defined by the places that are kept and not by recursion over *)
(* the sequence, so that facts about it can be proved.                      *)
(***************************************************************************)
EXTENDS Integers, Sequences, FiniteSets

\* How many of the places P are p or come before it.
Rank(P, p) == Cardinality({q \in P : q <= p})

\* The elements of s at the places P, in the order of s.
At(s, P) == [i \in 1..Cardinality(P) |-> s[CHOOSE p \in P : Rank(P, p) = i]]

\* The elements of s that pass the test, in the order of s.
Select(s, Test(_)) == At(s, {i \in DOMAIN s : Test(s[i])})
=============================================================================
