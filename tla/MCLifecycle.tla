---------------------------- MODULE MCLifecycle ----------------------------
(***************************************************************************)
(* Lifecycle for TLC: two clones of a broker and one acknowledgement, on a  *)
(* request queue of two places, which the two DISCONNECTs fill.             *)
(***************************************************************************)
EXTENDS Lifecycle
=============================================================================
