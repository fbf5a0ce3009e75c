---------------------------- MODULE MCSettlement ----------------------------
(***************************************************************************)
(* Settlement on a few messages.                                            *)
(***************************************************************************)
EXTENDS Settlement
=============================================================================
