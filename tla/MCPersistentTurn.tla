-------------------------- MODULE MCPersistentTurn --------------------------
(***************************************************************************)
(* Instances of PersistentTurn for TLC.  Servers and turns are model       *)
(* values the specification only compares, so a run without a liveness     *)
(* property may permute them.                                              *)
(***************************************************************************)
EXTENDS PersistentTurn, TLC

InterchangeableTurns == Permutations(Server) \cup Permutations(Turn)

=============================================================================
