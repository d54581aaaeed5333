---------------------------- MODULE MCParseConv -----------------------------
(***************************************************************************)
(* Instances of ParseConv for TLC.                                         *)
(***************************************************************************)
EXTENDS ParseConv

MCOpType == [op \in Ops |-> "wave"]
=============================================================================
