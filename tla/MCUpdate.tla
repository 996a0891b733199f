------------------------------ MODULE MCUpdate ------------------------------
(***************************************************************************)
(* Instances of Update for TLC: what the servers deliver.                  *)
(***************************************************************************)
EXTENDS Update

GoodOnly == {"signed"}
=============================================================================
