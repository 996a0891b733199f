----------------------------- MODULE MCRestart -----------------------------
(***************************************************************************)
(* Instances of Restart for TLC.                                           *)
(***************************************************************************)
EXTENDS Restart
=============================================================================
