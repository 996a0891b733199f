------------------------------- MODULE MCCron -------------------------------
(***************************************************************************)
(* Instances of Cron for TLC.                                              *)
(***************************************************************************)
EXTENDS Cron
=============================================================================
