------------------------------ MODULE MCThpool ------------------------------
(***************************************************************************)
(* An instance of Thpool for TLC: two workers, main, which owns the pool,  *)
(* and a thread that runs a signal handler; both add jobs and wait.        *)
(***************************************************************************)
EXTENDS Thpool

CONSTANTS w1, w2, main, other, j1, j2

TwoWorkers == {w1, w2}
MainAndOther == {main, other}
TwoJobs == {j1, j2}
=============================================================================
