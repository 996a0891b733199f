------------------------------ MODULE Services ------------------------------
(***************************************************************************)
(* What the daemon's threads lean on: the cron expressions of its tasks,   *)
(* JSON, the download of an update, the exchange with a time server, the   *)
(* TCP server.  They share no state, so a behaviour is one of them at work *)
(* while the others rest; which commands, jobs and restarts use them in    *)
(* what order is in Gateway, Cron, Update and Restart.                     *)
(***************************************************************************)
EXTENDS CronExpr, Json, Http, Ntp, TcpServer

VARIABLE part   \* the one at work
servicesVars == <<part, cronVars, jsonVars, httpVars, ntpVars, tcpVars>>

\* A part that rests begins with some value of what it may begin with.
Init ==
  /\ part \in {"cron", "json", "http", "ntp", "tcp"}
  /\ CronInit /\ JsonInit /\ HttpInit /\ NtpInit /\ TcpInit
  /\ part # "cron" => text = (CHOOSE t \in Expressions : TRUE) /\ now = (CHOOSE t \in Clocks : TRUE)
  /\ part # "ntp" => trueTime = (CHOOSE t \in Starts : TRUE) /\ ahead = (CHOOSE o \in Offsets : TRUE)

Next ==
  /\ \/ part = "cron" /\ CronStep /\ UNCHANGED <<jsonVars, httpVars, ntpVars, tcpVars>>
     \/ part = "json" /\ JsonStep /\ UNCHANGED <<cronVars, httpVars, ntpVars, tcpVars>>
     \/ part = "http" /\ HttpStep /\ UNCHANGED <<cronVars, jsonVars, ntpVars, tcpVars>>
     \/ part = "ntp" /\ NtpStep /\ UNCHANGED <<cronVars, jsonVars, httpVars, tcpVars>>
     \/ part = "tcp" /\ TcpStep /\ UNCHANGED <<cronVars, jsonVars, httpVars, ntpVars>>
  /\ UNCHANGED part

Spec == Init /\ [][Next]_servicesVars
FairSpec == Spec /\ NtpFairness /\ TcpFairness
=============================================================================
