-------------------------------- MODULE Ntp --------------------------------
(***************************************************************************)
(* The exchange with a time server (third_lib/ntp/ntpclient.c), as         *)
(* ntp_sync_time calls it: the primary server, then the second.  Probes and*)
(* answers may be lost, doubled, late and wrong.  Time passes in seconds;  *)
(* what the daemon does takes none.  Its parameters are one probe, five    *)
(* seconds, clock set, not live: the phase lock (phaselock.c) never runs.  *)
(***************************************************************************)
EXTENDS Integers, FiniteSets

CONSTANTS
  Era,           \* the timestamps there are: 2^32 in the code
  JAN_1970,      \* the timestamp of the beginning of 1970
  Starts,        \* the true time when the first synchronization begins
  Offsets,       \* what the board's clock may be ahead by
  Replies,       \* the answers of servers but for their times
  MaxSyncs, MaxReplies

ASSUME NtpAssumption ==
  /\ Era \in Nat /\ JAN_1970 \in 0..Era - 1
  /\ Starts \subseteq Nat /\ \A r \in Replies : r.ahead \in Int
  /\ MaxSyncs \in Nat

probe_count == 1
cycle_time == 5
NTP_PORT == 123

\* A reply: its fields, whether it returns the timestamp of the probe, and what its server's
\* clock, synchronized or not, is ahead by.
Honest == [li |-> 0, vn |-> 4, mode |-> 4, stratum |-> 2, delay |-> 0, disp |-> 0, port |-> NTP_PORT,
           len |-> 48, echo |-> TRUE, blank |-> FALSE, ahead |-> 0]

VARIABLES
  trueTime, ahead,          \* seconds since 1970; what the board's clock is ahead by
  calling,                  \* the server ntp_operate asks, or "none"
  probes_sent, to,          \* of primary_loop
  time_of_send,             \* of ntp_control
  wire,                     \* probes and answers on their way over this call's socket
  ntpTimeSync,
  origin,                   \* history: true time of the probe
  set,                      \* history: what the clock was set by
  syncs, replies            \* bounds
ntpVars == <<trueTime, ahead, calling, probes_sent, to, time_of_send, wire, ntpTimeSync, origin, set,
             syncs, replies>>

NtpInit ==
  /\ trueTime \in Starts /\ ahead \in Offsets
  /\ calling = "none" /\ probes_sent = 0 /\ to = 0 /\ time_of_send = 0 /\ wire = {}
  /\ ntpTimeSync = 0 /\ origin = 0 /\ set = {} /\ syncs = 0 /\ replies = 0

ntpc_gettime == (trueTime + ahead + JAN_1970) % Era

\* ntp_operate opens a socket of its own: what is still on its way to another one is lost.
ntp_operate(server) ==
  /\ calling' = server /\ probes_sent' = 0 /\ to' = 0 /\ wire' = {}
Synchronize ==
  /\ calling = "none" /\ syncs < MaxSyncs /\ syncs' = syncs + 1
  /\ ntp_operate("primary") /\ set' = {}
  /\ UNCHANGED <<trueTime, ahead, time_of_send, ntpTimeSync, origin, replies>>

\* The end of ntp_operate; ntp_sync_time asks the second server unless the flag is set.
Ended(sync) == IF calling = "primary" /\ sync = 0 THEN ntp_operate("second")
               ELSE ntp_operate("none")

Tick ==
  /\ calling # "none" /\ to > 0
  /\ to' = to - 1 /\ trueTime' = trueTime + 1
  /\ UNCHANGED <<ahead, calling, probes_sent, time_of_send, wire, ntpTimeSync, origin, set, syncs, replies>>

WaitsForAnswer ==                                                          \* Mistake
  /\ calling # "none" /\ to = 0 /\ probes_sent < probe_count
  /\ time_of_send' = ntpc_gettime /\ origin' = trueTime
  /\ wire' = wire \cup {[kind |-> "probe", org |-> time_of_send']}
  /\ probes_sent' = probes_sent + 1 /\ to' = cycle_time
  /\ UNCHANGED <<calling, trueTime, ahead, ntpTimeSync, set, syncs, replies>>
\* select has timed out: the probe is sent, or it was and the loop is left.
TimedOut ==
  /\ calling # "none" /\ to = 0
  /\ IF probes_sent >= probe_count THEN Ended(ntpTimeSync) /\ UNCHANGED <<time_of_send, origin>>
     ELSE /\ time_of_send' = ntpc_gettime /\ origin' = trueTime
          /\ wire' = wire \cup {[kind |-> "probe", org |-> time_of_send']}
          /\ probes_sent' = probes_sent + 1 /\ to' = cycle_time /\ UNCHANGED calling
  /\ UNCHANGED <<trueTime, ahead, ntpTimeSync, set, syncs, replies>>

\* A server has a probe and answers, perhaps not for the last time.  What is lost never arrives.
Reply ==
  /\ replies < MaxReplies /\ replies' = replies + 1
  /\ \E p \in wire, r \in Replies :
       /\ p.kind = "probe"
       /\ wire' = wire \cup {[kind |-> "answer", r |-> r,
                              org |-> IF r.echo THEN p.org ELSE (p.org + 1) % Era,
                              xmt |-> (trueTime + r.ahead + JAN_1970) % Era]}
  /\ UNCHANGED <<trueTime, ahead, calling, probes_sent, to, time_of_send, ntpTimeSync, origin, set, syncs>>

check_source(p) == p.r.port = NTP_PORT
TrustsServer(p) == p.org = time_of_send /\ p.r.mode = 4                    \* Mistake
\* Delays are in units of a second / 65536.
WithinSecond(x) == x \in -65536..65536
\* The fields that rfc1305print checks before it believes a message.
cross_check(p) ==
  /\ p.r.li # 3 /\ p.r.vn >= 3 /\ p.r.mode = 4
  /\ p.org = time_of_send /\ ~p.r.blank
  /\ WithinSecond(p.r.delay) /\ WithinSecond(p.r.disp)
  /\ p.r.stratum # 0

\* set_time: unsigned arithmetic carries over the end of an era, in 2036.
set_time(p) ==
  LET sec == (p.xmt - JAN_1970) % Era
  IN  \/ /\ ahead' = sec - trueTime /\ ntpTimeSync' = 1
         /\ set' = {[probe |-> origin, time |-> sec, at |-> trueTime, reply |-> p.r]}
      \/ ntpTimeSync' = 0 /\ UNCHANGED <<ahead, set>>

\* A message of a wrong length ends the loop as a good one does; one that is refused does not.
Arrive ==
  /\ calling # "none"
  /\ \E p \in wire :
       /\ p.kind = "answer"
       /\ IF p.r.len \notin 1..1299 THEN Ended(ntpTimeSync) /\ UNCHANGED <<ahead, ntpTimeSync, set>>
          ELSE IF check_source(p) /\ cross_check(p)
          THEN set_time(p) /\ Ended(ntpTimeSync')
          ELSE wire' = wire \ {p} /\ UNCHANGED <<calling, probes_sent, to, ahead, ntpTimeSync, set>>
  /\ UNCHANGED <<trueTime, time_of_send, origin, syncs, replies>>

\* Nobody listens there, or the name of the server is not known: recvfrom reports it.
Refused ==
  /\ calling # "none" /\ \E p \in wire : p.kind = "probe"
  /\ Ended(ntpTimeSync)
  /\ UNCHANGED <<trueTime, ahead, time_of_send, ntpTimeSync, origin, set, syncs, replies>>

NtpStep == Synchronize \/ Tick \/ TimedOut \/ Reply \/ Arrive \/ Refused
\* Only the clock and the loop have to go on; the network may stay silent.
NtpFairness == WF_ntpVars(Tick \/ TimedOut)

(***************************************************************************)
(* Properties.                                                             *)
(***************************************************************************)
\* The clock is set to the time of a server that is synchronized, as it was between the probe
\* and now, which is no more than a cycle; also over the end of an era.
SetFromServer ==
  \A s \in set : /\ s.reply.li # 3 /\ s.reply.stratum # 0
                 /\ s.time - s.reply.ahead \in s.probe..s.at
                 /\ s.at - s.probe <= cycle_time

\* Every synchronization ends.
SyncEnds == calling # "none" ~> calling = "none"
=============================================================================
