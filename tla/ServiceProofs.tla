--------------------------- MODULE ServiceProofs ---------------------------
(***************************************************************************)
(* Proofs about what the daemon's threads lean on: the exchange with a     *)
(* time server (Ntp), the TCP server (TcpServer), the download of an       *)
(* update (Http) and JSON (Json), each on its own.                         *)
(***************************************************************************)
EXTENDS Http, Ntp, TcpServer, Json, Lemmas

(***************************************************************************)
(* The exchange with a time server.                                        *)
(***************************************************************************)
NtpSpec == NtpInit /\ [][NtpStep]_ntpVars

\* What rfc1305print asks of a server before it believes its time.
Synchronized(r) == r.li # 3 /\ r.stratum # 0

\* While the daemon synchronizes, the clock of such a server is at no time before 1970
\* and never 2^32 seconds or more after: what an unsigned count of seconds can say.
ClocksCountable ==
  \A s \in Starts, r \in Replies :
    Synchronized(r) => s + r.ahead >= 0 /\ s + 2 * cycle_time * MaxSyncs + r.ahead < Era

\* How long the synchronization may take at most from now on.
TimeLeft ==
  IF calling = "none" THEN 0
  ELSE (IF probes_sent = 0 THEN cycle_time ELSE to) + (IF calling = "primary" THEN cycle_time ELSE 0)

LoopTyped ==
  /\ trueTime \in Nat /\ origin \in Nat
  /\ syncs \in 0..MaxSyncs
  /\ calling \in {"none", "primary", "second"}
  /\ probes_sent \in {0, 1} /\ to \in 0..cycle_time

\* No synchronization takes longer than a cycle for each of the two servers.
InTimeSince(s) ==
  /\ s <= trueTime
  /\ calling # "none" /\ probes_sent = 1 => s <= origin
  /\ trueTime + TimeLeft <= s + 2 * cycle_time * syncs
InTime == \E s \in Starts : InTimeSince(s)

\* The probe of a call is as old as its time has run, and without it nothing is on its way.
Probing ==
  /\ calling = "none" \/ probes_sent = 0 => wire = {}
  /\ probes_sent = 0 => to = 0
  /\ calling # "none" /\ probes_sent = 1 => origin <= trueTime /\ trueTime - origin <= cycle_time - to

\* An answer holds the time of its server at a moment since the probe.
Dated(p) ==
  /\ p.r \in Replies
  /\ \E t \in origin..trueTime : p.xmt = (t + p.r.ahead + JAN_1970) % Era
AnswersDated == \A p \in wire : p.kind = "answer" => Dated(p)

NtpInv == LoopTyped /\ InTime /\ Probing /\ AnswersDated /\ SetFromServer

-----------------------------------------------------------------------------
\* Unsigned arithmetic takes back what it added, also over the end of an era.
LEMMA EraCancels ==
  ASSUME NEW e \in Nat, NEW j \in 0..e - 1, NEW x \in 0..e - 1
  PROVE  (((x + j) % e) - j) % e = x
<1>1. CASE x + j < e
  <2>1. (x + j) % e = x + j
    BY <1>1
  <2>2. (x + j) - j = x /\ x % e = x
    OBVIOUS
  <2> QED BY <2>1, <2>2
<1>2. CASE x + j >= e
  <2>1. (x + j) % e = x + j - e
    BY <1>2
  <2>2. x + j - e - j = x - e /\ (x - e) % e = x
    OBVIOUS
  <2> QED BY <2>1, <2>2
<1> QED BY <1>1, <1>2

\* The invariant of the time holds before the first cycle of the daemon.
LEMMA NtpInitial == NtpInit => NtpInv
<1> SUFFICES ASSUME NtpInit PROVE NtpInv
  OBVIOUS
<1> USE NtpAssumption
<1>1. LoopTyped
  BY DEF NtpInit, LoopTyped, cycle_time
<1>2. InTimeSince(trueTime) /\ trueTime \in Starts
  BY DEF NtpInit, InTimeSince, TimeLeft, cycle_time
<1>3. InTime
  BY <1>2 DEF InTime
<1> QED BY <1>1, <1>3 DEF NtpInit, NtpInv, Probing, AnswersDated, SetFromServer

\* Who has less time left is not later at the end.
LEMMA LessTimeLeft ==
  ASSUME NEW at \in Nat, NEW left \in Nat, NEW less \in Nat, NEW end \in Nat,
         less <= left, at + left <= end
  PROVE  at + less <= end
OBVIOUS

\* The end of a call leaves nothing on its way and no more time than there was.
LEMMA CallEnds ==
  ASSUME LoopTyped, InTime, calling # "none", NEW sync, Ended(sync),
         UNCHANGED <<trueTime, origin, syncs>>
  PROVE  LoopTyped' /\ InTime' /\ Probing' /\ wire' = {}
<1>1. /\ wire' = {} /\ probes_sent' = 0 /\ to' = 0
      /\ calling' \in {"none", "second"}
      /\ calling' = "second" => calling = "primary"
  BY DEF Ended, ntp_operate
<1>2. TimeLeft' <= TimeLeft /\ TimeLeft' \in Nat /\ TimeLeft \in Nat
  BY <1>1 DEF TimeLeft, LoopTyped, cycle_time
<1>3. LoopTyped'
  BY <1>1 DEF LoopTyped, cycle_time
<1>4. InTime'
  <2>1. PICK s \in Starts : InTimeSince(s)
    BY DEF InTime
  <2>2. s \in Nat /\ trueTime \in Nat /\ syncs \in Nat
    BY NtpAssumption DEF LoopTyped
  <2>3. trueTime' + TimeLeft' <= s + 2 * cycle_time * syncs'
    <3>1. trueTime + TimeLeft <= s + 2 * cycle_time * syncs
      BY <2>1 DEF InTimeSince
    <3>2. s + 2 * cycle_time * syncs \in Nat
      BY <2>2 DEF cycle_time
    <3>3. trueTime + TimeLeft' <= s + 2 * cycle_time * syncs
      BY <1>2, <2>2, <3>1, <3>2, LessTimeLeft
    <3> QED BY <3>3
  <2>4. InTimeSince(s)'
    BY <1>1, <2>1, <2>3 DEF InTimeSince
  <2> QED BY <2>4 DEF InTime
<1> QED BY <1>1, <1>3, <1>4 DEF Probing

\* cross_check passes only what a synchronized server sends.
LEMMA BelievedIsSynchronized == ASSUME NEW p, cross_check(p) PROVE Synchronized(p.r)
BY DEF cross_check, Synchronized

\* An answer that is believed sets the clock to a time between the probe and now.
LEMMA BelievedIsTrue ==
  ASSUME ClocksCountable, NtpInv, calling # "none",
         NEW p \in wire, p.kind = "answer", cross_check(p), set_time(p),
         UNCHANGED <<trueTime, origin>>
  PROVE  SetFromServer'
<1> USE NtpAssumption
<1> DEFINE sec == (p.xmt - JAN_1970) % Era
<1>1. /\ probes_sent = 1 /\ origin <= trueTime /\ trueTime - origin <= cycle_time - to
  <2>1. wire # {}
    OBVIOUS
  <2> QED BY <2>1 DEF NtpInv, Probing, LoopTyped
<1>2. PICK t \in origin..trueTime : p.xmt = (t + p.r.ahead + JAN_1970) % Era
  BY DEF NtpInv, AnswersDated, Dated
<1>3. p.r \in Replies
  BY DEF NtpInv, AnswersDated, Dated
<1>6. Synchronized(p.r)
  BY BelievedIsSynchronized
<1>7. p.r.ahead \in Int
  BY <1>3
<1>4. t + p.r.ahead \in 0..Era - 1
  <2>1. PICK s \in Starts : InTimeSince(s)
    BY DEF NtpInv, InTime
  <2>2. s \in Nat /\ trueTime \in Nat /\ origin \in Nat /\ syncs \in 0..MaxSyncs
    BY DEF NtpInv, LoopTyped
  <2>3. s <= origin /\ trueTime + TimeLeft <= s + 10 * syncs
    BY <1>1, <2>1 DEF InTimeSince, cycle_time
  <2>4. TimeLeft \in Nat
    BY DEF TimeLeft, NtpInv, LoopTyped, cycle_time
  <2>5. s + p.r.ahead >= 0 /\ s + 10 * MaxSyncs + p.r.ahead < Era
    BY <1>3, <1>6 DEF ClocksCountable, cycle_time
  <2>6. s <= t /\ t <= s + 10 * MaxSyncs /\ t \in Nat
    BY <2>2, <2>3, <2>4
  <2> QED BY <1>7, <2>2, <2>5, <2>6
<1>5. sec = t + p.r.ahead
  <2>1. p.xmt = ((t + p.r.ahead) + JAN_1970) % Era
    BY <1>2
  <2> QED BY <1>4, <2>1, EraCancels
<1>8. \/ set' = {[probe |-> origin, time |-> sec, at |-> trueTime, reply |-> p.r]}
      \/ set' = set
  BY DEF set_time
<1>9. sec - p.r.ahead \in origin..trueTime /\ trueTime - origin <= cycle_time
  <2>1. t \in Int /\ origin \in Nat /\ trueTime \in Nat /\ to \in 0..cycle_time
    BY DEF NtpInv, LoopTyped
  <2>2. sec - p.r.ahead = t
    BY <1>5, <1>7, <2>1
  <2> QED BY <1>1, <2>1, <2>2 DEF cycle_time
<1> HIDE DEF sec
<1> QED BY <1>6, <1>8, <1>9 DEF Synchronized, NtpInv, SetFromServer

\* What is on its way stays dated as long as the probe is the same.
LEMMA StillDated ==
  ASSUME LoopTyped, AnswersDated, wire' \subseteq wire, trueTime' \in Nat, trueTime <= trueTime',
         origin' = origin
  PROVE  AnswersDated'
<1> SUFFICES ASSUME NEW p \in wire, p.kind = "answer" PROVE Dated(p)'
  BY DEF AnswersDated
<1>1. p.r \in Replies
  BY DEF AnswersDated, Dated
<1>2. PICK t \in origin..trueTime : p.xmt = (t + p.r.ahead + JAN_1970) % Era
  BY DEF AnswersDated, Dated
<1>3. t \in origin'..trueTime'
  BY DEF LoopTyped
<1> QED BY <1>1, <1>2, <1>3 DEF Dated

\* Every step of the daemon and of the network keeps the invariant of the time.
LEMMA NtpNext == ClocksCountable /\ NtpInv /\ [NtpStep]_ntpVars => NtpInv'
<1> SUFFICES ASSUME ClocksCountable, NtpInv, [NtpStep]_ntpVars PROVE NtpInv'
  OBVIOUS
<1> USE NtpAssumption
<1>0. LoopTyped /\ InTime /\ Probing /\ AnswersDated /\ SetFromServer
  BY DEF NtpInv
<1>a. PICK s \in Starts : InTimeSince(s)
  BY <1>0 DEF InTime
<1>b. s \in Nat
  OBVIOUS
<1>1. CASE Synchronize
  <2>1. /\ calling = "none" /\ calling' = "primary" /\ probes_sent' = 0 /\ to' = 0
        /\ wire' = {} /\ set' = {} /\ syncs' = syncs + 1 /\ syncs < MaxSyncs
        /\ UNCHANGED <<trueTime, origin>>
    BY <1>1 DEF Synchronize, ntp_operate
  <2>2. LoopTyped'
    BY <1>0, <2>1 DEF LoopTyped, cycle_time
  <2>3. InTimeSince(s)'
    BY <1>0, <1>a, <1>b, <2>1 DEF InTimeSince, TimeLeft, LoopTyped, cycle_time
  <2> QED BY <2>1, <2>2, <2>3 DEF NtpInv, InTime, Probing, AnswersDated, SetFromServer
<1>2. CASE Tick
  <2>1. /\ calling # "none" /\ to > 0 /\ to' = to - 1 /\ trueTime' = trueTime + 1
        /\ UNCHANGED <<calling, probes_sent, wire, origin, set, syncs>>
    BY <1>2 DEF Tick
  <2>2. probes_sent = 1
    BY <1>0, <2>1 DEF Probing, LoopTyped
  <2>3. LoopTyped'
    BY <1>0, <2>1 DEF LoopTyped, cycle_time
  <2>4. InTimeSince(s)'
    BY <1>0, <1>a, <1>b, <2>1, <2>2 DEF InTimeSince, TimeLeft, LoopTyped, cycle_time
  <2>5. Probing'
    BY <1>0, <2>1, <2>2 DEF Probing, LoopTyped, cycle_time
  <2>6. AnswersDated'
    BY <1>0, <2>1, <2>3, StillDated DEF LoopTyped
  <2>7. SetFromServer'
    BY <1>0, <2>1 DEF SetFromServer
  <2> QED BY <2>3, <2>4, <2>5, <2>6, <2>7 DEF NtpInv, InTime
<1>3. CASE TimedOut
  <2>1. calling # "none" /\ to = 0 /\ UNCHANGED <<trueTime, set, syncs>>
    BY <1>3 DEF TimedOut
  <2>2. SetFromServer'
    BY <1>0, <2>1 DEF SetFromServer
  <2>3. CASE probes_sent >= probe_count
    <3>1. Ended(ntpTimeSync) /\ UNCHANGED origin
      BY <1>3, <2>3 DEF TimedOut
    <3>2. LoopTyped' /\ InTime' /\ Probing' /\ wire' = {}
      BY <1>0, <2>1, <3>1, CallEnds
    <3> QED BY <2>2, <3>2 DEF NtpInv, AnswersDated
  <2>4. CASE ~(probes_sent >= probe_count)
    <3>1. probes_sent = 0 /\ wire = {}
      BY <1>0, <2>4 DEF LoopTyped, Probing, probe_count
    <3>2. /\ origin' = trueTime /\ probes_sent' = 1 /\ to' = cycle_time /\ calling' = calling
          /\ wire' = {[kind |-> "probe", org |-> time_of_send']}
      BY <1>3, <2>4, <3>1 DEF TimedOut
    <3>3. LoopTyped'
      BY <1>0, <2>1, <3>2 DEF LoopTyped, cycle_time
    <3>4. InTimeSince(s)'
      BY <1>0, <1>a, <1>b, <2>1, <3>1, <3>2 DEF InTimeSince, TimeLeft, LoopTyped, cycle_time
    <3>5. Probing'
      BY <1>0, <2>1, <3>2 DEF Probing, LoopTyped, cycle_time
    <3>6. AnswersDated'
      BY <3>2 DEF AnswersDated
    <3> QED BY <2>2, <3>3, <3>4, <3>5, <3>6 DEF NtpInv, InTime
  <2> QED BY <2>3, <2>4
<1>4. CASE Reply
  <2>1. UNCHANGED <<trueTime, calling, probes_sent, to, origin, set, syncs>>
    BY <1>4 DEF Reply
  <2>2. PICK p \in wire, r \in Replies :
          wire' = wire \cup {[kind |-> "answer", r |-> r,
                              org |-> IF r.echo THEN p.org ELSE (p.org + 1) % Era,
                              xmt |-> (trueTime + r.ahead + JAN_1970) % Era]}
    BY <1>4 DEF Reply
  <2>3. calling # "none" /\ probes_sent = 1
    BY <1>0, <2>2 DEF Probing, LoopTyped
  <2>4. LoopTyped'
    BY <1>0, <2>1 DEF LoopTyped
  <2>5. InTimeSince(s)'
    BY <1>a, <2>1 DEF InTimeSince, TimeLeft
  <2>6. Probing'
    BY <1>0, <2>1, <2>3 DEF Probing
  <2>7. AnswersDated'
    <3> SUFFICES ASSUME NEW m \in wire', m.kind = "answer" PROVE Dated(m)'
      BY DEF AnswersDated
    <3>1. CASE m \in wire
      BY <1>0, <2>1, <3>1 DEF AnswersDated, Dated
    <3>2. CASE m \notin wire
      <4>1. m.r = r /\ m.xmt = (trueTime + r.ahead + JAN_1970) % Era
        BY <2>2, <3>2
      <4>2. trueTime \in origin..trueTime
        BY <1>0, <2>3 DEF LoopTyped, Probing
      <4> QED BY <2>1, <2>2, <4>1, <4>2 DEF Dated
    <3> QED BY <3>1, <3>2
  <2>8. SetFromServer'
    BY <1>0, <2>1 DEF SetFromServer
  <2> QED BY <2>4, <2>5, <2>6, <2>7, <2>8 DEF NtpInv, InTime
<1>5. CASE Arrive
  <2>1. calling # "none" /\ UNCHANGED <<trueTime, origin, syncs>>
    BY <1>5 DEF Arrive
  <2>2. PICK p \in wire :
          /\ p.kind = "answer"
          /\ \/ Ended(ntpTimeSync) /\ UNCHANGED set
             \/ cross_check(p) /\ set_time(p) /\ Ended(ntpTimeSync')
             \/ wire' = wire \ {p} /\ UNCHANGED <<calling, probes_sent, to, set>>
    BY SMTT(30), <1>5 DEF Arrive
  <2>3. CASE Ended(ntpTimeSync) /\ UNCHANGED set
    <3>1. LoopTyped' /\ InTime' /\ Probing' /\ wire' = {}
      BY <1>0, <2>1, <2>3, CallEnds
    <3> QED BY <1>0, <2>3, <3>1 DEF NtpInv, AnswersDated, SetFromServer
  <2>4. CASE cross_check(p) /\ set_time(p) /\ Ended(ntpTimeSync')
    <3>1. LoopTyped' /\ InTime' /\ Probing' /\ wire' = {}
      BY <1>0, <2>1, <2>4, CallEnds
    <3>2. SetFromServer'
      BY <2>1, <2>2, <2>4, BelievedIsTrue
    <3> QED BY <3>1, <3>2 DEF NtpInv, AnswersDated
  <2>5. CASE wire' = wire \ {p} /\ UNCHANGED <<calling, probes_sent, to, set>>
    <3>1. LoopTyped' /\ InTimeSince(s)' /\ Probing' /\ SetFromServer'
      BY <1>0, <1>a, <2>1, <2>5 DEF LoopTyped, InTimeSince, TimeLeft, Probing, SetFromServer
    <3>2. AnswersDated'
      BY <1>0, <2>1, <2>5, StillDated DEF LoopTyped
    <3> QED BY <3>1, <3>2 DEF NtpInv, InTime
  <2> QED BY <2>2, <2>3, <2>4, <2>5
<1>6. CASE Refused
  <2>1. calling # "none" /\ Ended(ntpTimeSync) /\ UNCHANGED <<trueTime, origin, set, syncs>>
    BY <1>6 DEF Refused
  <2>2. LoopTyped' /\ InTime' /\ Probing' /\ wire' = {}
    BY <1>0, <2>1, CallEnds
  <2> QED BY <1>0, <2>1, <2>2 DEF NtpInv, AnswersDated, SetFromServer
<1>7. CASE UNCHANGED ntpVars
  <2>1. UNCHANGED <<trueTime, calling, probes_sent, to, wire, origin, set, syncs>>
    BY <1>7 DEF ntpVars
  <2>2. InTimeSince(s)'
    BY <1>a, <2>1 DEF InTimeSince, TimeLeft
  <2> QED BY <1>0, <2>1, <2>2 DEF NtpInv, LoopTyped, InTime, Probing, AnswersDated, Dated,
                                 SetFromServer
<1> QED BY <1>1, <1>2, <1>3, <1>4, <1>5, <1>6, <1>7 DEF NtpStep

\* The clock is set to the time of a synchronized server as it was between the probe
\* and now, at most a cycle ago, however probes and answers are lost, doubled, delayed
\* or forged in their other fields, and also when the timestamps wrap around.
THEOREM ClockFromServer ==
  ASSUME ClocksCountable
  PROVE  NtpSpec => []SetFromServer
<1>1. NtpInv /\ [NtpStep]_ntpVars => NtpInv'
  BY NtpNext
<1>2. NtpInv => SetFromServer
  BY DEF NtpInv
<1> QED BY <1>1, <1>2, NtpInitial, PTL DEF NtpSpec

(***************************************************************************)
(* The TCP server.                                                         *)
(***************************************************************************)
TcpSpec == TcpInit /\ [][TcpStep]_tcpVars

Pieces == Clients \X Nat \X {"begin", "end", "all"}

BuffersTyped ==
  /\ alone \in Clients \cup {None}
  /\ peer \in [Clients -> {"out", "in", "gone"}]
  /\ sent \in [Clients -> Nat]
  /\ unread \in [Clients -> Seq(Pieces)] /\ stream \in [Clients -> Seq(Pieces)]
  /\ DOMAIN tpc = Clients /\ DOMAIN sock = Clients
  /\ table \in [Sockets -> Clients \cup {None}]
  /\ DOMAIN recv_lock = {"word", "users", "valid"}
  /\ recv_buffer \in Seq(Pieces) /\ given \in Seq(Pieces)

\* A thread has a number that there is, and so has the argument once there are threads.
Numbered ==
  \A t \in Clients : tpc[t] # "none" =>
    con_sock \in Sockets /\ (tpc[t] # "start" => sock[t] \in Sockets)

\* Who has not connected has sent nothing.
Unconnected == \A c \in Clients : peer[c] = "out" => unread[c] = <<>> /\ stream[c] = <<>>

\* Where the threads are while a client is alone: its own runs, the others cannot.
Solo ==
  /\ tpc[alone] \in {"start", "clear", "lock", "recv", "give", "end"}
  /\ \A t \in Clients \ {alone} : tpc[t] \in {"none", "done", "asleep"}

\* Its thread has the socket of the client, or will read it from the argument.
OwnSocket ==
  LET s == IF tpc[alone] = "start" THEN con_sock ELSE sock[alone]
  IN  table[s] = alone

\* The mutex is a good one and nobody waits for it, the buffer is empty when it is filled.
OwnLock ==
  /\ tpc[alone] # "start" => recv_lock.valid
  /\ tpc[alone] \in {"clear", "lock"} => recv_lock.word = 0
  /\ tpc[alone] \in {"recv", "give"} => recv_lock.word = 1
  /\ tpc[alone] \in {"lock", "recv"} => recv_buffer = <<>>

\* Everything the client has sent is given on, in the buffer, or still to be received.
InHand == IF tpc[alone] = "give" THEN recv_buffer ELSE <<>>
NothingLost == stream[alone] = (given \o InHand) \o unread[alone]

Undisturbed == alone # None => Solo /\ OwnSocket /\ OwnLock /\ NothingLost

TcpInv == BuffersTyped /\ Numbered /\ Unconnected /\ Undisturbed

-----------------------------------------------------------------------------
\* Sequences of the same kind put together are one of that kind.
LEMMA Concatenated ==
  ASSUME NEW S, NEW s \in Seq(S), NEW t \in Seq(S)
  PROVE  s \o t \in Seq(S)
BY ConcatProperties

\* It makes no difference which pieces are put together first.
LEMMA Regrouped ==
  \A a, b, c \in Seq(Pieces) : (a \o b) \o c = a \o (b \o c)
BY ConcatAssociative

\* The beginning of two sequences that are put together is the first one.
LEMMA BeginsWith ==
  ASSUME NEW S, NEW s \in Seq(S), NEW t \in Seq(S)
  PROVE  IsPrefix(s, s \o t)
<1>1. Len(s) \in Nat /\ Len(t) \in Nat /\ Len(s \o t) = Len(s) + Len(t)
  BY ConcatProperties
<1>2. SubSeq(s, 1, Len(s)) = SubSeq(s \o t, 1, Len(s))
  <2>1. CASE Len(s) = 0
    BY <2>1, SubSeqEmpty
  <2>2. CASE Len(s) # 0
    BY <1>1, <2>2, SubSeqOfConcat1
  <2> QED BY <2>1, <2>2
<1> QED BY <1>1, <1>2 DEF IsPrefix

\* What recv takes from what has come, and what it leaves.
LEMMA Taken ==
  ASSUME NEW S, NEW u \in Seq(S), NEW n \in 1..Len(u), NEW b \in Seq(S)
  PROVE  /\ SubSeq(u, 1, n) \in Seq(S) /\ SubSeq(u, n + 1, Len(u)) \in Seq(S)
         /\ SubSeq(u, 1, n) \o SubSeq(u, n + 1, Len(u)) = u
         /\ SubSeq(u, 1, n) \o SubSeq(b, n + 1, Len(b)) \in Seq(S)
         /\ b = <<>> => SubSeq(u, 1, n) \o SubSeq(b, n + 1, Len(b)) = SubSeq(u, 1, n)
<1>1. Len(u) \in Nat /\ Len(b) \in Nat /\ n \in Nat
  OBVIOUS
<1>2. SubSeq(u, 1, n) \in Seq(S)
  BY <1>1, SubSeqProperties
<1>3. SubSeq(u, n + 1, Len(u)) \in Seq(S) /\ SubSeq(b, n + 1, Len(b)) \in Seq(S)
  BY <1>1, SubSeqProperties
<1>4. SubSeq(u, 1, n) \o SubSeq(u, n + 1, Len(u)) = u
  <2>1. SubSeq(u, 1, n) \o SubSeq(u, n + 1, Len(u)) = SubSeq(u, 1, Len(u))
    BY <1>1, ConcatAdjacentSubSeq
  <2> QED BY <2>1, SubSeqFull
<1>5. b = <<>> => SubSeq(b, n + 1, Len(b)) = <<>>
  BY <1>1, SubSeqEmpty
<1> QED BY <1>2, <1>3, <1>4, <1>5, Concatenated, ConcatEmptySeq

\* A command arrives as one piece or as a beginning and an end.
LEMMA CommandIsPieces == ASSUME NEW c \in Clients, NEW n \in Nat PROVE Command(c, n) \in Seq(Pieces)
<1>1. /\ <<c, n, "begin">> \in Pieces /\ <<c, n, "end">> \in Pieces /\ <<c, n, "all">> \in Pieces
  BY DEF Pieces
<1> QED BY <1>1 DEF Command

\* The invariant of the connections holds before anybody connects.
LEMMA TcpInitial == TcpInit => TcpInv
<1> SUFFICES ASSUME TcpInit PROVE TcpInv
  OBVIOUS
<1>1. <<>> \in Seq(Pieces)
  OBVIOUS
<1>2. BuffersTyped
  BY <1>1 DEF TcpInit, BuffersTyped, pthread_mutex_init
<1>3. Unconnected
  BY DEF TcpInit, Unconnected
<1>4. alone = None /\ Numbered
  BY DEF TcpInit, Numbered
<1> QED BY <1>2, <1>3, <1>4 DEF TcpInv, Undisturbed

\* Unlocking moves the thread on, whether others are waiting or not.
LEMMA Unlocked ==
  ASSUME BuffersTyped, NEW t \in Clients, NEW label, pthread_mutex_unlock(t, label)
  PROVE  /\ DOMAIN tpc' = Clients /\ DOMAIN recv_lock' = {"word", "users", "valid"}
         /\ recv_lock.valid /\ recv_lock.word = 1 =>
              /\ recv_lock'.valid /\ recv_lock'.word = 0
              /\ tpc' = [tpc EXCEPT ![t] = label]
<1> DEFINE free == [recv_lock EXCEPT !.word = 0, !.users = recv_lock.users - 1]
<1>1. DOMAIN tpc = Clients /\ DOMAIN recv_lock = {"word", "users", "valid"}
  BY DEF BuffersTyped
<1>2. DOMAIN free = DOMAIN recv_lock /\ free.valid = recv_lock.valid /\ free.word = 0
  BY <1>1
<1>3. recv_lock' = free \/ recv_lock' = recv_lock
  BY DEF pthread_mutex_unlock
<1>4. DOMAIN tpc' = Clients
  BY <1>1 DEF pthread_mutex_unlock, Goto
<1>5. recv_lock.valid /\ recv_lock.word = 1 => recv_lock' = free /\ tpc' = [tpc EXCEPT ![t] = label]
  BY DEF pthread_mutex_unlock, Goto
<1> HIDE DEF free
<1>6. DOMAIN recv_lock' = {"word", "users", "valid"}
  BY <1>1, <1>2, <1>3
<1> QED BY <1>2, <1>4, <1>5, <1>6

\* While a client is alone, a thread that runs is its own.
LEMMA OnlyItsThread ==
  ASSUME BuffersTyped, Solo, alone # None, NEW t \in Clients,
         tpc[t] \in {"start", "clear", "lock", "woken", "recv", "give", "end"}
  PROVE  t = alone
BY DEF Solo

\* Every step keeps the kinds of the buffers, the threads and the mutex.
LEMMA BuffersKept == BuffersTyped /\ Numbered /\ [TcpStep]_tcpVars => BuffersTyped'
<1> SUFFICES ASSUME BuffersTyped, Numbered, [TcpStep]_tcpVars PROVE BuffersTyped'
  OBVIOUS
<1> USE DEF BuffersTyped
<1>0. <<>> \in Seq(Pieces)
  OBVIOUS
<1>1. CASE UNCHANGED tcpVars
  BY <1>1 DEF tcpVars
<1>2. ASSUME NEW c \in Clients, Accept(c) PROVE BuffersTyped'
  <2>1. CASE Free = {}
    BY <1>2, <2>1 DEF Accept
  <2>2. CASE Free # {}
    <3>1. /\ peer' = [peer EXCEPT ![c] = "in"] /\ table' = [table EXCEPT ![con_sock'] = c]
          /\ Goto(c, "start") /\ alone' \in {c, None} /\ given' = <<>>
          /\ UNCHANGED <<unread, sent, stream, sock, recv_lock, recv_buffer>>
      BY <1>2, <2>2 DEF Accept
    <3>2. DOMAIN tpc' = Clients
      BY <3>1 DEF Goto
    <3> QED BY <1>0, <3>1, <3>2
  <2> QED BY <2>1, <2>2
<1>3. ASSUME NEW c \in Clients, Send(c) PROVE BuffersTyped'
  <2>1. /\ sent' = [sent EXCEPT ![c] = sent[c] + 1]
        /\ unread' = [unread EXCEPT ![c] = unread[c] \o Command(c, sent'[c])]
        /\ stream' = [stream EXCEPT ![c] = stream[c] \o Command(c, sent'[c])]
        /\ UNCHANGED <<alone, peer, tpc, sock, table, recv_lock, recv_buffer, given>>
    BY <1>3 DEF Send
  <2>2. sent' \in [Clients -> Nat] /\ sent'[c] \in Nat
    BY <2>1
  <2>3. Command(c, sent'[c]) \in Seq(Pieces)
    BY <2>2, CommandIsPieces
  <2>4. /\ unread[c] \o Command(c, sent'[c]) \in Seq(Pieces)
        /\ stream[c] \o Command(c, sent'[c]) \in Seq(Pieces)
    BY <2>3, Concatenated
  <2> QED BY <2>1, <2>2, <2>4
<1>4. ASSUME NEW c \in Clients, HangUp(c) PROVE BuffersTyped'
  BY <1>4 DEF HangUp
<1>5. ASSUME NEW t \in Clients, Start(t) PROVE BuffersTyped'
  BY <1>5 DEF Start, Goto, pthread_mutex_init
<1>6. ASSUME NEW t \in Clients, Clear(t) PROVE BuffersTyped'
  BY <1>0, <1>6 DEF Clear, Goto
<1>7. ASSUME NEW t \in Clients, Lock(t) PROVE BuffersTyped'
  <2>1. UNCHANGED <<peer, unread, sent, stream, table, sock, recv_buffer, alone, given>>
    BY <1>7 DEF Lock
  <2>2. DOMAIN tpc' = Clients
    BY <1>7 DEF Lock, Goto
  <2>3. DOMAIN recv_lock' = DOMAIN recv_lock
    BY <1>7 DEF Lock
  <2> QED BY <2>1, <2>2, <2>3
<1>8. ASSUME NEW t \in Clients, Recv(t) PROVE BuffersTyped'
  <2> DEFINE c == table[sock[t]]
  <2>1. UNCHANGED <<peer, sent, stream, table, sock, alone, given>>
    BY <1>8 DEF Recv
  <2>2. CASE /\ c # None /\ unread[c] # <<>> /\ Goto(t, "give") /\ UNCHANGED recv_lock
             /\ \E n \in 1..Len(unread[c]) :
                  /\ recv_buffer' = SubSeq(unread[c], 1, n)
                                    \o SubSeq(recv_buffer, n + 1, Len(recv_buffer))
                  /\ unread' = [unread EXCEPT ![c] = SubSeq(unread[c], n + 1, Len(unread[c]))]
    <3>1. PICK n \in 1..Len(unread[c]) :
            /\ recv_buffer' = SubSeq(unread[c], 1, n) \o SubSeq(recv_buffer, n + 1, Len(recv_buffer))
            /\ unread' = [unread EXCEPT ![c] = SubSeq(unread[c], n + 1, Len(unread[c]))]
      BY <2>2
    <3>2. c \in Clients
      BY <1>8, <2>2 DEF Recv, Here, Numbered
    <3>3. unread[c] \in Seq(Pieces)
      BY <3>2
    <3>4. recv_buffer' \in Seq(Pieces) /\ SubSeq(unread[c], n + 1, Len(unread[c])) \in Seq(Pieces)
      BY <3>1, <3>3, Taken
    <3> QED BY <2>1, <2>2, <3>1, <3>4 DEF Goto
  <2>3. CASE Goto(t, "end") /\ UNCHANGED <<recv_buffer, unread, recv_lock>>
    BY <2>1, <2>3 DEF Goto
  <2>4. CASE pthread_mutex_unlock(t, "end") /\ UNCHANGED <<recv_buffer, unread>>
    <3>1. DOMAIN tpc' = Clients /\ DOMAIN recv_lock' = {"word", "users", "valid"}
      BY <2>4, Unlocked
    <3> QED BY <2>1, <2>4, <3>1
  <2> QED BY <1>8, <2>2, <2>3, <2>4 DEF Recv
<1>9. ASSUME NEW t \in Clients, Give(t) PROVE BuffersTyped'
  <2>1. pthread_mutex_unlock(t, "clear")
        /\ UNCHANGED <<peer, unread, sent, stream, table, sock, recv_buffer, alone>>
    BY <1>9 DEF Give
  <2>2. given' \in Seq(Pieces)
    BY <1>9, Concatenated DEF Give
  <2>3. DOMAIN tpc' = Clients /\ DOMAIN recv_lock' = {"word", "users", "valid"}
    BY <2>1, Unlocked
  <2> QED BY <2>1, <2>2, <2>3
<1>10. ASSUME NEW t \in Clients, End(t) PROVE BuffersTyped'
  <2>1. UNCHANGED <<unread, sent, stream, sock, recv_buffer>> /\ DOMAIN tpc' = Clients
    BY <1>10 DEF End, Goto
  <2>2. alone' \in Clients \cup {None} /\ given' \in Seq(Pieces)
    BY <1>0, <1>10 DEF End
  <2>3. peer' \in [Clients -> {"out", "in", "gone"}] /\ table' \in [Sockets -> Clients \cup {None}]
    BY <1>10 DEF End
  <2>4. DOMAIN recv_lock' = {"word", "users", "valid"}
    BY <1>10 DEF End
  <2> QED BY <2>1, <2>2, <2>3, <2>4
<1> QED BY <1>1, <1>2, <1>3, <1>4, <1>5, <1>6, <1>7, <1>8, <1>9, <1>10 DEF TcpStep, Connection

\* Every step leaves every thread the number of a socket.
LEMMA NumbersKept == BuffersTyped /\ Numbered /\ [TcpStep]_tcpVars => Numbered'
<1> SUFFICES ASSUME BuffersTyped, Numbered, [TcpStep]_tcpVars PROVE Numbered'
  OBVIOUS
<1>0. DOMAIN tpc = Clients /\ DOMAIN sock = Clients
  BY DEF BuffersTyped
<1>1. CASE UNCHANGED tcpVars
  BY <1>1 DEF tcpVars, Numbered
<1>2. ASSUME NEW c \in Clients, Accept(c) PROVE Numbered'
  <2>1. CASE Free = {}
    BY <1>2, <2>1 DEF Accept, Numbered
  <2>2. CASE Free # {}
    <3>1. con_sock' \in Free /\ Goto(c, "start") /\ UNCHANGED sock
      BY <1>2, <2>2 DEF Accept
    <3>2. con_sock' \in Sockets
      BY <3>1 DEF Free
    <3> QED BY <1>0, <3>1, <3>2 DEF Goto, Numbered
  <2> QED BY <2>1, <2>2
<1>3. ASSUME UNCHANGED <<tpc, sock, con_sock>> PROVE Numbered'
  BY <1>3 DEF Numbered
<1>4. ASSUME NEW t \in Clients, Start(t) PROVE Numbered'
  BY <1>0, <1>4 DEF Start, Here, Goto, Numbered
\* Every other thread goes on with the number it has.
<1>5. ASSUME UNCHANGED <<sock, con_sock>>,
             \A t \in Clients : tpc'[t] \in {"none", "start"} => tpc'[t] = tpc[t],
             \A t \in Clients : tpc[t] \in {"none", "start"} => tpc'[t] = tpc[t]
      PROVE  Numbered'
  BY <1>5 DEF Numbered
<1>6. ASSUME NEW t \in Clients, NEW label, label \notin {"none", "start"},
             tpc[t] \notin {"none", "start"}, Goto(t, label), UNCHANGED <<sock, con_sock>>
      PROVE  Numbered'
  BY <1>0, <1>5, <1>6 DEF Goto
<1>7. ASSUME NEW t \in Clients, NEW label, label \notin {"none", "start"},
             tpc[t] \notin {"none", "start"}, pthread_mutex_unlock(t, label),
             UNCHANGED <<sock, con_sock>>
      PROVE  Numbered'
  <2>1. CASE Goto(t, label)
    BY <1>6, <1>7, <2>1
  <2>2. CASE ~Goto(t, label)
    <3>1. PICK w \in Clients : tpc[w] = "asleep" /\ tpc' = [tpc EXCEPT ![t] = label, ![w] = "woken"]
      BY <1>7, <2>2 DEF pthread_mutex_unlock, Here
    <3> QED BY <1>0, <1>5, <1>7, <3>1
  <2> QED BY <2>1, <2>2
<1>8. ASSUME NEW t \in Clients, Recv(t) PROVE Numbered'
  <2>1. /\ tpc[t] = "recv" /\ UNCHANGED <<sock, con_sock>>
        /\ Goto(t, "give") \/ Goto(t, "end") \/ pthread_mutex_unlock(t, "end")
    BY <1>8 DEF Recv, Here
  <2> QED BY <1>6, <1>7, <2>1
<1>9. ASSUME NEW t \in Clients, Give(t) PROVE Numbered'
  BY <1>7, <1>9 DEF Give, Here
<1>10. ASSUME NEW t \in Clients, Clear(t) \/ Lock(t) \/ End(t) PROVE Numbered'
  <2>1. /\ tpc[t] \in {"clear", "lock", "woken", "end"} /\ UNCHANGED <<sock, con_sock>>
        /\ \E label \in {"lock", "recv", "asleep", "done"} : Goto(t, label)
    BY <1>10 DEF Clear, Lock, End, Here
  <2> QED BY <1>6, <2>1
<1> QED BY <1>1, <1>2, <1>3, <1>4, <1>8, <1>9, <1>10
        DEF TcpStep, Connection, Send, HangUp

\* A client that has not connected has nothing sent and nothing unread, after any step.
LEMMA UnconnectedKept ==
  BuffersTyped /\ Numbered /\ Unconnected /\ [TcpStep]_tcpVars => Unconnected'
<1> SUFFICES ASSUME BuffersTyped, Numbered, Unconnected, [TcpStep]_tcpVars PROVE Unconnected'
  OBVIOUS
<1> USE DEF Unconnected, BuffersTyped
<1>1. ASSUME UNCHANGED <<unread, stream>>,
             \A c \in Clients : peer'[c] = "out" => peer[c] = "out"
      PROVE  Unconnected'
  BY <1>1
<1>2. ASSUME NEW c \in Clients, Accept(c) PROVE Unconnected'
  BY <1>1, <1>2 DEF Accept
<1>3. ASSUME NEW c \in Clients, Send(c) PROVE Unconnected'
  <2>1. /\ peer[c] = "in" /\ peer' = peer
        /\ \A d \in Clients \ {c} : unread'[d] = unread[d] /\ stream'[d] = stream[d]
    BY <1>3 DEF Send
  <2> QED BY <2>1
<1>4. ASSUME NEW c \in Clients, HangUp(c) PROVE Unconnected'
  BY <1>1, <1>4 DEF HangUp
<1>5. ASSUME NEW t \in Clients, Recv(t) PROVE Unconnected'
  <2> DEFINE c == table[sock[t]]
  <2>1. UNCHANGED <<peer, stream>>
    BY <1>5 DEF Recv
  <2>2. CASE unread' = unread
    BY <1>1, <2>1, <2>2
  <2>3. CASE unread' # unread
    <3>1. c \in Clients /\ unread[c] # <<>>
      BY <1>5, <2>3 DEF Recv, Here, Numbered
    <3>2. \A d \in Clients \ {c} : unread'[d] = unread[d]
      BY <1>5, <2>3 DEF Recv
    <3> QED BY <2>1, <3>1, <3>2
  <2> QED BY <2>2, <2>3
<1>6. ASSUME NEW t \in Clients, End(t) PROVE Unconnected'
  <2>1. UNCHANGED <<unread, stream>>
    BY <1>6 DEF End
  <2>2. peer' = peer \/ peer' = [peer EXCEPT ![table[sock[t]]] = "gone"]
    BY <1>6 DEF End
  <2> QED BY <1>1, <2>1, <2>2
<1> QED BY <1>1, <1>2, <1>3, <1>4, <1>5, <1>6
        DEF TcpStep, Connection, Start, Clear, Lock, Give, tcpVars

\* The thread of the lone client moves on, and the others stay where they are.
LEMMA MovesOn ==
  ASSUME BuffersTyped, Solo, alone \in Clients, alone' = alone,
         NEW label \in {"clear", "lock", "recv", "give", "end"}, tpc' = [tpc EXCEPT ![alone] = label]
  PROVE  Solo' /\ tpc'[alone] = label
BY DEF BuffersTyped, Solo

\* Every step leaves a lone client its socket, its mutex and all it has sent.
LEMMA UndisturbedKept ==
  BuffersTyped /\ Numbered /\ Unconnected /\ Undisturbed /\ [TcpStep]_tcpVars => Undisturbed'
<1> SUFFICES ASSUME BuffersTyped, Numbered, Unconnected, Undisturbed, [TcpStep]_tcpVars, alone' # None
             PROVE  Solo' /\ OwnSocket' /\ OwnLock' /\ NothingLost'
  BY DEF Undisturbed
<1>0. <<>> \in Seq(Pieces) /\ <<>> \o <<>> = <<>>
  OBVIOUS
<1>1. CASE UNCHANGED tcpVars
  BY <1>1 DEF tcpVars, Undisturbed, Solo, OwnSocket, OwnLock, NothingLost, InHand
<1>2. ASSUME NEW c \in Clients, Accept(c) PROVE Solo' /\ OwnSocket' /\ OwnLock' /\ NothingLost'
  <2>1. CASE Free = {}
    <3>1. UNCHANGED <<unread, stream, table, con_sock, tpc, sock, recv_lock, recv_buffer, alone, given>>
      BY <1>2, <2>1 DEF Accept
    <3> QED BY <3>1 DEF Undisturbed, Solo, OwnSocket, OwnLock, NothingLost, InHand
  <2>2. CASE Free # {}
    <3>1. /\ peer[c] = "out" /\ con_sock' \in Free /\ table' = [table EXCEPT ![con_sock'] = c]
          /\ tpc' = [tpc EXCEPT ![c] = "start"] /\ given' = <<>>
          /\ alone' = c /\ \A t \in Clients : tpc[t] \in {"none", "done", "asleep"}
          /\ UNCHANGED <<unread, stream>>
      BY <1>2, <2>2 DEF Accept, Goto
    <3>2. tpc'[c] = "start" /\ \A t \in Clients \ {c} : tpc'[t] = tpc[t]
      BY <3>1 DEF BuffersTyped
    <3>3. Solo' /\ OwnLock'
      BY <3>1, <3>2 DEF Solo, OwnLock
    <3>4. con_sock' \in Sockets
      BY <3>1 DEF Free
    <3>5. OwnSocket'
      BY <3>1, <3>2, <3>4 DEF OwnSocket, BuffersTyped
    <3>6. stream[c] = <<>> /\ unread[c] = <<>>
      BY <3>1 DEF Unconnected
    <3>7. NothingLost'
      BY <1>0, <3>1, <3>2, <3>6 DEF NothingLost, InHand
    <3> QED BY <3>3, <3>5, <3>7
  <2> QED BY <2>1, <2>2
<1>3. ASSUME NEW c \in Clients, Send(c) PROVE Solo' /\ OwnSocket' /\ OwnLock' /\ NothingLost'
  <2>1. UNCHANGED <<table, con_sock, tpc, sock, recv_lock, recv_buffer, alone, given>>
    BY <1>3 DEF Send
  <2>2. Solo' /\ OwnSocket' /\ OwnLock'
    BY <2>1 DEF Undisturbed, Solo, OwnSocket, OwnLock
  <2>3. alone \in Clients /\ NothingLost /\ InHand' = InHand
    BY <2>1 DEF BuffersTyped, Undisturbed, InHand
  <2>4. CASE c # alone
    <3>1. stream'[alone] = stream[alone] /\ unread'[alone] = unread[alone]
      BY <1>3, <2>3, <2>4 DEF Send, BuffersTyped
    <3> QED BY <2>1, <2>2, <2>3, <3>1 DEF NothingLost
  <2>5. CASE c = alone
    <3> DEFINE text == Command(c, sent'[c])
    <3>1. text \in Seq(Pieces)
      <4>1. sent'[c] \in Nat
        BY <1>3 DEF Send, BuffersTyped
      <4> QED BY <4>1, CommandIsPieces
    <3>2. stream'[c] = stream[c] \o text /\ unread'[c] = unread[c] \o text
      BY <1>3 DEF Send, BuffersTyped
    <3>3. InHand \in Seq(Pieces) /\ given \in Seq(Pieces) /\ unread[c] \in Seq(Pieces)
      BY <1>0 DEF InHand, BuffersTyped
    <3>4. given \o InHand \in Seq(Pieces)
      BY <3>3, Concatenated
    <3> HIDE DEF text
    <3>5. ((given \o InHand) \o unread[c]) \o text = (given \o InHand) \o (unread[c] \o text)
      BY <3>1, <3>3, <3>4, Regrouped
    <3> QED BY <2>1, <2>2, <2>3, <2>5, <3>2, <3>5 DEF NothingLost
  <2> QED BY <2>4, <2>5
<1>4. ASSUME NEW c \in Clients, HangUp(c) PROVE Solo' /\ OwnSocket' /\ OwnLock' /\ NothingLost'
  BY <1>4 DEF HangUp, Undisturbed, Solo, OwnSocket, OwnLock, NothingLost, InHand
<1>5. ASSUME NEW t \in Clients, Connection(t)
      PROVE  /\ t = alone /\ alone \in Clients /\ alone' = alone
             /\ Solo /\ OwnSocket /\ OwnLock /\ NothingLost
  <2>1. alone # None /\ alone' = alone
    BY <1>5 DEF Connection, Start, Clear, Lock, Recv, Give, End
  <2>2. tpc[t] \in {"start", "clear", "lock", "woken", "recv", "give", "end"}
    BY <1>5 DEF Connection, Start, Clear, Lock, Recv, Give, End, Here
  <2>3. Solo /\ OwnSocket /\ OwnLock /\ NothingLost
    BY <2>1 DEF Undisturbed
  <2> QED BY <2>1, <2>2, <2>3, OnlyItsThread DEF BuffersTyped
<1>6. ASSUME NEW t \in Clients, Start(t) PROVE Solo' /\ OwnSocket' /\ OwnLock' /\ NothingLost'
  <2>1. /\ t = alone /\ alone \in Clients /\ alone' = alone
        /\ Solo /\ OwnSocket /\ OwnLock /\ NothingLost
    BY <1>5, <1>6 DEF Connection
  <2>2. /\ tpc[alone] = "start" /\ tpc' = [tpc EXCEPT ![alone] = "clear"]
        /\ sock'[alone] = con_sock /\ recv_lock'.valid /\ recv_lock'.word = 0
        /\ UNCHANGED <<unread, stream, table, given>>
    BY <1>6, <2>1 DEF Start, Here, Goto, pthread_mutex_init, BuffersTyped
  <2>3. Solo' /\ tpc'[alone] = "clear"
    BY <2>1, <2>2, MovesOn
  <2> QED BY <2>1, <2>2, <2>3 DEF OwnSocket, OwnLock, NothingLost, InHand
<1>7. ASSUME NEW t \in Clients, Clear(t) PROVE Solo' /\ OwnSocket' /\ OwnLock' /\ NothingLost'
  <2>1. /\ t = alone /\ alone \in Clients /\ alone' = alone
        /\ Solo /\ OwnSocket /\ OwnLock /\ NothingLost
    BY <1>5, <1>7 DEF Connection
  <2>2. /\ tpc[alone] = "clear" /\ tpc' = [tpc EXCEPT ![alone] = "lock"] /\ recv_buffer' = <<>>
        /\ UNCHANGED <<unread, stream, table, sock, recv_lock, given>>
    BY <1>7, <2>1 DEF Clear, Here, Goto
  <2>3. Solo' /\ tpc'[alone] = "lock"
    BY <2>1, <2>2, MovesOn
  <2> QED BY <2>1, <2>2, <2>3 DEF OwnSocket, OwnLock, NothingLost, InHand
<1>8. ASSUME NEW t \in Clients, Lock(t) PROVE Solo' /\ OwnSocket' /\ OwnLock' /\ NothingLost'
  <2>1. /\ t = alone /\ alone \in Clients /\ alone' = alone
        /\ Solo /\ OwnSocket /\ OwnLock /\ NothingLost
    BY <1>5, <1>8 DEF Connection
  <2>2. tpc[alone] = "lock" /\ recv_lock.valid /\ recv_lock.word = 0 /\ recv_buffer = <<>>
    BY <1>8, <2>1 DEF Lock, Solo, OwnLock
  <2>3. /\ tpc' = [tpc EXCEPT ![alone] = "recv"]
        /\ recv_lock' = [recv_lock EXCEPT !.word = 1, !.users = recv_lock.users + 1]
        /\ UNCHANGED <<unread, stream, table, sock, recv_buffer, given>>
    BY <1>8, <2>1, <2>2 DEF Lock, Here, Goto
  <2>4. recv_lock'.valid /\ recv_lock'.word = 1
    BY <2>2, <2>3 DEF BuffersTyped
  <2>5. Solo' /\ tpc'[alone] = "recv"
    BY <2>1, <2>3, MovesOn
  <2> QED BY <2>1, <2>2, <2>3, <2>4, <2>5 DEF OwnSocket, OwnLock, NothingLost, InHand
<1>9. ASSUME NEW t \in Clients, Recv(t) PROVE Solo' /\ OwnSocket' /\ OwnLock' /\ NothingLost'
  <2>1. /\ t = alone /\ alone \in Clients /\ alone' = alone
        /\ Solo /\ OwnSocket /\ OwnLock /\ NothingLost
    BY <1>5, <1>9 DEF Connection
  <2>2. tpc[alone] = "recv" /\ UNCHANGED <<stream, table, sock, given>>
    BY <1>9, <2>1 DEF Recv, Here
  <2>3. recv_lock.valid /\ recv_lock.word = 1 /\ recv_buffer = <<>> /\ table[sock[alone]] = alone
    BY <2>1, <2>2 DEF OwnLock, OwnSocket
  <2>4. CASE /\ Goto(t, "give") /\ UNCHANGED recv_lock
             /\ \E n \in 1..Len(unread[alone]) :
                  /\ recv_buffer' = SubSeq(unread[alone], 1, n)
                                    \o SubSeq(recv_buffer, n + 1, Len(recv_buffer))
                  /\ unread' = [unread EXCEPT ![alone] = SubSeq(unread[alone], n + 1, Len(unread[alone]))]
    <3> DEFINE u == unread[alone]
    <3>1. PICK n \in 1..Len(u) :
            /\ recv_buffer' = SubSeq(u, 1, n) \o SubSeq(recv_buffer, n + 1, Len(recv_buffer))
            /\ unread' = [unread EXCEPT ![alone] = SubSeq(u, n + 1, Len(u))]
      BY <2>4
    <3>2. u \in Seq(Pieces) /\ recv_buffer \in Seq(Pieces) /\ given \in Seq(Pieces)
      BY <2>1 DEF BuffersTyped
    <3>3. /\ recv_buffer' \in Seq(Pieces) /\ SubSeq(u, n + 1, Len(u)) \in Seq(Pieces)
          /\ recv_buffer' \o SubSeq(u, n + 1, Len(u)) = u
      <4>1. recv_buffer' = SubSeq(u, 1, n)
        BY <2>3, <3>1, <3>2, Taken
      <4> HIDE DEF u
      <4>2. /\ SubSeq(u, 1, n) \in Seq(Pieces) /\ SubSeq(u, n + 1, Len(u)) \in Seq(Pieces)
            /\ SubSeq(u, 1, n) \o SubSeq(u, n + 1, Len(u)) = u
        BY <3>2, Taken
      <4> QED BY <4>1, <4>2
    <3>4. unread'[alone] = SubSeq(u, n + 1, Len(u))
      BY <2>1, <3>1 DEF BuffersTyped
    <3>5. Solo' /\ tpc'[alone] = "give"
      BY <2>1, <2>4, MovesOn DEF Goto
    <3>6. stream[alone] = given \o u
      BY <2>1, <2>2, <3>2, ConcatEmptySeq DEF NothingLost, InHand
    <3>7. given \o u = (given \o recv_buffer') \o unread'[alone]
      <4> DEFINE rest == SubSeq(u, n + 1, Len(u))
      <4>1. rest \in Seq(Pieces) /\ recv_buffer' \o rest = u /\ unread'[alone] = rest
        BY <3>3, <3>4
      <4> HIDE DEF u, rest
      <4>2. (given \o recv_buffer') \o rest = given \o (recv_buffer' \o rest)
        <5>1. given \in Seq(Pieces)
          BY <3>2
        <5>2. recv_buffer' \in Seq(Pieces)
          BY <3>3
        <5>3. rest \in Seq(Pieces)
          BY <4>1
        <5> QED BY ONLY <5>1, <5>2, <5>3, Regrouped
      <4> QED BY <4>1, <4>2
    <3>8. NothingLost'
      BY <2>1, <2>2, <3>5, <3>6, <3>7 DEF NothingLost, InHand
    <3> QED BY <2>1, <2>2, <2>3, <2>4, <3>5, <3>8 DEF OwnSocket, OwnLock
  <2>5. CASE Goto(t, "end") /\ UNCHANGED <<recv_buffer, unread, recv_lock>>
    <3>1. Solo' /\ tpc'[alone] = "end"
      BY <2>1, <2>5, MovesOn DEF Goto
    <3> QED BY <2>1, <2>2, <2>3, <2>5, <3>1 DEF OwnSocket, OwnLock, NothingLost, InHand
  <2>6. CASE pthread_mutex_unlock(t, "end") /\ UNCHANGED <<recv_buffer, unread>>
    <3>1. recv_lock'.valid /\ tpc' = [tpc EXCEPT ![alone] = "end"]
      BY <2>1, <2>3, <2>6, Unlocked
    <3>2. Solo' /\ tpc'[alone] = "end"
      BY <2>1, <3>1, MovesOn
    <3> QED BY <2>1, <2>2, <2>6, <3>1, <3>2 DEF OwnSocket, OwnLock, NothingLost, InHand
  <2> QED BY <1>9, <2>1, <2>3, <2>4, <2>5, <2>6 DEF Recv
<1>10. ASSUME NEW t \in Clients, Give(t) PROVE Solo' /\ OwnSocket' /\ OwnLock' /\ NothingLost'
  <2>1. /\ t = alone /\ alone \in Clients /\ alone' = alone
        /\ Solo /\ OwnSocket /\ OwnLock /\ NothingLost
    BY <1>5, <1>10 DEF Connection
  <2>2. tpc[alone] = "give" /\ given' = given \o recv_buffer /\ UNCHANGED <<unread, stream, table, sock>>
    BY <1>10, <2>1 DEF Give, Here
  <2>3. recv_lock.valid /\ recv_lock.word = 1
    BY <2>1, <2>2 DEF OwnLock
  <2>4. recv_lock'.valid /\ recv_lock'.word = 0 /\ tpc' = [tpc EXCEPT ![alone] = "clear"]
    BY <1>10, <2>1, <2>3, Unlocked DEF Give
  <2>5. Solo' /\ tpc'[alone] = "clear"
    BY <2>1, <2>4, MovesOn
  <2>6. given \o recv_buffer \in Seq(Pieces)
    BY Concatenated DEF BuffersTyped
  <2>7. NothingLost'
    BY <2>1, <2>2, <2>5, <2>6, ConcatEmptySeq DEF NothingLost, InHand
  <2> QED BY <2>1, <2>2, <2>4, <2>5, <2>7 DEF OwnSocket, OwnLock
<1>11. ASSUME NEW t \in Clients, End(t) PROVE FALSE
  <2>1. t = alone /\ alone' = alone
    BY <1>5, <1>11 DEF Connection
  <2> QED BY <1>11, <2>1 DEF End
<1> QED BY <1>1, <1>2, <1>3, <1>4, <1>6, <1>7, <1>8, <1>9, <1>10, <1>11 DEF TcpStep, Connection

\* What has been given on, is in the buffer and is unread being what was sent, what has been
\* given on is the beginning of it.
LEMMA LoneClient == TcpInv => AloneAsSent
<1> SUFFICES ASSUME TcpInv, alone # None PROVE IsPrefix(given, stream[alone])
  BY DEF AloneAsSent
<1>1. <<>> \in Seq(Pieces)
  OBVIOUS
<1>2. given \in Seq(Pieces) /\ InHand \in Seq(Pieces) /\ unread[alone] \in Seq(Pieces)
  BY <1>1 DEF TcpInv, BuffersTyped, InHand
<1>3. given \o InHand \in Seq(Pieces) /\ InHand \o unread[alone] \in Seq(Pieces)
  BY <1>2, Concatenated
<1>4. stream[alone] = given \o (InHand \o unread[alone])
  BY <1>2, Regrouped DEF TcpInv, Undisturbed, NothingLost
<1> QED BY <1>2, <1>3, <1>4, BeginsWith

\* Whatever earlier clients have done to the one buffer, the one lock and the one argument
\* of all connections, the commands of a client that finds no thread that runs are given to
\* doit unchanged, in their order, none twice and none left out.
THEOREM LoneClientIsHeard == TcpSpec => []AloneAsSent
<1>1. TcpInv /\ [TcpStep]_tcpVars => TcpInv'
  BY BuffersKept, NumbersKept, UnconnectedKept, UndisturbedKept DEF TcpInv
<1> QED BY <1>1, TcpInitial, LoneClient, PTL DEF TcpSpec

(***************************************************************************)
(* The download of an update.                                              *)
(***************************************************************************)
HttpSpec == HttpInit /\ [][HttpStep]_httpVars

Values(u) == {u[i].value : i \in DOMAIN u}
\* T[n] is the content in the first n units of the answer u.
Contents(u, T) ==
  /\ T \in [0..Len(u) -> Seq(Values(u))] /\ T[0] = <<>> /\ T[Len(u)] = BytesOf(u)
  /\ \A n \in 1..Len(u) : T[n] = IF u[n].kind = "byte" THEN Append(T[n - 1], u[n].value) ELSE T[n - 1]
Page(u, T) == WellFormed(u) /\ Contents(u, T)

\* An answer is a sequence of units.
LEMMA UnitFacts ==
  ASSUME NEW u, WellFormed(u)
  PROVE  Len(u) \in Nat /\ DOMAIN u = 1..Len(u) /\ \A i \in 1..Len(u) : u[i].value \in Values(u)
<1>1. Len(u) \in Nat /\ u = [i \in 1..Len(u) |-> u[i]]
  BY DEF WellFormed
<1>2. DOMAIN u = 1..Len(u)
  BY <1>1
<1> QED BY <1>1, <1>2 DEF Values

\* The content of each beginning of an answer.
LEMMA ContentsExist ==
  ASSUME NEW u, WellFormed(u)
  PROVE  \E T : Contents(u, T)
<1> DEFINE N == Len(u)
           V == Seq(Values(u))
           Next1(b, n) == IF u[n].kind = "byte" THEN Append(b, u[n].value) ELSE b
           turn == [n \in 1..N |-> [b \in V |-> Next1(b, n)]]
           before == CHOOSE g : g = [n \in 0..N |-> IF n = 0 THEN <<>>
                                                    ELSE Next1(g[n - 1], n)]
<1>1. BytesOf(u) = before[N]
  BY DEF BytesOf
<1>2. N \in Nat /\ \A n \in 1..N : u[n].value \in Values(u)
  BY UnitFacts
<1>3. PICK none : none = <<>>
  OBVIOUS
<1>4. none \in V /\ \A n \in 1..N, b \in V : Next1(b, n) \in V
  <2>1. none \in V
    BY <1>3
  <2>2. ASSUME NEW n \in 1..N, NEW b \in V PROVE Append(b, u[n].value) \in V
    <3>1. u[n].value \in Values(u)
      BY <1>2
    <3> QED BY <3>1, AppendProperties
  <2> QED BY <2>1, <2>2
<1>5. turn \in [1..N -> [V -> V]] /\ \A n \in 1..N, b \in V : turn[n][b] = Next1(b, n)
  <2> HIDE DEF V, Next1, N
  <2> QED BY <1>4
<1> HIDE DEF V, Next1, N, turn
<1>6. PICK T \in [0..N -> V] : Iterates(T, N, none, turn)
  BY <1>2, <1>4, <1>5, Iteration
<1>7. \A n \in 1..N : n - 1 \in 0..N /\ T[n] = Next1(T[n - 1], n)
  <2> SUFFICES ASSUME NEW n \in 1..N PROVE n - 1 \in 0..N /\ T[n] = Next1(T[n - 1], n)
    OBVIOUS
  <2>1. n - 1 \in 0..N
    BY <1>2
  <2>2. T[n] = turn[n][T[n - 1]] /\ T[n - 1] \in V
    BY <1>6, <2>1 DEF Iterates
  <2> QED BY <1>5, <2>1, <2>2
<1>8. before = [n \in 0..N |-> IF n = 0 THEN <<>> ELSE Next1(before[n - 1], n)]
  <2>1. \A n \in 0..N : T[n] = IF n = 0 THEN <<>> ELSE Next1(T[n - 1], n)
    <3> SUFFICES ASSUME NEW n \in 0..N PROVE T[n] = IF n = 0 THEN <<>> ELSE Next1(T[n - 1], n)
      OBVIOUS
    <3>1. n # 0 => n \in 1..N
      BY <1>2
    <3> QED BY <1>3, <1>6, <1>7, <3>1 DEF Iterates
  <2>2. T = [n \in 0..N |-> IF n = 0 THEN <<>> ELSE Next1(T[n - 1], n)]
    BY <1>6, <2>1
  <2> QED BY <2>2
<1> HIDE DEF before
<1> DEFINE S == {n \in 0..N : before[n] = T[n]}
<1>9. 0..N \subseteq S
  <2>1. 0 \in S
    BY <1>2, <1>3, <1>6, <1>8 DEF Iterates
  <2>2. \A n \in 1..N : n - 1 \in S => n \in S
    BY <1>7, <1>8
  <2> HIDE DEF S
  <2> QED BY <1>2, <2>1, <2>2, Climb
<1>10. T[N] = BytesOf(u)
  BY <1>1, <1>2, <1>9
<1> QED BY <1>3, <1>6, <1>7, <1>10 DEF Contents, Iterates, Next1, N, V

\* From unit to unit the content stays or grows.
LEMMA ContentGrows ==
  ASSUME NEW u, NEW T, Page(u, T), NEW a \in 0..Len(u), NEW b \in a..Len(u)
  PROVE  /\ T[a] \in Seq(Values(u)) /\ T[b] \in Seq(Values(u))
         /\ T[b] = T[a] \/ Len(T[b]) > Len(T[a])
         /\ (\A j \in a + 1..b : u[j].kind # "byte") => T[b] = T[a]
<1>1. Len(u) \in Nat /\ \A n \in 1..Len(u) : u[n].value \in Values(u)
  BY UnitFacts DEF Page
<1>2. \A n \in 0..Len(u) : T[n] \in Seq(Values(u)) /\ Len(T[n]) \in Nat
  BY LenProperties DEF Page, Contents
<1> DEFINE N == b - a
           Same(m) == T[a + m] = T[a]
           Longer(m) == Len(T[a + m]) > Len(T[a])
           Silent(m) == \A j \in a + 1..a + m : u[j].kind # "byte"
           S == {m \in 0..N : (Same(m) \/ Longer(m)) /\ (Silent(m) => Same(m))}
<1>3. N \in Nat /\ a \in Nat /\ b \in Nat /\ b <= Len(u) /\ a + N = b /\ a + 0 = a
  BY <1>1
<1>4. 0 \in S
  BY <1>3
<1>5. ASSUME NEW m \in 1..N, m - 1 \in S PROVE m \in S
  <2>1. a + m \in 1..Len(u) /\ (a + m) - 1 = a + (m - 1) /\ a + (m - 1) \in 0..Len(u) /\ a + m \in a + 1..a + m
        /\ \A j \in a + 1..a + (m - 1) : j \in a + 1..a + m
    BY <1>1, <1>3
  <2>2. T[a + m] = IF u[a + m].kind = "byte" THEN Append(T[a + (m - 1)], u[a + m].value) ELSE T[a + (m - 1)]
    BY <2>1 DEF Page, Contents
  <2>3. Len(Append(T[a + (m - 1)], u[a + m].value)) = Len(T[a + (m - 1)]) + 1
    BY <1>1, <1>2, <2>1, AppendProperties
  <2>4. Same(m - 1) \/ Longer(m - 1)
    BY <1>5
  <2>5. Len(T[a + (m - 1)]) \in Nat /\ Len(T[a]) \in Nat
    BY <1>2, <2>1
  <2>6. Same(m) \/ Longer(m)
    <3>1. CASE u[a + m].kind = "byte"
      <4>1. Len(T[a + m]) = Len(T[a + (m - 1)]) + 1
        BY <2>2, <2>3, <3>1
      <4>2. Len(T[a + (m - 1)]) >= Len(T[a])
        BY <2>4, <2>5
      <4> QED BY <2>5, <4>1, <4>2
    <3>2. CASE u[a + m].kind # "byte"
      BY <2>2, <2>4, <3>2
    <3> QED BY <3>1, <3>2
  <2>7. Silent(m) => Same(m)
    <3>1. Silent(m) => Silent(m - 1) /\ u[a + m].kind # "byte"
      BY <2>1
    <3>2. Silent(m - 1) => Same(m - 1)
      BY <1>5
    <3> QED BY <2>2, <3>1, <3>2
  <2> QED BY <2>6, <2>7
<1>6. N \in S
  <2> HIDE DEF S, N
  <2>1. 0..N \subseteq S
    BY <1>3, <1>4, <1>5, Climb
  <2> QED BY <1>3, <2>1
<1> QED BY <1>2, <1>3, <1>6

\* A function on 1..n is a sequence of n elements.
LEMMA SequenceOfLength ==
  ASSUME NEW V, NEW n \in Nat, NEW f \in [1..n -> V]
  PROVE  f \in Seq(V) /\ Len(f) = n
<1>1. f \in Seq(V)
  OBVIOUS
<1>2. DOMAIN f = 1..n
  OBVIOUS
<1> QED BY <1>1, <1>2, LenProperties

\* The n units behind the a-th, and their values.
AllBytes(u, a, n) == \A i \in a + 1..a + n : u[i].kind = "byte"
Part(u, a, n)     == [i \in 1..n |-> u[a + i].value]

\* Units that are all bytes add their values to the content.
LEMMA BytesAdd ==
  ASSUME NEW u, NEW T, Page(u, T), NEW a \in 0..Len(u), NEW n \in Nat, a + n <= Len(u),
         AllBytes(u, a, n), NEW part, part = Part(u, a, n)
  PROVE  /\ part \in Seq(Values(u)) /\ Len(part) = n
         /\ T[a + n] = T[a] \o part /\ Len(T[a + n]) = Len(T[a]) + n
<1>1. Len(u) \in Nat /\ \A i \in 1..Len(u) : u[i].value \in Values(u)
  BY UnitFacts DEF Page
<1>2. \A i \in 0..Len(u) : T[i] \in Seq(Values(u)) /\ Len(T[i]) \in Nat
  BY LenProperties DEF Page, Contents
<1>3. \A i \in 1..n : a + i \in 1..Len(u) /\ a + i \in a + 1..a + n /\ u[a + i].value \in Values(u)
  BY <1>1
<1>4. part \in Seq(Values(u)) /\ Len(part) = n
  <2>1. part \in [1..n -> Values(u)]
    BY <1>3 DEF Part
  <2> QED BY ONLY n \in Nat, <2>1, SequenceOfLength
<1> DEFINE Beginning(m) == T[a + m] = T[a] \o SubSeq(part, 1, m) /\ Len(T[a + m]) = Len(T[a]) + m
           S == {m \in 0..n : Beginning(m)}
<1>5. 0 \in S
  <2>1. PICK none : none = SubSeq(part, 1, 0)
    OBVIOUS
  <2>2. none = <<>>
    BY <1>4, <2>1, SubSeqEmpty
  <2>3. T[a] \o none = T[a]
    BY <1>2, <2>2, ConcatEmptySeq
  <2>4. a + 0 = a /\ Len(T[a]) + 0 = Len(T[a])
    BY <1>2
  <2> QED BY <2>1, <2>3, <2>4
<1>6. ASSUME NEW m \in 1..n, m - 1 \in S PROVE m \in S
  <2>1. /\ a + m \in 1..Len(u) /\ (a + m) - 1 = a + (m - 1) /\ a + (m - 1) \in 0..Len(u) /\ m - 1 \in 0..n /\ 1 \in 1..n
        /\ m \in 1..Len(part) /\ m \in 1..m /\ 1 \in 1..Len(part)
    BY <1>1, <1>3, <1>4
  <2>2. T[a + m] = Append(T[a + (m - 1)], u[a + m].value)
    BY <1>3, <2>1 DEF Page, Contents, AllBytes
  <2>3. part[m] = u[a + m].value
    BY <2>1 DEF Part
  <2> DEFINE b == SubSeq(part, 1, m - 1)
  <2>a. PICK x : x = part[m]
    OBVIOUS
  <2>b. PICK e : e = <<x>>
    OBVIOUS
  <2>4. SubSeq(part, 1, m) = b \o e
    BY <1>4, <2>1, <2>a, <2>b, SubSeqRecursiveSecond
  <2>5. b \in Seq(Values(u)) /\ e \in Seq(Values(u))
    <3>1. \A i \in 1..m - 1 : part[i] \in Values(u)
      <4>1. \A i \in 1..m - 1 : i \in 1..Len(part)
        BY <1>4
      <4> QED BY <1>4, <4>1, ElementOfSeq
    <3>2. 1 \in Int /\ m - 1 \in Int
      OBVIOUS
    <3>3. b \in Seq(Values(u))
      BY <3>1, <3>2, SubSeqProperties
    <3>4. part[m] \in Values(u)
      BY <1>3, <2>3
    <3>5. x \in Values(u)
      BY <2>a, <3>4
    <3>6. e \in Seq(Values(u))
      BY ONLY <2>b, <3>5
    <3> QED BY <3>3, <3>6
  <2> HIDE DEF b
  <2>6. (T[a] \o b) \o e = T[a] \o (b \o e)
    <3>1. T[a] \in Seq(Values(u))
      BY <1>2
    <3>2. EitherWay(T[a], b, e)
      BY <2>5, <3>1, GroupedEitherWay
    <3> QED BY <3>2 DEF EitherWay
  <2>7. Append(T[a + (m - 1)], part[m]) = T[a + (m - 1)] \o e
        /\ Len(Append(T[a + (m - 1)], part[m])) = Len(T[a + (m - 1)]) + 1
    <3>1. part[m] \in Values(u) /\ T[a + (m - 1)] \in Seq(Values(u))
      BY <1>2, <1>3, <2>1, <2>3
    <3> QED BY <2>a, <2>b, <3>1, AppendIsConcat, AppendProperties
  <2>8. Beginning(m - 1)
    BY <1>6
  <2>9. T[a + m] = T[a] \o SubSeq(part, 1, m)
    <3>1. T[a + m] = (T[a] \o b) \o e
      BY <2>2, <2>3, <2>7, <2>8 DEF b
    <3> QED BY <2>4, <2>6, <3>1
  <2>10. Len(T[a + m]) = Len(T[a]) + m
    <3>1. Len(T[a + m]) = (Len(T[a]) + (m - 1)) + 1
      BY <2>2, <2>3, <2>7, <2>8
    <3>2. Len(T[a]) \in Nat
      BY <1>2
    <3> QED BY <3>1, <3>2
  <2>11. Beginning(m) /\ m \in 0..n
    BY <2>9, <2>10
  <2> HIDE DEF Beginning
  <2> QED BY <2>11
<1>7. n \in S
  <2> HIDE DEF S
  <2>1. 0..n \subseteq S
    BY <1>5, <1>6, Climb
  <2> QED BY <2>1
<1>8. SubSeq(part, 1, n) = part
  BY <1>4, SubSeqFull
<1> QED BY <1>4, <1>7, <1>8

\* What arrives of an answer is its beginning.
LEMMA CutFacts ==
  ASSUME NEW u, WellFormed(u), NEW cut \in 0..Len(u), NEW s, s = SubSeq(u, 1, cut)
  PROVE  Len(s) = cut /\ DOMAIN s = 1..cut /\ \A i \in 1..cut : s[i] = u[i]
<1>1. Len(u) \in Nat /\ DOMAIN u = 1..Len(u)
  BY UnitFacts
<1> DEFINE U == {u[i] : i \in DOMAIN u}
<1>2. \A i \in 1..cut : u[i] \in U
  BY <1>1
<1>3. 1 \in Int /\ cut \in Int /\ (IF 1 <= cut THEN (cut - 1) + 1 ELSE 0) = cut /\ (cut - 1) + 1 = cut
      /\ \A i \in 1..cut : (1 + i) - 1 = i
  BY <1>1
<1>4. s \in Seq(U) /\ Len(s) = cut /\ \A i \in 1..cut : s[i] = u[(1 + i) - 1]
  <2> HIDE DEF U
  <2> QED BY <1>2, <1>3, SubSeqProperties
<1> QED BY <1>3, <1>4, LenProperties

\* A result is not an error; it is the content up to n units behind the a-th.
Fine(r) == r.ok
LineRead(r, T, a, n, cut, room) ==
  /\ a + n <= cut /\ r.saved = T[a + n]
  /\ Len(r.saved) = Len(T[a]) + n /\ Len(r.saved) <= room

\* read_data succeeds only when the units that follow are as many bytes as it was to read, and
\* then it has saved them behind what was there.
LEMMA ReadSaves ==
  ASSUME NEW u, NEW T, Page(u, T), NEW cut \in 0..Len(u), NEW s, s = SubSeq(u, 1, cut),
         NEW a \in 0..cut, NEW at, at = a + 1, NEW len \in Nat, NEW got, got = T[a],
         NEW room \in Nat, NEW r, r = read_data(s, at, len, got, room), Fine(r)
  PROVE  LineRead(r, T, a, len, cut, room)
<1>1. Len(u) \in Nat /\ \A i \in 1..Len(u) : u[i].value \in Values(u)
  BY UnitFacts DEF Page
<1>2. Len(s) = cut /\ \A i \in 1..cut : s[i] = u[i]
  BY CutFacts DEF Page
<1>3. got \in Seq(Values(u)) /\ Len(got) \in Nat
  <2>1. a \in 0..Len(u)
    BY <1>1
  <2> QED BY <2>1, LenProperties DEF Page, Contents
<1> DEFINE C == {i \in at..Len(s) : i < at + len /\ s[i].kind = "byte"}
           I == at..(a + len)
           n == Cardinality(C)
           full == IF n = len THEN n ELSE n - (n % RECV_BUF)
           sent0 == [i \in 1..full |-> s[at + i - 1].value]
           part == Part(u, a, len)
           all == got \o sent0
<1>4. r = [[ok |-> Len(got) + Len(sent0) <= room, saved |-> all] EXCEPT !.ok = @ /\ n = len]
  BY DEF read_data, save_data
<1>5. n = len /\ Len(got) + Len(sent0) <= room /\ r.saved = all
  <2> HIDE DEF n, sent0, all
  <2> QED BY <1>4 DEF Fine
<1>6. C \subseteq I /\ at \in Int /\ a + len \in Int /\ (IF at > a + len THEN 0 ELSE (a + len) - at + 1) = len
  BY <1>1
<1>7. C = I
  <2> HIDE DEF C
  <2>1. IsFiniteSet(I) /\ Cardinality(I) = len
    <3>1. IsFiniteSet(I) /\ Cardinality(I) = IF at > a + len THEN 0 ELSE (a + len) - at + 1
      BY <1>6, FS_Interval
    <3> QED BY <1>6, <3>1
  <2> HIDE DEF I
  <2> QED BY <1>5, <1>6, <2>1, FS_Subset
<1>8. \A i \in a + 1..a + len : i \in 1..cut /\ u[i].kind = "byte"
  <2> SUFFICES ASSUME NEW i \in a + 1..a + len PROVE i \in 1..cut /\ u[i].kind = "byte"
    OBVIOUS
  <2>1. i \in C
    BY <1>7
  <2>2. i \in at..cut /\ s[i].kind = "byte"
    BY <1>2, <2>1
  <2>3. i \in 1..cut
    BY <2>2
  <2> QED BY <1>2, <2>2, <2>3
<1>9. a + len <= cut
  <2>1. CASE len = 0
    BY <1>1, <2>1
  <2>2. CASE len # 0
    <3>1. a + len \in a + 1..a + len
      BY <1>1, <2>2
    <3>2. a + len \in 1..cut
      BY <1>8, <3>1
    <3> QED BY <3>2
  <2> QED BY <2>1, <2>2
<1>10. a \in 0..Len(u) /\ a + len <= Len(u)
  BY <1>1, <1>9
<1>11. /\ part \in Seq(Values(u)) /\ Len(part) = len
       /\ T[a + len] = got \o part /\ Len(T[a + len]) = Len(got) + len
  <2>1. AllBytes(u, a, len)
    BY <1>8 DEF AllBytes
  <2> QED BY <1>10, <2>1, BytesAdd
<1>12. sent0 = part
  <2>1. full = len
    BY <1>5
  <2>2. \A i \in 1..len : at + i - 1 = a + i /\ a + i \in 1..cut /\ a + i \in a + 1..a + len
    BY <1>1, <1>9
  <2>3. \A i \in 1..len : s[at + i - 1].value = u[a + i].value
    BY <1>2, <2>2
  <2> HIDE DEF full
  <2> QED BY <2>1, <2>3 DEF Part
<1> HIDE DEF part, sent0
<1>13. r.saved = T[a + len] /\ Len(T[a + len]) = Len(got) + len /\ Len(got) + len <= room
  BY <1>5, <1>11, <1>12
<1> QED BY <1>3, <1>9, <1>13 DEF LineRead

\* The line that parse_http_header keeps is one of its kind in the head, if there is one.
LEMMA LineIs ==
  ASSUME NEW s, NEW end \in Nat, NEW kinds
  PROVE  /\ Line(s, end, kinds) = 0 => \A i \in 2..end - 1 : s[i].kind \notin kinds
         /\ Line(s, end, kinds) # 0 => Line(s, end, kinds) \in 2..end - 1 /\ s[Line(s, end, kinds)].kind \in kinds
<1> DEFINE S == {i \in 2..end - 1 : s[i].kind \in kinds}
<1>1. CASE S = {}
  BY <1>1 DEF Line
<1>2. CASE S # {}
  <2>1. S \subseteq 0..end
    OBVIOUS
  <2> HIDE DEF S
  <2>2. PICK m \in S : \A t \in S : t <= m
    BY <1>2, <2>1, Greatest
  <2>3. Max(S) \in S
    <3>1. \A t \in S : m >= t
      BY <2>1, <2>2
    <3> QED BY <3>1 DEF Max
  <2>4. Line(s, end, kinds) = Max(S)
    BY <1>2 DEF Line, S
  <2> QED BY <2>3, <2>4 DEF S
<1> QED BY <1>1, <1>2

LengthLine(s, h)   == Line(s, h, {"length", "tight"})
EncodingLine(s, h) == Line(s, h, {"encoding"})
HeadIs(header, s, h) ==
  /\ h <= Len(s) /\ header.at = h + 1 /\ (header.chunked_flag <=> EncodingLine(s, h) # 0)
  /\ header.len = IF LengthLine(s, h) = 0 THEN 0 ELSE LenOf(s[LengthLine(s, h)])
\* A head that is read well has arrived as a whole, with no encoding but the one in chunks.
LEMMA HeadRead ==
  ASSUME NEW u, WellFormed(u), NEW h, HeadOf(u, h), NEW cut \in 0..Len(u), NEW s, s = SubSeq(u, 1, cut),
         NEW header, header = parse_http_header(s), Fine(header)
  PROVE  HeadIs(header, s, h)
<1>1. Len(u) \in Nat /\ DOMAIN u = 1..Len(u) /\ h \in 2..Len(u)
  BY UnitFacts DEF HeadOf
<1>2. Len(s) = cut /\ DOMAIN s = 1..cut /\ \A i \in 1..cut : s[i] = u[i]
  BY CutFacts
<1> DEFINE stops == {i \in 2..Len(s) : s[i].kind = "blank" \/ (s[i].kind = "encoding" /\ s[i].value # "chunked")}
           end == IF stops = {} THEN Len(s) ELSE Min(stops)
           l == Line(s, end, {"length", "tight"})
           where == Line(s, end, {"location"})
           place == IF where = 0 THEN <<>> ELSE s[where].value
           size == IF l = 0 THEN 0 ELSE LenOf(s[l])
           good == s # <<>> /\ s[1].kind = "status" /\ s[end].kind = "blank"
           chunked == Line(s, end, {"encoding"}) # 0
<1>3. header = [ok |-> good,
                at |-> end + 1, len |-> size, chunked_flag |-> chunked, location |-> place]
  BY DEF parse_http_header
<1> HIDE DEF end, l, where, good, chunked, place, size
<1>a. header.at = end + 1 /\ header.len = size
  BY <1>3
<1>b. header.ok = good /\ header.chunked_flag = chunked
  BY <1>3
<1>4. s # <<>> /\ s[1].kind = "status" /\ s[end].kind = "blank"
  BY <1>b DEF good, Fine
<1>5. stops # {}
  <2> SUFFICES ASSUME stops = {} PROVE FALSE
    OBVIOUS
  <2>1. end = cut
    BY <1>2 DEF end
  <2>2. cut # 0
    <3>1. cut = 0 => s = <<>>
      BY <1>1, SubSeqEmpty
    <3> QED BY <1>4, <3>1
  <2>3. cut # 1
    BY <1>4, <2>1
  <2>4. cut \in 2..Len(s)
    BY <1>1, <1>2, <2>2, <2>3
  <2> QED BY <1>4, <2>1, <2>4
<1>6. end \in stops /\ \A i \in stops : end <= i
  <2>1. stops \subseteq Nat
    BY <1>1, <1>2
  <2> HIDE DEF stops
  <2>2. \E m \in stops : \A i \in stops : m <= i
    BY <1>5, <2>1, Least
  <2> QED BY <1>5, <2>2 DEF end, Min
<1>7. end \in 2..cut /\ u[end].kind = "blank"
  BY <1>1, <1>2, <1>4, <1>6
<1>8. ~(end < h)
  <2>1. end < h => end \in 2..h - 1
    BY <1>1, <1>7
  <2> QED BY <1>7, <2>1 DEF HeadOf
<1>9. ~(h < end)
  <2> SUFFICES ASSUME h < end PROVE FALSE
    OBVIOUS
  <2>1. h \in 2..Len(s) /\ h \in 1..cut
    BY <1>1, <1>2, <1>7
  <2>2. s[h].kind = "blank"
    BY <1>2, <2>1 DEF HeadOf
  <2>3. h \in stops
    BY <2>1, <2>2
  <2>4. end <= h
    BY <1>6, <2>3
  <2> QED BY <1>1, <1>7, <2>4
<1>10. end = h
  BY <1>1, <1>7, <1>8, <1>9
<1> HIDE DEF stops
<1>11. h <= Len(s)
  BY <1>2, <1>7, <1>10
<1> QED BY <1>a, <1>b, <1>10, <1>11 DEF HeadIs, l, size, chunked, LengthLine, EncodingLine

\* There is no content in the head.
LEMMA HeadEmpty ==
  ASSUME NEW u, NEW T, Page(u, T), NEW h, HeadOf(u, h)
  PROVE  T[h] = <<>>
<1>1. Len(u) \in Nat /\ DOMAIN u = 1..Len(u) /\ h \in 2..Len(u)
  BY UnitFacts DEF HeadOf, Page
<1>2. \A j \in 0 + 1..h : u[j].kind # "byte"
  <2>1. \A j \in 0 + 1..h : j \in DOMAIN u /\ ~(j > h)
    BY <1>1
  <2> QED BY <2>1 DEF HeadOf
<1>3. PICK a : a = 0
  OBVIOUS
<1>4. a \in 0..Len(u) /\ h \in a..Len(u)
  BY <1>1, <1>3
<1>5. T[h] = T[a]
  BY <1>2, <1>3, <1>4, ContentGrows
<1> QED BY <1>3, <1>5 DEF Page, Contents

\* By the length: as many bytes as the page has.
LEMMA ReadWhole ==
  ASSUME NEW u, NEW T, Page(u, T), TellsLength(u), NEW h, HeadOf(u, h),
         NEW cut \in 0..Len(u), NEW s, s = SubSeq(u, 1, cut),
         NEW header, header = parse_http_header(s), Fine(header), ~header.chunked_flag,
         NEW room \in Nat, NEW r, r = recv_response(s, header, room), Fine(r)
  PROVE  r.saved = BytesOf(u) /\ Len(r.saved) <= room
<1>1. Len(u) \in Nat /\ DOMAIN u = 1..Len(u) /\ h \in 2..Len(u) /\ WellFormed(u)
  BY UnitFacts DEF HeadOf, Page
<1>2. Len(s) = cut /\ \A i \in 1..cut : s[i] = u[i]
  BY <1>1, CutFacts
<1>3. PICK l, e : l = LengthLine(s, h) /\ e = EncodingLine(s, h)
  OBVIOUS
<1>4. h <= cut /\ header.at = h + 1 /\ header.len = (IF l = 0 THEN 0 ELSE LenOf(s[l]))
      /\ e = 0
  <2>1. HeadIs(header, s, h)
    BY <1>1, HeadRead
  <2> QED BY <1>2, <1>3, <2>1 DEF HeadIs
<1>5. \A i \in 2..h - 1 : s[i].kind # "encoding" /\ i \in 1..cut
  <2>1. h \in Nat
    BY <1>1
  <2>2. PICK kinds : kinds = {"encoding"}
    OBVIOUS
  <2>3. \A i \in 2..h - 1 : s[i].kind \notin kinds
    BY <1>3, <1>4, <2>1, <2>2, LineIs DEF EncodingLine
  <2> QED BY <1>1, <1>4, <2>2, <2>3
<1>6. PICK i \in DOMAIN u : u[i].kind = "length"
  <2>1. PICK i \in DOMAIN u : u[i].kind \in {"length", "encoding"}
    BY DEF TellsLength
  <2>2. u[i].kind # "encoding"
    BY <1>2, <1>5, <2>1 DEF HeadOf
  <2> QED BY <2>1, <2>2
<1>7. l # 0 /\ l \in 2..h - 1 /\ s[l].kind \in {"length", "tight"}
  <2>1. i \in 2..h - 1
    BY <1>6 DEF HeadOf
  <2>2. s[i].kind = "length"
    BY <1>2, <1>5, <1>6, <2>1
  <2>3. h \in Nat
    BY <1>1
  <2>4. PICK kinds : kinds = {"length", "tight"}
    OBVIOUS
  <2>5. l = 0 => s[i].kind \notin kinds
    BY <1>3, <2>1, <2>3, <2>4, LineIs DEF LengthLine
  <2>6. l # 0 => l \in 2..h - 1 /\ s[l].kind \in kinds
    BY <1>3, <2>3, <2>4, LineIs DEF LengthLine
  <2> QED BY <2>2, <2>4, <2>5, <2>6
<1>8. header.len = Len(BytesOf(u))
  <2>1. l \in DOMAIN u /\ s[l] = u[l]
    BY <1>1, <1>2, <1>5, <1>7
  <2>2. LenOf(u[l]) = Len(BytesOf(u))
    BY <1>7, <2>1 DEF HeadOf
  <2> QED BY <1>4, <1>7, <2>1, <2>2
<1>9. PICK none : none = <<>>
  OBVIOUS
<1>10. T[h] = none /\ Len(none) = 0
  BY <1>9, HeadEmpty
<1>11. T[Len(u)] = BytesOf(u) /\ Len(BytesOf(u)) \in Nat
  <2>1. Len(u) \in 0..Len(u)
    BY <1>1
  <2> QED BY <2>1, LenProperties DEF Page, Contents
<1>12. r = read_data(s, header.at, header.len, none, room)
  BY <1>9 DEF recv_response
<1>13. h + header.len <= cut /\ r.saved = T[h + header.len] /\ Len(T[h + header.len]) = Len(T[h]) + header.len
       /\ Len(r.saved) <= room
  <2>1. h \in 0..cut /\ header.len \in Nat
    BY <1>1, <1>4, <1>8, <1>11
  <2>2. PICK at, len : at = header.at /\ len = header.len
    OBVIOUS
  <2>3. at = h + 1 /\ len \in Nat /\ none = T[h] /\ r = read_data(s, at, len, none, room) /\ h \in 0..cut
    BY <1>4, <1>10, <1>12, <2>1, <2>2
  <2>4. LineRead(r, T, h, len, cut, room)
    BY ONLY Page(u, T), cut \in 0..Len(u), s = SubSeq(u, 1, cut), Fine(r), room \in Nat, <2>3, ReadSaves
  <2> QED BY <2>2, <2>4 DEF LineRead
<1>14. h + header.len \in 0..Len(u) /\ Len(u) \in h + header.len..Len(u)
  BY <1>1, <1>8, <1>11, <1>13
<1>15. T[Len(u)] = T[h + header.len] \/ Len(T[Len(u)]) > Len(T[h + header.len])
  BY <1>14, ContentGrows
<1>16. ~(Len(T[Len(u)]) > Len(T[h + header.len]))
  BY <1>8, <1>10, <1>11, <1>13
<1> QED BY <1>11, <1>13, <1>15, <1>16

\* Between chunks what has been saved is the content of the units before; after the last one it
\* is the whole content.
Along(c, u, T, h, cut, room) ==
  /\ "state" \in DOMAIN c
  /\ c.state = "more" => c.at \in h + 1..cut + 1 /\ c.saved = T[c.at - 1]
  /\ c.state = "ok" => c.saved = T[Len(u)] /\ Len(c.saved) <= room

\* A turn of the loop of recv_chunked_response.
LEMMA ChunkRead ==
  ASSUME NEW u, NEW T, Page(u, T), NEW h, HeadOf(u, h), NEW cut \in 0..Len(u), NEW s, s = SubSeq(u, 1, cut),
         NEW room \in Nat, NEW c, Along(c, u, T, h, cut, room), c.state = "more"
  PROVE  Along(recv_chunk(s, c, room), u, T, h, cut, room)
<1>1. Len(u) \in Nat /\ DOMAIN u = 1..Len(u) /\ h \in 2..Len(u) /\ WellFormed(u)
  BY UnitFacts DEF HeadOf, Page
<1>2. Len(s) = cut /\ \A i \in 1..cut : s[i] = u[i]
  BY <1>1, CutFacts
<1>3. PICK a : a = c.at
  OBVIOUS
<1>4. a \in h + 1..cut + 1 /\ c.saved = T[a - 1] /\ "state" \in DOMAIN c
  BY <1>3 DEF Along
<1>5. CASE a > Len(s) \/ s[a].kind # "size"
  <2>1. recv_chunk(s, c, room) = [c EXCEPT !.state = "failed"]
    BY <1>3, <1>5 DEF recv_chunk
  <2>2. PICK d : d = [c EXCEPT !.state = "failed"]
    OBVIOUS
  <2>3. "state" \in DOMAIN d /\ d.state = "failed"
    BY <1>4, <2>2
  <2> QED BY <2>1, <2>2, <2>3 DEF Along
<1>6. CASE ~(a > Len(s) \/ s[a].kind # "size")
  <2>1. a \in 1..cut /\ a \in DOMAIN u /\ a - 1 \in 0..Len(u) /\ a \in 0..cut /\ a \in 0..Len(u) /\ a \in h + 1..cut
    BY <1>1, <1>2, <1>4, <1>6
  <2>2. s[a] = u[a] /\ u[a].kind = "size"
    BY <1>2, <1>6, <2>1
  <2>3. PICK m : m = u[a].value
    OBVIOUS
  <2>4. /\ m \in Nat
        /\ a + 1 + m \in DOMAIN u => u[a + 1 + m].kind # "byte"
        /\ a + 1 + m = a + 1 => \A j \in a..Len(u) : u[j].kind # "byte"
    BY <2>1, <2>2, <2>3 DEF HeadOf
  <2>5. T[a] = T[a - 1]
    BY <1>1, <2>1, <2>2 DEF Page, Contents
  <2>6. PICK got, at : got = T[a] /\ at = a + 1
    OBVIOUS
  <2>7. PICK r : r = read_data(s, at, m, got, room)
    OBVIOUS
  <2>8. PICK next : next = a + 1 + m
    OBVIOUS
  <2>9. PICK state : state = IF ~r.ok \/ next > Len(s) THEN "failed" ELSE IF m = 0 THEN "ok" ELSE "more"
    OBVIOUS
  <2>10. PICK d : d = [at |-> next + 1, saved |-> r.saved, state |-> state]
    OBVIOUS
  <2>11. recv_chunk(s, c, room) = d
    BY <1>3, <1>4, <1>6, <2>2, <2>3, <2>5, <2>6, <2>7, <2>8, <2>9, <2>10 DEF recv_chunk
  <2>12. "state" \in DOMAIN d /\ d.state = state /\ d.at = next + 1 /\ d.saved = r.saved
    BY <2>10
  <2>13. CASE ~r.ok \/ next > Len(s)
    <3>1. state = "failed"
      BY <2>9, <2>13
    <3> QED BY <2>11, <2>12, <3>1 DEF Along
  <2>14. CASE ~(~r.ok \/ next > Len(s))
    <3>1. Fine(r)
      BY <2>14 DEF Fine
    <3>2. LineRead(r, T, a, m, cut, room)
      BY <2>1, <2>4, <2>6, <2>7, <3>1, ReadSaves
    <3>3. PICK b : b = a + m
      OBVIOUS
    <3>4. r.saved = T[b] /\ Len(r.saved) <= room /\ b \in 0..Len(u) /\ next = b + 1 /\ next \in 1..cut /\ next - 1 = b /\ next \in DOMAIN u
          /\ (next + 1) - 1 = next
      BY <1>1, <1>2, <2>1, <2>4, <2>8, <2>14, <3>2, <3>3 DEF LineRead
    <3>5. T[next] = T[b]
      <4>1. u[next].kind # "byte"
        BY <2>4, <2>8, <3>4
      <4>2. next \in 1..Len(u)
        BY <1>1, <3>4
      <4> QED BY <3>4, <4>1, <4>2 DEF Page, Contents
    <3>6. CASE m = 0
      <4>1. state = "ok" /\ b = a
        BY <2>1, <2>9, <2>14, <3>3, <3>6
      <4>2. \A j \in a + 1..Len(u) : u[j].kind # "byte"
        <5>1. a + 1 + m = a + 1
          BY <2>1, <3>6
        <5>2. \A j \in a + 1..Len(u) : j \in a..Len(u)
          BY <2>1
        <5> QED BY <2>4, <5>1, <5>2
      <4>3. Len(u) \in a..Len(u)
        BY <1>1, <2>1
      <4>4. T[Len(u)] = T[a]
        BY <2>1, <4>2, <4>3, ContentGrows
      <4> QED BY <2>11, <2>12, <3>4, <4>1, <4>4 DEF Along
    <3>7. CASE m # 0
      <4>1. state = "more"
        BY <2>9, <2>14, <3>7
      <4>2. next + 1 \in h + 1..cut + 1
        BY <1>1, <2>1, <2>4, <2>8, <3>4
      <4> QED BY <2>11, <2>12, <3>4, <3>5, <4>1, <4>2 DEF Along
    <3> QED BY <3>6, <3>7
  <2> QED BY <2>13, <2>14
<1> QED BY <1>5, <1>6

\* In chunks: all of them up to the one of the size 0.
LEMMA ReadInChunks ==
  ASSUME NEW u, NEW T, Page(u, T), NEW h, HeadOf(u, h), NEW cut \in h..Len(u), NEW s, s = SubSeq(u, 1, cut),
         NEW at, at = h + 1, NEW room \in Nat, NEW r, r = recv_chunked_response(s, at, room), Fine(r)
  PROVE  r.saved = BytesOf(u) /\ Len(r.saved) <= room
<1>1. Len(u) \in Nat /\ DOMAIN u = 1..Len(u) /\ h \in 2..Len(u) /\ WellFormed(u) /\ cut \in 0..Len(u)
      /\ T[Len(u)] = BytesOf(u)
  BY UnitFacts DEF HeadOf, Page, Contents
<1>2. Len(s) = cut /\ \A i \in 1..cut : s[i] = u[i]
  BY <1>1, CutFacts
<1> DEFINE N == Len(s)
           start == [at |-> at, saved |-> <<>>, state |-> "more"]
           Turn(c) == IF c.state = "more" THEN recv_chunk(s, c, room) ELSE c
           Is(g, m) == g = [n \in 0..m |-> IF n = 0 THEN start ELSE Turn(g[n - 1])]
           turn == CHOOSE g : Is(g, N)
           S == {m \in 0..N : \E g : Is(g, m)}
<1>3. r = [ok |-> turn[N].state = "ok", saved |-> turn[N].saved]
  BY DEF recv_chunked_response
<1>4. N \in Nat
  BY <1>1, <1>2
<1>5. Along(start, u, T, h, cut, room)
  <2>1. T[h] = <<>>
    BY HeadEmpty
  <2>2. h + 1 \in h + 1..cut + 1 /\ (h + 1) - 1 = h
    BY <1>1
  <2> QED BY <2>1, <2>2 DEF Along
<1>6. ASSUME NEW c, Along(c, u, T, h, cut, room) PROVE Along(Turn(c), u, T, h, cut, room)
  BY <1>1, <1>6, ChunkRead
<1> HIDE DEF start, Turn, N
<1>7. \E g : Is(g, N)
  <2>1. 0 \in S
    <3> DEFINE g == [n \in 0..0 |-> start]
    <3>1. g[0] = start
      OBVIOUS
    <3>2. Is(g, 0)
      OBVIOUS
    <3> HIDE DEF g
    <3> QED BY <1>4, <3>2
  <2>2. ASSUME NEW m \in 1..N, m - 1 \in S PROVE m \in S
    <3>1. PICK g : Is(g, m - 1)
      BY <2>2
    <3> DEFINE b == [n \in 0..m |-> IF n = m THEN Turn(g[m - 1]) ELSE g[n]]
    <3>2. \A n \in 0..m : b[n] = IF n = 0 THEN start ELSE Turn(b[n - 1])
      <4> SUFFICES ASSUME NEW n \in 0..m PROVE b[n] = IF n = 0 THEN start ELSE Turn(b[n - 1])
        OBVIOUS
      <4>1. CASE n = m
        <5>1. n # 0 /\ n - 1 \in 0..m /\ n - 1 # m /\ b[n - 1] = g[n - 1]
          BY <1>4, <4>1
        <5> QED BY <4>1, <5>1
      <4>2. CASE n # m
        <5>1. n \in 0..m - 1
          BY <1>4, <4>2
        <5>2. g[n] = IF n = 0 THEN start ELSE Turn(g[n - 1])
          BY <3>1, <5>1
        <5>3. n # 0 => n - 1 \in 0..m /\ n - 1 # m
          BY <1>4, <5>1
        <5> QED BY <4>2, <5>2, <5>3
      <4> QED BY <4>1, <4>2
    <3>3. Is(b, m)
      BY <3>2
    <3> HIDE DEF b
    <3> QED BY <1>4, <3>3
  <2>3. 0..N \subseteq S
    <3> HIDE DEF S
    <3> QED BY <1>4, <2>1, <2>2, Climb
  <2>4. N \in S
    <3> HIDE DEF S
    <3> QED BY <1>4, <2>3
  <2> QED BY <2>4
<1>8. Is(turn, N)
  BY <1>7
<1> HIDE DEF turn
<1>9. turn[0] = start /\ \A n \in 1..N : turn[n] = Turn(turn[n - 1])
  BY <1>4, <1>8
<1> DEFINE R == {n \in 0..N : Along(turn[n], u, T, h, cut, room)}
<1>10. N \in R
  <2>1. 0 \in R /\ \A n \in 1..N : n - 1 \in R => n \in R
    BY <1>4, <1>5, <1>6, <1>9
  <2> HIDE DEF R
  <2>2. 0..N \subseteq R
    BY <1>4, <2>1, Climb
  <2> QED BY <1>4, <2>2
<1>11. turn[N].state = "ok" /\ r.saved = turn[N].saved
  <2> DEFINE good == turn[N].state = "ok"
  <2>1. r = [ok |-> good, saved |-> turn[N].saved]
    BY <1>3
  <2> HIDE DEF good
  <2>2. good
    BY <2>1 DEF Fine
  <2>3. r.saved = turn[N].saved
    BY <2>1
  <2> QED BY <2>2, <2>3 DEF good
<1> QED BY <1>1, <1>10, <1>11 DEF Along

\* A page that has been received without an error has been received as a whole.
LEMMA Received ==
  ASSUME NEW u, WellFormed(u), TellsLength(u), NEW cut \in 0..Len(u), NEW s, s = SubSeq(u, 1, cut),
         NEW header, header = parse_http_header(s), Fine(header),
         NEW room \in Nat, NEW r, r = recv_response(s, header, room), Fine(r)
  PROVE  r.saved = BytesOf(u) /\ Len(r.saved) <= room
<1>1. PICK T : Page(u, T)
  BY ContentsExist DEF Page
<1>2. PICK h : HeadOf(u, h)
  BY DEF WellFormed
<1>3. CASE ~header.chunked_flag
  BY <1>1, <1>2, <1>3, ReadWhole
<1>4. CASE header.chunked_flag
  <2>1. HeadIs(header, s, h) /\ Len(s) = cut /\ Len(u) \in Nat /\ h \in 2..Len(u)
    <3>1. HeadIs(header, s, h)
      BY <1>2, HeadRead
    <3>2. Len(s) = cut
      BY CutFacts
    <3> QED BY <1>2, <3>1, <3>2, UnitFacts DEF HeadOf
  <2>2. cut \in h..Len(u) /\ header.at = h + 1
    BY <2>1 DEF HeadIs
  <2>3. PICK at : at = header.at
    OBVIOUS
  <2>4. r = recv_chunked_response(s, at, room)
    BY <1>4, <2>3 DEF recv_response
  <2> QED BY <1>1, <1>2, <2>2, <2>3, <2>4, ReadInChunks
<1> QED BY <1>3, <1>4

\* The answers of a server that tells the truth, and those of the model's server without a page.
LEMMA AnswersWellFormed ==
  ASSUME NEW info, connect_server(info)
  PROVE  WellFormed(send_request(info))
<1>1. CASE info.uri \in DOMAIN Hosts[<<info.host_name, info.port>>]
  BY <1>1, HttpAssumption DEF send_request, connect_server
<1>2. ASSUME NEW code PROVE WellFormed(Answer(code))
  BY DEF WellFormed, TellsLength, Answer, Status, Sent
<1> QED BY <1>1, <1>2 DEF send_request

\* The strengthening of DownloadComplete: also while the next download goes on, or is redirected,
\* the file is the page of the last one that was reported as successful, or what of it had room.
Partly(f, content, room) == f = SubSeq(content, 1, room) /\ Len(content) - room \in 1..BUFSIZ
FileIsPage == ret = 0 /\ page # <<>> => file = page \/ Partly(file, page, found)

\* What clean_up leaves of a page that fwrite took.
LEMMA ClosedIs ==
  ASSUME NEW D, NEW saved \in Seq(D), NEW room \in Nat, NEW held \in 0..BUFSIZ, Len(saved) <= room + held
  PROVE  clean_up(saved, room) = saved \/ Partly(clean_up(saved, room), saved, room)
<1>1. Len(saved) \in Nat /\ BUFSIZ \in Nat
  BY HttpAssumption, LenProperties
<1>2. CASE Len(saved) <= room
  <2>1. Min({room, Len(saved)}) = Len(saved)
    BY <1>1, <1>2 DEF Min
  <2>2. SubSeq(saved, 1, Len(saved)) = saved
    BY SubSeqFull
  <2> QED BY <2>1, <2>2 DEF clean_up
<1>3. CASE ~(Len(saved) <= room)
  <2>1. Min({room, Len(saved)}) = room
    BY <1>1, <1>3 DEF Min
  <2>2. Len(saved) - room \in 1..BUFSIZ
    BY <1>1, <1>3
  <2> QED BY <2>1, <2>2 DEF clean_up, Partly
<1> QED BY <1>2, <1>3

\* Every step of a download, a redirection or a failure keeps that the file is the page.
LEMMA FileIsPageKept == FileIsPage /\ [HttpStep]_httpVars => FileIsPage'
<1> SUFFICES ASSUME FileIsPage, [HttpStep]_httpVars PROVE FileIsPage'
  OBVIOUS
<1>1. CASE UNCHANGED httpVars
  BY <1>1 DEF FileIsPage, httpVars
<1>2. CASE Begin
  BY <1>2 DEF FileIsPage, Begin
<1>3. ASSUME NEW saved, NEW content, NEW room, Return(-1, saved, content, room) PROVE FileIsPage'
  BY <1>3 DEF FileIsPage, Return
<1>4. CASE http_download
  <2>1. PICK info : info = parser_URL(url)
    OBVIOUS
  <2>2. CASE ~info.ok \/ ~connect_server(info)
    <3>1. \E room \in Rooms : Return(-1, <<>>, <<>>, room)
      BY <1>4, <2>1, <2>2 DEF http_download
    <3> QED BY <1>3, <3>1
  <2>3. CASE ~(~info.ok \/ ~connect_server(info))
    <3>1. PICK u : u = send_request(info)
      OBVIOUS
    <3>2. PICK cut \in 0..Len(u), room \in Rooms, held \in 0..BUFSIZ :
            Receive(SubSeq(u, 1, cut), Announced(u), room, held)
      BY <1>4, <2>1, <2>3, <3>1 DEF http_download
    <3>3. WellFormed(u) /\ room \in Nat /\ BUFSIZ \in Nat
      BY <2>3, <3>1, AnswersWellFormed, HttpAssumption
    <3>4. PICK s : s = SubSeq(u, 1, cut)
      OBVIOUS
    <3>5. PICK header : header = parse_http_header(s)
      OBVIOUS
    <3>6. PICK r : r = recv_response(s, header, room + held)
      OBVIOUS
    <3>7. \/ Return(-1, <<>>, <<>>, room)
          \/ Return(-1, r.saved, <<>>, room)
          \/ header.ok /\ r.ok /\ Return(0, r.saved, Announced(u), room)
          \/ UNCHANGED <<file, ret, page, found>>
      BY <3>2, <3>4, <3>5, <3>6 DEF Receive
    <3>8. CASE header.ok /\ r.ok /\ Return(0, r.saved, Announced(u), room)
      <4> SUFFICES ASSUME page' # <<>> PROVE file' = page' \/ Partly(file', page', found')
        BY DEF FileIsPage
      <4>1. /\ page' = Announced(u) /\ found' = room
            /\ file' = IF r.saved = <<>> THEN file ELSE clean_up(r.saved, room)
        BY <3>8 DEF Return
      <4>2. TellsLength(u) /\ Announced(u) = BytesOf(u)
        BY <4>1 DEF Announced
      <4>3. Fine(header) /\ Fine(r)
        BY <3>8 DEF Fine
      <4>4. r.saved = BytesOf(u) /\ Len(r.saved) <= room + held
        <5>1. room + held \in Nat
          BY <3>3
        <5>2. PICK takes : takes = room + held
          OBVIOUS
        <5> QED BY <3>3, <3>4, <3>5, <3>6, <4>2, <4>3, <5>1, <5>2, Received
      <4>5. r.saved \in Seq(Values(u))
        <5>1. PICK T : Contents(u, T)
          BY <3>3, ContentsExist
        <5>2. Len(u) \in 0..Len(u)
          BY <3>3, UnitFacts
        <5> QED BY <4>4, <5>1, <5>2 DEF Contents
      <4>6. file' = clean_up(r.saved, room) /\ page' = r.saved
        BY <4>1, <4>2, <4>4
      <4> QED BY <3>3, <4>1, <4>4, <4>5, <4>6, ClosedIs
    <3>9. CASE UNCHANGED <<file, ret, page, found>>
      BY <3>9 DEF FileIsPage
    <3> QED BY <1>3, <3>7, <3>8, <3>9
  <2> QED BY <2>2, <2>3
<1> QED BY <1>1, <1>2, <1>4 DEF HttpStep

\* However often the connection is cut or falls silent, the file system fills up or the server
\* redirects, a download that is reported as successful has left the whole page in the file, if
\* servers that tell the length of a page tell the truth; or all of it that had room, when what
\* had none is at most the block that is written by the fclose nobody looks at.
THEOREM DownloadIsComplete == HttpSpec => []DownloadComplete
<1>1. HttpInit => FileIsPage
  BY DEF HttpInit, FileIsPage
<1>2. FileIsPage => DownloadComplete
  BY DEF FileIsPage, DownloadComplete, Partly
<1> QED BY <1>1, <1>2, FileIsPageKept, PTL DEF HttpSpec

(***************************************************************************)
(* Documents.                                                              *)
(***************************************************************************)
\* The items with these children.
With(C) ==
  {item \in [type : Types, string : Strings, valuestring : Strings, valuedouble : Numbers, child : C] :
     Shaped(item)}

\* What an item with children among C is.
LEMMA DocumentsAre ==
  /\ Documents[0] = With({<<>>})
  /\ \A n \in 1..MaxNesting : Documents[n] = With(Seq(Documents[n - 1]))
<1> DEFINE N == MaxNesting
           E(g, n) == With(IF n = 0 THEN {<<>>} ELSE Seq(g[n - 1]))
           Is(g, m) == g = [n \in 0..m |-> E(g, n)]
           S == {m \in 0..N : \E g : Is(g, m)}
<1>1. N \in Nat
  BY JsonAssumption
<1>2. Documents = CHOOSE g : Is(g, N)
  BY DEF Documents, With
<1> HIDE DEF N, E
<1>3. \E g : Is(g, N)
  <2>1. 0 \in S
    <3> DEFINE g == [n \in 0..0 |-> E(n, 0)]
    <3>1. \A n \in 0..0 : g[n] = E(g, n)
      BY DEF E
    <3> QED BY <1>1, <3>1
  <2>2. ASSUME NEW m \in 1..N, m - 1 \in S PROVE m \in S
    <3>1. PICK g : Is(g, m - 1)
      BY <2>2
    <3> DEFINE b == [n \in 0..m |-> IF n = m THEN E(g, m) ELSE g[n]]
    <3>2. \A n \in 0..m : b[n] = E(b, n)
      <4> SUFFICES ASSUME NEW n \in 0..m PROVE b[n] = E(b, n)
        OBVIOUS
      <4>1. n # 0 => n - 1 \in 0..m /\ n - 1 # m /\ b[n - 1] = g[n - 1]
        BY <1>1
      <4>2. E(b, n) = E(g, n)
        BY <4>1 DEF E
      <4>3. n # m => n \in 0..m - 1 /\ g[n] = E(g, n)
        BY <1>1, <3>1
      <4> QED BY <4>2, <4>3
    <3> HIDE DEF b
    <3>3. b = [n \in 0..m |-> b[n]]
      BY DEF b
    <3>4. Is(b, m)
      BY <3>2, <3>3
    <3> QED BY <1>1, <3>4
  <2> HIDE DEF S
  <2>3. 0..N \subseteq S
    BY <1>1, <2>1, <2>2, Climb
  <2> QED BY <1>1, <2>3 DEF S
<1>4. Is(Documents, N)
  BY <1>2, <1>3
<1> QED BY <1>1, <1>4 DEF N, E

\* A document has the parts of an item, and its children are one level down.
IsItem(item) ==
  /\ item = Item(item.type, item.string, item.valuestring, item.valuedouble, item.child)
  /\ item.type \in Types /\ item.string \in Strings /\ item.valuestring \in Strings
  /\ item.valuedouble \in Numbers
Children(item, n) == IF n = 0 THEN item.child = <<>> ELSE item.child \in Seq(Documents[n - 1])
\* Being a document, part by part.
LEMMA DocumentIs ==
  ASSUME NEW n \in 0..MaxNesting, NEW item
  PROVE  item \in Documents[n] <=> IsItem(item) /\ Children(item, n) /\ Shaped(item)
<1>1. \A C : item \in With(C) <=> IsItem(item) /\ item.child \in C /\ Shaped(item)
  BY DEF With, IsItem, Item
<1>2. n = 0 \/ n \in 1..MaxNesting
  BY JsonAssumption
<1>3. CASE n = 0
  BY <1>1, <1>3, DocumentsAre DEF Children
<1>4. CASE n \in 1..MaxNesting
  BY <1>1, <1>4, DocumentsAre, JsonAssumption DEF Children
<1> QED BY <1>2, <1>3, <1>4

\* What has n levels below it at most has n + 1.
LEMMA DocumentsGrow ==
  /\ \A n \in 1..MaxNesting : Documents[n - 1] \subseteq Documents[n]
  /\ \A n \in 0..MaxNesting : Documents[0] \subseteq Documents[n] /\ Documents[n] \subseteq Documents[MaxNesting]
<1> DEFINE N == MaxNesting
           S == {n \in 0..N : n = 0 \/ Documents[n - 1] \subseteq Documents[n]}
           T == {n \in 0..N : Documents[0] \subseteq Documents[n]}
           R == {n \in 0..N : Documents[N - n] \subseteq Documents[N]}
<1>1. N \in Nat \ {0}
  BY JsonAssumption
<1>2. ASSUME NEW n \in 1..N, n - 1 \in S PROVE n \in S
  <2>1. CASE n = 1
    <3>1. {<<>>} \subseteq Seq(Documents[0])
      OBVIOUS
    <3>2. \A A, B : A \subseteq B => With(A) \subseteq With(B)
      BY DEF With
    <3>3. With({<<>>}) \subseteq With(Seq(Documents[0]))
      BY <3>1, <3>2
    <3> QED BY <1>1, <2>1, <3>3, DocumentsAre
  <2>2. CASE n # 1
    <3>1. n - 1 \in 1..N /\ Documents[(n - 1) - 1] \subseteq Documents[n - 1]
      BY <1>1, <1>2, <2>2
    <3>2. \A A, B : A \subseteq B => With(Seq(A)) \subseteq With(Seq(B))
      <4>1. \A A, B : A \subseteq B => Seq(A) \subseteq Seq(B)
        OBVIOUS
      <4> QED BY <4>1 DEF With
    <3>3. Documents[n - 1] \subseteq Documents[n]
      BY <1>1, <3>1, <3>2, DocumentsAre
    <3> QED BY <1>1, <3>3
  <2> QED BY <2>1, <2>2
<1>3. 0..N \subseteq S
  <2>1. 0 \in S
    BY <1>1
  <2> HIDE DEF S
  <2> QED BY <1>1, <1>2, <2>1, Climb
<1>4. \A n \in 1..N : Documents[n - 1] \subseteq Documents[n]
  BY <1>1, <1>3
<1>5. 0..N \subseteq T
  <2>1. 0 \in T /\ \A n \in 1..N : n - 1 \in T => n \in T
    BY <1>1, <1>4
  <2> HIDE DEF T
  <2> QED BY <1>1, <2>1, Climb
<1>6. 0..N \subseteq R
  <2>1. 0 \in R
    BY <1>1
  <2>2. ASSUME NEW n \in 1..N, n - 1 \in R PROVE n \in R
    <3>1. N - (n - 1) \in 1..N /\ (N - (n - 1)) - 1 = N - n
      BY <1>1
    <3>2. Documents[N - n] \subseteq Documents[N - (n - 1)]
      BY <1>4, <3>1
    <3> QED BY <1>1, <2>2, <3>2
  <2> HIDE DEF R
  <2> QED BY <1>1, <2>1, <2>2, Climb
<1>7. ASSUME NEW n \in 0..N PROVE Documents[n] \subseteq Documents[N]
  <2>1. N - n \in 0..N /\ N - (N - n) = n
    BY <1>1
  <2> QED BY <1>6, <2>1
<1> QED BY <1>4, <1>5, <1>7

\* What is left of an item when some of it is replaced.
LEMMA ExceptIs ==
  ASSUME NEW a, NEW b, NEW c, NEW d, NEW e, NEW x, NEW item, item = Item(a, b, c, d, e)
  PROVE  Named(item, x) = Item(a, x, c, d, e) /\ Filled(item, x) = Item(a, b, c, d, x)
BY DEF Named, Filled, Item
\* An item with neither name nor children.
LEMMA EmptyIs ==
  ASSUME NEW a, NEW b, NEW c, NEW d, NEW e, NEW item, item = Item(a, b, c, d, e)
  PROVE  Empty(item) = Item(a, <<>>, c, d, <<>>)
<1>1. Named(item, <<>>) = Item(a, <<>>, c, d, e)
  BY DEF Named, Item
<1>2. Filled(Item(a, <<>>, c, d, e), <<>>) = Item(a, <<>>, c, d, <<>>)
  BY DEF Filled, Item
<1> QED BY <1>1, <1>2 DEF Empty

\* The parts of an item.
LEMMA PartsAre ==
  \A a, b, c, d, e :
    /\ Item(a, b, c, d, e).type = a /\ Item(a, b, c, d, e).string = b
    /\ Item(a, b, c, d, e).valuestring = c /\ Item(a, b, c, d, e).valuedouble = d
    /\ Item(a, b, c, d, e).child = e
BY DEF Item

\* Items without children, and items with another name, are documents.
LEMMA LeavesAre ==
  ASSUME NEW n \in 0..MaxNesting
  PROVE  /\ \A type \in {"null", "false", "true", "array", "object"} :
              Plain0(type) \in Documents[n] /\ Nameless(Plain0(type))
         /\ \A num \in Numbers : cJSON_CreateNumber(num) \in Documents[n] /\ Nameless(cJSON_CreateNumber(num))
         /\ \A s \in Strings : cJSON_CreateString(s) \in Documents[n] /\ Nameless(cJSON_CreateString(s))
<1>1. \A item : IsItem(item) /\ item.child = <<>> /\ Shaped(item) => item \in Documents[n]
  <2> SUFFICES ASSUME NEW item, IsItem(item), item.child = <<>>, Shaped(item) PROVE item \in Documents[n]
    OBVIOUS
  <2>1. Children(item, n)
    BY DEF Children
  <2> QED BY <2>1, DocumentIs
<1>2. <<>> \in Strings /\ 0 \in Numbers
  BY JsonAssumption DEF Strings
<1>3. ASSUME NEW type \in {"null", "false", "true", "array", "object"}
      PROVE  Plain0(type) \in Documents[n] /\ Nameless(Plain0(type))
  <2>1. IsItem(Plain0(type)) /\ Plain0(type).child = <<>>
    BY <1>2, <1>3 DEF IsItem, Plain0, Item, Types
  <2>2. Shaped(Plain0(type)) /\ Nameless(Plain0(type))
    <3>1. /\ Named(Plain0(type), <<>>) = Plain0(type) /\ Plain0(type).type = type
          /\ Empty(Plain0(type)) = Plain0(type) /\ Plain0(type).child = <<>>
      BY ExceptIs, EmptyIs, PartsAre DEF Plain0
    <3> QED BY <1>3, <3>1 DEF Shaped, Nameless
  <2> QED BY <1>1, <2>1, <2>2
<1>4. ASSUME NEW num \in Numbers
      PROVE  cJSON_CreateNumber(num) \in Documents[n] /\ Nameless(cJSON_CreateNumber(num))
  <2>1. IsItem(cJSON_CreateNumber(num)) /\ cJSON_CreateNumber(num).child = <<>>
    BY <1>2, <1>4 DEF IsItem, cJSON_CreateNumber, Item, Types
  <2>2. Shaped(cJSON_CreateNumber(num)) /\ Nameless(cJSON_CreateNumber(num))
    BY <1>4 DEF Shaped, Nameless, Named, cJSON_CreateNumber, Item
  <2> QED BY <1>1, <2>1, <2>2
<1>5. ASSUME NEW s \in Strings
      PROVE  cJSON_CreateString(s) \in Documents[n] /\ Nameless(cJSON_CreateString(s))
  <2>1. IsItem(cJSON_CreateString(s)) /\ cJSON_CreateString(s).child = <<>>
    BY <1>2, <1>5 DEF IsItem, cJSON_CreateString, Item, Types
  <2>2. Shaped(cJSON_CreateString(s)) /\ Nameless(cJSON_CreateString(s))
    BY <1>5 DEF Shaped, Nameless, Named, cJSON_CreateString, Item
  <2> QED BY <1>1, <2>1, <2>2
<1> QED BY <1>3, <1>4, <1>5

\* An item by another name is a document as before.
LEMMA RenamedIs ==
  ASSUME NEW n \in 0..MaxNesting, NEW item \in Documents[n], NEW s \in Strings
  PROVE  Named(item, s) \in Documents[n]
<1>1. IsItem(item) /\ Children(item, n) /\ Shaped(item)
  BY DocumentIs
<1> DEFINE new == Named(item, s)
<1>2. /\ new.type = item.type /\ new.valuestring = item.valuestring /\ new.valuedouble = item.valuedouble
      /\ new.child = item.child /\ new.string = s /\ Named(new, <<>>) = Named(item, <<>>)
      /\ new = Item(new.type, new.string, new.valuestring, new.valuedouble, new.child)
      /\ Empty(new) = Empty(item)
  <2>1. PICK a, b, c, d, e : item = Item(a, b, c, d, e)
    BY <1>1 DEF IsItem
  <2> QED BY <2>1, ExceptIs, EmptyIs, PartsAre
<1> HIDE DEF new
<1>3. IsItem(new)
  BY <1>1, <1>2 DEF IsItem
<1>4. Children(new, n) /\ Shaped(new)
  BY <1>1, <1>2 DEF Children, Shaped
<1>5. new \in Documents[n]
  BY <1>3, <1>4, DocumentIs
<1> QED BY <1>5 DEF new

\* What an array or an object may have as children.
Holds(item, children) ==
  /\ item.type \in {"array", "object"}
  /\ item.type = "array" => \A i \in DOMAIN children : Nameless(children[i])
\* An array or an object with other children is a document, if an array's have no names.
LEMMA FilledIs ==
  ASSUME NEW n \in 1..MaxNesting, NEW item \in Documents[n], NEW c \in Seq(Documents[n - 1]), Holds(item, c)
  PROVE  Filled(item, c) \in Documents[n] /\ (Nameless(item) => Nameless(Filled(item, c)))
<1>1. n \in 0..MaxNesting /\ n # 0
  BY JsonAssumption
<1>2. IsItem(item) /\ Children(item, n) /\ Shaped(item)
  BY <1>1, DocumentIs
<1> DEFINE new == Filled(item, c)
<1>3. /\ new.type = item.type /\ new.valuestring = item.valuestring /\ new.valuedouble = item.valuedouble
      /\ new.child = c /\ new.string = item.string
      /\ new = Item(new.type, new.string, new.valuestring, new.valuedouble, new.child)
      /\ Empty(new) = Empty(item)
  <2>1. PICK a, b, x, d, e : item = Item(a, b, x, d, e)
    BY <1>2 DEF IsItem
  <2>2. new = Item(a, b, x, d, c) /\ Empty(item) = Item(a, <<>>, x, d, <<>>)
    BY <2>1, ExceptIs, EmptyIs
  <2> HIDE DEF new
  <2>3. Empty(new) = Item(a, <<>>, x, d, <<>>)
    BY <2>2, EmptyIs
  <2> QED BY <2>1, <2>2, <2>3, PartsAre
<1>4. Nameless(item) => Nameless(new)
  <2>1. Nameless(item) => item.string = <<>>
    BY <1>2 DEF IsItem, Item, Nameless, Named
  <2>2. new.string = <<>> => Named(new, <<>>) = new
    BY <1>3 DEF Item, Named
  <2> QED BY <1>3, <2>1, <2>2 DEF Nameless
<1> HIDE DEF new
<1>5. IsItem(new)
  BY <1>2, <1>3 DEF IsItem
<1>6. Children(new, n)
  BY <1>1, <1>3 DEF Children
<1>7. Shaped(new)
  BY <1>2, <1>3 DEF Shaped, Holds
<1>8. new \in Documents[n]
  BY <1>1, <1>5, <1>6, <1>7, DocumentIs
<1> QED BY <1>4, <1>8 DEF new

(***************************************************************************)
(* Parsing.                                                                *)
(***************************************************************************)
\* A text is a sequence of tokens, and behind it there is none.
LEMMA TextIs ==
  ASSUME NEW t \in Strings
  PROVE  /\ Len(t) \in Nat /\ DOMAIN t = 1..Len(t)
         /\ \A i \in 1..Len(t) : At(t, i) = t[i] /\ t[i] \in Tokens /\ t[i] # NoToken
         /\ \A i \in Nat : i > Len(t) => At(t, i) = NoToken
         /\ \A i \in Nat \ {0} : At(t, i) # NoToken => i \in 1..Len(t)
<1>1. Len(t) \in Nat /\ DOMAIN t = 1..Len(t) /\ \A i \in 1..Len(t) : t[i] \in Tokens
  BY DEF Strings
<1>2. \A i \in 1..Len(t) : t[i] # NoToken
  BY <1>1, JsonAssumption
<1> QED BY <1>1, <1>2 DEF At

\* Where skip stops: at the first token that is not white, or behind the text.
LEMMA SkipIs ==
  ASSUME NEW t \in Strings, NEW i \in Nat \ {0}, NEW q, q = skip(t, i)
  PROVE  /\ q \in 1..Len(t) + 1 /\ At(t, q) \notin White
         /\ i <= Len(t) + 1 => i <= q
         /\ \A j \in i..q - 1 : j <= Len(t) => t[j] \in White
<1> DEFINE T == {j \in i..Len(t) : t[j] \notin White}
<1>1. Len(t) \in Nat /\ At(t, Len(t) + 1) = NoToken
  BY TextIs
<1>2. NoToken \notin White
  BY Zenon DEF NoToken, White, Space
<1>3. q = IF T = {} THEN Len(t) + 1 ELSE Min(T)
  BY DEF skip
<1>4. CASE T = {}
  BY <1>1, <1>2, <1>3, <1>4
<1>5. CASE T # {}
  <2>1. T \subseteq Nat
    OBVIOUS
  <2>2. PICK m \in T : \A j \in T : m <= j
    <3> HIDE DEF T
    <3> QED BY <1>5, <2>1, Least
  <2>3. Min(T) = CHOOSE x \in T : \A y \in T : x <= y
    BY DEF Min
  <2>4. q \in T /\ \A j \in T : q <= j
    <3> HIDE DEF T
    <3> QED BY <1>3, <1>5, <2>2, <2>3
  <2>5. q \in i..Len(t) /\ t[q] \notin White
    BY <2>4
  <2>6. \A j \in i..q - 1 : j <= Len(t) => t[j] \in White
    BY <1>1, <2>4, <2>5
  <2>7. At(t, q) = t[q]
    BY <1>1, <2>5, TextIs
  <2> QED BY <1>1, <2>5, <2>6, <2>7
<1> QED BY <1>4, <1>5

\* \u takes two tokens or five and gives a character or none.
LEMMA Utf16Is ==
  ASSUME NEW t \in Strings, NEW i \in Nat \ {0}, NEW u, u = FromUtf16(t, i)
  PROVE  u.used \in {2, 5} /\ u.out \in Strings
<1> DEFINE uc == parse_hex4(At(t, i + 1))
           uc2 == parse_hex4(At(t, i + 4))
<1>1. <<>> \in Strings /\ \A x \in DOMAIN Utf8 : <<Utf8[x]>> \in Strings
  BY JsonAssumption DEF Strings
<1>2. uc = 0 \/ \E x \in DOMAIN Hex : uc = Hex[x]
  BY DEF parse_hex4
<1>3. uc2 = 0 \/ \E x \in DOMAIN Hex : uc2 = Hex[x]
  BY DEF parse_hex4
<1>4. 0 \notin Low
  BY DEF Low
<1>5. uc \notin {0} \cup High \cup Low => uc \in DOMAIN Utf8
  <2> HIDE DEF uc
  <2> SUFFICES ASSUME uc \notin {0} \cup High \cup Low PROVE uc \in DOMAIN Utf8
    OBVIOUS
  <2>1. PICK x \in DOMAIN Hex : uc = Hex[x]
    BY <1>2
  <2>2. HexMeans(x)
    BY JsonAssumption
  <2> QED BY <2>1, <2>2 DEF HexMeans
<1>6. uc \in High /\ uc2 \in Low => Pair(uc, uc2) \in DOMAIN Utf8
  <2>1. 0 \notin High
    BY DEF High
  <2> QED BY <1>2, <1>3, <1>4, <2>1, JsonAssumption DEF HexMeans
<1>7. /\ u.used \in {2, 5}
      /\ \/ u.out = <<>>
         \/ uc \notin {0} \cup High \cup Low /\ u.out = <<Utf8[uc]>>
         \/ uc \in High /\ uc2 \in Low /\ u.out = <<Utf8[Pair(uc, uc2)]>>
  <2> HIDE DEF uc, uc2
  <2> QED BY DEF FromUtf16, uc, uc2
<1> QED BY <1>1, <1>5, <1>6, <1>7

\* One turn of parse_string goes forward.
IsTurn(c) == c.at \in Nat \ {0} /\ c.out \in Strings /\ c.open \in BOOLEAN
\* The parts of what was copied.
LEMMA StatesAre ==
  \A a, b : /\ Copied(a, b).at = a /\ Copied(a, b).out = b /\ Copied(a, b).open
            /\ Closed(a, b).at = a /\ Closed(a, b).out = b /\ ~Closed(a, b).open
            /\ Copied(a, b).open \in BOOLEAN /\ Closed(a, b).open \in BOOLEAN
BY DEF Copied, Closed
\* A turn of parse_string copies tokens and goes on from no earlier place.
LEMMA UnescapedIs ==
  ASSUME NEW t \in Strings, NEW i \in Nat \ {0}, NEW out \in Strings, NEW c, c = Unescaped(t, i, out)
  PROVE  IsTurn(c) /\ i <= c.at
<1>1. \A s \in Strings : out \o s \in Strings
  BY DEF Strings
<1>2. <<>> \in Strings /\ \A x \in Tokens : <<x>> \in Strings /\ Append(out, x) \in Strings
  BY DEF Strings
<1>3. \A j \in Nat \ {0} : Escaped(At(t, j)) \in Strings
  <2> SUFFICES ASSUME NEW j \in Nat \ {0} PROVE Escaped(At(t, j)) \in Strings
    OBVIOUS
  <2>1. At(t, j) = NoToken \/ At(t, j) \in Tokens
    BY TextIs
  <2> QED BY <1>2, <2>1, JsonAssumption DEF Escaped
<1> DEFINE u == FromUtf16(t, i + 1)
<1>4. u.used \in {2, 5} /\ u.out \in Strings
  BY Utf16Is
<1>5. At(t, i) = NoToken \/ t[i] \in Tokens
  BY TextIs
<1> HIDE DEF u
<1>6. CASE At(t, i) = NoToken
  <2>1. NoToken # "\"" /\ NoToken # "\\"
    BY Zenon DEF NoToken
  <2>2. c = Closed(i, out)
    BY <1>6, <2>1 DEF Unescaped
  <2> QED BY <2>2, StatesAre DEF IsTurn
<1>7. CASE At(t, i) # NoToken /\ At(t, i) = "\""
  <2>1. c = Closed(i + 1, out)
    BY <1>7 DEF Unescaped
  <2> QED BY <2>1, StatesAre DEF IsTurn
<1>8. CASE At(t, i) # NoToken /\ At(t, i) = "\\" /\ At(t, i + 1) = "u"
  <2>1. c = Copied(i + 1 + u.used, out \o u.out)
    BY <1>8 DEF Unescaped, u
  <2>2. i + 1 + u.used \in Nat \ {0} /\ i <= i + 1 + u.used /\ out \o u.out \in Strings
    BY <1>1, <1>4
  <2> QED BY <2>1, <2>2, StatesAre DEF IsTurn
<1>9. CASE At(t, i) # NoToken /\ At(t, i) = "\\" /\ At(t, i + 1) # "u"
  <2>1. c = Copied(i + 2, out \o Escaped(At(t, i + 1)))
    BY <1>9 DEF Unescaped
  <2>2. out \o Escaped(At(t, i + 1)) \in Strings
    BY <1>1, <1>3
  <2> QED BY <2>1, <2>2, StatesAre DEF IsTurn
<1>10. CASE At(t, i) \notin {NoToken, "\"", "\\"}
  <2>1. c = Copied(i + 1, Append(out, t[i]))
    BY <1>10 DEF Unescaped
  <2>2. Append(out, t[i]) \in Strings
    BY <1>2, <1>5, <1>10
  <2> QED BY <2>1, <2>2, StatesAre DEF IsTurn
<1> QED BY <1>6, <1>7, <1>8, <1>9, <1>10

\* The turns of parse_string at i.
Turns(t, i, turn) ==
  /\ turn[0] = Copied(i + 1, <<>>)
  /\ \A n \in 1..Len(t) :
       turn[n] = IF turn[n - 1].open THEN Unescaped(t, turn[n - 1].at, turn[n - 1].out) ELSE turn[n - 1]
\* parse_string takes these turns.
LEMMA TurnsExist ==
  ASSUME NEW t, Len(t) \in Nat, NEW i \in Nat \ {0}
  PROVE  \E turn : /\ Turns(t, i, turn)
                   /\ parse_string(t, i) =
                        IF At(t, i) # "\"" THEN Fail(i)
                        ELSE IF Outside(t, turn[Len(t)].at) THEN Fail(turn[Len(t)].at)
                        ELSE Got(turn[Len(t)].at, cJSON_CreateString(turn[Len(t)].out))
<1> DEFINE N == Len(t)
           Turn(c) == IF c.open THEN Unescaped(t, c.at, c.out) ELSE c
           E(g, n) == IF n = 0 THEN Copied(i + 1, <<>>) ELSE Turn(g[n - 1])
           Is(g, m) == g = [n \in 0..m |-> E(g, n)]
           S == {m \in 0..N : \E g : Is(g, m)}
           turn == CHOOSE g : Is(g, N)
<1>1. N \in Nat
  OBVIOUS
<1>2. parse_string(t, i) = IF At(t, i) # "\"" THEN Fail(i)
                           ELSE IF Outside(t, turn[N].at) THEN Fail(turn[N].at)
                           ELSE Got(turn[N].at, cJSON_CreateString(turn[N].out))
  BY DEF parse_string
<1> HIDE DEF N, E, turn
<1>3. \E g : Is(g, N)
  <2>1. 0 \in S
    <3> DEFINE g == [n \in 0..0 |-> E(n, 0)]
    <3>1. \A n \in 0..0 : g[n] = E(g, n)
      BY DEF E
    <3> QED BY <1>1, <3>1
  <2>2. ASSUME NEW m \in 1..N, m - 1 \in S PROVE m \in S
    <3>1. PICK g : Is(g, m - 1)
      BY <2>2
    <3> DEFINE b == [n \in 0..m |-> IF n = m THEN E(g, m) ELSE g[n]]
    <3>2. \A n \in 0..m : b[n] = E(b, n)
      <4> SUFFICES ASSUME NEW n \in 0..m PROVE b[n] = E(b, n)
        OBVIOUS
      <4>1. n # 0 => n - 1 \in 0..m /\ n - 1 # m /\ b[n - 1] = g[n - 1]
        BY <1>1
      <4>2. E(b, n) = E(g, n)
        BY <4>1 DEF E
      <4>3. n # m => n \in 0..m - 1 /\ g[n] = E(g, n)
        BY <1>1, <3>1
      <4> QED BY <4>2, <4>3
    <3> HIDE DEF b
    <3>3. b = [n \in 0..m |-> b[n]]
      BY DEF b
    <3>4. Is(b, m)
      BY <3>2, <3>3
    <3> QED BY <1>1, <3>4
  <2> HIDE DEF S
  <2>3. 0..N \subseteq S
    BY <1>1, <2>1, <2>2, Climb
  <2> QED BY <1>1, <2>3 DEF S
<1>4. Is(turn, N)
  BY <1>3 DEF turn
<1>5. Turns(t, i, turn)
  BY <1>1, <1>4 DEF N, E, Turns
<1> QED BY <1>2, <1>5 DEF N

\* What is parsed, with n levels below it at most.
Result(r, n) == r.ok \in BOOLEAN /\ r.at \in Nat \ {0} /\ r.item \in Documents[n] /\ Nameless(r.item)
\* What was not read, and what was, are results.
LEMMA ResultsAre ==
  ASSUME NEW n \in 0..MaxNesting, NEW i \in Nat \ {0}
  PROVE  /\ Result(Fail(i), n) /\ ~Fail(i).ok
         /\ \A item : item \in Documents[n] /\ Nameless(item) => Result(Got(i, item), n)
         /\ \A item : Got(i, item).ok /\ Got(i, item).at = i /\ Got(i, item).item = item
<1>1. Plain0("null") \in Documents[n] /\ Nameless(Plain0("null"))
  BY LeavesAre
<1>2. Fail(i).at = i /\ Fail(i).item = Plain0("null") /\ ~Fail(i).ok /\ Fail(i).ok \in BOOLEAN
  BY DEF Fail
<1>3. \A item : Got(i, item).ok /\ Got(i, item).at = i /\ Got(i, item).item = item /\ Got(i, item).ok \in BOOLEAN
  BY DEF Got
<1> QED BY <1>1, <1>2, <1>3 DEF Result

\* A string, which goes forward.
LEMMA StringRead ==
  ASSUME NEW t \in Strings, NEW i \in Nat \ {0}, NEW n \in 0..MaxNesting, NEW r, r = parse_string(t, i)
  PROVE  Result(r, n) /\ r.item.valuestring \in Strings /\ i <= r.at /\ (r.ok => i < r.at)
<1>1. PICK turn : /\ Turns(t, i, turn)
                  /\ r = IF At(t, i) # "\"" THEN Fail(i)
                         ELSE IF Outside(t, turn[Len(t)].at) THEN Fail(turn[Len(t)].at)
                         ELSE Got(turn[Len(t)].at, cJSON_CreateString(turn[Len(t)].out))
  BY TextIs, TurnsExist
<1> DEFINE N == Len(t)
           V == {c \in {turn[m] : m \in 0..N} : IsTurn(c) /\ i + 1 <= c.at}
<1>2. Len(t) \in Nat /\ <<>> \in Strings
  BY TextIs DEF Strings
<1>3. turn[0] \in V
  <2>1. turn[0] = Copied(i + 1, <<>>)
    BY <1>1 DEF Turns
  <2>2. i + 1 \in Nat \ {0} /\ i + 1 <= i + 1
    OBVIOUS
  <2>3. IsTurn(turn[0]) /\ i + 1 <= turn[0].at
    BY <1>2, <2>1, <2>2, StatesAre DEF IsTurn
  <2> QED BY <1>2, <2>3
<1>4. ASSUME NEW m \in 1..N, turn[m - 1] \in V PROVE turn[m] \in V
  <2>1. IsTurn(turn[m - 1]) /\ i + 1 <= turn[m - 1].at
    BY <1>4
  <2>2. turn[m] = IF turn[m - 1].open THEN Unescaped(t, turn[m - 1].at, turn[m - 1].out) ELSE turn[m - 1]
    BY <1>1 DEF Turns
  <2>3. CASE turn[m - 1].open
    <3>1. IsTurn(turn[m]) /\ turn[m - 1].at <= turn[m].at
      BY <2>1, <2>2, <2>3, UnescapedIs DEF IsTurn
    <3>2. i + 1 <= turn[m].at
      BY <2>1, <3>1 DEF IsTurn
    <3> QED BY <1>2, <3>1, <3>2
  <2>4. CASE ~turn[m - 1].open
    BY <1>2, <2>1, <2>2, <2>4
  <2> QED BY <2>3, <2>4
<1>5. turn[Len(t)] \in V
  <2>1. N \in Nat /\ Len(t) \in 0..N
    BY <1>2
  <2> HIDE DEF V, N
  <2>2. \A m \in 0..N : turn[m] \in V
    BY <1>3, <1>4, <2>1, StaysIn
  <2> QED BY <2>1, <2>2
<1>6. IsTurn(turn[Len(t)]) /\ i + 1 <= turn[Len(t)].at
  BY <1>5
<1>7. ASSUME At(t, i) # "\"" \/ Outside(t, turn[Len(t)].at) PROVE Result(r, n) /\ r.item.valuestring \in Strings /\ i <= r.at /\ ~r.ok
  <2> HIDE DEF N, V
  <2>1. PICK a : r = Fail(a) /\ a \in Nat \ {0} /\ i <= a
    <3>1. turn[Len(t)].at \in Nat \ {0} /\ i <= turn[Len(t)].at
      BY <1>6 DEF IsTurn
    <3>2. r = Fail(i) \/ r = Fail(turn[Len(t)].at)
      BY <1>1, <1>7
    <3> QED BY <3>1, <3>2
  <2>2. Fail(a).at = a /\ Fail(a).item = Plain0("null") /\ Plain0("null").valuestring = <<>>
    <3>1. Plain0("null").valuestring = <<>>
      BY PartsAre DEF Plain0
    <3> QED BY <3>1 DEF Fail
  <2> QED BY <1>2, <2>1, <2>2, ResultsAre
<1>8. CASE At(t, i) = "\"" /\ ~Outside(t, turn[Len(t)].at)
  <2>1. PICK a, s : a = turn[Len(t)].at /\ s = turn[Len(t)].out
    OBVIOUS
  <2> HIDE DEF N, V
  <2>2. a \in Nat \ {0} /\ s \in Strings /\ i < a
    BY <1>6, <2>1 DEF IsTurn
  <2>4. r = Got(a, cJSON_CreateString(s))
    BY <1>1, <1>8, <2>1
  <2>3. r.at = a /\ r.item = cJSON_CreateString(s) /\ cJSON_CreateString(s).valuestring = s
    BY <2>4, PartsAre DEF Got, cJSON_CreateString
  <2> QED BY <2>2, <2>3, <2>4, ResultsAre, LeavesAre
<1> QED BY <1>7, <1>8

\* The values one level below one with n levels below it, if there is one.
Below(t, n, values) ==
  \A i \in 1..Len(t) + 1 :
    /\ values[i].ok \in BOOLEAN /\ values[i].at \in Nat \ {0}
    /\ n = 0 => Result(values[i], 0) /\ ~values[i].ok
    /\ n # 0 => Result(values[i], n - 1)

\* How far a container of this type has come.
Building(c, n, type) == Result(c.r, n) /\ c.more \in BOOLEAN /\ (c.more => c.r.item.type = type)
\* A container goes on as it is, or is over with a result.
LEMMA BuildingIs ==
  ASSUME NEW n, NEW type, NEW r, Result(r, n)
  PROVE  Building(Over(r), n, type) /\ (r.item.type = type => Building(Another(r), n, type))
BY DEF Building, Over, Another

\* A member or an element more is a document, as the others.
LEMMA MemberIs ==
  ASSUME NEW t \in Strings, NEW n \in 0..MaxNesting, NEW values, Below(t, n, values),
         NEW type \in {"array", "object"}, NEW r, Result(r, n), r.item.type = type,
         NEW close, NEW c, c = Member(t, r, close, values)
  PROVE  Building(c, n, type)
<1> DEFINE named == type = "object"
           name  == parse_string(t, skip(t, r.at))
           colon == skip(t, name.at)
           start == skip(t, IF named THEN colon + 1 ELSE r.at)
           value == values[start]
           next  == skip(t, value.at)
           child == Named(value.item, IF named THEN name.item.valuestring ELSE <<>>)
           whole == Joined(r, next + 1, child)
<1>0. Len(t) \in Nat /\ 1..Len(t) + 1 \subseteq Nat \ {0}
  BY TextIs
<1>1. r.at \in Nat \ {0}
  BY DEF Result
<1>2. skip(t, r.at) \in Nat \ {0}
  BY <1>0, <1>1, SkipIs
<1>3. Result(name, n) /\ name.item.valuestring \in Strings /\ name.at \in Nat \ {0}
  BY <1>2, StringRead DEF Result
<1>4. colon \in Nat \ {0}
  <2>1. colon \in 1..Len(t) + 1
    BY <1>3, SkipIs
  <2> QED BY <1>0, <2>1
<1>5. start \in 1..Len(t) + 1
  <2>1. (IF named THEN colon + 1 ELSE r.at) \in Nat \ {0}
    BY <1>1, <1>4
  <2> QED BY <2>1, SkipIs
<1>6. value.at \in Nat \ {0} /\ value.ok \in BOOLEAN /\ (n = 0 => Result(value, 0) /\ ~value.ok)
      /\ (n # 0 => Result(value, n - 1))
  BY <1>5 DEF Below
<1>7. next \in Nat \ {0} /\ next + 1 \in Nat \ {0}
  <2>1. value.at \in Nat \ {0}
    BY <1>6
  <2> HIDE DEF value
  <2>2. next \in 1..Len(t) + 1
    BY <2>1, SkipIs
  <2> HIDE DEF next
  <2> QED BY <1>0, <2>2
<1> HIDE DEF name, colon, start, value, next
<1>8. Result(value, n)
  <2>1. CASE n = 0
    BY <1>6, <2>1
  <2>2. CASE n # 0
    <3>1. n \in 1..MaxNesting
      BY <2>2, JsonAssumption
    <3> QED BY <1>6, <2>2, <3>1, DocumentsGrow DEF Result
  <2> QED BY <2>1, <2>2
<1>9. value.ok => Result(whole, n) /\ whole.item.type = type
  <2> SUFFICES ASSUME value.ok PROVE Result(whole, n) /\ whole.item.type = type
    OBVIOUS
  <2>1. n \in 1..MaxNesting /\ Result(value, n - 1) /\ n - 1 \in 0..MaxNesting
    BY <1>6, JsonAssumption
  <2>2. child \in Documents[n - 1] /\ (type = "array" => Nameless(child))
    <3>1. <<>> \in Strings
      BY DEF Strings
    <3>2. type # "object" => Named(value.item, <<>>) = value.item
      BY <2>1 DEF Result, Nameless
    <3> QED BY <1>3, <2>1, <3>1, <3>2, RenamedIs DEF Result
  <2>3. r.item \in Documents[n] /\ Nameless(r.item)
    BY DEF Result
  <2>4. r.item.child \in Seq(Documents[n - 1]) /\ Shaped(r.item) /\ IsItem(r.item)
    BY <2>1, <2>3, DocumentIs DEF Children
  <2>5. type = "array" => \A i \in DOMAIN r.item.child : Nameless(r.item.child[i])
    BY <2>4 DEF Shaped
  <2> HIDE DEF child
  <2> DEFINE more == Append(r.item.child, child)
  <2>6. more \in Seq(Documents[n - 1])
    <3>1. \A D : \A f \in Seq(D), x \in D : Append(f, x) \in Seq(D)
      OBVIOUS
    <3> QED BY <2>2, <2>4, <3>1
  <2>7. type = "array" => \A i \in DOMAIN more : Nameless(more[i])
    BY <2>2, <2>4, <2>5
  <2> HIDE DEF more
  <2>8. Holds(r.item, more)
    BY <2>7 DEF Holds
  <2>9. Filled(r.item, more) \in Documents[n] /\ Nameless(Filled(r.item, more))
    BY <2>1, <2>3, <2>6, <2>8, FilledIs
  <2>10. Filled(r.item, more).type = type
    <3>1. PICK a, b, x, d, e : r.item = Item(a, b, x, d, e)
      BY <2>4 DEF IsItem
    <3>2. Filled(r.item, more) = Item(a, b, x, d, more) /\ a = type
      BY <3>1, ExceptIs, PartsAre
    <3> QED BY <3>2, PartsAre
  <2>11. whole = Got(next + 1, Filled(r.item, more))
    BY DEF more, Joined
  <2> HIDE DEF whole
  <2> QED BY <1>7, <2>9, <2>10, <2>11, ResultsAre
<1> HIDE DEF child, whole
<1>10. \/ c = Over(name) \/ c = Over(Fail(colon)) \/ c = Over(value)
       \/ value.ok /\ c = Another(whole)
       \/ value.ok /\ c = Over(whole)
       \/ c = Over(Fail(next))
  <2> DEFINE behind == IF At(t, next) = "," THEN Another(whole)
                       ELSE Over(IF At(t, next) = close THEN whole ELSE Fail(next))
  <2>1. Element(t, r, close, value, IF named THEN name.item.valuestring ELSE <<>>) =
          IF ~value.ok THEN Over(value) ELSE behind
    BY DEF Element, Continued, whole, child, next
  <2>2. CASE named
    <3>1. start = skip(t, colon + 1) /\ (IF named THEN name.item.valuestring ELSE <<>>) = name.item.valuestring
      BY <2>2 DEF start
    <3>2. c = NamedElement(t, r, close, values, name)
      BY <2>2 DEF Member, name
    <3> HIDE DEF named, behind
    <3>3. c = IF ~name.ok THEN Over(name) ELSE IF At(t, colon) # ":" THEN Over(Fail(colon))
              ELSE IF ~value.ok THEN Over(value) ELSE behind
      BY <2>1, <3>1, <3>2 DEF NamedElement, colon, value
    <3> QED BY <3>3 DEF behind
  <2>3. CASE ~named
    <3>1. start = skip(t, r.at) /\ (IF named THEN name.item.valuestring ELSE <<>>) = <<>>
      BY <2>3 DEF start
    <3>2. c = Element(t, r, close, value, <<>>)
      BY <2>3, <3>1 DEF Member, value
    <3> HIDE DEF named, behind
    <3>3. c = IF ~value.ok THEN Over(value) ELSE behind
      BY <2>1, <3>1, <3>2
    <3> QED BY <3>3 DEF behind
  <2> QED BY <2>2, <2>3
<1>11. Result(Fail(colon), n) /\ Result(Fail(next), n)
  BY <1>4, <1>7, ResultsAre
<1> QED BY <1>3, <1>8, <1>9, <1>10, <1>11, BuildingIs

\* The turns of Members.
Grows(t, i, type, close, values, turn) ==
  /\ turn[0] = Another(Got(i, Plain0(type)))
  /\ \A n \in 1..Len(t) :
       turn[n] = IF turn[n - 1].more THEN Member(t, turn[n - 1].r, close, values) ELSE turn[n - 1]
\* Members takes these turns.
LEMMA GrowsExist ==
  ASSUME NEW t, Len(t) \in Nat, NEW i, NEW type, NEW close, NEW values
  PROVE  \E turn : Grows(t, i, type, close, values, turn) /\ Members(t, i, type, close, values) = turn[Len(t)].r
<1> DEFINE N == Len(t)
           E(g, n) == IF n = 0 THEN Another(Got(i, Plain0(type)))
                      ELSE IF g[n - 1].more THEN Member(t, g[n - 1].r, close, values) ELSE g[n - 1]
           Is(g, m) == g = [n \in 0..m |-> E(g, n)]
           S == {m \in 0..N : \E g : Is(g, m)}
           turn == CHOOSE g : Is(g, N)
<1>1. N \in Nat
  OBVIOUS
<1>2. Members(t, i, type, close, values) = turn[N].r
  BY DEF Members
<1> HIDE DEF N, E, turn
<1>3. \E g : Is(g, N)
  <2>1. 0 \in S
    <3> DEFINE g == [n \in 0..0 |-> E(n, 0)]
    <3>1. \A n \in 0..0 : g[n] = E(g, n)
      BY DEF E
    <3> QED BY <1>1, <3>1
  <2>2. ASSUME NEW m \in 1..N, m - 1 \in S PROVE m \in S
    <3>1. PICK g : Is(g, m - 1)
      BY <2>2
    <3> DEFINE b == [n \in 0..m |-> IF n = m THEN E(g, m) ELSE g[n]]
    <3>2. \A n \in 0..m : b[n] = E(b, n)
      <4> SUFFICES ASSUME NEW n \in 0..m PROVE b[n] = E(b, n)
        OBVIOUS
      <4>1. n # 0 => n - 1 \in 0..m /\ n - 1 # m /\ b[n - 1] = g[n - 1]
        BY <1>1
      <4>2. E(b, n) = E(g, n)
        BY <4>1 DEF E
      <4>3. n # m => n \in 0..m - 1 /\ g[n] = E(g, n)
        BY <1>1, <3>1
      <4> QED BY <4>2, <4>3
    <3> HIDE DEF b
    <3>3. b = [n \in 0..m |-> b[n]]
      BY DEF b
    <3>4. Is(b, m)
      BY <3>2, <3>3
    <3> QED BY <1>1, <3>4
  <2> HIDE DEF S
  <2>3. 0..N \subseteq S
    BY <1>1, <2>1, <2>2, Climb
  <2> QED BY <1>1, <2>3 DEF S
<1>4. Is(turn, N)
  BY <1>3 DEF turn
<1>5. Grows(t, i, type, close, values, turn)
  BY <1>1, <1>4 DEF N, E, Grows
<1> QED BY <1>2, <1>5 DEF N

\* A container is a document.
LEMMA ContainerIs ==
  ASSUME NEW t \in Strings, NEW n \in 0..MaxNesting, NEW values, Below(t, n, values),
         NEW type \in {"array", "object"}, NEW i \in Nat \ {0}, NEW close
  PROVE  Result(Container(t, i, type, close, values), n)
<1> DEFINE first == skip(t, i + 1)
<1>1. Len(t) \in Nat /\ first \in Nat \ {0} /\ first + 1 \in Nat \ {0}
  <2>1. i + 1 \in Nat \ {0}
    OBVIOUS
  <2> QED BY <2>1, TextIs, SkipIs
<1> HIDE DEF first
<1>2. Plain0(type) \in Documents[n] /\ Nameless(Plain0(type)) /\ Plain0(type).type = type
  BY LeavesAre, PartsAre DEF Plain0
<1>3. Result(Got(first + 1, Plain0(type)), n) /\ Result(Got(first, Plain0(type)), n)
      /\ Got(first, Plain0(type)).item.type = type
  BY <1>1, <1>2, ResultsAre
<1>4. PICK turn : /\ Grows(t, first, type, close, values, turn)
                  /\ Members(t, first, type, close, values) = turn[Len(t)].r
  BY TextIs, GrowsExist
<1> DEFINE N == Len(t)
           S == {m \in 0..N : Building(turn[m], n, type)}
<1>5. N \in Nat
  BY <1>1
<1>6. 0 \in S
  <2>1. Building(Another(Got(first, Plain0(type))), n, type)
    BY <1>3, BuildingIs
  <2> QED BY <1>4, <1>5, <2>1 DEF Grows
<1>7. ASSUME NEW m \in 1..N, m - 1 \in S PROVE m \in S
  <2>1. turn[m] = IF turn[m - 1].more THEN Member(t, turn[m - 1].r, close, values) ELSE turn[m - 1]
    BY <1>4 DEF Grows
  <2>2. Building(turn[m - 1], n, type)
    BY <1>7
  <2>3. turn[m - 1].more => Building(Member(t, turn[m - 1].r, close, values), n, type)
    <3> DEFINE r == turn[m - 1].r
    <3> SUFFICES ASSUME turn[m - 1].more PROVE Building(Member(t, r, close, values), n, type)
      OBVIOUS
    <3>1. Result(r, n) /\ r.item.type = type
      BY <2>2 DEF Building
    <3> HIDE DEF r, S, N
    <3> QED BY <3>1, MemberIs
  <2>4. Building(turn[m], n, type)
    BY <2>1, <2>2, <2>3 DEF Building
  <2> QED BY <1>5, <2>4
<1> HIDE DEF S
<1>8. N \in S
  <2>1. 0..N \subseteq S
    BY <1>5, <1>6, <1>7, Climb
  <2> QED BY <1>5, <2>1
<1>9. Result(Members(t, first, type, close, values), n)
  BY <1>4, <1>8 DEF S, N, Building
<1> QED BY <1>3, <1>9 DEF Container, first

\* A value with n levels below it at most, if those of one less are as they should be.
LEMMA ValueIs ==
  ASSUME NEW t \in Strings, NEW n \in 0..MaxNesting, NEW values, Below(t, n, values), NEW i \in 1..Len(t) + 1
  PROVE  Result(Value(t, i, values), n)
<1>1. i \in Nat \ {0} /\ i + 1 \in Nat \ {0}
  BY TextIs
<1>2. Result(Fail(i), n) /\ Result(parse_string(t, i), n)
  BY <1>1, ResultsAre, StringRead
<1>3. Result(parse_array(t, i, values), n) /\ Result(parse_object(t, i, values), n)
  BY <1>1, ContainerIs DEF parse_array, parse_object
<1>4. ASSUME NEW type \in {"null", "false", "true"} PROVE Result(Got(i + 1, Plain0(type)), n)
  <2>1. Plain0(type) \in Documents[n] /\ Nameless(Plain0(type))
    BY LeavesAre
  <2> QED BY <1>1, <2>1, ResultsAre
<1>5. At(t, i) \in DOMAIN Parsed => Result(parse_number(t, i), n)
  <2> SUFFICES ASSUME At(t, i) \in DOMAIN Parsed PROVE Result(parse_number(t, i), n)
    OBVIOUS
  <2>1. At(t, i) # NoToken
    BY JsonAssumption
  <2>2. At(t, i) = t[i]
    BY <1>1, <2>1, TextIs
  <2>3. Parsed[t[i]] \in Numbers
    BY <2>2 DEF Numbers
  <2>4. cJSON_CreateNumber(Parsed[t[i]]) \in Documents[n] /\ Nameless(cJSON_CreateNumber(Parsed[t[i]]))
    BY <2>3, LeavesAre
  <2> QED BY <1>1, <2>4, ResultsAre DEF parse_number
<1>6. At(t, i) \in {"null", "false", "true"} => t[i] = At(t, i)
  <2>1. NoToken \notin {"null", "false", "true"}
    BY Zenon DEF NoToken
  <2> QED BY <1>1, <2>1, TextIs
<1>7. \/ At(t, i) \in {"null", "false", "true"} /\ Value(t, i, values) = Got(i + 1, Plain0(t[i]))
      \/ Value(t, i, values) = parse_string(t, i)
      \/ At(t, i) \in DOMAIN Parsed /\ Value(t, i, values) = parse_number(t, i)
      \/ Value(t, i, values) = parse_array(t, i, values)
      \/ Value(t, i, values) = parse_object(t, i, values)
      \/ Value(t, i, values) = Fail(i)
  BY DEF Value
<1> QED BY <1>2, <1>3, <1>4, <1>5, <1>6, <1>7

\* The values at each level.
Levels(t, v) ==
  \A n \in 0..MaxNesting, i \in 1..Len(t) + 1 :
    v[n][i] = Value(t, i, IF n = 0 THEN [j \in 1..Len(t) + 1 |-> Fail(j)] ELSE v[n - 1])
\* parse_value has these levels.
LEMMA LevelsExist ==
  ASSUME NEW t
  PROVE  \E v : Levels(t, v) /\ parse_value(t) = v[MaxNesting]
<1> DEFINE N == MaxNesting
           P == 1..Len(t) + 1
           E(g, n) == [i \in P |-> Value(t, i, IF n = 0 THEN [j \in P |-> Fail(j)] ELSE g[n - 1])]
           Is(g, m) == g = [n \in 0..m |-> E(g, n)]
           S == {m \in 0..N : \E g : Is(g, m)}
           v == CHOOSE g : Is(g, N)
<1>1. N \in Nat
  BY JsonAssumption
<1>2. parse_value(t) = v[N]
  BY DEF parse_value
<1> HIDE DEF N, E, v, P
<1>3. \E g : Is(g, N)
  <2>1. 0 \in S
    <3> DEFINE g == [n \in 0..0 |-> E(n, 0)]
    <3>1. \A n \in 0..0 : g[n] = E(g, n)
      BY DEF E
    <3> QED BY <1>1, <3>1
  <2>2. ASSUME NEW m \in 1..N, m - 1 \in S PROVE m \in S
    <3>1. PICK g : Is(g, m - 1)
      BY <2>2
    <3> DEFINE b == [n \in 0..m |-> IF n = m THEN E(g, m) ELSE g[n]]
    <3>2. \A n \in 0..m : b[n] = E(b, n)
      <4> SUFFICES ASSUME NEW n \in 0..m PROVE b[n] = E(b, n)
        OBVIOUS
      <4>1. n # 0 => n - 1 \in 0..m /\ n - 1 # m /\ b[n - 1] = g[n - 1]
        BY <1>1
      <4>2. E(b, n) = E(g, n)
        BY <4>1 DEF E
      <4>3. n # m => n \in 0..m - 1 /\ g[n] = E(g, n)
        BY <1>1, <3>1
      <4> QED BY <4>2, <4>3
    <3> HIDE DEF b
    <3>3. b = [n \in 0..m |-> b[n]]
      BY DEF b
    <3>4. Is(b, m)
      BY <3>2, <3>3
    <3> QED BY <1>1, <3>4
  <2> HIDE DEF S
  <2>3. 0..N \subseteq S
    BY <1>1, <2>1, <2>2, Climb
  <2> QED BY <1>1, <2>3 DEF S
<1>4. Is(v, N)
  BY <1>3 DEF v
<1>5. Levels(t, v)
  <2>1. \A n \in 0..N : v[n] = E(v, n)
    BY <1>1, <1>4
  <2>2. \A n \in 0..N, i \in P : v[n][i] = Value(t, i, IF n = 0 THEN [j \in P |-> Fail(j)] ELSE v[n - 1])
    BY <2>1 DEF E
  <2> QED BY <2>2 DEF N, P, Levels
<1> QED BY <1>2, <1>5 DEF N

\* What is parsed is a document without a name.
LEMMA ParsedIs ==
  ASSUME NEW t \in Strings, NEW require, NEW r, r = cJSON_ParseWithOpts(t, require)
  PROVE  Result(r, MaxNesting)
<1>1. PICK v : Levels(t, v) /\ parse_value(t) = v[MaxNesting]
  BY LevelsExist
<1> DEFINE N == MaxNesting
           P == 1..Len(t) + 1
           S == {n \in 0..N : \A i \in P : Result(v[n][i], n)}
<1>2. N \in Nat /\ N \in 0..N
  BY JsonAssumption
<1>3. Len(t) \in Nat /\ \A i \in P : i \in Nat \ {0}
  BY TextIs
<1>4. 0 \in S
  <2> DEFINE f == [j \in P |-> Fail(j)]
  <2>1. 0 \in 0..MaxNesting
    BY <1>2
  <2>2. ASSUME NEW i \in P PROVE Result(f[i], 0) /\ ~f[i].ok
    <3>1. f[i] = Fail(i) /\ i \in Nat \ {0}
      BY <1>3
    <3> HIDE DEF f
    <3> QED BY <2>1, <3>1, ResultsAre
  <2> HIDE DEF f
  <2>3. Below(t, 0, f)
    BY <2>2 DEF Below, Result
  <2>4. \A i \in P : v[0][i] = Value(t, i, f)
    BY <1>1, <2>1 DEF Levels, f
  <2>5. \A i \in P : Result(v[0][i], 0)
    BY <2>1, <2>3, <2>4, ValueIs
  <2> QED BY <1>2, <2>5
<1>5. ASSUME NEW n \in 1..N, n - 1 \in S PROVE n \in S
  <2>1. n \in 0..MaxNesting /\ n # 0
    BY <1>2
  <2>2. \A i \in P : Result(v[n - 1][i], n - 1)
    BY <1>5
  <2>3. Below(t, n, v[n - 1])
    BY <2>1, <2>2 DEF Below, Result
  <2>4. \A i \in P : v[n][i] = Value(t, i, v[n - 1])
    BY <1>1, <2>1 DEF Levels
  <2>5. \A i \in P : Result(v[n][i], n)
    BY <2>1, <2>3, <2>4, ValueIs
  <2> QED BY <1>2, <2>1, <2>5
<1>6. \A i \in P : Result(parse_value(t)[i], MaxNesting)
  <2> HIDE DEF S
  <2>1. 0..N \subseteq S
    BY <1>2, <1>4, <1>5, Climb
  <2> QED BY <1>1, <1>2, <2>1 DEF S, N
<1> DEFINE p == parse_value(t)[skip(t, 1)]
<1>7. skip(t, 1) \in P
  BY SkipIs
<1>8. Result(p, MaxNesting)
  BY <1>6, <1>7
<1>9. skip(t, p.at) \in Nat \ {0}
  <2>1. p.at \in Nat \ {0}
    BY <1>8 DEF Result
  <2> HIDE DEF p
  <2> QED BY <1>3, <2>1, SkipIs
<1>10. Result(Fail(skip(t, p.at)), MaxNesting)
  BY <1>2, <1>9, ResultsAre
<1>11. r = p \/ r = Fail(skip(t, p.at))
  <2> HIDE DEF P
  <2>1. r = IF p.ok /\ require /\ skip(t, p.at) <= Len(t) THEN Fail(skip(t, p.at)) ELSE p
    BY DEF cJSON_ParseWithOpts, Terminated
  <2> HIDE DEF p
  <2> QED BY <2>1
<1> QED BY <1>8, <1>10, <1>11

\* One turn of cJSON_Minify goes forward.
LEMMA BaredIs ==
  ASSUME NEW t \in Strings, NEW i \in Nat \ {0}, NEW out \in Strings, NEW c, c = Bared(t, i, out)
  PROVE  IsTurn(c)
<1>1. /\ Len(t) \in Nat /\ \A j \in 1..Len(t) : t[j] \in Tokens
      /\ At(t, i) # NoToken => i \in 1..Len(t)
  BY TextIs
<1>2. \A x : \A none \in Nat \ {0} : Behind1(t, i, x, none) \in Nat \ {0}
  <2> SUFFICES ASSUME NEW x, NEW none \in Nat \ {0} PROVE Behind1(t, i, x, none) \in Nat \ {0}
    OBVIOUS
  <2> DEFINE T == {j \in i..Len(t) : t[j] = x}
  <2>1. T # {} => Min(T) \in T
    <3> SUFFICES ASSUME T # {} PROVE Min(T) \in T
      OBVIOUS
    <3>1. T \subseteq Nat
      OBVIOUS
    <3> HIDE DEF T
    <3>2. PICK m \in T : \A j \in T : m <= j
      BY <3>1, Least
    <3> QED BY <3>2 DEF Min
  <2>2. Behind1(t, i, x, none) = IF T = {} THEN none ELSE Min(T) + 1
    BY DEF Behind1
  <2>3. T # {} => Min(T) + 1 \in Nat \ {0}
    BY <2>1
  <2> HIDE DEF T
  <2> QED BY <1>1, <2>2, <2>3
<1> DEFINE quote == BehindString(t, i)
           last == Min({quote - 1, Len(t)})
<1>3. quote \in Nat \ {0} /\ last \in 0..Len(t)
  <2>1. quote \in Nat \ {0}
    <3>1. 0 \in 0..MaxNesting
      BY JsonAssumption
    <3>2. Append(t, "\"") \in Strings
      <4> DEFINE x == "\""
      <4>1. x \in Tokens
        BY QuoteAssumption
      <4> HIDE DEF x
      <4>2. Append(t, x) \in Strings
        BY <4>1 DEF Strings
      <4> QED BY <4>2 DEF x
    <3>3. parse_string(Append(t, "\""), i).at \in Nat \ {0}
      BY <3>1, <3>2, StringRead DEF Result
    <3> QED BY <3>3 DEF BehindString
  <2>2. \A a, b \in Nat : Min({a, b}) \in Nat /\ Min({a, b}) <= b
    <3> SUFFICES ASSUME NEW a \in Nat, NEW b \in Nat
                 PROVE  Min({a, b}) \in Nat /\ Min({a, b}) <= b
      OBVIOUS
    <3>1. \E m \in {a, b} : \A j \in {a, b} : m <= j
      OBVIOUS
    <3>2. Min({a, b}) \in {a, b} /\ \A j \in {a, b} : Min({a, b}) <= j
      BY <3>1 DEF Min
    <3> QED BY <3>2
  <2> HIDE DEF quote
  <2>3. quote - 1 \in Nat
    BY <2>1
  <2> QED BY <1>1, <2>1, <2>2, <2>3
<1> HIDE DEF quote, last
<1>4. i \in 1..Len(t) => out \o SubSeq(t, i, last) \in Strings /\ Append(out, t[i]) \in Strings
  <2> SUFFICES ASSUME i \in 1..Len(t)
               PROVE  out \o SubSeq(t, i, last) \in Strings /\ Append(out, t[i]) \in Strings
    OBVIOUS
  <2>1. SubSeq(t, i, last) \in Seq(Tokens)
    <3>1. last \in 0..Len(t)
      BY <1>1, <1>3
    <3>2. t \in Seq(Tokens) /\ i \in Nat /\ i >= 1
      BY DEF Strings
    <3>3. \A j \in i..last : j \in 1..Len(t)
      BY <1>1, <3>1
    <3> QED BY <1>3, <3>1, <3>2, <3>3
  <2>2. \A a, b \in Seq(Tokens) : a \o b \in Seq(Tokens)
    OBVIOUS
  <2>3. \A a \in Seq(Tokens), x \in Tokens : Append(a, x) \in Seq(Tokens)
    OBVIOUS
  <2> QED BY <1>1, <2>1, <2>2, <2>3 DEF Strings
<1>5. \/ c = Closed(i, out) \/ c = Copied(i + 1, out)
      \/ c = Copied(Behind1(t, i, "\n", Len(t) + 1), out) \/ c = Copied(Behind1(t, i, "*/", Len(t) + 2), out)
      \/ i \in 1..Len(t) /\ c = Copied(quote, out \o SubSeq(t, i, last))
      \/ i \in 1..Len(t) /\ c = Copied(i + 1, Append(out, t[i]))
  BY <1>1 DEF Bared, quote, last
<1>6. i + 1 \in Nat \ {0} /\ Len(t) + 1 \in Nat \ {0} /\ Len(t) + 2 \in Nat \ {0}
  BY <1>1
<1> QED BY <1>2, <1>3, <1>4, <1>5, <1>6, StatesAre DEF IsTurn

\* The turns of cJSON_Minify.
Bares(t, turn) ==
  /\ turn[0] = Copied(1, <<>>)
  /\ \A n \in 1..Len(t) :
       turn[n] = IF turn[n - 1].open THEN Bared(t, turn[n - 1].at, turn[n - 1].out) ELSE turn[n - 1]
\* cJSON_Minify takes these turns.
LEMMA BaresExist ==
  ASSUME NEW t, Len(t) \in Nat
  PROVE  \E turn : Bares(t, turn) /\ cJSON_Minify(t) = turn[Len(t)].out
<1> DEFINE N == Len(t)
           Turn(c) == IF c.open THEN Bared(t, c.at, c.out) ELSE c
           E(g, n) == IF n = 0 THEN Copied(1, <<>>) ELSE Turn(g[n - 1])
           Is(g, m) == g = [n \in 0..m |-> E(g, n)]
           S == {m \in 0..N : \E g : Is(g, m)}
           turn == CHOOSE g : Is(g, N)
<1>1. N \in Nat
  OBVIOUS
<1>2. cJSON_Minify(t) = turn[N].out
  BY DEF cJSON_Minify, Minified
<1> HIDE DEF N, E, turn
<1>3. \E g : Is(g, N)
  <2>1. 0 \in S
    <3> DEFINE g == [n \in 0..0 |-> E(n, 0)]
    <3>1. \A n \in 0..0 : g[n] = E(g, n)
      BY DEF E
    <3> QED BY <1>1, <3>1
  <2>2. ASSUME NEW m \in 1..N, m - 1 \in S PROVE m \in S
    <3>1. PICK g : Is(g, m - 1)
      BY <2>2
    <3> DEFINE b == [n \in 0..m |-> IF n = m THEN E(g, m) ELSE g[n]]
    <3>2. \A n \in 0..m : b[n] = E(b, n)
      <4> SUFFICES ASSUME NEW n \in 0..m PROVE b[n] = E(b, n)
        OBVIOUS
      <4>1. n # 0 => n - 1 \in 0..m /\ n - 1 # m /\ b[n - 1] = g[n - 1]
        BY <1>1
      <4>2. E(b, n) = E(g, n)
        BY <4>1 DEF E
      <4>3. n # m => n \in 0..m - 1 /\ g[n] = E(g, n)
        BY <1>1, <3>1
      <4> QED BY <4>2, <4>3
    <3> HIDE DEF b
    <3>3. b = [n \in 0..m |-> b[n]]
      BY DEF b
    <3>4. Is(b, m)
      BY <3>2, <3>3
    <3> QED BY <1>1, <3>4
  <2> HIDE DEF S
  <2>3. 0..N \subseteq S
    BY <1>1, <2>1, <2>2, Climb
  <2> QED BY <1>1, <2>3 DEF S
<1>4. Is(turn, N)
  BY <1>3 DEF turn
<1>5. Bares(t, turn)
  BY <1>1, <1>4 DEF N, E, Bares
<1> QED BY <1>2, <1>5 DEF N

\* What is left of a text is one.
LEMMA MinifiedIs ==
  ASSUME NEW t \in Strings
  PROVE  cJSON_Minify(t) \in Strings
<1>1. PICK turn : Bares(t, turn) /\ cJSON_Minify(t) = turn[Len(t)].out
  BY TextIs, BaresExist
<1> DEFINE N == Len(t)
           S == {n \in 0..N : IsTurn(turn[n])}
<1>2. N \in Nat /\ <<>> \in Strings
  BY TextIs DEF Strings
<1>3. 0 \in S
  <2>1. turn[0] = Copied(1, <<>>)
    BY <1>1 DEF Bares
  <2>2. IsTurn(turn[0])
    BY <1>2, <2>1, StatesAre DEF IsTurn
  <2> QED BY <1>2, <2>2
<1>4. ASSUME NEW n \in 1..N, n - 1 \in S PROVE n \in S
  <2>1. turn[n] = IF turn[n - 1].open THEN Bared(t, turn[n - 1].at, turn[n - 1].out) ELSE turn[n - 1]
    BY <1>1 DEF Bares
  <2>2. IsTurn(turn[n - 1])
    BY <1>4
  <2>3. IsTurn(Bared(t, turn[n - 1].at, turn[n - 1].out))
    BY <2>2, BaredIs DEF IsTurn
  <2>4. IsTurn(turn[n])
    BY <2>1, <2>2, <2>3
  <2> QED BY <1>2, <2>4
<1> HIDE DEF S
<1>5. N \in S
  <2>1. 0..N \subseteq S
    BY <1>2, <1>3, <1>4, Climb
  <2> QED BY <1>2, <2>1
<1> QED BY <1>1, <1>5 DEF S, N, IsTurn

(***************************************************************************)
(* Editing.                                                                *)
(***************************************************************************)
\* Copies of the items of each level.
Copies(c) ==
  \A n \in 0..MaxNesting : \A x \in Documents[n] :
    c[n][x] = Filled(x, [i \in DOMAIN x.child |-> c[n - 1][x.child[i]]])
\* cJSON_Duplicate copies level by level.
LEMMA CopiesExist ==
  \E c : Copies(c) /\ \A item : cJSON_Duplicate(item, TRUE) = c[MaxNesting][item]
<1> DEFINE N == MaxNesting
           E(g, n) == [x \in Documents[n] |-> Filled(x, [i \in DOMAIN x.child |-> g[n - 1][x.child[i]]])]
           Is(g, m) == g = [n \in 0..m |-> E(g, n)]
           S == {m \in 0..N : \E g : Is(g, m)}
           c == CHOOSE g : Is(g, N)
<1>1. N \in Nat
  BY JsonAssumption
<1>2. \A item : cJSON_Duplicate(item, TRUE) = c[N][item]
  BY DEF cJSON_Duplicate
<1>0. \A g, h : E(g, 0) = E(h, 0)
  <2> SUFFICES ASSUME NEW g, NEW h, NEW x \in Documents[0]
               PROVE  [i \in DOMAIN x.child |-> g[0 - 1][x.child[i]]] = [i \in DOMAIN x.child |-> h[0 - 1][x.child[i]]]
    OBVIOUS
  <2>1. x.child = <<>>
    BY DocumentIs, <1>1 DEF Children
  <2> QED BY <2>1
<1> HIDE DEF N, E, c
<1>3. \E g : Is(g, N)
  <2>1. 0 \in S
    <3> DEFINE g == [n \in 0..0 |-> E(n, n)]
    <3>0. g[0] = E(0, 0)
      OBVIOUS
    <3>1. \A n \in 0..0 : g[n] = E(g, n)
      <4> HIDE DEF g
      <4> QED BY <1>0, <3>0
    <3> QED BY <1>1, <3>1
  <2>2. ASSUME NEW m \in 1..N, m - 1 \in S PROVE m \in S
    <3>1. PICK g : Is(g, m - 1)
      BY <2>2
    <3> DEFINE b == [n \in 0..m |-> IF n = m THEN E(g, m) ELSE g[n]]
    <3>2. \A n \in 0..m : b[n] = E(b, n)
      <4> SUFFICES ASSUME NEW n \in 0..m PROVE b[n] = E(b, n)
        OBVIOUS
      <4>1. n # 0 => n - 1 \in 0..m /\ n - 1 # m /\ b[n - 1] = g[n - 1]
        BY <1>1
      <4>2. E(b, n) = E(g, n)
        <5>1. n = 0 => E(b, n) = E(g, n)
          BY <1>0
        <5>2. n # 0 => E(b, n) = E(g, n)
          BY <4>1 DEF E
        <5> QED BY <5>1, <5>2
      <4>3. n # m => n \in 0..m - 1 /\ g[n] = E(g, n)
        BY <1>1, <3>1
      <4> QED BY <4>2, <4>3
    <3> HIDE DEF b
    <3>3. b = [n \in 0..m |-> b[n]]
      BY DEF b
    <3>4. Is(b, m)
      BY <3>2, <3>3
    <3> QED BY <1>1, <3>4
  <2> HIDE DEF S
  <2>3. 0..N \subseteq S
    BY <1>1, <2>1, <2>2, Climb
  <2> QED BY <1>1, <2>3 DEF S
<1>4. Is(c, N)
  BY <1>3 DEF c
<1>5. Copies(c)
  <2>1. \A n \in 0..N : c[n] = E(c, n)
    BY <1>1, <1>4
  <2> QED BY <2>1 DEF E, N, Copies
<1> QED BY <1>2, <1>5 DEF N
\* A copy with all its levels is the item itself.
LEMMA CopyIs ==
  ASSUME NEW item \in Documents[MaxNesting]
  PROVE  cJSON_Duplicate(item, TRUE) = item
<1>1. PICK c : Copies(c) /\ cJSON_Duplicate(item, TRUE) = c[MaxNesting][item]
  BY CopiesExist
<1> DEFINE N == MaxNesting
           S == {n \in 0..N : \A x \in Documents[n] : c[n][x] = x}
<1>2. N \in Nat
  BY JsonAssumption
<1>3. \A x : IsItem(x) => Filled(x, x.child) = x
  BY DEF IsItem, Item, Filled
<1>4. 0 \in S
  <2> SUFFICES ASSUME NEW x \in Documents[0] PROVE c[0][x] = x
    BY <1>2
  <2>1. IsItem(x) /\ x.child = <<>>
    BY <1>2, DocumentIs DEF Children
  <2>2. c[0][x] = Filled(x, [i \in DOMAIN x.child |-> c[0 - 1][x.child[i]]])
    BY <1>1, <1>2 DEF Copies
  <2>3. [i \in DOMAIN x.child |-> c[0 - 1][x.child[i]]] = x.child
    BY <2>1
  <2> QED BY <1>3, <2>1, <2>2, <2>3
<1>5. ASSUME NEW n \in 1..N, n - 1 \in S PROVE n \in S
  <2> SUFFICES ASSUME NEW x \in Documents[n] PROVE c[n][x] = x
    BY <1>2
  <2>1. n \in 0..N /\ n # 0
    BY <1>2
  <2>2. IsItem(x) /\ x.child \in Seq(Documents[n - 1])
    BY <2>1, DocumentIs DEF Children
  <2>3. c[n][x] = Filled(x, [i \in DOMAIN x.child |-> c[n - 1][x.child[i]]])
    BY <1>1, <2>1 DEF Copies
  <2>4. \A i \in DOMAIN x.child : c[n - 1][x.child[i]] = x.child[i]
    BY <1>5, <2>2
  <2>5. [i \in DOMAIN x.child |-> c[n - 1][x.child[i]]] = x.child
    BY <2>2, <2>4
  <2> QED BY <1>3, <2>2, <2>3, <2>5
<1> HIDE DEF S
<1>6. N \in S
  <2>1. 0..N \subseteq S
    BY <1>2, <1>4, <1>5, Climb
  <2> QED BY <1>2, <2>1
<1> QED BY <1>1, <1>6 DEF S, N

\* What an array or an object with n levels below it may have in it.
Elements(n, type) == {item \in Documents[n - 1] : type = "array" => Nameless(item)}
\* Children are elements, and with other elements as children an item is still a document.
LEMMA ElementsAre ==
  ASSUME NEW n \in 1..MaxNesting, NEW item \in Documents[n], item.type \in {"array", "object"}
  PROVE  /\ item.child \in Seq(Elements(n, item.type))
         /\ \A c \in Seq(Elements(n, item.type)) :
              Filled(item, c) \in Documents[n] /\ (Nameless(item) => Nameless(Filled(item, c)))
<1> DEFINE D == Elements(n, item.type)
<1>1. n \in 0..MaxNesting /\ n # 0
  BY JsonAssumption
<1>2. item.child \in Seq(Documents[n - 1]) /\ Shaped(item)
  BY <1>1, DocumentIs DEF Children
<1>3. item.type = "array" => \A i \in DOMAIN item.child : Nameless(item.child[i])
  BY <1>2 DEF Shaped
<1>4. \A i \in 1..Len(item.child) : item.child[i] \in D
  BY <1>2, <1>3 DEF Elements
<1>5. item.child \in Seq(D)
  <2> HIDE DEF D
  <2> QED BY <1>2, <1>4
<1>6. ASSUME NEW c \in Seq(D)
      PROVE  Filled(item, c) \in Documents[n] /\ (Nameless(item) => Nameless(Filled(item, c)))
  <2>1. \A i \in 1..Len(c) : c[i] \in Documents[n - 1] /\ (item.type = "array" => Nameless(c[i]))
    <3>1. \A i \in 1..Len(c) : c[i] \in D
      OBVIOUS
    <3> QED BY <3>1 DEF Elements
  <2> HIDE DEF D
  <2>2. c \in Seq(Documents[n - 1]) /\ Holds(item, c)
    BY <2>1 DEF Holds
  <2> QED BY <2>2, FilledIs
<1> QED BY <1>5, <1>6

\* What edits of a sequence leave is one of the same elements.
LEMMA EditedIs ==
  ASSUME NEW S, NEW q \in Seq(S), NEW x \in S
  PROVE  /\ Append(q, x) \in Seq(S)
         /\ \A k \in 1..Len(q) : /\ RemoveAt(q, k) \in Seq(S) /\ InsertAt(q, k, x) \in Seq(S)
                                 /\ ReplaceAt(q, k, x) \in Seq(S)
<1>1. ASSUME NEW k \in 1..Len(q) PROVE InsertAt(q, k, x) \in Seq(S)
  <2>1. SubSeq(q, 1, k - 1) \in Seq(S)
    BY SubSeqProperties
  <2>2. SubSeq(q, k, Len(q)) \in Seq(S)
    BY SubSeqProperties
  <2>3. <<x>> \in Seq(S) /\ \A a, b \in Seq(S) : a \o b \in Seq(S)
    OBVIOUS
  <2> QED BY <2>1, <2>2, <2>3 DEF InsertAt
<1>2. ASSUME NEW k \in 1..Len(q) PROVE ReplaceAt(q, k, x) \in Seq(S)
  BY DEF ReplaceAt
<1>3. \A k \in 1..Len(q) : RemoveAt(q, k) \in Seq(S)
  BY RemoveAtFacts
<1> QED BY <1>1, <1>2, <1>3

\* A document without a name, the type invariant of Json.
JsonInv == doc \in Documents[MaxNesting] /\ Nameless(doc)
JsonSpec == JsonInit /\ [][JsonStep]_jsonVars

\* The place of a name is one of a child or the one behind.
LEMMA PlaceIs ==
  ASSUME NEW S, NEW object, object.child \in Seq(S), NEW name
  PROVE  Place(object, name) \in 1..Len(object.child) + 1
<1> DEFINE T == {i \in DOMAIN object.child : cJSON_strcasecmp(object.child[i].string, name)}
<1>1. DOMAIN object.child = 1..Len(object.child) /\ Len(object.child) \in Nat
  OBVIOUS
<1>2. T # {} => Min(T) \in 1..Len(object.child)
  <2> SUFFICES ASSUME T # {} PROVE Min(T) \in 1..Len(object.child)
    OBVIOUS
  <2>1. T \subseteq 1..Len(object.child) /\ T \subseteq Nat
    BY <1>1
  <2> HIDE DEF T
  <2>2. PICK m \in T : \A j \in T : m <= j
    BY <2>1, Least
  <2>3. Min(T) \in T
    BY <2>2 DEF Min
  <2> QED BY <2>1, <2>3
<1>3. Place(object, name) = IF T = {} THEN Len(object.child) + 1 ELSE Min(T)
  BY DEF Place, cJSON_GetArraySize
<1> HIDE DEF T
<1> QED BY <1>1, <1>2, <1>3

\* Every edit of a document, with an item one level below it or the removal of one, leaves a document.
LEMMA EditsAre ==
  ASSUME JsonInv, doc.type \in {"array", "object"}, NEW item \in Elements(MaxNesting, doc.type), NEW d,
         \/ d = cJSON_AddItemToArray(doc, item)
         \/ \E which \in 1..Len(doc.child) + 1 :
              \/ d = cJSON_InsertItemInArray(doc, which, item)
              \/ d = cJSON_ReplaceItemInArray(doc, which, item)
              \/ d = cJSON_DeleteItemFromArray(doc, which)
  PROVE  d \in Documents[MaxNesting] /\ Nameless(d)
<1> DEFINE D == Elements(MaxNesting, doc.type)
<1>1. MaxNesting \in 1..MaxNesting
  BY JsonAssumption
<1>2. doc.child \in Seq(D) /\ \A c \in Seq(D) : Filled(doc, c) \in Documents[MaxNesting] /\ Nameless(Filled(doc, c))
  BY <1>1, ElementsAre DEF JsonInv
<1> HIDE DEF D
<1>3. item \in D
  BY DEF D
<1>4. Append(doc.child, item) \in Seq(D)
  BY <1>2, <1>3, EditedIs
<1>5. \A k \in 1..Len(doc.child) :
        /\ RemoveAt(doc.child, k) \in Seq(D) /\ InsertAt(doc.child, k, item) \in Seq(D)
        /\ ReplaceAt(doc.child, k, item) \in Seq(D)
  BY <1>2, <1>3, EditedIs
<1>6. Len(doc.child) \in Nat
  BY <1>2
<1>7. CASE d = cJSON_AddItemToArray(doc, item)
  BY <1>2, <1>4, <1>7 DEF cJSON_AddItemToArray
<1>8. ASSUME NEW which \in 1..Len(doc.child) + 1,
             \/ d = cJSON_InsertItemInArray(doc, which, item)
             \/ d = cJSON_ReplaceItemInArray(doc, which, item)
             \/ d = cJSON_DeleteItemFromArray(doc, which)
      PROVE  d \in Documents[MaxNesting] /\ Nameless(d)
  <2>1. CASE which > Len(doc.child)
    BY <1>2, <1>4, <1>8, <2>1 DEF cJSON_InsertItemInArray, cJSON_ReplaceItemInArray, cJSON_DeleteItemFromArray,
       cJSON_AddItemToArray, cJSON_GetArraySize, JsonInv
  <2>2. CASE which \in 1..Len(doc.child)
    <3>1. ~(which > Len(doc.child))
      BY <1>6, <2>2
    <3>2. \/ d = Filled(doc, InsertAt(doc.child, which, item))
          \/ d = Filled(doc, ReplaceAt(doc.child, which, item))
          \/ d = Filled(doc, RemoveAt(doc.child, which))
      BY <1>8, <3>1 DEF cJSON_InsertItemInArray, cJSON_ReplaceItemInArray, cJSON_DeleteItemFromArray,
         cJSON_GetArraySize
    <3> QED BY <1>2, <1>5, <2>2, <3>2
  <2> QED BY <1>6, <2>1, <2>2
<1> QED BY <1>7, <1>8

\* So does what is found behind the end of a text.
LEMMA OutsideIs ==
  ASSUME JsonInv, ReadOutside
  PROVE  JsonInv'
<1>1. MaxNesting \in 1..MaxNesting
  BY JsonAssumption
<1>2. \A item \in Items : item \in Documents[MaxNesting] /\ Nameless(item)
  BY <1>1, JsonAssumption, DocumentsGrow
<1> QED BY <1>2 DEF ReadOutside, JsonInv

\* Reading leaves a document.
LEMMA ReadIs ==
  ASSUME JsonInv, NEW t \in Strings, Read(t)
  PROVE  JsonInv'
<1>1. Result(cJSON_Parse(t), MaxNesting)
  BY ParsedIs DEF cJSON_Parse
<1>2. doc' = cJSON_Parse(t).item \/ doc' = doc \/ ReadOutside
  BY DEF Read
<1> QED BY <1>1, <1>2, OutsideIs DEF Result, JsonInv

\* A document that becomes a part of another leaves one.
LEMMA WrapIs ==
  ASSUME JsonInv, NEW recurse \in BOOLEAN, NEW name \in Strings, Wrap(recurse, name)
  PROVE  JsonInv'
<1> DEFINE copy == cJSON_Duplicate(doc, recurse)
           N == MaxNesting
<1>1. N \in 1..N /\ N \in 0..N /\ N - 1 \in 0..N /\ N \in Nat \ {0}
  BY JsonAssumption
<1>2. doc \in Documents[N - 1] /\ doc \in Documents[N] /\ Nameless(doc)
  BY DEF JsonInv, Wrap
<1>3. copy \in Documents[N - 1] /\ Nameless(copy)
  <2>1. CASE recurse = TRUE
    BY <1>2, <2>1, CopyIs
  <2>2. CASE recurse = FALSE
    <3>1. copy = Filled(doc, <<>>)
      BY <2>2 DEF cJSON_Duplicate
    <3>2. IsItem(doc) /\ Shaped(doc) /\ Children(doc, N - 1)
      BY <1>1, <1>2, DocumentIs
    <3>3. CASE doc.child = <<>>
      <4>1. Filled(doc, <<>>) = doc
        BY <3>2, <3>3 DEF IsItem, Item, Filled
      <4> QED BY <1>2, <3>1, <4>1
    <3>4. CASE doc.child # <<>>
      <4>1. doc.type \in {"array", "object"}
        <5>1. ASSUME doc.type \notin {"array", "object"} PROVE FALSE
          <6>1. \/ Named(doc, <<>>) = cJSON_CreateNumber(doc.valuedouble)
                \/ Named(doc, <<>>) = cJSON_CreateString(doc.valuestring)
                \/ Named(doc, <<>>) = Plain0(doc.type)
            BY <3>2, <5>1 DEF Shaped
          <6>2. Named(doc, <<>>) = doc
            BY <1>2 DEF Nameless
          <6>3. doc.child = <<>>
            BY <6>1, <6>2, PartsAre DEF cJSON_CreateNumber, cJSON_CreateString, Plain0
          <6> QED BY <3>4, <6>3
        <5> QED BY <5>1
      <4>2. N - 1 \in 1..N
        BY <1>1, <3>2, <3>4 DEF Children
      <4>3. <<>> \in Seq(Elements(N - 1, doc.type))
        OBVIOUS
      <4> HIDE DEF N
      <4>4. Filled(doc, <<>>) \in Documents[N - 1] /\ Nameless(Filled(doc, <<>>))
        BY <1>2, <4>1, <4>2, <4>3, ElementsAre DEF N
      <4> QED BY <3>1, <4>4
    <3> QED BY <3>3, <3>4
  <2> QED BY <2>1, <2>2
<1>4. ASSUME NEW type \in {"array", "object"}, NEW x \in Elements(N, type)
      PROVE  LET d == cJSON_AddItemToArray(Plain0(type), x) IN d \in Documents[N] /\ Nameless(d)
  <2>1. Plain0(type) \in Documents[N] /\ Nameless(Plain0(type)) /\ Plain0(type).type = type
        /\ Plain0(type).child = <<>>
    BY <1>1, LeavesAre, PartsAre DEF Plain0
  <2>2. \A c \in Seq(Elements(N, type)) : Filled(Plain0(type), c) \in Documents[N] /\ Nameless(Filled(Plain0(type), c))
    BY <1>1, <2>1, ElementsAre
  <2>3. Append(<<>>, x) \in Seq(Elements(N, type))
    OBVIOUS
  <2> QED BY <2>1, <2>2, <2>3 DEF cJSON_AddItemToArray
<1>5. doc' \in {cJSON_AddItemToObject(cJSON_CreateObject, name, copy), cJSON_AddItemToArray(cJSON_CreateArray, copy)}
  BY DEF Wrap
<1> HIDE DEF copy
<1>6. Named(copy, name) \in Elements(N, "object") /\ copy \in Elements(N, "array")
  BY <1>1, <1>3, RenamedIs DEF Elements
<1> QED BY <1>4, <1>5, <1>6 DEF cJSON_AddItemToObject, cJSON_CreateObject, cJSON_CreateArray, JsonInv

\* What a program works with is always a document without a name: items of the right parts, an
\* array's without names, no deeper than it can be read.
THEOREM JsonTypes == JsonSpec => []JsonInv
<1>1. MaxNesting \in 0..MaxNesting /\ MaxNesting \in 1..MaxNesting /\ MaxNesting - 1 \in 0..MaxNesting
  BY JsonAssumption
<1>2. JsonInit => JsonInv
  BY <1>1, LeavesAre DEF JsonInit, JsonInv, cJSON_CreateObject
<1>3. ASSUME JsonInv, [JsonStep]_jsonVars PROVE JsonInv'
  <2>1. CASE UNCHANGED jsonVars
    BY <1>3, <2>1 DEF JsonInv, jsonVars
  <2>2. ASSUME NEW t \in Texts, Read(t) \/ ReadMinified(t) PROVE JsonInv'
    <3>1. t \in Strings
      BY JsonAssumption
    <3>2. cJSON_Minify(t) \in Strings
      BY <3>1, MinifiedIs
    <3>3. Read(t) \/ Read(cJSON_Minify(t)) \/ ReadOutside
      BY <2>2 DEF ReadMinified
    <3> QED BY <1>3, <3>1, <3>2, <3>3, ReadIs, OutsideIs
  <2>3. ASSUME NEW item \in Items, EditArray(item) PROVE JsonInv'
    <3>1. doc.type \in {"array", "object"} /\ doc.type = "array"
      BY <2>3 DEF EditArray
    <3>2. item \in Elements(MaxNesting, doc.type)
      BY JsonAssumption DEF Elements
    <3>3. \/ doc' = cJSON_AddItemToArray(doc, item)
          \/ \E which \in 1..Len(doc.child) + 1 :
               \/ doc' = cJSON_InsertItemInArray(doc, which, item)
               \/ doc' = cJSON_ReplaceItemInArray(doc, which, item)
               \/ doc' = cJSON_DeleteItemFromArray(doc, which)
      BY <2>3 DEF EditArray, cJSON_GetArraySize
    <3>4. doc' \in Documents[MaxNesting] /\ Nameless(doc')
      BY <1>3, <3>1, <3>2, <3>3, EditsAre
    <3> QED BY <3>4 DEF JsonInv
  <2>4. ASSUME NEW item \in Items, NEW name \in Names, EditObject(item, name) PROVE JsonInv'
    <3> DEFINE x == Named(item, name)
               which == Place(doc, name)
    <3>1. doc.type \in {"array", "object"} /\ doc.type = "object"
      BY <2>4 DEF EditObject
    <3>2. x \in Elements(MaxNesting, doc.type)
      <4>1. item \in Documents[MaxNesting - 1] /\ name \in Strings
        BY JsonAssumption
      <4>2. x \in Documents[MaxNesting - 1]
        BY <1>1, <4>1, RenamedIs
      <4> HIDE DEF x
      <4> QED BY <3>1, <4>2 DEF Elements
    <3>3. which \in 1..Len(doc.child) + 1
      <4>1. doc.child \in Seq(Elements(MaxNesting, doc.type))
        BY <1>1, <1>3, <3>1, ElementsAre DEF JsonInv
      <4> QED BY <4>1, PlaceIs
    <3>4. \/ doc' = cJSON_AddItemToArray(doc, x)
          \/ doc' = cJSON_ReplaceItemInArray(doc, which, x)
          \/ doc' = cJSON_DeleteItemFromArray(doc, which)
      BY <2>4 DEF EditObject, cJSON_AddItemToObject, cJSON_ReplaceItemInObject, cJSON_DeleteItemFromObject
    <3> HIDE DEF x, which
    <3>5. doc' \in Documents[MaxNesting] /\ Nameless(doc')
      BY <1>3, <3>1, <3>2, <3>3, <3>4, EditsAre
    <3> QED BY <3>5 DEF JsonInv
  <2>5. ASSUME NEW name \in Names, NEW recurse \in BOOLEAN, Wrap(recurse, name) PROVE JsonInv'
    <3>1. name \in Strings
      BY JsonAssumption
    <3> QED BY <1>3, <2>5, <3>1, WrapIs
  <2> QED BY <1>3, <2>1, <2>2, <2>3, <2>4, <2>5 DEF JsonStep
<1> QED BY <1>2, <1>3, PTL DEF JsonSpec

(***************************************************************************)
(* Sums.                                                                   *)
(***************************************************************************)
\* The sums of the first numbers.
Sums(a, s) == s[0] = 0 /\ \A n \in 1..Len(a) : s[n] = s[n - 1] + a[n]
\* Total is the last of these sums.
LEMMA SumsExist ==
  ASSUME NEW a \in Seq(Int)
  PROVE  \E s : Sums(a, s) /\ Total(a) = s[Len(a)] /\ \A n \in 0..Len(a) : s[n] \in Int
<1> DEFINE N == Len(a)
           E(g, n) == IF n = 0 THEN 0 ELSE g[n - 1] + a[n]
           Is(g, m) == g = [n \in 0..m |-> E(g, n)]
           S == {m \in 0..N : \E g : Is(g, m)}
           sum == CHOOSE g : Is(g, N)
<1>1. N \in Nat
  OBVIOUS
<1>2. Total(a) = sum[N]
  BY DEF Total
<1> HIDE DEF N, E, sum
<1>3. \E g : Is(g, N)
  <2>1. 0 \in S
    <3> DEFINE g == [n \in 0..0 |-> E(n, 0)]
    <3>1. \A n \in 0..0 : g[n] = E(g, n)
      BY DEF E
    <3> QED BY <1>1, <3>1
  <2>2. ASSUME NEW m \in 1..N, m - 1 \in S PROVE m \in S
    <3>1. PICK g : Is(g, m - 1)
      BY <2>2
    <3> DEFINE b == [n \in 0..m |-> IF n = m THEN E(g, m) ELSE g[n]]
    <3>2. \A n \in 0..m : b[n] = E(b, n)
      <4> SUFFICES ASSUME NEW n \in 0..m PROVE b[n] = E(b, n)
        OBVIOUS
      <4>1. n # 0 => n - 1 \in 0..m /\ n - 1 # m /\ b[n - 1] = g[n - 1]
        BY <1>1
      <4>2. E(b, n) = E(g, n)
        BY <4>1 DEF E
      <4>3. n # m => n \in 0..m - 1 /\ g[n] = E(g, n)
        <5> SUFFICES ASSUME n # m PROVE n \in 0..m - 1 /\ g[n] = E(g, n)
          OBVIOUS
        <5>1. n \in 0..m - 1
          BY <1>1
        <5> HIDE DEF S
        <5> QED BY <3>1, <5>1
      <4> QED BY <4>2, <4>3
    <3> HIDE DEF b
    <3>3. b = [n \in 0..m |-> b[n]]
      BY DEF b
    <3>4. Is(b, m)
      BY <3>2, <3>3
    <3> QED BY <1>1, <3>4
  <2> HIDE DEF S
  <2>3. 0..N \subseteq S
    BY <1>1, <2>1, <2>2, Climb
  <2> QED BY <1>1, <2>3 DEF S
<1>4. Is(sum, N)
  BY <1>3 DEF sum
<1>5. Sums(a, sum)
  BY <1>1, <1>4 DEF N, E, Sums
<1> DEFINE T == {n \in 0..N : sum[n] \in Int}
<1>6. 0..N \subseteq T
  <2>1. 0 \in T
    BY <1>1, <1>5 DEF Sums
  <2>2. ASSUME NEW n \in 1..N, n - 1 \in T PROVE n \in T
    <3>1. sum[n] = sum[n - 1] + a[n] /\ a[n] \in Int
      BY <1>5 DEF Sums, N
    <3> QED BY <1>1, <2>2, <3>1
  <2> HIDE DEF T
  <2> QED BY <1>1, <2>1, <2>2, Climb
<1> QED BY <1>2, <1>5, <1>6 DEF N

\* A sum of numbers, of none, and of one more.
LEMMA TotalIs ==
  /\ \A a \in Seq(Int) : Total(a) \in Int
  /\ Total(<<>>) = 0
  /\ \A a \in Seq(Int), x \in Int : Total(Append(a, x)) = Total(a) + x
<1>1. \A a \in Seq(Int) : Total(a) \in Int
  BY SumsExist
<1>2. Total(<<>>) = 0
  <2>1. <<>> \in Seq(Int) /\ Len(<<>>) = 0
    OBVIOUS
  <2> QED BY <2>1, SumsExist DEF Sums
<1>3. ASSUME NEW a \in Seq(Int), NEW x \in Int PROVE Total(Append(a, x)) = Total(a) + x
  <2> DEFINE b == Append(a, x)
             N == Len(a)
  <2>1. b \in Seq(Int) /\ N \in Nat /\ Len(b) = N + 1 /\ b[N + 1] = x /\ \A n \in 1..N : b[n] = a[n]
    OBVIOUS
  <2> HIDE DEF b
  <2>2. PICK s : Sums(a, s) /\ Total(a) = s[N] /\ \A n \in 0..N : s[n] \in Int
    BY SumsExist
  <2>3. PICK r : Sums(b, r) /\ Total(b) = r[N + 1]
    BY <2>1, SumsExist
  <2> HIDE DEF N
  <2> DEFINE T == {n \in 0..N : r[n] = s[n]}
  <2>4. 0 \in T
    BY <2>1, <2>2, <2>3 DEF Sums
  <2>5. ASSUME NEW n \in 1..N, n - 1 \in T PROVE n \in T
    <3>1. r[n] = r[n - 1] + b[n] /\ s[n] = s[n - 1] + a[n]
      BY SMTT(30), <2>1, <2>2, <2>3 DEF Sums, N
    <3> QED BY <2>1, <2>5, <3>1
  <2> HIDE DEF T
  <2>6. N \in T
    <3>1. 0..N \subseteq T
      BY <2>1, <2>4, <2>5, Climb
    <3> QED BY <2>1, <3>1
  <2>7. r[N + 1] = r[N] + b[N + 1]
    <3>1. N + 1 \in 1..Len(b) /\ (N + 1) - 1 = N
      BY <2>1
    <3> QED BY <2>3, <3>1 DEF Sums
  <2> QED BY <2>1, <2>2, <2>3, <2>6, <2>7 DEF T, b
<1> QED BY <1>1, <1>2, <1>3

\* Sums of as many numbers, each at most the other.
LEMMA TotalGrows ==
  ASSUME NEW a \in Seq(Int), NEW b \in Seq(Int), Len(a) = Len(b), \A n \in 1..Len(a) : a[n] <= b[n]
  PROVE  Total(a) <= Total(b)
<1> DEFINE N == Len(a)
<1>1. PICK s : Sums(a, s) /\ Total(a) = s[N] /\ \A n \in 0..N : s[n] \in Int
  BY SumsExist
<1>2. PICK r : Sums(b, r) /\ Total(b) = r[N] /\ \A n \in 0..N : r[n] \in Int
  BY SumsExist
<1> DEFINE T == {n \in 0..N : s[n] <= r[n]}
<1>3. N \in Nat
  OBVIOUS
<1>4. 0 \in T
  BY <1>1, <1>2, <1>3 DEF Sums
<1>5. ASSUME NEW n \in 1..N, n - 1 \in T PROVE n \in T
  <2>1. r[n] = r[n - 1] + b[n] /\ s[n] = s[n - 1] + a[n] /\ a[n] <= b[n] /\ a[n] \in Int /\ b[n] \in Int
    BY <1>1, <1>2 DEF Sums
  <2>2. n - 1 \in 0..N /\ s[n - 1] <= r[n - 1]
    BY <1>5
  <2>3. s[n - 1] \in Int /\ r[n - 1] \in Int
    BY <1>1, <1>2, <2>2
  <2>4. \A x, y, u, v \in Int : x <= y /\ u <= v => x + u <= y + v
    OBVIOUS
  <2>5. s[n] <= r[n]
    BY <2>1, <2>2, <2>3, <2>4
  <2> QED BY <1>3, <2>5
<1> HIDE DEF T
<1>6. N \in T
  <2>1. 0..N \subseteq T
    BY <1>3, <1>4, <1>5, Climb
  <2> QED BY <1>3, <2>1
<1> QED BY <1>1, <1>2, <1>6 DEF T

\* A sum of sums.
LEMMA TotalAdds ==
  ASSUME NEW a \in Seq(Int), NEW b \in Seq(Int), NEW c \in Seq(Int), Len(a) = Len(c), Len(b) = Len(c),
         \A n \in 1..Len(c) : c[n] = a[n] + b[n]
  PROVE  Total(c) = Total(a) + Total(b)
<1> DEFINE N == Len(c)
<1>1. PICK s : Sums(a, s) /\ Total(a) = s[N] /\ \A n \in 0..N : s[n] \in Int
  BY SumsExist
<1>2. PICK r : Sums(b, r) /\ Total(b) = r[N] /\ \A n \in 0..N : r[n] \in Int
  BY SumsExist
<1>3. PICK q : Sums(c, q) /\ Total(c) = q[N] /\ \A n \in 0..N : q[n] \in Int
  BY SumsExist
<1> DEFINE T == {n \in 0..N : q[n] = s[n] + r[n]}
<1>4. N \in Nat
  OBVIOUS
<1>5. 0 \in T
  BY <1>1, <1>2, <1>3, <1>4 DEF Sums
<1>6. ASSUME NEW n \in 1..N, n - 1 \in T PROVE n \in T
  <2>1. r[n] = r[n - 1] + b[n] /\ s[n] = s[n - 1] + a[n] /\ q[n] = q[n - 1] + c[n]
    BY <1>1, <1>2, <1>3 DEF Sums
  <2>2. n - 1 \in 0..N /\ q[n - 1] = s[n - 1] + r[n - 1] /\ a[n] \in Int /\ b[n] \in Int
        /\ s[n - 1] \in Int /\ r[n - 1] \in Int
    BY <1>1, <1>2, <1>6
  <2>3. \A x, y, u, v \in Int : (x + y) + (u + v) = (x + u) + (y + v)
    OBVIOUS
  <2>4. (s[n - 1] + r[n - 1]) + (a[n] + b[n]) = (s[n - 1] + a[n]) + (r[n - 1] + b[n])
    <3> HIDE DEF N
    <3> QED BY SMTT(30), <2>2, <2>3
  <2>5. c[n] = a[n] + b[n]
    OBVIOUS
  <2>6. q[n] = s[n] + r[n]
    BY <2>1, <2>2, <2>4, <2>5
  <2> QED BY <1>4, <2>6
<1> HIDE DEF T
<1>7. N \in T
  <2>1. 0..N \subseteq T
    BY <1>4, <1>5, <1>6, Climb
  <2> QED BY <1>4, <2>1
<1> QED BY <1>1, <1>2, <1>3, <1>7 DEF T

\* The sum of two sequences in a row.
LEMMA TotalJoins ==
  ASSUME NEW a \in Seq(Int), NEW b \in Seq(Int)
  PROVE  Total(a \o b) = Total(a) + Total(b)
<1> DEFINE c == a \o b
           M == Len(a)
           N == Len(b)
<1>1. /\ c \in Seq(Int) /\ M \in Nat /\ N \in Nat /\ Len(c) = M + N
      /\ \A n \in 1..M : c[n] = a[n]
      /\ \A n \in 1..N : c[M + n] = b[n]
  OBVIOUS
<1> HIDE DEF c
<1>2. PICK s : Sums(a, s) /\ Total(a) = s[M] /\ \A n \in 0..M : s[n] \in Int
  BY SumsExist
<1>3. PICK r : Sums(b, r) /\ Total(b) = r[N] /\ \A n \in 0..N : r[n] \in Int
  BY SumsExist
<1>4. PICK q : Sums(c, q) /\ Total(c) = q[M + N]
  BY <1>1, SumsExist
<1> DEFINE S == {n \in 0..M : q[n] = s[n]}
           T == {n \in 0..N : q[M + n] = s[M] + r[n]}
<1>5. 0..M \subseteq S
  <2>1. 0 \in S
    BY <1>1, <1>2, <1>4 DEF Sums
  <2>2. ASSUME NEW n \in 1..M, n - 1 \in S PROVE n \in S
    <3>1. n \in 1..Len(c)
      BY <1>1
    <3>2. q[n] = q[n - 1] + c[n] /\ s[n] = s[n - 1] + a[n]
      BY <1>2, <1>4, <3>1 DEF Sums
    <3> QED BY <1>1, <2>2, <3>2
  <2> HIDE DEF S, M
  <2> QED BY <1>1, <2>1, <2>2, Climb
<1>6. q[M] = s[M] /\ s[M] \in Int
  BY <1>1, <1>2, <1>5
<1>7. 0..N \subseteq T
  <2>1. 0 \in T
    <3>1. r[0] = 0 /\ M + 0 = M /\ s[M] + 0 = s[M]
      BY <1>1, <1>3, <1>6 DEF Sums
    <3> QED BY <1>1, <1>6, <3>1
  <2>2. ASSUME NEW n \in 1..N, n - 1 \in T PROVE n \in T
    <3>1. M + n \in 1..Len(c) /\ (M + n) - 1 = M + (n - 1) /\ c[M + n] = b[n]
      BY SMTT(30), <1>1
    <3>2. q[M + n] = q[M + (n - 1)] + b[n] /\ r[n] = r[n - 1] + b[n]
      <4>1. q[M + n] = q[(M + n) - 1] + c[M + n]
        BY <1>4, <3>1 DEF Sums
      <4>2. r[n] = r[n - 1] + b[n]
        BY <1>3 DEF Sums
      <4> QED BY <3>1, <4>1, <4>2
    <3>3. q[M + (n - 1)] = s[M] + r[n - 1] /\ r[n - 1] \in Int /\ b[n] \in Int
      <4>1. n - 1 \in 0..N
        BY <1>1
      <4> QED BY <1>3, <2>2, <4>1
    <3>4. \A x, y, z \in Int : (x + y) + z = x + (y + z)
      OBVIOUS
    <3>5. q[M + n] = s[M] + r[n]
      BY <1>6, <3>2, <3>3, <3>4
    <3> QED BY <1>1, <3>5
  <2> HIDE DEF T, N
  <2> QED BY <1>1, <2>1, <2>2, Climb
<1>8. q[M + N] = s[M] + r[N]
  <2>1. N \in 0..N
    BY <1>1
  <2> QED BY <1>7, <2>1
<1> QED BY <1>2, <1>3, <1>4, <1>8 DEF c

(***************************************************************************)
(* Printing.                                                               *)
(***************************************************************************)
\* What texts are printed of.
Spellings == Tokens \cup Marks \cup Types \cup {Controls[c] : c \in DOMAIN Controls} \cup {print_number(v) : v \in Numbers}
Written == Seq(Spellings)
\* Each has a length.
LEMMA SpellingsAre == \A x \in Spellings : Len(x) \in Nat
<1>1. \A v \in Numbers : Len(print_number(v)) \in Nat
  <2> SUFFICES ASSUME NEW v \in Numbers PROVE Len(print_number(v)) \in Nat
    OBVIOUS
  <2>1. NumberRoom(v) \in Nat
    BY DEF NumberRoom
  <2> QED BY <2>1, JsonAssumption
<1>2. \A x \in Tokens \cup Types : Len(x) \in Nat
  BY JsonAssumption
<1>3. \A x \in Marks : Len(x) \in Nat
  BY JsonAssumption
<1>4. \A c \in DOMAIN Controls : Len(Controls[c]) \in Nat
  BY JsonAssumption
<1> QED BY <1>1, <1>2, <1>3, <1>4 DEF Spellings

\* The bytes of each token.
Lengths(t) == [i \in DOMAIN t |-> Len(t[i])]
\* The bytes of a text, of none, of one token, and of two texts in a row.
LEMMA BytesAre ==
  /\ \A t \in Written : Bytes(t) \in Int /\ Lengths(t) \in Seq(Int) /\ Len(Lengths(t)) = Len(t)
  /\ <<>> \in Written /\ Bytes(<<>>) = 0
  /\ \A x \in Spellings : <<x>> \in Written /\ Bytes(<<x>>) = Len(x)
  /\ \A a, b \in Written : a \o b \in Written /\ Bytes(a \o b) = Bytes(a) + Bytes(b)
<1>1. ASSUME NEW t \in Written PROVE Lengths(t) \in Seq(Int) /\ Len(Lengths(t)) = Len(t)
  <2>1. \A i \in 1..Len(t) : Len(t[i]) \in Int
    BY SpellingsAre DEF Written
  <2>2. Lengths(t) = [i \in 1..Len(t) |-> Len(t[i])] /\ Len(t) \in Nat
    BY DEF Lengths, Written
  <2> QED BY <2>1, <2>2
<1>2. \A t \in Written : Bytes(t) = Total(Lengths(t))
  BY DEF Bytes, Lengths
<1>3. <<>> \in Written /\ Bytes(<<>>) = 0
  <2>1. Lengths(<<>>) = <<>>
    BY DEF Lengths
  <2>2. <<>> \in Written
    BY DEF Written
  <2> QED BY <1>2, <2>1, <2>2, TotalIs
<1>4. ASSUME NEW x \in Spellings PROVE <<x>> \in Written /\ Bytes(<<x>>) = Len(x)
  <2>1. <<x>> \in Written
    BY DEF Written
  <2>2. Lengths(<<x>>) = Append(<<>>, Len(x))
    BY DEF Lengths
  <2>3. Len(x) \in Int /\ <<>> \in Seq(Int)
    BY SpellingsAre
  <2>4. Total(Append(<<>>, Len(x))) = 0 + Len(x)
    BY <2>3, TotalIs
  <2> QED BY <1>2, <2>1, <2>2, <2>3, <2>4
<1>5. ASSUME NEW a \in Written, NEW b \in Written PROVE a \o b \in Written /\ Bytes(a \o b) = Bytes(a) + Bytes(b)
  <2>1. a \o b \in Written
    BY DEF Written
  <2>2. Lengths(a \o b) = Lengths(a) \o Lengths(b)
    <3>1. /\ DOMAIN (a \o b) = 1..Len(a) + Len(b) /\ Len(a) \in Nat /\ Len(b) \in Nat
          /\ \A i \in 1..Len(a) + Len(b) : (a \o b)[i] = IF i <= Len(a) THEN a[i] ELSE b[i - Len(a)]
      BY DEF Written
    <3>2. /\ DOMAIN (Lengths(a) \o Lengths(b)) = 1..Len(a) + Len(b)
          /\ \A i \in 1..Len(a) + Len(b) :
               (Lengths(a) \o Lengths(b))[i] = IF i <= Len(a) THEN Lengths(a)[i] ELSE Lengths(b)[i - Len(a)]
          /\ Lengths(a) \o Lengths(b) \in Seq(Int)
      <4> DEFINE p == Lengths(a)
                 q == Lengths(b)
      <4>1. p \in Seq(Int) /\ q \in Seq(Int) /\ Len(p) = Len(a) /\ Len(q) = Len(b)
        BY <1>1
      <4> HIDE DEF p, q
      <4>2. /\ DOMAIN (p \o q) = 1..Len(p) + Len(q) /\ p \o q \in Seq(Int)
            /\ \A i \in 1..Len(p) + Len(q) : (p \o q)[i] = IF i <= Len(p) THEN p[i] ELSE q[i - Len(p)]
        <5>1. /\ p \o q \in Seq(Int) /\ Len(p \o q) = Len(p) + Len(q)
              /\ \A i \in 1..Len(p) + Len(q) : (p \o q)[i] = IF i <= Len(p) THEN p[i] ELSE q[i - Len(p)]
          BY <4>1, ConcatProperties
        <5>2. DOMAIN (p \o q) = 1..Len(p \o q)
          BY <5>1, LenProperties
        <5> QED BY <5>1, <5>2
      <4> QED BY <4>1, <4>2 DEF p, q
    <3>3. \A i \in 1..Len(a) + Len(b) : Len((a \o b)[i]) = (Lengths(a) \o Lengths(b))[i]
      <4> SUFFICES ASSUME NEW i \in 1..Len(a) + Len(b) PROVE Len((a \o b)[i]) = (Lengths(a) \o Lengths(b))[i]
        OBVIOUS
      <4>1. CASE i <= Len(a)
        <5>1. Lengths(a)[i] = Len(a[i])
          BY <3>1, <4>1 DEF Lengths, Written
        <5> QED BY <3>1, <3>2, <4>1, <5>1
      <4>2. CASE ~(i <= Len(a))
        <5>1. Lengths(b)[i - Len(a)] = Len(b[i - Len(a)])
          BY <3>1, <4>2 DEF Lengths, Written
        <5> QED BY <3>1, <3>2, <4>2, <5>1
      <4> QED BY <4>1, <4>2
    <3>4. Lengths(a \o b) = [i \in 1..Len(a) + Len(b) |-> Len((a \o b)[i])]
      BY <3>1 DEF Lengths
    <3>5. Lengths(a) \o Lengths(b) = [i \in 1..Len(a) + Len(b) |-> (Lengths(a) \o Lengths(b))[i]]
      <4>1. \A p \in Seq(Int) : p = [i \in DOMAIN p |-> p[i]]
        OBVIOUS
      <4> QED BY <3>2, <4>1
    <3> QED BY <3>3, <3>4, <3>5
  <2>3. Total(Lengths(a) \o Lengths(b)) = Total(Lengths(a)) + Total(Lengths(b))
    BY <1>1, TotalJoins
  <2> QED BY <1>2, <2>1, <2>2, <2>3
<1>6. \A t \in Written : Bytes(t) \in Int
  BY <1>1, <1>2, TotalIs
<1> QED BY <1>1, <1>3, <1>4, <1>5, <1>6

\* The first texts, one behind the other.
Flats(ts, f) == f[1] = ts[1] /\ \A n \in 2..Len(ts) : f[n] = f[n - 1] \o ts[n]
\* FlattenSeq is the last of these texts.
LEMMA FlatsExist ==
  ASSUME NEW S, NEW ts \in Seq(S), Len(ts) # 0
  PROVE  \E f : Flats(ts, f) /\ FlattenSeq(ts) = f[Len(ts)]
<1> DEFINE N == Len(ts)
           E(g, n) == IF n = 1 THEN ts[n] ELSE g[n - 1] \o ts[n]
           Is(g, m) == g = [n \in 1..m |-> E(g, n)]
           S0 == {m \in 0..N : \E g : Is(g, m)}
           f == CHOOSE g : Is(g, N)
<1>1. N \in Nat \ {0}
  OBVIOUS
<1>2. FlattenSeq(ts) = f[N]
  BY DEF FlattenSeq
<1> HIDE DEF N, E, f
<1>3. \E g : Is(g, N)
  <2>1. 0 \in S0
    <3> DEFINE g == [n \in 1..0 |-> E(n, 0)]
    <3>1. \A n \in 1..0 : FALSE
      OBVIOUS
    <3>2. g = [n \in 1..0 |-> E(g, n)]
      <4>1. \A n \in 1..0 : E(n, 0) = E(g, n)
        BY <3>1
      <4> QED BY <4>1
    <3> HIDE DEF g
    <3>3. Is(g, 0) /\ 0 \in 0..N
      BY <1>1, <3>2
    <3> QED BY <3>3
  <2>2. ASSUME NEW m \in 1..N, m - 1 \in S0 PROVE m \in S0
    <3>1. PICK g : Is(g, m - 1)
      BY <2>2
    <3> DEFINE b == [n \in 1..m |-> IF n = m THEN E(g, m) ELSE g[n]]
    <3>2. \A n \in 1..m : b[n] = E(b, n)
      <4> SUFFICES ASSUME NEW n \in 1..m PROVE b[n] = E(b, n)
        OBVIOUS
      <4>1. n # 1 => n - 1 \in 1..m /\ n - 1 # m /\ b[n - 1] = g[n - 1]
        BY <1>1
      <4>2. E(b, n) = E(g, n)
        BY <4>1 DEF E
      <4>3. n # m => n \in 1..m - 1 /\ g[n] = E(g, n)
        BY SMTT(30), <1>1, <3>1
      <4> QED BY <4>2, <4>3
    <3> HIDE DEF b
    <3>3. b = [n \in 1..m |-> b[n]]
      BY DEF b
    <3>4. Is(b, m)
      BY <3>2, <3>3
    <3> QED BY <1>1, <3>4
  <2> HIDE DEF S0
  <2>3. 0..N \subseteq S0
    BY <1>1, <2>1, <2>2, Climb
  <2> QED BY <1>1, <2>3 DEF S0
<1>4. Is(f, N)
  BY <1>3 DEF f
<1>5. Flats(ts, f)
  <2>1. \A n \in 1..N : f[n] = E(f, n)
    BY <1>4
  <2>2. f[1] = ts[1]
    <3>1. 1 \in 1..N
      BY <1>1
    <3> QED BY <2>1, <3>1 DEF E
  <2>3. \A n \in 2..N : f[n] = f[n - 1] \o ts[n]
    <3>1. \A n \in 2..N : n \in 1..N /\ n # 1
      BY <1>1
    <3> QED BY <2>1, <3>1 DEF E
  <2> QED BY <2>2, <2>3 DEF N, Flats
<1> QED BY <1>2, <1>5 DEF N

\* The bytes of texts one behind the other.
LEMMA FlatIs ==
  ASSUME NEW ts \in Seq(Written)
  PROVE  FlattenSeq(ts) \in Written /\ Bytes(FlattenSeq(ts)) = Total([i \in DOMAIN ts |-> Bytes(ts[i])])
<1> DEFINE N == Len(ts)
           a == [i \in DOMAIN ts |-> Bytes(ts[i])]
<1>1. N \in Nat /\ a = [i \in 1..N |-> Bytes(ts[i])] /\ \A i \in 1..N : ts[i] \in Written
  OBVIOUS
<1>2. a \in Seq(Int) /\ Len(a) = N /\ \A i \in 1..N : a[i] = Bytes(ts[i])
  <2> HIDE DEF a, N
  <2>1. \A i \in 1..N : Bytes(ts[i]) \in Int
    BY <1>1, BytesAre
  <2> QED BY <1>1, <2>1
<1>3. CASE N = 0
  <2>1. ts = <<>> /\ FlattenSeq(ts) = ts
    BY <1>3 DEF FlattenSeq
  <2>2. a = <<>>
    BY <2>1
  <2> QED BY <2>1, <2>2, BytesAre, TotalIs
<1>4. CASE N # 0
  <2>1. PICK f : Flats(ts, f) /\ FlattenSeq(ts) = f[N]
    BY <1>4, FlatsExist
  <2> HIDE DEF a
  <2>2. PICK s : Sums(a, s) /\ Total(a) = s[N]
    BY <1>2, SumsExist
  <2> HIDE DEF N
  <2> DEFINE T == {n \in 0..N : n # 0 => f[n] \in Written /\ Bytes(f[n]) = s[n]}
  <2>3. 0 \in T
    BY <1>1
  <2>4. ASSUME NEW n \in 1..N, n - 1 \in T PROVE n \in T
    <3>1. s[n] = s[n - 1] + Bytes(ts[n]) /\ s[0] = 0 /\ Bytes(ts[n]) \in Int
      <4>1. n \in 1..Len(a)
        BY <1>2
      <4> QED BY <1>1, <1>2, <2>2, <4>1, BytesAre DEF Sums
    <3>2. CASE n = 1
      <4>1. f[1] = ts[1]
        BY <2>1 DEF Flats
      <4> QED BY <1>1, <3>1, <3>2, <4>1
    <3>3. CASE n # 1
      <4>1. f[n] = f[n - 1] \o ts[n]
        <5>1. n \in 2..N
          BY <1>1, <3>3
        <5> QED BY <2>1, <5>1 DEF Flats, N
      <4>2. f[n - 1] \in Written /\ Bytes(f[n - 1]) = s[n - 1]
        BY <1>1, <2>4, <3>3
      <4>3. f[n] \in Written /\ Bytes(f[n]) = Bytes(f[n - 1]) + Bytes(ts[n])
        BY <1>1, <4>1, <4>2, BytesAre
      <4> QED BY <1>1, <3>1, <4>2, <4>3
    <3> QED BY <3>2, <3>3
  <2> HIDE DEF T
  <2>5. N \in T
    <3>1. 0..N \subseteq T
      BY <1>1, <2>3, <2>4, Climb
    <3> QED BY <1>1, <3>1
  <2> QED BY <1>4, <2>1, <2>2, <2>5 DEF T, a
<1> QED BY <1>3, <1>4

\* Two tokens, and three.
LEMMA FewBytes ==
  /\ \A x, y \in Spellings : <<x, y>> \in Written /\ Bytes(<<x, y>>) = Len(x) + Len(y)
  /\ \A x, y, z \in Spellings : <<x, y, z>> \in Written /\ Bytes(<<x, y, z>>) = Len(x) + Len(y) + Len(z)
<1>1. ASSUME NEW x \in Spellings, NEW y \in Spellings PROVE <<x, y>> \in Written /\ Bytes(<<x, y>>) = Len(x) + Len(y)
  <2>1. <<x, y>> = Append(<<x>>, y) /\ <<x>> \in Seq(Spellings)
    OBVIOUS
  <2>2. <<x, y>> = <<x>> \o <<y>>
    BY <2>1, AppendIsConcat
  <2>3. /\ <<x>> \in Written /\ Bytes(<<x>>) = Len(x)
        /\ <<y>> \in Written /\ Bytes(<<y>>) = Len(y)
    BY BytesAre
  <2> QED BY <2>2, <2>3, BytesAre
<1>2. ASSUME NEW x \in Spellings, NEW y \in Spellings, NEW z \in Spellings
      PROVE  <<x, y, z>> \in Written /\ Bytes(<<x, y, z>>) = Len(x) + Len(y) + Len(z)
  <2>1. <<x, y, z>> = Append(<<x, y>>, z) /\ <<x, y>> \in Seq(Spellings)
    OBVIOUS
  <2>2. <<x, y, z>> = <<x, y>> \o <<z>>
    BY <2>1, AppendIsConcat
  <2>3. /\ <<x, y>> \in Written /\ Bytes(<<x, y>>) = Len(x) + Len(y)
        /\ <<z>> \in Written /\ Bytes(<<z>>) = Len(z)
    BY <1>1, BytesAre
  <2> QED BY <2>2, <2>3, BytesAre
<1> QED BY <1>1, <1>2

\* Where a character is escaped, the room for it is.
LEMMA EscapeIs ==
  ASSUME NEW c \in Tokens
  PROVE  Escape(c) \in Written /\ Bytes(Escape(c)) <= Len(c) + More(c) /\ More(c) \in Int /\ Len(c) \in Int
<1>1. Len(c) \in Nat \ {0} /\ c \in Spellings
  BY JsonAssumption DEF Spellings
<1>2. \A x \in Marks : x \in Spellings /\ Len(x) = 1
  BY JsonAssumption DEF Spellings
<1>3. "\\" \in Marks /\ "u" \in Marks /\ \A e \in Short(c) : e \in Marks
  BY DEF Marks, Short
<1>4. More(c) \in Int /\ More(c) >= 0
  BY DEF More
<1> DEFINE back == "\\"
           u == "u"
<1>9. back \in Spellings /\ Len(back) = 1 /\ u \in Spellings /\ Len(u) = 1
  BY <1>2, <1>3
<1>5. CASE c \in {"\"", "\\"}
  <2>1. Escape(c) = <<"\\", c>>
    BY <1>5 DEF Escape
  <2>2. More(c) = 1
    BY <2>1 DEF More
  <2>3. Escape(c) = <<back, c>>
    BY <2>1
  <2> HIDE DEF back
  <2>4. Escape(c) \in Written /\ Bytes(Escape(c)) = Len(back) + Len(c)
    BY <1>1, <1>9, <2>3, FewBytes
  <2> QED BY <1>1, <1>9, <2>2, <2>4
<1>6. CASE c \notin {"\"", "\\"} /\ c \in DOMAIN Controls
  <2>1. Escape(c) = <<"\\", "u", Controls[c]>>
    BY <1>6 DEF Escape
  <2>2. More(c) = 5
    <3>1. Len(Escape(c)) # 2
      <4>1. \A x, y, z : Len(<<x, y, z>>) = 3
        OBVIOUS
      <4> QED BY <2>1, <4>1
    <3> QED BY <1>6, <3>1 DEF More
  <2>3. Controls[c] \in Spellings /\ Len(Controls[c]) = 4
    BY <1>6, JsonAssumption DEF Spellings
  <2> DEFINE digits == Controls[c]
  <2>4. Escape(c) = <<back, u, digits>> /\ digits \in Spellings
    BY <2>1, <2>3
  <2> HIDE DEF back, u, digits
  <2>5. <<back, u, digits>> \in Written /\ Bytes(<<back, u, digits>>) = Len(back) + Len(u) + Len(digits)
    BY <1>9, <2>4, FewBytes
  <2>6. Escape(c) \in Written /\ Bytes(Escape(c)) = Len(back) + Len(u) + Len(Controls[c])
    BY <2>4, <2>5 DEF digits
  <2> QED BY <1>1, <1>9, <2>2, <2>3, <2>6
<1>7. CASE c \notin {"\"", "\\"} /\ c \notin DOMAIN Controls /\ Short(c) # {}
  <2> DEFINE e == CHOOSE x \in Short(c) : TRUE
  <2>1. e \in Short(c) /\ Escape(c) = <<"\\", e>>
    BY <1>7 DEF Escape
  <2> HIDE DEF e
  <2>2. More(c) = 1
    BY <2>1 DEF More
  <2>3. Escape(c) = <<back, e>> /\ e \in Spellings /\ Len(e) = 1
    BY <1>2, <1>3, <2>1
  <2> HIDE DEF back
  <2>4. Escape(c) \in Written /\ Bytes(Escape(c)) = Len(back) + Len(e)
    BY <1>9, <2>3, FewBytes
  <2> QED BY <1>1, <1>9, <2>2, <2>3, <2>4
<1>8. CASE c \notin {"\"", "\\"} /\ c \notin DOMAIN Controls /\ Short(c) = {}
  <2>1. Escape(c) = <<c>>
    BY <1>8 DEF Escape
  <2> QED BY <1>1, <1>4, <2>1, BytesAre
<1> QED BY <1>1, <1>4, <1>5, <1>6, <1>7, <1>8

\* A string fits its room.
LEMMA StringFits ==
  ASSUME NEW s \in Strings
  PROVE  print_string_ptr(s) \in Written /\ Bytes(print_string_ptr(s)) < StringRoom(s)
<1> DEFINE N == Len(s)
           ts == [i \in DOMAIN s |-> Escape(s[i])]
           a == [i \in DOMAIN ts |-> Bytes(ts[i])]
           b == Lengths(s)
           c == [i \in DOMAIN s |-> More(s[i])]
           d == [i \in 1..N |-> b[i] + c[i]]
<1>1. N \in Nat /\ DOMAIN s = 1..N /\ \A i \in 1..N : s[i] \in Tokens
  BY TextIs
<1>2. \A i \in 1..N : /\ Escape(s[i]) \in Written /\ Bytes(Escape(s[i])) <= Len(s[i]) + More(s[i])
                      /\ Bytes(Escape(s[i])) \in Int /\ More(s[i]) \in Int /\ Len(s[i]) \in Int
  BY <1>1, EscapeIs, BytesAre
<1>3. ts \in Seq(Written) /\ Len(ts) = N /\ DOMAIN ts = 1..N /\ \A i \in 1..N : ts[i] = Escape(s[i])
  BY <1>1, <1>2
<1>4. a \in Seq(Int) /\ Len(a) = N /\ \A i \in 1..N : a[i] = Bytes(Escape(s[i]))
  <2> HIDE DEF ts, N
  <2> QED BY <1>1, <1>2, <1>3
<1>5. b \in Seq(Int) /\ Len(b) = N /\ \A i \in 1..N : b[i] = Len(s[i])
  <2> HIDE DEF N
  <2> QED BY <1>1, <1>2 DEF Lengths
<1>6. c \in Seq(Int) /\ Len(c) = N /\ \A i \in 1..N : c[i] = More(s[i])
  <2> HIDE DEF N
  <2> QED BY <1>1, <1>2
<1>7. FlattenSeq(ts) \in Written /\ Bytes(FlattenSeq(ts)) = Total(a)
  <2> HIDE DEF ts
  <2> QED BY <1>3, FlatIs
<1>8. Total(a) <= Total(b) + Total(c)
  <2> HIDE DEF a, b, c, ts, N
  <2>1. d \in Seq(Int) /\ Len(d) = N /\ \A i \in 1..N : d[i] = b[i] + c[i]
    <3>1. \A i \in 1..N : b[i] + c[i] \in Int
      BY <1>2, <1>5, <1>6
    <3> QED BY <1>1, <3>1
  <2>2. \A i \in 1..N : a[i] <= d[i]
    BY <1>2, <1>4, <1>5, <1>6, <2>1
  <2> HIDE DEF d
  <2>3. Total(a) <= Total(d)
    BY <1>4, <2>1, <2>2, TotalGrows
  <2>4. Total(d) = Total(b) + Total(c)
    <3>1. b \in Seq(Int) /\ c \in Seq(Int) /\ d \in Seq(Int)
      BY <1>5, <1>6, <2>1
    <3>2. Len(b) = Len(d) /\ Len(c) = Len(d)
      BY <1>5, <1>6, <2>1
    <3>3. \A i \in 1..Len(d) : d[i] = b[i] + c[i]
      BY <2>1
    <3> QED BY <3>1, <3>2, <3>3, TotalAdds
  <2> QED BY <2>3, <2>4
<1>9. StringRoom(s) = Total(b) + Total(c) + 3
  BY DEF StringRoom, Bytes, Lengths
<1>10. Total(a) \in Int /\ Total(b) \in Int /\ Total(c) \in Int
  <2> HIDE DEF a, b, c
  <2> QED BY <1>4, <1>5, <1>6, TotalIs
<1> DEFINE flat == FlattenSeq(ts)
<1>11. print_string_ptr(s) = <<"\"">> \o flat \o <<"\"">>
  BY DEF print_string_ptr
<1> HIDE DEF flat
<1>12. "\"" \in Spellings /\ Len("\"") = 1
  <2>1. "\"" \in Marks
    BY DEF Marks
  <2> QED BY <2>1, JsonAssumption DEF Spellings
<1>13. <<"\"">> \in Written /\ Bytes(<<"\"">>) = 1
  BY <1>12, BytesAre
<1>14. print_string_ptr(s) \in Written /\ Bytes(print_string_ptr(s)) = 1 + Bytes(flat) + 1
  <2> DEFINE q == <<"\"">>
  <2>1. q \in Written /\ Bytes(q) = 1 /\ flat \in Written /\ print_string_ptr(s) = q \o flat \o q
    BY <1>7, <1>11, <1>13 DEF flat
  <2> HIDE DEF q
  <2>2. q \o flat \in Written /\ Bytes(q \o flat) = Bytes(q) + Bytes(flat)
    BY <2>1, BytesAre
  <2>3. (q \o flat) \o q \in Written /\ Bytes((q \o flat) \o q) = Bytes(q \o flat) + Bytes(q)
    BY <2>1, <2>2, BytesAre
  <2> QED BY <2>1, <2>2, <2>3
<1> HIDE DEF a, b, c
<1>15. Bytes(flat) = Total(a)
  BY <1>7 DEF flat
<1> QED BY <1>8, <1>9, <1>10, <1>14, <1>15

\* The marks of arrays and objects.
LEMMA MarksAre ==
  \A x \in Marks : <<x>> \in Written /\ Bytes(<<x>>) = 1
<1>1. \A x \in Marks : x \in Spellings /\ Len(x) = 1
  BY JsonAssumption DEF Spellings
<1> QED BY <1>1, BytesAre

\* Between brackets of a byte each.
LEMMA BetweenIs ==
  ASSUME NEW x \in Marks, NEW y \in Marks, NEW w \in Written
  PROVE  <<x>> \o w \o <<y>> \in Written /\ Bytes(<<x>> \o w \o <<y>>) = Bytes(w) + 2
<1> DEFINE a == <<x>>
           b == <<y>>
<1>1. a \in Written /\ b \in Written /\ Bytes(a) = 1 /\ Bytes(b) = 1
  BY MarksAre
<1> HIDE DEF a, b
<1>2. a \o w \in Written /\ Bytes(a \o w) = 1 + Bytes(w)
  BY <1>1, BytesAre
<1>3. (a \o w) \o b \in Written /\ Bytes((a \o w) \o b) = (1 + Bytes(w)) + 1
  BY <1>1, <1>2, BytesAre
<1>4. Bytes(w) \in Int
  BY BytesAre
<1> QED BY <1>3, <1>4 DEF a, b

\* Texts one behind the other need no more bytes than the sum of what each needs at most.
LEMMA RoomsAre ==
  ASSUME NEW ts \in Seq(Written), NEW b \in Seq(Int), Len(b) = Len(ts),
         \A i \in 1..Len(ts) : Bytes(ts[i]) <= b[i]
  PROVE  FlattenSeq(ts) \in Written /\ Bytes(FlattenSeq(ts)) <= Total(b) /\ Total(b) \in Int
<1> DEFINE a == [i \in DOMAIN ts |-> Bytes(ts[i])]
<1>1. \A i \in 1..Len(ts) : Bytes(ts[i]) \in Int
  BY BytesAre
<1>2. a \in Seq(Int) /\ Len(a) = Len(ts) /\ \A i \in 1..Len(ts) : a[i] = Bytes(ts[i])
  BY <1>1
<1>3. FlattenSeq(ts) \in Written /\ Bytes(FlattenSeq(ts)) = Total(a)
  BY FlatIs
<1> HIDE DEF a
<1>4. Total(a) <= Total(b) /\ Total(b) \in Int
  BY <1>2, TotalGrows, TotalIs
<1> QED BY <1>3, <1>4

\* An array fits its room.
LEMMA ArrayFits ==
  ASSUME NEW texts \in Seq(Written), NEW fmt \in BOOLEAN
  PROVE  print_array(texts, fmt) \in Written /\ Bytes(print_array(texts, fmt)) < ArrayRoom(texts, fmt)
<1> DEFINE N == Len(texts)
           comma == IF fmt THEN <<",", Space>> ELSE <<",">>
           Entry(i) == texts[i] \o (IF i = N THEN <<>> ELSE comma)
           ts == [i \in 1..N |-> Entry(i)]
           b == [i \in DOMAIN texts |-> Bytes(texts[i]) + 2 + (IF fmt THEN 1 ELSE 0)]
<1>1. N \in Nat /\ DOMAIN texts = 1..N /\ \A i \in 1..N : texts[i] \in Written
  OBVIOUS
<1>2. comma \in Written /\ Bytes(comma) <= 2
  <2> DEFINE c == ","
  <2>1. c \in Marks /\ Space \in Marks /\ comma = IF fmt THEN <<c, Space>> ELSE <<c>>
    BY DEF Marks
  <2> HIDE DEF c, comma
  <2>2. c \in Spellings /\ Space \in Spellings /\ Len(c) = 1 /\ Len(Space) = 1
    BY <2>1, JsonAssumption DEF Spellings
  <2>3. <<c, Space>> \in Written /\ Bytes(<<c, Space>>) = 1 + 1
    BY <2>2, FewBytes
  <2>4. <<c>> \in Written /\ Bytes(<<c>>) = 1
    BY <2>2, BytesAre
  <2> QED BY <2>1, <2>3, <2>4
<1> HIDE DEF comma
<1>3. \A i \in 1..N : Entry(i) \in Written /\ Bytes(Entry(i)) <= Bytes(texts[i]) + 2 /\ Bytes(texts[i]) \in Int
  <2> SUFFICES ASSUME NEW i \in 1..N
               PROVE  Entry(i) \in Written /\ Bytes(Entry(i)) <= Bytes(texts[i]) + 2 /\ Bytes(texts[i]) \in Int
    OBVIOUS
  <2> DEFINE tail == IF i = N THEN <<>> ELSE comma
  <2>1. tail \in Written /\ Bytes(tail) <= 2 /\ Bytes(tail) \in Int
    BY SMTT(30), <1>2, BytesAre
  <2> HIDE DEF tail
  <2>2. texts[i] \in Written /\ Bytes(texts[i]) \in Int
    BY <1>1, BytesAre
  <2>3. texts[i] \o tail \in Written /\ Bytes(texts[i] \o tail) = Bytes(texts[i]) + Bytes(tail)
    BY <2>1, <2>2, BytesAre
  <2>4. Entry(i) = texts[i] \o tail
    BY DEF tail
  <2> HIDE DEF Entry
  <2> QED BY <2>1, <2>2, <2>3, <2>4
<1> HIDE DEF Entry
<1>4. ts \in Seq(Written) /\ Len(ts) = N /\ \A i \in 1..N : ts[i] = Entry(i)
  BY <1>1, <1>3
<1>5. b \in Seq(Int) /\ Len(b) = N /\ \A i \in 1..N : b[i] = Bytes(texts[i]) + 2 + (IF fmt THEN 1 ELSE 0)
  <2>1. \A i \in 1..N : Bytes(texts[i]) + 2 + (IF fmt THEN 1 ELSE 0) \in Int
    BY <1>3
  <2> QED BY <1>1, <2>1
<1>6. \A i \in 1..N : Bytes(ts[i]) <= b[i]
  <2> HIDE DEF ts, b
  <2> SUFFICES ASSUME NEW i \in 1..N PROVE Bytes(ts[i]) <= b[i]
    OBVIOUS
  <2>1. Entry(i) \in Written /\ Bytes(Entry(i)) <= Bytes(texts[i]) + 2 /\ Bytes(texts[i]) \in Int /\ Bytes(Entry(i)) \in Int
    BY <1>3, BytesAre
  <2> QED BY <1>4, <1>5, <2>1
<1> DEFINE flat == FlattenSeq(ts)
<1>7. flat \in Written /\ Bytes(flat) <= Total(b) /\ Total(b) \in Int /\ Bytes(flat) \in Int
  <2> HIDE DEF ts, b
  <2> QED BY <1>4, <1>5, <1>6, RoomsAre, BytesAre
<1>8. print_array(texts, fmt) = <<"[">> \o flat \o <<"]">>
  BY DEF print_array, Entry, comma
<1>9. ArrayRoom(texts, fmt) = IF texts = <<>> THEN 3 ELSE 5 + Total(b)
  BY DEF ArrayRoom
<1>10. texts = <<>> => Bytes(flat) = 0
  <2> SUFFICES ASSUME texts = <<>> PROVE Bytes(flat) = 0
    OBVIOUS
  <2>1. ts = <<>>
    BY <1>1
  <2>2. flat = <<>>
    BY <2>1 DEF FlattenSeq
  <2> QED BY <2>2, BytesAre
<1> HIDE DEF flat, b
<1>11. "[" \in Marks /\ "]" \in Marks
  BY DEF Marks
<1>12. print_array(texts, fmt) \in Written /\ Bytes(print_array(texts, fmt)) = Bytes(flat) + 2
  BY <1>7, <1>8, <1>11, BetweenIs
<1> QED BY <1>7, <1>9, <1>10, <1>12

\* Tabs need a byte each.
LEMMA TabsAre ==
  ASSUME NEW n \in Nat
  PROVE  Tabs(n) \in Written /\ Bytes(Tabs(n)) = n
<1> DEFINE tab == "\t"
           S == {m \in 0..n : Tabs(m) \in Written /\ Bytes(Tabs(m)) = m}
<1>1. tab \in Marks
  BY DEF Marks
<1>2. \A m : Tabs(m) = [i \in 1..m |-> tab]
  BY DEF Tabs
<1> HIDE DEF tab
<1>3. <<tab>> \in Written /\ Bytes(<<tab>>) = 1 /\ tab \in Spellings
  BY <1>1, MarksAre, JsonAssumption DEF Spellings
<1>4. 0 \in S
  <2>1. Tabs(0) = <<>>
    BY <1>2
  <2> QED BY <2>1, BytesAre
<1>5. ASSUME NEW m \in 1..n, m - 1 \in S PROVE m \in S
  <2> DEFINE q == [i \in 1..m - 1 |-> tab]
  <2>1. q \in Seq(Spellings) /\ Len(q) = m - 1 /\ \A i \in 1..m - 1 : q[i] = tab
    BY <1>3
  <2>2. [i \in 1..m |-> tab] = Append(q, tab)
    <3>1. /\ Append(q, tab) \in Seq(Spellings) /\ Len(Append(q, tab)) = m
          /\ \A i \in 1..m : Append(q, tab)[i] = tab
      <4> HIDE DEF q
      <4> QED BY <1>3, <2>1
    <3>2. [i \in 1..m |-> tab] \in Seq(Spellings) /\ Len([i \in 1..m |-> tab]) = m
      BY <1>3
    <3> HIDE DEF q
    <3> QED BY <3>1, <3>2, SeqEqual
  <2>3. Append(q, tab) = q \o <<tab>>
    <3> HIDE DEF q
    <3> QED BY <1>3, <2>1, AppendIsConcat
  <2>4. Tabs(m) = Tabs(m - 1) \o <<tab>>
    BY <1>2, <2>2, <2>3
  <2>5. Tabs(m - 1) \in Written /\ Bytes(Tabs(m - 1)) = m - 1
    BY <1>5
  <2>6. Tabs(m) \in Written /\ Bytes(Tabs(m)) = (m - 1) + 1
    BY <1>3, <2>4, <2>5, BytesAre
  <2> QED BY <2>6
<1> HIDE DEF S
<1>6. n \in S
  <2>1. 0..n \subseteq S
    BY <1>4, <1>5, Climb
  <2> QED BY <2>1
<1> QED BY <1>6 DEF S

\* A line of an object, of parts that are not all there, needs the sum of their bytes.
LEMMA FiveJoin ==
  ASSUME NEW a \in Written, NEW b \in Written, NEW c \in Written, NEW d \in Written, NEW e \in Written
  PROVE  /\ a \o b \o c \o d \o e \in Written
         /\ Bytes(a \o b \o c \o d \o e) = Bytes(a) + Bytes(b) + Bytes(c) + Bytes(d) + Bytes(e)
<1>1. a \o b \in Written /\ Bytes(a \o b) = Bytes(a) + Bytes(b)
  BY BytesAre
<1>2. a \o b \o c \in Written /\ Bytes(a \o b \o c) = Bytes(a \o b) + Bytes(c)
  BY <1>1, BytesAre
<1>3. a \o b \o c \o d \in Written /\ Bytes(a \o b \o c \o d) = Bytes(a \o b \o c) + Bytes(d)
  BY <1>2, BytesAre
<1>4. a \o b \o c \o d \o e \in Written /\ Bytes(a \o b \o c \o d \o e) = Bytes(a \o b \o c \o d) + Bytes(e)
  BY <1>3, BytesAre
<1> QED BY <1>1, <1>2, <1>3, <1>4

\* What a member prints, and what is counted for it.
Blank(fmt, s) == IF fmt THEN s ELSE <<>>
Prints(item, texts, depth, fmt, i) ==
  Blank(fmt, Tabs(depth + 1)) \o print_string_ptr(item.child[i].string)
  \o <<":">> \o Blank(fmt, <<"\t">>) \o texts[i]
  \o (IF i = Len(texts) THEN <<>> ELSE <<",">>) \o Blank(fmt, <<"\n">>)
Counts(item, texts, depth, fmt, i) == MemberRoom(item, texts, i) + (IF fmt THEN 3 + depth ELSE 0)
\* A member of an object fits what is counted for it.
LEMMA MemberFits ==
  ASSUME NEW texts \in Seq(Written), NEW fmt \in BOOLEAN, NEW depth \in Nat, NEW item,
         NEW i \in 1..Len(texts), item.child[i].string \in Strings
  PROVE  /\ Prints(item, texts, depth, fmt, i) \in Written
         /\ Bytes(Prints(item, texts, depth, fmt, i)) <= Counts(item, texts, depth, fmt, i)
         /\ Counts(item, texts, depth, fmt, i) \in Int
<1> DEFINE name == print_string_ptr(item.child[i].string)
           x == texts[i]
           tabs == Blank(fmt, Tabs(depth + 1))
           colon == <<":">>
           tab == Blank(fmt, <<"\t">>)
           comma == IF i = Len(texts) THEN <<>> ELSE <<",">>
           nl == Blank(fmt, <<"\n">>)
           h == IF fmt THEN 1 ELSE 0
<1>1. name \in Written /\ Bytes(name) \in Int
  BY StringFits, BytesAre
<1>2. x \in Written /\ Bytes(x) \in Int
  BY BytesAre
<1>3. tabs \in Written /\ Bytes(tabs) = IF fmt THEN depth + 1 ELSE 0
  <2>1. depth + 1 \in Nat
    OBVIOUS
  <2>2. Tabs(depth + 1) \in Written /\ Bytes(Tabs(depth + 1)) = depth + 1
    BY <2>1, TabsAre
  <2> QED BY <2>2, BytesAre DEF Blank
<1>4. colon \in Written /\ Bytes(colon) = 1
  <2>1. ":" \in Marks
    BY DEF Marks
  <2> QED BY <2>1, MarksAre
<1>5. tab \in Written /\ Bytes(tab) = h
  <2>1. "\t" \in Marks
    BY DEF Marks
  <2> QED BY <2>1, MarksAre, BytesAre DEF Blank
<1>6. nl \in Written /\ Bytes(nl) = h
  <2>1. "\n" \in Marks
    BY DEF Marks
  <2> QED BY <2>1, MarksAre, BytesAre DEF Blank
<1>7. comma \in Written /\ Bytes(comma) <= 1 /\ Bytes(comma) \in Int
  <2> DEFINE c == ","
  <2>1. c \in Marks /\ comma = IF i = Len(texts) THEN <<>> ELSE <<c>>
    BY DEF Marks
  <2> HIDE DEF c, comma
  <2>2. <<c>> \in Written /\ Bytes(<<c>>) = 1
    BY <2>1, MarksAre
  <2> QED BY SMTT(30), <2>1, <2>2, BytesAre
<1>8. Prints(item, texts, depth, fmt, i) = (tabs \o name \o colon \o tab \o x) \o comma \o nl
  BY DEF Prints
<1>9. MemberRoom(item, texts, i) = Bytes(x) + Bytes(name) + 2
  BY DEF MemberRoom
<1> HIDE DEF name, x, tabs, colon, tab, comma, nl
<1> DEFINE front == tabs \o name \o colon \o tab \o x
<1>10. front \in Written /\ Bytes(front) = Bytes(tabs) + Bytes(name) + Bytes(colon) + Bytes(tab) + Bytes(x)
  BY <1>1, <1>2, <1>3, <1>4, <1>5, FiveJoin
<1> HIDE DEF front
<1>11. front \o comma \in Written /\ Bytes(front \o comma) = Bytes(front) + Bytes(comma)
  BY <1>7, <1>10, BytesAre
<1>12. (front \o comma) \o nl \in Written /\ Bytes((front \o comma) \o nl) = Bytes(front \o comma) + Bytes(nl)
  BY <1>6, <1>11, BytesAre
<1>13. Prints(item, texts, depth, fmt, i) = (front \o comma) \o nl
  BY <1>8 DEF front
<1>14. Prints(item, texts, depth, fmt, i) \in Written
       /\ Bytes(Prints(item, texts, depth, fmt, i)) = Bytes(tabs) + Bytes(name) + 1 + h + Bytes(x) + Bytes(comma) + h
  BY <1>4, <1>5, <1>6, <1>10, <1>11, <1>12, <1>13
<1>15. Counts(item, texts, depth, fmt, i) = Bytes(x) + Bytes(name) + 2 + (IF fmt THEN 3 + depth ELSE 0)
  BY <1>9 DEF Counts
<1>16. CASE fmt
  <2>1. Bytes(tabs) = depth + 1 /\ h = 1
    BY <1>3, <1>16
  <2>2. Counts(item, texts, depth, fmt, i) = Bytes(x) + Bytes(name) + 2 + (3 + depth)
    BY <1>15, <1>16
  <2> HIDE DEF h
  <2> QED BY SMTT(30), <1>1, <1>2, <1>7, <1>14, <2>1, <2>2
<1>17. CASE ~fmt
  <2>1. Bytes(tabs) = 0 /\ h = 0
    BY <1>3, <1>17
  <2>2. Counts(item, texts, depth, fmt, i) = Bytes(x) + Bytes(name) + 2 + 0
    BY <1>15, <1>17
  <2> HIDE DEF h
  <2> QED BY <1>1, <1>2, <1>7, <1>14, <2>1, <2>2
<1> QED BY <1>16, <1>17

\* An object fits its room.
LEMMA ObjectFits ==
  ASSUME NEW texts \in Seq(Written), NEW fmt \in BOOLEAN, NEW depth \in Nat, NEW item,
         \A i \in 1..Len(texts) : item.child[i].string \in Strings
  PROVE  /\ print_object(item, texts, depth, fmt) \in Written
         /\ Bytes(print_object(item, texts, depth, fmt)) < ObjectRoom(item, texts, depth, fmt)
<1> DEFINE N == Len(texts)
           Entry(i) == Prints(item, texts, depth, fmt, i)
           ts == [i \in 1..N |-> Entry(i)]
           b == [i \in DOMAIN texts |-> Counts(item, texts, depth, fmt, i)]
           indent == IF N = 0 /\ depth > 0 THEN depth - 1 ELSE depth
<1>1. N \in Nat /\ DOMAIN texts = 1..N
  OBVIOUS
<1>2. \A i \in 1..N : /\ Entry(i) \in Written /\ Bytes(Entry(i)) <= Counts(item, texts, depth, fmt, i)
                      /\ Counts(item, texts, depth, fmt, i) \in Int
  BY MemberFits
<1> HIDE DEF Entry
<1>3. ts \in Seq(Written) /\ Len(ts) = N /\ \A i \in 1..N : ts[i] = Entry(i)
  BY <1>1, <1>2
<1>4. b \in Seq(Int) /\ Len(b) = N /\ \A i \in 1..N : b[i] = Counts(item, texts, depth, fmt, i)
  BY <1>1, <1>2
<1> DEFINE flat == FlattenSeq(ts)
<1>5. flat \in Written /\ Bytes(flat) <= Total(b) /\ Total(b) \in Int /\ Bytes(flat) \in Int
  <2> HIDE DEF ts, b
  <2>1. \A i \in 1..N : Bytes(ts[i]) <= b[i]
    BY <1>2, <1>3, <1>4
  <2> QED BY <1>3, <1>4, <2>1, RoomsAre, BytesAre
<1> DEFINE open == <<"{">>
           nl == Blank(fmt, <<"\n">>)
           tabs == Blank(fmt, Tabs(indent))
           close == <<"}">>
<1>6. print_object(item, texts, depth, fmt) = open \o nl \o flat \o tabs \o close
  BY DEF print_object, Entry, Prints, Blank
<1>7. ObjectRoom(item, texts, depth, fmt) =
        IF texts = <<>> THEN (IF fmt THEN depth + 4 ELSE 3)
        ELSE 7 + (IF fmt THEN depth + 1 ELSE 0) + Total(b)
  BY DEF ObjectRoom, Counts
<1>8. texts = <<>> => Bytes(flat) = 0
  <2> SUFFICES ASSUME texts = <<>> PROVE Bytes(flat) = 0
    OBVIOUS
  <2>1. ts = <<>>
    BY <1>1
  <2>2. flat = <<>>
    BY <2>1 DEF FlattenSeq
  <2> QED BY <2>2, BytesAre
<1>9. open \in Written /\ Bytes(open) = 1
  <2>1. "{" \in Marks
    BY DEF Marks
  <2> QED BY <2>1, MarksAre
<1>10. close \in Written /\ Bytes(close) = 1
  <2>1. "}" \in Marks
    BY DEF Marks
  <2> QED BY <2>1, MarksAre
<1>11. nl \in Written /\ Bytes(nl) = IF fmt THEN 1 ELSE 0
  <2>1. "\n" \in Marks
    BY DEF Marks
  <2> QED BY <2>1, MarksAre, BytesAre DEF Blank
<1>12. indent \in Nat /\ indent <= depth
  BY <1>1
<1>13. tabs \in Written /\ Bytes(tabs) = IF fmt THEN indent ELSE 0
  <2> HIDE DEF indent
  <2> QED BY <1>12, TabsAre, BytesAre DEF Blank
<1> HIDE DEF flat, b, open, nl, tabs, close, indent
<1>14. /\ print_object(item, texts, depth, fmt) \in Written
       /\ Bytes(print_object(item, texts, depth, fmt)) = 1 + Bytes(nl) + Bytes(flat) + Bytes(tabs) + 1
  BY <1>5, <1>6, <1>9, <1>10, <1>11, <1>13, FiveJoin
<1> HIDE DEF N
<1>15. CASE texts = <<>>
  BY <1>5, <1>7, <1>8, <1>11, <1>12, <1>13, <1>14, <1>15
<1>16. CASE texts # <<>>
  BY SMTT(30), <1>5, <1>7, <1>11, <1>12, <1>13, <1>14, <1>16
<1> QED BY <1>15, <1>16

\* The text of an item fits its room, if it has the texts of its children.
LEMMA TextFits ==
  ASSUME NEW n \in 0..MaxNesting, NEW item \in Documents[n], NEW texts \in Seq(Written),
         Len(texts) = Len(item.child), NEW fmt \in BOOLEAN
  PROVE  /\ Text(item, texts, MaxNesting - n, fmt) \in Written
         /\ Bytes(Text(item, texts, MaxNesting - n, fmt)) < Room(item, texts, MaxNesting - n, fmt)
         /\ \A i \in DOMAIN item.child :
              /\ n # 0 /\ item.child[i] \in Documents[n - 1]
              /\ Bytes(print_string_ptr(item.child[i].string)) < StringRoom(item.child[i].string)
<1> DEFINE depth == MaxNesting - n
           type == item.type
<1>1. depth \in Nat
  BY JsonAssumption
<1>2. IsItem(item) /\ Children(item, n) /\ Shaped(item)
  BY DocumentIs
<1>3. \A i \in DOMAIN item.child :
        /\ n # 0 /\ item.child[i] \in Documents[n - 1] /\ item.child[i].string \in Strings
        /\ Bytes(print_string_ptr(item.child[i].string)) < StringRoom(item.child[i].string)
  <2> SUFFICES ASSUME NEW i \in DOMAIN item.child
               PROVE  /\ n # 0 /\ item.child[i] \in Documents[n - 1] /\ item.child[i].string \in Strings
                      /\ Bytes(print_string_ptr(item.child[i].string)) < StringRoom(item.child[i].string)
    OBVIOUS
  <2>1. n # 0
    BY <1>2 DEF Children
  <2>2. item.child \in Seq(Documents[n - 1])
    BY <1>2, <2>1 DEF Children
  <2>3. item.child[i] \in Documents[n - 1]
    BY <2>2
  <2>4. n - 1 \in 0..MaxNesting
    BY <2>1, JsonAssumption
  <2>5. item.child[i].string \in Strings
    BY <2>3, <2>4, DocumentIs DEF IsItem
  <2> QED BY <2>1, <2>3, <2>5, StringFits
<1>4. \A i \in 1..Len(texts) : item.child[i].string \in Strings
  <2>1. DOMAIN item.child = 1..Len(item.child)
    <3>1. n = 0 => item.child = <<>>
      BY <1>2 DEF Children
    <3>2. n # 0 => item.child \in Seq(Documents[n - 1])
      BY <1>2 DEF Children
    <3> QED BY <3>1, <3>2
  <2> QED BY <1>3, <2>1
<1> HIDE DEF depth
<1>5. Text(item, texts, depth, fmt) \in Written /\ Bytes(Text(item, texts, depth, fmt)) < Room(item, texts, depth, fmt)
  <2>1. type \in Types /\ item.valuestring \in Strings /\ item.valuedouble \in Numbers
    BY <1>2 DEF IsItem
  <2>2. CASE type \in {"null", "false", "true"}
    <3>1. Text(item, texts, depth, fmt) = <<type>> /\ Room(item, texts, depth, fmt) = Len(type) + 1
      BY <2>2 DEF Text, Room
    <3>2. type \in Spellings /\ Len(type) \in Nat
      BY <2>1, SpellingsAre DEF Spellings
    <3> HIDE DEF type
    <3>3. <<type>> \in Written /\ Bytes(<<type>>) = Len(type)
      BY <3>2, BytesAre
    <3> QED BY <3>1, <3>2, <3>3
  <2>3. CASE type = "number"
    <3> DEFINE x == print_number(item.valuedouble)
    <3>1. Text(item, texts, depth, fmt) = <<x>> /\ Room(item, texts, depth, fmt) = NumberRoom(item.valuedouble)
      BY <2>3 DEF Text, Room
    <3>2. x \in Spellings
      BY <2>1 DEF Spellings
    <3>3. NumberRoom(item.valuedouble) \in Nat
      BY DEF NumberRoom
    <3>4. Len(x) \in 1..NumberRoom(item.valuedouble) - 1
      BY <2>1, JsonAssumption
    <3> HIDE DEF x
    <3>5. Len(x) < NumberRoom(item.valuedouble)
      BY <3>3, <3>4
    <3>6. <<x>> \in Written /\ Bytes(<<x>>) = Len(x)
      BY <3>2, BytesAre
    <3> QED BY <3>1, <3>5, <3>6
  <2>4. CASE type = "string"
    <3>1. /\ Text(item, texts, depth, fmt) = print_string_ptr(item.valuestring)
          /\ Room(item, texts, depth, fmt) = StringRoom(item.valuestring)
      BY <2>4 DEF Text, Room
    <3> QED BY <2>1, <3>1, StringFits
  <2>5. CASE type = "array"
    <3>1. /\ Text(item, texts, depth, fmt) = print_array(texts, fmt)
          /\ Room(item, texts, depth, fmt) = ArrayRoom(texts, fmt)
      BY <2>5 DEF Text, Room
    <3> QED BY <3>1, ArrayFits
  <2>6. CASE type = "object"
    <3>1. /\ Text(item, texts, depth, fmt) = print_object(item, texts, depth, fmt)
          /\ Room(item, texts, depth, fmt) = ObjectRoom(item, texts, depth, fmt)
      BY <2>6 DEF Text, Room
    <3> QED BY <1>1, <1>4, <3>1, ObjectFits
  <2> QED BY <2>1, <2>2, <2>3, <2>4, <2>5, <2>6 DEF Types
<1> QED BY <1>3, <1>5 DEF depth

\* The texts of the children, and the text of each item.
Inner(item, below) == [i \in DOMAIN item.child |-> below[item.child[i]]]
Printed(fmt, p) ==
  \A n \in 0..MaxNesting : \A item \in Documents[n] :
    p[n][item] = Text(item, Inner(item, p[n - 1]), MaxNesting - n, fmt)
\* print_value gives these texts, level by level.
LEMMA PrintsExist ==
  ASSUME NEW fmt
  PROVE  Printed(fmt, print_value(fmt))
<1> DEFINE N == MaxNesting
           E(g, n) == [item \in Documents[n] |-> Text(item, Inner(item, g[n - 1]), MaxNesting - n, fmt)]
           Is(g, m) == g = [n \in 0..m |-> E(g, n)]
           S == {m \in 0..N : \E g : Is(g, m)}
           p == CHOOSE g : Is(g, N)
<1>1. N \in Nat
  BY JsonAssumption
<1>2. print_value(fmt) = p
  BY DEF print_value, Inner
<1>0. \A g, h : E(g, 0) = E(h, 0)
  <2> SUFFICES ASSUME NEW g, NEW h, NEW x \in Documents[0]
               PROVE  Inner(x, g[0 - 1]) = Inner(x, h[0 - 1])
    OBVIOUS
  <2>1. x.child = <<>>
    BY DocumentIs, <1>1 DEF Children
  <2> QED BY <2>1 DEF Inner
<1> HIDE DEF N, E, p
<1>3. \E g : Is(g, N)
  <2>1. 0 \in S
    <3> DEFINE g == [n \in 0..0 |-> E(n, n)]
    <3>0. g[0] = E(0, 0)
      OBVIOUS
    <3>1. \A n \in 0..0 : g[n] = E(g, n)
      <4> HIDE DEF g
      <4> QED BY <1>0, <3>0
    <3> QED BY <1>1, <3>1
  <2>2. ASSUME NEW m \in 1..N, m - 1 \in S PROVE m \in S
    <3>1. PICK g : Is(g, m - 1)
      BY <2>2
    <3> DEFINE b == [n \in 0..m |-> IF n = m THEN E(g, m) ELSE g[n]]
    <3>2. \A n \in 0..m : b[n] = E(b, n)
      <4> SUFFICES ASSUME NEW n \in 0..m PROVE b[n] = E(b, n)
        OBVIOUS
      <4>1. n # 0 => n - 1 \in 0..m /\ n - 1 # m /\ b[n - 1] = g[n - 1]
        BY <1>1
      <4>2. E(b, n) = E(g, n)
        <5>1. n = 0 => E(b, n) = E(g, n)
          BY <1>0
        <5>2. n # 0 => E(b, n) = E(g, n)
          BY <4>1 DEF E
        <5> QED BY <5>1, <5>2
      <4>3. n # m => n \in 0..m - 1 /\ g[n] = E(g, n)
        BY <1>1, <3>1
      <4> QED BY <4>2, <4>3
    <3> HIDE DEF b
    <3>3. b = [n \in 0..m |-> b[n]]
      BY DEF b
    <3>4. Is(b, m)
      BY <3>2, <3>3
    <3> QED BY <1>1, <3>4
  <2> HIDE DEF S
  <2>3. 0..N \subseteq S
    BY <1>1, <2>1, <2>2, Climb
  <2> QED BY <1>1, <2>3 DEF S
<1>4. Is(p, N)
  BY <1>3 DEF p
<1>5. Printed(fmt, p)
  <2>1. \A n \in 0..N : p[n] = E(p, n)
    BY <1>1, <1>4
  <2> QED BY <2>1 DEF E, N, Printed
<1> QED BY <1>2, <1>5

\* Which items fit.
Fit(fmt, n, item, fit) ==
  /\ Bytes(print_value(fmt)[n][item]) < Room(item, Inner(item, print_value(fmt)[n - 1]), MaxNesting - n, fmt)
  /\ \A i \in DOMAIN item.child :
       /\ fit[item.child[i]]
       /\ Bytes(print_string_ptr(item.child[i].string)) < StringRoom(item.child[i].string)
Fitting(fmt, f) ==
  \A n \in 0..MaxNesting : \A item \in Documents[n] : f[n][item] = Fit(fmt, n, item, f[n - 1])
\* Fits is decided level by level.
LEMMA FitsExist ==
  ASSUME NEW fmt
  PROVE  \E f : Fitting(fmt, f) /\ Fits(fmt) = f[MaxNesting]
<1> DEFINE N == MaxNesting
           E(g, n) == [item \in Documents[n] |-> Fit(fmt, n, item, g[n - 1])]
           Is(g, m) == g = [n \in 0..m |-> E(g, n)]
           S == {m \in 0..N : \E g : Is(g, m)}
           f == CHOOSE g : Is(g, N)
<1>1. N \in Nat
  BY JsonAssumption
<1>2. Fits(fmt) = f[N]
  BY DEF Fits, Fit, Inner
<1>0. \A g, h : E(g, 0) = E(h, 0)
  <2> SUFFICES ASSUME NEW g, NEW h, NEW x \in Documents[0]
               PROVE  Fit(fmt, 0, x, g[0 - 1]) = Fit(fmt, 0, x, h[0 - 1])
    OBVIOUS
  <2>1. \A i \in DOMAIN x.child : FALSE
    BY DocumentIs, <1>1 DEF Children
  <2> QED BY <2>1 DEF Fit
<1> HIDE DEF N, E, f
<1>3. \E g : Is(g, N)
  <2>1. 0 \in S
    <3> DEFINE g == [n \in 0..0 |-> E(n, n)]
    <3>0. g[0] = E(0, 0)
      OBVIOUS
    <3>1. \A n \in 0..0 : g[n] = E(g, n)
      <4> HIDE DEF g
      <4> QED BY <1>0, <3>0
    <3> QED BY <1>1, <3>1
  <2>2. ASSUME NEW m \in 1..N, m - 1 \in S PROVE m \in S
    <3>1. PICK g : Is(g, m - 1)
      BY <2>2
    <3> DEFINE b == [n \in 0..m |-> IF n = m THEN E(g, m) ELSE g[n]]
    <3>2. \A n \in 0..m : b[n] = E(b, n)
      <4> SUFFICES ASSUME NEW n \in 0..m PROVE b[n] = E(b, n)
        OBVIOUS
      <4>1. n # 0 => n - 1 \in 0..m /\ n - 1 # m /\ b[n - 1] = g[n - 1]
        BY <1>1
      <4>2. E(b, n) = E(g, n)
        <5>1. n = 0 => E(b, n) = E(g, n)
          BY <1>0
        <5>2. n # 0 => E(b, n) = E(g, n)
          BY <4>1 DEF E
        <5> QED BY <5>1, <5>2
      <4>3. n # m => n \in 0..m - 1 /\ g[n] = E(g, n)
        BY <1>1, <3>1
      <4> QED BY <4>2, <4>3
    <3> HIDE DEF b
    <3>3. b = [n \in 0..m |-> b[n]]
      BY DEF b
    <3>4. Is(b, m)
      BY <3>2, <3>3
    <3> QED BY <1>1, <3>4
  <2> HIDE DEF S
  <2>3. 0..N \subseteq S
    BY <1>1, <2>1, <2>2, Climb
  <2> QED BY <1>1, <2>3 DEF S
<1>4. Is(f, N)
  BY <1>3 DEF f
<1>5. Fitting(fmt, f)
  <2>1. \A n \in 0..N : f[n] = E(f, n)
    BY <1>1, <1>4
  <2> QED BY <2>1 DEF E, N, Fitting
<1> QED BY <1>2, <1>5 DEF N

\* Every document fits.
LEMMA DocumentsFit ==
  ASSUME NEW fmt \in BOOLEAN, NEW d \in Documents[MaxNesting]
  PROVE  Fits(fmt)[d]
<1> DEFINE p == print_value(fmt)
           N == MaxNesting
<1>1. PICK f : Fitting(fmt, f) /\ Fits(fmt) = f[N]
  BY FitsExist
<1>2. Printed(fmt, p)
  BY PrintsExist
<1> DEFINE S == {n \in 0..N : \A item \in Documents[n] : p[n][item] \in Written /\ f[n][item]}
<1>3. N \in Nat
  BY JsonAssumption
<1> HIDE DEF p, N
<1>4. ASSUME NEW n \in 0..N, NEW item \in Documents[n],
             n # 0 => \A x \in Documents[n - 1] : p[n - 1][x] \in Written /\ f[n - 1][x]
      PROVE  p[n][item] \in Written /\ f[n][item]
  <2> DEFINE texts == Inner(item, p[n - 1])
  <2>1. n \in 0..MaxNesting
    BY DEF N
  <2>2. Children(item, n)
    BY <2>1, DocumentIs
  <2>3. texts \in Seq(Written) /\ Len(texts) = Len(item.child)
    <3>1. CASE n = 0
      BY <2>2, <3>1 DEF Children, Inner
    <3>2. CASE n # 0
      <4>1. item.child \in Seq(Documents[n - 1])
        BY <2>2, <3>2 DEF Children
      <4>2. \A i \in 1..Len(item.child) : p[n - 1][item.child[i]] \in Written
        BY <1>4, <3>2, <4>1
      <4> QED BY <4>1, <4>2 DEF Inner
    <3> QED BY <3>1, <3>2
  <2> HIDE DEF texts
  <2>4. p[n][item] = Text(item, texts, MaxNesting - n, fmt)
    BY <1>2, <2>1 DEF Printed, texts
  <2>5. /\ p[n][item] \in Written /\ Bytes(p[n][item]) < Room(item, texts, MaxNesting - n, fmt)
        /\ \A i \in DOMAIN item.child :
              /\ n # 0 /\ item.child[i] \in Documents[n - 1]
              /\ Bytes(print_string_ptr(item.child[i].string)) < StringRoom(item.child[i].string)
    BY <2>1, <2>3, <2>4, TextFits
  <2>6. \A i \in DOMAIN item.child : f[n - 1][item.child[i]]
    BY <1>4, <2>5
  <2>7. f[n][item] = Fit(fmt, n, item, f[n - 1])
    BY <1>1, <2>1 DEF Fitting
  <2>8. Fit(fmt, n, item, f[n - 1])
    BY <2>5, <2>6 DEF Fit, texts, p
  <2> QED BY <2>5, <2>7, <2>8
<1>5. 0 \in S
  BY <1>3, <1>4
<1>6. ASSUME NEW n \in 1..N, n - 1 \in S PROVE n \in S
  <2>1. n \in 0..N
    BY <1>3
  <2> QED BY <1>4, <1>6, <2>1
<1> HIDE DEF S
<1>7. N \in S
  <2>1. 0..N \subseteq S
    BY <1>3, <1>5, <1>6, Climb
  <2> QED BY <1>3, <2>1
<1> QED BY <1>1, <1>7 DEF S, N

\* PrintFits: whatever is read, built and edited, and with blanks or without, no part of the
\* document is printed past the end of the memory cJSON counted for it.
THEOREM PrintsFit == JsonSpec => []PrintFits
<1>1. JsonInv => PrintFits
  BY DocumentsFit DEF JsonInv, PrintFits
<1> QED BY <1>1, JsonTypes, PTL

(***************************************************************************)
(* What is written is read back.                                           *)
(***************************************************************************)
\* The text p stands in t from i on.
Placed(t, i, p) == i \in Nat \ {0} /\ i + Len(p) <= Len(t) + 1 /\ \A k \in 1..Len(p) : t[i + k - 1] = p[k]

\* A text in two parts stands where its parts do.
LEMMA PlacedJoin ==
  ASSUME NEW t \in Written, NEW i, NEW a \in Written, NEW b \in Written, Placed(t, i, a \o b)
  PROVE  Placed(t, i, a) /\ Placed(t, i + Len(a), b) /\ i + Len(a \o b) = i + Len(a) + Len(b)
<1> DEFINE n == Len(a)
           m == Len(b)
           c == a \o b
<1>1. n \in Nat /\ m \in Nat /\ Len(c) = n + m /\ Len(t) \in Nat /\ i \in Nat \ {0}
  BY DEF Written, Placed
<1>2. (\A k \in 1..n : c[k] = a[k]) /\ \A k \in 1..m : c[n + k] = b[k]
  BY DEF Written
<1>3. i + Len(c) <= Len(t) + 1 /\ \A k \in 1..Len(c) : t[i + k - 1] = c[k]
  BY DEF Placed
<1> HIDE DEF n, m, c
<1>4. Placed(t, i, a)
  <2>1. i + n <= Len(t) + 1
    BY <1>1, <1>3
  <2>2. \A k \in 1..n : t[i + k - 1] = a[k]
    <3>1. \A k \in 1..n : k \in 1..Len(c)
      BY <1>1
    <3> QED BY <1>2, <1>3, <3>1
  <2> QED BY <1>1, <2>1, <2>2 DEF Placed, n
<1>5. Placed(t, i + n, b)
  <2>1. i + n \in Nat \ {0} /\ i + n + m <= Len(t) + 1
    BY <1>1, <1>3
  <2>2. \A k \in 1..m : t[i + n + k - 1] = b[k]
    <3>1. \A k \in 1..m : n + k \in 1..Len(c) /\ i + n + k - 1 = i + (n + k) - 1
      BY <1>1
    <3> QED BY <1>2, <1>3, <3>1
  <2> QED BY <2>1, <2>2 DEF Placed, m
<1> QED BY <1>1, <1>4, <1>5 DEF n, m, c

\* One token.
LEMMA PlacedOne ==
  ASSUME NEW t \in Written, NEW i, NEW x, Placed(t, i, <<x>>)
  PROVE  i \in 1..Len(t) /\ t[i] = x /\ At(t, i) = x /\ Len(<<x>>) = 1
<1>1. Len(<<x>>) = 1 /\ <<x>>[1] = x /\ Len(t) \in Nat
  BY DEF Written
<1>2. i \in Nat \ {0} /\ i + 1 <= Len(t) + 1 /\ t[i + 1 - 1] = x
  BY <1>1 DEF Placed
<1>3. i + 1 - 1 = i /\ i \in 1..Len(t)
  BY <1>1, <1>2
<1> QED BY <1>1, <1>2, <1>3 DEF At

\* Where skip stops, from a place before which there is nothing but blanks.
LEMMA Skips ==
  ASSUME NEW t \in Written, NEW a \in Nat \ {0}, NEW b \in a..Len(t), \A j \in a..b - 1 : t[j] \in White,
         t[b] \notin White
  PROVE  skip(t, a) = b
<1> DEFINE T == {j \in a..Len(t) : t[j] \notin White}
<1>1. Len(t) \in Nat /\ b \in Nat
  BY DEF Written
<1>2. b \in T /\ \A j \in T : b <= j
  <2>1. \A j \in T : ~(j <= b - 1)
    BY <1>1
  <2> QED BY <1>1, <2>1
<1>3. Min(T) = CHOOSE x \in T : \A y \in T : x <= y
  BY DEF Min
<1>4. \A x \in T : x \in Nat
  BY <1>1
<1>5. skip(t, a) = Min(T)
  BY <1>2 DEF skip
<1> HIDE DEF T
<1>6. \A x \in T : (\A y \in T : x <= y) => x = b
  BY <1>1, <1>2, <1>4
<1> QED BY <1>2, <1>3, <1>5, <1>6

\* What several texts are, added up.
Adds(ts, g) == g[0] = <<>> /\ \A n \in 1..Len(ts) : g[n] = g[n - 1] \o ts[n]
\* FlattenSeq adds texts up.
LEMMA AddsExist ==
  ASSUME NEW ts \in Seq(Written)
  PROVE  \E g : Adds(ts, g) /\ FlattenSeq(ts) = g[Len(ts)] /\ \A n \in 0..Len(ts) : g[n] \in Written
<1> DEFINE N == Len(ts)
<1>1. N \in Nat /\ <<>> \in Written /\ \A a, b \in Written : a \o b \in Written /\ <<>> \o a = a
  BY DEF Written
<1>0. \A n \in 1..N : ts[n] \in Written
  OBVIOUS
<1>2. CASE N = 0
  <2> DEFINE g == [n \in {0} |-> <<>>]
  <2>1. FlattenSeq(ts) = <<>>
    BY <1>2 DEF FlattenSeq
  <2>2. Adds(ts, g) /\ FlattenSeq(ts) = g[N] /\ \A n \in 0..N : g[n] \in Written
    <3>1. (\A n \in 1..N : FALSE) /\ \A n \in 0..N : n = 0
      BY <1>2
    <3> QED BY <1>1, <1>2, <2>1, <3>1 DEF Adds
  <2> QED BY <2>2
<1>3. CASE N # 0
  <2>1. PICK f : Flats(ts, f) /\ FlattenSeq(ts) = f[N]
    BY <1>3, FlatsExist
  <2> DEFINE g == [n \in 0..N |-> IF n = 0 THEN <<>> ELSE f[n]]
             S == {n \in 0..N : g[n] \in Written}
  <2> HIDE DEF N
  <2>2. \A n \in 1..N : g[n] = g[n - 1] \o ts[n]
    <3> SUFFICES ASSUME NEW n \in 1..N PROVE g[n] = g[n - 1] \o ts[n]
      OBVIOUS
    <3>1. g[n] = f[n] /\ n - 1 \in 0..N
      BY <1>1
    <3>2. CASE n = 1
      <4>1. g[n - 1] = <<>> /\ f[1] = ts[1] /\ 1 \in 1..N
        BY <1>1, <3>2, <2>1 DEF Flats
      <4> QED BY <1>0, <1>1, <3>1, <3>2, <4>1
    <3>3. CASE n # 1
      <4>1. g[n - 1] = f[n - 1] /\ n \in 2..N
        BY <1>1, <3>1, <3>3
      <4> QED BY <2>1, <3>1, <4>1 DEF Flats, N
    <3> QED BY <3>2, <3>3
  <2>3. g[0] = <<>> /\ g[N] = f[N]
    BY <1>1, <1>3
  <2> HIDE DEF g
  <2>4. 0 \in S
    BY <1>1, <2>3
  <2>5. ASSUME NEW n \in 1..N, n - 1 \in S PROVE n \in S
    <3>1. g[n] = g[n - 1] \o ts[n] /\ g[n - 1] \in Written /\ ts[n] \in Written
      BY <1>0, <2>2, <2>5
    <3>2. g[n] \in Written /\ n \in 0..N
      BY <1>1, <3>1
    <3> QED BY <3>2
  <2> HIDE DEF S
  <2>6. 0..N \subseteq S
    BY <1>1, <2>4, <2>5, Climb
  <2> QED BY <2>1, <2>2, <2>3, <2>6 DEF S, Adds, N
<1> QED BY <1>2, <1>3

\* Where each of several texts stands: the k-th from o[k - 1] to o[k].
Lies(t, ts, o) ==
  /\ \A k \in 0..Len(ts) : o[k] \in Nat \ {0}
  /\ \A k \in 1..Len(ts) : o[k] = o[k - 1] + Len(ts[k]) /\ Placed(t, o[k - 1], ts[k])
\* When texts stand one behind the other, each has its place.
LEMMA LiesThere ==
  ASSUME NEW t \in Written, NEW i, NEW ts \in Seq(Written), Placed(t, i, FlattenSeq(ts))
  PROVE  \E o : Lies(t, ts, o) /\ o[0] = i /\ o[Len(ts)] = i + Len(FlattenSeq(ts))
<1> DEFINE N == Len(ts)
<1>1. PICK g : Adds(ts, g) /\ FlattenSeq(ts) = g[N] /\ \A n \in 0..N : g[n] \in Written
  BY AddsExist
<1> DEFINE S == {n \in 0..N : Placed(t, i, g[N - n])}
           o == [k \in 0..N |-> i + Len(g[k])]
<1>0. N \in Nat /\ \A k \in 1..N : ts[k] \in Written
  OBVIOUS
<1>2. N \in Nat /\ \A k \in 1..N : ts[k] \in Written /\ g[k] = g[k - 1] \o ts[k]
  <2>1. \A k \in 1..N : g[k] = g[k - 1] \o ts[k]
    BY <1>1 DEF Adds
  <2> HIDE DEF N
  <2> QED BY <1>0, <2>1
<1> HIDE DEF N
<1>3. 0 \in S
  <2>1. N - 0 = N
    BY <1>2
  <2> QED BY <1>1, <1>2, <2>1
<1>4. ASSUME NEW n \in 1..N, n - 1 \in S PROVE n \in S
  <2> DEFINE k == N - (n - 1)
  <2>1. k \in 1..N /\ k - 1 = N - n /\ k - 1 \in 0..N /\ n \in 0..N
    BY <1>2
  <2>2. Placed(t, i, g[k])
    BY <1>4
  <2> HIDE DEF k
  <2>3. g[k] = g[k - 1] \o ts[k] /\ g[k - 1] \in Written /\ ts[k] \in Written
    BY <1>1, <1>2, <2>1
  <2>4. Placed(t, i, g[k - 1])
    <3>1. \A x : x = g[k - 1] \o ts[k] /\ Placed(t, i, x) => Placed(t, i, g[k - 1])
      BY <2>3, PlacedJoin
    <3> QED BY <2>2, <2>3, <3>1
  <2> QED BY <2>1, <2>4
<1>5. ASSUME NEW k \in 0..N PROVE Placed(t, i, g[k])
  <2> HIDE DEF S
  <2>1. 0..N \subseteq S
    BY <1>2, <1>3, <1>4, Climb
  <2>2. N - k \in 0..N /\ N - (N - k) = k
    BY <1>2
  <2> QED BY <2>1, <2>2 DEF S
<1>6. \A k \in 0..N : o[k] = i + Len(g[k]) /\ Len(g[k]) \in Nat
  BY <1>1 DEF Written
<1>7. i \in Nat \ {0}
  BY <1>5, <1>2 DEF Placed
<1> HIDE DEF o
<1>8. \A k \in 0..N : o[k] \in Nat \ {0}
  BY <1>6, <1>7
<1>9. ASSUME NEW k \in 1..N PROVE o[k] = o[k - 1] + Len(ts[k]) /\ Placed(t, o[k - 1], ts[k])
  <2>1. k \in 0..N /\ k - 1 \in 0..N
    BY <1>2
  <2>2. g[k] = g[k - 1] \o ts[k] /\ g[k - 1] \in Written /\ ts[k] \in Written /\ Placed(t, i, g[k])
    BY <1>1, <1>2, <1>5, <2>1
  <2>3. Placed(t, i + Len(g[k - 1]), ts[k]) /\ i + Len(g[k]) = i + Len(g[k - 1]) + Len(ts[k])
    <3> DEFINE a == g[k - 1]
               b == ts[k]
    <3>1. a \in Written /\ b \in Written /\ g[k] = a \o b /\ Placed(t, i, g[k])
      BY <2>2
    <3> HIDE DEF a, b
    <3>2. Placed(t, i + Len(a), b) /\ i + Len(a \o b) = i + Len(a) + Len(b)
      BY <3>1, PlacedJoin
    <3> QED BY <3>1, <3>2 DEF a, b
  <2> QED BY <1>6, <2>1, <2>3
<1>10. o[0] = i
  <2>1. g[0] = <<>> /\ Len(<<>>) = 0
    BY <1>1 DEF Adds
  <2> QED BY <1>2, <1>6, <1>7, <2>1
<1>11. o[N] = i + Len(FlattenSeq(ts))
  BY <1>1, <1>2, <1>6
<1>12. Lies(t, ts, o)
  BY <1>8, <1>9 DEF Lies, N
<1> QED BY <1>10, <1>11, <1>12 DEF N

\* What print_string_ptr makes of a character: with a backslash, as four digits, or as it is.
LEMMA EscapesAre ==
  ASSUME NEW c \in Tokens
  PROVE  \/ c \in {"\"", "\\"} /\ Escape(c) = <<"\\", c>>
         \/ c \in DOMAIN Controls /\ Escape(c) = <<"\\", "u", Controls[c]>>
         \/ \E e \in DOMAIN ShortEscapes : ShortEscapes[e] = c /\ Escape(c) = <<"\\", e>>
         \/ c \notin {"\"", "\\"} /\ Escape(c) = <<c>>
<1>1. CASE c \in {"\"", "\\"}
  BY <1>1 DEF Escape
<1>2. CASE c \notin {"\"", "\\"} /\ c \in DOMAIN Controls
  BY <1>2 DEF Escape
<1>3. CASE c \notin {"\"", "\\"} /\ c \notin DOMAIN Controls /\ Short(c) # {}
  <2> DEFINE e == CHOOSE x \in Short(c) : TRUE
  <2>1. e \in Short(c) /\ Escape(c) = <<"\\", e>>
    BY <1>3 DEF Escape
  <2> HIDE DEF e
  <2>2. e \in DOMAIN ShortEscapes /\ ShortEscapes[e] = c
    BY <2>1 DEF Short
  <2> QED BY <2>1, <2>2
<1>4. CASE c \notin {"\"", "\\"} /\ c \notin DOMAIN Controls /\ Short(c) = {}
  BY <1>4 DEF Escape
<1> QED BY <1>1, <1>2, <1>3, <1>4

\* Two tokens, and three, in a text.
LEMMA PlacedFew ==
  ASSUME NEW t \in Written, NEW i, NEW x, NEW y
  PROVE  /\ Placed(t, i, <<x, y>>) => At(t, i) = x /\ At(t, i + 1) = y /\ i + 1 <= Len(t)
         /\ \A z : Placed(t, i, <<x, y, z>>) =>
                    At(t, i) = x /\ At(t, i + 1) = y /\ At(t, i + 2) = z /\ i + 2 <= Len(t)
<1>1. Len(t) \in Nat
  BY DEF Written
<1>2. ASSUME Placed(t, i, <<x, y>>) PROVE At(t, i) = x /\ At(t, i + 1) = y /\ i + 1 <= Len(t)
  <2>1. Len(<<x, y>>) = 2 /\ <<x, y>>[1] = x /\ <<x, y>>[2] = y
    OBVIOUS
  <2>2. i \in Nat \ {0} /\ i + 2 <= Len(t) + 1 /\ t[i + 1 - 1] = x /\ t[i + 2 - 1] = y
    BY <1>2, <2>1 DEF Placed
  <2>3. i + 1 - 1 = i /\ i + 2 - 1 = i + 1 /\ i + 1 <= Len(t) /\ i <= Len(t)
    BY <1>1, <2>2
  <2> QED BY <2>2, <2>3 DEF At
<1>3. ASSUME NEW z, Placed(t, i, <<x, y, z>>)
      PROVE  At(t, i) = x /\ At(t, i + 1) = y /\ At(t, i + 2) = z /\ i + 2 <= Len(t)
  <2>1. Len(<<x, y, z>>) = 3 /\ <<x, y, z>>[1] = x /\ <<x, y, z>>[2] = y /\ <<x, y, z>>[3] = z
    OBVIOUS
  <2>2. i \in Nat \ {0} /\ i + 3 <= Len(t) + 1 /\ t[i + 1 - 1] = x /\ t[i + 2 - 1] = y /\ t[i + 3 - 1] = z
    BY <1>3, <2>1 DEF Placed
  <2>3. i + 1 - 1 = i /\ i + 2 - 1 = i + 1 /\ i + 3 - 1 = i + 2 /\ i + 2 <= Len(t) /\ i + 1 <= Len(t) /\ i <= Len(t)
    BY <1>1, <2>2
  <2> QED BY <2>2, <2>3 DEF At
<1> QED BY <1>2, <1>3

\* The letters of the short escapes.
LEMMA ShortEscapesAre ==
  "u" \notin DOMAIN ShortEscapes /\ "\"" \notin DOMAIN ShortEscapes /\ "\\" \notin DOMAIN ShortEscapes
  /\ NoToken \notin DOMAIN ShortEscapes
<1>1. DOMAIN ShortEscapes = {"n", "r", "t", "f", "b"}
  BY DEF ShortEscapes
<1> QED BY <1>1 DEF NoToken

\* Reading takes an escape for the character it was made of.
LEMMA EscapeRead ==
  ASSUME NEW t \in Written, NEW i, NEW c \in Tokens, Placed(t, i, Escape(c)), NEW out \in Strings
  PROVE  /\ Unescaped(t, i, out) = Copied(i + Len(Escape(c)), Append(out, c)) /\ Len(Escape(c)) \in Nat \ {0}
<1>1. out \o <<c>> = Append(out, c) /\ i \in Nat \ {0} /\ c # NoToken
  <2>1. i \in Nat \ {0} /\ c # NoToken
    BY JsonAssumption DEF Placed
  <2>2. out \o <<c>> = Append(out, c)
    BY AppendIsConcat DEF Strings
  <2> QED BY <2>1, <2>2
<1> DEFINE quote == "\""
           back == "\\"
           u == "u"
<1>2. quote # NoToken /\ back # NoToken /\ back # quote /\ back # u
  BY Zenon DEF NoToken
<1>3. \A at, o : Unescaped(t, at, o) =
        CASE At(t, at) = NoToken -> Closed(at, o)
          [] At(t, at) = quote   -> Closed(at + 1, o)
          [] At(t, at) = back /\ At(t, at + 1) = u ->
               Copied(at + 1 + FromUtf16(t, at + 1).used, o \o FromUtf16(t, at + 1).out)
          [] At(t, at) = back /\ At(t, at + 1) # u -> Copied(at + 2, o \o Escaped(At(t, at + 1)))
          [] OTHER -> Copied(at + 1, Append(o, t[at]))
  BY DEF Unescaped
<1>4. u \notin DOMAIN ShortEscapes
  BY ShortEscapesAre
<1>5. \/ c \in {quote, back} /\ Escape(c) = <<back, c>>
      \/ c \in DOMAIN Controls /\ Escape(c) = <<back, u, Controls[c]>>
      \/ \E e \in DOMAIN ShortEscapes : ShortEscapes[e] = c /\ Escape(c) = <<back, e>>
      \/ c \notin {quote, back} /\ Escape(c) = <<c>>
  BY EscapesAre
<1>6. quote # u /\ quote \notin DOMAIN ShortEscapes /\ back \notin DOMAIN ShortEscapes
      /\ NoToken \notin DOMAIN ShortEscapes
  BY ShortEscapesAre
<1> HIDE DEF quote, back, u
<1>8. c \in DOMAIN Controls /\ Escape(c) = <<back, u, Controls[c]>> =>
        FromUtf16(t, i + 1) = [out |-> <<c>>, used |-> 2]
  <2> SUFFICES ASSUME c \in DOMAIN Controls, Escape(c) = <<back, u, Controls[c]>>
               PROVE  FromUtf16(t, i + 1) = [out |-> <<c>>, used |-> 2]
    OBVIOUS
  <2> DEFINE x == Controls[c]
             uc == parse_hex4(At(t, i + 1 + 1))
  <2>1. At(t, i + 2) = x /\ i + 1 + 1 = i + 2
    <3>1. Placed(t, i, <<back, u, x>>)
      OBVIOUS
    <3>2. \A z : Placed(t, i, <<back, u, z>>) => At(t, i + 2) = z
      BY PlacedFew
    <3>3. i + 1 + 1 = i + 2
      BY <1>1
    <3> QED BY Zenon, <3>1, <3>2, <3>3
  <2>2. x \in DOMAIN Hex /\ Utf8[Hex[x]] = c /\ Hex[x] \notin {0} \cup High \cup Low
    BY ReadingAssumption
  <2>3. uc = Hex[x]
    BY <2>1, <2>2 DEF parse_hex4
  <2> HIDE DEF uc, x
  <2>4. ~(uc = 0 \/ uc \in Low) /\ uc \notin High
    BY <2>2, <2>3
  <2>5. FromUtf16(t, i + 1) = [out |-> <<Utf8[uc]>>, used |-> 2]
    BY <2>4 DEF FromUtf16, uc
  <2> QED BY <2>2, <2>3, <2>5
<1>9. CASE c \in {quote, back} /\ Escape(c) = <<back, c>>
  <2>1. At(t, i) = back /\ At(t, i + 1) = c /\ Len(Escape(c)) = 2
    <3>1. Placed(t, i, <<back, c>>) /\ Len(<<back, c>>) = 2
      BY <1>9
    <3> QED BY <1>9, <3>1, PlacedFew
  <2>2. Escaped(c) = <<c>> /\ c # u
    BY <1>1, <1>2, <1>6, <1>9 DEF Escaped
  <2>3. Unescaped(t, i, out) = Copied(i + 2, out \o <<c>>)
    BY <1>2, <1>3, <2>1, <2>2
  <2>4. Unescaped(t, i, out) = Copied(i + Len(Escape(c)), Append(out, c))
    BY Zenon, <1>1, <2>1, <2>3
  <2> QED BY <2>1, <2>4
<1>10. CASE c \in DOMAIN Controls /\ Escape(c) = <<back, u, Controls[c]>>
  <2>1. At(t, i) = back /\ At(t, i + 1) = u /\ Len(Escape(c)) = 3
    <3>1. Placed(t, i, <<back, u, Controls[c]>>) /\ Len(<<back, u, Controls[c]>>) = 3
      BY <1>10
    <3> QED BY <1>10, <3>1, PlacedFew
  <2>2. FromUtf16(t, i + 1).used = 2 /\ FromUtf16(t, i + 1).out = <<c>>
    BY <1>8, <1>10
  <2>3. Unescaped(t, i, out) = Copied(i + 1 + 2, out \o <<c>>)
    BY <1>2, <1>3, <2>1, <2>2
  <2>4. i + 1 + 2 = i + 3
    BY <1>1
  <2>5. Unescaped(t, i, out) = Copied(i + Len(Escape(c)), Append(out, c))
    BY Zenon, <1>1, <2>1, <2>3, <2>4
  <2> QED BY <2>1, <2>5
<1>11. CASE \E e \in DOMAIN ShortEscapes : ShortEscapes[e] = c /\ Escape(c) = <<back, e>>
  <2>1. PICK e \in DOMAIN ShortEscapes : ShortEscapes[e] = c /\ Escape(c) = <<back, e>>
    BY <1>11
  <2>2. At(t, i) = back /\ At(t, i + 1) = e /\ Len(Escape(c)) = 2
    <3>1. Placed(t, i, <<back, e>>) /\ Len(<<back, e>>) = 2
      BY <2>1
    <3> QED BY <2>1, <3>1, PlacedFew
  <2>3. Escaped(e) = <<c>> /\ e # u
    BY <1>4, <1>6, <2>1 DEF Escaped
  <2>4. Unescaped(t, i, out) = Copied(i + 2, out \o <<c>>)
    BY <1>2, <1>3, <2>2, <2>3
  <2>5. Unescaped(t, i, out) = Copied(i + Len(Escape(c)), Append(out, c))
    BY Zenon, <1>1, <2>2, <2>4
  <2> QED BY <2>2, <2>5
<1>12. CASE c \notin {quote, back} /\ Escape(c) = <<c>>
  <2>1. At(t, i) = c /\ t[i] = c /\ Len(Escape(c)) = 1
    BY <1>12, PlacedOne
  <2>2. Unescaped(t, i, out) = Copied(i + 1, Append(out, c))
    BY <1>1, <1>3, <1>12, <2>1
  <2> QED BY <2>1, <2>2
<1> QED BY <1>5, <1>9, <1>10, <1>11, <1>12

\* From one number up to another.
LEMMA ClimbOn ==
  ASSUME NEW M \in Nat, NEW m \in 0..M, NEW S, m \in S, \A n \in 1..M : n - 1 \in S => n \in S
  PROVE  M \in S
<1> DEFINE T == {n \in 0..M - m : m + n \in S}
<1>1. 0 \in T
  <2>1. m + 0 = m /\ 0 \in 0..M - m
    OBVIOUS
  <2> QED BY <2>1
<1>2. ASSUME NEW n \in 1..M - m, n - 1 \in T PROVE n \in T
  <2>1. m + n \in 1..M /\ m + n - 1 = m + (n - 1) /\ n \in 0..M - m
    OBVIOUS
  <2>2. m + (n - 1) \in S
    BY <1>2
  <2> QED BY <2>1, <2>2
<1> HIDE DEF T
<1>3. M - m \in Nat /\ M - m \in 0..M - m /\ m + (M - m) = M
  OBVIOUS
<1>4. 0..M - m \subseteq T
  BY <1>1, <1>2, <1>3, Climb
<1> QED BY <1>3, <1>4 DEF T

\* A text that stands in another fits into it.
LEMMA PlacedWithin ==
  ASSUME NEW t \in Written, NEW i, NEW p \in Written, Placed(t, i, p)
  PROVE  /\ i \in Nat \ {0} /\ Len(p) \in Nat /\ Len(t) \in Nat /\ i + Len(p) <= Len(t) + 1
         /\ \A k \in i..i + Len(p) - 1 : k \in 1..Len(t) /\ t[k] = p[k - i + 1]
<1>1. Len(p) \in Nat /\ Len(t) \in Nat
  BY DEF Written
<1>2. i \in Nat \ {0} /\ i + Len(p) <= Len(t) + 1 /\ \A k \in 1..Len(p) : t[i + k - 1] = p[k]
  BY DEF Placed
<1>3. ASSUME NEW k \in i..i + Len(p) - 1 PROVE k \in 1..Len(t) /\ t[k] = p[k - i + 1]
  <2>1. k - i + 1 \in 1..Len(p) /\ i + (k - i + 1) - 1 = k /\ k \in 1..Len(t)
    BY <1>1, <1>2
  <2> QED BY <1>2, <2>1
<1> QED BY <1>1, <1>2, <1>3

\* A string that was written is read back to its end.
LEMMA StringPlaced ==
  ASSUME NEW t \in Written, NEW i, NEW s \in Strings, NEW p, p = print_string_ptr(s), Placed(t, i, p)
  PROVE  /\ parse_string(t, i) = Got(i + Len(p), cJSON_CreateString(s)) /\ At(t, i) = "\"" /\ p \in Written
         /\ Len(p) \in Nat \ {0}
<1> DEFINE N == Len(s)
           quote == "\""
           a == <<quote>>
           ts == [k \in DOMAIN s |-> Escape(s[k])]
           w == FlattenSeq(ts)
           e == i + 1 + Len(w)
<1>1. N \in Nat /\ DOMAIN s = 1..N /\ \A k \in 1..N : s[k] \in Tokens
  BY TextIs
<1>2. \A k \in 1..N : Escape(s[k]) \in Written
  BY <1>1, EscapeIs
<1>3. ts \in Seq(Written) /\ Len(ts) = N /\ \A k \in 1..N : ts[k] = Escape(s[k])
  BY <1>1, <1>2
<1>4. p = (a \o w) \o a
  BY DEF print_string_ptr
<1>5. a \in Written /\ Len(a) = 1
  BY MarksAre DEF Marks
<1>7. \A at, o : At(t, at) = quote /\ quote # NoToken => Unescaped(t, at, o) = Closed(at + 1, o)
  BY DEF Unescaped
<1>8. quote # NoToken
  BY DEF NoToken
<1>9. i \in Nat \ {0} /\ Len(t) \in Nat
  BY DEF Placed, Written
<1>10. PICK turn : Turns(t, i, turn) /\ parse_string(t, i) = IF At(t, i) # quote THEN Fail(i)
                     ELSE IF Outside(t, turn[Len(t)].at) THEN Fail(turn[Len(t)].at)
                     ELSE Got(turn[Len(t)].at, cJSON_CreateString(turn[Len(t)].out))
  BY <1>9, TurnsExist
<1> HIDE DEF quote, a, ts, N
<1>11. w \in Written
  BY <1>3, FlatIs
<1> HIDE DEF w
<1>12. /\ Placed(t, i, a) /\ Placed(t, i + 1, w) /\ Placed(t, e, a) /\ i + Len(p) = e + 1
       /\ Len(w) \in Nat /\ p \in Written
  <2>1. a \o w \in Written /\ p \in Written
    BY <1>4, <1>5, <1>11, BytesAre
  <2> DEFINE b == a \o w
  <2>0. a \in Written /\ b \in Written
    BY <1>5, <2>1
  <2>2. b = a \o w /\ b \in Written /\ p = b \o a
    BY <1>4, <2>1
  <2> HIDE DEF b
  <2>3. Placed(t, i, b) /\ Placed(t, i + Len(b), a) /\ i + Len(p) = i + Len(b) + 1
    <3>1. Placed(t, i, b \o a)
      BY <2>2
    <3>2. Placed(t, i, b) /\ Placed(t, i + Len(b), a) /\ i + Len(b \o a) = i + Len(b) + Len(a)
      BY <2>0, <3>1, PlacedJoin
    <3> QED BY <1>5, <2>2, <3>2
  <2>4. Placed(t, i, a) /\ Placed(t, i + 1, w) /\ i + Len(b) = i + 1 + Len(w)
    <3>1. Placed(t, i, a \o w)
      BY <2>2, <2>3
    <3>2. Placed(t, i, a) /\ Placed(t, i + Len(a), w) /\ i + Len(a \o w) = i + Len(a) + Len(w)
      BY <2>0, <1>11, <3>1, PlacedJoin
    <3> QED BY <1>5, <2>2, <3>2
  <2>5. Len(w) \in Nat
    BY <1>11, PlacedWithin, <2>4
  <2> QED BY <2>1, <2>3, <2>4, <2>5
<1>13. At(t, i) = quote /\ At(t, e) = quote /\ e \in 1..Len(t)
  BY <1>12, PlacedOne DEF a
<1>14. PICK o : Lies(t, ts, o) /\ o[0] = i + 1 /\ o[N] = e
  <2> HIDE DEF e
  <2> QED BY <1>3, <1>11, <1>12, LiesThere DEF w, e
<1> HIDE DEF e
<1>15. \A k \in 1..N : /\ o[k] = o[k - 1] + Len(Escape(s[k])) /\ Placed(t, o[k - 1], Escape(s[k]))
                       /\ o[k - 1] \in Nat \ {0}
  <2>1. \A k \in 1..N : k - 1 \in 0..N
    BY <1>1
  <2> QED BY <1>3, <1>14, <2>1 DEF Lies
<1> DEFINE S == {k \in 0..N : o[k] >= i + 1 + k}
<1>16. 0..N \subseteq S
  <2>1. 0 \in S
    BY <1>1, <1>9, <1>14
  <2>2. ASSUME NEW k \in 1..N, k - 1 \in S PROVE k \in S
    <3>1. Len(Escape(s[k])) \in Nat \ {0}
      <4>1. <<>> \in Strings
        BY DEF Strings
      <4> QED BY <1>1, <1>15, <4>1, EscapeRead
    <3>2. o[k - 1] >= i + 1 + (k - 1) /\ k \in 0..N
      BY <1>1, <2>2
    <3> QED BY <1>9, <1>15, <3>1, <3>2
  <2> HIDE DEF S
  <2> QED BY <1>1, <2>1, <2>2, Climb
<1>17. N + 1 \in 1..Len(t)
  <2>1. N \in 0..N
    BY <1>1
  <2>2. o[N] >= i + 1 + N
    BY <1>16, <2>1
  <2> QED BY <1>1, <1>9, <1>13, <1>14, <2>2
<1> DEFINE T == {k \in 0..N : turn[k] = Copied(o[k], SubSeq(s, 1, k))}
<1>18. 0..N \subseteq T
  <2>1. 0 \in T
    <3>1. SubSeq(s, 1, 0) = <<>>
      BY SubSeqEmpty, <1>1 DEF Strings
    <3>2. turn[0] = Copied(i + 1, <<>>)
      BY <1>10 DEF Turns
    <3>3. turn[0] = Copied(o[0], SubSeq(s, 1, 0))
      BY <1>14, <3>1, <3>2
    <3> QED BY <1>1, <3>3
  <2>2. ASSUME NEW k \in 1..N, k - 1 \in T PROVE k \in T
    <3> DEFINE out == SubSeq(s, 1, k - 1)
    <3>1. turn[k - 1] = Copied(o[k - 1], out) /\ k \in 1..Len(t) /\ k \in 0..N
      BY <1>1, <1>9, <1>17, <2>2
    <3>2. turn[k - 1].open /\ turn[k - 1].at = o[k - 1] /\ turn[k - 1].out = out
      <4> HIDE DEF out, T
      <4> QED BY <3>1, StatesAre
    <3>3. turn[k] = Unescaped(t, o[k - 1], out)
      <4> HIDE DEF out, T
      <4> QED BY <1>10, <3>1, <3>2 DEF Turns
    <3>4. out \in Strings /\ Append(out, s[k]) = SubSeq(s, 1, k)
      BY <1>1 DEF Strings, N
    <3>5. Unescaped(t, o[k - 1], out) = Copied(o[k], Append(out, s[k]))
      <4> HIDE DEF out, T
      <4>1. s[k] \in Tokens
        BY <1>1
      <4>2. Placed(t, o[k - 1], Escape(s[k])) /\ o[k] = o[k - 1] + Len(Escape(s[k]))
        BY <1>15
      <4> DEFINE c == s[k]
                 a1 == o[k - 1]
                 L == Len(Escape(c))
      <4>3. c \in Tokens /\ Placed(t, a1, Escape(c)) /\ out \in Strings
        BY <3>4, <4>1, <4>2
      <4>4. o[k] = a1 + L
        BY <4>2
      <4> HIDE DEF c, a1
      <4>5. Unescaped(t, a1, out) = Copied(a1 + L, Append(out, c))
        BY <4>3, EscapeRead
      <4> QED BY Zenon, <4>4, <4>5 DEF c, a1
    <3> QED BY <3>1, <3>3, <3>4, <3>5
  <2> HIDE DEF T
  <2> QED BY <1>1, <2>1, <2>2, Climb
<1>19. turn[N] = Copied(e, s)
  <2>1. N \in T
    BY <1>1, <1>18
  <2>2. SubSeq(s, 1, N) = s
    BY <1>1 DEF Strings, N
  <2> QED BY <1>14, <2>1, <2>2
<1> DEFINE x == Closed(e + 1, s)
<1>20. turn[N + 1] = x
  <2>1. N + 1 - 1 = N
    BY <1>1
  <2>2. turn[N + 1] = Unescaped(t, e, s)
    <3>1. turn[N].open /\ turn[N].at = e /\ turn[N].out = s
      BY <1>19, StatesAre
    <3> DEFINE m == N + 1
    <3>0. m \in 1..Len(t) /\ m - 1 = N
      BY <1>1, <1>17
    <3> HIDE DEF m
    <3>2. turn[m] = IF turn[m - 1].open THEN Unescaped(t, turn[m - 1].at, turn[m - 1].out) ELSE turn[m - 1]
      <4>1. \A n \in 1..Len(t) :
              turn[n] = IF turn[n - 1].open THEN Unescaped(t, turn[n - 1].at, turn[n - 1].out) ELSE turn[n - 1]
        BY <1>10 DEF Turns
      <4> QED BY <3>0, <4>1
    <3>3. turn[m] = Unescaped(t, e, s)
      BY <3>0, <3>1, <3>2
    <3> QED BY <3>3 DEF m
  <2> QED BY <1>7, <1>8, <1>13, <2>2
<1>21. turn[Len(t)] = x
  <2> DEFINE M == Len(t)
             E == {n \in 0..M : turn[n] = x}
  <2>1. \A n \in 1..M : turn[n - 1] = x => turn[n] = x
    <3>1. ~x.open
      BY StatesAre
    <3> HIDE DEF x
    <3> QED BY <1>10, <3>1 DEF Turns
  <2> HIDE DEF x
  <2>2. M \in Nat /\ N + 1 \in 0..M /\ N + 1 \in E
    BY <1>9, <1>17, <1>20
  <2>3. \A n \in 1..M : n - 1 \in E => n \in E
    BY <2>1, <2>2
  <2> HIDE DEF M, E
  <2>4. M \in E
    BY <2>2, <2>3, ClimbOn
  <2> QED BY <2>4 DEF M, E
<1>22. parse_string(t, i) = Got(e + 1, cJSON_CreateString(s))
  <2>1. turn[Len(t)].at = e + 1 /\ turn[Len(t)].out = s
    BY <1>21, StatesAre
  <2>2. ~Outside(t, e + 1)
    BY <1>9, <1>13 DEF Outside
  <2> HIDE DEF x
  <2> QED BY <1>10, <1>13, <2>1, <2>2
<1>23. Len(p) \in Nat \ {0}
  <2>1. Len(p) \in Nat
    BY <1>12 DEF Written
  <2> QED BY <1>9, <1>12, <2>1 DEF e
<1> QED BY <1>12, <1>13, <1>22, <1>23 DEF quote

\* It ends where its text does.
LEMMA StringEnds ==
  ASSUME NEW t \in Written, NEW i, NEW s \in Strings, NEW p, p = print_string_ptr(s), Placed(t, i, p)
  PROVE  parse_string(t, i) = Got(i + Len(p), cJSON_CreateString(s))
BY StringPlaced

(***************************************************************************)
(* Minifying what is printed with blanks.                                  *)
(***************************************************************************)
\* cJSON_Minify has come to i and has written out, with a turn left for the end.
Reached(t, turn, i, out) == \E m \in 0..Len(t) : m < i /\ turn[m] = Copied(i, out)
\* Wherever the text p stands, cJSON_Minify makes b of it.
Minifies(p, b) ==
  \A t, out \in Written : \A turn, i :
    Bares(t, turn) /\ Placed(t, i, p) /\ Reached(t, turn, i, out) => Reached(t, turn, i + Len(p), out \o b)

\* A turn of cJSON_Minify that is not the last.
LEMMA MinifyGoes ==
  ASSUME NEW t \in Written, NEW turn, Bares(t, turn), NEW i \in 1..Len(t), NEW out, Reached(t, turn, i, out),
         NEW j \in Nat, i < j, NEW b, Bared(t, i, out) = Copied(j, b)
  PROVE  Reached(t, turn, j, b)
<1>1. Len(t) \in Nat
  BY DEF Written
<1>2. PICK m \in 0..Len(t) : m < i /\ turn[m] = Copied(i, out)
  BY DEF Reached
<1> DEFINE n == m + 1
<1>3. n \in 1..Len(t) /\ n - 1 = m /\ n < j /\ n \in 0..Len(t)
  BY <1>1, <1>2
<1> HIDE DEF n
<1>4. turn[m].open /\ turn[m].at = i /\ turn[m].out = out
  BY <1>2, StatesAre
<1>5. turn[n] = IF turn[n - 1].open THEN Bared(t, turn[n - 1].at, turn[n - 1].out) ELSE turn[n - 1]
  BY <1>3 DEF Bares
<1>6. turn[n] = Copied(j, b)
  BY <1>3, <1>4, <1>5
<1> QED BY <1>3, <1>6 DEF Reached

\* Nothing stays nothing.
LEMMA MinifyNothing == Minifies(<<>>, <<>>)
<1> SUFFICES ASSUME NEW t \in Written, NEW turn, NEW i, NEW out \in Written, Placed(t, i, <<>>), Reached(t, turn, i, out)
             PROVE  Reached(t, turn, i + Len(<<>>), out \o <<>>)
  BY DEF Minifies
<1>1. i \in Nat \ {0} /\ Len(<<>>) = 0 /\ out \o <<>> = out
  BY DEF Placed, Written
<1>2. i + Len(<<>>) = i
  BY <1>1
<1> QED BY <1>1, <1>2

\* A blank goes.
LEMMA MinifyBlank == ASSUME NEW x \in Blanks PROVE Minifies(<<x>>, <<>>)
<1> SUFFICES ASSUME NEW t \in Written, NEW turn, NEW i, NEW out \in Written,
                    Bares(t, turn), Placed(t, i, <<x>>), Reached(t, turn, i, out)
             PROVE  Reached(t, turn, i + Len(<<x>>), out \o <<>>)
  BY DEF Minifies
<1>1. i \in 1..Len(t) /\ At(t, i) = x /\ Len(<<x>>) = 1
  BY PlacedOne
<1>2. x # NoToken
  BY DEF Blanks, NoToken, Space
<1>3. Bared(t, i, out) = Copied(i + 1, out)
  BY <1>1, <1>2 DEF Bared
<1>4. i + 1 \in Nat /\ i < i + 1 /\ out \o <<>> = out
  BY <1>1 DEF Written
<1>5. Reached(t, turn, i + 1, out)
  BY <1>1, <1>3, <1>4, MinifyGoes
<1> QED BY <1>1, <1>4, <1>5

\* What cJSON_Minify does not just copy.
Special == Blanks \cup {NoToken, "//", "/*", "\""}
\* A token that is neither a blank nor begins a comment or a string is written again.
LEMMA MinifyToken ==
  ASSUME NEW x, x \notin Special
  PROVE  Minifies(<<x>>, <<x>>)
<1> SUFFICES ASSUME NEW t \in Written, NEW turn, NEW i, NEW out \in Written,
                    Bares(t, turn), Placed(t, i, <<x>>), Reached(t, turn, i, out)
             PROVE  Reached(t, turn, i + Len(<<x>>), out \o <<x>>)
  BY DEF Minifies
<1>1. i \in 1..Len(t) /\ At(t, i) = x /\ t[i] = x /\ Len(<<x>>) = 1 /\ x \in Spellings
  <2>1. i \in 1..Len(t) /\ At(t, i) = x /\ t[i] = x /\ Len(<<x>>) = 1
    BY PlacedOne
  <2>2. \A k \in 1..Len(t) : t[k] \in Spellings
    BY DEF Written
  <2> QED BY <2>1, <2>2
<1>2. Bared(t, i, out) = Copied(i + 1, Append(out, x))
  BY <1>1 DEF Bared, Special
<1>3. i + 1 \in Nat /\ i < i + 1
  <2>1. Len(t) \in Nat
    BY DEF Written
  <2> QED BY <1>1, <2>1
<1>4. Append(out, x) = out \o <<x>>
  BY <1>1, AppendIsConcat DEF Written
<1> DEFINE b == Append(out, x)
<1>5. Reached(t, turn, i + 1, b)
  <2> HIDE DEF b
  <2>1. Bared(t, i, out) = Copied(i + 1, b)
    BY <1>2 DEF b
  <2> QED BY <1>1, <1>3, <2>1, MinifyGoes
<1> QED BY Zenon, <1>1, <1>4, <1>5

\* A string stays as it is.
LEMMA MinifyString ==
  ASSUME NEW s \in Strings
  PROVE  Minifies(print_string_ptr(s), print_string_ptr(s))
<1> DEFINE p == print_string_ptr(s)
           quote == "\""
<1> SUFFICES ASSUME NEW t \in Written, NEW turn, NEW i, NEW out \in Written,
                    Bares(t, turn), Placed(t, i, p), Reached(t, turn, i, out)
             PROVE  Reached(t, turn, i + Len(p), out \o p)
  BY DEF Minifies
<1> HIDE DEF p
<1>1. /\ parse_string(t, i) = Got(i + Len(p), cJSON_CreateString(s)) /\ At(t, i) = quote /\ p \in Written
      /\ Len(p) \in Nat \ {0}
  BY StringPlaced DEF p
<1> HIDE DEF quote
<1>2. i \in Nat \ {0} /\ Len(t) \in Nat /\ i + Len(p) <= Len(t) + 1
      /\ \A k \in i..i + Len(p) - 1 : k \in 1..Len(t) /\ t[k] = p[k - i + 1]
  BY <1>1, PlacedWithin
<1> DEFINE end == i + Len(p)
           S == {end - 1, Len(t)}
<1>3. BehindString(t, i) = end /\ Min(S) = end - 1
  <2> DEFINE u == Append(t, quote)
  <2>1. u \in Written /\ Placed(u, i, p)
    <3>1. quote \in Spellings
      BY DEF Spellings, Marks, quote
    <3>2. u \in Written /\ Len(u) = Len(t) + 1 /\ \A k \in 1..Len(t) : u[k] = t[k]
      BY <3>1 DEF Written
    <3> HIDE DEF u
    <3>3. \A k \in 1..Len(p) : i + k - 1 \in 1..Len(t) /\ t[i + k - 1] = p[k]
      BY <1>1, <1>2 DEF Placed
    <3>4. \A k \in 1..Len(p) : u[i + k - 1] = p[k]
      BY <3>2, <3>3
    <3> QED BY <1>1, <1>2, <3>2, <3>4 DEF Placed
  <2> HIDE DEF u
  <2>2. parse_string(u, i) = Got(i + Len(p), cJSON_CreateString(s))
    <3>1. u \in Written /\ Placed(u, i, p) /\ s \in Strings /\ p = print_string_ptr(s)
      BY <2>1 DEF p
    <3> HIDE DEF S, end
    <3> QED BY <3>1, StringEnds
  <2>3. BehindString(t, i) = end
    <3>1. BehindString(t, i) = parse_string(u, i).at
      BY DEF BehindString, u, quote
    <3> QED BY <2>2, <3>1 DEF Got
  <2>4. Min(S) = CHOOSE x \in S : \A y \in S : x <= y
    BY DEF Min
  <2>5. end - 1 \in S /\ (\A y \in S : end - 1 <= y) /\ end - 1 \in Nat /\ \A x \in S : x \in Nat
    BY <1>1, <1>2
  <2> HIDE DEF S, end
  <2>6. \A x \in S : (\A y \in S : x <= y) => x = end - 1
    BY <2>5
  <2> QED BY <2>3, <2>4, <2>5, <2>6
<1>4. quote # NoToken /\ quote \notin Blanks /\ quote # "//" /\ quote # "/*"
  BY DEF NoToken, Blanks, Space, quote
<1>5. Bared(t, i, out) = Copied(end, out \o SubSeq(t, i, end - 1))
  <2>1. \A o : At(t, i) = quote /\ quote # NoToken /\ quote \notin Blanks /\ quote # "//" /\ quote # "/*" =>
          Bared(t, i, o) = Copied(BehindString(t, i), o \o SubSeq(t, i, Min({BehindString(t, i) - 1, Len(t)})))
    BY DEF Bared, quote
  <2>2. {BehindString(t, i) - 1, Len(t)} = S
    BY <1>3
  <2> HIDE DEF S, end
  <2> QED BY <1>1, <1>3, <1>4, <2>1, <2>2
<1>6. SubSeq(t, i, end - 1) = p
  <2> DEFINE q == SubSeq(t, i, end - 1)
  <2>1. end - 1 \in Nat /\ end - 1 <= Len(t) /\ (end - 1) - i + 1 = Len(p) /\ i <= end - 1
    BY <1>1, <1>2
  <2>2. q \in Written /\ Len(q) = Len(p) /\ \A k \in 1..Len(p) : q[k] = t[i + k - 1]
    <3> HIDE DEF end
    <3>1. t \in Seq(Spellings) /\ \A k \in i..end - 1 : t[k] \in Spellings
      BY <1>2, <2>1 DEF Written
    <3>2. i \in Nat \ {0} /\ end - 1 \in Nat /\ Len(p) \in Nat
      BY <1>1, <1>2, <2>1
    <3> QED BY <2>1, <3>1, <3>2, SubSeqProperties DEF Written
  <2> HIDE DEF q
  <2>3. \A k \in 1..Len(p) : i + k - 1 \in i..end - 1 /\ (i + k - 1) - i + 1 = k
    BY <1>1, <1>2
  <2>4. ASSUME NEW k \in 1..Len(p) PROVE q[k] = p[k]
    <3> DEFINE j == i + k - 1
    <3>1. j \in i..end - 1
      BY <2>3
    <3>2. j - i + 1 = k
      BY <2>3
    <3>3. q[k] = t[j]
      BY <2>2
    <3> HIDE DEF j
    <3>4. t[j] = p[j - i + 1]
      BY <1>2, <3>1
    <3> QED BY <3>2, <3>3, <3>4
  <2>5. q = p
    BY <1>1, <2>2, <2>4, SeqEqual DEF Written
  <2> QED BY <2>5 DEF q
<1>7. i \in 1..Len(t) /\ end \in Nat /\ i < end
  BY <1>1, <1>2
<1> DEFINE b == out \o p
<1>8. Bared(t, i, out) = Copied(end, b)
  BY <1>5, <1>6
<1> HIDE DEF end, b
<1>9. Reached(t, turn, end, b)
  BY <1>7, <1>8, MinifyGoes
<1> QED BY <1>9 DEF end, b

\* Texts one behind the other are minified one behind the other.
LEMMA MinifyJoin ==
  ASSUME NEW a \in Written, NEW b \in Written, NEW x \in Written, NEW y \in Written, Minifies(a, x), Minifies(b, y)
  PROVE  Minifies(a \o b, x \o y) /\ a \o b \in Written /\ x \o y \in Written
<1>1. a \o b \in Written /\ x \o y \in Written
  BY BytesAre
<1> SUFFICES ASSUME NEW t \in Written, NEW turn, NEW i, NEW out \in Written,
                    Bares(t, turn), Placed(t, i, a \o b), Reached(t, turn, i, out)
             PROVE  Reached(t, turn, i + Len(a \o b), out \o (x \o y))
  BY <1>1 DEF Minifies
<1>2. Placed(t, i, a) /\ Placed(t, i + Len(a), b) /\ i + Len(a \o b) = i + Len(a) + Len(b)
  BY PlacedJoin
<1> DEFINE o1 == out \o x
           o2 == o1 \o y
           j == i + Len(a)
<1>3. o1 \in Written
  BY BytesAre
<1>4. Reached(t, turn, j, o1)
  BY Zenon, <1>2 DEF Minifies
<1>5. o2 = out \o (x \o y)
  <2>1. EitherWay(out, x, y)
    BY GroupedEitherWay DEF Written
  <2> QED BY <2>1 DEF EitherWay
<1> HIDE DEF o1, j
<1>6. Reached(t, turn, j + Len(b), o2)
  <2>1. Placed(t, j, b)
    BY <1>2 DEF j
  <2> QED BY Zenon, <1>3, <1>4, <2>1 DEF Minifies
<1>7. j + Len(b) = i + Len(a \o b)
  BY <1>2 DEF j
<1> HIDE DEF o2
<1> QED BY Zenon, <1>5, <1>6, <1>7

\* The same for three texts.
LEMMA MinifyThree ==
  ASSUME NEW a \in Written, NEW b \in Written, NEW c \in Written,
         NEW x \in Written, NEW y \in Written, NEW z \in Written, Minifies(a, x), Minifies(b, y), Minifies(c, z)
  PROVE  Minifies(a \o b \o c, x \o y \o z) /\ a \o b \o c \in Written /\ x \o y \o z \in Written
<1> DEFINE p == a \o b
           q == x \o y
<1>1. Minifies(p, q) /\ p \in Written /\ q \in Written
  BY MinifyJoin
<1> HIDE DEF p, q
<1>2. Minifies(p \o c, q \o z) /\ p \o c \in Written /\ q \o z \in Written
  BY <1>1, MinifyJoin
<1> QED BY <1>2 DEF p, q

\* The same for a sequence of texts.
LEMMA MinifyFlat ==
  ASSUME NEW ts \in Seq(Written), NEW us \in Seq(Written), Len(us) = Len(ts),
         \A k \in 1..Len(ts) : Minifies(ts[k], us[k])
  PROVE  /\ Minifies(FlattenSeq(ts), FlattenSeq(us))
         /\ FlattenSeq(ts) \in Written /\ FlattenSeq(us) \in Written
<1> DEFINE N == Len(ts)
<1>1. PICK g : Adds(ts, g) /\ FlattenSeq(ts) = g[N] /\ \A n \in 0..N : g[n] \in Written
  BY AddsExist
<1>2. PICK h : Adds(us, h) /\ FlattenSeq(us) = h[N] /\ \A n \in 0..N : h[n] \in Written
  BY AddsExist
<1>3. N \in Nat /\ \A k \in 1..N : ts[k] \in Written /\ us[k] \in Written /\ Minifies(ts[k], us[k])
  OBVIOUS
<1> DEFINE S == {n \in 0..N : Minifies(g[n], h[n])}
<1>4. Len(us) = N
  OBVIOUS
<1>5. 0 \in S
  <2>1. g[0] = <<>> /\ h[0] = <<>>
    BY <1>1, <1>2 DEF Adds
  <2> QED BY <1>3, <2>1, MinifyNothing
<1> HIDE DEF N
<1>6. ASSUME NEW n \in 1..N, n - 1 \in S PROVE n \in S
  <2>1. g[n] = g[n - 1] \o ts[n] /\ h[n] = h[n - 1] \o us[n]
    <3>1. \A k \in 1..N : g[k] = g[k - 1] \o ts[k]
      BY <1>1 DEF Adds, N
    <3>2. \A k \in 1..N : h[k] = h[k - 1] \o us[k]
      BY <1>2, <1>4 DEF Adds, N
    <3> QED BY <3>1, <3>2
  <2> DEFINE a == g[n - 1]
             b == ts[n]
             x == h[n - 1]
             y == us[n]
  <2>2. a \in Written /\ b \in Written /\ x \in Written /\ y \in Written /\ Minifies(a, x) /\ Minifies(b, y)
    <3>1. n - 1 \in 0..N
      BY <1>3
    <3> QED BY <1>1, <1>2, <1>3, <1>6, <3>1
  <2>3. g[n] = a \o b /\ h[n] = x \o y /\ n \in 0..N
    BY <1>3, <2>1
  <2> HIDE DEF a, b, x, y, S
  <2>4. Minifies(a \o b, x \o y)
    BY <2>2, MinifyJoin
  <2> QED BY <2>3, <2>4 DEF S
<1> HIDE DEF S
<1>7. 0..N \subseteq S /\ N \in 0..N
  <2>1. 0..N \subseteq S
    BY <1>3, <1>5, <1>6, Climb
  <2> QED BY <1>3, <2>1
<1>8. Minifies(g[N], h[N])
  BY <1>7 DEF S
<1> QED BY <1>1, <1>2, <1>7, <1>8

\* One tab more.
LEMMA TabAdded ==
  ASSUME NEW m \in Nat \ {0}
  PROVE  Tabs(m) = Tabs(m - 1) \o <<"\t">>
<1> DEFINE tab == "\t"
           q == [i \in 1..m - 1 |-> tab]
<1>1. tab \in Spellings
  BY DEF Spellings, Marks
<1>2. \A n : Tabs(n) = [i \in 1..n |-> tab]
  BY DEF Tabs
<1> HIDE DEF tab
<1>3. q \in Seq(Spellings) /\ Len(q) = m - 1 /\ \A i \in 1..m - 1 : q[i] = tab
  BY <1>1
<1>4. [i \in 1..m |-> tab] = Append(q, tab)
  <2>1. /\ Append(q, tab) \in Seq(Spellings) /\ Len(Append(q, tab)) = m
        /\ \A i \in 1..m : Append(q, tab)[i] = tab
    <3> HIDE DEF q
    <3> QED BY <1>1, <1>3
  <2>2. [i \in 1..m |-> tab] \in Seq(Spellings) /\ Len([i \in 1..m |-> tab]) = m
    BY <1>1
  <2> HIDE DEF q
  <2> QED BY <2>1, <2>2, SeqEqual
<1>5. Append(q, tab) = q \o <<tab>>
  <2> HIDE DEF q
  <2> QED BY <1>1, <1>3, AppendIsConcat
<1> QED BY <1>2, <1>4, <1>5 DEF tab

\* Tabs go.
LEMMA MinifyTabs ==
  ASSUME NEW n \in Nat
  PROVE  Minifies(Tabs(n), <<>>) /\ Tabs(n) \in Written
<1> DEFINE S == {m \in 0..n : Minifies(Tabs(m), <<>>)}
           tab == "\t"
<1>1. Minifies(<<tab>>, <<>>) /\ <<tab>> \in Written
  <2>1. tab \in Blanks /\ tab \in Marks
    BY DEF Blanks, Marks
  <2> QED BY <2>1, MinifyBlank, MarksAre
<1>2. \A m \in Nat \ {0} : Tabs(m) = Tabs(m - 1) \o <<tab>>
  BY TabAdded
<1> DEFINE a == <<tab>>
<1> HIDE DEF tab
<1>3. 0 \in S
  <2>1. Tabs(0) = <<>>
    BY DEF Tabs
  <2> QED BY <2>1, MinifyNothing
<1>4. ASSUME NEW m \in 1..n, m - 1 \in S PROVE m \in S
  <2> DEFINE b == Tabs(m - 1)
             e == <<>>
  <2>1. Tabs(m) = b \o a /\ Minifies(b, e) /\ Minifies(a, e) /\ a \in Written
    <3>1. m \in Nat \ {0} /\ Minifies(Tabs(m - 1), <<>>)
      BY <1>4
    <3> QED BY Zenon, <1>1, <1>2, <3>1
  <2>2. b \in Written /\ e \in Written /\ e \o e = e
    <3>1. m - 1 \in Nat
      OBVIOUS
    <3> QED BY <3>1, TabsAre, BytesAre
  <2> HIDE DEF a, b, e, S
  <2>3. Minifies(b \o a, e \o e)
    BY <2>1, <2>2, MinifyJoin
  <2>4. Minifies(Tabs(m), e)
    BY Zenon, <2>1, <2>2, <2>3
  <2> QED BY <2>4 DEF S, e
<1> HIDE DEF S
<1>5. 0..n \subseteq S
  BY <1>3, <1>4, Climb
<1>6. n \in S
  BY <1>5
<1> QED BY <1>6, TabsAre DEF S

\* Punctuation and words.
LEMMA MinifyWord ==
  /\ \A x \in {"[", "]", "{", "}", ",", ":", "null", "false", "true"} : Minifies(<<x>>, <<x>>) /\ <<x>> \in Written
  /\ \A v \in Numbers : Minifies(<<print_number(v)>>, <<print_number(v)>>) /\ <<print_number(v)>> \in Written
<1>1. \A x \in {"[", "]", "{", "}", ",", ":", "null", "false", "true"} : x \notin Special /\ x \in Marks \cup Types
  BY Zenon DEF Special, Blanks, NoToken, Space, Marks, Types
<1>2. \A x \in Marks \cup Types : <<x>> \in Written
  BY BytesAre DEF Spellings
<1>3. ASSUME NEW v \in Numbers PROVE print_number(v) \notin Special /\ print_number(v) \in Spellings
  <2> DEFINE x == print_number(v)
  <2>1. x \in DOMAIN Parsed /\ DOMAIN Parsed \cap Punctuation = {} /\ x \in Spellings
    BY ReadingAssumption DEF Spellings
  <2>2. x # NoToken
    BY <2>1, JsonAssumption
  <2> HIDE DEF x
  <2>3. Special \subseteq Punctuation \cup {NoToken}
    BY Zenon DEF Special, Punctuation
  <2> QED BY <2>1, <2>2, <2>3 DEF x
<1>4. \A v \in Numbers : <<print_number(v)>> \in Written
  BY <1>3, BytesAre
<1> QED BY <1>1, <1>2, <1>3, <1>4, MinifyToken

\* Two tokens are one and the other.
LEMMA TwoJoin ==
  ASSUME NEW x \in Spellings, NEW y \in Spellings
  PROVE  <<x, y>> = <<x>> \o <<y>>
<1>1. <<x, y>> = Append(<<x>>, y) /\ <<x>> \in Seq(Spellings)
  OBVIOUS
<1> QED BY <1>1, AppendIsConcat

\* An array.
LEMMA MinifyArray ==
  ASSUME NEW texts \in Seq(Written), NEW bares \in Seq(Written), Len(bares) = Len(texts),
         \A k \in 1..Len(texts) : Minifies(texts[k], bares[k])
  PROVE  Minifies(print_array(texts, TRUE), print_array(bares, FALSE))
<1> DEFINE N == Len(texts)
           comma == <<",">>
           both == <<",", Space>>
           ts == [k \in 1..N |-> texts[k] \o (IF k = N THEN <<>> ELSE both)]
           us == [k \in 1..N |-> bares[k] \o (IF k = N THEN <<>> ELSE comma)]
           open == <<"[">>
           close == <<"]">>
<1>1. N \in Nat /\ \A k \in 1..N : texts[k] \in Written /\ bares[k] \in Written /\ Minifies(texts[k], bares[k])
  OBVIOUS
<1>2. Minifies(comma, comma) /\ comma \in Written /\ Minifies(open, open) /\ open \in Written
      /\ Minifies(close, close) /\ close \in Written
  BY MinifyWord
<1>3. Minifies(both, comma) /\ both \in Written
  <2> DEFINE blank == <<Space>>
             none == <<>>
             c == ","
  <2>1. Minifies(blank, none) /\ blank \in Written /\ none \in Written
    <3>1. Space \in Blanks /\ Space \in Marks
      BY DEF Blanks, Marks
    <3> QED BY <3>1, MinifyBlank, MarksAre, BytesAre
  <2>2. both = comma \o blank /\ comma \o none = comma
    <3>1. both = <<c, Space>> /\ comma = <<c>>
      OBVIOUS
    <3> HIDE DEF c, comma, both
    <3>2. c \in Spellings /\ Space \in Spellings /\ comma \in Written
      BY <1>2 DEF Spellings, Marks, c
    <3>3. <<c, Space>> = <<c>> \o <<Space>>
      BY <3>2, TwoJoin
    <3>4. comma \o none = comma
      BY <3>2 DEF Written
    <3> QED BY Zenon, <3>1, <3>3, <3>4
  <2> HIDE DEF blank, none, both, comma
  <2>3. Minifies(comma \o blank, comma \o none) /\ comma \o blank \in Written
    BY <1>2, <2>1, MinifyJoin
  <2> QED BY Zenon, <2>2, <2>3
<1>4. print_array(texts, TRUE) = open \o FlattenSeq(ts) \o close
  BY DEF print_array
<1>5. print_array(bares, FALSE) = open \o FlattenSeq(us) \o close
  BY DEF print_array
<1> HIDE DEF comma, both
<1>6. ASSUME NEW k \in 1..N
      PROVE  Minifies(ts[k], us[k]) /\ ts[k] \in Written /\ us[k] \in Written
  <2> DEFINE a == texts[k]
             b == IF k = N THEN <<>> ELSE both
             x == bares[k]
             y == IF k = N THEN <<>> ELSE comma
  <2>1. Minifies(a, x) /\ a \in Written /\ x \in Written
    BY <1>1
  <2>2. Minifies(b, y) /\ b \in Written /\ y \in Written
    BY <1>2, <1>3, MinifyNothing, BytesAre
  <2>3. ts[k] = a \o b /\ us[k] = x \o y
    OBVIOUS
  <2> HIDE DEF a, b, x, y, ts, us
  <2>4. Minifies(a \o b, x \o y) /\ a \o b \in Written /\ x \o y \in Written
    BY <2>1, <2>2, MinifyJoin
  <2> QED BY Zenon, <2>3, <2>4
<1>7. ts \in Seq(Written) /\ us \in Seq(Written) /\ Len(ts) = N /\ Len(us) = N
  <2>1. (\A k \in 1..N : ts[k] \in Written) /\ \A k \in 1..N : us[k] \in Written
    BY <1>6
  <2>2. ts = [k \in 1..N |-> ts[k]] /\ us = [k \in 1..N |-> us[k]]
    OBVIOUS
  <2> HIDE DEF N, ts, us
  <2>3. ts \in [1..N -> Written] /\ us \in [1..N -> Written]
    BY <2>1, <2>2
  <2> QED BY <1>1, <2>3, SequenceOfLength
<1> HIDE DEF ts, us, open, close, N
<1> DEFINE p == FlattenSeq(ts)
           q == FlattenSeq(us)
<1>8. Minifies(p, q) /\ p \in Written /\ q \in Written
  BY <1>6, <1>7, MinifyFlat
<1> HIDE DEF p, q
<1>9. Minifies(open \o p \o close, open \o q \o close)
  BY <1>2, <1>8, MinifyThree
<1> QED BY Zenon, <1>4, <1>5, <1>9 DEF p, q

\* A member of an object.
LEMMA MinifyMember ==
  ASSUME NEW texts \in Seq(Written), NEW bares \in Seq(Written), Len(bares) = Len(texts), NEW depth \in Nat, NEW item,
         NEW k \in 1..Len(texts), item.child[k].string \in Strings, Minifies(texts[k], bares[k])
  PROVE  /\ Minifies(Prints(item, texts, depth, TRUE, k), Prints(item, bares, depth, FALSE, k))
         /\ Prints(item, texts, depth, TRUE, k) \in Written /\ Prints(item, bares, depth, FALSE, k) \in Written
<1> DEFINE name == print_string_ptr(item.child[k].string)
           x == texts[k]
           y == bares[k]
           tabs == Tabs(depth + 1)
           colon == <<":">>
           tab == <<"\t">>
           comma == IF k = Len(texts) THEN <<>> ELSE <<",">>
           nl == <<"\n">>
           none == <<>>
<1>1. Minifies(name, name) /\ name \in Written
  BY MinifyString, StringFits
<1>2. Minifies(x, y) /\ x \in Written /\ y \in Written
  OBVIOUS
<1>3. Minifies(tabs, none) /\ tabs \in Written /\ none \in Written
  <2>1. depth + 1 \in Nat
    OBVIOUS
  <2> QED BY <2>1, MinifyTabs, BytesAre
<1>4. Minifies(colon, colon) /\ colon \in Written
  BY MinifyWord
<1>5. Minifies(tab, none) /\ tab \in Written /\ Minifies(nl, none) /\ nl \in Written
  <2>1. "\t" \in Blanks /\ "\n" \in Blanks /\ "\t" \in Marks /\ "\n" \in Marks
    BY DEF Blanks, Marks
  <2> QED BY <2>1, MinifyBlank, MarksAre
<1>6. Minifies(comma, comma) /\ comma \in Written
  BY MinifyWord, MinifyNothing, BytesAre
<1>7. Prints(item, texts, depth, TRUE, k) = (((tabs \o name \o colon) \o tab \o x) \o comma \o nl)
  BY DEF Prints, Blank
<1>8. Prints(item, bares, depth, FALSE, k) = (((none \o name \o colon) \o none \o y) \o comma \o none)
  BY DEF Prints, Blank
<1> HIDE DEF name, x, y, tabs, colon, tab, comma, nl, none
<1> DEFINE p1 == tabs \o name \o colon
           q1 == none \o name \o colon
           p2 == p1 \o tab \o x
           q2 == q1 \o none \o y
<1>9. Minifies(p1, q1) /\ p1 \in Written /\ q1 \in Written
  BY <1>1, <1>3, <1>4, MinifyThree
<1> HIDE DEF p1, q1
<1>10. Minifies(p2, q2) /\ p2 \in Written /\ q2 \in Written
  BY SMTT(30), <1>2, <1>3, <1>5, <1>9, MinifyThree
<1> HIDE DEF p2, q2
<1>11. /\ Minifies(p2 \o comma \o nl, q2 \o comma \o none) /\ p2 \o comma \o nl \in Written
       /\ q2 \o comma \o none \in Written
  BY <1>3, <1>5, <1>6, <1>10, MinifyThree
<1> QED BY Zenon, <1>7, <1>8, <1>11 DEF p1, p2, q1, q2

\* An object.
LEMMA MinifyObject ==
  ASSUME NEW texts \in Seq(Written), NEW bares \in Seq(Written), Len(bares) = Len(texts), NEW depth \in Nat, NEW item,
         \A k \in 1..Len(texts) : item.child[k].string \in Strings /\ Minifies(texts[k], bares[k])
  PROVE  Minifies(print_object(item, texts, depth, TRUE), print_object(item, bares, depth, FALSE))
<1> DEFINE N == Len(texts)
           Entry(k) == Prints(item, texts, depth, TRUE, k)
           Bare(k) == Prints(item, bares, depth, FALSE, k)
           ts == [k \in 1..N |-> Entry(k)]
           us == [k \in 1..N |-> Bare(k)]
           indent == IF N = 0 /\ depth > 0 THEN depth - 1 ELSE depth
           open == <<"{">>
           close == <<"}">>
           nl == <<"\n">>
           tabs == Tabs(indent)
           none == <<>>
           p == FlattenSeq(ts)
           q == FlattenSeq(us)
<1>1. N \in Nat
  OBVIOUS
<1>2. \A k \in 1..N : Minifies(Entry(k), Bare(k)) /\ Entry(k) \in Written /\ Bare(k) \in Written
  BY MinifyMember
<1>3. print_object(item, texts, depth, TRUE) = (open \o nl \o p) \o tabs \o close
  BY DEF print_object, Prints, Blank
<1>4. print_object(item, bares, depth, FALSE) = (open \o none \o q) \o none \o close
  BY DEF print_object, Prints, Blank
<1>5. Minifies(open, open) /\ open \in Written /\ Minifies(close, close) /\ close \in Written
  BY MinifyWord
<1>6. Minifies(nl, none) /\ nl \in Written /\ none \in Written
  <2>1. "\n" \in Blanks /\ "\n" \in Marks
    BY DEF Blanks, Marks
  <2> QED BY <2>1, MinifyBlank, MarksAre, BytesAre
<1>7. Minifies(tabs, none) /\ tabs \in Written
  <2>1. indent \in Nat
    OBVIOUS
  <2> HIDE DEF indent
  <2> QED BY <2>1, MinifyTabs
<1> HIDE DEF Entry, Bare, N, open, close, nl, tabs, none
<1>8. ts \in Seq(Written) /\ us \in Seq(Written) /\ Len(ts) = N /\ Len(us) = N /\ \A k \in 1..N : Minifies(ts[k], us[k])
  BY SMTT(30), <1>1, <1>2
<1> HIDE DEF ts, us
<1>9. Minifies(p, q) /\ p \in Written /\ q \in Written
  BY <1>8, MinifyFlat
<1> HIDE DEF p, q
<1> DEFINE a == open \o nl \o p
           b == open \o none \o q
<1>10. Minifies(a, b) /\ a \in Written /\ b \in Written
  BY <1>5, <1>6, <1>9, MinifyThree
<1> HIDE DEF a, b
<1>11. Minifies(a \o tabs \o close, b \o none \o close)
  BY <1>5, <1>6, <1>7, <1>10, MinifyThree
<1> QED BY Zenon, <1>3, <1>4, <1>11 DEF a, b

\* The texts of an item's children.
LEMMA InnerIs ==
  ASSUME NEW fmt \in BOOLEAN, NEW p, Printed(fmt, p), NEW n \in 0..MaxNesting, NEW item \in Documents[n],
         n # 0 => \A x \in Documents[n - 1] : p[n - 1][x] \in Written,
         NEW texts, texts = Inner(item, p[n - 1])
  PROVE  /\ texts \in Seq(Written) /\ Len(texts) = Len(item.child) /\ Len(texts) \in Nat
         /\ p[n][item] = Text(item, texts, MaxNesting - n, fmt) /\ p[n][item] \in Written
         /\ \A i \in 1..Len(texts) : /\ n # 0 /\ item.child[i] \in Documents[n - 1]
                                     /\ texts[i] = p[n - 1][item.child[i]] /\ item.child[i].string \in Strings
<1>1. Children(item, n)
  BY DocumentIs
<1>2. /\ texts \in Seq(Written) /\ Len(texts) = Len(item.child) /\ Len(texts) \in Nat
      /\ \A i \in 1..Len(texts) : /\ n # 0 /\ item.child[i] \in Documents[n - 1]
                                  /\ texts[i] = p[n - 1][item.child[i]]
  <2>1. CASE n = 0
    BY <1>1, <2>1 DEF Children, Inner
  <2>2. CASE n # 0
    <3>1. item.child \in Seq(Documents[n - 1])
      BY <1>1, <2>2 DEF Children
    <3>2. \A i \in 1..Len(item.child) : p[n - 1][item.child[i]] \in Written
      BY <2>2, <3>1
    <3> QED BY SMTT(30), <2>2, <3>1, <3>2 DEF Inner
  <2> QED BY <2>1, <2>2
<1>3. \A i \in 1..Len(texts) : item.child[i].string \in Strings
  <2>1. n # 0 => n - 1 \in 0..MaxNesting
    BY JsonAssumption
  <2> QED BY <1>2, <2>1, DocumentIs DEF IsItem
<1>4. p[n][item] = Text(item, texts, MaxNesting - n, fmt)
  BY DEF Printed
<1>5. p[n][item] \in Written
  BY <1>2, <1>4, TextFits
<1> QED BY <1>2, <1>3, <1>4, <1>5

\* Every document has its text.
LEMMA TextsWritten ==
  ASSUME NEW fmt \in BOOLEAN, NEW p, Printed(fmt, p)
  PROVE  \A n \in 0..MaxNesting : \A item \in Documents[n] : p[n][item] \in Written
<1> DEFINE N == MaxNesting
           S == {n \in 0..N : \A item \in Documents[n] : p[n][item] \in Written}
<1>1. N \in Nat
  BY JsonAssumption
<1>2. 0 \in S
  <2> SUFFICES ASSUME NEW item \in Documents[0] PROVE p[0][item] \in Written
    BY <1>1
  <2> DEFINE texts == Inner(item, p[0 - 1])
  <2> HIDE DEF texts
  <2> QED BY <1>1, InnerIs DEF texts
<1>3. ASSUME NEW n \in 1..N, n - 1 \in S PROVE n \in S
  <2> SUFFICES ASSUME NEW item \in Documents[n] PROVE p[n][item] \in Written
    BY <1>1
  <2>1. n \in 0..N /\ \A x \in Documents[n - 1] : p[n - 1][x] \in Written
    BY <1>1, <1>3
  <2> QED BY <2>1, InnerIs
<1> HIDE DEF S
<1>4. 0..N \subseteq S
  BY <1>1, <1>2, <1>3, Climb
<1> QED BY <1>4 DEF S

\* Minifying the text with blanks gives the text without.
LEMMA TextsMinify ==
  ASSUME NEW p, Printed(TRUE, p), NEW q, Printed(FALSE, q)
  PROVE  \A n \in 0..MaxNesting : \A item \in Documents[n] : Minifies(p[n][item], q[n][item])
<1> DEFINE N == MaxNesting
           S == {n \in 0..N : \A item \in Documents[n] : Minifies(p[n][item], q[n][item])}
<1>1. N \in Nat
  BY JsonAssumption
<1>2. \A n \in 0..N : \A item \in Documents[n] : p[n][item] \in Written /\ q[n][item] \in Written
  BY TextsWritten
<1>3. ASSUME NEW n \in 0..N, NEW item \in Documents[n],
             n # 0 => \A x \in Documents[n - 1] : Minifies(p[n - 1][x], q[n - 1][x])
      PROVE  Minifies(p[n][item], q[n][item])
  <2> DEFINE texts == Inner(item, p[n - 1])
             bares == Inner(item, q[n - 1])
             depth == MaxNesting - n
  <2>1. n # 0 => \A x \in Documents[n - 1] : p[n - 1][x] \in Written /\ q[n - 1][x] \in Written
    <3>1. n # 0 => n - 1 \in 0..N
      BY <1>1
    <3> QED BY <1>2, <3>1
  <2> HIDE DEF texts, bares
  <2>2. /\ texts \in Seq(Written) /\ Len(texts) = Len(item.child) /\ p[n][item] = Text(item, texts, depth, TRUE)
        /\ \A i \in 1..Len(texts) : /\ n # 0 /\ item.child[i] \in Documents[n - 1]
                                    /\ texts[i] = p[n - 1][item.child[i]] /\ item.child[i].string \in Strings
    <3> DEFINE fmt == TRUE
    <3>1. fmt \in BOOLEAN /\ Printed(fmt, p)
      OBVIOUS
    <3> HIDE DEF fmt
    <3>2. /\ texts \in Seq(Written) /\ Len(texts) = Len(item.child) /\ p[n][item] = Text(item, texts, depth, fmt)
          /\ \A i \in 1..Len(texts) : /\ n # 0 /\ item.child[i] \in Documents[n - 1]
                                      /\ texts[i] = p[n - 1][item.child[i]] /\ item.child[i].string \in Strings
    <4> HIDE DEF depth
      <4>1. /\ texts \in Seq(Written) /\ Len(texts) = Len(item.child) /\ p[n][item] = Text(item, texts, MaxNesting - n, fmt)
            /\ \A i \in 1..Len(texts) : /\ n # 0 /\ item.child[i] \in Documents[n - 1]
                                        /\ texts[i] = p[n - 1][item.child[i]] /\ item.child[i].string \in Strings
        BY <2>1, <3>1, InnerIs DEF texts
      <4> QED BY <4>1 DEF depth
    <3> QED BY <3>2 DEF fmt
  <2>3. /\ bares \in Seq(Written) /\ Len(bares) = Len(item.child) /\ q[n][item] = Text(item, bares, depth, FALSE)
        /\ \A i \in 1..Len(bares) : bares[i] = q[n - 1][item.child[i]]
    <3> DEFINE fmt == FALSE
    <3>1. fmt \in BOOLEAN /\ Printed(fmt, q)
      OBVIOUS
    <3> HIDE DEF fmt
    <3>2. /\ bares \in Seq(Written) /\ Len(bares) = Len(item.child) /\ q[n][item] = Text(item, bares, depth, fmt)
          /\ \A i \in 1..Len(bares) : bares[i] = q[n - 1][item.child[i]]
    <4> HIDE DEF depth
      <4>1. /\ bares \in Seq(Written) /\ Len(bares) = Len(item.child) /\ q[n][item] = Text(item, bares, MaxNesting - n, fmt)
            /\ \A i \in 1..Len(bares) : /\ n # 0 /\ item.child[i] \in Documents[n - 1]
                                        /\ bares[i] = q[n - 1][item.child[i]] /\ item.child[i].string \in Strings
        BY <2>1, <3>1, InnerIs DEF bares
      <4> QED BY <4>1 DEF depth
    <3> QED BY <3>2 DEF fmt
  <2>4. Len(bares) = Len(texts) /\ \A i \in 1..Len(texts) : Minifies(texts[i], bares[i])
    BY <1>3, <2>2, <2>3
  <2>5. depth \in Nat
    BY <1>1
  <2>6. IsItem(item)
    BY DocumentIs
  <2> HIDE DEF depth
  <2>7. CASE item.type \in {"null", "false", "true"}
    <3>1. p[n][item] = <<item.type>> /\ q[n][item] = <<item.type>>
      BY <2>2, <2>3, <2>7 DEF Text
    <3> QED BY <2>7, <3>1, MinifyWord
  <2>8. CASE item.type = "number"
    <3>1. p[n][item] = <<print_number(item.valuedouble)>> /\ q[n][item] = <<print_number(item.valuedouble)>>
      BY <2>2, <2>3, <2>8 DEF Text
    <3> QED BY <2>6, <3>1, MinifyWord DEF IsItem
  <2>9. CASE item.type = "string"
    <3>1. p[n][item] = print_string_ptr(item.valuestring) /\ q[n][item] = print_string_ptr(item.valuestring)
      BY <2>2, <2>3, <2>9 DEF Text
    <3> QED BY <2>6, <3>1, MinifyString DEF IsItem
  <2>10. CASE item.type = "array"
    <3>1. p[n][item] = print_array(texts, TRUE) /\ q[n][item] = print_array(bares, FALSE)
      BY <2>2, <2>3, <2>10 DEF Text
    <3> QED BY <2>2, <2>3, <2>4, <3>1, MinifyArray
  <2>11. CASE item.type = "object"
    <3>1. p[n][item] = print_object(item, texts, depth, TRUE) /\ q[n][item] = print_object(item, bares, depth, FALSE)
      BY <2>2, <2>3, <2>11 DEF Text
    <3>2. \A i \in 1..Len(texts) : item.child[i].string \in Strings /\ Minifies(texts[i], bares[i])
      BY <2>2, <2>4
    <3>3. Minifies(print_object(item, texts, depth, TRUE), print_object(item, bares, depth, FALSE))
      BY Zenon, <2>2, <2>3, <2>4, <2>5, <3>2, MinifyObject
    <3> QED BY <3>1, <3>3
  <2> QED BY <2>6, <2>7, <2>8, <2>9, <2>10, <2>11 DEF IsItem, Types
<1>4. 0 \in S
  BY <1>1, <1>3
<1>5. ASSUME NEW n \in 1..N, n - 1 \in S PROVE n \in S
  <2>1. n \in 0..N
    BY <1>1
  <2> QED BY <1>3, <1>5, <2>1
<1> HIDE DEF S
<1>6. 0..N \subseteq S
  BY <1>1, <1>4, <1>5, Climb
<1> QED BY <1>6 DEF S

\* From the first token on.
LEMMA MinifiesAll ==
  ASSUME NEW t \in Written, NEW b \in Written, Minifies(t, b)
  PROVE  cJSON_Minify(t) = b
<1>1. Len(t) \in Nat /\ <<>> \in Written /\ <<>> \o b = b
  BY DEF Written
<1>2. PICK turn : Bares(t, turn) /\ cJSON_Minify(t) = turn[Len(t)].out
  BY <1>1, BaresExist
<1>3. Placed(t, 1, t)
  <2>1. 1 + Len(t) <= Len(t) + 1 /\ \A k \in 1..Len(t) : 1 + k - 1 = k
    BY <1>1
  <2> QED BY <2>1 DEF Placed
<1>4. Reached(t, turn, 1, <<>>)
  BY <1>1, <1>2 DEF Reached, Bares
<1> DEFINE end == Len(t) + 1
           x == Closed(end, b)
           M == Len(t)
<1>5. Reached(t, turn, end, b)
  <2> DEFINE none == <<>>
             o == none \o b
  <2>1. Reached(t, turn, 1, none) /\ none \in Written /\ o = b
    BY <1>1, <1>4
  <2> HIDE DEF none, o
  <2>2. Reached(t, turn, 1 + Len(t), o)
    BY Zenon, <1>2, <1>3, <2>1 DEF Minifies, o
  <2>3. 1 + Len(t) = end
    BY <1>1
  <2> QED BY Zenon, <2>1, <2>2, <2>3
<1>6. PICK m \in 0..M : turn[m] = Copied(end, b)
  BY <1>5 DEF Reached
<1>7. CASE m = M
  BY <1>2, <1>6, <1>7, StatesAre
<1>8. CASE m # M
  <2> DEFINE n == m + 1
  <2>1. n \in 1..M /\ n \in 0..M /\ n - 1 = m
    BY <1>1, <1>8
  <2> HIDE DEF n
  <2>2. turn[m].open /\ turn[m].at = end /\ turn[m].out = b
    BY <1>6, StatesAre
  <2>3. turn[n] = IF turn[n - 1].open THEN Bared(t, turn[n - 1].at, turn[n - 1].out) ELSE turn[n - 1]
    BY <1>2, <2>1 DEF Bares
  <2>4. Bared(t, end, b) = x
    <3>1. At(t, end) = NoToken
      BY <1>1 DEF At
    <3> QED BY <3>1 DEF Bared
  <2>5. turn[n] = x
    BY <2>1, <2>2, <2>3, <2>4
  <2>6. \A k \in 1..M : turn[k - 1] = x => turn[k] = x
    <3>1. ~x.open
      BY StatesAre
    <3> HIDE DEF x
    <3> QED BY <1>2, <3>1 DEF Bares
  <2> HIDE DEF x, M
  <2> DEFINE E == {k \in 0..M : turn[k] = x}
  <2>7. M \in Nat /\ n \in 0..M /\ n \in E /\ \A k \in 1..M : k - 1 \in E => k \in E
    <3>1. M \in Nat
      BY <1>1 DEF M
    <3> QED BY <2>1, <2>5, <2>6, <3>1
  <2> HIDE DEF E
  <2>8. M \in E
    BY <2>7, ClimbOn
  <2> QED BY <1>2, <2>8, StatesAre DEF M, x, E
<1> QED BY <1>7, <1>8

(***************************************************************************)
(* Reading what is printed.                                                *)
(***************************************************************************)
\* An item as its text shows it, with children that are shown.
ShownItem(x, below) ==
  Item(x.type, x.string, x.valuestring, Shown(x.valuedouble), [i \in DOMAIN x.child |-> below[x.child[i]]])
Shows(s) == \A n \in 0..MaxNesting : \A x \in Documents[n] : s[n][x] = ShownItem(x, s[n - 1])
\* AsShown takes these levels.
LEMMA ShowsExist ==
  \E c : Shows(c) /\ \A item : AsShown(item) = c[MaxNesting][item]
<1> DEFINE N == MaxNesting
           E(g, n) == [x \in Documents[n] |-> ShownItem(x, g[n - 1])]
           Is(g, m) == g = [n \in 0..m |-> E(g, n)]
           S == {m \in 0..N : \E g : Is(g, m)}
           c == CHOOSE g : Is(g, N)
<1>1. N \in Nat
  BY JsonAssumption
<1>2. \A item : AsShown(item) = c[N][item]
  BY DEF AsShown, ShownItem
<1>0. \A g, h : E(g, 0) = E(h, 0)
  <2> SUFFICES ASSUME NEW g, NEW h, NEW x \in Documents[0]
               PROVE  ShownItem(x, g[0 - 1]) = ShownItem(x, h[0 - 1])
    OBVIOUS
  <2>1. x.child = <<>>
    BY DocumentIs, <1>1 DEF Children
  <2> QED BY <2>1 DEF ShownItem
<1> HIDE DEF N, E, c
<1>3. \E g : Is(g, N)
  <2>1. 0 \in S
    <3> DEFINE g == [n \in 0..0 |-> E(n, n)]
    <3>0. g[0] = E(0, 0)
      OBVIOUS
    <3>1. \A n \in 0..0 : g[n] = E(g, n)
      <4> HIDE DEF g
      <4> QED BY <1>0, <3>0
    <3> QED BY <1>1, <3>1
  <2>2. ASSUME NEW m \in 1..N, m - 1 \in S PROVE m \in S
    <3>1. PICK g : Is(g, m - 1)
      BY <2>2
    <3> DEFINE b == [n \in 0..m |-> IF n = m THEN E(g, m) ELSE g[n]]
    <3>2. \A n \in 0..m : b[n] = E(b, n)
      <4> SUFFICES ASSUME NEW n \in 0..m PROVE b[n] = E(b, n)
        OBVIOUS
      <4>1. n # 0 => n - 1 \in 0..m /\ n - 1 # m /\ b[n - 1] = g[n - 1]
        BY <1>1
      <4>2. E(b, n) = E(g, n)
        <5>1. n = 0 => E(b, n) = E(g, n)
          BY <1>0
        <5>2. n # 0 => E(b, n) = E(g, n)
          BY <4>1 DEF E
        <5> QED BY <5>1, <5>2
      <4>3. n # m => n \in 0..m - 1 /\ g[n] = E(g, n)
        BY <1>1, <3>1
      <4> QED BY <4>2, <4>3
    <3> HIDE DEF b
    <3>3. b = [n \in 0..m |-> b[n]]
      BY DEF b
    <3>4. Is(b, m)
      BY <3>2, <3>3
    <3> QED BY <1>1, <3>4
  <2> HIDE DEF S
  <2>3. 0..N \subseteq S
    BY <1>1, <2>1, <2>2, Climb
  <2> QED BY <1>1, <2>3 DEF S
<1>4. Is(c, N)
  BY <1>3 DEF c
<1>5. Shows(c)
  <2>1. \A n \in 0..N : c[n] = E(c, n)
    BY <1>1, <1>4
  <2> QED BY <2>1 DEF E, N, Shows
<1> QED BY <1>2, <1>5 DEF N

\* What stands from a on, before b, is skipped.
Cleared(t, a, b) == \A j \in a..b - 1 : t[j] \in White
\* A text that a value can begin with.
Begins(p) == p \in Written /\ Len(p) \in Nat \ {0} /\ p[1] \notin White /\ p[1] # "]"
\* An array or object of these children.
Built(type, c) == Item(type, <<>>, <<>>, 0, c)
\* From a[k - 1] on, the k-th of the children e is read, up to a[k].
Stepwise(t, type, close, values, a, e) ==
  \A k \in 1..Len(e) : \A r : r.at = a[k - 1] /\ r.item.type = type =>
    Member(t, r, close, values) =
      IF k < Len(e) THEN Another(Joined(r, a[k], e[k])) ELSE Over(Joined(r, a[k], e[k]))

\* Children that are read one after the other are the children that are read.
LEMMA MembersRead ==
  ASSUME NEW t \in Written, NEW type, NEW close, NEW values, NEW a, NEW S, NEW e \in Seq(S), Len(e) \in 1..Len(t),
         Stepwise(t, type, close, values, a, e)
  PROVE  Members(t, a[0], type, close, values) = Got(a[Len(e)], Built(type, e))
<1> DEFINE N == Len(e)
           M == Len(t)
           R(k) == Got(a[k], Built(type, SubSeq(e, 1, k)))
           x == Over(R(N))
<1>1. M \in Nat /\ N \in 1..M
  BY DEF Written
<1>2. PICK turn : Grows(t, a[0], type, close, values, turn) /\ Members(t, a[0], type, close, values) = turn[M].r
  BY <1>1, GrowsExist
<1> DEFINE T == {k \in 0..N - 1 : turn[k] = Another(R(k))}
<1>3. \A k \in 1..N : Append(SubSeq(e, 1, k - 1), e[k]) = SubSeq(e, 1, k)
  OBVIOUS
<1>4. SubSeq(e, 1, 0) = <<>> /\ SubSeq(e, 1, N) = e
  BY SubSeqEmpty
<1>5. \A k : /\ R(k).at = a[k] /\ R(k).item.type = type
             /\ \A at, y : Joined(R(k), at, y) = Got(at, Built(type, Append(SubSeq(e, 1, k), y)))
  <2> SUFFICES ASSUME NEW k
               PROVE  /\ R(k).at = a[k] /\ R(k).item.type = type
                      /\ \A at, y : Joined(R(k), at, y) = Got(at, Built(type, Append(SubSeq(e, 1, k), y)))
    OBVIOUS
  <2> DEFINE c == SubSeq(e, 1, k)
             item == Built(type, c)
  <2>1. R(k).at = a[k] /\ R(k).item = item
    BY DEF Got
  <2>2. item.type = type /\ item.child = c
    <3>1. item = Item(type, <<>>, <<>>, 0, c)
      BY DEF Built
    <3> HIDE DEF c, item
    <3> QED BY <3>1, PartsAre
  <2>3. \A z : Filled(item, z) = Built(type, z)
    BY ExceptIs DEF Built
  <2> HIDE DEF R, c, item
  <2>4. \A at, y : Joined(R(k), at, y) = Got(at, Filled(item, Append(c, y)))
    BY <2>1, <2>2 DEF Joined
  <2> QED BY Zenon, <2>1, <2>2, <2>3, <2>4 DEF c
<1> HIDE DEF R, N, M
<1>6. \A k \in 1..N : Member(t, R(k - 1), close, values) = IF k < N THEN Another(R(k)) ELSE x
  <2> SUFFICES ASSUME NEW k \in 1..N
               PROVE  Member(t, R(k - 1), close, values) = IF k < N THEN Another(R(k)) ELSE x
    OBVIOUS
  <2>1. Joined(R(k - 1), a[k], e[k]) = R(k)
    <3>1. Joined(R(k - 1), a[k], e[k]) = Got(a[k], Built(type, Append(SubSeq(e, 1, k - 1), e[k])))
      BY Zenon, <1>5
    <3>2. Append(SubSeq(e, 1, k - 1), e[k]) = SubSeq(e, 1, k)
      BY <1>3
    <3> QED BY Zenon, <3>1, <3>2 DEF R
  <2>2. R(k - 1).at = a[k - 1] /\ R(k - 1).item.type = type
    BY <1>5
  <2>3. Member(t, R(k - 1), close, values) =
          IF k < N THEN Another(Joined(R(k - 1), a[k], e[k])) ELSE Over(Joined(R(k - 1), a[k], e[k]))
    BY <2>2 DEF Stepwise, N
  <2>4. ~(k < N) => k = N
    BY <1>1
  <2> QED BY <2>1, <2>3, <2>4
<1> HIDE DEF x
<1>7. \A k \in 1..M :
        turn[k] = IF turn[k - 1].more THEN Member(t, turn[k - 1].r, close, values) ELSE turn[k - 1]
  BY <1>2 DEF Grows, M
<1>8. \A r : Another(r).more /\ Another(r).r = r /\ ~Over(r).more /\ Over(r).r = r
  BY DEF Another, Over
<1>9. 0..N - 1 \subseteq T
  <2>1. 0 \in T
    <3>1. turn[0] = Another(Got(a[0], Plain0(type)))
      BY <1>2 DEF Grows
    <3>2. Plain0(type) = Built(type, SubSeq(e, 1, 0))
      BY <1>4 DEF Plain0, Built
    <3> QED BY <1>1, <3>1, <3>2 DEF R
  <2>2. ASSUME NEW k \in 1..N - 1, k - 1 \in T PROVE k \in T
    <3>1. k \in 1..M /\ k \in 1..N /\ k < N /\ k \in 0..N - 1
      BY <1>1
    <3>2. turn[k - 1] = Another(R(k - 1))
      BY <2>2
    <3>3. turn[k] = Member(t, R(k - 1), close, values)
      BY <1>7, <1>8, <3>1, <3>2
    <3> QED BY <1>6, <3>1, <3>3
  <2> HIDE DEF T
  <2>3. N - 1 \in Nat
    BY <1>1
  <2> QED BY <2>1, <2>2, <2>3, Climb
<1>10. turn[N] = x
  <2>1. N - 1 \in T /\ N \in 1..N /\ N \in 1..M /\ ~(N < N)
    BY <1>1, <1>9
  <2>2. turn[N - 1] = Another(R(N - 1))
    BY <2>1
  <2>3. turn[N] = Member(t, R(N - 1), close, values)
    BY <1>7, <1>8, <2>1, <2>2
  <2> QED BY <1>6, <2>1, <2>3
<1>11. turn[M] = x
  <2>1. ~x.more
    BY <1>8 DEF x
  <2>2. \A k \in 1..M : turn[k - 1] = x => turn[k] = x
    BY <1>7, <2>1
  <2>3. N \in 0..M /\ M \in Nat
    BY <1>1
  <2> DEFINE E == {k \in 0..M : turn[k] = x}
  <2>4. N \in E /\ \A k \in 1..M : k - 1 \in E => k \in E
    BY <1>10, <2>2, <2>3
  <2> HIDE DEF E
  <2>5. M \in E
    BY <2>3, <2>4, ClimbOn
  <2> QED BY <2>5 DEF E
<1>12. turn[M].r = R(N)
  BY <1>8, <1>11 DEF x
<1> QED BY Zenon, <1>2, <1>4, <1>12 DEF R, N

\* Blanks one behind the other, and blanks that are a text.
LEMMA ClearIs ==
  ASSUME NEW t \in Written, NEW a \in Nat \ {0}
  PROVE  /\ Cleared(t, a, a)
         /\ \A b, c \in Nat : Cleared(t, a, b) /\ Cleared(t, b, c) => Cleared(t, a, c)
         /\ \A b \in a..Len(t) : Cleared(t, a, b) /\ t[b] \notin White => skip(t, a) = b
         /\ \A p \in Written : Placed(t, a, p) /\ (\A k \in 1..Len(p) : p[k] \in White) => Cleared(t, a, a + Len(p))
<1>1. Cleared(t, a, a)
  BY DEF Cleared
<1>2. \A b, c \in Nat : Cleared(t, a, b) /\ Cleared(t, b, c) => Cleared(t, a, c)
  BY DEF Cleared
<1>3. ASSUME NEW b \in a..Len(t), Cleared(t, a, b), t[b] \notin White PROVE skip(t, a) = b
  BY <1>3, Skips DEF Cleared
<1>4. ASSUME NEW p \in Written, Placed(t, a, p), \A k \in 1..Len(p) : p[k] \in White PROVE Cleared(t, a, a + Len(p))
  <2> SUFFICES ASSUME NEW j \in a..a + Len(p) - 1 PROVE t[j] \in White
    BY DEF Cleared
  <2>1. t[j] = p[j - a + 1] /\ Len(p) \in Nat
    BY <1>4, PlacedWithin
  <2>2. j - a + 1 \in 1..Len(p)
    BY <2>1
  <2> QED BY <1>4, <2>1, <2>2
<1> QED BY <1>1, <1>2, <1>3, <1>4

\* Where a text begins with something that is not a blank.
LEMMA BeginsThere ==
  ASSUME NEW t \in Written, NEW i, NEW p, Begins(p), Placed(t, i, p)
  PROVE  i \in 1..Len(t) /\ t[i] \notin White /\ At(t, i) = t[i] /\ t[i] # "]"
<1>1. p \in Written /\ Len(p) \in Nat \ {0} /\ p[1] \notin White /\ p[1] # "]"
  BY DEF Begins
<1>2. /\ i \in Nat \ {0} /\ Len(t) \in Nat /\ i + Len(p) <= Len(t) + 1
      /\ \A k \in i..i + Len(p) - 1 : k \in 1..Len(t) /\ t[k] = p[k - i + 1]
  BY <1>1, PlacedWithin
<1>3. i \in i..i + Len(p) - 1 /\ i - i + 1 = 1
  BY <1>1, <1>2
<1>4. i \in 1..Len(t) /\ t[i] = p[1]
  BY <1>2, <1>3
<1>5. At(t, i) = t[i]
  BY <1>4 DEF At
<1> QED BY <1>1, <1>4, <1>5

\* Texts that are not empty take a place each.
LEMMA LiesLong ==
  ASSUME NEW t \in Written, NEW ts \in Seq(Written), NEW o, Lies(t, ts, o), \A k \in 1..Len(ts) : Len(ts[k]) \in Nat \ {0}
  PROVE  o[Len(ts)] >= o[0] + Len(ts) /\ o[0] \in Nat /\ o[Len(ts)] \in Nat
<1> DEFINE N == Len(ts)
           S == {k \in 0..N : o[k] >= o[0] + k}
<1>1. N \in Nat
  OBVIOUS
<1>2. \A k \in 0..N : o[k] \in Nat
  BY DEF Lies
<1>3. \A k \in 1..N : o[k] = o[k - 1] + Len(ts[k]) /\ Len(ts[k]) \in Nat \ {0}
  BY DEF Lies
<1> HIDE DEF N
<1>4. 0 \in S
  <2>1. o[0] \in Nat
    BY <1>1, <1>2
  <2> QED BY <1>1, <2>1
<1>5. ASSUME NEW k \in 1..N, k - 1 \in S PROVE k \in S
  <2>1. k \in 0..N /\ k - 1 \in 0..N /\ 0 \in 0..N /\ o[k - 1] >= o[0] + (k - 1)
    BY <1>1, <1>5
  <2>2. o[k] \in Nat /\ o[k - 1] \in Nat /\ o[0] \in Nat
    BY <1>2, <2>1
  <2>3. o[k] >= o[0] + k
    BY SMTT(30), <1>3, <2>1, <2>2
  <2> QED BY <2>1, <2>3
<1> HIDE DEF S
<1>6. 0..N \subseteq S
  BY <1>1, <1>4, <1>5, Climb
<1>7. N \in 0..N /\ 0 \in 0..N
  BY <1>1
<1>8. o[N] >= o[0] + N
  BY <1>6, <1>7 DEF S
<1> QED BY <1>2, <1>7, <1>8 DEF N

\* What can be read as x[k] wherever texts[k] stands.
Readable(t, values, texts, x) ==
  \A k \in 1..Len(texts) :
    Begins(texts[k]) /\ \A j : Placed(t, j, texts[k]) => values[j] = Got(j + Len(texts[k]), x[k])

\* An array with its elements is read.
LEMMA ArrayRead ==
  ASSUME NEW t \in Written, NEW i, NEW fmt \in BOOLEAN, NEW texts \in Seq(Written), NEW values, NEW x,
         Readable(t, values, texts, x), NEW p, p = print_array(texts, fmt), Placed(t, i, p)
  PROVE  /\ parse_array(t, i, values) = Got(i + Len(p), Built("array", [k \in 1..Len(texts) |-> Named(x[k], <<>>)]))
         /\ At(t, i) = "["
<1> DEFINE N == Len(texts)
           e == [k \in 1..N |-> Named(x[k], <<>>)]
           comma == ","
           close == "]"
           sep == IF fmt THEN <<comma, Space>> ELSE <<comma>>
           tail(k) == IF k = N THEN <<>> ELSE sep
           ts == [k \in 1..N |-> texts[k] \o tail(k)]
           a1 == <<"[">>
           c1 == <<close>>
           flat == FlattenSeq(ts)
<1>1. N \in Nat /\ \A k \in 1..N : texts[k] \in Written
  OBVIOUS
<1>2. p = (a1 \o flat) \o c1
  BY DEF print_array
<1>3. a1 \in Written /\ c1 \in Written /\ <<comma>> \in Written /\ comma \in Spellings /\ Space \in Spellings
      /\ Len(a1) = 1 /\ Len(c1) = 1
  BY MinifyWord DEF Spellings, Marks
<1>4. close # comma /\ comma \notin White /\ close \notin White /\ Space \in White
  BY DEF White, Space
<1>5. parse_array(t, i, values) = Container(t, i, "array", close, values)
  BY DEF parse_array
<1>6. \A first : first = skip(t, i + 1) => Container(t, i, "array", close, values) =
        IF At(t, first) = close THEN Got(first + 1, Plain0("array")) ELSE Members(t, first, "array", close, values)
  BY DEF Container
<1> DEFINE type == "array"
<1>7. \A r : r.item.type = type => Member(t, r, close, values) = Element(t, r, close, values[skip(t, r.at)], <<>>)
  BY DEF Member
<1>8. \A r, z, y, w : w = skip(t, z) =>
        /\ At(t, w) = comma => Element(t, r, close, Got(z, y), <<>>) = Another(Joined(r, w + 1, Named(y, <<>>)))
        /\ At(t, w) = close /\ At(t, w) # comma =>
             Element(t, r, close, Got(z, y), <<>>) = Over(Joined(r, w + 1, Named(y, <<>>)))
  <2> SUFFICES ASSUME NEW r, NEW z, NEW y, NEW w, w = skip(t, z)
               PROVE  /\ At(t, w) = comma => Element(t, r, close, Got(z, y), <<>>) = Another(Joined(r, w + 1, Named(y, <<>>)))
                      /\ At(t, w) = close /\ At(t, w) # comma =>
                           Element(t, r, close, Got(z, y), <<>>) = Over(Joined(r, w + 1, Named(y, <<>>)))
    OBVIOUS
  <2>1. Got(z, y).ok /\ Got(z, y).at = z /\ Got(z, y).item = y
    BY DEF Got
  <2>2. Element(t, r, close, Got(z, y), <<>>) = Continued(t, r, close, w, Named(y, <<>>))
    BY <2>1 DEF Element
  <2> QED BY <2>2 DEF Continued, comma
<1>9. Len(sep) \in 1..2 /\ sep[1] = comma /\ (Len(sep) = 2 => sep[2] = Space) /\ sep \in Written
  <2> HIDE DEF comma
  <2>1. <<comma, Space>> \in Written
    BY <1>3, FewBytes
  <2> QED BY <1>3, <2>1
<1>10. At(t, i) = "[" => At(t, i) = a1[1]
  OBVIOUS
<1> HIDE DEF comma, close, type, sep, N
<1>11. \A k \in 1..N : tail(k) \in Written
  BY <1>9, BytesAre
<1> HIDE DEF tail
<1>12. ts \in Seq(Written) /\ Len(ts) = N /\ \A k \in 1..N : ts[k] = texts[k] \o tail(k)
  <2>1. \A k \in 1..N : texts[k] \o tail(k) \in Written
    BY <1>1, <1>11, BytesAre
  <2>2. ts \in [1..N -> Written]
    BY <2>1
  <2> QED BY <1>1, <2>2, SequenceOfLength
<1> HIDE DEF ts
<1>13. flat \in Written
  BY <1>12, FlatIs
<1> DEFINE end == i + 1 + Len(flat)
<1> HIDE DEF flat, a1, c1
<1>14. /\ Placed(t, i, a1) /\ Placed(t, i + 1, flat) /\ Placed(t, end, c1) /\ i + Len(p) = end + 1
  <2> DEFINE b == a1 \o flat
  <2>1. a1 \in Written /\ flat \in Written /\ c1 \in Written /\ b \in Written
    BY <1>3, <1>13, BytesAre
  <2>2. Placed(t, i, b \o c1) /\ p = b \o c1
    BY <1>2
  <2> HIDE DEF b
  <2>3. Placed(t, i, b) /\ Placed(t, i + Len(b), c1) /\ i + Len(b \o c1) = i + Len(b) + Len(c1)
    BY <2>1, <2>2, PlacedJoin
  <2>4. Placed(t, i, a1 \o flat)
    BY <2>3 DEF b
  <2>5. Placed(t, i, a1) /\ Placed(t, i + Len(a1), flat) /\ i + Len(a1 \o flat) = i + Len(a1) + Len(flat)
    BY <2>1, <2>4, PlacedJoin
  <2>6. i + Len(b) = end /\ i + Len(p) = end + 1
    BY <1>3, <2>2, <2>3, <2>5 DEF b
  <2> QED BY <1>3, <2>3, <2>5, <2>6
<1>15. At(t, i) = "[" /\ At(t, end) = close /\ end \in 1..Len(t) /\ t[end] = close /\ i \in 1..Len(t)
  BY <1>14, PlacedOne DEF a1, c1
<1>16. Len(t) \in Nat
  BY DEF Written
<1>17. PICK o : Lies(t, ts, o) /\ o[0] = i + 1 /\ o[N] = end
  <2> HIDE DEF end
  <2> QED BY <1>12, <1>13, <1>14, LiesThere DEF flat, end
<1> DEFINE z(k) == o[k - 1] + Len(texts[k])
<1>18. \A k \in 1..N : /\ Placed(t, o[k - 1], texts[k]) /\ Placed(t, z(k), tail(k)) /\ Begins(texts[k])
                       /\ o[k] = z(k) + Len(tail(k)) /\ o[k - 1] \in Nat \ {0} /\ o[k] \in Nat /\ z(k) \in Nat \ {0}
                       /\ values[o[k - 1]] = Got(z(k), x[k])
  <2> SUFFICES ASSUME NEW k \in 1..N
               PROVE  /\ Placed(t, o[k - 1], texts[k]) /\ Placed(t, z(k), tail(k)) /\ Begins(texts[k])
                      /\ o[k] = z(k) + Len(tail(k)) /\ o[k - 1] \in Nat \ {0} /\ o[k] \in Nat /\ z(k) \in Nat \ {0}
                      /\ values[o[k - 1]] = Got(z(k), x[k])
    OBVIOUS
  <2> DEFINE a == texts[k]
             b == tail(k)
             j == o[k - 1]
  <2>1. j \in Nat \ {0} /\ o[k] \in Nat
    <3>1. k - 1 \in 0..N /\ k \in 0..N
      BY <1>1
    <3> QED BY <1>12, <1>17, <3>1 DEF Lies
  <2>2. ts[k] = a \o b /\ a \in Written /\ b \in Written /\ Placed(t, j, ts[k]) /\ o[k] = j + Len(ts[k])
    BY <1>1, <1>11, <1>12, <1>17 DEF Lies
  <2> HIDE DEF a, b, j
  <2>3. Placed(t, j, a \o b)
    BY <2>2
  <2>4. Placed(t, j, a) /\ Placed(t, j + Len(a), b) /\ j + Len(a \o b) = j + Len(a) + Len(b)
    BY <2>2, <2>3, PlacedJoin
  <2>5. Begins(a) /\ values[j] = Got(j + Len(a), x[k])
    BY <2>4 DEF Readable, N, a
  <2>6. j + Len(a) \in Nat \ {0}
    BY <2>1, <2>5 DEF Begins
  <2>7. o[k] = j + Len(a) + Len(b)
    BY <2>2, <2>4
  <2> QED BY <2>1, <2>4, <2>5, <2>6, <2>7 DEF a, b, j
<1> HIDE DEF z, end
<1>19. \A k \in 1..N : o[k - 1] \in 1..Len(t) /\ t[o[k - 1]] \notin White /\ At(t, o[k - 1]) = t[o[k - 1]]
                       /\ t[o[k - 1]] # close
  BY <1>18, BeginsThere DEF close
<1>20. \A k \in 1..N : skip(t, o[k - 1]) = o[k - 1]
  <2> SUFFICES ASSUME NEW k \in 1..N PROVE skip(t, o[k - 1]) = o[k - 1]
    OBVIOUS
  <2>1. o[k - 1] \in o[k - 1]..Len(t) /\ o[k - 1] \in Nat \ {0}
    BY <1>16, <1>18, <1>19
  <2> QED BY <1>19, <2>1, ClearIs
<1>21. ASSUME NEW k \in 1..N, k # N
       PROVE  At(t, z(k)) = comma /\ skip(t, z(k)) = z(k) /\ skip(t, z(k) + 1) = o[k]
  <2>1. tail(k) = sep /\ k + 1 \in 1..N /\ (k + 1) - 1 = k
    BY <1>1, <1>21 DEF tail
  <2>2. Placed(t, z(k), sep) /\ o[k] = z(k) + Len(sep) /\ z(k) \in Nat \ {0}
    BY <1>18, <2>1
  <2>3. /\ z(k) + Len(sep) <= Len(t) + 1
        /\ \A j \in z(k)..z(k) + Len(sep) - 1 : j \in 1..Len(t) /\ t[j] = sep[j - z(k) + 1]
    BY <1>9, <2>2, PlacedWithin
  <2>4. z(k) \in 1..Len(t) /\ t[z(k)] = comma
    <3>1. z(k) \in z(k)..z(k) + Len(sep) - 1 /\ z(k) - z(k) + 1 = 1
      BY <1>9, <2>2
    <3> QED BY <1>9, <2>3, <3>1
  <2>5. At(t, z(k)) = comma
    BY <2>4 DEF At
  <2>6. skip(t, z(k)) = z(k)
    <3>1. z(k) \in z(k)..Len(t)
      BY <1>16, <2>2, <2>4
    <3> QED BY <1>4, <2>2, <2>4, <3>1, ClearIs
  <2>7. o[k] \in 1..Len(t) /\ t[o[k]] \notin White
    BY <1>19, <2>1
  <2>8. Cleared(t, z(k) + 1, o[k])
    <3> SUFFICES ASSUME NEW j \in z(k) + 1..o[k] - 1 PROVE t[j] \in White
      BY DEF Cleared
    <3>1. j \in z(k)..z(k) + Len(sep) - 1 /\ j - z(k) + 1 = 2 /\ Len(sep) = 2
      <4> DEFINE m == z(k)
                 l == Len(sep)
                 n == o[k]
      <4>1. m \in Nat \ {0} /\ l \in 1..2 /\ n = m + l /\ j \in m + 1..n - 1
        BY <1>9, <2>2
      <4> HIDE DEF m, l, n
      <4>2. j \in m..m + l - 1 /\ j - m + 1 = 2 /\ l = 2
        BY <4>1
      <4> QED BY Zenon, <4>2 DEF m, l
    <3> QED BY <1>4, <1>9, <2>3, <3>1
  <2>9. z(k) + 1 \in Nat \ {0} /\ o[k] \in z(k) + 1..Len(t)
    BY <1>9, <1>16, <2>2, <2>7
  <2>10. skip(t, z(k) + 1) = o[k]
    BY <2>7, <2>8, <2>9, ClearIs
  <2> QED BY <2>5, <2>6, <2>10
<1>22. end \in Nat \ {0} /\ skip(t, end) = end
  <2>1. end \in Nat \ {0} /\ end \in end..Len(t)
    BY <1>15, <1>16
  <2> QED BY <1>4, <1>15, <2>1, ClearIs
<1>23. CASE N = 0
  <2>1. end = i + 1
    BY <1>17, <1>23
  <2>2. Container(t, i, type, close, values) = Got(end + 1, Plain0(type))
    BY <1>6, <1>15, <1>22, <2>1 DEF type
  <2>3. e = <<>>
    BY <1>23
  <2>4. Plain0(type) = Built(type, e)
    BY <2>3 DEF Plain0, Built
  <2> QED BY Zenon, <1>5, <1>14, <1>15, <2>2, <2>4 DEF N, type
<1>24. CASE N # 0
  <2> DEFINE a == [k \in 0..N |-> IF k = 0 THEN o[0] ELSE IF k = N THEN end + 1 ELSE z(k) + 1]
             Y == {Named(x[k], <<>>) : k \in 1..N}
  <2>1. e \in Seq(Y) /\ Len(e) = N
    <3>1. e \in [1..N -> Y]
      OBVIOUS
    <3> QED BY <1>1, <3>1, SequenceOfLength
  <2>2. \A k \in 1..N : e[k] = Named(x[k], <<>>)
    OBVIOUS
  <2>3. \A k \in 1..N : skip(t, a[k - 1]) = o[k - 1]
    <3> SUFFICES ASSUME NEW k \in 1..N PROVE skip(t, a[k - 1]) = o[k - 1]
      OBVIOUS
    <3>1. CASE k = 1
      BY <1>1, <1>20, <3>1
    <3>2. CASE k # 1
      <4>1. k - 1 \in 1..N /\ k - 1 # N /\ a[k - 1] = z(k - 1) + 1
        BY <1>1, <3>2
      <4> QED BY <1>21, <4>1
    <3> QED BY <3>1, <3>2
  <2>4. a[0] = o[0] /\ a[N] = end + 1 /\ \A k \in 1..N : k # N => a[k] = z(k) + 1
    BY <1>1, <1>24
  <2> HIDE DEF e, a, Y
  <2>5. Stepwise(t, type, close, values, a, e)
    <3> SUFFICES ASSUME NEW k \in 1..N, NEW r, r.at = a[k - 1], r.item.type = type
                 PROVE  Member(t, r, close, values) =
                          IF k < N THEN Another(Joined(r, a[k], e[k])) ELSE Over(Joined(r, a[k], e[k]))
      BY <2>1 DEF Stepwise
    <3>1. Member(t, r, close, values) = Element(t, r, close, Got(z(k), x[k]), <<>>)
      <4>1. skip(t, r.at) = o[k - 1]
        BY <2>3
      <4>2. values[o[k - 1]] = Got(z(k), x[k])
        BY <1>18
      <4> QED BY <1>7, <4>1, <4>2
    <3>2. CASE k # N
      <4>1. Element(t, r, close, Got(z(k), x[k]), <<>>) = Another(Joined(r, z(k) + 1, Named(x[k], <<>>)))
        BY <1>8, <1>21, <3>2
      <4>2. k < N /\ a[k] = z(k) + 1
        BY <1>1, <2>4, <3>2
      <4> QED BY <2>2, <3>1, <4>1, <4>2
    <3>3. CASE k = N
      <4>1. z(k) = end
        <5>1. tail(k) = <<>> /\ Len(<<>>) = 0
          BY <3>3 DEF tail
        <5>2. o[k] = z(k) + 0 /\ z(k) \in Nat
          BY <1>18, <5>1
        <5> QED BY <1>17, <3>3, <5>2
      <4>2. Element(t, r, close, Got(z(k), x[k]), <<>>) = Over(Joined(r, end + 1, Named(x[k], <<>>)))
        BY <1>4, <1>8, <1>15, <1>22, <4>1
      <4>3. ~(k < N) /\ a[k] = end + 1
        BY <1>1, <2>4, <3>3
      <4> QED BY <2>2, <3>1, <4>2, <4>3
    <3> QED BY <3>2, <3>3
  <2>6. N \in 1..Len(t)
    <3>1. \A k \in 1..N : Len(ts[k]) \in Nat \ {0}
      <4> SUFFICES ASSUME NEW k \in 1..N PROVE Len(ts[k]) \in Nat \ {0}
        OBVIOUS
      <4>1. Len(texts[k]) \in Nat \ {0} /\ Len(tail(k)) \in Nat
        BY <1>11, <1>18 DEF Begins, Written
      <4>2. o[k] = o[k - 1] + Len(ts[k]) /\ Len(ts[k]) \in Nat /\ o[k] = (o[k - 1] + Len(texts[k])) + Len(tail(k))
            /\ o[k - 1] \in Nat
        <5>1. ts[k] \in Written
          BY <1>12
        <5>2. Len(ts[k]) \in Nat
          BY <5>1 DEF Written
        <5> QED BY <1>12, <1>17, <1>18, <5>2 DEF Lies, z
      <4> QED BY SMTT(30), <4>1, <4>2
    <3>2. end >= i + 1 + N
      BY <1>12, <1>17, <3>1, LiesLong
    <3> QED BY <1>1, <1>15, <1>16, <1>24, <3>2
  <2>7. Members(t, a[0], type, close, values) = Got(a[N], Built(type, e))
    BY <2>1, <2>5, <2>6, MembersRead
  <2>8. skip(t, i + 1) = o[0] /\ At(t, o[0]) # close
    <3>1. 1 \in 1..N /\ 1 - 1 = 0
      BY <1>1, <1>24
    <3>2. skip(t, o[0]) = o[0] /\ At(t, o[0]) # close
      BY <1>19, <1>20, <3>1
    <3> QED BY <1>17, <3>2
  <2>9. Container(t, i, type, close, values) = Got(end + 1, Built(type, e))
    BY <1>6, <2>4, <2>7, <2>8 DEF type
  <2> QED BY Zenon, <1>5, <1>14, <1>15, <2>9 DEF N, type, e
<1> QED BY <1>23, <1>24

\* Three texts in one.
LEMMA PlacedThree ==
  ASSUME NEW t \in Written, NEW i, NEW a \in Written, NEW b \in Written, NEW c \in Written, Placed(t, i, a \o b \o c)
  PROVE  /\ Placed(t, i, a) /\ Placed(t, i + Len(a), b) /\ Placed(t, i + Len(a) + Len(b), c)
         /\ i + Len(a \o b \o c) = i + Len(a) + Len(b) + Len(c)
<1> DEFINE d == a \o b
<1>1. d \in Written /\ Placed(t, i, d \o c)
  BY BytesAre
<1>2. Placed(t, i, a \o b) /\ Placed(t, i + Len(d), c) /\ i + Len(d \o c) = i + Len(d) + Len(c)
  <2> HIDE DEF d
  <2>1. Placed(t, i, d) /\ Placed(t, i + Len(d), c) /\ i + Len(d \o c) = i + Len(d) + Len(c)
    BY <1>1, PlacedJoin
  <2> QED BY Zenon, <2>1 DEF d
<1>3. Placed(t, i, a) /\ Placed(t, i + Len(a), b) /\ i + Len(a \o b) = i + Len(a) + Len(b)
  <2> HIDE DEF d
  <2> QED BY <1>2, PlacedJoin
<1> QED BY Zenon, <1>2, <1>3 DEF d

\* Texts of blanks alone.
White0(p) == p \in Written /\ Len(p) \in Nat /\ \A k \in 1..Len(p) : p[k] \in White
\* The blanks of a text that is printed with them.
LEMMA BlanksAre ==
  ASSUME NEW fmt \in BOOLEAN, NEW n \in Nat
  PROVE  White0(Blank(fmt, Tabs(n))) /\ White0(Blank(fmt, <<"\t">>)) /\ White0(Blank(fmt, <<"\n">>))
<1>1. White0(<<>>)
  BY BytesAre DEF White0
<1>2. \A x \in {"\t", "\n"} : White0(<<x>>)
  <2> SUFFICES ASSUME NEW x \in {"\t", "\n"} PROVE White0(<<x>>)
    OBVIOUS
  <2>1. x \in White /\ x \in Marks
    BY DEF White, Marks
  <2>2. <<x>> \in Written /\ Len(<<x>>) = 1 /\ \A k \in 1..1 : <<x>>[k] = x
    BY <2>1, MarksAre
  <2> QED BY <2>1, <2>2 DEF White0
<1>3. White0(Tabs(n))
  <2> DEFINE tab == "\t"
  <2>1. tab \in White /\ Tabs(n) = [i \in 1..n |-> tab] /\ Tabs(n) \in Written
    BY TabsAre DEF White, Tabs
  <2> HIDE DEF tab
  <2>2. Len(Tabs(n)) = n /\ \A k \in 1..n : Tabs(n)[k] = tab
    BY <2>1
  <2> QED BY <2>1, <2>2 DEF White0
<1> QED BY <1>1, <1>2, <1>3 DEF Blank

\* The k-th of n members, in t before upto from i on: its name begins at s, its value ends at z, as y it is read.
MemberStands(t, values, k, n, i, upto, s, z, y) ==
  /\ s \in i..Len(t) /\ Cleared(t, i, s) /\ t[s] \notin White /\ t[s] # "}" /\ s < z /\ z <= upto
  /\ k # n => /\ Cleared(t, z + 1, upto) /\ z < upto
              /\ \A r : skip(t, r.at) = s /\ r.item.type = "object" =>
                   Member(t, r, "}", values) = Another(Joined(r, z + 1, y))
  /\ k = n => \A r, b : b \in upto..Len(t) /\ Cleared(t, upto, b) /\ t[b] = "}" /\ skip(t, r.at) = s
                        /\ r.item.type = "object" => Member(t, r, "}", values) = Over(Joined(r, b + 1, y))
\* A member of an object is read, up to what follows it.
LEMMA MemberRead ==
  ASSUME NEW t \in Written, NEW i, NEW fmt \in BOOLEAN, NEW texts \in Seq(Written), NEW depth \in Nat, NEW item,
         NEW k \in 1..Len(texts), item.child[k].string \in Strings, Begins(texts[k]), NEW values, NEW x,
         \A j : Placed(t, j, texts[k]) => values[j] = Got(j + Len(texts[k]), x),
         Placed(t, i, Prints(item, texts, depth, fmt, k)), NEW e, e = i + Len(Prints(item, texts, depth, fmt, k)),
         NEW y, y = Named(x, item.child[k].string)
  PROVE  \E s, z \in Nat \ {0} : MemberStands(t, values, k, Len(texts), i, e, s, z, y)
<1> DEFINE N == Len(texts)
           name == item.child[k].string
           key == print_string_ptr(name)
           f == texts[k]
           tabs == Blank(fmt, Tabs(depth + 1))
           dots == ":"
           colon == <<dots>>
           tab == Blank(fmt, <<"\t">>)
           comma == ","
           close == "}"
           type == "object"
           quote == "\""
           sep == IF k = N THEN <<>> ELSE <<comma>>
           nl == Blank(fmt, <<"\n">>)
           p1 == tabs \o key \o colon
           p2 == p1 \o tab \o f
           p3 == p2 \o sep \o nl
<1>1. White0(tabs) /\ White0(tab) /\ White0(nl)
  <2>1. depth + 1 \in Nat
    OBVIOUS
  <2> QED BY <2>1, BlanksAre
<1>2. key \in Written /\ f \in Written /\ name \in Strings
  BY StringFits
<1>3. colon \in Written /\ <<comma>> \in Written
  BY MinifyWord
<1>4. Prints(item, texts, depth, fmt, k) = p3
  BY DEF Prints
<1>5. close # comma /\ comma \notin White /\ close \notin White /\ dots \notin White
  BY DEF White, Space
<1>6. quote \notin White /\ quote # close
  BY Zenon DEF White, Space
<1>7. \A r, n : r.item.type = type /\ n = parse_string(t, skip(t, r.at)) =>
        Member(t, r, close, values) = NamedElement(t, r, close, values, n)
  BY DEF Member
<1>8. \A r, n, at : n.ok /\ at = skip(t, n.at) /\ At(t, at) = dots =>
        NamedElement(t, r, close, values, n) = Element(t, r, close, values[skip(t, at + 1)], n.item.valuestring)
  BY DEF NamedElement
<1>9. \A r, z, w : w = skip(t, z) =>
        /\ At(t, w) = comma => Element(t, r, close, Got(z, x), name) = Another(Joined(r, w + 1, Named(x, name)))
        /\ At(t, w) = close /\ At(t, w) # comma =>
             Element(t, r, close, Got(z, x), name) = Over(Joined(r, w + 1, Named(x, name)))
  <2> SUFFICES ASSUME NEW r, NEW z, NEW w, w = skip(t, z)
               PROVE  /\ At(t, w) = comma => Element(t, r, close, Got(z, x), name) = Another(Joined(r, w + 1, Named(x, name)))
                      /\ At(t, w) = close /\ At(t, w) # comma =>
                           Element(t, r, close, Got(z, x), name) = Over(Joined(r, w + 1, Named(x, name)))
    OBVIOUS
  <2> HIDE DEF close, name
  <2>1. Got(z, x).ok /\ Got(z, x).at = z /\ Got(z, x).item = x
    BY DEF Got
  <2>2. Element(t, r, close, Got(z, x), name) = Continued(t, r, close, w, Named(x, name))
    BY <2>1 DEF Element
  <2> QED BY <2>2 DEF Continued, comma
<1>10. \A j : Placed(t, j, key) => parse_string(t, j) = Got(j + Len(key), cJSON_CreateString(name)) /\ At(t, j) = quote
  <2> SUFFICES ASSUME NEW j, Placed(t, j, key)
               PROVE  parse_string(t, j) = Got(j + Len(key), cJSON_CreateString(name)) /\ At(t, j) = quote
    OBVIOUS
  <2>1. key = print_string_ptr(name)
    OBVIOUS
  <2> HIDE DEF name
  <2>2. /\ parse_string(t, j) = Got(j + Len(key), cJSON_CreateString(name)) /\ At(t, j) = quote /\ key \in Written
        /\ Len(key) \in Nat \ {0}
    BY <1>2, StringPlaced
  <2> QED BY <2>2
<1>11. Len(key) \in Nat /\ Len(f) \in Nat \ {0} /\ Len(t) \in Nat /\ Len(colon) = 1 /\ Len(<<comma>>) = 1 /\ Len(<<>>) = 0
  BY <1>2 DEF Begins, Written
<1>12. k # N => sep = <<comma>>
  OBVIOUS
<1>13. k = N => sep = <<>>
  OBVIOUS
<1>14. sep \in Written /\ Len(sep) \in Nat
  BY <1>3, <1>11, BytesAre
<1> HIDE DEF name, key, f, tabs, dots, tab, comma, close, type, quote, sep, nl, N
<1>15. tabs \in Written /\ tab \in Written /\ nl \in Written /\ Len(tabs) \in Nat /\ Len(tab) \in Nat /\ Len(nl) \in Nat
  BY <1>1 DEF White0
<1> DEFINE s == i + Len(tabs)
           c == s + Len(key)
           q == c + 1 + Len(tab)
           z == q + Len(f)
           v == z + Len(sep)
<1>16. /\ Placed(t, i, tabs) /\ Placed(t, s, key) /\ Placed(t, c, colon) /\ Placed(t, c + 1, tab) /\ Placed(t, q, f)
       /\ Placed(t, z, sep) /\ Placed(t, v, nl) /\ e = v + Len(nl)
  <2> HIDE DEF colon
  <2>1. p1 \in Written /\ p2 \in Written
    BY <1>2, <1>3, <1>15, BytesAre
  <2>2. Placed(t, i, p3) /\ e = i + Len(p3)
    BY <1>4
  <2> HIDE DEF p2
  <2>3. /\ Placed(t, i, p2) /\ Placed(t, i + Len(p2), sep) /\ Placed(t, i + Len(p2) + Len(sep), nl)
        /\ e = i + Len(p2) + Len(sep) + Len(nl)
    <3>1. Placed(t, i, p2 \o sep \o nl) /\ e = i + Len(p2 \o sep \o nl)
      BY Zenon, <2>2
    <3> QED BY <1>14, <1>15, <2>1, <3>1, PlacedThree
  <2> HIDE DEF p1
  <2>4. /\ Placed(t, i, p1) /\ Placed(t, i + Len(p1), tab) /\ Placed(t, i + Len(p1) + Len(tab), f)
        /\ i + Len(p2) = i + Len(p1) + Len(tab) + Len(f)
    <3>1. Placed(t, i, p1 \o tab \o f) /\ p2 = p1 \o tab \o f
      BY Zenon, <2>3 DEF p2
    <3>2. /\ Placed(t, i, p1) /\ Placed(t, i + Len(p1), tab) /\ Placed(t, i + Len(p1) + Len(tab), f)
          /\ i + Len(p1 \o tab \o f) = i + Len(p1) + Len(tab) + Len(f)
      BY <1>2, <1>15, <2>1, <3>1, PlacedThree
    <3> QED BY Zenon, <3>1, <3>2
  <2>5. /\ Placed(t, i, tabs) /\ Placed(t, i + Len(tabs), key) /\ Placed(t, i + Len(tabs) + Len(key), colon)
        /\ i + Len(p1) = i + Len(tabs) + Len(key) + Len(colon)
    <3>1. Placed(t, i, tabs \o key \o colon) /\ p1 = tabs \o key \o colon
      BY Zenon, <2>4 DEF p1
    <3>2. /\ Placed(t, i, tabs) /\ Placed(t, i + Len(tabs), key) /\ Placed(t, i + Len(tabs) + Len(key), colon)
          /\ i + Len(tabs \o key \o colon) = i + Len(tabs) + Len(key) + Len(colon)
      BY <1>2, <1>3, <1>15, <3>1, PlacedThree
    <3> QED BY Zenon, <3>1, <3>2
  <2>6. i + Len(p1) = c + 1 /\ i + Len(p2) = z
    BY <1>11, <2>4, <2>5
  <2> QED BY Zenon, <2>3, <2>4, <2>5, <2>6
<1>17. i \in Nat \ {0} /\ s \in Nat \ {0} /\ c \in Nat \ {0} /\ q \in Nat \ {0} /\ z \in Nat \ {0} /\ v \in Nat \ {0}
       /\ i <= s /\ s <= c /\ c < q /\ q < z /\ z <= v /\ v <= e /\ e \in Nat /\ e <= Len(t) + 1
  <2>1. i \in Nat \ {0} /\ e <= Len(t) + 1
    BY <1>16 DEF Placed
  <2>2. s \in Nat \ {0} /\ i <= s
    BY <1>15, <2>1
  <2> HIDE DEF s
  <2>3. c \in Nat \ {0} /\ s <= c
    BY <1>11, <2>2
  <2> HIDE DEF c
  <2>4. q \in Nat \ {0} /\ c < q
    BY <1>15, <2>3
  <2> HIDE DEF q
  <2>5. z \in Nat \ {0} /\ q < z
    BY <1>11, <2>4
  <2> HIDE DEF z
  <2>6. v \in Nat \ {0} /\ z <= v
    BY <1>14, <2>5
  <2> HIDE DEF v
  <2>7. e \in Nat /\ v <= e
    BY <1>15, <1>16, <2>6
  <2> QED BY <2>1, <2>2, <2>3, <2>4, <2>5, <2>6, <2>7
<1>18. q = c + 1 + Len(tab) /\ s = i + Len(tabs) /\ z = q + Len(f) /\ v = z + Len(sep) /\ c = s + Len(key)
  OBVIOUS
<1> HIDE DEF s, c, q, z, v
<1>19. Cleared(t, i, s) /\ Cleared(t, c + 1, q) /\ Cleared(t, v, e)
  <2>1. ASSUME NEW a \in Nat \ {0}, NEW w, Placed(t, a, w), White0(w) PROVE Cleared(t, a, a + Len(w))
    BY <2>1, ClearIs DEF White0
  <2>2. c + 1 \in Nat \ {0}
    BY <1>17
  <2>3. Cleared(t, i, i + Len(tabs))
    BY <1>1, <1>16, <1>17, <2>1
  <2>4. Cleared(t, c + 1, c + 1 + Len(tab))
    BY <1>1, <1>16, <2>1, <2>2
  <2>5. Cleared(t, v, v + Len(nl))
    BY <1>1, <1>16, <1>17, <2>1
  <2> QED BY <1>16, <1>18, <2>3, <2>4, <2>5
<1>20. c \in 1..Len(t) /\ t[c] = dots /\ At(t, c) = dots
  BY <1>16, PlacedOne DEF colon
<1>21. parse_string(t, s) = Got(c, cJSON_CreateString(name)) /\ At(t, s) = quote /\ s \in 1..Len(t) /\ t[s] = quote
  <2>1. parse_string(t, s) = Got(c, cJSON_CreateString(name)) /\ At(t, s) = quote
    BY <1>10, <1>16, <1>18
  <2>2. s \in 1..Len(t)
    BY <1>11, <1>17, <1>20
  <2> QED BY <2>1, <2>2 DEF At
<1>22. skip(t, c) = c
  <2>1. c \in c..Len(t)
    BY <1>11, <1>20
  <2> QED BY <1>5, <1>17, <1>20, <2>1, ClearIs
<1>23. skip(t, c + 1) = q
  <2>1. q \in 1..Len(t) /\ t[q] \notin White
    BY <1>16, BeginsThere DEF f
  <2>2. c + 1 \in Nat \ {0} /\ q \in c + 1..Len(t)
    BY <1>11, <1>17, <2>1
  <2> QED BY <1>19, <2>1, <2>2, ClearIs
<1>24. values[q] = Got(z, x)
  BY <1>16, <1>18 DEF f
<1>25. \A r : skip(t, r.at) = s /\ r.item.type = type => Member(t, r, close, values) = Element(t, r, close, Got(z, x), name)
  <2> SUFFICES ASSUME NEW r, skip(t, r.at) = s, r.item.type = type
               PROVE  Member(t, r, close, values) = Element(t, r, close, Got(z, x), name)
    OBVIOUS
  <2> DEFINE n == Got(c, cJSON_CreateString(name))
  <2>1. n.ok /\ n.at = c /\ n.item.valuestring = name
    BY DEF Got, cJSON_CreateString, Item
  <2>2. n = parse_string(t, skip(t, r.at))
    BY <1>21
  <2> HIDE DEF n
  <2>3. Member(t, r, close, values) = NamedElement(t, r, close, values, n)
    BY <1>7, <2>2
  <2>4. NamedElement(t, r, close, values, n) = Element(t, r, close, values[q], name)
    BY <1>8, <1>20, <1>22, <1>23, <2>1
  <2> QED BY <1>24, <2>3, <2>4
<1>26. y = Named(x, name)
  BY DEF name
<1>27. ASSUME k # N
       PROVE  /\ Cleared(t, z + 1, e) /\ z < e
              /\ \A r : skip(t, r.at) = s /\ r.item.type = type => Member(t, r, close, values) = Another(Joined(r, z + 1, y))
  <2>1. Placed(t, z, <<comma>>) /\ v = z + 1
    BY <1>11, <1>12, <1>16, <1>18, <1>27
  <2>2. z \in 1..Len(t) /\ t[z] = comma /\ At(t, z) = comma
    BY <2>1, PlacedOne
  <2>3. skip(t, z) = z
    <3>1. z \in z..Len(t)
      BY <1>11, <2>2
    <3> QED BY <1>5, <1>17, <2>2, <3>1, ClearIs
  <2>4. \A r : Element(t, r, close, Got(z, x), name) = Another(Joined(r, z + 1, y))
    BY <1>9, <1>26, <2>2, <2>3
  <2>5. Cleared(t, z + 1, e) /\ z < e
    BY <1>17, <1>19, <2>1
  <2> QED BY <1>25, <2>4, <2>5
<1>28. ASSUME k = N, NEW r, NEW b, b \in e..Len(t), Cleared(t, e, b), t[b] = close, skip(t, r.at) = s, r.item.type = type
       PROVE  Member(t, r, close, values) = Over(Joined(r, b + 1, y))
  <2>1. v = z
    BY <1>11, <1>13, <1>17, <1>18, <1>28
  <2>2. b \in Nat /\ e \in Nat /\ b \in z..Len(t) /\ b \in 1..Len(t)
    BY SMTT(30), <1>11, <1>17, <1>28
  <2>3. Cleared(t, z, b)
    BY <1>17, <1>19, <1>28, <2>1, <2>2, ClearIs
  <2>4. skip(t, z) = b
    BY <1>5, <1>17, <1>28, <2>2, <2>3, ClearIs
  <2>5. At(t, b) = close
    BY <1>28, <2>2 DEF At
  <2>6. Element(t, r, close, Got(z, x), name) = Over(Joined(r, b + 1, y))
    BY <1>5, <1>9, <1>26, <2>4, <2>5
  <2> QED BY <1>25, <1>28, <2>6
<1>29. s \in i..Len(t) /\ t[s] \notin White /\ t[s] # close /\ s < z /\ z <= e
  BY <1>6, <1>11, <1>17, <1>21
<1>30. /\ s \in i..Len(t) /\ Cleared(t, i, s) /\ t[s] \notin White /\ t[s] # close /\ s < z /\ z <= e
       /\ k # N => /\ Cleared(t, z + 1, e) /\ z < e
                   /\ \A r : skip(t, r.at) = s /\ r.item.type = type =>
                        Member(t, r, close, values) = Another(Joined(r, z + 1, y))
       /\ k = N => \A r, b : b \in e..Len(t) /\ Cleared(t, e, b) /\ t[b] = close /\ skip(t, r.at) = s /\ r.item.type = type =>
                     Member(t, r, close, values) = Over(Joined(r, b + 1, y))
  BY <1>19, <1>27, <1>28, <1>29
<1>31. MemberStands(t, values, k, N, i, e, s, z, y)
  BY Zenon, <1>30 DEF close, type, MemberStands
<1> QED BY <1>17, <1>31 DEF N

\* An object with its members is read.
LEMMA ObjectRead ==
  ASSUME NEW t \in Written, NEW i, NEW fmt \in BOOLEAN, NEW texts \in Seq(Written), NEW depth \in Nat, NEW item,
         \A k \in 1..Len(texts) : item.child[k].string \in Strings, NEW values, NEW x,
         Readable(t, values, texts, x), NEW p, p = print_object(item, texts, depth, fmt), Placed(t, i, p)
  PROVE  /\ parse_object(t, i, values) =
              Got(i + Len(p), Built("object", [k \in 1..Len(texts) |-> Named(x[k], item.child[k].string)]))
         /\ At(t, i) = "{"
<1> DEFINE N == Len(texts)
           Y(k) == Named(x[k], item.child[k].string)
           y == [k \in 1..N |-> Y(k)]
           close == "}"
           type == "object"
           Entry(k) == Prints(item, texts, depth, fmt, k)
           ts == [k \in 1..N |-> Entry(k)]
           a1 == <<"{">>
           c1 == <<close>>
           nl == Blank(fmt, <<"\n">>)
           indent == IF N = 0 /\ depth > 0 THEN depth - 1 ELSE depth
           tabs == Blank(fmt, Tabs(indent))
           flat == FlattenSeq(ts)
           p1 == a1 \o nl \o flat
           Q(k, s, z, from, upto) == MemberStands(t, values, k, N, from, upto, s, z, Y(k))
<1>1. N \in Nat /\ \A k \in 1..N : texts[k] \in Written
  OBVIOUS
<1>2. p = p1 \o tabs \o c1
  BY DEF print_object, Prints, Blank
<1>3. a1 \in Written /\ c1 \in Written /\ Len(a1) = 1 /\ Len(c1) = 1
  BY MinifyWord
<1>4. close \notin White
  BY DEF White, Space
<1>5. parse_object(t, i, values) = Container(t, i, type, close, values)
  BY DEF parse_object
<1>6. \A first : first = skip(t, i + 1) => Container(t, i, type, close, values) =
        IF At(t, first) = close THEN Got(first + 1, Plain0(type)) ELSE Members(t, first, type, close, values)
  BY DEF Container
<1>7. White0(nl) /\ White0(tabs)
  <2>1. indent \in Nat
    OBVIOUS
  <2> HIDE DEF indent
  <2> QED BY <2>1, BlanksAre
<1>8. \A k \in 1..N : Entry(k) \in Written
  BY MemberFits
<1>9. At(t, i) = a1[1] => At(t, i) = "{"
  OBVIOUS
<1>10. ASSUME NEW k \in 1..N, NEW from, Placed(t, from, Entry(k)), NEW upto, upto = from + Len(Entry(k))
       PROVE  \E s, z \in Nat \ {0} : Q(k, s, z, from, upto)
  <2>1. Begins(texts[k]) /\ \A j : Placed(t, j, texts[k]) => values[j] = Got(j + Len(texts[k]), x[k])
    BY DEF Readable
  <2>2. Y(k) = Named(x[k], item.child[k].string) /\ item.child[k].string \in Strings
    OBVIOUS
  <2> DEFINE w == Y(k)
             g == x[k]
             f == texts[k]
             name == item.child[k].string
  <2>3. Begins(f) /\ (\A j : Placed(t, j, f) => values[j] = Got(j + Len(f), g)) /\ w = Named(g, name) /\ name \in Strings
    BY <2>1, <2>2
  <2> HIDE DEF N, Y, w, g
  <2>4. \E s, z \in Nat \ {0} : MemberStands(t, values, k, N, from, upto, s, z, w)
    BY <1>10, <2>3, MemberRead DEF N
  <2> QED BY Zenon, <2>4 DEF w
<1>11. y \in Seq({Y(k) : k \in 1..N}) /\ Len(y) = N /\ \A k \in 1..N : y[k] = Y(k)
  <2> DEFINE Z == {Y(k) : k \in 1..N}
  <2>1. y \in [1..N -> Z]
    OBVIOUS
  <2>2. \A k \in 1..N : y[k] = Y(k)
    OBVIOUS
  <2> HIDE DEF Y, y, N, Z
  <2>3. y \in Seq(Z) /\ Len(y) = N
    BY <1>1, <2>1, SequenceOfLength
  <2> QED BY <2>2, <2>3 DEF Z
<1> DEFINE M == {Y(k) : k \in 1..N}
<1> HIDE DEF N, Y, y, close, type, Entry, nl, tabs, indent, Q, a1, c1, M
<1>12. ts \in Seq(Written) /\ Len(ts) = N /\ \A k \in 1..N : ts[k] = Entry(k)
  <2>1. ts \in [1..N -> Written]
    BY <1>8
  <2> QED BY <1>1, <2>1, SequenceOfLength
<1> HIDE DEF ts
<1>13. flat \in Written
  BY <1>12, FlatIs
<1> HIDE DEF flat
<1> DEFINE m == i + 1 + Len(nl)
           u == m + Len(flat)
           b == u + Len(tabs)
<1>14. nl \in Written /\ tabs \in Written /\ Len(nl) \in Nat /\ Len(tabs) \in Nat /\ Len(flat) \in Nat /\ Len(t) \in Nat
  BY <1>7, <1>13 DEF White0, Written
<1>15. /\ Placed(t, i, a1) /\ Placed(t, i + 1, nl) /\ Placed(t, m, flat) /\ Placed(t, u, tabs) /\ Placed(t, b, c1)
       /\ i + Len(p) = b + 1
  <2>1. p1 \in Written
    BY <1>3, <1>13, <1>14, BytesAre
  <2>2. Placed(t, i, p1 \o tabs \o c1) /\ i + Len(p) = i + Len(p1 \o tabs \o c1)
    BY Zenon, <1>2
  <2> HIDE DEF p1, m, u, b
  <2>7. /\ Placed(t, i, p1) /\ Placed(t, i + Len(p1), tabs) /\ Placed(t, i + Len(p1) + Len(tabs), c1)
        /\ i + Len(p1 \o tabs \o c1) = i + Len(p1) + Len(tabs) + Len(c1)
    <3>1. p1 \in Written /\ tabs \in Written /\ c1 \in Written
      BY <1>3, <1>14, <2>1
    <3>2. Placed(t, i, p1 \o tabs \o c1)
      BY <2>2
    <3> QED BY <3>1, <3>2, PlacedThree
  <2>3. /\ Placed(t, i, p1) /\ Placed(t, i + Len(p1), tabs) /\ Placed(t, i + Len(p1) + Len(tabs), c1)
        /\ i + Len(p) = i + Len(p1) + Len(tabs) + Len(c1)
    BY Zenon, <2>2, <2>7
  <2>4. Placed(t, i, a1 \o nl \o flat) /\ p1 = a1 \o nl \o flat
    BY Zenon, <2>3 DEF p1
  <2>5. /\ Placed(t, i, a1) /\ Placed(t, i + Len(a1), nl) /\ Placed(t, i + Len(a1) + Len(nl), flat)
        /\ i + Len(a1 \o nl \o flat) = i + Len(a1) + Len(nl) + Len(flat)
    <3>1. a1 \in Written /\ nl \in Written /\ flat \in Written
      BY <1>3, <1>13, <1>14
    <3>2. Placed(t, i, a1 \o nl \o flat)
      BY <2>4
    <3> QED BY <3>1, <3>2, PlacedThree
  <2>6. i + Len(p1) = u /\ i + Len(a1) = i + 1 /\ i + Len(p) = b + 1
    BY Zenon, <1>3, <2>3, <2>4, <2>5 DEF m, u, b
  <2> QED BY Zenon, <1>3, <2>3, <2>5, <2>6 DEF m, u, b
<1>16. At(t, i) = "{" /\ b \in 1..Len(t) /\ t[b] = close /\ At(t, b) = close
  <2>1. At(t, i) = "{"
    BY <1>15, PlacedOne DEF a1
  <2> HIDE DEF m, u, b
  <2>2. Placed(t, b, <<close>>)
    BY <1>15 DEF c1
  <2> QED BY <2>1, <2>2, PlacedOne
<1>17. m = i + 1 + Len(nl) /\ u = m + Len(flat) /\ b = u + Len(tabs) /\ i \in Nat \ {0}
  BY <1>15 DEF Placed
<1> HIDE DEF m, u, b
<1>18. m \in Nat \ {0} /\ u \in Nat \ {0} /\ b \in Nat \ {0} /\ m <= u /\ u <= b /\ i + 1 <= m /\ i + 1 \in Nat \ {0}
  BY SMTT(30), <1>14, <1>17
<1>30. b \in i + 1..Len(t) /\ b \in u..Len(t) /\ b \in 1..Len(t) /\ \A n \in Nat : u >= m + n => n <= Len(t)
  <2>1. b \in 1..Len(t)
    BY <1>16
  <2> QED BY <1>14, <1>17, <1>18, <2>1
<1>19. Cleared(t, i + 1, m) /\ Cleared(t, u, b)
  <2>1. ASSUME NEW a \in Nat \ {0}, NEW w, Placed(t, a, w), White0(w) PROVE Cleared(t, a, a + Len(w))
    BY <2>1, ClearIs DEF White0
  <2>2. Cleared(t, i + 1, i + 1 + Len(nl))
    BY <1>7, <1>15, <1>18, <2>1
  <2>3. Cleared(t, u, u + Len(tabs))
    BY <1>7, <1>15, <1>18, <2>1
  <2> QED BY <1>17, <2>2, <2>3
<1>20. PICK o : Lies(t, ts, o) /\ o[0] = m /\ o[N] = u
  <2>1. Placed(t, m, flat) /\ m + Len(flat) = u
    BY <1>15, <1>17
  <2> QED BY <1>12, <2>1, LiesThere DEF flat
<1>21. \A k \in 0..N : o[k] \in Nat \ {0}
  BY <1>12, <1>20 DEF Lies
<1>22. \A k \in 1..N : \E s, z \in Nat \ {0} : Q(k, s, z, o[k - 1], o[k])
  <2> SUFFICES ASSUME NEW k \in 1..N PROVE \E s, z \in Nat \ {0} : Q(k, s, z, o[k - 1], o[k])
    OBVIOUS
  <2>1. ts[k] = Entry(k) /\ Placed(t, o[k - 1], ts[k]) /\ o[k] = o[k - 1] + Len(ts[k])
    BY <1>12, <1>20 DEF Lies
  <2> QED BY <1>10, <2>1
<1> DEFINE S(k) == CHOOSE s \in Nat \ {0} : \E z \in Nat \ {0} : Q(k, s, z, o[k - 1], o[k])
           Z(k) == CHOOSE z \in Nat \ {0} : Q(k, S(k), z, o[k - 1], o[k])
<1>23. \A k \in 1..N : S(k) \in Nat \ {0} /\ Z(k) \in Nat \ {0} /\ Q(k, S(k), Z(k), o[k - 1], o[k])
  <2> SUFFICES ASSUME NEW k \in 1..N
               PROVE  S(k) \in Nat \ {0} /\ Z(k) \in Nat \ {0} /\ Q(k, S(k), Z(k), o[k - 1], o[k])
    OBVIOUS
  <2>1. \E s \in Nat \ {0} : \E z \in Nat \ {0} : Q(k, s, z, o[k - 1], o[k])
    BY <1>22
  <2>2. S(k) \in Nat \ {0} /\ \E z \in Nat \ {0} : Q(k, S(k), z, o[k - 1], o[k])
    BY Zenon, <2>1
  <2> HIDE DEF S
  <2> QED BY Zenon, <2>2
<1> HIDE DEF S, Z
<1>24. \A k \in 1..N : /\ S(k) \in o[k - 1]..Len(t) /\ Cleared(t, o[k - 1], S(k)) /\ t[S(k)] \notin White /\ t[S(k)] # close
                       /\ S(k) < Z(k) /\ Z(k) <= o[k]
  BY <1>23 DEF Q, MemberStands, close
<1>25. \A k \in 1..N : k # N =>
         /\ Cleared(t, Z(k) + 1, o[k]) /\ Z(k) < o[k]
         /\ \A r : skip(t, r.at) = S(k) /\ r.item.type = type =>
              Member(t, r, close, values) = Another(Joined(r, Z(k) + 1, y[k]))
  BY <1>11, <1>23 DEF Q, MemberStands, close, type
<1>26. \A k \in 1..N : k = N =>
         \A r, at : at \in o[k]..Len(t) /\ Cleared(t, o[k], at) /\ t[at] = close /\ skip(t, r.at) = S(k) /\ r.item.type = type =>
              Member(t, r, close, values) = Over(Joined(r, at + 1, y[k]))
  <2> SUFFICES ASSUME NEW k \in 1..N, k = N, NEW r, NEW at, at \in o[k]..Len(t), Cleared(t, o[k], at), t[at] = close,
                      skip(t, r.at) = S(k), r.item.type = type
               PROVE  Member(t, r, close, values) = Over(Joined(r, at + 1, y[k]))
    OBVIOUS
  <2>1. MemberStands(t, values, k, N, o[k - 1], o[k], S(k), Z(k), Y(k)) /\ y[k] = Y(k)
    BY <1>11, <1>23 DEF Q
  <2> HIDE DEF Y
  <2>2. k = N => \A q, spot : spot \in o[k]..Len(t) /\ Cleared(t, o[k], spot) /\ t[spot] = close /\ skip(t, q.at) = S(k)
                           /\ q.item.type = type => Member(t, q, close, values) = Over(Joined(q, spot + 1, Y(k)))
    BY Zenon, <2>1 DEF MemberStands, close, type
  <2> QED BY <2>1, <2>2
<1>27. \A k \in 1..N, a \in Nat \ {0} : a <= o[k - 1] /\ Cleared(t, a, o[k - 1]) => skip(t, a) = S(k)
  <2> SUFFICES ASSUME NEW k \in 1..N, NEW a \in Nat \ {0}, a <= o[k - 1], Cleared(t, a, o[k - 1]) PROVE skip(t, a) = S(k)
    OBVIOUS
  <2>1. k - 1 \in 0..N
    BY <1>1
  <2>2. o[k - 1] \in Nat /\ S(k) \in Nat /\ S(k) \in a..Len(t)
    BY <1>14, <1>21, <1>23, <1>24, <2>1
  <2>3. Cleared(t, a, S(k))
    BY <1>24, <2>2, ClearIs
  <2> QED BY <1>24, <2>2, <2>3, ClearIs
<1>28. CASE N = 0
  <2>1. Cleared(t, i + 1, b)
    <3>1. m = u
      BY <1>20, <1>28
    <3> QED BY <1>18, <1>19, <3>1, ClearIs
  <2>2. b \in i + 1..Len(t) /\ t[b] \notin White
    BY <1>4, <1>16, <1>30
  <2>3. skip(t, i + 1) = b
    BY <1>18, <2>1, <2>2, ClearIs
  <2>4. Container(t, i, type, close, values) = Got(b + 1, Plain0(type))
    BY <1>6, <1>16, <2>3
  <2>5. y = <<>>
    BY <1>28 DEF y
  <2>6. Plain0(type) = Built(type, y)
    BY <2>5 DEF Plain0, Built
  <2> QED BY Zenon, <1>5, <1>15, <1>16, <2>4, <2>6 DEF N, y, Y, type
<1>29. CASE N # 0
  <2> DEFINE a == [k \in 0..N |-> IF k = 0 THEN S(1) ELSE IF k = N THEN b + 1 ELSE Z(k) + 1]
  <2>1. a[0] = S(1) /\ a[N] = b + 1 /\ \A k \in 1..N : k # N => a[k] = Z(k) + 1
    BY <1>1, <1>29
  <2>2. 1 \in 1..N /\ 1 - 1 = 0 /\ N \in 1..N
    BY <1>1, <1>29
  <2> HIDE DEF a
  <2>3. skip(t, S(1)) = S(1)
    <3>1. S(1) \in Nat \ {0} /\ S(1) \in S(1)..Len(t) /\ t[S(1)] \notin White
      <4>1. o[0] \in Nat
        BY <1>18, <1>20
      <4> QED BY <1>14, <1>23, <1>24, <2>2, <4>1
    <3> QED BY <3>1, ClearIs
  <2>4. \A k \in 1..N : skip(t, a[k - 1]) = S(k)
    <3> SUFFICES ASSUME NEW k \in 1..N PROVE skip(t, a[k - 1]) = S(k)
      OBVIOUS
    <3>1. CASE k = 1
      BY <2>1, <2>2, <2>3, <3>1
    <3>2. CASE k # 1
      <4>1. k - 1 \in 1..N /\ k - 1 # N /\ k - 1 \in 0..N
        BY <1>1, <3>2
      <4>2. a[k - 1] = Z(k - 1) + 1 /\ Cleared(t, Z(k - 1) + 1, o[k - 1]) /\ Z(k - 1) < o[k - 1]
        BY <1>25, <2>1, <4>1
      <4>3. Z(k - 1) \in Nat \ {0} /\ o[k - 1] \in Nat
        BY <1>21, <1>23, <4>1
      <4>4. Z(k - 1) + 1 \in Nat \ {0} /\ Z(k - 1) + 1 <= o[k - 1]
        BY <4>2, <4>3
      <4> QED BY <1>27, <4>2, <4>4
    <3> QED BY <3>1, <3>2
  <2>5. Stepwise(t, type, close, values, a, y)
    <3> SUFFICES ASSUME NEW k \in 1..N, NEW r, r.at = a[k - 1], r.item.type = type
                 PROVE  Member(t, r, close, values) =
                          IF k < N THEN Another(Joined(r, a[k], y[k])) ELSE Over(Joined(r, a[k], y[k]))
      BY <1>11 DEF Stepwise
    <3>1. skip(t, r.at) = S(k)
      BY <2>4
    <3>2. CASE k # N
      <4>1. k < N /\ a[k] = Z(k) + 1
        BY <1>1, <2>1, <3>2
      <4> QED BY <1>25, <3>1, <3>2, <4>1
    <3>3. CASE k = N
      <4>1. ~(k < N) /\ a[k] = b + 1
        BY <1>1, <2>1, <3>3
      <4>2. b \in o[k]..Len(t) /\ Cleared(t, o[k], b)
        BY <1>19, <1>20, <1>30, <3>3
      <4>3. Member(t, r, close, values) = Over(Joined(r, b + 1, y[k]))
        BY <1>16, <1>26, <3>1, <3>3, <4>2
      <4> QED BY <4>1, <4>3
    <3> QED BY <3>2, <3>3
  <2>6. N \in 1..Len(t)
    <3>1. \A k \in 1..N : Len(ts[k]) \in Nat \ {0}
      <4> SUFFICES ASSUME NEW k \in 1..N PROVE Len(ts[k]) \in Nat \ {0}
        OBVIOUS
      <4> DEFINE l == Len(ts[k])
                 v == o[k - 1]
      <4>1. l \in Nat /\ o[k] = v + l
        <5>1. ts[k] \in Written
          BY <1>12
        <5> QED BY <1>12, <1>20, <5>1 DEF Lies, Written
      <4>2. v \in Nat /\ S(k) \in v..Len(t) /\ S(k) < Z(k) /\ Z(k) <= o[k] /\ Z(k) \in Nat
        <5>1. k - 1 \in 0..N
          BY <1>1
        <5> QED BY <1>21, <1>23, <1>24, <5>1
      <4> HIDE DEF l, v
      <4>3. l # 0
        BY <1>14, <4>1, <4>2
      <4> QED BY <4>1, <4>3 DEF l
    <3>2. u >= m + N
      BY <1>12, <1>20, <3>1, LiesLong
    <3>3. N <= Len(t)
      BY <1>1, <1>30, <3>2
    <3> QED BY <1>1, <1>14, <1>29, <3>3
  <2>7. Members(t, a[0], type, close, values) = Got(a[N], Built(type, y))
    BY <1>11, <2>5, <2>6, MembersRead
  <2>8. skip(t, i + 1) = S(1) /\ At(t, S(1)) # close
    <3>1. skip(t, i + 1) = S(1)
      BY <1>18, <1>19, <1>20, <1>27, <2>2
    <3>2. S(1) \in 1..Len(t)
      <4>1. o[0] \in Nat \ {0}
        BY <1>18, <1>20
      <4> QED BY <1>14, <1>24, <2>2, <4>1
    <3> QED BY <1>24, <2>2, <3>1, <3>2 DEF At
  <2>9. Container(t, i, type, close, values) = Got(b + 1, Built(type, y))
    BY <1>6, <2>1, <2>7, <2>8
  <2> QED BY Zenon, <1>5, <1>15, <1>16, <2>9 DEF N, y, Y, type
<1> QED BY <1>28, <1>29

\* What the shape of an item leaves open.
LEMMA ShapesAre ==
  ASSUME NEW item, IsItem(item), Shaped(item), \A k \in DOMAIN item.child : IsItem(item.child[k])
  PROVE  /\ item.type # "string" => item.valuestring = <<>>
         /\ item.type # "number" => item.valuedouble = 0
         /\ item.type \notin {"array", "object"} => item.child = <<>>
         /\ item.type = "array" => \A k \in DOMAIN item.child : item.child[k].string = <<>>
<1> DEFINE type == item.type
           b == item.string
           s == item.valuestring
           d == item.valuedouble
           c == item.child
           none == <<>>
<1>1. item = Item(type, b, s, d, c)
  BY DEF IsItem
<1>2. type \in Types
  BY DEF IsItem
<1> HIDE DEF none
<1>3. Named(item, none) = Item(type, none, s, d, c)
  <2> HIDE DEF type, b, s, d, c
  <2> QED BY <1>1, ExceptIs
<1>4. Empty(item) = Item(type, none, s, d, none)
  <2> HIDE DEF type, b, s, d, c
  <2>1. Named(item, none) = Item(type, none, s, d, c)
    BY <1>1, ExceptIs
  <2>2. Filled(Named(item, none), none) = Item(type, none, s, d, none)
    BY <2>1, ExceptIs
  <2> QED BY <2>2 DEF Empty, none
<1>5. \A a1, b1, s1, d1, c1, a2, b2, s2, d2, c2 : Item(a1, b1, s1, d1, c1) = Item(a2, b2, s2, d2, c2) =>
        s1 = s2 /\ d1 = d2 /\ c1 = c2
  <2> SUFFICES ASSUME NEW a1, NEW b1, NEW s1, NEW d1, NEW c1, NEW a2, NEW b2, NEW s2, NEW d2, NEW c2,
                      Item(a1, b1, s1, d1, c1) = Item(a2, b2, s2, d2, c2)
               PROVE  s1 = s2 /\ d1 = d2 /\ c1 = c2
    OBVIOUS
  <2> DEFINE x == Item(a1, b1, s1, d1, c1)
             y == Item(a2, b2, s2, d2, c2)
  <2>1. x.valuestring = s1 /\ x.valuedouble = d1 /\ x.child = c1 /\ y.valuestring = s2 /\ y.valuedouble = d2 /\ y.child = c2
    BY PartsAre
  <2>2. x = y
    OBVIOUS
  <2> HIDE DEF x, y
  <2> QED BY <2>1, <2>2
<1>6. CASE type = "number"
  <2>1. Named(item, <<>>) = Item("number", <<>>, <<>>, d, <<>>)
    BY <1>6 DEF Shaped, cJSON_CreateNumber
  <2>2. s = none /\ c = none
    <3> HIDE DEF s, d, c
    <3> QED BY <1>3, <1>5, <2>1 DEF none
  <2> QED BY <1>6, <2>2 DEF none
<1>7. CASE type = "string"
  <2>1. Named(item, <<>>) = Item("string", <<>>, s, 0, <<>>)
    BY <1>7 DEF Shaped, cJSON_CreateString
  <2>2. d = 0 /\ c = none
    <3> HIDE DEF s, d, c
    <3> QED BY <1>3, <1>5, <2>1 DEF none
  <2> QED BY <1>7, <2>2 DEF none
<1>8. CASE type = "object"
  <2>1. Empty(item) = Item("object", <<>>, <<>>, 0, <<>>)
    BY <1>8 DEF Shaped, Plain0
  <2>2. d = 0 /\ s = none
    <3> HIDE DEF s, d, c
    <3> QED BY <1>4, <1>5, <2>1 DEF none
  <2> QED BY <1>8, <2>2 DEF none
<1>9. CASE type = "array"
  <2>1. Empty(item) = Item("array", <<>>, <<>>, 0, <<>>) /\ \A k \in DOMAIN item.child : Nameless(item.child[k])
    BY <1>9 DEF Shaped, Plain0
  <2>2. d = 0 /\ s = none
    <3> HIDE DEF s, d, c
    <3> QED BY <1>4, <1>5, <2>1 DEF none
  <2>3. ASSUME NEW k \in DOMAIN item.child PROVE item.child[k].string = none
    <3> DEFINE x == item.child[k]
    <3>1. x = Item(x.type, x.string, x.valuestring, x.valuedouble, x.child) /\ Named(x, <<>>) = x
      BY <2>1 DEF IsItem, Nameless
    <3>2. Named(x, none) = Item(x.type, none, x.valuestring, x.valuedouble, x.child)
      <4> HIDE DEF x
      <4> QED BY <3>1, ExceptIs
    <3>3. Named(x, none).string = none
      BY <3>2, PartsAre
    <3> QED BY <3>1, <3>3 DEF none
  <2> QED BY <1>9, <2>2, <2>3 DEF none
<1>10. CASE type \in {"null", "false", "true"}
  <2>1. Named(item, <<>>) = Item(type, <<>>, <<>>, 0, <<>>)
    BY <1>10 DEF Shaped, Plain0
  <2>2. d = 0 /\ c = none /\ s = none
    <3> HIDE DEF s, d, c
    <3> QED BY <1>3, <1>5, <2>1 DEF none
  <2> QED BY <1>10, <2>2 DEF none
<1> QED BY <1>2, <1>6, <1>7, <1>8, <1>9, <1>10 DEF Types

\* The item that is read where an item's text stands, of the items x read for its children.
Seen(item, x, n) ==
  Item(item.type, <<>>, item.valuestring, Shown(item.valuedouble), [k \in 1..n |-> Named(x[k], item.child[k].string)])
\* Where the text of an item stands, its value is read.
LEMMA ValueReads ==
  ASSUME NEW t \in Written, NEW i, NEW fmt \in BOOLEAN, NEW texts \in Seq(Written), NEW depth \in Nat, NEW item,
         IsItem(item), Shaped(item), Len(texts) = Len(item.child), item.child = <<>> \/ DOMAIN item.child = 1..Len(texts),
         \A k \in DOMAIN item.child : IsItem(item.child[k]), NEW values, NEW x, Readable(t, values, texts, x),
         NEW p, p = Text(item, texts, depth, fmt), Placed(t, i, p)
  PROVE  Value(t, i, values) = Got(i + Len(p), Seen(item, x, Len(texts)))
<1> DEFINE N == Len(texts)
           quote == "\""
           words == {"null", "false", "true"}
           bracket == "["
           brace == "{"
           y == Seen(item, x, N)
           none == <<>>
           c == [k \in 1..N |-> Named(x[k], item.child[k].string)]
<1>1. Value(t, i, values) =
        IF At(t, i) \in words THEN Got(i + 1, Plain0(t[i]))
        ELSE IF At(t, i) = quote THEN parse_string(t, i)
        ELSE IF At(t, i) \in DOMAIN Parsed THEN parse_number(t, i)
        ELSE IF At(t, i) = bracket THEN parse_array(t, i, values)
        ELSE IF At(t, i) = brace THEN parse_object(t, i, values)
        ELSE Fail(i)
  BY Zenon DEF Value
<1>2. quote \notin words /\ bracket \notin words /\ brace \notin words /\ bracket # quote /\ brace # quote /\ bracket # brace
  BY Zenon
<1>3. DOMAIN Parsed \cap Punctuation = {} /\ quote \in Punctuation /\ bracket \in Punctuation /\ brace \in Punctuation
      /\ words \subseteq Punctuation
  BY Zenon, ReadingAssumption DEF Punctuation
<1>4. /\ item.type # "string" => item.valuestring = <<>>
      /\ item.type # "number" => item.valuedouble = 0
      /\ item.type \notin {"array", "object"} => item.child = <<>>
      /\ item.type = "array" => \A k \in DOMAIN item.child : item.child[k].string = <<>>
  BY ShapesAre
<1>5. item.type \in Types /\ item.valuestring \in Strings /\ item.valuedouble \in Numbers
  BY DEF IsItem
<1>6. Shown(0) = 0
  <2>1. LastDigit(0) = 1
    BY DEF LastDigit, Scale
  <2> QED BY <2>1 DEF Shown, Rounded, Size
<1>7. item.child = <<>> => N = 0
  OBVIOUS
<1>8. N = 0 => c = <<>>
  OBVIOUS
<1>9. y = Item(item.type, none, item.valuestring, Shown(item.valuedouble), c)
  BY DEF Seen
<1>10. /\ item.type \in words => p = <<item.type>>
       /\ item.type = "number" => p = <<print_number(item.valuedouble)>>
       /\ item.type = "string" => p = print_string_ptr(item.valuestring)
       /\ item.type = "array" => p = print_array(texts, fmt)
       /\ item.type = "object" => p = print_object(item, texts, depth, fmt)
  BY DEF Text
<1>11. \A k \in 1..N : item.child[k].string \in Strings
  <2> SUFFICES ASSUME NEW k \in 1..N PROVE item.child[k].string \in Strings
    OBVIOUS
  <2>1. item.child # <<>>
    BY <1>7
  <2> QED BY <2>1 DEF IsItem
<1> HIDE DEF quote, words, bracket, brace, y, none
<1>12. CASE item.type \in words
  <2> DEFINE w == item.type
  <2>1. p = <<w>> /\ w \in words
    BY <1>10, <1>12
  <2>2. w # "string" /\ w # "number" /\ w \notin {"array", "object"}
    BY <1>12 DEF words
  <2>3. item.valuestring = none /\ item.valuedouble = 0 /\ c = none
    BY <1>4, <1>7, <1>8, <2>2 DEF none
  <2>4. At(t, i) = w /\ t[i] = w /\ Len(p) = 1
    BY <2>1, PlacedOne
  <2>5. Plain0(w) = y
    BY <1>6, <1>9, <2>3 DEF Plain0, none
  <2> QED BY <1>1, <2>1, <2>4, <2>5 DEF y
<1>13. CASE item.type = "number"
  <2> DEFINE w == print_number(item.valuedouble)
  <2>1. p = <<w>> /\ w \in DOMAIN Parsed /\ Parsed[w] = Shown(item.valuedouble)
    BY <1>5, <1>10, <1>13, ReadingAssumption
  <2>2. item.valuestring = none /\ c = none
    BY <1>4, <1>7, <1>8, <1>13 DEF none
  <2> HIDE DEF w
  <2>3. At(t, i) = w /\ t[i] = w /\ Len(p) = 1
    BY <2>1, PlacedOne
  <2>4. w \notin words /\ w # quote
    BY <1>3, <2>1
  <2>5. Value(t, i, values) = Got(i + 1, cJSON_CreateNumber(Shown(item.valuedouble)))
    BY <1>1, <2>1, <2>3, <2>4 DEF parse_number
  <2>6. cJSON_CreateNumber(Shown(item.valuedouble)) = y
    BY <1>9, <1>13, <2>2 DEF cJSON_CreateNumber, none
  <2> QED BY <2>3, <2>5, <2>6 DEF y
<1>14. CASE item.type = "string"
  <2> DEFINE s == item.valuestring
  <2>1. /\ parse_string(t, i) = Got(i + Len(p), cJSON_CreateString(s)) /\ At(t, i) = quote /\ p \in Written
        /\ Len(p) \in Nat \ {0}
    <3>1. p = print_string_ptr(s) /\ s \in Strings
      BY <1>5, <1>10, <1>14
    <3> HIDE DEF s
    <3> QED BY <3>1, StringPlaced DEF quote
  <2>2. item.valuedouble = 0 /\ c = none
    BY <1>4, <1>7, <1>8, <1>14 DEF none
  <2>3. cJSON_CreateString(s) = y
    BY <1>6, <1>9, <1>14, <2>2 DEF cJSON_CreateString, none
  <2> QED BY <1>1, <1>2, <2>1, <2>3 DEF y
<1>15. CASE item.type = "array"
  <2> DEFINE type == "array"
             e == [k \in 1..N |-> Named(x[k], <<>>)]
  <2>1. p = print_array(texts, fmt)
    BY <1>10, <1>15
  <2>2. parse_array(t, i, values) = Got(i + Len(p), Built(type, e)) /\ At(t, i) = bracket
    BY <2>1, ArrayRead DEF bracket
  <2>3. item.valuestring = none /\ item.valuedouble = 0
    BY <1>4, <1>15 DEF none
  <2>4. c = e
    <3>1. ASSUME NEW k \in 1..N PROVE item.child[k].string = <<>>
      <4>1. item.child # <<>>
        BY <1>7
      <4> QED BY <1>4, <1>15, <4>1
    <3> QED BY <3>1
  <2>5. Built(type, e) = y
    <3>1. y = Item(type, none, none, 0, c)
      BY <1>6, <1>9, <1>15, <2>3
    <3> HIDE DEF e, c, type
    <3> QED BY <2>4, <3>1 DEF Built, none
  <2>6. bracket \notin words /\ bracket # quote /\ bracket \notin DOMAIN Parsed
    BY <1>2, <1>3
  <2>7. Value(t, i, values) = parse_array(t, i, values)
    BY <1>1, <2>2, <2>6
  <2> QED BY Zenon, <2>2, <2>5, <2>7 DEF y, N
<1>16. CASE item.type = "object"
  <2> DEFINE type == "object"
  <2>1. p = print_object(item, texts, depth, fmt)
    BY <1>10, <1>16
  <2>2. parse_object(t, i, values) = Got(i + Len(p), Built(type, c)) /\ At(t, i) = brace
    BY <1>11, <2>1, ObjectRead DEF brace
  <2>3. item.valuestring = none /\ item.valuedouble = 0
    BY <1>4, <1>16 DEF none
  <2>4. Built(type, c) = y
    <3>1. y = Item(type, none, none, 0, c)
      BY <1>6, <1>9, <1>16, <2>3
    <3> HIDE DEF c, type
    <3> QED BY <3>1 DEF Built, none
  <2>5. brace \notin words /\ brace # quote /\ brace \notin DOMAIN Parsed /\ brace # bracket
    BY <1>2, <1>3
  <2>6. Value(t, i, values) = parse_object(t, i, values)
    BY <1>1, <2>2, <2>5
  <2> QED BY Zenon, <2>2, <2>4, <2>6 DEF y, N
<1> QED BY <1>5, <1>12, <1>13, <1>14, <1>15, <1>16 DEF words, Types

\* Every text can be where a value begins.
LEMMA TextBegins ==
  ASSUME NEW fmt \in BOOLEAN, NEW texts \in Seq(Written), NEW depth \in Nat, NEW item, IsItem(item),
         NEW p \in Written, p = Text(item, texts, depth, fmt), \A k \in 1..Len(texts) : item.child[k].string \in Strings
  PROVE  Begins(p)
<1> DEFINE words == {"null", "false", "true"}
           quote == "\""
           end == "]"
<1>1. Placed(p, 1, p) /\ Len(p) \in Nat
  <2>1. Len(p) \in Nat
    BY DEF Written
  <2>2. 1 + Len(p) <= Len(p) + 1 /\ \A k \in 1..Len(p) : 1 + k - 1 = k
    BY <2>1
  <2> QED BY <2>1, <2>2 DEF Placed
<1>2. ASSUME NEW x, Placed(p, 1, <<x>>), x \notin White, x # end PROVE Begins(p)
  <2>1. 1 \in 1..Len(p) /\ p[1] = x
    BY <1>2, PlacedOne
  <2> QED BY <1>1, <1>2, <2>1 DEF Begins
<1>3. words \cap White = {} /\ end \notin words /\ quote \notin White /\ quote # end
  BY Zenon DEF White, Space
<1>4. White \subseteq Punctuation /\ end \in Punctuation
  BY Zenon DEF White, Space, Punctuation, Blanks
<1>5. "[" \notin White /\ "[" # end /\ "{" \notin White /\ "{" # end
  BY Zenon DEF White, Space
<1>6. item.type \in Types /\ item.valuestring \in Strings /\ item.valuedouble \in Numbers
  BY DEF IsItem
<1> HIDE DEF words, quote, end
<1>7. CASE item.type \in words
  <2>1. p = <<item.type>>
    BY <1>7 DEF Text, words
  <2> QED BY <1>1, <1>2, <1>3, <1>7, <2>1
<1>8. CASE item.type = "number"
  <2> DEFINE x == print_number(item.valuedouble)
  <2>1. p = <<x>> /\ x \in DOMAIN Parsed /\ DOMAIN Parsed \cap Punctuation = {}
    BY <1>6, <1>8, ReadingAssumption DEF Text
  <2> HIDE DEF x
  <2> QED BY <1>1, <1>2, <1>4, <2>1
<1>9. CASE item.type = "string"
  <2> DEFINE s == item.valuestring
  <2>1. p = print_string_ptr(s) /\ s \in Strings
    BY <1>6, <1>9 DEF Text
  <2> HIDE DEF s
  <2>2. /\ parse_string(p, 1) = Got(1 + Len(p), cJSON_CreateString(s)) /\ At(p, 1) = quote /\ p \in Written
        /\ Len(p) \in Nat \ {0}
    BY <1>1, <2>1, StringPlaced DEF quote
  <2>3. p[1] = quote
    BY <2>2 DEF At
  <2>4. p[1] \notin White /\ p[1] # "]"
    BY Zenon, <1>3, <2>3 DEF end
  <2> QED BY <2>2, <2>4 DEF Begins
<1>10. CASE item.type = "array"
  <2> DEFINE sep == IF fmt THEN <<",", Space>> ELSE <<",">>
             tail(k) == IF k = Len(texts) THEN <<>> ELSE sep
             Entry(k) == texts[k] \o tail(k)
             ts == [k \in 1..Len(texts) |-> Entry(k)]
             a == <<"[">>
             b == FlattenSeq(ts)
             c == <<"]">>
  <2>1. p = a \o b \o c
    BY <1>10 DEF Text, print_array
  <2>2. a \in Written /\ c \in Written /\ <<",">> \in Written
    BY MinifyWord
  <2>3. <<",", Space>> \in Written
    <3>1. "," \in Spellings /\ Space \in Spellings
      BY DEF Spellings, Marks
    <3> QED BY <3>1, FewBytes
  <2>4. b \in Written
    <3>0. sep \in Written
      BY <2>2, <2>3
    <3> HIDE DEF sep
    <3>1. \A k \in 1..Len(texts) : Entry(k) \in Written
      <4>1. \A k \in 1..Len(texts) : tail(k) \in Written
        BY <3>0, BytesAre
      <4>2. \A k \in 1..Len(texts) : texts[k] \in Written
        OBVIOUS
      <4> HIDE DEF tail
      <4> QED BY <4>1, <4>2, BytesAre
    <3> HIDE DEF Entry
    <3>2. ts \in Seq(Written)
      BY <3>1
    <3> QED BY <3>2, FlatIs
  <2> HIDE DEF a, b, c
  <2>5. Placed(p, 1, a \o b \o c)
    BY <1>1, <2>1
  <2>6. Placed(p, 1, a)
    BY <2>2, <2>4, <2>5, PlacedThree
  <2> QED BY <1>2, <1>5, <2>6 DEF a
<1>11. CASE item.type = "object"
  <2> DEFINE N == Len(texts)
             Entry(k) == Prints(item, texts, depth, fmt, k)
             ts == [k \in 1..N |-> Entry(k)]
             indent == IF N = 0 /\ depth > 0 THEN depth - 1 ELSE depth
             a == <<"{">>
             nl == Blank(fmt, <<"\n">>)
             b == FlattenSeq(ts)
             tabs == Blank(fmt, Tabs(indent))
             c == <<"}">>
             d == a \o nl \o b
  <2>1. p = d \o tabs \o c
    BY <1>11 DEF Text, print_object, Prints, Blank
  <2>2. a \in Written /\ c \in Written
    BY MinifyWord
  <2>3. nl \in Written /\ tabs \in Written
    <3>1. indent \in Nat
      OBVIOUS
    <3> HIDE DEF indent
    <3> QED BY <3>1, BlanksAre DEF White0
  <2>4. b \in Written
    <3>1. \A k \in 1..N : Entry(k) \in Written
      BY MemberFits
    <3> HIDE DEF Entry
    <3>2. ts \in Seq(Written)
      BY <3>1
    <3> QED BY <3>2, FlatIs
  <2> HIDE DEF a, b, c, nl, tabs
  <2>5. d \in Written
    BY <2>2, <2>3, <2>4, BytesAre
  <2>6. Placed(p, 1, d)
    <3> HIDE DEF d
    <3>1. Placed(p, 1, d \o tabs \o c)
      BY <1>1, <2>1
    <3> QED BY <2>2, <2>3, <2>5, <3>1, PlacedThree
  <2>7. Placed(p, 1, a \o nl \o b)
    BY <2>6
  <2>8. Placed(p, 1, a)
    BY <2>2, <2>3, <2>4, <2>7, PlacedThree
  <2> QED BY <1>2, <1>5, <2>8 DEF a
<1> QED BY <1>6, <1>7, <1>8, <1>9, <1>10, <1>11 DEF words, Types

\* What is shown of an item keeps its name.
LEMMA ShownNamed ==
  ASSUME NEW x, NEW below, NEW name
  PROVE  /\ Named(ShownItem(x, below), name) =
              Item(x.type, name, x.valuestring, Shown(x.valuedouble), [k \in DOMAIN x.child |-> below[x.child[k]]])
         /\ Named(Named(ShownItem(x, below), name), x.string) = ShownItem(x, below)
<1> DEFINE c == [k \in DOMAIN x.child |-> below[x.child[k]]]
           v == Shown(x.valuedouble)
           y == ShownItem(x, below)
<1>1. y = Item(x.type, x.string, x.valuestring, v, c)
  BY DEF ShownItem
<1> HIDE DEF c, v, y
<1>2. Named(y, name) = Item(x.type, name, x.valuestring, v, c)
  BY <1>1, ExceptIs
<1>3. Named(Named(y, name), x.string) = Item(x.type, x.string, x.valuestring, v, c)
  BY <1>2, ExceptIs
<1> QED BY Zenon, <1>1, <1>2, <1>3 DEF c, v, y

\* At every level, what is printed of an item is read as what is shown of it, wherever it stands.
ReadsBack(p, s, n) ==
  \A item \in Documents[n] :
    /\ Begins(p[n][item])
    /\ \A t \in Written : \A i, v : Levels(t, v) /\ Placed(t, i, p[n][item]) =>
         v[n][i] = Got(i + Len(p[n][item]), Named(s[n][item], <<>>))
\* Printing and reading agree at every level.
LEMMA ReadsAll ==
  ASSUME NEW fmt \in BOOLEAN, NEW p, Printed(fmt, p), NEW s, Shows(s)
  PROVE  \A n \in 0..MaxNesting : ReadsBack(p, s, n)
<1> DEFINE N == MaxNesting
           S == {n \in 0..N : ReadsBack(p, s, n)}
<1>1. N \in Nat
  BY JsonAssumption
<1>2. \A n \in 0..N : \A item \in Documents[n] : p[n][item] \in Written
  BY TextsWritten
<1>3. ASSUME NEW n \in 0..N, n # 0 => ReadsBack(p, s, n - 1), NEW item \in Documents[n]
      PROVE  /\ Begins(p[n][item])
             /\ \A t \in Written : \A i, v : Levels(t, v) /\ Placed(t, i, p[n][item]) =>
                  v[n][i] = Got(i + Len(p[n][item]), Named(s[n][item], <<>>))
  <2> DEFINE texts == Inner(item, p[n - 1])
             depth == MaxNesting - n
             q == p[n][item]
             x == [k \in 1..Len(texts) |-> Named(s[n - 1][item.child[k]], <<>>)]
  <2>1. n # 0 => n - 1 \in 0..N /\ \A y \in Documents[n - 1] : p[n - 1][y] \in Written
    <3>1. n # 0 => n - 1 \in 0..N
      BY <1>1
    <3> QED BY <1>2, <3>1
  <2> HIDE DEF texts, x
  <2>2. /\ texts \in Seq(Written) /\ Len(texts) = Len(item.child) /\ Len(texts) \in Nat
        /\ q = Text(item, texts, depth, fmt) /\ q \in Written
        /\ \A k \in 1..Len(texts) : /\ n # 0 /\ item.child[k] \in Documents[n - 1]
                                    /\ texts[k] = p[n - 1][item.child[k]] /\ item.child[k].string \in Strings
    BY <2>1, InnerIs DEF texts
  <2>3. IsItem(item) /\ Shaped(item) /\ Children(item, n)
    BY DocumentIs
  <2>4. item.child = <<>> \/ DOMAIN item.child = 1..Len(texts)
    BY <2>2, <2>3 DEF Children
  <2>5. DOMAIN item.child = 1..Len(texts)
    <3>1. item.child = <<>> => DOMAIN item.child = 1..Len(item.child)
      OBVIOUS
    <3> QED BY <2>2, <2>4, <3>1
  <2>6. \A k \in DOMAIN item.child : IsItem(item.child[k])
    BY <2>1, <2>2, <2>5, DocumentIs
  <2>7. depth \in Nat
    BY <1>1
  <2> HIDE DEF depth, q
  <2>8. Begins(q)
    BY <2>2, <2>3, <2>7, TextBegins
  <2>9. ASSUME NEW t \in Written, NEW i, NEW v, Levels(t, v), Placed(t, i, q)
        PROVE  v[n][i] = Got(i + Len(q), Named(s[n][item], <<>>))
    <3> DEFINE values == IF n = 0 THEN [j \in 1..Len(t) + 1 |-> Fail(j)] ELSE v[n - 1]
    <3>1. i \in 1..Len(t) + 1
      <4>1. i \in Nat \ {0} /\ i + Len(q) <= Len(t) + 1 /\ Len(q) \in Nat /\ Len(t) \in Nat
        BY <2>2, <2>9, PlacedWithin
      <4> QED BY <4>1
    <3>2. v[n][i] = Value(t, i, values)
      BY <2>9, <3>1 DEF Levels
    <3>3. Readable(t, values, texts, x)
      <4> SUFFICES ASSUME NEW k \in 1..Len(texts)
                   PROVE  /\ Begins(texts[k])
                          /\ \A j : Placed(t, j, texts[k]) => values[j] = Got(j + Len(texts[k]), x[k])
        BY DEF Readable
      <4> DEFINE z == item.child[k]
      <4>1. n # 0 /\ z \in Documents[n - 1] /\ texts[k] = p[n - 1][z] /\ x[k] = Named(s[n - 1][z], <<>>)
        BY <2>2 DEF x
      <4>2. ReadsBack(p, s, n - 1) /\ values = v[n - 1]
        BY <1>3, <4>1
      <4> HIDE DEF z, values
      <4>3. /\ Begins(p[n - 1][z])
            /\ \A j : Levels(t, v) /\ Placed(t, j, p[n - 1][z]) =>
                 v[n - 1][j] = Got(j + Len(p[n - 1][z]), Named(s[n - 1][z], <<>>))
        BY <4>1, <4>2 DEF ReadsBack
      <4> QED BY <2>9, <4>1, <4>2, <4>3
    <3> HIDE DEF values
    <3>4. Value(t, i, values) = Got(i + Len(q), Seen(item, x, Len(texts)))
      BY <2>2, <2>3, <2>4, <2>6, <2>7, <2>9, <3>3, ValueReads
    <3>5. [k \in 1..Len(texts) |-> Named(x[k], item.child[k].string)] = [k \in DOMAIN item.child |-> s[n - 1][item.child[k]]]
      <4>1. ASSUME NEW k \in 1..Len(texts) PROVE Named(x[k], item.child[k].string) = s[n - 1][item.child[k]]
        <5> DEFINE z == item.child[k]
                   none == <<>>
        <5>1. n # 0 /\ z \in Documents[n - 1] /\ x[k] = Named(s[n - 1][z], none)
          BY <2>2 DEF x
        <5>2. s[n - 1][z] = ShownItem(z, s[n - 1 - 1])
          BY <2>1, <5>1 DEF Shows
        <5> HIDE DEF z, none
        <5>3. Named(Named(s[n - 1][z], none), z.string) = s[n - 1][z]
          BY Zenon, <5>2, ShownNamed
        <5> QED BY Zenon, <5>1, <5>3 DEF z
      <4> QED BY <2>5, <4>1
    <3>6. Seen(item, x, Len(texts)) = Named(s[n][item], <<>>)
      <4>1. s[n][item] = ShownItem(item, s[n - 1])
        BY DEF Shows
      <4>2. Named(s[n][item], <<>>) =
              Item(item.type, <<>>, item.valuestring, Shown(item.valuedouble), [k \in DOMAIN item.child |-> s[n - 1][item.child[k]]])
        BY Zenon, <4>1, ShownNamed
      <4> QED BY Zenon, <3>5, <4>2 DEF Seen
    <3> QED BY Zenon, <3>2, <3>4, <3>6
  <2> QED BY <2>8, <2>9 DEF q
<1>4. \A n \in 0..N : (n # 0 => ReadsBack(p, s, n - 1)) => ReadsBack(p, s, n)
  BY <1>3 DEF ReadsBack
<1>5. 0 \in S
  BY <1>1, <1>4
<1>6. ASSUME NEW n \in 1..N, n - 1 \in S PROVE n \in S
  <2>1. n \in 0..N
    BY <1>1
  <2> QED BY <1>4, <1>6, <2>1
<1> HIDE DEF S
<1>7. 0..N \subseteq S
  BY <1>1, <1>5, <1>6, Climb
<1> QED BY <1>7 DEF S

\* The text t is read as the item is shown, to its end.
IsReadBack(t, item) == cJSON_ParseWithOpts(t, TRUE) = Got(Len(t) + 1, AsShown(item))
\* So is the text of a document without a name.
LEMMA ReadAsShown ==
  ASSUME NEW fmt \in BOOLEAN, NEW p, Printed(fmt, p), NEW item \in Documents[MaxNesting], Nameless(item),
         NEW t, t = p[MaxNesting][item]
  PROVE  IsReadBack(t, item) /\ t \in Written
<1> DEFINE N == MaxNesting
           x == AsShown(item)
<1>1. N \in Nat /\ N \in 0..N
  BY JsonAssumption
<1>2. PICK s : Shows(s) /\ \A d : AsShown(d) = s[N][d]
  BY ShowsExist
<1>3. PICK v : Levels(t, v) /\ parse_value(t) = v[N]
  BY LevelsExist
<1>4. t \in Written /\ Begins(t) /\ \A i : Placed(t, i, t) => v[N][i] = Got(i + Len(t), Named(x, <<>>))
  <2>1. ReadsBack(p, s, N)
    BY <1>1, <1>2, ReadsAll
  <2>2. /\ Begins(t)
        /\ \A u \in Written : \A i, w : Levels(u, w) /\ Placed(u, i, t) => w[N][i] = Got(i + Len(t), Named(s[N][item], <<>>))
    BY <2>1 DEF ReadsBack
  <2>3. t \in Written
    BY <2>2 DEF Begins
  <2> QED BY <1>2, <1>3, <2>2, <2>3
<1>5. Len(t) \in Nat \ {0} /\ t[1] \notin White
  BY <1>4 DEF Begins
<1>6. Placed(t, 1, t)
  <2>1. 1 + Len(t) <= Len(t) + 1 /\ \A k \in 1..Len(t) : 1 + k - 1 = k
    BY <1>5
  <2> QED BY <2>1 DEF Placed
<1>7. Named(x, <<>>) = x
  <2> DEFINE none == <<>>
             y == ShownItem(item, s[N - 1])
  <2>1. x = y
    BY <1>1, <1>2 DEF Shows
  <2>2. item.string = none
    <3>1. IsItem(item)
      BY <1>1, DocumentIs
    <3>2. Named(item, none) = Item(item.type, none, item.valuestring, item.valuedouble, item.child)
      BY <3>1, ExceptIs DEF IsItem
    <3>3. Named(item, none).string = none
      BY <3>2, PartsAre
    <3> QED BY <3>3 DEF Nameless
  <2>3. Named(y, none) = Item(item.type, none, item.valuestring, Shown(item.valuedouble),
                              [k \in DOMAIN item.child |-> s[N - 1][item.child[k]]])
    BY ShownNamed
  <2>4. y = Item(item.type, item.string, item.valuestring, Shown(item.valuedouble),
                 [k \in DOMAIN item.child |-> s[N - 1][item.child[k]]])
    BY DEF ShownItem
  <2> HIDE DEF y, x, none
  <2> QED BY Zenon, <2>1, <2>2, <2>3, <2>4 DEF none
<1>8. v[N][1] = Got(Len(t) + 1, x)
  <2>1. v[N][1] = Got(1 + Len(t), Named(x, <<>>)) /\ 1 + Len(t) = Len(t) + 1
    BY <1>4, <1>5, <1>6
  <2> QED BY Zenon, <1>7, <2>1
<1>9. skip(t, 1) = 1
  <2>1. 1 \in 1..Len(t) /\ \A j \in 1..1 - 1 : t[j] \in White
    BY <1>5
  <2> QED BY <1>4, <1>5, <2>1, Skips
<1> DEFINE r == Got(Len(t) + 1, x)
<1>10. skip(t, Len(t) + 1) = Len(t) + 1
  <2>1. {j \in Len(t) + 1..Len(t) : t[j] \notin White} = {}
    BY <1>5
  <2> QED BY <2>1 DEF skip
<1>11. Terminated(t, r) = r
  <2>1. r.at = Len(t) + 1 /\ ~(Len(t) + 1 <= Len(t))
    BY <1>5 DEF Got
  <2> HIDE DEF r
  <2> QED BY <1>10, <2>1 DEF Terminated
<1>12. cJSON_ParseWithOpts(t, TRUE) = Terminated(t, parse_value(t)[skip(t, 1)])
  BY DEF cJSON_ParseWithOpts
<1> HIDE DEF r, x
<1>13. parse_value(t)[skip(t, 1)] = r
  BY <1>3, <1>8, <1>9 DEF r
<1>14. cJSON_ParseWithOpts(t, TRUE) = r
  BY Zenon, <1>11, <1>12, <1>13
<1> QED BY Zenon, <1>4, <1>14 DEF r, x, IsReadBack

\* RoundTrip: whatever is read, built and edited, what is printed of the document, with blanks or without, is
\* read back as the document but for the digits that are not shown, and minifying the one gives the other.
THEOREM RoundTrips == JsonSpec => []RoundTrip
<1>1. JsonInv => RoundTrip
  <2> SUFFICES ASSUME JsonInv PROVE RoundTrip
    OBVIOUS
  <2> DEFINE N == MaxNesting
             p == print_value(TRUE)
             q == print_value(FALSE)
             text == p[N][doc]
             bare == q[N][doc]
             yes == TRUE
             no == FALSE
  <2>1. doc \in Documents[N] /\ Nameless(doc) /\ N \in 0..N
    BY JsonAssumption DEF JsonInv
  <2>2. Printed(TRUE, p) /\ Printed(FALSE, q) /\ yes \in BOOLEAN /\ no \in BOOLEAN
    BY PrintsExist
  <2>3. Printed(yes, p) /\ Printed(no, q) /\ yes \in BOOLEAN /\ no \in BOOLEAN
    BY <2>2
  <2> HIDE DEF p, q, yes, no
  <2>4. IsReadBack(text, doc) /\ text \in Written
    BY <2>1, <2>3, ReadAsShown
  <2>5. IsReadBack(bare, doc) /\ bare \in Written
    BY <2>1, <2>3, ReadAsShown
  <2>6. cJSON_Minify(text) = bare
    <3>1. Minifies(text, bare)
      BY <2>1, <2>2, TextsMinify
    <3> QED BY <2>4, <2>5, <3>1, MinifiesAll
  <2>7. text = cJSON_Print(doc) /\ bare = cJSON_PrintUnformatted(doc)
    BY DEF cJSON_Print, cJSON_PrintUnformatted, p, q
  <2> HIDE DEF text, bare
  <2> QED BY <2>4, <2>5, <2>6, <2>7 DEF RoundTrip, IsReadBack
<1> QED BY <1>1, JsonTypes, PTL

=============================================================================
