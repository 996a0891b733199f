----------------------------- MODULE TcpServer -----------------------------
(***************************************************************************)
(* The TCP server (tcp_server.c): the thread that accepts, a thread for    *)
(* every connection, the receive buffer and the lock they share, and the   *)
(* numbers of sockets.  Each connection initializes the locks anew and     *)
(* destroys them when it ends, which is undefined while others use them;   *)
(* the mutex here does what glibc's does.  send_lock has one user, the     *)
(* pool's worker; tasks and answers are in Gateway, the shutdown in Restart.*)
(***************************************************************************)
EXTENDS Integers, Sequences, FiniteSetsExt, SequencesExt

CONSTANTS
  Clients,      \* connections, numbered as they come; a client that comes back is another one
  Sockets,      \* the numbers there are
  None,
  MaxTogether,  \* clients that are connected at a time
  MaxSends      \* commands of all of them

ASSUME TcpAssumption == Sockets \subseteq Nat /\ Clients \subseteq Nat /\ None \notin Clients

VARIABLES
  peer,         \* "out", "in", or "gone", of each client
  unread,       \* what the kernel has received from it
  sent, stream, \* history: how many commands it has sent, and all their pieces
  listening,    \* the accepting thread runs
  table,        \* the client each socket number is connected to
  con_sock,     \* in the one argument all threads are created with
  tpc, sock,    \* where the thread of each connection is, and its copy of the argument
  recv_lock, recv_buffer,
  socket_clients_list,
  alone,        \* history: the last connection, if it found no other thread but stuck ones
  given         \* history: the texts its thread has given to doit
tcpVars == <<peer, unread, sent, stream, listening, table, con_sock, tpc, sock, recv_lock,
             recv_buffer, socket_clients_list, alone, given>>

\* glibc: 0 free, 1 locked, 2 locked and perhaps waited for; the owners counted; the kind.
pthread_mutex_init == [word |-> 0, users |-> 0, valid |-> TRUE]

TcpInit ==
  /\ peer = [c \in Clients |-> "out"]
  /\ unread = [c \in Clients |-> <<>>] /\ stream = unread /\ sent = [c \in Clients |-> 0]
  /\ listening = TRUE /\ table = [s \in Sockets |-> None] /\ con_sock = -1
  /\ tpc = [c \in Clients |-> "none"] /\ sock = [c \in Clients |-> -1]
  /\ recv_lock = pthread_mutex_init /\ recv_buffer = <<>> /\ socket_clients_list = <<>>
  /\ alone = None /\ given = <<>>

Free == {s \in Sockets : table[s] = None}
Here(t, label) == tpc[t] = label
Goto(t, label) == tpc' = [tpc EXCEPT ![t] = label]

(***************************************************************************)
(* open_tcp_server, and the clients.                                       *)
(***************************************************************************)
\* accept gives the lowest number; the new thread gets a pointer to the one argument.
Accept(c) ==
  /\ listening /\ {d \in Clients : peer[d] = "out"} \cap 1..c = {c}
  /\ Cardinality({d \in Clients : peer[d] = "in"}) < MaxTogether
  /\ IF Free = {} THEN listening' = FALSE /\ UNCHANGED <<peer, table, con_sock, tpc, alone, given>>
     ELSE /\ peer' = [peer EXCEPT ![c] = "in"]
          /\ con_sock' \in {s \in Free : \A r \in Free : s <= r}
          /\ table' = [table EXCEPT ![con_sock'] = c]
          /\ Goto(c, "start")
          /\ alone' = IF \A t \in Clients : tpc[t] \in {"none", "done", "asleep"} THEN c ELSE None
          /\ given' = <<>> /\ UNCHANGED listening
  /\ UNCHANGED <<unread, sent, stream, sock, recv_lock, recv_buffer, socket_clients_list>>

\* The pieces of a client's command; every other one is long.
Command(c, n) == IF n % 2 = 1 THEN <<<<c, n, "begin">>, <<c, n, "end">>>> ELSE <<<<c, n, "all">>>>
Send(c) ==
  /\ peer[c] = "in" /\ MapThenSumSet(LAMBDA d : sent[d], Clients) < MaxSends
  /\ sent' = [sent EXCEPT ![c] = @ + 1]
  /\ unread' = [unread EXCEPT ![c] = @ \o Command(c, sent'[c])]
  /\ stream' = [stream EXCEPT ![c] = @ \o Command(c, sent'[c])]
  /\ UNCHANGED <<peer, listening, table, con_sock, tpc, sock, recv_lock, recv_buffer,
                 socket_clients_list, alone, given>>

HangUp(c) ==
  /\ peer[c] = "in" /\ peer' = [peer EXCEPT ![c] = "gone"]
  /\ UNCHANGED <<unread, sent, stream, listening, table, con_sock, tpc, sock, recv_lock, recv_buffer,
                 socket_clients_list, alone, given>>

(***************************************************************************)
(* handle_tcp_connection.                                                  *)
(***************************************************************************)
StartKeepsLocks(t) ==                                                      \* Mistake
  /\ Here(t, "start") /\ Goto(t, "clear")
  /\ sock' = [sock EXCEPT ![t] = con_sock]
  /\ socket_clients_list' = Append(socket_clients_list, con_sock)
  /\ UNCHANGED <<peer, unread, sent, stream, listening, table, con_sock, recv_lock, recv_buffer,
                 alone, given>>
Start(t) ==
  /\ Here(t, "start") /\ Goto(t, "clear")
  /\ sock' = [sock EXCEPT ![t] = con_sock]
  /\ recv_lock' = pthread_mutex_init
  /\ socket_clients_list' = Append(socket_clients_list, con_sock)
  /\ UNCHANGED <<peer, unread, sent, stream, listening, table, con_sock, recv_buffer, alone, given>>

\* free_one_socket stops at the first entry that is another socket's, and frees that one.
free_one_socket(list, s) ==
  LET S == {i \in DOMAIN list : list[i] # s}
  IN  IF S = {} THEN list ELSE RemoveAt(list, Min(S))

\* The locks are destroyed, unless they are held; the number is free for the next client.
End(t) ==
  /\ Here(t, "end") /\ Goto(t, "done")
  /\ recv_lock' = IF recv_lock.users = 0 THEN [recv_lock EXCEPT !.valid = FALSE] ELSE recv_lock
  /\ LET s == sock[t]
     IN  /\ table' = [table EXCEPT ![s] = None]
         /\ peer' = IF table[s] = None THEN peer ELSE [peer EXCEPT ![table[s]] = "gone"]
         /\ socket_clients_list' = free_one_socket(socket_clients_list, s)
  /\ alone' = IF alone = t THEN None ELSE alone
  /\ given' = IF alone = t THEN <<>> ELSE given
  /\ UNCHANGED <<unread, sent, stream, listening, con_sock, sock, recv_buffer>>

(***************************************************************************)
(* recv_data.                                                              *)
(***************************************************************************)
ClearNothing(t) ==                                                         \* Mistake
  /\ Here(t, "clear") /\ Goto(t, "lock")
  /\ UNCHANGED <<peer, unread, sent, stream, listening, table, con_sock, sock, recv_lock, recv_buffer,
                 socket_clients_list, alone, given>>
\* The buffer is cleared before the lock is asked for.
Clear(t) ==
  /\ Here(t, "clear") /\ Goto(t, "lock") /\ recv_buffer' = <<>>
  /\ UNCHANGED <<peer, unread, sent, stream, listening, table, con_sock, sock, recv_lock,
                 socket_clients_list, alone, given>>

\* A destroyed mutex is not locked; a thread that has been woken does not look at the kind again.
Lock(t) ==
  /\ tpc[t] \in {"lock", "woken"}
  /\ IF Here(t, "lock") /\ ~recv_lock.valid THEN Goto(t, "recv") /\ UNCHANGED recv_lock
     ELSE IF recv_lock.word = 0
     THEN /\ Goto(t, "recv")
          /\ recv_lock' = [recv_lock EXCEPT !.word = IF Here(t, "lock") THEN 1 ELSE 2, !.users = @ + 1]
     ELSE Goto(t, "asleep") /\ recv_lock' = [recv_lock EXCEPT !.word = 2]
  /\ UNCHANGED <<peer, unread, sent, stream, listening, table, con_sock, sock, recv_buffer,
                 socket_clients_list, alone, given>>

pthread_mutex_unlock(t, label) ==
  IF ~recv_lock.valid THEN Goto(t, label) /\ UNCHANGED recv_lock
  ELSE /\ recv_lock' = [recv_lock EXCEPT !.word = 0, !.users = @ - 1]
       /\ IF recv_lock.word = 2 /\ \E w \in Clients : Here(w, "asleep")
          THEN \E w \in Clients : Here(w, "asleep") /\ tpc' = [tpc EXCEPT ![t] = label, ![w] = "woken"]
          ELSE Goto(t, label)

\* recv: some of what has come overwrites the beginning of the buffer.
Recv(t) ==
  LET c == table[sock[t]]
  IN  /\ Here(t, "recv")
      /\ \/ /\ c # None /\ unread[c] # <<>> /\ Goto(t, "give")
            /\ \E n \in 1..Len(unread[c]) :
                 /\ recv_buffer' = SubSeq(unread[c], 1, n)
                                   \o SubSeq(recv_buffer, n + 1, Len(recv_buffer))
                 /\ unread' = [unread EXCEPT ![c] = SubSeq(@, n + 1, Len(@))]
            /\ UNCHANGED recv_lock
         \* The peer has gone: the lock is kept.
         \/ /\ c # None /\ unread[c] = <<>> /\ peer[c] = "gone" /\ Goto(t, "end")
            /\ UNCHANGED <<recv_buffer, unread, recv_lock>>
         \* The timeout, or the number is no socket any more.
         \/ /\ IF c = None THEN TRUE ELSE unread[c] = <<>> /\ peer[c] = "in"
            /\ pthread_mutex_unlock(t, "end")
            /\ UNCHANGED <<recv_buffer, unread>>
      /\ UNCHANGED <<peer, sent, stream, listening, table, con_sock, sock, socket_clients_list,
                     alone, given>>

\* A task is made of the buffer and given to doit.
Give(t) ==
  /\ Here(t, "give")
  /\ given' = IF alone = t THEN given \o recv_buffer ELSE given
  /\ pthread_mutex_unlock(t, "clear")
  /\ UNCHANGED <<peer, unread, sent, stream, listening, table, con_sock, sock, recv_buffer,
                 socket_clients_list, alone>>

Connection(t) == Start(t) \/ Clear(t) \/ Lock(t) \/ Recv(t) \/ Give(t) \/ End(t)
TcpStep == \E c \in Clients : Accept(c) \/ Send(c) \/ HangUp(c) \/ Connection(c)
\* Threads are scheduled.
TcpFairness == \A t \in Clients : WF_tcpVars(Connection(t))

(***************************************************************************)
(* Properties.                                                             *)
(***************************************************************************)
\* Whatever earlier clients have done to the buffer and the lock, the commands of a client that
\* is alone are given on unchanged, in their order, none twice.
AloneAsSent ==
  alone # None => IsPrefix(given, stream[alone])

\* And its commands are received, although threads may be waiting for a lock for ever.
AloneHasSent == alone # None /\ unread[alone] # <<>>
AloneIsServed == AloneHasSent ~> ~AloneHasSent
=============================================================================
