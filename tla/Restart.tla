------------------------------ MODULE Restart ------------------------------
(***************************************************************************)
(* How the gateway goes down.  Three threads may clean up, each with the   *)
(* same calls in the same order and nothing between them: the update       *)
(* thread after it has installed a new program, which it then executes;    *)
(* main, once its loop sees app_running = 0, which then returns and so ends*)
(* the process; and whichever thread gets SIGPIPE, here the worker that    *)
(* sends an answer to a client that has gone, in the signal handler.       *)
(*                                                                         *)
(* The behaviour begins when exec_set_update_operation has started the     *)
(* update thread: its own command is still running on the worker.          *)
(***************************************************************************)
EXTENDS Naturals, FiniteSets, Sequences, SequencesExt

CONSTANTS
  MaxJobs,      \* bound on the commands besides the update
  Connected,    \* a TCP client is in socket_clients_list
  Disconnects   \* it may go away while it is being answered

ASSUME RestartAssumption ==
  /\ MaxJobs \in Nat
  /\ Connected \in BOOLEAN
  /\ Disconnects \in BOOLEAN

Cleaners == {"main", "update", "worker"}
Update == 0   \* the job of the update command
Jobs == 0 .. MaxJobs

VARIABLES
  pc,           \* where each thread is in main_thread_clean, or in main's copy of it
  app_running,
  listed,       \* socket_clients_list points to memory that is allocated
  queue,        \* the pool's queue
  cur,          \* the job the worker runs, <<>> or <<job>>
  keepalive,    \* threads_keepalive
  freed,        \* the pool's memory has been freed
  installed,    \* rename has put the new program in place
  process,      \* "old", "new", "exited" or "crashed"
  done,         \* history: the jobs that have ended
  dropped,      \* history: the jobs that thpool_destroy has thrown away
  owed          \* history: the jobs accepted when the first thread began to wait

vars == <<pc, app_running, listed, queue, cur, keepalive, freed, installed, process,
          done, dropped, owed>>
poolVars == <<queue, cur, keepalive, freed, done, dropped, owed>>

Accepted == ToSet(queue) \cup ToSet(cur) \cup done

Init ==
  /\ pc = [c \in Cleaners |-> IF c = "update" THEN "rename" ELSE "run"]
  /\ app_running = TRUE
  /\ listed = Connected
  /\ queue = <<>>
  /\ cur = <<Update>>
  /\ keepalive = TRUE
  /\ freed = FALSE
  /\ installed = FALSE
  /\ process = "old"
  /\ done = {}
  /\ dropped = {}
  /\ owed = {}

\* Inside thpool_wait or past it; past it.
Began(c) == pc[c] \in {"wait", "blocked", "destroy", "free", "last", "gone"}
Past(c)  == pc[c] \in {"destroy", "free", "last", "gone"}

At(c, label) == process = "old" /\ pc[c] = label
Goto(c, label) == pc' = [pc EXCEPT ![c] = label]

\* What freed memory does: nothing one would notice, or the end of the process.
Undefined == process' \in {"old", "crashed"}

-----------------------------------------------------------------------------
\* The receiving threads go on to the end: nothing stops USB, MQTT stops after the
\* pool has gone, TCP after the message it waits for.
Arrive ==
  /\ process = "old"
  /\ \E j \in Jobs :
       /\ j \notin Accepted \cup dropped
       /\ \A i \in Jobs : i < j => i \in Accepted \cup dropped
       /\ queue' = Append(queue, j)
  /\ IF freed THEN Undefined ELSE UNCHANGED process
  /\ UNCHANGED <<pc, app_running, listed, cur, keepalive, freed, installed, done, dropped, owed>>

TakeJob ==
  /\ At("worker", "run")
  /\ keepalive
  /\ cur = <<>>
  /\ queue # <<>>
  /\ cur' = <<Head(queue)>>
  /\ queue' = Tail(queue)
  /\ UNCHANGED <<pc, app_running, listed, keepalive, freed, installed, process, done, dropped, owed>>

\* Mistake: nobody is told that the pool is idle.
EndJobSilent ==
  /\ At("worker", "run")
  /\ cur # <<>>
  /\ done' = done \cup ToSet(cur)
  /\ cur' = <<>>
  /\ UNCHANGED <<pc, app_running, listed, queue, keepalive, freed, installed, process, dropped, owed>>

\* threads_all_idle is signalled, to one thread (see Thpool).
EndJob ==
  /\ At("worker", "run")
  /\ cur # <<>>
  /\ done' = done \cup ToSet(cur)
  /\ cur' = <<>>
  /\ pc' \in LET blocked == {c \in Cleaners : pc[c] = "blocked"} IN
             IF blocked = {} THEN {pc} ELSE {[pc EXCEPT ![c] = "wait"] : c \in blocked}
  /\ UNCHANGED <<app_running, listed, queue, keepalive, freed, installed, process, dropped, owed>>

\* Mistake: the job counts as ended when the handler begins.
SigPipeEndsJob ==
  /\ At("worker", "run")
  /\ Disconnects
  /\ cur # <<>>
  /\ Goto("worker", "flag")
  /\ done' = done \cup ToSet(cur)
  /\ cur' = <<>>
  /\ UNCHANGED <<app_running, listed, queue, keepalive, freed, dropped, owed, installed, process>>

\* send or write to a socket that the client has closed: the worker gets SIGPIPE,
\* and signal_handler treats it as a request to clean up and exit.
SigPipe ==
  /\ At("worker", "run")
  /\ Disconnects
  /\ cur # <<>>
  /\ Goto("worker", "flag")
  /\ UNCHANGED <<app_running, listed, poolVars, installed, process>>

-----------------------------------------------------------------------------
Install ==
  /\ At("update", "rename")
  /\ installed' = TRUE
  /\ Goto("update", "flag")
  /\ UNCHANGED <<app_running, listed, poolVars, process>>

\* main sleeps for a second and looks at app_running.
MainWakes ==
  /\ At("main", "run")
  /\ ~app_running
  /\ Goto("main", "close")
  /\ UNCHANGED <<app_running, listed, poolVars, installed, process>>

ClearFlag(c) ==
  /\ At(c, "flag")
  /\ app_running' = FALSE
  /\ Goto(c, "close")
  /\ UNCHANGED <<listed, poolVars, installed, process>>

\* cron_task_unregister_all (left out), then close_tcp_server, which frees the
\* nodes of socket_clients_list and leaves the list pointing to them.
CloseTcp(c) ==
  /\ At(c, "close")
  /\ IF Connected /\ ~listed THEN Undefined ELSE UNCHANGED process
  /\ listed' = FALSE
  /\ Goto(c, "wait")
  /\ owed' = IF \E d \in Cleaners : Began(d) THEN owed ELSE Accepted
  /\ UNCHANGED <<app_running, queue, cur, keepalive, freed, installed, done, dropped>>

\* Mistake: the job that is running does not count.
IdleQueueOnly == queue = <<>>

\* The condition of thpool_wait.
Idle == queue = <<>> /\ cur = <<>>

\* thpool_wait; of a pool that has been freed it may read anything.
Wait(c) ==
  /\ At(c, "wait")
  /\ IF freed
     THEN Undefined /\ \E next \in {"destroy", "blocked"} : Goto(c, next)
     ELSE Goto(c, IF Idle THEN "destroy" ELSE "blocked") /\ UNCHANGED process
  /\ UNCHANGED <<app_running, listed, poolVars, installed>>

\* thpool_destroy: the worker finishes its job and leaves ...
StartDestroy(c) ==
  /\ At(c, "destroy")
  /\ keepalive' = FALSE
  /\ Goto(c, "free")
  /\ UNCHANGED <<app_running, listed, queue, cur, freed, installed, process, done, dropped, owed>>

\* ... jobqueue_clear throws away what has arrived meanwhile, and the memory is freed.
Destroy(c) ==
  /\ At(c, "free")
  /\ cur = <<>>
  /\ IF freed THEN Undefined ELSE UNCHANGED process
  /\ dropped' = dropped \cup ToSet(queue)
  /\ queue' = <<>>
  /\ freed' = TRUE
  /\ Goto(c, "last")
  /\ UNCHANGED <<app_running, listed, cur, keepalive, installed, done, owed>>

\* After mqtt_running = 0, the disconnect and destory_board_network: the update
\* thread executes the new program, main returns, the handler calls exit.
Leave(c) ==
  /\ At(c, "last")
  /\ process' = IF c = "update" THEN "new" ELSE "exited"
  /\ Goto(c, "gone")
  /\ UNCHANGED <<app_running, listed, poolVars, installed>>

-----------------------------------------------------------------------------
Clean(c) ==
  ClearFlag(c) \/ CloseTcp(c) \/ Wait(c) \/ StartDestroy(c) \/ Destroy(c) \/ Leave(c)

Worker == TakeJob \/ EndJob

Next ==
  \/ Arrive \/ Worker \/ SigPipe
  \/ Install \/ MainWakes
  \/ \E c \in Cleaners : Clean(c)

Spec == Init /\ [][Next]_vars

\* Every thread is scheduled; nobody has to send commands or go away.
FairSpec ==
  /\ Spec
  /\ WF_vars(Worker)
  /\ WF_vars(Install)
  /\ WF_vars(MainWakes)
  /\ \A c \in Cleaners : WF_vars(Clean(c))

-----------------------------------------------------------------------------
\* The type of every variable; only the worker's own job is ever interrupted.
TypeOK ==
  /\ pc \in [Cleaners -> {"run", "rename", "flag", "close", "wait", "blocked", "destroy",
                          "free", "last", "gone"}]
  /\ queue \in Seq(Jobs) /\ cur \in Seq(Jobs) /\ Len(cur) <= 1
  /\ app_running \in BOOLEAN /\ listed \in BOOLEAN /\ keepalive \in BOOLEAN
  /\ freed \in BOOLEAN /\ installed \in BOOLEAN
  /\ process \in {"old", "new", "exited", "crashed"}
  /\ done \in SUBSET Jobs /\ dropped \in SUBSET Jobs /\ owed \in SUBSET Jobs
  /\ pc["worker"] # "run" => cur # <<>>

\* Whoever destroys the pool, ends the process or replaces it, every command that was
\* accepted before the first of the three threads began to wait has ended by then:
\* thpool_wait, although shared by threads that do not know of each other, protects these
\* commands.  It protects no later one: jobqueue_clear throws away what arrives after a
\* wait has ended, and a thread that waits for the emptied or freed pool passes.
NoCommandCutOff == (\E c \in Cleaners : Past(c)) => owed \subseteq done

\* The process ends, one way or another, after an update was installed, and does not
\* stay around as a program that serves nobody: of two threads in thpool_wait the
\* one that is released is enough.  Only a worker in the signal handler prevents
\* it, which waits there for itself.
ProcessEnds == installed ~> (process # "old" \/ pc["worker"] # "run")

\* "Start the update thread; when the update is done, restart the app"
\* (info_set.c:624): an installed program comes to run.
RestartsAfterUpdate == installed ~> process = "new"
=============================================================================
