------------------------------ MODULE Gateway ------------------------------
(***************************************************************************)
(* The life of a command in the gateway: it arrives over MQTT, TCP or USB, *)
(* gets a task id and a node in task_list, is sorted by doit into "run it",*)
(* "drop it" or "forget it", runs on the pool's only worker, and its answer*)
(* goes back where it came from: written to the socket or the line, or put *)
(* on publish_list, which the MQTT thread sends under the semaphore.  Every*)
(* path must take the node out of task_list exactly once.                  *)
(*                                                                         *)
(* The pool is the FIFO of JobPool, one job at a time; task_list and the   *)
(* counter task_id are taken as atomic.  A thread that gets SIGSEGV or     *)
(* SIGPIPE goes into signal_handler and does not come back to the pipeline;*)
(* what the handler does is modelled in Restart.                           *)
(***************************************************************************)
EXTENDS Naturals, Sequences, SequencesExt, FiniteSets, Functions

CONSTANTS
  MaxTasks,    \* bound on the tasks of one behaviour
  MaxPieces,   \* bound on the times the output of one shell command is read
  SelfTests,   \* bound on the commands main publishes when it starts
  Origins,     \* which of "mqtt", "tcp", "usb" are in use
  Inputs,      \* what other parties send: members of Texts
  Outputs,     \* what a shell command leaves as text over MQTT: members of Texts
  Echo,        \* pub_topic = sub_topic, as init_ini writes it
  UartWorks    \* fibo_uart_open can open the serial port

\* What doit can tell apart about a text; "noField" is JSON without ac, a get without
\* val and code, or a set without op.
Jsons == {"get", "getSerial", "badGet", "reply", "set", "setSerial", "badSet",
          "restart", "nop", "noField"}
Texts == Jsons \cup {"shell", "error"}

ASSUME GatewayAssumption ==
  /\ MaxTasks \in Nat
  /\ MaxPieces \in Nat
  /\ SelfTests \in Nat
  /\ Origins \subseteq {"mqtt", "tcp", "usb"}
  /\ Inputs \subseteq Texts
  /\ Outputs \subseteq Texts
  /\ Echo \in BOOLEAN
  /\ UartWorks \in BOOLEAN

Ids == 1 .. MaxTasks
None == 0             \* no task
Foreign == MaxTasks + 1  \* the id read from a string that is not a task

VARIABLES
  task_id,       \* the next id
  task,          \* thread_info_transmit_t of each id: text, flag, asShell
  task_list,     \* the ids of the nodes
  jobs,          \* the pool's queue
  cur,           \* the task the worker runs
  answering,     \* the worker is past the operation and in select_handler_method
  publish_list,  \* the ids to publish
  sem,           \* the semaphore is free
  topic,         \* texts the broker has for our subscription
  boot,          \* commands main has still to publish
  sent,          \* history: the answers given, <<flag, id>>
  forgotten,     \* history: tasks that nothing will ever remove
  crashed,       \* list_remove was called with NULL
  handler        \* the threads inside signal_handler

vars == <<task_id, task, task_list, jobs, cur, answering, publish_list, sem, topic,
          boot, sent, forgotten, crashed, handler>>

Blank == [text |-> "nop", flag |-> "none", asShell |-> FALSE]

Init ==
  /\ task_id = 1
  /\ task = [i \in Ids |-> Blank]
  /\ task_list = <<>>
  /\ jobs = <<>>
  /\ cur = None
  /\ answering = FALSE
  /\ publish_list = <<>>
  /\ sem = TRUE
  /\ topic = <<>>
  /\ boot = SelfTests
  /\ sent = <<>>
  /\ forgotten = {}
  /\ crashed = FALSE
  /\ handler = {}

-----------------------------------------------------------------------------
\* Mistake: the node is left in the list.
KeepNode(i) ==
  task_list' = task_list /\ crashed' = crashed

\* list_find and list_remove on the task of an id: the first node that has it is
\* unlinked; list_find returns NULL if none has, and list_remove dereferences it.
FindAndRemove(i) ==
  IF i \in ToSet(task_list)
  THEN task_list' = RemoveFirst(task_list, i) /\ crashed' = crashed
  ELSE task_list' = task_list /\ crashed' = TRUE

\* What doit does with a text: a job, nothing at all, or nothing and its node with it.
ToPool == {"get", "getSerial", "set", "setSerial", "restart", "shell"}
Dropped == {"badGet", "badSet", "error"}

\* Mistake: the task's number is read and not counted on.
SameTaskId == task_id \in Ids /\ task_id' = task_id

\* task->id = task_id++.
NewTaskId == task_id \in Ids /\ task_id' = task_id + 1

\* Mistake: the newest command is run first.
AddJobInFront(i) == jobs' = <<i>> \o jobs

\* thpool_add_work.
AddJob(i) == jobs' = Append(jobs, i)

\* A command arrives: message_arrived_handler, recv_data, thread_usb_recev_fun,
\* each of which allocates the task, appends its node and calls doit.  For a field that is
\* not there cJSON_Print returns NULL, which strstr, atoi or remove_double_quotation_marks
\* dereferences.
Receive(o, t) ==
  /\ NewTaskId
  /\ task' = [task EXCEPT ![task_id] = [text |-> t, flag |-> o, asShell |-> t \notin Jsons]]
  /\ IF t \in ToPool THEN AddJob(task_id) ELSE UNCHANGED jobs
  /\ task_list' = IF t \in Dropped THEN task_list ELSE Append(task_list, task_id)
  /\ forgotten' = IF t \in ToPool \cup Dropped THEN forgotten ELSE forgotten \cup {task_id}
  /\ handler' = IF t = "noField" THEN handler \cup {o} ELSE handler

\* There is one MQTT and one USB thread, and a thread for every TCP client.
Listens(o) == o \in handler => o = "tcp"

Command(o, t) ==
  /\ ~crashed
  /\ Listens(o)
  /\ Receive(o, t)
  /\ UNCHANGED <<cur, answering, publish_list, sem, topic, boot, sent, crashed>>

\* The broker delivers to us what we published on our own topic.
OwnMessage ==
  /\ ~crashed
  /\ Listens("mqtt")
  /\ topic # <<>>
  /\ Receive("mqtt", Head(topic))
  /\ topic' = Tail(topic)
  /\ UNCHANGED <<cur, answering, publish_list, sem, boot, sent, crashed>>

\* creat_pub_task: main publishes a command, as a task that no job belongs to.
SelfTest(t) ==
  /\ ~crashed
  /\ boot > 0
  /\ sem
  /\ NewTaskId
  /\ boot' = boot - 1
  /\ task' = [task EXCEPT ![task_id] = [text |-> t, flag |-> "mqtt", asShell |-> FALSE]]
  /\ task_list' = Append(task_list, task_id)
  /\ publish_list' = Append(publish_list, task_id)
  /\ UNCHANGED <<jobs, cur, answering, sem, topic, sent, forgotten, crashed, handler>>

-----------------------------------------------------------------------------
\* The worker of the pool takes the next job.
TakeJob ==
  /\ ~crashed
  /\ "worker" \notin handler
  /\ cur = None
  /\ jobs # <<>>
  /\ cur' = Head(jobs)
  /\ jobs' = Tail(jobs)
  /\ UNCHANGED <<task_id, task, task_list, answering, publish_list, sem, topic, boot,
                 sent, forgotten, crashed, handler>>

WorkerRuns(texts) ==
  /\ ~crashed
  /\ "worker" \notin handler
  /\ cur # None
  /\ ~answering
  /\ task[cur].text \in texts

\* The operation ends and leaves its result in json_text.
Result(t) ==
  /\ task' = [task EXCEPT ![cur].text = t]
  /\ answering' = TRUE

\* The operation fails: clean_thread_info, no answer.
GiveUp ==
  /\ FindAndRemove(cur)
  /\ cur' = None
  /\ UNCHANGED <<task, answering>>

\* get_base_info, ..., get_ntp_config: an object with "code", or nothing.
RunGet ==
  /\ WorkerRuns({"get"})
  /\ \/ Result("reply") /\ UNCHANGED <<task_list, cur, crashed>>
     \/ GiveUp
  /\ UNCHANGED <<task_id, jobs, publish_list, sem, topic, boot, sent, forgotten, handler>>

\* set_general_info, ..., set_restore_info: "... OK!" or "... failed!", no JSON.
RunSet ==
  /\ WorkerRuns({"set"})
  /\ Result("shell")
  /\ UNCHANGED <<task_id, task_list, jobs, cur, publish_list, sem, topic, boot, sent,
                 forgotten, crashed, handler>>

\* open_serial: when the port cannot be opened it publishes a string literal, which
\* mqtt_publish reads as a task.
OpenSerial ==
  IF UartWorks
  THEN UNCHANGED publish_list
  ELSE sem /\ publish_list' = Append(publish_list, Foreign)

\* get_serial_info and set_serial_info.  serial_info_read returns an uninitialized
\* value when the port is closed, so both outcomes stay possible.
RunSerial ==
  /\ WorkerRuns({"getSerial", "setSerial"})
  /\ OpenSerial
  /\ \/ /\ Result(IF task[cur].text = "getSerial" THEN "reply" ELSE "shell")
        /\ UNCHANGED <<task_list, cur, crashed>>
     \/ /\ task[cur].text = "getSerial"
        /\ GiveUp
  /\ UNCHANGED <<task_id, jobs, sem, topic, boot, sent, forgotten, handler>>

\* set_restart_info has no answer.
RunRestart ==
  /\ WorkerRuns({"restart"})
  /\ GiveUp
  /\ UNCHANGED <<task_id, jobs, publish_list, sem, topic, boot, sent, forgotten, handler>>

\* exec_shell_command: what a read from the command gives is written at once to the
\* socket or the line ...
ShellWrites ==
  /\ WorkerRuns({"shell"})
  /\ task[cur].flag # "mqtt"
  /\ Cardinality({n \in DOMAIN sent : sent[n][2] = cur}) < MaxPieces
  /\ sent' = Append(sent, <<task[cur].flag, cur>>)
  /\ UNCHANGED <<task_id, task, task_list, jobs, cur, answering, publish_list, sem, topic,
                 boot, forgotten, crashed, handler>>

\* ... and over MQTT replaces the command, the last piece the ones before.  If there
\* is none the command stays.
RunShell ==
  /\ WorkerRuns({"shell"})
  /\ answering' = TRUE
  /\ IF task[cur].flag = "mqtt"
     THEN \E t \in Outputs \cup {"shell"} : task' = [task EXCEPT ![cur].text = t]
     ELSE UNCHANGED task
  /\ UNCHANGED <<task_id, task_list, jobs, cur, publish_list, sem, topic, boot, sent,
                 forgotten, crashed, handler>>

\* The worker writes to a client that has gone: SIGPIPE, whose handler waits until the
\* pool is idle, on the pool's worker.
BrokenPipe ==
  /\ ~crashed
  /\ "worker" \notin handler
  /\ cur # None
  /\ task[cur].flag = "tcp"
  /\ IF answering THEN ~task[cur].asShell ELSE task[cur].text = "shell"
  /\ handler' = handler \cup {"worker"}
  /\ UNCHANGED <<task_id, task, task_list, jobs, cur, answering, publish_list, sem, topic,
                 boot, sent, forgotten, crashed>>

\* Mistake: the worker removes the node of a task it has left to the publisher.
AnswerMqttAndRemove ==
  /\ ~crashed
  /\ "worker" \notin handler
  /\ answering
  /\ task[cur].flag = "mqtt"
  /\ sem
  /\ publish_list' = Append(publish_list, cur)
  /\ FindAndRemove(cur)
  /\ cur' = None
  /\ answering' = FALSE
  /\ UNCHANGED <<task_id, task, jobs, sem, topic, boot, sent, forgotten, handler>>

\* Mistake: select_handler_method falls from the case of MQTT into that of TCP.
AnswerMqttFallsThrough ==
  /\ ~crashed
  /\ "worker" \notin handler
  /\ answering
  /\ task[cur].flag = "mqtt"
  /\ sem
  /\ publish_list' = Append(publish_list, cur)
  /\ sent' = Append(sent, <<"tcp", cur>>)
  /\ FindAndRemove(cur)
  /\ cur' = None
  /\ answering' = FALSE
  /\ UNCHANGED <<task_id, task, jobs, sem, topic, boot, forgotten, handler>>

\* select_handler_method, MQTT: info_publish waits for the semaphore.
AnswerMqtt ==
  /\ ~crashed
  /\ "worker" \notin handler
  /\ answering
  /\ task[cur].flag = "mqtt"
  /\ sem
  /\ publish_list' = Append(publish_list, cur)
  /\ cur' = None
  /\ answering' = FALSE
  /\ UNCHANGED <<task_id, task, task_list, jobs, sem, topic, boot, sent, forgotten, crashed, handler>>

\* ... TCP and USB: send_data or usb_send_fun, and nothing more for a shell command.  The
\* answer may be lost.
AnswerDirect ==
  /\ ~crashed
  /\ "worker" \notin handler
  /\ answering
  /\ task[cur].flag # "mqtt"
  /\ \/ UNCHANGED sent
     \/ ~task[cur].asShell /\ sent' = Append(sent, <<task[cur].flag, cur>>)
  /\ FindAndRemove(cur)
  /\ cur' = None
  /\ answering' = FALSE
  /\ UNCHANGED <<task_id, task, jobs, publish_list, sem, topic, boot, forgotten, handler>>

-----------------------------------------------------------------------------
\* run_sub_pub of the MQTT thread: with the semaphore, publish all of the list.
Drain ==
  /\ ~crashed
  /\ "mqtt" \notin handler
  /\ sem
  /\ sem' = FALSE
  /\ UNCHANGED <<task_id, task, task_list, jobs, cur, answering, publish_list, topic,
                 boot, sent, forgotten, crashed, handler>>

\* MQTTPublish may fail, which is logged; the entry and the task are gone anyway.
PublishOne ==
  /\ ~crashed
  /\ "mqtt" \notin handler
  /\ ~sem
  /\ publish_list # <<>>
  /\ LET i == Head(publish_list) IN
     /\ \/ UNCHANGED <<topic, sent>>
        \/ /\ i \in Ids
           /\ sent' = Append(sent, <<"mqtt", i>>)
           /\ topic' = IF Echo THEN Append(topic, task[i].text) ELSE topic
     /\ FindAndRemove(i)
  /\ publish_list' = Tail(publish_list)
  /\ UNCHANGED <<task_id, task, jobs, cur, answering, sem, boot, forgotten, handler>>

Drained ==
  /\ ~crashed
  /\ "mqtt" \notin handler
  /\ ~sem
  /\ publish_list = <<>>
  /\ sem' = TRUE
  /\ UNCHANGED <<task_id, task, task_list, jobs, cur, answering, publish_list, topic,
                 boot, sent, forgotten, crashed, handler>>

-----------------------------------------------------------------------------
Worker == TakeJob \/ RunGet \/ RunSet \/ RunSerial \/ RunRestart \/ ShellWrites
          \/ RunShell \/ AnswerMqtt \/ AnswerDirect
Publisher == PublishOne \/ Drained

Next ==
  \/ \E o \in Origins, t \in Inputs : Command(o, t)
  \/ \E t \in {"get", "getSerial", "set", "setSerial"} : SelfTest(t)
  \/ OwnMessage
  \/ Worker
  \/ BrokenPipe
  \/ Drain
  \/ Publisher

Spec == Init /\ [][Next]_vars

\* The worker and the loop of the MQTT thread are always scheduled.  A worker that
\* wants the semaphore competes with that loop, which takes it again and again, so
\* its turn needs strong fairness: between two rounds that thread spends up to a
\* second in MQTTYield without it.
FairSpec ==
  /\ Spec
  /\ SF_vars(Worker)
  /\ WF_vars(Drain)
  /\ WF_vars(Publisher)

-----------------------------------------------------------------------------
\* The type of every variable; the lists only hold tasks that exist.
TypeOK ==
  /\ task_id \in 1 .. MaxTasks + 1
  /\ task \in [Ids -> [text : Texts, flag : Origins \cup {"mqtt", "none"}, asShell : BOOLEAN]]
  /\ task_list \in Seq(1 .. task_id - 1)
  /\ jobs \in Seq(1 .. task_id - 1)
  /\ cur \in Ids \cup {None}
  /\ answering \in BOOLEAN
  /\ publish_list \in Seq(Ids \cup {Foreign})
  /\ sem \in BOOLEAN
  /\ topic \in Seq(Texts)
  /\ boot \in 0 .. SelfTests
  /\ sent \in Seq({"mqtt", "tcp", "usb"} \X Ids)
  /\ forgotten \in SUBSET Ids
  /\ crashed \in BOOLEAN
  /\ handler \subseteq {"mqtt", "tcp", "usb", "worker"}

\* Everything run_sub_pub, send_data, usb_send_fun, clean_thread_info and
\* select_handler_method remove from task_list is in it: list_remove never gets
\* the NULL of an unsuccessful list_find.  info_publish and mqtt_publish take a
\* "thread_info_transmit_t" (com_utils.c:126), that is, a registered task.
RemovalFindsNode == ~crashed

\* A task is in task_list exactly while somebody still has to deal with it (it is
\* queued, being run, or waiting to be published, and only one of these), or doit
\* has forgotten it: no task is dropped silently, dealt with twice or left behind.
EveryTaskHasOnePlace ==
  ~crashed =>
    LET queued    == ToSet(jobs)
        running   == {cur} \ {None}
        published == ToSet(publish_list) \ {Foreign}
    IN /\ IsInjective(task_list)
       /\ IsInjective(jobs)
       /\ \A m, n \in DOMAIN publish_list :
            publish_list[m] = publish_list[n] => m = n \/ publish_list[m] = Foreign
       /\ queued \cap running = {}
       /\ queued \cap published = {}
       /\ running \cap published = {}
       /\ (queued \cup running \cup published) \cap forgotten = {}
       /\ ToSet(task_list) = queued \cup running \cup published \cup forgotten

\* On one channel the answers come in the order of the commands: one worker, one
\* FIFO queue and one FIFO list; only the pieces of one answer follow each other.  (What
\* main publishes itself at the start does not queue for the worker and overtakes.)
AnswersInOrder ==
  boot = SelfTests =>
    \A m, n \in DOMAIN sent : m < n /\ sent[m][1] = sent[n][1] => sent[m][2] <= sent[n][2]

\* A command is answered on the channel it came from, and once at most; only the output of
\* a shell command goes to a socket or the line in pieces.
InPieces(i) == task[i].asShell /\ task[i].flag # "mqtt"

AnsweredOnceWhereAsked ==
  /\ \A m, n \in DOMAIN sent : sent[m][2] = sent[n][2] => m = n \/ InPieces(sent[m][2])
  /\ \A n \in DOMAIN sent : sent[n][1] = task[sent[n][2]].flag

\* Every task that doit has not forgotten leaves task_list in the end, unless a thread is
\* caught in the signal handler: the worker, which then never takes another task (a client
\* that hangs up before its answer is enough), or a thread that met a text without its
\* fields.
EveryTaskEnds ==
  \A i \in Ids : (i \in ToSet(task_list)) ~>
                  (i \notin ToSet(task_list) \ forgotten \/ handler # {})
=============================================================================
