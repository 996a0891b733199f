--------------------------- MODULE GatewayProofs ---------------------------
(***************************************************************************)
(* Proofs about Gateway: where every task is, how often and in which order *)
(* tasks are answered, for any number of tasks, channels and inputs.       *)
(***************************************************************************)
EXTENDS Gateway, Lemmas, TLAPS

Published == ToSet(publish_list) \ {Foreign}

\* Everything that names a task names one that was created; only a port that cannot
\* be opened brings a text that is not a task among them.
Known ==
  /\ cur < task_id
  /\ answering => cur # None
  /\ Published \subseteq 1 .. task_id - 1
  /\ forgotten \subseteq 1 .. task_id - 1
  /\ \A n \in DOMAIN sent : sent[n][2] < task_id
  /\ \A i \in 1 .. task_id - 1 : task[i].flag # "none"
  /\ UartWorks => Foreign \notin ToSet(publish_list) /\ ~crashed

\* A shell command is known as one until it has run.
ShellMarked(i) == task[i].text = "shell" => task[i].asShell

\* What still waits for its answer was not answered yet, except a shell command whose
\* output has begun to go to a socket or the line.
Unanswered ==
  /\ \A i \in ToSet(jobs) : ShellMarked(i)
  /\ cur # None /\ ~answering => ShellMarked(cur)
  /\ \A i \in Published : task[i].flag = "mqtt"
  /\ \A n \in DOMAIN sent :
       /\ sent[n][2] \notin ToSet(jobs) \cup Published
       /\ sent[n][2] = cur => InPieces(cur)

\* Tasks in the order in which they were created.
Increasing(q) ==
  \A m, n \in DOMAIN q : m < n /\ q[m] # Foreign /\ q[n] # Foreign => q[m] < q[n]

\* The answers, the list to publish, the worker and the queue hold ever newer tasks.
InLine ==
  /\ Increasing(jobs)
  /\ \A j \in ToSet(jobs) : cur < j
  /\ Increasing(publish_list)
  /\ \A p \in Published : (cur # None => p < cur) /\ \A j \in ToSet(jobs) : p < j
  /\ \A n \in DOMAIN sent :
       /\ cur # None => sent[n][2] <= cur
       /\ \A j \in ToSet(jobs) : sent[n][2] < j
       /\ sent[n][1] = "mqtt" => \A p \in Published : sent[n][2] < p

Places == TypeOK /\ Known /\ EveryTaskHasOnePlace
Answers == Unanswered /\ AnsweredOnceWhereAsked
Order == boot = SelfTests => InLine /\ AnswersInOrder

-----------------------------------------------------------------------------
\* A list to publish in which no task stands twice.
Once(q) == \A m, n \in DOMAIN q : q[m] = q[n] => m = n \/ q[m] = Foreign

\* EveryTaskHasOnePlace while no removal has failed.
OnePlace ==
  /\ IsInjective(task_list) /\ IsInjective(jobs) /\ Once(publish_list)
  /\ ToSet(jobs) \cap ({cur} \ {None}) = {}
  /\ ToSet(jobs) \cap Published = {}
  /\ ({cur} \ {None}) \cap Published = {}
  /\ (ToSet(jobs) \cup ({cur} \ {None}) \cup Published) \cap forgotten = {}
  /\ ToSet(task_list) = ToSet(jobs) \cup ({cur} \ {None}) \cup Published \cup forgotten

\* Before a crash, that every task has one place includes that none has two.
LEMMA OnePlaceHolds == EveryTaskHasOnePlace /\ ~crashed => OnePlace
BY DEF OnePlace, EveryTaskHasOnePlace, Once, Published

\* The places of a queue that grows at its rear are the old ones and one more.
LEMMA RearPlaces ==
  ASSUME NEW S, NEW q \in Seq(S), NEW x
  PROVE  /\ DOMAIN q = 1 .. Len(q) /\ Len(q) \in Nat
         /\ DOMAIN Append(q, x) = DOMAIN q \cup {Len(q) + 1}
         /\ \A n \in DOMAIN q : Append(q, x)[n] = q[n] /\ n < Len(q) + 1
         /\ Append(q, x)[Len(q) + 1] = x
OBVIOUS

\* Those of a queue that shrinks at its front move up by one.
LEMMA FrontPlaces ==
  ASSUME NEW S, NEW q \in Seq(S), q # <<>>
  PROVE  /\ DOMAIN q = 1 .. Len(q) /\ Len(q) \in Nat \ {0} /\ Head(q) = q[1]
         /\ \A n \in DOMAIN Tail(q) : /\ n \in Nat /\ n > 0
                                      /\ n + 1 \in DOMAIN q
                                      /\ Tail(q)[n] = q[n + 1]
OBVIOUS

\* info_publish keeps a list without repetitions when what it appends is not in it.
LEMMA RearOnce ==
  ASSUME NEW q \in Seq(Ids \cup {Foreign}), NEW x \in Ids \cup {Foreign}, Once(q),
         x \in ToSet(q) => x = Foreign
  PROVE  Once(Append(q, x))
<1>1. \A n \in DOMAIN q : q[n] = x => x = Foreign
  BY DEF ToSet
<1> QED BY <1>1, RearPlaces DEF Once

\* The task that is published first is not in the rest of the list.
LEMMA FrontOnce ==
  ASSUME NEW q \in Seq(Ids \cup {Foreign}), q # <<>>, Once(q)
  PROVE  /\ Once(Tail(q))
         /\ Head(q) \in ToSet(Tail(q)) => Head(q) = Foreign
<1>1. Once(Tail(q))
  <2> SUFFICES ASSUME NEW m \in DOMAIN Tail(q), NEW n \in DOMAIN Tail(q),
                      Tail(q)[m] = Tail(q)[n], Tail(q)[m] # Foreign
               PROVE  m = n
    BY DEF Once
  <2>1. q[m + 1] = q[n + 1] /\ q[m + 1] # Foreign
    BY FrontPlaces
  <2>2. m + 1 = n + 1
    BY <2>1, FrontPlaces DEF Once
  <2> QED BY <2>2, FrontPlaces
<1>2. ASSUME NEW n \in DOMAIN Tail(q), Tail(q)[n] = Head(q) PROVE Head(q) = Foreign
  <2>1. 1 \in DOMAIN q /\ n + 1 \in DOMAIN q /\ n + 1 # 1 /\ q[n + 1] = q[1]
    BY <1>2, FrontPlaces
  <2> QED BY <2>1, FrontPlaces DEF Once
<1> QED BY <1>1, <1>2 DEF ToSet

\* A sequence of members of a set is one of a larger set.
LEMMA WiderSeq ==
  ASSUME NEW S, NEW T, S \subseteq T, NEW q \in Seq(S)
  PROVE  q \in Seq(T)
<1>1. q \in [1 .. Len(q) -> T] /\ Len(q) \in Nat
  OBVIOUS
<1> QED BY <1>1

\* A list of older tasks is one of older tasks when a task was created.
LEMMA StillOlder ==
  ASSUME NEW m \in Nat, NEW q \in Seq(1 .. m - 1)
  PROVE  q \in Seq(1 .. (m + 1) - 1)
OBVIOUS

\* list_find and list_remove on a task that is in task_list take its node and no
\* other.
LEMMA NodeRemoved ==
  ASSUME task_list \in Seq(1 .. task_id - 1), IsInjective(task_list),
         NEW i \in ToSet(task_list), FindAndRemove(i)
  PROVE  /\ task_list' \in Seq(1 .. task_id - 1)
         /\ IsInjective(task_list')
         /\ ToSet(task_list') = ToSet(task_list) \ {i}
         /\ crashed' = crashed
BY RemoveFirstFacts DEF FindAndRemove

-----------------------------------------------------------------------------
\* Before the first command no task is anywhere.
LEMMA PlacesInit == Init => Places
<1> SUFFICES ASSUME Init PROVE Places
  OBVIOUS
<1> USE GatewayAssumption
<1>1. TypeOK
  <2>1. task \in [Ids -> [text : Texts, flag : Origins \cup {"mqtt", "none"}, asShell : BOOLEAN]]
    BY DEF Init, Blank, Texts, Jsons
  <2>2. task_id \in 1 .. MaxTasks + 1 /\ cur \in Ids \cup {None} /\ boot \in 0 .. SelfTests
    BY DEF Init
  <2>3. /\ task_list \in Seq(1 .. task_id - 1) /\ jobs \in Seq(1 .. task_id - 1)
        /\ publish_list \in Seq(Ids \cup {Foreign}) /\ topic \in Seq(Texts)
        /\ sent \in Seq({"mqtt", "tcp", "usb"} \X Ids)
    BY DEF Init
  <2>4. /\ answering \in BOOLEAN /\ sem \in BOOLEAN /\ crashed \in BOOLEAN
        /\ forgotten \in SUBSET Ids
    BY DEF Init
  <2> QED BY <2>1, <2>2, <2>3, <2>4 DEF Init, TypeOK
<1>2. ToSet(<<>>) = {}
  BY DEF ToSet
<1>3. Known
  BY <1>2 DEF Init, Known, Published, None
<1>4. EveryTaskHasOnePlace
  BY <1>2 DEF Init, EveryTaskHasOnePlace, None, IsInjective
<1> QED BY <1>1, <1>3, <1>4 DEF Places

\* A task that was just created: it is new to every list, and doit puts it where it
\* belongs.
LEMMA PlacesReceive ==
  ASSUME Places, ~crashed, NEW o \in Origins \cup {"mqtt"}, NEW t \in Texts, Receive(o, t),
         topic' \in Seq(Texts),
         UNCHANGED <<cur, answering, publish_list, sem, boot, sent, crashed>>
  PROVE  Places'
<1> USE GatewayAssumption
<1> DEFINE Older == 1 .. task_id - 1
<1>1. /\ task_id \in Ids /\ task_id' = task_id + 1 /\ task_id \in Nat
      /\ task_id' \in 1 .. MaxTasks + 1
  BY DEF Receive, NewTaskId, Ids
<1>2. /\ task_list \in Seq(Older) /\ jobs \in Seq(Older)
      /\ task_list \in Seq(1 .. task_id' - 1) /\ jobs \in Seq(1 .. task_id' - 1)
      /\ task_id \in 1 .. task_id' - 1
      /\ ToSet(jobs) \subseteq Older /\ ToSet(task_list) \subseteq Older
  BY <1>1, StillOlder, MemberSet DEF Places, TypeOK
<1>3. task_id \notin ToSet(jobs) \cup {cur} \cup Published \cup forgotten \cup ToSet(task_list)
  BY SMTT(30), <1>1, <1>2 DEF Places, TypeOK, Known, None
<1>4. /\ IsInjective(task_list) /\ IsInjective(jobs)
  BY DEF Places, EveryTaskHasOnePlace
<1>5. /\ Append(task_list, task_id) \in Seq(1 .. task_id' - 1)
      /\ ToSet(Append(task_list, task_id)) = ToSet(task_list) \cup {task_id}
      /\ IsInjective(Append(task_list, task_id))
  BY <1>1, <1>2, <1>3, <1>4, RearSet, RearDistinct
<1>6. /\ Append(jobs, task_id) \in Seq(1 .. task_id' - 1)
      /\ ToSet(Append(jobs, task_id)) = ToSet(jobs) \cup {task_id}
      /\ IsInjective(Append(jobs, task_id))
  BY <1>1, <1>2, <1>3, <1>4, RearSet, RearDistinct
<1>7. ToPool \cap Dropped = {}
  BY DEF ToPool, Dropped
<1>8. \/ /\ jobs' = Append(jobs, task_id) /\ task_list' = Append(task_list, task_id)
         /\ forgotten' = forgotten
      \/ jobs' = jobs /\ task_list' = task_list /\ forgotten' = forgotten
      \/ /\ jobs' = jobs /\ task_list' = Append(task_list, task_id)
         /\ forgotten' = forgotten \cup {task_id}
  BY <1>7 DEF Receive, AddJob
<1>9. TypeOK'
  <2>1. task' \in [Ids -> [text : Texts, flag : Origins \cup {"mqtt", "none"}, asShell : BOOLEAN]]
    BY <1>1 DEF Receive, Places, TypeOK
  <2>2. task_list' \in Seq(1 .. task_id' - 1) /\ jobs' \in Seq(1 .. task_id' - 1)
    BY <1>2, <1>5, <1>6, <1>8
  <2>3. forgotten' \in SUBSET Ids
    BY <1>1, <1>8 DEF Places, TypeOK
  <2>5. handler' \subseteq {"mqtt", "tcp", "usb", "worker"}
    <3>1. o \in {"mqtt", "tcp", "usb"} /\ handler' \subseteq handler \cup {o}
      BY DEF Receive
    <3> QED BY <3>1 DEF Places, TypeOK
  <2>4. crashed' \in BOOLEAN /\ answering' \in BOOLEAN /\ sem' \in BOOLEAN
    BY Zenon DEF Places, TypeOK
  <2> QED BY <1>1, <2>1, <2>2, <2>3, <2>4, <2>5 DEF Places, TypeOK
<1>10. Published' = Published
  BY DEF Published
<1>11. Known'
  <2>1. cur < task_id'
    BY <1>1 DEF Places, TypeOK, Known, None, Ids
  <2>5. Older \subseteq 1 .. task_id' - 1
    BY <1>1
  <2>6. Published' \subseteq 1 .. task_id' - 1
    BY <1>10, <2>5 DEF Places, Known
  <2>7. forgotten' \subseteq 1 .. task_id' - 1
    BY <1>2, <1>8, <2>5 DEF Places, Known
  <2>2. \A n \in DOMAIN sent : sent[n][2] < task_id'
    <3>1. \A n \in DOMAIN sent : sent[n] \in {"mqtt", "tcp", "usb"} \X Ids
      BY DEF Places, TypeOK
    <3>2. \A n \in DOMAIN sent : sent[n][2] \in Nat
      BY <3>1 DEF Ids
    <3> QED BY <1>1, <3>2 DEF Places, Known
  <2>3. answering => cur # None
    BY DEF Places, Known
  <2>4. UartWorks => Foreign \notin ToSet(publish_list) /\ ~crashed
    BY DEF Places, Known
  <2>8. \A i \in 1 .. task_id' - 1 : task'[i].flag # "none"
    BY SMTT(30), <1>1 DEF Receive, Places, TypeOK, Known, Ids
  <2> QED BY <2>1, <2>2, <2>3, <2>4, <2>6, <2>7, <2>8 DEF Known
<1>12. EveryTaskHasOnePlace'
  <2>1. OnePlace
    BY OnePlaceHolds DEF Places
  <2> DEFINE busy == ToSet(jobs) \cup ({cur} \ {None}) \cup Published
  <2>3. /\ IsInjective(task_list') /\ IsInjective(jobs') /\ Once(publish_list)
    BY <1>4, <1>5, <1>6, <1>8, <2>1 DEF OnePlace
  <2>4. task_id \notin busy \cup forgotten /\ task_id # cur
    BY <1>3
  <2>5. \/ /\ ToSet(jobs') = ToSet(jobs) \cup {task_id} /\ forgotten' = forgotten
           /\ ToSet(task_list') = ToSet(task_list) \cup {task_id}
        \/ /\ ToSet(jobs') = ToSet(jobs) /\ forgotten' = forgotten
           /\ ToSet(task_list') = ToSet(task_list)
        \/ /\ ToSet(jobs') = ToSet(jobs) /\ forgotten' = forgotten \cup {task_id}
           /\ ToSet(task_list') = ToSet(task_list) \cup {task_id}
    BY <1>5, <1>6, <1>8
  <2>6. /\ ToSet(jobs') \cap ({cur} \ {None}) = {} /\ ToSet(jobs') \cap Published = {}
        /\ ({cur} \ {None}) \cap Published = {}
    BY <2>1, <2>4, <2>5 DEF OnePlace
  <2>7. (ToSet(jobs') \cup ({cur} \ {None}) \cup Published) \cap forgotten' = {}
    BY <2>1, <2>4, <2>5 DEF OnePlace
  <2>8. ToSet(task_list') = ToSet(jobs') \cup ({cur} \ {None}) \cup Published \cup forgotten'
    BY <2>1, <2>5 DEF OnePlace
  <2>2. OnePlace'
    BY <1>10, <2>3, <2>6, <2>7, <2>8 DEF OnePlace
  <2> QED BY <2>2 DEF OnePlace, EveryTaskHasOnePlace, Once, Published
<1> QED BY <1>9, <1>11, <1>12 DEF Places

\* What open_serial does to the list to publish: nothing, or one text more that is
\* not a task.
LEMMA SerialOpened ==
  ASSUME publish_list \in Seq(Ids \cup {Foreign}), Once(publish_list), OpenSerial
  PROVE  /\ publish_list' \in Seq(Ids \cup {Foreign})
         /\ Once(publish_list')
         /\ Published' = Published
         /\ UartWorks => publish_list' = publish_list
<1>1. CASE UartWorks
  BY <1>1 DEF OpenSerial, Published
<1>2. CASE ~UartWorks
  <2>1. publish_list' = Append(publish_list, Foreign)
    BY <1>2 DEF OpenSerial
  <2>2. /\ publish_list' \in Seq(Ids \cup {Foreign})
        /\ ToSet(publish_list') = ToSet(publish_list) \cup {Foreign}
    BY <2>1, RearSet
  <2>3. Once(publish_list')
    BY <2>1, RearOnce
  <2> QED BY <1>2, <2>2, <2>3 DEF Published
<1> QED BY <1>1, <1>2

\* The worker runs or ends a task: it keeps it, or it removes its node and has none.
LEMMA PlacesWork ==
  ASSUME Places, ~crashed, cur # None,
         task' \in [Ids -> [text : Texts, flag : Origins \cup {"mqtt", "none"}, asShell : BOOLEAN]],
         sent' \in Seq({"mqtt", "tcp", "usb"} \X Ids),
         \A n \in DOMAIN sent' : sent'[n][2] < task_id,
         \A i \in Ids : task'[i].flag = task[i].flag,
         publish_list' \in Seq(Ids \cup {Foreign}), Once(publish_list'),
         Published' = Published, UartWorks => publish_list' = publish_list,
         UNCHANGED <<task_id, jobs, sem, topic, boot, forgotten, handler>>,
         answering' \in BOOLEAN,
         \/ UNCHANGED <<task_list, cur, crashed>>
         \/ FindAndRemove(cur) /\ cur' = None /\ ~answering'
  PROVE  Places'
<1> USE GatewayAssumption
<1>1. OnePlace
  BY OnePlaceHolds DEF Places
<1>2. \/ task_list' = task_list /\ cur' = cur /\ crashed' = crashed
      \/ /\ task_list' \in Seq(1 .. task_id - 1) /\ IsInjective(task_list')
         /\ ToSet(task_list') = ToSet(task_list) \ {cur}
         /\ cur' = None /\ crashed' = crashed /\ ~answering'
  <2>1. cur \in ToSet(task_list)
    BY <1>1 DEF OnePlace
  <2>2. task_list \in Seq(1 .. task_id - 1) /\ IsInjective(task_list)
    BY <1>1 DEF OnePlace, Places, TypeOK
  <2>3. CASE FindAndRemove(cur) /\ cur' = None /\ ~answering'
    BY <2>1, <2>2, <2>3, NodeRemoved
  <2> QED BY <2>3
<1>3. TypeOK'
  <2>1. task_list' \in Seq(1 .. task_id' - 1) /\ jobs' \in Seq(1 .. task_id' - 1)
    BY <1>2 DEF Places, TypeOK
  <2>2. cur' \in Ids \cup {None}
    BY <1>2 DEF Places, TypeOK
  <2>5. crashed' = crashed
    BY <1>2
  <2>3. crashed' \in BOOLEAN
    BY <2>5, Zenon DEF Places, TypeOK
  <2>4. sem' \in BOOLEAN
    BY Zenon DEF Places, TypeOK
  <2> QED BY <2>1, <2>2, <2>3, <2>4 DEF Places, TypeOK
<1>4. Known'
  <2>1. cur' < task_id' /\ (answering' => cur' # None)
    BY <1>2 DEF Places, TypeOK, Known, None
  <2>2. Published' \subseteq 1 .. task_id' - 1 /\ forgotten' \subseteq 1 .. task_id' - 1
    BY DEF Places, Known
  <2>3. \A n \in DOMAIN sent' : sent'[n][2] < task_id'
    OBVIOUS
  <2>4. UartWorks => Foreign \notin ToSet(publish_list') /\ ~crashed'
    BY <1>2 DEF Places, Known
  <2>5. \A i \in 1 .. task_id' - 1 : task'[i].flag # "none"
    BY DEF Places, TypeOK, Known, Ids
  <2> QED BY <2>1, <2>2, <2>3, <2>4, <2>5 DEF Known
<1>5. OnePlace'
  <2>1. CASE task_list' = task_list /\ cur' = cur /\ crashed' = crashed
    BY <1>1, <2>1 DEF OnePlace
  <2>2. CASE /\ task_list' \in Seq(1 .. task_id - 1) /\ IsInjective(task_list')
             /\ ToSet(task_list') = ToSet(task_list) \ {cur}
             /\ cur' = None
    <3>1. cur \notin ToSet(jobs) \cup Published \cup forgotten
      BY <1>1 DEF OnePlace
    <3>2. ToSet(task_list') = ToSet(jobs) \cup Published \cup forgotten
      BY <1>1, <2>2, <3>1 DEF OnePlace
    <3> QED BY <1>1, <2>2, <3>2 DEF OnePlace
  <2> QED BY <1>2, <2>1, <2>2
<1> QED BY <1>3, <1>4, <1>5 DEF Places, OnePlace, EveryTaskHasOnePlace, Once, Published

\* The next job becomes the worker's.
LEMMA PlacesTake == ASSUME Places, TakeJob PROVE Places'
<1> USE GatewayAssumption
<1>1. OnePlace
  BY OnePlaceHolds DEF Places, TakeJob
<1>2. /\ jobs \in Seq(1 .. task_id - 1) /\ jobs # <<>> /\ cur = None /\ ~crashed
      /\ cur' = Head(jobs) /\ jobs' = Tail(jobs)
  BY DEF TakeJob, Places, TypeOK
<1>3. /\ cur' \in 1 .. task_id - 1 /\ jobs' \in Seq(1 .. task_id - 1)
      /\ ToSet(jobs) = {cur'} \cup ToSet(jobs')
      /\ IsInjective(jobs') /\ cur' \notin ToSet(jobs')
  BY <1>1, <1>2, FrontSet, FrontDistinct DEF OnePlace
<1>4. TypeOK'
  <2>1. task_id \in 1 .. MaxTasks + 1
    BY DEF Places, TypeOK
  <2>2. cur' \in Ids \cup {None}
    BY <1>3, <2>1 DEF Ids
  <2>3. crashed' \in BOOLEAN /\ answering' \in BOOLEAN /\ sem' \in BOOLEAN
    BY Zenon DEF Places, TypeOK, TakeJob
  <2> QED BY <1>3, <2>2, <2>3 DEF TakeJob, Places, TypeOK
<1>5. Known'
  <2>1. task_id \in 1 .. MaxTasks + 1 /\ cur' < task_id /\ cur' # None
    BY <1>3 DEF Places, TypeOK, None
  <2> QED BY <2>1 DEF TakeJob, Places, Known, Published
<1>6. cur' # None
  BY <1>3 DEF None, Places, TypeOK
<1>7. OnePlace'
  BY <1>1, <1>2, <1>3, <1>6 DEF TakeJob, OnePlace, Published
<1> QED BY <1>4, <1>5, <1>7 DEF Places, OnePlace, EveryTaskHasOnePlace, Once, Published

\* An answer for the broker leaves the worker and goes on the list to publish.
LEMMA PlacesAnswerMqtt == ASSUME Places, AnswerMqtt PROVE Places'
<1> USE GatewayAssumption
<1>1. OnePlace
  BY OnePlaceHolds DEF Places, AnswerMqtt
<1>2. /\ cur \in Ids /\ cur # None /\ cur # Foreign /\ cur < task_id
      /\ task_id \in 1 .. MaxTasks + 1 /\ cur \in 1 .. task_id - 1
  BY DEF AnswerMqtt, Places, TypeOK, Known, None, Ids, Foreign
<1>3. /\ publish_list \in Seq(Ids \cup {Foreign})
      /\ publish_list' = Append(publish_list, cur) /\ cur' = None
  BY DEF AnswerMqtt, Places, TypeOK
<1>4. /\ publish_list' \in Seq(Ids \cup {Foreign})
      /\ ToSet(publish_list') = ToSet(publish_list) \cup {cur}
      /\ Published' = Published \cup {cur}
  BY <1>2, <1>3, RearSet DEF Published
<1>5. Once(publish_list')
  <2>1. cur \notin ToSet(publish_list)
    BY <1>1, <1>2 DEF OnePlace, Published
  <2> QED BY <1>1, <1>2, <1>3, <2>1, RearOnce DEF OnePlace
<1>6. TypeOK'
  <2>1. crashed' \in BOOLEAN /\ answering' \in BOOLEAN /\ sem' \in BOOLEAN
    BY Zenon DEF Places, TypeOK, AnswerMqtt
  <2> QED BY <1>3, <1>4, <2>1 DEF AnswerMqtt, Places, TypeOK
<1>7. Known'
  <2>1. cur' < task_id
    BY <1>2, <1>3 DEF None
  <2>2. UartWorks => Foreign \notin ToSet(publish_list') /\ ~crashed'
    BY <1>2, <1>4 DEF AnswerMqtt, Places, Known
  <2> QED BY <1>2, <1>4, <2>1, <2>2 DEF AnswerMqtt, Places, Known
<1>8. OnePlace'
  <2>1. /\ ToSet(jobs') = ToSet(jobs) /\ task_list' = task_list /\ forgotten' = forgotten
        /\ jobs' = jobs
    BY DEF AnswerMqtt
  <2> QED BY <1>1, <1>2, <1>3, <1>4, <1>5, <2>1 DEF OnePlace
<1> QED BY <1>6, <1>7, <1>8 DEF Places, OnePlace, EveryTaskHasOnePlace, Once, Published

\* main puts a command of its own on the list to publish.
LEMMA PlacesSelfTest ==
  ASSUME Places, NEW t \in {"get", "getSerial", "set", "setSerial"}, SelfTest(t)
  PROVE  Places'
<1> USE GatewayAssumption
<1> DEFINE Older == 1 .. task_id - 1
<1>1. OnePlace
  BY OnePlaceHolds DEF Places, SelfTest
<1>2. /\ task_id \in Ids /\ task_id' = task_id + 1 /\ task_id \in Nat /\ task_id # Foreign
      /\ task_id' \in 1 .. MaxTasks + 1 /\ Older \subseteq 1 .. task_id' - 1
      /\ task_id \in 1 .. task_id' - 1
  BY DEF SelfTest, NewTaskId, Ids, Foreign
<1>3. /\ task_list \in Seq(Older) /\ jobs \in Seq(Older)
      /\ task_list \in Seq(1 .. task_id' - 1) /\ jobs \in Seq(1 .. task_id' - 1)
      /\ ToSet(jobs) \subseteq Older /\ ToSet(task_list) \subseteq Older
      /\ publish_list \in Seq(Ids \cup {Foreign})
  BY <1>2, StillOlder, MemberSet DEF Places, TypeOK
<1>4. task_id \notin ToSet(jobs) \cup {cur} \cup Published \cup forgotten \cup ToSet(task_list)
  BY <1>2, <1>3 DEF Places, TypeOK, Known, None
<1>5. /\ task_list' \in Seq(1 .. task_id' - 1)
      /\ ToSet(task_list') = ToSet(task_list) \cup {task_id}
      /\ IsInjective(task_list')
  BY <1>1, <1>2, <1>3, <1>4, RearSet, RearDistinct DEF SelfTest, OnePlace
<1>6. /\ publish_list' \in Seq(Ids \cup {Foreign})
      /\ ToSet(publish_list') = ToSet(publish_list) \cup {task_id}
      /\ Published' = Published \cup {task_id}
  <2>1. publish_list' = Append(publish_list, task_id)
    BY DEF SelfTest
  <2>2. /\ publish_list' \in Seq(Ids \cup {Foreign})
        /\ ToSet(publish_list') = ToSet(publish_list) \cup {task_id}
    <3>1. task_id \in Ids \cup {Foreign} /\ publish_list \in Seq(Ids \cup {Foreign})
      BY <1>2, <1>3
    <3> QED BY <2>1, <3>1, RearSet
  <2> QED BY <1>2, <2>2 DEF Published
<1>7. Once(publish_list')
  <2>1. task_id \notin ToSet(publish_list)
    BY <1>2, <1>4 DEF Published
  <2> QED BY <1>1, <1>2, <1>3, <2>1, RearOnce DEF SelfTest, OnePlace
<1>8. TypeOK'
  <2>1. crashed' \in BOOLEAN /\ answering' \in BOOLEAN /\ sem' \in BOOLEAN
    BY Zenon DEF Places, TypeOK, SelfTest
  <2>2. task' \in [Ids -> [text : Texts, flag : Origins \cup {"mqtt", "none"}, asShell : BOOLEAN]]
    <3>1. t \in Texts
      BY DEF Texts, Jsons
    <3> QED BY <1>2, <3>1 DEF SelfTest, Places, TypeOK
  <2>3. boot' \in 0 .. SelfTests
    BY DEF SelfTest, Places, TypeOK
  <2>4. jobs' \in Seq(1 .. task_id' - 1)
    BY <1>3 DEF SelfTest
  <2> QED BY <1>2, <1>5, <1>6, <2>1, <2>2, <2>3, <2>4 DEF SelfTest, Places, TypeOK
<1>9. Known'
  <2>1. cur' < task_id'
    BY <1>2 DEF SelfTest, Places, TypeOK, Known, None, Ids
  <2>2. Published' \subseteq 1 .. task_id' - 1 /\ forgotten' \subseteq 1 .. task_id' - 1
    BY <1>2, <1>6 DEF SelfTest, Places, Known
  <2>3. \A n \in DOMAIN sent' : sent'[n][2] < task_id'
    <3>1. \A n \in DOMAIN sent : sent[n] \in {"mqtt", "tcp", "usb"} \X Ids
      BY DEF Places, TypeOK
    <3>2. \A n \in DOMAIN sent : sent[n][2] \in Nat
      BY <3>1 DEF Ids
    <3> QED BY <1>2, <3>2 DEF SelfTest, Places, Known
  <2>4. UartWorks => Foreign \notin ToSet(publish_list') /\ ~crashed'
    BY <1>2, <1>6 DEF SelfTest, Places, Known
  <2>5. \A i \in 1 .. task_id' - 1 : task'[i].flag # "none"
    BY <1>2 DEF SelfTest, Places, TypeOK, Known, Ids
  <2> QED BY <2>1, <2>2, <2>3, <2>4, <2>5 DEF SelfTest, Places, Known
<1>10. OnePlace'
  <2>1. jobs' = jobs /\ cur' = cur /\ forgotten' = forgotten
    BY DEF SelfTest
  <2>2. task_id \notin ToSet(jobs) \cup ({cur} \ {None}) \cup forgotten
    BY <1>4
  <2>3. /\ ToSet(jobs) \cap Published' = {} /\ ({cur} \ {None}) \cap Published' = {}
        /\ Published' \cap forgotten = {}
    BY <1>1, <1>6, <2>2 DEF OnePlace
  <2>4. ToSet(task_list') = ToSet(jobs) \cup ({cur} \ {None}) \cup Published' \cup forgotten
    BY <1>1, <1>5, <1>6 DEF OnePlace
  <2> QED BY <1>1, <1>5, <1>7, <2>1, <2>3, <2>4 DEF OnePlace
<1> QED BY <1>8, <1>9, <1>10 DEF Places, OnePlace, EveryTaskHasOnePlace, Once, Published

\* The first of the list is published, or not: its node goes, unless it is no task.
LEMMA PlacesPublish == ASSUME Places, PublishOne PROVE Places'
<1> USE GatewayAssumption
<1> DEFINE i == Head(publish_list)
<1>1. OnePlace
  BY OnePlaceHolds DEF Places, PublishOne
<1>2. /\ publish_list \in Seq(Ids \cup {Foreign}) /\ publish_list # <<>>
      /\ publish_list' = Tail(publish_list) /\ Once(publish_list)
      /\ task_list \in Seq(1 .. task_id - 1) /\ IsInjective(task_list)
      /\ task_id \in 1 .. MaxTasks + 1
  BY <1>1 DEF PublishOne, OnePlace, Places, TypeOK
<1>3. /\ i \in Ids \cup {Foreign}
      /\ publish_list' \in Seq(Ids \cup {Foreign})
      /\ ToSet(publish_list) = {i} \cup ToSet(publish_list')
      /\ Once(publish_list')
      /\ i \in ToSet(publish_list') => i = Foreign
  BY <1>2, FrontSet, FrontOnce
<1>4. FindAndRemove(i)
  BY DEF PublishOne
<1> HIDE DEF i
<1>5. CASE i = Foreign
  <2>1. i \notin ToSet(task_list)
    BY <1>2, <1>5, MemberSet DEF Foreign
  <2>2. task_list' = task_list /\ crashed' = TRUE
    BY <1>4, <2>1 DEF FindAndRemove
  <2>3. ~UartWorks
    BY <1>3, <1>5 DEF Places, Known
  <2>4. sent' = sent /\ topic' = topic
    BY <1>5 DEF PublishOne, i, Ids, Foreign
  <2>5. TypeOK'
    <3>1. crashed' \in BOOLEAN /\ answering' \in BOOLEAN /\ sem' \in BOOLEAN
      BY <2>2, Zenon DEF Places, TypeOK, PublishOne
    <3> QED BY <1>3, <2>2, <2>4, <3>1 DEF PublishOne, Places, TypeOK
  <2>6. Known'
    <3>1. Published' \subseteq Published
      BY <1>3 DEF Published
    <3> QED BY <2>3, <2>4, <3>1 DEF PublishOne, Places, Known
  <2> QED BY <2>2, <2>5, <2>6 DEF Places, EveryTaskHasOnePlace
<1>6. CASE i # Foreign
  <2>1. i \in Published
    BY <1>3, <1>6 DEF Published
  <2>2. i \in ToSet(task_list) /\ i \in Ids
    BY <1>1, <1>3, <1>6, <2>1 DEF OnePlace
  <2>3. /\ task_list' \in Seq(1 .. task_id - 1) /\ IsInjective(task_list')
        /\ ToSet(task_list') = ToSet(task_list) \ {i}
        /\ crashed' = crashed
    BY <1>2, <1>4, <2>2, NodeRemoved
  <2>4. Published' = Published \ {i}
    BY <1>3, <1>6 DEF Published
  <2>5. /\ sent' \in Seq({"mqtt", "tcp", "usb"} \X Ids)
        /\ \A n \in DOMAIN sent' : sent'[n][2] < task_id
        /\ topic' \in Seq(Texts)
    <3>1. CASE sent' = sent /\ topic' = topic
      BY <3>1 DEF Places, TypeOK, Known
    <3>2. CASE /\ sent' = Append(sent, <<"mqtt", i>>)
               /\ topic' = IF Echo THEN Append(topic, task[i].text) ELSE topic
      <4>1. sent \in Seq({"mqtt", "tcp", "usb"} \X Ids) /\ <<"mqtt", i>> \in {"mqtt", "tcp", "usb"} \X Ids
        BY <2>2 DEF Places, TypeOK
      <4>2. sent' \in Seq({"mqtt", "tcp", "usb"} \X Ids)
        BY <3>2, <4>1
      <4>3. i < task_id
        BY <1>2, <2>1, <2>2 DEF Places, Known, Ids
      <4>4. \A n \in DOMAIN sent' : sent'[n][2] < task_id
        BY <3>2, <4>1, <4>3, RearPlaces DEF Places, Known
      <4>5. topic \in Seq(Texts) /\ task[i].text \in Texts
        BY <2>2 DEF Places, TypeOK
      <4>6. topic' \in Seq(Texts)
        BY <3>2, <4>5
      <4> QED BY <4>2, <4>4, <4>6
    <3> QED BY <3>1, <3>2 DEF PublishOne, i
  <2>6. TypeOK'
    <3>1. crashed' \in BOOLEAN /\ answering' \in BOOLEAN /\ sem' \in BOOLEAN
      BY <2>3, Zenon DEF Places, TypeOK, PublishOne
    <3> QED BY <1>3, <2>3, <2>5, <3>1 DEF PublishOne, Places, TypeOK
  <2>7. Known'
    <3>1. UartWorks => Foreign \notin ToSet(publish_list') /\ ~crashed'
      BY <1>3, <2>3 DEF Places, Known
    <3> QED BY <2>4, <2>5, <3>1 DEF PublishOne, Places, Known
  <2>8. OnePlace'
    <3>1. jobs' = jobs /\ cur' = cur /\ forgotten' = forgotten
      BY DEF PublishOne
    <3>2. i \notin ToSet(jobs) \cup ({cur} \ {None}) \cup forgotten
      BY <1>1, <2>1 DEF OnePlace
    <3>3. ToSet(task_list') = ToSet(jobs) \cup ({cur} \ {None}) \cup Published' \cup forgotten
      BY <1>1, <2>3, <2>4, <3>2 DEF OnePlace
    <3> QED BY <1>1, <1>3, <2>3, <2>4, <3>1, <3>3 DEF OnePlace
  <2> QED BY <2>6, <2>7, <2>8 DEF Places, OnePlace, EveryTaskHasOnePlace, Once, Published
<1> QED BY <1>5, <1>6

\* What the worker does changes only what it may: the task it runs, its answer, the
\* list to publish.
LEMMA PlacesRun ==
  ASSUME Places, RunGet \/ RunSet \/ RunSerial \/ RunRestart \/ ShellWrites \/ RunShell
         \/ AnswerDirect
  PROVE  Places'
<1> USE GatewayAssumption
<1>1. /\ ~crashed /\ cur # None /\ cur \in Ids /\ cur < task_id
      /\ UNCHANGED <<task_id, jobs, sem, topic, boot, forgotten, handler>>
  BY DEF RunGet, RunSet, RunSerial, RunRestart, ShellWrites, RunShell, AnswerDirect, WorkerRuns,
         Places, TypeOK, Known
<1>2. OnePlace
  BY <1>1, OnePlaceHolds DEF Places
<1>3. publish_list \in Seq(Ids \cup {Foreign}) /\ Once(publish_list)
  BY <1>2 DEF OnePlace, Places, TypeOK
<1>4. /\ publish_list' \in Seq(Ids \cup {Foreign}) /\ Once(publish_list')
      /\ Published' = Published
      /\ UartWorks => publish_list' = publish_list
  <2>1. CASE RunSerial
    BY <1>3, <2>1, SerialOpened DEF RunSerial
  <2>2. CASE ~RunSerial
    BY <1>3, <2>2 DEF RunGet, RunSet, RunRestart, ShellWrites, RunShell, AnswerDirect, Published
  <2> QED BY <2>1, <2>2
<1>5. /\ task' \in [Ids -> [text : Texts, flag : Origins \cup {"mqtt", "none"}, asShell : BOOLEAN]]
      /\ \A i \in Ids : task'[i].flag = task[i].flag
  <2>1. task \in [Ids -> [text : Texts, flag : Origins \cup {"mqtt", "none"}, asShell : BOOLEAN]]
    BY DEF Places, TypeOK
  <2>2. ASSUME NEW t \in Texts
        PROVE  [task EXCEPT ![cur].text = t]
                 \in [Ids -> [text : Texts, flag : Origins \cup {"mqtt", "none"}, asShell : BOOLEAN]]
    BY <1>1, <2>1
  <2>5. {"reply", "shell"} \cup Outputs \subseteq Texts
    BY DEF Texts, Jsons
  <2>3. task' = task \/ \E t \in Texts : task' = [task EXCEPT ![cur].text = t]
    BY <2>5 DEF RunGet, RunSet, RunSerial, RunRestart, ShellWrites, RunShell, AnswerDirect, Result, GiveUp
  <2>4. \A i \in Ids : task'[i].flag = task[i].flag
    BY <2>1, <2>3
  <2> QED BY <2>1, <2>2, <2>3, <2>4
<1>6. /\ sent' \in Seq({"mqtt", "tcp", "usb"} \X Ids)
      /\ \A n \in DOMAIN sent' : sent'[n][2] < task_id
  <2>1. sent \in Seq({"mqtt", "tcp", "usb"} \X Ids) /\ \A n \in DOMAIN sent : sent[n][2] < task_id
    BY DEF Places, TypeOK, Known
  <2>2. CASE sent' = sent
    BY <2>1, <2>2
  <2>3. CASE (ShellWrites \/ AnswerDirect) /\ sent' = Append(sent, <<task[cur].flag, cur>>)
    <3>1. task[cur].flag \in {"mqtt", "tcp", "usb"}
      <4>1. cur \in 1 .. task_id - 1
        BY <1>1 DEF Places, TypeOK, Ids
      <4>2. task[cur].flag \in Origins \cup {"mqtt", "none"}
        BY <1>1 DEF Places, TypeOK
      <4>3. task[cur].flag # "none"
        BY <4>1 DEF Places, Known
      <4> QED BY <4>2, <4>3
    <3>2. <<task[cur].flag, cur>> \in {"mqtt", "tcp", "usb"} \X Ids
      BY <1>1, <3>1
    <3>3. sent' \in Seq({"mqtt", "tcp", "usb"} \X Ids)
      BY <2>1, <2>3, <3>2
    <3>4. \A n \in DOMAIN sent' : sent'[n][2] < task_id
      BY <1>1, <2>1, <2>3, RearPlaces
    <3> QED BY <3>3, <3>4
  <2> QED BY <2>2, <2>3 DEF RunGet, RunSet, RunSerial, RunRestart, ShellWrites, RunShell, AnswerDirect
<1>7. /\ answering' \in BOOLEAN
      /\ \/ UNCHANGED <<task_list, cur, crashed>>
         \/ FindAndRemove(cur) /\ cur' = None /\ ~answering'
  <2>1. ASSUME WorkerRuns({"get"}) \/ WorkerRuns({"getSerial", "setSerial"})
                 \/ WorkerRuns({"restart"}),
               GiveUp
        PROVE  answering' = FALSE /\ FindAndRemove(cur) /\ cur' = None
    <3>1. answering = FALSE
      BY <2>1, Zenon DEF WorkerRuns, Places, TypeOK
    <3> QED BY <2>1, <3>1 DEF GiveUp
  <2>2. ASSUME NEW t, Result(t) PROVE answering' = TRUE
    BY <2>2 DEF Result
  <2>3. CASE RunGet
    BY <2>1, <2>2, <2>3 DEF RunGet
  <2>4. CASE RunSerial
    BY <2>1, <2>2, <2>4 DEF RunSerial
  <2>5. CASE RunRestart
    BY <2>1, <2>5 DEF RunRestart
  <2>6. CASE RunSet \/ RunShell \/ AnswerDirect
    BY <2>2, <2>6 DEF RunSet, RunShell, AnswerDirect
  <2>7. CASE ShellWrites
    <3>1. answering' \in BOOLEAN
      BY <2>7, Zenon DEF ShellWrites, Places, TypeOK
    <3> QED BY <2>7, <3>1 DEF ShellWrites
  <2> QED BY <2>3, <2>4, <2>5, <2>6, <2>7
<1> QED BY <1>1, <1>4, <1>5, <1>6, <1>7, PlacesWork

\* Every step of the pipeline keeps every task in one place.
LEMMA PlacesNext == Places /\ [Next]_vars => Places'
<1> SUFFICES ASSUME Places, [Next]_vars PROVE Places'
  OBVIOUS
<1> USE GatewayAssumption
<1>1. ASSUME NEW o \in Origins, NEW t \in Inputs, Command(o, t) PROVE Places'
  <2>1. t \in Texts /\ topic' \in Seq(Texts)
    BY <1>1 DEF Command, Places, TypeOK
  <2> QED BY <1>1, <2>1, PlacesReceive DEF Command
<1>2. CASE OwnMessage
  <2>1. topic \in Seq(Texts) /\ topic # <<>>
    BY <1>2 DEF OwnMessage, Places, TypeOK
  <2>2. Head(topic) \in Texts /\ topic' \in Seq(Texts)
    BY <1>2, <2>1 DEF OwnMessage
  <2> QED BY <1>2, <2>2, PlacesReceive DEF OwnMessage
<1>3. CASE Worker
  BY <1>3, PlacesTake, PlacesRun, PlacesAnswerMqtt DEF Worker
<1>4. CASE Drain \/ Drained
  <2>1. sem' \in BOOLEAN
    BY <1>4 DEF Drain, Drained
  <2>2. crashed' \in BOOLEAN /\ answering' \in BOOLEAN
    BY <1>4, Zenon DEF Drain, Drained, Places, TypeOK
  <2>3. UNCHANGED <<task_id, task, task_list, jobs, cur, answering, publish_list, topic, boot,
                    sent, forgotten, crashed, handler>>
    BY <1>4 DEF Drain, Drained
  <2>4. TypeOK'
    BY <2>1, <2>2, <2>3 DEF Places, TypeOK
  <2> QED BY <2>3, <2>4 DEF Places, Known, Published, EveryTaskHasOnePlace
<1>5. CASE PublishOne
  BY <1>5, PlacesPublish
<1>7. CASE BrokenPipe
  <2>1. /\ handler' = handler \cup {"worker"}
        /\ UNCHANGED <<task_id, task, task_list, jobs, cur, answering, publish_list, sem, topic,
                       boot, sent, forgotten, crashed>>
    BY <1>7 DEF BrokenPipe
  <2>2. crashed' \in BOOLEAN /\ answering' \in BOOLEAN /\ sem' \in BOOLEAN
    BY <2>1, Zenon DEF Places, TypeOK
  <2>3. TypeOK'
    BY <2>1, <2>2 DEF Places, TypeOK
  <2> QED BY <2>1, <2>3 DEF Places, Known, Published, EveryTaskHasOnePlace
<1>6. CASE UNCHANGED vars
  <2>1. TypeOK'
    <3>1. crashed' \in BOOLEAN /\ answering' \in BOOLEAN /\ sem' \in BOOLEAN
      BY <1>6, Zenon DEF vars, Places, TypeOK
    <3> QED BY <1>6, <3>1 DEF vars, Places, TypeOK
  <2> QED BY <1>6, <2>1 DEF vars, Places, Known, Published, EveryTaskHasOnePlace
<1> QED BY <1>1, <1>2, <1>3, <1>4, <1>5, <1>6, <1>7, PlacesSelfTest DEF Next, Publisher

\* Where every task is, and what is known of it, in every state.
THEOREM WhereTasksAre == Spec => []Places
<1> QED BY PlacesInit, PlacesNext, PTL DEF Spec

\* Every variable has its type.
THEOREM TypeCorrect == Spec => []TypeOK
<1>1. Places => TypeOK
  BY DEF Places
<1> QED BY <1>1, WhereTasksAre, PTL

\* The node of a task is in task_list exactly as long as the task has one place to
\* be in, whether or not the serial port works: Receive, the worker and the MQTT
\* thread never lose a node, never keep one and never deal with a task twice.
THEOREM OnePlaceForATask == Spec => []EveryTaskHasOnePlace
<1>1. Places => EveryTaskHasOnePlace
  BY DEF Places
<1> QED BY <1>1, WhereTasksAre, PTL

\* list_remove never gets the NULL of an unsuccessful list_find, when the serial port
\* can be opened; when it cannot, open_serial publishes a text as if it were a task.
THEOREM RemovalsSucceed ==
  ASSUME UartWorks
  PROVE  Spec => []RemovalFindsNode
<1>1. Places => RemovalFindsNode
  BY DEF Places, Known, RemovalFindsNode
<1> QED BY <1>1, WhereTasksAre, PTL

-----------------------------------------------------------------------------
\* One more answer, of a task that had none or has it in pieces, on its channel.
LEMMA AnswerOnce ==
  ASSUME Places, AnsweredOnceWhereAsked, NEW x \in Ids,
         InPieces(x) \/ \A n \in DOMAIN sent : sent[n][2] # x,
         sent' = Append(sent, <<task[x].flag, x>>), task' = task
  PROVE  AnsweredOnceWhereAsked'
<1>1. /\ sent \in Seq({"mqtt", "tcp", "usb"} \X Ids)
      /\ \A n \in DOMAIN sent : sent[n][2] \in Ids
  BY DEF Places, TypeOK
<1>2. /\ DOMAIN sent' = DOMAIN sent \cup {Len(sent) + 1}
      /\ \A n \in DOMAIN sent : sent'[n] = sent[n] /\ n < Len(sent) + 1
      /\ sent'[Len(sent) + 1] = <<task[x].flag, x>>
  BY <1>1, RearPlaces
<1>3. ASSUME NEW m \in DOMAIN sent', NEW n \in DOMAIN sent', sent'[m][2] = sent'[n][2]
      PROVE  m = n \/ InPieces(sent'[m][2])
  <2>1. CASE m \in DOMAIN sent /\ n \in DOMAIN sent
    BY <1>2, <1>3, <2>1 DEF AnsweredOnceWhereAsked
  <2>4. CASE InPieces(x) /\ sent'[m][2] = x
    BY <2>4
  <2>2. InPieces(x) \/ \A k \in DOMAIN sent : sent'[k][2] # x
    BY <1>2
  <2>3. sent'[Len(sent) + 1][2] = x
    BY <1>2
  <2> QED BY <1>2, <1>3, <2>1, <2>2, <2>3, <2>4
<1>4. ASSUME NEW n \in DOMAIN sent' PROVE sent'[n][1] = task'[sent'[n][2]].flag
  <2>1. CASE n \in DOMAIN sent
    BY <1>1, <1>2, <2>1 DEF AnsweredOnceWhereAsked
  <2>2. CASE n = Len(sent) + 1
    BY <1>2, <2>2
  <2> QED BY <1>2, <2>1, <2>2
<1>5. \A i \in Ids : InPieces(i)' <=> InPieces(i)
  BY DEF InPieces
<1>6. \A n \in DOMAIN sent' : sent'[n][2] \in Ids
  BY <1>1, <1>2
<1> QED BY <1>3, <1>4, <1>5, <1>6 DEF AnsweredOnceWhereAsked, InPieces

\* No answer: the channels of the tasks that were answered are what they were.
LEMMA AnswerNone ==
  ASSUME Places, AnsweredOnceWhereAsked, sent' = sent,
         \A i \in 1 .. task_id - 1 : /\ task'[i].flag = task[i].flag
                                     /\ task'[i].asShell = task[i].asShell
  PROVE  AnsweredOnceWhereAsked'
<1>1. \A n \in DOMAIN sent : sent[n][2] \in Ids
  BY DEF Places, TypeOK
<1>2. \A n \in DOMAIN sent : sent[n][2] \in 1 .. task_id - 1
  BY <1>1 DEF Places, TypeOK, Known, Ids
<1> QED BY <1>2 DEF AnsweredOnceWhereAsked, InPieces

\* A new task is new to those who wait for an answer and to those who have theirs.
LEMMA AnswersReceive ==
  ASSUME Places, Answers, NEW o, NEW t \in Texts, Receive(o, t),
         UNCHANGED <<cur, answering, publish_list, sent>>
  PROVE  Answers'
<1>1. /\ task_id \in Ids /\ \A i \in 1 .. task_id - 1 : task'[i] = task[i]
      /\ task'[task_id] = [text |-> t, flag |-> o, asShell |-> t \notin Jsons]
  BY DEF Receive, NewTaskId, Ids, Places, TypeOK
<1>2. AnsweredOnceWhereAsked'
  BY <1>1, AnswerNone DEF Answers
<1>3. /\ ToSet(jobs) \subseteq 1 .. task_id - 1
      /\ ToSet(jobs') \subseteq ToSet(jobs) \cup {task_id}
  <2>1. jobs \in Seq(1 .. task_id - 1) /\ ToSet(jobs) \subseteq 1 .. task_id - 1
    BY MemberSet DEF Places, TypeOK
  <2>2. 1 .. task_id - 1 \subseteq Ids
    BY <1>1, GatewayAssumption DEF Ids
  <2>3. jobs \in Seq(Ids)
    BY <2>1, <2>2, WiderSeq
  <2>4. ToSet(Append(jobs, task_id)) = ToSet(jobs) \cup {task_id}
    BY <1>1, <2>3, RearSet
  <2> QED BY <2>1, <2>4 DEF Receive, AddJob
<1>4. ASSUME NEW i \in ToSet(jobs') PROVE ShellMarked(i)'
  <2>1. CASE i \in ToSet(jobs)
    BY <1>1, <1>3, <2>1 DEF Answers, Unanswered, ShellMarked
  <2>2. CASE i = task_id
    <3>1. t = "shell" => t \notin Jsons
      BY DEF Jsons
    <3>2. task'[i].text = t /\ task'[i].asShell = (t \notin Jsons)
      BY <1>1, <2>2
    <3> QED BY <3>1, <3>2, Zenon DEF ShellMarked
  <2> QED BY <1>3, <2>1, <2>2
<1>5. cur # None => cur \in 1 .. task_id - 1
  BY DEF Places, TypeOK, Known, None, Ids
<1>6. cur' # None /\ ~answering' => ShellMarked(cur)'
  BY <1>1, <1>5 DEF Answers, Unanswered, ShellMarked
<1>7. \A i \in Published' : task'[i].flag = "mqtt"
  BY <1>1 DEF Answers, Unanswered, Published, Places, Known
<1>8. ASSUME NEW n \in DOMAIN sent
      PROVE  /\ sent[n][2] \notin ToSet(jobs') \cup Published
             /\ sent[n][2] = cur => InPieces(cur)'
  <2>1. sent[n] \in {"mqtt", "tcp", "usb"} \X Ids
    BY DEF Places, TypeOK
  <2>2. sent[n][2] \in 1 .. task_id - 1
    BY <2>1 DEF Places, TypeOK, Known, Ids
  <2> QED BY <1>1, <1>3, <2>2 DEF Answers, Unanswered, InPieces
<1> QED BY <1>2, <1>4, <1>6, <1>7, <1>8 DEF Answers, Unanswered, Published

\* What main publishes when it starts is not a job and has no answer yet.
LEMMA AnswersSelfTest ==
  ASSUME Places, Places', Answers, NEW t \in {"get", "getSerial", "set", "setSerial"}, SelfTest(t)
  PROVE  Answers'
<1>1. /\ task_id \in Ids /\ \A i \in 1 .. task_id - 1 : task'[i] = task[i]
      /\ task'[task_id].flag = "mqtt"
      /\ UNCHANGED <<jobs, cur, answering, sent>>
  BY DEF SelfTest, NewTaskId, Ids, Places, TypeOK
<1>2. AnsweredOnceWhereAsked'
  BY <1>1, AnswerNone DEF Answers
<1>3. jobs \in Seq(1 .. task_id - 1) /\ ToSet(jobs) \subseteq 1 .. task_id - 1
  BY MemberSet DEF Places, TypeOK
<1>4. cur # None => cur \in 1 .. task_id - 1
  <2>1. cur \in Ids \cup {None} /\ cur < task_id /\ task_id \in 1 .. MaxTasks + 1
    BY DEF Places, TypeOK, Known
  <2> QED BY <2>1 DEF None, Ids
<1>5. Published' \subseteq Published \cup {task_id}
  <2>1. publish_list \in Seq(Ids \cup {Foreign}) /\ task_id \in Ids \cup {Foreign}
    BY <1>1 DEF Places, TypeOK
  <2>2. ToSet(publish_list') = ToSet(publish_list) \cup {task_id}
    BY <2>1, RearSet DEF SelfTest
  <2> QED BY <2>2 DEF Published
<1>6. \A i \in Published' : task'[i].flag = "mqtt"
  BY <1>1, <1>5 DEF Answers, Unanswered, Places, Known
<1>7. ASSUME NEW n \in DOMAIN sent
      PROVE  /\ sent[n][2] \notin ToSet(jobs) \cup Published'
             /\ sent[n][2] = cur => InPieces(cur)'
  <2>1. sent[n] \in {"mqtt", "tcp", "usb"} \X Ids
    <3>1. sent \in Seq({"mqtt", "tcp", "usb"} \X Ids)
      BY DEF Places, TypeOK
    <3> QED BY <3>1
  <2>2. sent[n][2] \in 1 .. task_id - 1
    BY SMTT(30), <2>1 DEF Places, TypeOK, Known, Ids
  <2>3. sent[n][2] # task_id
    BY <1>1, <2>2 DEF Ids
  <2> QED BY <1>1, <1>5, <2>2, <2>3 DEF Answers, Unanswered, InPieces
<1> QED BY <1>1, <1>2, <1>3, <1>4, <1>6, <1>7 DEF Answers, Unanswered, ShellMarked

\* The next job has no answer yet.
LEMMA AnswersTake == ASSUME Places, Answers, TakeJob PROVE Answers'
<1>1. /\ jobs \in Seq(1 .. task_id - 1) /\ jobs # <<>>
      /\ cur' = Head(jobs) /\ jobs' = Tail(jobs)
      /\ UNCHANGED <<task, answering, publish_list, sent>>
  BY DEF TakeJob, Places, TypeOK
<1>2. ToSet(jobs) = {cur'} \cup ToSet(jobs')
  BY <1>1, FrontSet
<1>3. AnsweredOnceWhereAsked'
  BY <1>1, AnswerNone DEF Answers
<1> QED BY <1>1, <1>2, <1>3 DEF Answers, Unanswered, ShellMarked, InPieces, Published

\* Nothing but the text of one task changes.
SameButText(i) ==
  /\ \A k \in Ids : task'[k].flag = task[k].flag
  /\ \A k \in Ids : task'[k].asShell = task[k].asShell
  /\ \A k \in Ids \ {i} : task'[k].text = task[k].text

\* The result that overwrites a command changes its text and nothing else of it.
LEMMA ResultIsText ==
  ASSUME Places, cur # None, NEW t \in Texts, task' = [task EXCEPT ![cur].text = t]
  PROVE  SameButText(cur)
<1>1. task \in [Ids -> [text : Texts, flag : Origins \cup {"mqtt", "none"}, asShell : BOOLEAN]]
  BY DEF Places, TypeOK
<1>2. cur \in Ids
  BY DEF Places, TypeOK
<1> QED BY <1>1, <1>2 DEF SameButText

\* An operation of the worker that leaves the answer to select_handler_method, or
\* gives the task up.
LEMMA AnswersRun ==
  ASSUME Places, Answers, ~crashed, cur # None, ~answering, sent' = sent,
         SameButText(cur), answering' \/ cur' = None, cur' \in {cur, None},
         jobs' = jobs, Published' = Published
  PROVE  Answers'
<1>1. OnePlace /\ cur \in Ids
  BY OnePlaceHolds DEF Places, TypeOK
<1>3. 1 .. task_id - 1 \subseteq Ids
  BY GatewayAssumption DEF Places, TypeOK, Ids
<1>4. AnsweredOnceWhereAsked'
  <2>1. \A i \in 1 .. task_id - 1 : /\ task'[i].flag = task[i].flag
                                      /\ task'[i].asShell = task[i].asShell
    BY <1>3 DEF SameButText
  <2> QED BY <2>1, AnswerNone DEF Answers
<1>5. ToSet(jobs) \subseteq Ids \ {cur} /\ Published \subseteq Ids
  <2>1. jobs \in Seq(1 .. task_id - 1) /\ Published \subseteq 1 .. task_id - 1
    BY DEF Places, TypeOK, Known
  <2>2. cur \notin ToSet(jobs)
    BY <1>1 DEF OnePlace
  <2> QED BY <1>3, <2>1, <2>2, MemberSet
<1>6. \A n \in DOMAIN sent : /\ sent[n][2] = cur => task'[cur].asShell /\ task'[cur].flag # "mqtt"
                             /\ sent[n][2] # None
  <2>1. \A n \in DOMAIN sent : sent[n] \in {"mqtt", "tcp", "usb"} \X Ids
    BY DEF Places, TypeOK
  <2>2. \A n \in DOMAIN sent : sent[n][2] # None
    BY <2>1 DEF Ids, None
  <2>4. InPieces(cur) => task'[cur].asShell /\ task'[cur].flag # "mqtt"
    BY <1>1 DEF SameButText, InPieces
  <2> QED BY <2>2, <2>4 DEF Answers, Unanswered
<1>7. ASSUME NEW i \in ToSet(jobs') PROVE ShellMarked(i)'
  <2>1. ShellMarked(i) /\ i \in Ids \ {cur}
    BY <1>5 DEF Answers, Unanswered
  <2> QED BY <2>1 DEF ShellMarked, SameButText
<1>8. \A i \in Published' : task'[i].flag = "mqtt"
  BY <1>5 DEF Answers, Unanswered, SameButText
<1>9. \A n \in DOMAIN sent' : /\ sent'[n][2] \notin ToSet(jobs') \cup Published'
                              /\ sent'[n][2] = cur' => InPieces(cur)'
  BY <1>6 DEF Answers, Unanswered, InPieces
<1> QED BY <1>4, <1>7, <1>8, <1>9 DEF Answers, Unanswered

\* A shell command over TCP or USB is answered piece by piece while it runs.
LEMMA AnswersShell == ASSUME Places, Answers, ShellWrites PROVE Answers'
<1>1. /\ ~crashed /\ cur # None /\ ~answering /\ task[cur].text = "shell"
      /\ task[cur].flag # "mqtt" /\ sent' = Append(sent, <<task[cur].flag, cur>>)
      /\ UNCHANGED <<task, cur, jobs, publish_list, answering>>
  BY DEF ShellWrites, WorkerRuns
<1>2. OnePlace /\ cur \in Ids
  BY <1>1, OnePlaceHolds DEF Places, TypeOK
<1>3. cur \notin ToSet(jobs) \cup Published /\ InPieces(cur)
  BY <1>1, <1>2 DEF OnePlace, Answers, Unanswered, ShellMarked, InPieces
<1>4. AnsweredOnceWhereAsked'
  BY <1>1, <1>2, <1>3, AnswerOnce DEF Answers
<1>5. /\ DOMAIN sent' = DOMAIN sent \cup {Len(sent) + 1}
      /\ \A n \in DOMAIN sent : sent'[n] = sent[n]
      /\ sent'[Len(sent) + 1] = <<task[cur].flag, cur>>
  <2>1. sent \in Seq({"mqtt", "tcp", "usb"} \X Ids)
    BY DEF Places, TypeOK
  <2> QED BY <1>1, <2>1, RearPlaces
<1>6. \A n \in DOMAIN sent' : sent'[n][2] \notin ToSet(jobs) \cup Published
  BY <1>3, <1>5 DEF Answers, Unanswered
<1>7. Published' = Published
  BY <1>1 DEF Published
<1> QED BY <1>1, <1>3, <1>4, <1>6, <1>7 DEF Answers, Unanswered, ShellMarked, InPieces

\* An answer for the broker was not given yet and stays to be published.
LEMMA AnswersAnswerMqtt == ASSUME Places, Answers, AnswerMqtt PROVE Answers'
<1>1. OnePlace /\ cur \in Ids /\ cur # None /\ task[cur].flag = "mqtt"
  BY OnePlaceHolds DEF Places, TypeOK, Known, AnswerMqtt
<1>2. UNCHANGED <<task, jobs, sent>> /\ cur' = None
  BY DEF AnswerMqtt
<1>3. Published' \subseteq Published \cup {cur}
  <2>1. publish_list \in Seq(Ids \cup {Foreign}) /\ cur \in Ids \cup {Foreign}
    BY <1>1 DEF Places, TypeOK
  <2>2. ToSet(publish_list') = ToSet(publish_list) \cup {cur}
    BY <2>1, RearSet DEF AnswerMqtt
  <2> QED BY <2>2 DEF Published
<1>4. AnsweredOnceWhereAsked'
  BY <1>2, AnswerNone DEF Answers
<1>5. \A n \in DOMAIN sent : sent[n][2] # cur /\ sent[n][2] # None
  <2>1. \A n \in DOMAIN sent : sent[n] \in {"mqtt", "tcp", "usb"} \X Ids
    BY DEF Places, TypeOK
  <2>2. \A n \in DOMAIN sent : sent[n][2] # None
    BY <2>1 DEF Ids, None
  <2> QED BY <1>1, <2>2 DEF Answers, Unanswered, InPieces
<1> QED BY <1>1, <1>2, <1>3, <1>4, <1>5 DEF Answers, Unanswered, ShellMarked, InPieces

\* TCP and USB: what was answered while it ran is not answered again.
LEMMA AnswersAnswerDirect == ASSUME Places, Answers, AnswerDirect PROVE Answers'
<1>1. OnePlace /\ cur \in Ids /\ cur # None /\ task[cur].flag # "mqtt"
  BY OnePlaceHolds DEF Places, TypeOK, Known, AnswerDirect
<1>2. UNCHANGED <<task, jobs, publish_list>> /\ cur' = None /\ Published' = Published
  BY DEF AnswerDirect, Published
<1>3. cur \notin ToSet(jobs) \cup Published
  BY <1>1 DEF OnePlace
<1>4. \A n \in DOMAIN sent : sent[n] \in {"mqtt", "tcp", "usb"} \X Ids
  BY DEF Places, TypeOK
<1>5. \A n \in DOMAIN sent : sent[n][2] # None
  BY <1>4 DEF Ids, None
<1>6. CASE sent' = sent
  <2>1. AnsweredOnceWhereAsked'
    BY <1>2, <1>6, AnswerNone DEF Answers
  <2> QED BY <1>2, <1>5, <1>6, <2>1 DEF Answers, Unanswered, ShellMarked, InPieces
<1>7. CASE sent' = Append(sent, <<task[cur].flag, cur>>) /\ ~task[cur].asShell
  <2>1. \A n \in DOMAIN sent : sent[n][2] # cur
    BY <1>7 DEF Answers, Unanswered, InPieces
  <2>2. AnsweredOnceWhereAsked'
    BY <1>1, <1>2, <1>7, <2>1, AnswerOnce DEF Answers
  <2>3. /\ DOMAIN sent' = DOMAIN sent \cup {Len(sent) + 1}
        /\ \A n \in DOMAIN sent : sent'[n] = sent[n]
        /\ sent'[Len(sent) + 1] = <<task[cur].flag, cur>>
    <3>1. sent \in Seq({"mqtt", "tcp", "usb"} \X Ids)
      BY DEF Places, TypeOK
    <3> QED BY <1>7, <3>1, RearPlaces
  <2>4. ASSUME NEW n \in DOMAIN sent'
        PROVE  sent'[n][2] \notin ToSet(jobs) \cup Published /\ sent'[n][2] # None
    BY <1>1, <1>3, <1>5, <2>3 DEF Answers, Unanswered
  <2> QED BY <1>2, <2>2, <2>4 DEF Answers, Unanswered, ShellMarked, InPieces
<1> QED BY <1>6, <1>7 DEF AnswerDirect

\* The MQTT thread publishes a task that waits for its answer.
LEMMA AnswersPublish == ASSUME Places, Answers, PublishOne PROVE Answers'
<1> DEFINE i == Head(publish_list)
<1>1. OnePlace
  BY OnePlaceHolds DEF Places, PublishOne
<1>2. /\ publish_list \in Seq(Ids \cup {Foreign}) /\ publish_list # <<>> /\ Once(publish_list)
      /\ publish_list' = Tail(publish_list)
      /\ UNCHANGED <<task, jobs, cur, answering>>
  BY <1>1 DEF PublishOne, OnePlace, Places, TypeOK
<1>3. /\ i \in Ids \cup {Foreign}
      /\ ToSet(publish_list) = {i} \cup ToSet(publish_list')
      /\ i \in ToSet(publish_list') => i = Foreign
  BY <1>2, FrontSet, FrontOnce
<1>4. Published' \subseteq Published
  BY <1>3 DEF Published
<1>5. CASE sent' = sent
  <2>1. AnsweredOnceWhereAsked'
    BY <1>2, <1>5, AnswerNone DEF Answers
  <2> QED BY <1>2, <1>4, <1>5, <2>1 DEF Answers, Unanswered, ShellMarked, InPieces
<1>6. CASE i \in Ids /\ sent' = Append(sent, <<"mqtt", i>>)
  <2>1. i \in Published /\ i \notin Published'
    BY <1>3, <1>6, GatewayAssumption DEF Published, Ids, Foreign
  <2>2. task[i].flag = "mqtt" /\ \A n \in DOMAIN sent : sent[n][2] # i
    BY <2>1 DEF Answers, Unanswered
  <2>3. sent' = Append(sent, <<task[i].flag, i>>)
    BY <1>6, <2>2
  <2>4. AnsweredOnceWhereAsked'
    BY <1>2, <1>6, <2>2, <2>3, AnswerOnce DEF Answers
  <2>5. /\ DOMAIN sent' = DOMAIN sent \cup {Len(sent) + 1}
        /\ \A n \in DOMAIN sent : sent'[n] = sent[n]
        /\ sent'[Len(sent) + 1] = <<"mqtt", i>>
    <3>1. sent \in Seq({"mqtt", "tcp", "usb"} \X Ids)
      BY DEF Places, TypeOK
    <3> QED BY <1>6, <3>1, RearPlaces
  <2>6. i \notin ToSet(jobs) /\ i # cur
    <3>1. i # None
      BY <1>6 DEF Ids, None
    <3> QED BY <1>1, <2>1, <3>1 DEF OnePlace
  <2>7. ASSUME NEW n \in DOMAIN sent'
        PROVE  /\ sent'[n][2] \notin ToSet(jobs) \cup Published'
               /\ sent'[n][2] = cur => InPieces(cur)
    BY <1>4, <2>1, <2>5, <2>6 DEF Answers, Unanswered
  <2> QED BY <1>2, <1>4, <2>4, <2>7 DEF Answers, Unanswered, ShellMarked, InPieces
<1> QED BY <1>5, <1>6 DEF PublishOne

\* Before the first command nobody waits for an answer.
LEMMA AnswersInit == Init => Answers
<1>1. ToSet(<<>>) = {}
  BY DEF ToSet
<1> QED BY <1>1 DEF Init, Answers, Unanswered, AnsweredOnceWhereAsked, Published

\* Every step keeps account of who has been answered and who still waits.
LEMMA AnswersNext == Places /\ Places' /\ Answers /\ [Next]_vars => Answers'
<1> SUFFICES ASSUME Places, Places', Answers, [Next]_vars PROVE Answers'
  OBVIOUS
<1> USE GatewayAssumption
<1>1. ASSUME NEW o \in Origins, NEW t \in Inputs, Command(o, t) PROVE Answers'
  BY <1>1, AnswersReceive DEF Command
<1>2. CASE OwnMessage
  <2>1. Head(topic) \in Texts
    BY <1>2 DEF OwnMessage, Places, TypeOK
  <2> QED BY <1>2, <2>1, AnswersReceive DEF OwnMessage
<1>3. CASE Drain \/ Drained \/ BrokenPipe \/ UNCHANGED vars
  <2>1. UNCHANGED <<task_id, task, jobs, cur, answering, publish_list, sent>>
    BY <1>3 DEF Drain, Drained, BrokenPipe, vars
  <2> QED BY <2>1 DEF Answers, Unanswered, ShellMarked, AnsweredOnceWhereAsked, InPieces,
                      Published
<1>4. ASSUME WorkerRuns({"get"}) \/ WorkerRuns({"set"}) \/ WorkerRuns({"getSerial", "setSerial"})
               \/ WorkerRuns({"restart"}),
             GiveUp \/ \E t \in Texts : Result(t) /\ UNCHANGED cur,
             jobs' = jobs, sent' = sent, publish_list' = publish_list \/ OpenSerial
      PROVE  Answers'
  <2>1. ~crashed /\ cur # None /\ ~answering
    BY <1>4 DEF WorkerRuns
  <2>2. Published' = Published
    <3>1. publish_list \in Seq(Ids \cup {Foreign}) /\ Once(publish_list)
      BY <2>1, OnePlaceHolds DEF Places, TypeOK, OnePlace
    <3> QED BY <1>4, <3>1, SerialOpened DEF Published
  <2>3. CASE GiveUp
    BY <1>4, <2>1, <2>2, <2>3, AnswersRun DEF GiveUp, SameButText
  <2>4. ASSUME NEW t \in Texts, Result(t), UNCHANGED cur PROVE Answers'
    <3>1. SameButText(cur)
      BY <2>1, <2>4, ResultIsText DEF Result
    <3> QED BY <1>4, <2>1, <2>2, <2>4, <3>1, AnswersRun DEF Result
  <2> QED BY <1>4, <2>3, <2>4
<1>5. {"reply", "shell", "error"} \cup Outputs \subseteq Texts
  BY DEF Texts, Jsons
<1>6. CASE RunGet
  BY <1>4, <1>5, <1>6 DEF RunGet
<1>7. CASE RunSet
  BY <1>4, <1>5, <1>7 DEF RunSet
<1>8. CASE RunSerial
  BY <1>4, <1>5, <1>8 DEF RunSerial
<1>9. CASE RunRestart
  BY <1>4, <1>9 DEF RunRestart
<1>10. CASE RunShell
  <2>1. /\ ~crashed /\ cur # None /\ ~answering /\ answering' /\ sent' = sent
        /\ UNCHANGED <<cur, jobs, publish_list>> /\ Published' = Published
    BY <1>10 DEF RunShell, WorkerRuns, Published
  <2>2. SameButText(cur)
    <3>1. CASE task' = task
      BY <3>1 DEF SameButText
    <3>2. ASSUME NEW t \in Outputs \cup {"shell"}, task' = [task EXCEPT ![cur].text = t]
          PROVE  SameButText(cur)
      BY <1>5, <2>1, <3>2, ResultIsText
    <3> QED BY <1>10, <3>1, <3>2 DEF RunShell
  <2> QED BY <2>1, <2>2, AnswersRun
<1>11. CASE Worker
  BY <1>6, <1>7, <1>8, <1>9, <1>10, <1>11, AnswersTake, AnswersShell, AnswersAnswerMqtt,
     AnswersAnswerDirect DEF Worker
<1> QED BY <1>1, <1>2, <1>3, <1>11, AnswersSelfTest, AnswersPublish DEF Next, Publisher

\* Who waits for an answer and who has it.
THEOREM WhoIsAnswered == Spec => []Answers
<1> QED BY AnswersInit, AnswersNext, WhereTasksAre, PTL DEF Spec

\* A command is answered once at most, by the worker or by the MQTT thread, on the
\* channel it came from.
THEOREM AnsweredOnce == Spec => []AnsweredOnceWhereAsked
<1>1. Answers => AnsweredOnceWhereAsked
  BY DEF Answers
<1> QED BY <1>1, WhoIsAnswered, PTL

-----------------------------------------------------------------------------
\* A queue of ever newer tasks stays one when a still newer one joins it.
LEMMA RearIncreasing ==
  ASSUME NEW q \in Seq(Ids \cup {Foreign}), NEW x, Increasing(q),
         \A y \in ToSet(q) \ {Foreign} : x # Foreign => y < x
  PROVE  Increasing(Append(q, x))
<1> SUFFICES ASSUME NEW m \in DOMAIN Append(q, x), NEW n \in DOMAIN Append(q, x), m < n,
                    Append(q, x)[m] # Foreign, Append(q, x)[n] # Foreign
             PROVE  Append(q, x)[m] < Append(q, x)[n]
  BY DEF Increasing
<1>1. m \in DOMAIN q
  BY RearPlaces
<1>2. CASE n \in DOMAIN q
  BY <1>1, <1>2, RearPlaces DEF Increasing
<1>3. CASE n = Len(q) + 1
  <2>1. Append(q, x)[n] = x /\ Append(q, x)[m] = q[m] /\ q[m] \in ToSet(q)
    BY <1>1, <1>3, RearPlaces DEF ToSet
  <2> QED BY <2>1
<1> QED BY <1>2, <1>3, RearPlaces

\* Its first is older than the others.
LEMMA FrontIncreasing ==
  ASSUME NEW q \in Seq(Ids \cup {Foreign}), q # <<>>, Increasing(q)
  PROVE  /\ Increasing(Tail(q))
         /\ Head(q) # Foreign => \A y \in ToSet(Tail(q)) \ {Foreign} : Head(q) < y
<1>1. Increasing(Tail(q))
  <2> SUFFICES ASSUME NEW m \in DOMAIN Tail(q), NEW n \in DOMAIN Tail(q), m < n,
                      Tail(q)[m] # Foreign, Tail(q)[n] # Foreign
               PROVE  Tail(q)[m] < Tail(q)[n]
    BY DEF Increasing
  <2>1. /\ m + 1 \in DOMAIN q /\ n + 1 \in DOMAIN q /\ m + 1 < n + 1
        /\ Tail(q)[m] = q[m + 1] /\ Tail(q)[n] = q[n + 1]
    BY FrontPlaces
  <2> QED BY <2>1 DEF Increasing
<1>2. ASSUME Head(q) # Foreign, NEW n \in DOMAIN Tail(q), Tail(q)[n] # Foreign
      PROVE  Head(q) < Tail(q)[n]
  <2>1. 1 \in DOMAIN q /\ n + 1 \in DOMAIN q /\ 1 < n + 1 /\ Tail(q)[n] = q[n + 1] /\ Head(q) = q[1]
    BY FrontPlaces
  <2> QED BY <1>2, <2>1 DEF Increasing
<1> QED BY <1>1, <1>2 DEF ToSet

\* One more answer, not older than those its channel has.
LEMMA AnswerLater ==
  ASSUME Places, boot = SelfTests, AnswersInOrder, NEW f, NEW x,
         \A n \in DOMAIN sent : sent[n][1] = f => sent[n][2] <= x,
         sent' = Append(sent, <<f, x>>)
  PROVE  AnswersInOrder'
<1>1. /\ DOMAIN sent' = DOMAIN sent \cup {Len(sent) + 1}
      /\ DOMAIN sent = 1 .. Len(sent) /\ Len(sent) \in Nat
      /\ \A n \in DOMAIN sent : sent'[n] = sent[n]
      /\ sent'[Len(sent) + 1] = <<f, x>>
  <2>1. sent \in Seq({"mqtt", "tcp", "usb"} \X Ids)
    BY DEF Places, TypeOK
  <2> QED BY <2>1, RearPlaces
<1> SUFFICES ASSUME NEW m \in DOMAIN sent', NEW n \in DOMAIN sent', m < n,
                    sent'[m][1] = sent'[n][1]
             PROVE  sent'[m][2] <= sent'[n][2]
  BY DEF AnswersInOrder
<1>2. m \in DOMAIN sent
  BY <1>1
<1>3. CASE n \in DOMAIN sent
  BY <1>1, <1>2, <1>3 DEF AnswersInOrder
<1>4. CASE n = Len(sent) + 1
  BY <1>1, <1>2, <1>4
<1> QED BY <1>1, <1>3, <1>4

\* The ids that are compared are numbers.
LEMMA IdsAreNumbers ==
  ASSUME Places
  PROVE  /\ task_id \in Nat /\ cur \in Nat /\ cur < task_id
         /\ \A j \in ToSet(jobs) : j \in Ids /\ j \in Nat /\ j > 0 /\ j < task_id
         /\ \A p \in Published : p \in Ids /\ p \in Nat /\ p > 0 /\ p < task_id
         /\ \A n \in DOMAIN sent : sent[n][2] \in Nat /\ sent[n][2] > 0 /\ sent[n][2] < task_id
         /\ jobs \in Seq(Ids \cup {Foreign}) /\ publish_list \in Seq(Ids \cup {Foreign})
<1>1. task_id \in Nat /\ cur \in Nat /\ cur < task_id /\ 1 .. task_id - 1 \subseteq Ids
  BY GatewayAssumption DEF Places, TypeOK, Known, Ids, None
<1>2. jobs \in Seq(1 .. task_id - 1) /\ ToSet(jobs) \subseteq 1 .. task_id - 1
  BY MemberSet DEF Places, TypeOK
<1>3. jobs \in Seq(Ids \cup {Foreign})
  BY <1>1, <1>2, WiderSeq
<1>4. Published \subseteq 1 .. task_id - 1
  BY DEF Places, Known
<1>5. \A n \in DOMAIN sent : sent[n] \in {"mqtt", "tcp", "usb"} \X Ids
  BY DEF Places, TypeOK
<1>6. \A n \in DOMAIN sent : sent[n][2] \in Nat /\ sent[n][2] > 0
  BY <1>5 DEF Ids
<1>7. ASSUME NEW j \in 1 .. task_id - 1 PROVE j \in Ids /\ j \in Nat /\ j > 0 /\ j < task_id
  BY <1>1, <1>7
<1>8. publish_list \in Seq(Ids \cup {Foreign})
  BY DEF Places, TypeOK
<1>9. \A n \in DOMAIN sent : sent[n][2] < task_id
  BY DEF Places, Known
<1> QED BY <1>1, <1>2, <1>3, <1>4, <1>6, <1>7, <1>8, <1>9

\* A new task is the last in line.
LEMMA OrderReceive ==
  ASSUME Places, InLine, AnswersInOrder, NEW o, NEW t, Receive(o, t),
         UNCHANGED <<cur, publish_list, boot, sent>>
  PROVE  InLine' /\ AnswersInOrder'
<1>1. jobs' = jobs \/ jobs' = Append(jobs, task_id)
  BY DEF Receive, AddJob
<1>2. task_id \in Ids \cup {Foreign}
  BY DEF Receive, NewTaskId
<1>3. Increasing(jobs') /\ ToSet(jobs') \subseteq ToSet(jobs) \cup {task_id}
  <2>1. CASE jobs' = jobs
    BY <2>1 DEF InLine
  <2>2. CASE jobs' = Append(jobs, task_id)
    <3>1. Increasing(jobs')
      BY <2>2, IdsAreNumbers, RearIncreasing DEF InLine
    <3>2. ToSet(jobs') = ToSet(jobs) \cup {task_id}
      BY <1>2, <2>2, IdsAreNumbers, RearSet
    <3> QED BY <3>1, <3>2
  <2> QED BY <1>1, <2>1, <2>2
<1>4. Published' = Published
  BY DEF Published
<1>5. /\ \A j \in ToSet(jobs') : cur < j
      /\ \A j \in ToSet(jobs'), p \in Published : p < j
      /\ \A j \in ToSet(jobs'), n \in DOMAIN sent : sent[n][2] < j
  BY <1>3, IdsAreNumbers DEF InLine
<1>6. AnswersInOrder'
  BY DEF AnswersInOrder
<1>7. InLine'
  <2>1. \A p \in Published' : (cur' # None => p < cur') /\ \A j \in ToSet(jobs') : p < j
    BY <1>4, <1>5 DEF InLine
  <2>2. ASSUME NEW n \in DOMAIN sent'
        PROVE  /\ cur' # None => sent'[n][2] <= cur'
               /\ \A j \in ToSet(jobs') : sent'[n][2] < j
               /\ sent'[n][1] = "mqtt" => \A p \in Published' : sent'[n][2] < p
    BY <1>4, <1>5 DEF InLine
  <2>3. Increasing(publish_list') /\ \A j \in ToSet(jobs') : cur' < j
    BY <1>5 DEF InLine
  <2> QED BY <1>3, <2>1, <2>2, <2>3 DEF InLine
<1> QED BY <1>6, <1>7

\* The next job is older than those behind it and newer than those before it.
LEMMA OrderTake ==
  ASSUME Places, InLine, AnswersInOrder, TakeJob
  PROVE  InLine' /\ AnswersInOrder'
<1>1. /\ jobs # <<>> /\ cur' = Head(jobs) /\ jobs' = Tail(jobs) /\ boot' = boot
      /\ UNCHANGED <<publish_list, sent>> /\ Published' = Published
  BY DEF TakeJob, Published
<1>2. ToSet(jobs) = {cur'} \cup ToSet(jobs')
  BY <1>1, IdsAreNumbers, FrontSet
<1>3. \A j \in ToSet(jobs) : j # Foreign
  BY IdsAreNumbers, GatewayAssumption DEF Ids, Foreign
<1>4. Increasing(jobs') /\ \A j \in ToSet(jobs') : cur' < j
  BY <1>1, <1>2, <1>3, IdsAreNumbers, FrontIncreasing DEF InLine
<1>5. /\ \A p \in Published : p < cur' /\ \A j \in ToSet(jobs') : p < j
      /\ \A n \in DOMAIN sent : sent[n][2] <= cur' /\ \A j \in ToSet(jobs') : sent[n][2] < j
  <2>1. \A n \in DOMAIN sent : sent[n][2] < cur'
    BY <1>2 DEF InLine
  <2>2. cur' \in Nat
    BY <1>2, IdsAreNumbers
  <2> QED BY <1>2, <2>1, <2>2, IdsAreNumbers DEF InLine
<1>6. AnswersInOrder'
  BY <1>1 DEF AnswersInOrder
<1> QED BY <1>1, <1>4, <1>5, <1>6 DEF InLine

\* The worker answers, or not, and keeps its task or has none: both are newer than
\* what was answered on its channel before.
LEMMA OrderRun ==
  ASSUME Places, InLine, AnswersInOrder, boot = SelfTests, cur # None, cur' \in {cur, None},
         jobs' = jobs, boot' = boot, Published' = Published, Increasing(publish_list'),
         \/ sent' = sent
         \/ /\ sent' = Append(sent, <<task[cur].flag, cur>>)
            /\ task[cur].flag # "mqtt"
  PROVE  InLine' /\ AnswersInOrder'
<1>1. CASE sent' = sent
  BY <1>1, IdsAreNumbers DEF InLine, AnswersInOrder, None
<1>2. CASE /\ sent' = Append(sent, <<task[cur].flag, cur>>)
           /\ task[cur].flag # "mqtt"
  <2>1. \A n \in DOMAIN sent : sent[n][2] <= cur
    BY <1>2, IdsAreNumbers DEF InLine
  <2>2. AnswersInOrder'
    BY <1>2, <2>1, AnswerLater
  <2>3. /\ DOMAIN sent' = DOMAIN sent \cup {Len(sent) + 1}
        /\ \A n \in DOMAIN sent : sent'[n] = sent[n]
        /\ sent'[Len(sent) + 1] = <<task[cur].flag, cur>>
    <3>1. sent \in Seq({"mqtt", "tcp", "usb"} \X Ids)
      BY DEF Places, TypeOK
    <3> QED BY <1>2, <3>1, RearPlaces
  <2>4. ASSUME NEW n \in DOMAIN sent'
        PROVE  /\ sent'[n][2] <= cur
               /\ \A j \in ToSet(jobs) : sent'[n][2] < j
               /\ sent'[n][1] = "mqtt" => \A p \in Published : sent'[n][2] < p
    <3>1. CASE n \in DOMAIN sent
      BY <2>3, <3>1 DEF InLine
    <3>2. CASE n = Len(sent) + 1
      BY <1>2, <2>3, <3>2, IdsAreNumbers DEF InLine
    <3> QED BY <2>3, <3>1, <3>2
  <2>5. \A j \in ToSet(jobs) : cur' < j
    BY IdsAreNumbers DEF InLine, None
  <2>6. \A p \in Published' : cur' # None => p < cur'
    BY DEF InLine
  <2> QED BY <2>2, <2>4, <2>5, <2>6 DEF InLine
<1> QED BY <1>1, <1>2

\* An answer for the broker is newer than the list it joins and than those before it.
LEMMA OrderAnswerMqtt ==
  ASSUME Places, Answers, InLine, AnswersInOrder, boot = SelfTests, AnswerMqtt
  PROVE  InLine' /\ AnswersInOrder'
<1>1. /\ cur # None /\ cur \in Ids /\ task[cur].flag = "mqtt" /\ cur' = None
      /\ publish_list' = Append(publish_list, cur)
      /\ UNCHANGED <<jobs, sent, boot>>
  BY DEF AnswerMqtt, Places, TypeOK, Known
<1>2. Published' = Published \cup {cur}
  <2>1. publish_list \in Seq(Ids \cup {Foreign}) /\ cur \in Ids \cup {Foreign} /\ cur # Foreign
    BY <1>1, GatewayAssumption DEF Places, TypeOK, Ids, Foreign
  <2>2. ToSet(publish_list') = ToSet(publish_list) \cup {cur}
    BY <1>1, <2>1, RearSet
  <2> QED BY <2>1, <2>2 DEF Published
<1>3. Increasing(publish_list')
  BY <1>1, IdsAreNumbers, RearIncreasing DEF InLine, Published
<1>4. \A n \in DOMAIN sent : sent[n][2] < cur
  <2>1. \A n \in DOMAIN sent : sent[n][2] # cur
    BY <1>1 DEF Answers, Unanswered, InPieces
  <2> QED BY <1>1, <2>1, IdsAreNumbers DEF InLine
<1> QED BY <1>1, <1>2, <1>3, <1>4, IdsAreNumbers DEF InLine, AnswersInOrder, None

\* What is published is older than the rest of its list, the worker's task and the
\* queue, and newer than what was published before.
LEMMA OrderPublish ==
  ASSUME Places, InLine, AnswersInOrder, boot = SelfTests, PublishOne
  PROVE  InLine' /\ AnswersInOrder'
<1> DEFINE i == Head(publish_list)
<1>1. /\ publish_list # <<>> /\ publish_list' = Tail(publish_list)
      /\ UNCHANGED <<jobs, cur, boot>>
  BY DEF PublishOne
<1>2. ToSet(publish_list) = {i} \cup ToSet(publish_list')
  BY <1>1, IdsAreNumbers, FrontSet
<1>3. /\ Increasing(publish_list')
      /\ i # Foreign => \A y \in ToSet(publish_list') \ {Foreign} : i < y
  BY <1>1, IdsAreNumbers, FrontIncreasing DEF InLine
<1>4. Published' \subseteq Published
  BY <1>2 DEF Published
<1>5. CASE sent' = sent
  BY <1>1, <1>3, <1>4, <1>5 DEF InLine, AnswersInOrder
<1>6. CASE i \in Ids /\ sent' = Append(sent, <<"mqtt", i>>)
  <2>1. i # Foreign /\ i \in Published
    BY <1>2, <1>6, GatewayAssumption DEF Published, Ids, Foreign
  <2>2. \A p \in Published' : i < p
    BY <1>3, <2>1 DEF Published
  <2>3. AnswersInOrder'
    <3>1. \A n \in DOMAIN sent : sent[n][1] = "mqtt" => sent[n][2] <= i
      BY <2>1, IdsAreNumbers DEF InLine
    <3> QED BY <1>6, <3>1, AnswerLater
  <2>4. /\ DOMAIN sent' = DOMAIN sent \cup {Len(sent) + 1}
        /\ \A n \in DOMAIN sent : sent'[n] = sent[n]
        /\ sent'[Len(sent) + 1] = <<"mqtt", i>>
    <3>1. sent \in Seq({"mqtt", "tcp", "usb"} \X Ids)
      BY DEF Places, TypeOK
    <3> QED BY <1>6, <3>1, RearPlaces
  <2>5. ASSUME NEW n \in DOMAIN sent'
        PROVE  /\ cur # None => sent'[n][2] <= cur
               /\ \A j \in ToSet(jobs) : sent'[n][2] < j
               /\ sent'[n][1] = "mqtt" => \A p \in Published' : sent'[n][2] < p
    <3>1. CASE n \in DOMAIN sent
      BY <1>4, <2>4, <3>1 DEF InLine
    <3>2. CASE n = Len(sent) + 1
      BY <2>1, <2>2, <2>4, <3>2, IdsAreNumbers DEF InLine
    <3> QED BY <2>4, <3>1, <3>2
  <2> QED BY <1>1, <1>3, <1>4, <2>3, <2>5 DEF InLine
<1> QED BY <1>5, <1>6 DEF PublishOne

\* Before the first command there is nothing to be out of order.
LEMMA OrderInit == Init => Order
<1>1. ToSet(<<>>) = {}
  BY DEF ToSet
<1> QED BY <1>1 DEF Init, Order, InLine, Increasing, AnswersInOrder, Published

\* Every step keeps the tasks in line, until main publishes a command of its own.
LEMMA OrderNext == Places /\ Answers /\ Order /\ [Next]_vars => Order'
<1> SUFFICES ASSUME Places, Answers, Order, [Next]_vars, boot' = SelfTests
             PROVE  InLine' /\ AnswersInOrder'
  BY DEF Order
<1>1. boot = SelfTests /\ boot' = boot /\ ~(\E t \in {"get", "getSerial", "set", "setSerial"} : SelfTest(t))
  <2>1. boot \in 0 .. SelfTests
    BY DEF Places, TypeOK
  <2>2. boot' = boot \/ boot' = boot - 1
    BY DEF Next, Command, OwnMessage, SelfTest, Worker, TakeJob, RunGet, RunSet, RunSerial,
           RunRestart, ShellWrites, RunShell, AnswerMqtt, AnswerDirect, BrokenPipe, Drain,
           Publisher, PublishOne, Drained, vars
  <2>3. boot' = boot
    BY <2>1, <2>2, GatewayAssumption
  <2>4. ASSUME NEW t \in {"get", "getSerial", "set", "setSerial"}, SelfTest(t) PROVE FALSE
    BY <2>1, <2>3, <2>4, GatewayAssumption DEF SelfTest
  <2> QED BY <2>3, <2>4
<1>2. InLine /\ AnswersInOrder
  BY <1>1 DEF Order
<1>3. ASSUME NEW o \in Origins, NEW t \in Inputs, Command(o, t) PROVE InLine' /\ AnswersInOrder'
  BY <1>2, <1>3, OrderReceive DEF Command
<1>4. CASE OwnMessage
  BY <1>2, <1>4, OrderReceive DEF OwnMessage
<1>5. CASE Drain \/ Drained \/ BrokenPipe \/ UNCHANGED vars
  <2>1. UNCHANGED <<jobs, cur, publish_list, boot, sent>>
    BY <1>5 DEF Drain, Drained, BrokenPipe, vars
  <2> QED BY <1>2, <2>1 DEF InLine, AnswersInOrder, Published
<1>6. CASE \/ RunGet \/ RunSet \/ RunSerial \/ RunRestart \/ ShellWrites \/ RunShell
           \/ AnswerDirect
  <2>1. /\ ~crashed /\ cur # None /\ cur' \in {cur, None} /\ jobs' = jobs
    BY <1>6 DEF RunGet, RunSet, RunSerial, RunRestart, ShellWrites, RunShell, AnswerDirect, WorkerRuns,
                GiveUp, Places, Known
  <2>2. Published' = Published /\ Increasing(publish_list')
    <3>1. CASE publish_list' = publish_list
      BY <1>2, <3>1 DEF Published, InLine
    <3>2. CASE OpenSerial
      <4>1. publish_list \in Seq(Ids \cup {Foreign}) /\ Once(publish_list)
        BY <2>1, OnePlaceHolds DEF Places, TypeOK, OnePlace
      <4>2. Published' = Published
        BY <3>2, <4>1, SerialOpened
      <4>3. publish_list' = publish_list \/ publish_list' = Append(publish_list, Foreign)
        BY <3>2 DEF OpenSerial
      <4>4. Increasing(publish_list')
        BY <1>2, <4>1, <4>3, RearIncreasing DEF InLine
      <4> QED BY <4>2, <4>4
    <3> QED BY <1>6, <3>1, <3>2 DEF RunGet, RunSet, RunSerial, RunRestart, ShellWrites, RunShell,
                                    AnswerDirect
  <2>3. \/ sent' = sent
        \/ /\ sent' = Append(sent, <<task[cur].flag, cur>>)
           /\ task[cur].flag # "mqtt"
    BY <1>6 DEF RunGet, RunSet, RunSerial, RunRestart, ShellWrites, RunShell, AnswerDirect, WorkerRuns,
                Answers, Unanswered
  <2> QED BY <1>1, <1>2, <2>1, <2>2, <2>3, OrderRun
<1>7. CASE Worker
  BY <1>1, <1>2, <1>6, <1>7, OrderTake, OrderAnswerMqtt DEF Worker
<1>8. CASE PublishOne
  BY <1>1, <1>2, <1>8, OrderPublish
<1> QED BY <1>1, <1>3, <1>4, <1>5, <1>7, <1>8 DEF Next, Publisher

\* On one channel the answers come in the order of the commands: the queue, the one
\* worker and the list to publish keep it, as long as main has published nothing
\* itself.
THEOREM AnswersComeInOrder == Spec => []AnswersInOrder
<1>1. Spec => []Order
  BY OrderInit, OrderNext, WhereTasksAre, WhoIsAnswered, PTL DEF Spec
<1>2. Order => AnswersInOrder
  BY DEF Order, AnswersInOrder
<1> QED BY <1>1, <1>2, PTL
=============================================================================
