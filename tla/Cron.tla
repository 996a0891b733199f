-------------------------------- MODULE Cron --------------------------------
(***************************************************************************)
(* The scheduler of cron/crontasks.c with its one kind of task,            *)
(* ntp_sync_time.  The cron thread goes through the tasks every second and *)
(* runs each one that is due in a thread of its own, for which it waits    *)
(* until the task's timeout, cancels it if it is not through, and joins it.*)
(* The task asks a primary and perhaps a second NTP server and sets the    *)
(* clock that the cron thread measures the timeout with.                   *)
(*                                                                         *)
(* Cancellation is deferred: it takes effect in a system call.  Of the     *)
(* operations of crontasks.c, unregistering a task is not modelled.        *)
(***************************************************************************)
EXTENDS Integers

CONSTANTS
  NumTasks,   \* the tasks registered; the gateway registers one
  Period,     \* a task is due whenever the clock is a multiple of Period
  Timeout,    \* seconds a task may take
  MaxTime,    \* the clock goes up to here, and timeouts expire when it is there
  ClockSteps  \* the NTP servers may give another time than the clock's

ASSUME CronAssumption ==
  /\ NumTasks \in Nat
  /\ Period \in Nat \ {0}
  /\ Timeout \in Nat
  /\ MaxTime \in Nat
  /\ ClockSteps \in BOOLEAN

Tasks == 1 .. NumTasks
Never == -1

VARIABLES
  now,          \* CLOCK_REALTIME
  nextTrigger,  \* of each task
  cl_Pid,       \* of each task: "waiting", "armed" or "none", which is: running
  cpc,          \* where the cron thread is
  ptr,          \* sa_ptr_global: the task it looks at; past the last one, NumTasks + 1
  deadline,     \* ts of pthread_cond_timedwait
  cancelled,    \* pthread_cancel was called for the job thread
  jpc,          \* where the job thread is in run_job and ntp_sync_time
  completed,    \* isFunctionCompleted
  ntpTimeSync,  \* the flag of ntpclient.c
  tried,        \* history: the trigger time each task was last started for
  served,       \* history: the trigger time each task was last finished for
  asked,        \* history: what the servers asked by this run said
  unborn        \* history: the tasks whose thread could not be created

vars == <<now, nextTrigger, cl_Pid, cpc, ptr, deadline, cancelled, jpc, completed,
          ntpTimeSync, tried, served, asked, unborn>>
task == <<nextTrigger, cl_Pid>>
crond == <<cpc, ptr, deadline, cancelled>>

\* cron_next of ccronexpr: the first trigger time after t.
CronNext(t) == (t \div Period + 1) * Period

Init ==
  /\ now = 0
  /\ nextTrigger = [t \in Tasks |-> CronNext(0)]
  /\ cl_Pid = [t \in Tasks |-> "waiting"]
  /\ cpc = "sleep" /\ ptr = 1
  /\ deadline = 0 /\ cancelled = FALSE
  /\ jpc = "none" /\ completed = FALSE
  /\ ntpTimeSync = FALSE
  /\ tried = [t \in Tasks |-> Never]
  /\ served = [t \in Tasks |-> Never]
  /\ asked = {} /\ unborn = {}

-----------------------------------------------------------------------------
Tick ==
  /\ now < MaxTime
  /\ now' = now + 1
  /\ UNCHANGED <<task, crond, jpc, completed, ntpTimeSync, tried, served, asked, unborn>>

\* crond: one second has passed (on another clock), arm_jobs begins.
WakeUp ==
  /\ cpc = "sleep"
  /\ cpc' = "scan"
  /\ ptr' = 1
  /\ UNCHANGED <<now, task, deadline, cancelled, jpc, completed, ntpTimeSync, tried,
                 served, asked, unborn>>

EndScan ==
  /\ cpc = "scan"
  /\ ptr > NumTasks
  /\ cpc' = "sleep"
  /\ UNCHANGED <<now, task, ptr, deadline, cancelled, jpc, completed, ntpTimeSync, tried,
                 served, asked, unborn>>

Due(t) == nextTrigger[t] <= now /\ cl_Pid[t] # "armed"

Skip ==
  /\ cpc = "scan"
  /\ ptr \in Tasks
  /\ ~Due(ptr)
  /\ ptr' = ptr + 1
  /\ UNCHANGED <<now, task, cpc, deadline, cancelled, jpc, completed, ntpTimeSync, tried,
                 served, asked, unborn>>

\* Mistake: isFunctionCompleted keeps what the previous job left.
ArmNoReset ==
  /\ cpc = "scan"
  /\ ptr \in Tasks
  /\ Due(ptr)
  /\ cl_Pid' = [cl_Pid EXCEPT ![ptr] = "armed"]
  /\ cancelled' = FALSE
  /\ jpc' = "begin"
  /\ cpc' = "wait"
  /\ tried' = [tried EXCEPT ![ptr] = nextTrigger[ptr]]
  /\ asked' = {}
  /\ UNCHANGED <<now, nextTrigger, ptr, deadline, completed, ntpTimeSync, served, unborn>>

Arm ==
  /\ cpc = "scan"
  /\ ptr \in Tasks
  /\ Due(ptr)
  /\ cl_Pid' = [cl_Pid EXCEPT ![ptr] = "armed"]
  /\ completed' = FALSE
  /\ cancelled' = FALSE
  /\ jpc' = "begin"
  /\ cpc' = "wait"
  /\ tried' = [tried EXCEPT ![ptr] = nextTrigger[ptr]]
  /\ asked' = {}
  /\ UNCHANGED <<now, nextTrigger, ptr, deadline, ntpTimeSync, served, unborn>>

\* pthread_create fails, with a positive number, and arm_jobs looks for a negative one: it
\* goes on as if there were a thread, and nobody disarms the task.
ArmFails ==
  /\ cpc = "scan"
  /\ ptr \in Tasks
  /\ Due(ptr)
  /\ cl_Pid' = [cl_Pid EXCEPT ![ptr] = "armed"]
  /\ completed' = FALSE
  /\ cancelled' = FALSE
  /\ cpc' = "wait"
  /\ asked' = {}
  /\ unborn' = unborn \cup {ptr}
  /\ UNCHANGED <<now, nextTrigger, ptr, deadline, jpc, ntpTimeSync, tried, served>>

\* Wait for the job unless it is through already.
Wait ==
  /\ cpc = "wait"
  /\ IF completed
     THEN cpc' = "check" /\ UNCHANGED deadline
     ELSE cpc' = "timedwait" /\ deadline' = now + Timeout
  /\ UNCHANGED <<now, task, ptr, cancelled, jpc, completed, ntpTimeSync, tried, served,
                 asked, unborn>>

\* pthread_cond_timedwait ends by the signal, at the deadline, or for no reason, and
\* is not tried again.
EndWait ==
  /\ cpc = "timedwait"
  /\ cpc' = "check"
  /\ UNCHANGED <<now, task, ptr, deadline, cancelled, jpc, completed, ntpTimeSync, tried,
                 served, asked, unborn>>

MustEndWait ==
  /\ completed \/ now >= deadline \/ now = MaxTime
  /\ EndWait

\* Mistake: a job that is not through is not cancelled.
CheckNoCancel ==
  /\ cpc = "check"
  /\ cancelled' = FALSE
  /\ cpc' = "join"
  /\ UNCHANGED <<now, task, ptr, deadline, jpc, completed, ntpTimeSync, tried, served, asked, unborn>>

Check ==
  /\ cpc = "check"
  /\ cancelled' = ~completed
  /\ cpc' = "join"
  /\ UNCHANGED <<now, task, ptr, deadline, jpc, completed, ntpTimeSync, tried, served, asked, unborn>>

\* Mistake: a job that was cancelled is not waited for.
JoinCompleted ==
  /\ cpc = "join"
  /\ jpc = "ended" \/ cancelled
  /\ jpc' = IF cancelled THEN jpc ELSE "none"
  /\ cpc' = "scan"
  /\ ptr' = ptr + 1
  /\ UNCHANGED <<now, task, deadline, cancelled, completed, ntpTimeSync, tried, served, asked, unborn>>

\* pthread_join, and on to the next task.
Join ==
  /\ cpc = "join"
  /\ jpc = "ended"
  /\ jpc' = "none"
  /\ cpc' = "scan"
  /\ ptr' = ptr + 1
  /\ UNCHANGED <<now, task, deadline, cancelled, completed, ntpTimeSync, tried, served, asked, unborn>>

\* pthread_cancel and pthread_join of a thread that was not created, through an
\* uninitialized variable: they return an error; or the process ends, or the cron thread
\* waits for some other thread.
JoinNobody ==
  /\ cpc = "join"
  /\ jpc = "none"
  /\ cpc' \in {"scan", "lost"}
  /\ ptr' = ptr + 1
  /\ UNCHANGED <<now, task, deadline, cancelled, jpc, completed, ntpTimeSync, tried, served,
                 asked, unborn>>

-----------------------------------------------------------------------------
\* Mistake: the task stays armed while its callback runs.
BeginArmed ==
  /\ jpc = "begin"
  /\ jpc' = "primary"
  /\ UNCHANGED <<now, task, crond, completed, ntpTimeSync, tried, served, asked, unborn>>

\* run_job.
Begin ==
  /\ jpc = "begin"
  /\ cl_Pid' = [cl_Pid EXCEPT ![ptr] = "none"]
  /\ jpc' = "primary"
  /\ UNCHANGED <<now, nextTrigger, crond, completed, ntpTimeSync, tried, served, asked, unborn>>

\* ntp_sync_time without a time zone file: no server is asked.
NoZoneFile ==
  /\ jpc = "primary"
  /\ jpc' = "update"
  /\ UNCHANGED <<now, task, crond, completed, ntpTimeSync, tried, served, asked, unborn>>

\* ntp_operate: the server answers, and set_time sets the clock and the flag or is
\* not allowed to; or it does not answer, and the flag stays what it was.
Answers(server) ==
  /\ now' \in IF ClockSteps THEN 0 .. MaxTime ELSE {now}
  /\ ntpTimeSync' = TRUE
  /\ asked' = asked \cup {<<server, "answered">>}

Refused(server) ==
  /\ UNCHANGED now
  /\ ntpTimeSync' = FALSE
  /\ asked' = asked \cup {<<server, "refused">>}

Silent(server) ==
  /\ UNCHANGED <<now, ntpTimeSync>>
  /\ asked' = asked \cup {<<server, "silent">>}

Ask(server) == Answers(server) \/ Refused(server) \/ Silent(server)

Primary ==
  /\ jpc = "primary"
  /\ Ask("primary")
  /\ jpc' = IF ntpTimeSync' THEN "update" ELSE "second"
  /\ UNCHANGED <<task, crond, completed, tried, served, unborn>>

Second ==
  /\ jpc = "second"
  /\ Ask("second")
  /\ jpc' = "update"
  /\ UNCHANGED <<task, crond, completed, tried, served, unborn>>

\* Mistake: the next trigger time is not updated after the callback.
UpdateForgets ==
  /\ jpc = "update"
  /\ cl_Pid' = [cl_Pid EXCEPT ![ptr] = "waiting"]
  /\ served' = [served EXCEPT ![ptr] = IF tried[ptr] <= now THEN tried[ptr] ELSE Never]
  /\ jpc' = "complete"
  /\ UNCHANGED <<now, nextTrigger, crond, completed, ntpTimeSync, tried, asked, unborn>>

\* The callback has returned: prev_stamp, updateNextTrigger.  (A clock that was set
\* back before the trigger time makes it a time to come again.)
Update ==
  /\ jpc = "update"
  /\ nextTrigger' = [nextTrigger EXCEPT ![ptr] = CronNext(now)]
  /\ cl_Pid' = [cl_Pid EXCEPT ![ptr] = "waiting"]
  /\ served' = [served EXCEPT ![ptr] = IF tried[ptr] <= now THEN tried[ptr] ELSE Never]
  /\ jpc' = "complete"
  /\ UNCHANGED <<now, crond, completed, ntpTimeSync, tried, asked, unborn>>

\* The callback is in a system call: of the files, of the network, or of the log
\* it writes before it returns.
Cancel ==
  /\ cancelled
  /\ jpc \in {"primary", "second", "update"}
  /\ jpc' = "ended"
  /\ UNCHANGED <<now, task, crond, completed, ntpTimeSync, tried, served, asked, unborn>>

\* The end of run_job: isFunctionCompleted is set under the mutex.
Complete ==
  /\ jpc = "complete"
  /\ completed' = TRUE
  /\ jpc' = "ended"
  /\ UNCHANGED <<now, task, crond, ntpTimeSync, tried, served, asked, unborn>>

-----------------------------------------------------------------------------
CronThread == \/ WakeUp \/ EndScan \/ Skip \/ Arm \/ ArmFails
              \/ Wait \/ EndWait \/ Check \/ Join \/ JoinNobody
JobThread == Begin \/ NoZoneFile \/ Primary \/ Second \/ Update \/ Cancel \/ Complete

\* The process has ended, or the cron thread waits for ever.
Gone == cpc = "lost" /\ UNCHANGED vars

Next == Tick \/ CronThread \/ JobThread \/ Gone

Spec == Init /\ [][Next]_vars

\* Time goes on, the cron thread and what the job thread does by itself are
\* scheduled, and a cancelled job is in a system call at some time; a server need
\* not answer, and the callback may take for ever.
FairSpec ==
  /\ Spec
  /\ WF_vars(Tick)
  /\ WF_vars(WakeUp \/ EndScan \/ Skip \/ Arm \/ ArmFails \/ Wait \/ MustEndWait \/ Check \/ Join
             \/ JoinNobody)
  /\ WF_vars(Begin \/ Update \/ Complete)
  /\ WF_vars(Cancel)

-----------------------------------------------------------------------------
\* The type of every variable; isFunctionCompleted never is another job's.
TypeOK ==
  /\ now \in 0 .. MaxTime
  /\ nextTrigger \in [Tasks -> Nat]
  /\ cl_Pid \in [Tasks -> {"waiting", "armed", "none"}]
  /\ cpc \in {"sleep", "scan", "wait", "timedwait", "check", "join", "lost"}
  /\ ptr \in 1 .. NumTasks + 1
  /\ deadline \in Nat
  /\ cancelled \in BOOLEAN
  /\ jpc \in {"none", "begin", "primary", "second", "update", "complete", "ended"}
  /\ completed \in BOOLEAN
  /\ completed => jpc \in {"none", "ended"}
  /\ ntpTimeSync \in BOOLEAN
  /\ tried \in [Tasks -> Nat \cup {Never}]
  /\ served \in [Tasks -> Nat \cup {Never}]
  /\ unborn \subseteq Tasks
  /\ asked \subseteq {"primary", "second"} \X {"answered", "refused", "silent"}

\* The job threads share tasks_mutex, cond and isFunctionCompleted, which arm_jobs
\* makes anew for each: a job thread never meets the ones of the next job.
SoloJob == cpc \in {"sleep", "scan"} => jpc = "none"

\* A task that is left armed never runs again.  However its job thread ended, by itself or
\* cancelled in any system call, a task is not armed when the cron thread looks at it the
\* next time; it is only if there was no job thread, because pthread_create failed, and
\* such a task is lost.
NeverLeftArmed ==
  cpc \in {"sleep", "scan"} => \A t \in Tasks : cl_Pid[t] = "armed" => t \in unborn

\* A task that was finished for a trigger time is not started for it again, also
\* when the clock has been set meanwhile.
OncePerTrigger ==
  [][\A t \in Tasks : cl_Pid[t] # "armed" /\ cl_Pid'[t] = "armed" =>
       nextTrigger[t] # served[t]]_vars

\* A task that is due is started before long, although another one hangs or could not be
\* started, unless the clock is set back, or its own thread cannot be created, or the cron
\* thread is lost in the joining of a thread that was not.
DueRuns ==
  \A t \in Tasks :
    (nextTrigger[t] <= now) ~> (\/ tried[t] = nextTrigger[t] \/ nextTrigger[t] > now
                                \/ t \in unborn \/ cpc = "lost")

\* "Synchronize once every hour, the timeout is 5 s.  A task that times out is
\* cancelled, and execution goes on with the next one" (main.c:230): there is no
\* second attempt for the same hour.
OncePerHour ==
  [][\A t \in Tasks : cl_Pid[t] # "armed" /\ cl_Pid'[t] = "armed" =>
       nextTrigger[t] # tried[t]]_vars

\* "If synchronizing with the primary server's address fails, call the second
\* server's" (开发记录.md:147).
SecondAsked ==
  (jpc = "update" /\ <<"primary", "silent">> \in asked) =>
    \E a \in asked : a[1] = "second"
=============================================================================
