------------------------------- MODULE Thpool -------------------------------
(***************************************************************************)
(* The thread pool of third_lib/thpool/thpool.c, step by step: a queue of  *)
(* jobs under rwmutex, a binary semaphore has_jobs that idle workers sleep *)
(* on, the counters num_threads_alive and num_threads_working under        *)
(* thcount_lock, and the condition threads_all_idle that thpool_wait       *)
(* sleeps on.  One action is one critical section, or the part of it up to *)
(* the next lock it takes.                                                 *)
(* A call on a pool that was freed, or on the way out of it, is undefined  *)
(* and takes no step here.                                                 *)
(***************************************************************************)
EXTENDS Naturals, Sequences, SequencesExt, FiniteSets

CONSTANTS
  Workers,   \* the threads thpool_init asks for
  Created,   \* those of them malloc and pthread_create deliver
  Clients,   \* the threads that call the pool
  Owner,     \* the client that creates and destroys it
  Waiters,   \* the clients that call thpool_wait
  Jobs,      \* the jobs they add, each a fresh allocation
  NoJob      \* NULL

ASSUME PoolAssumption ==
  /\ IsFiniteSet(Workers)
  /\ Workers # {}
  /\ Created \subseteq Workers
  /\ Owner \in Clients
  /\ Waiters \subseteq Clients
  /\ NoJob \notin Jobs

VARIABLES
  wpc,        \* where each worker is in thread_do
  cpc,        \* where each client is in the pool's interface
  cur,        \* job_p of each worker
  queue,      \* the linked list from front to rear; len is its length
  v,          \* has_jobs->v
  alive,      \* num_threads_alive
  working,    \* num_threads_working
  keepalive,  \* threads_keepalive
  freed,      \* thpool_destroy has freed the pool
  done,       \* history: the jobs whose function returned
  owed        \* history: the jobs added when a client began its last wait

vars == <<wpc, cpc, cur, queue, v, alive, working, keepalive, freed, done, owed>>
poolVars == <<alive, working, keepalive, freed>>
history == <<done, owed>>

WorkerPcs == {"none", "start", "loop", "bsem", "asleep", "check", "count", "pull",
              "repost", "run", "finish", "exit", "unlock", "dead"}
ClientPcs == {"init", "idle", "post", "wait", "blocked", "destroy"}

\* A worker counted by num_threads_working is between the two updates of it.
Busy == {"pull", "repost", "run", "finish"}
\* A worker that has taken the semaphore and has not looked at the queue yet.
Coming == {"check", "count", "pull"}
\* A worker counted by num_threads_alive, and one that is not asleep either.
Alive == {"loop", "bsem", "asleep", "exit"} \cup Coming \cup Busy
Awake == Alive \ {"asleep", "exit"}

Added == ToSet(queue) \cup {cur[w] : w \in {x \in Workers : cur[x] # NoJob}} \cup done

-----------------------------------------------------------------------------
\* The two mutexes that a thread can hold from one action to the next: rwmutex
\* is kept across bsem_post, and thcount_lock while a dying worker unlocks it.
RwmutexFree ==
  /\ \A c \in Clients : cpc[c] # "post"
  /\ \A w \in Workers : wpc[w] # "repost"

ThcountFree == \A w \in Workers : wpc[w] # "unlock"

\* pthread_cond_signal on a condition that the threads of f at pc "from" sleep on.
Signal(f, from, to) ==
  IF \A t \in DOMAIN f : f[t] # from
  THEN {f}
  ELSE {[f EXCEPT ![t] = to] : t \in {u \in DOMAIN f : f[u] = from}}

\* Mistake: has_jobs counts its posts.
BsemPostCounts(f) ==
  /\ v' = v + 1
  /\ wpc' \in Signal(f, "asleep", "bsem")

\* Mistake: the flag is set and nobody is signalled.
BsemPostLost(f) ==
  /\ v' = 1
  /\ wpc' = f

\* bsem_post by a thread that leaves the workers' program counters at f.
BsemPost(f) ==
  /\ v' = 1
  /\ wpc' \in Signal(f, "asleep", "bsem")

\* Mistake: everybody is woken and finds the semaphore down.
BsemPostAllUnset ==
  /\ v' = v
  /\ wpc' = [w \in Workers |-> IF wpc[w] = "asleep" THEN "bsem" ELSE wpc[w]]

BsemPostAll ==
  /\ v' = 1
  /\ wpc' = [w \in Workers |-> IF wpc[w] = "asleep" THEN "bsem" ELSE wpc[w]]

-----------------------------------------------------------------------------
Init ==
  /\ wpc = [w \in Workers |-> IF w \in Created THEN "start" ELSE "none"]
  /\ cpc = [c \in Clients |-> IF c = Owner THEN "init" ELSE "idle"]
  /\ cur = [w \in Workers |-> NoJob]
  /\ queue = <<>>
  /\ v = 0
  /\ alive = 0
  /\ working = 0
  /\ keepalive = TRUE
  /\ freed = FALSE
  /\ done = {}
  /\ owed = [c \in Clients |-> {}]

\* thpool_init returned a pool that is not destroyed yet.
Usable == cpc[Owner] # "init" /\ ~freed

\* thpool_init spins until every worker has counted itself.
InitReturns ==
  /\ cpc[Owner] = "init"
  /\ alive = Cardinality(Workers)
  /\ cpc' = [cpc EXCEPT ![Owner] = "idle"]
  /\ UNCHANGED <<wpc, cur, queue, v, poolVars, history>>

-----------------------------------------------------------------------------
\* thpool_add_work: jobqueue_push appends under rwmutex ...
AddWork(c, j) ==
  /\ Usable
  /\ cpc[c] = "idle"
  /\ RwmutexFree
  /\ j \notin Added
  /\ queue' = Append(queue, j)
  /\ cpc' = [cpc EXCEPT ![c] = "post"]
  /\ UNCHANGED <<wpc, cur, v, poolVars, history>>

\* ... and posts has_jobs before it unlocks it.
PushPost(c) ==
  /\ cpc[c] = "post"
  /\ BsemPost(wpc)
  /\ cpc' = [cpc EXCEPT ![c] = "idle"]
  /\ UNCHANGED <<cur, queue, poolVars, history>>

StartWait(c) ==
  /\ Usable
  /\ c \in Waiters
  /\ cpc[c] = "idle"
  /\ cpc' = [cpc EXCEPT ![c] = "wait"]
  /\ owed' = [owed EXCEPT ![c] = Added]
  /\ UNCHANGED <<wpc, cur, queue, v, poolVars, done>>

\* Mistake: a job that was pulled and still runs is forgotten.
AllIdleQueueOnly == queue = <<>>

\* The test of thpool_wait's loop: no other thread changes num_threads_working
\* between the two reads, since the lock is held.
AllIdle == queue = <<>> /\ working = 0

WaitTest(c) ==
  /\ cpc[c] = "wait"
  /\ ~freed
  /\ ThcountFree
  /\ cpc' = [cpc EXCEPT ![c] = IF AllIdle THEN "idle" ELSE "blocked"]
  /\ UNCHANGED <<wpc, cur, queue, v, poolVars, history>>

-----------------------------------------------------------------------------
\* thpool_destroy: the two polling loops do the same, post to everybody until
\* nobody is alive.
StartDestroy ==
  /\ Usable
  /\ cpc[Owner] = "idle"
  /\ keepalive' = FALSE
  /\ cpc' = [cpc EXCEPT ![Owner] = "destroy"]
  /\ UNCHANGED <<wpc, cur, queue, v, alive, working, freed, history>>

DestroyPoll ==
  /\ cpc[Owner] = "destroy"
  /\ ~freed
  /\ alive # 0
  /\ BsemPostAll
  /\ UNCHANGED <<cpc, cur, queue, poolVars, history>>

\* Mistake: the pool is freed when the queue is empty.
DestroyFreeEarly ==
  /\ cpc[Owner] = "destroy"
  /\ ~freed
  /\ queue = <<>>
  /\ RwmutexFree
  /\ v' = 0
  /\ freed' = TRUE
  /\ UNCHANGED <<wpc, cpc, cur, queue, alive, working, keepalive, history>>

\* jobqueue_clear pulls what is left, so it needs rwmutex; then everything is freed.
DestroyFree ==
  /\ cpc[Owner] = "destroy"
  /\ ~freed
  /\ alive = 0
  /\ RwmutexFree
  /\ queue' = <<>>
  /\ v' = 0
  /\ freed' = TRUE
  /\ UNCHANGED <<wpc, cpc, cur, alive, working, keepalive, history>>

-----------------------------------------------------------------------------
\* The worker, thread_do.
Started(w) ==
  /\ wpc[w] = "start"
  /\ ThcountFree
  /\ alive' = alive + 1
  /\ wpc' = [wpc EXCEPT ![w] = "loop"]
  /\ UNCHANGED <<cpc, cur, queue, v, working, keepalive, freed, history>>

LoopTest(w) ==
  /\ wpc[w] = "loop"
  /\ wpc' = [wpc EXCEPT ![w] = IF keepalive THEN "bsem" ELSE "exit"]
  /\ UNCHANGED <<cpc, cur, queue, v, poolVars, history>>

\* One iteration of bsem_wait: take the semaphore, or sleep until it is posted.
BsemWait(w) ==
  /\ wpc[w] = "bsem"
  /\ IF v = 1
     THEN v' = 0 /\ wpc' = [wpc EXCEPT ![w] = "check"]
     ELSE v' = v /\ wpc' = [wpc EXCEPT ![w] = "asleep"]
  /\ UNCHANGED <<cpc, cur, queue, poolVars, history>>

AliveTest(w) ==
  /\ wpc[w] = "check"
  /\ wpc' = [wpc EXCEPT ![w] = IF keepalive THEN "count" ELSE "loop"]
  /\ UNCHANGED <<cpc, cur, queue, v, poolVars, history>>

CountIn(w) ==
  /\ wpc[w] = "count"
  /\ ThcountFree
  /\ working' = working + 1
  /\ wpc' = [wpc EXCEPT ![w] = "pull"]
  /\ UNCHANGED <<cpc, cur, queue, v, alive, keepalive, freed, history>>

\* Mistake: the jobs that stay in the queue are not announced.
PullNoRepost(w) ==
  /\ wpc[w] = "pull"
  /\ RwmutexFree
  /\ IF queue = <<>>
     THEN /\ wpc' = [wpc EXCEPT ![w] = "finish"]
          /\ UNCHANGED <<queue, cur>>
     ELSE /\ queue' = Tail(queue)
          /\ cur' = [cur EXCEPT ![w] = Head(queue)]
          /\ wpc' = [wpc EXCEPT ![w] = "run"]
  /\ UNCHANGED <<cpc, v, poolVars, history>>

\* Mistake: front is left on the job that was taken.
PullKeepsFront(w) ==
  /\ wpc[w] = "pull"
  /\ RwmutexFree
  /\ IF queue = <<>>
     THEN /\ wpc' = [wpc EXCEPT ![w] = "finish"]
          /\ UNCHANGED <<queue, cur>>
     ELSE /\ queue' = SubSeq(queue, 1, Len(queue) - 1)
          /\ cur' = [cur EXCEPT ![w] = Head(queue)]
          /\ wpc' = [wpc EXCEPT ![w] = IF Len(queue) = 1 THEN "run" ELSE "repost"]
  /\ UNCHANGED <<cpc, v, poolVars, history>>

\* jobqueue_pull: nothing, the last job, or the first of several, which is the
\* case that posts again, for the others, before it unlocks rwmutex.
Pull(w) ==
  /\ wpc[w] = "pull"
  /\ RwmutexFree
  /\ IF queue = <<>>
     THEN /\ wpc' = [wpc EXCEPT ![w] = "finish"]
          /\ UNCHANGED <<queue, cur>>
     ELSE /\ queue' = Tail(queue)
          /\ cur' = [cur EXCEPT ![w] = Head(queue)]
          /\ wpc' = [wpc EXCEPT ![w] = IF Len(queue) = 1 THEN "run" ELSE "repost"]
  /\ UNCHANGED <<cpc, v, poolVars, history>>

PullRepost(w) ==
  /\ wpc[w] = "repost"
  /\ BsemPost([wpc EXCEPT ![w] = "run"])
  /\ UNCHANGED <<cpc, cur, queue, poolVars, history>>

\* The job's function returns; the job node is freed.
RunJob(w) ==
  /\ wpc[w] = "run"
  /\ done' = done \cup {cur[w]}
  /\ cur' = [cur EXCEPT ![w] = NoJob]
  /\ wpc' = [wpc EXCEPT ![w] = "finish"]
  /\ UNCHANGED <<cpc, queue, v, poolVars, owed>>

\* Mistake: threads_all_idle is not signalled after the last job.
CountOutSilent(w) ==
  /\ wpc[w] = "finish"
  /\ ThcountFree
  /\ working' = working - 1
  /\ cpc' \in IF working = 1 /\ queue # <<>> THEN Signal(cpc, "blocked", "wait") ELSE {cpc}
  /\ wpc' = [wpc EXCEPT ![w] = "loop"]
  /\ UNCHANGED <<cur, queue, v, alive, keepalive, freed, history>>

CountOut(w) ==
  /\ wpc[w] = "finish"
  /\ ThcountFree
  /\ working' = working - 1
  /\ cpc' \in IF working = 1 THEN Signal(cpc, "blocked", "wait") ELSE {cpc}
  /\ wpc' = [wpc EXCEPT ![w] = "loop"]
  /\ UNCHANGED <<cur, queue, v, alive, keepalive, freed, history>>

\* After its last look at threads_keepalive a worker stops counting as alive
\* and only then unlocks thcount_lock, a field of the pool.
CountDead(w) ==
  /\ wpc[w] = "exit"
  /\ ThcountFree
  /\ alive' = alive - 1
  /\ wpc' = [wpc EXCEPT ![w] = "unlock"]
  /\ UNCHANGED <<cpc, cur, queue, v, working, keepalive, freed, history>>

UnlockDead(w) ==
  /\ wpc[w] = "unlock"
  /\ wpc' = [wpc EXCEPT ![w] = "dead"]
  /\ UNCHANGED <<cpc, cur, queue, v, poolVars, history>>

\* pthread_cond_wait may return without a signal; both loops then test again.
SpuriousWakeup ==
  /\ \/ \E w \in Workers :
          /\ wpc[w] = "asleep"
          /\ wpc' = [wpc EXCEPT ![w] = "bsem"]
          /\ UNCHANGED cpc
     \/ \E c \in Clients :
          /\ cpc[c] = "blocked"
          /\ ~freed
          /\ cpc' = [cpc EXCEPT ![c] = "wait"]
          /\ UNCHANGED wpc
  /\ UNCHANGED <<cur, queue, v, poolVars, history>>

-----------------------------------------------------------------------------
WorkerStep(w) ==
  \/ Started(w) \/ LoopTest(w) \/ BsemWait(w) \/ AliveTest(w) \/ CountIn(w)
  \/ Pull(w) \/ PullRepost(w) \/ RunJob(w) \/ CountOut(w)
  \/ CountDead(w) \/ UnlockDead(w)

\* The steps a client takes once it is inside a call of the pool.
ClientStep(c) == PushPost(c) \/ WaitTest(c)
OwnerStep == InitReturns \/ DestroyPoll \/ DestroyFree

\* The pool was freed and every worker has gone.
Gone ==
  /\ freed
  /\ \A w \in Workers : wpc[w] \in {"dead", "none"}
  /\ UNCHANGED vars

Next ==
  \/ \E w \in Workers : WorkerStep(w)
  \/ \E c \in Clients : ClientStep(c)
  \/ \E c \in Clients, j \in Jobs : AddWork(c, j)
  \/ \E c \in Clients : StartWait(c)
  \/ StartDestroy
  \/ OwnerStep
  \/ SpuriousWakeup
  \/ Gone

Spec == Init /\ [][Next]_vars

\* The scheduler runs every thread that can run, and a job's function returns;
\* nobody has to add a job, wait or destroy the pool.
FairSpec ==
  /\ Spec
  /\ \A w \in Workers : WF_vars(WorkerStep(w))
  /\ \A c \in Clients : WF_vars(ClientStep(c))
  /\ WF_vars(OwnerStep)

-----------------------------------------------------------------------------
\* The type of every variable of the pool.
TypeOK ==
  /\ wpc \in [Workers -> WorkerPcs]
  /\ cpc \in [Clients -> ClientPcs]
  /\ cur \in [Workers -> Jobs \cup {NoJob}]
  /\ queue \in Seq(Jobs)
  /\ v \in {0, 1}
  /\ alive \in Nat
  /\ working \in Nat
  /\ keepalive \in BOOLEAN
  /\ freed \in BOOLEAN
  /\ done \in SUBSET Jobs
  /\ owed \in [Clients -> SUBSET Jobs]

\* A queued job is never stranded.  While the pool runs and nobody holds
\* rwmutex, a non-empty queue means that the semaphore is up and some worker is
\* awake to take it, or that a worker that has taken it is on its way to the
\* queue: the lock jobqueue_push and jobqueue_pull keep across bsem_post, and
\* the second post in jobqueue_pull, are there for this.
NoStrandedJob ==
  (keepalive /\ cpc[Owner] # "init" /\ queue # <<>> /\ RwmutexFree) =>
    \/ \E w \in Workers : wpc[w] \in Coming
    \/ v = 1 /\ \E w \in Workers : wpc[w] \in Awake

\* thpool_wait keeps its promise: a client that is not inside it any more has
\* seen every job that had been added when it called finish ("Will wait for all
\* jobs - both queued and currently running to finish", thpool.h:73).
WaitMeansDone ==
  \A c \in Clients : cpc[c] \notin {"wait", "blocked"} => owed[c] \subseteq done

\* The inductive invariant behind the two above.  The counters count, a worker
\* has a job exactly while it runs it, nobody leaves while the pool is kept alive,
\* a semaphore that is up was not slept through, and what a client waits for is
\* still in the pool.
In(f, S) == {x \in DOMAIN f : f[x] \in S}

Counts ==
  /\ alive = Cardinality(In(wpc, Alive))
  /\ working = Cardinality(In(wpc, Busy))

JobWhileRunning == \A w \in Workers : cur[w] # NoJob <=> wpc[w] \in {"repost", "run"}

AllServe ==
  keepalive => \A w \in Workers : /\ wpc[w] \notin {"exit", "unlock", "dead"}
                                  /\ cpc[Owner] # "init" => wpc[w] \in Alive

SemaphoreHeard == v = 1 => \E w \in Workers : wpc[w] # "asleep"

QueueAnnounced ==
  (keepalive /\ queue # <<>> /\ RwmutexFree) =>
    v = 1 \/ \E w \in Workers : wpc[w] \in Coming

OwedKept ==
  \A c \in Clients : owed[c] \subseteq
    IF cpc[c] \in {"wait", "blocked"} /\ ~freed THEN Added
    ELSE IF cpc[c] \in {"wait", "blocked"} THEN Jobs
    ELSE done

IInv ==
  /\ TypeOK
  /\ Counts
  /\ JobWhileRunning
  /\ AllServe
  /\ SemaphoreHeard
  /\ QueueAnnounced
  /\ OwedKept

\* A job is in one place only: it is never run by two workers, and one that has
\* been pulled or has finished is not in the queue again.
RunOnce ==
  /\ IsInjective(queue)
  /\ ToSet(queue) \cap done = {}
  /\ \A w \in Workers : cur[w] # NoJob =>
       /\ cur[w] \notin ToSet(queue) \cup done
       /\ \A x \in Workers \ {w} : cur[x] # cur[w]

\* The pool implements JobPool, safety and liveness.
Promise == INSTANCE JobPool WITH
  pending <- queue,
  running <- {cur[w] : w \in {x \in Workers : cur[x] # NoJob}},
  waiting <- {c \in Waiters : cpc[c] \in {"wait", "blocked"}},
  owed    <- [c \in Waiters |-> owed[c]]

KeepsPromise == Promise!FairSpec

\* Every job that is added is run, unless the pool is destroyed first.
EveryJobRuns == \A j \in Jobs : (j \in ToSet(queue)) ~> (j \in done \/ ~keepalive)

\* thpool_destroy returns, whatever the workers were doing when it was called.
DestroyReturns == (cpc[Owner] = "destroy") ~> freed

\* The clients inside thpool_wait.
Inside == {c \in Waiters : cpc[c] \in {"wait", "blocked"}}

\* When the work is over, one of the clients that wait for it is released, whichever have
\* come to wait: the last worker signals threads_all_idle.  It signals once, so of two that
\* wait the other may wait for ever (TLC finds this), although "once the queue is empty
\* and all work has completed, the calling thread (probably the main program) will
\* continue" (thpool.h:74-75).
WaitEnds ==
  \A S \in SUBSET Waiters :
    (S # {} /\ Inside = S /\ ~AllIdle) ~> (Inside # S \/ ~keepalive)
=============================================================================
