---------------------------- MODULE ThpoolProofs ----------------------------
(***************************************************************************)
(* Proofs about Thpool for any number of workers, clients and jobs: the    *)
(* counters count, no queued job is stranded, a wait sees what it waits    *)
(* for finished, a job is run once.                                        *)
(***************************************************************************)
EXTENDS Thpool, Lemmas, FiniteSetTheorems, TLAPS

\* How many workers are at the program counters of S, after one worker moved.
LEMMA Moved ==
  ASSUME TypeOK, NEW w \in Workers, NEW p, wpc' = [wpc EXCEPT ![w] = p], NEW S
  PROVE  /\ p \in S /\ wpc[w] \notin S =>
              Cardinality(In(wpc', S)) = Cardinality(In(wpc, S)) + 1
         /\ p \notin S /\ wpc[w] \in S =>
              /\ Cardinality(In(wpc', S)) = Cardinality(In(wpc, S)) - 1
              /\ Cardinality(In(wpc, S)) # 0
         /\ (p \in S <=> wpc[w] \in S) => In(wpc', S) = In(wpc, S)
         /\ Cardinality(In(wpc, S)) \in Nat
<1> DEFINE before == In(wpc, S)
           after  == In(wpc', S)
<1>1. DOMAIN wpc = Workers /\ DOMAIN wpc' = Workers
  BY DEF TypeOK
<1>2. IsFiniteSet(before) /\ IsFiniteSet(after)
  <2>1. before \in SUBSET Workers /\ after \in SUBSET Workers
    BY <1>1 DEF In
  <2> QED BY <2>1, FS_Subset, PoolAssumption
<1>3. Cardinality(before) \in Nat
  BY <1>2, FS_CardinalityType
<1>4. ASSUME p \in S, wpc[w] \notin S
      PROVE  Cardinality(after) = Cardinality(before) + 1
  <2>1. after = before \cup {w} /\ w \notin before
    BY <1>1, <1>4 DEF In
  <2> QED BY <2>1, <1>2, FS_AddElement
<1>5. ASSUME p \notin S, wpc[w] \in S
      PROVE  Cardinality(after) = Cardinality(before) - 1 /\ Cardinality(before) # 0
  <2>1. after = before \ {w} /\ w \in before
    BY <1>1, <1>5 DEF In
  <2>2. Cardinality(before) # 0
    BY <2>1, <1>2, FS_EmptySet
  <2> QED BY <2>1, <2>2, <1>2, FS_RemoveElement
<1>6. ASSUME p \in S <=> wpc[w] \in S
      PROVE  after = before
  BY <1>1, <1>6 DEF In
<1> QED BY <1>3, <1>4, <1>5, <1>6

\* pthread_cond_signal(&has_jobs.cond): nobody sleeps after it if one did before
\* and was the only one, and the counters do not see it.
LEMMA Woken ==
  ASSUME NEW f \in [Workers -> WorkerPcs], NEW g \in Signal(f, "asleep", "bsem")
  PROVE  /\ g \in [Workers -> WorkerPcs]
         /\ \A t \in Workers : g[t] = f[t] \/ (f[t] = "asleep" /\ g[t] = "bsem")
         /\ \E t \in Workers : g[t] # "asleep"
         /\ In(g, Alive) = In(f, Alive)
         /\ In(g, Busy) = In(f, Busy)
<1>1. DOMAIN f = Workers /\ "bsem" \in WorkerPcs
  BY DEF WorkerPcs
<1>2. /\ DOMAIN g = Workers
      /\ \A t \in Workers : g[t] = f[t] \/ (f[t] = "asleep" /\ g[t] = "bsem")
      /\ (\E t \in Workers : f[t] = "asleep") =>
            (\E t \in Workers : f[t] = "asleep" /\ g[t] = "bsem")
  BY <1>1 DEF Signal
<1>3. g \in [Workers -> WorkerPcs]
  BY <1>1 DEF Signal
<1>4. \E t \in Workers : g[t] # "asleep"
  BY <1>2, PoolAssumption
<1>5. In(g, Alive) = In(f, Alive)
  BY <1>1, <1>2 DEF In, Alive, Busy, Coming
<1>6. In(g, Busy) = In(f, Busy)
  BY <1>1, <1>2 DEF In, Busy
<1> QED BY <1>2, <1>3, <1>4, <1>5, <1>6

\* The jobs of a queue that grows at its rear and shrinks at its front.
LEMMA QueueJobs ==
  ASSUME NEW q \in Seq(Jobs)
  PROVE  /\ ToSet(q) \subseteq Jobs
         /\ q = <<>> => ToSet(q) = {}
         /\ \A j \in Jobs : ToSet(Append(q, j)) = ToSet(q) \cup {j}
         /\ q # <<>> => /\ Head(q) \in Jobs
                        /\ Tail(q) \in Seq(Jobs)
                        /\ Len(Tail(q)) = Len(q) - 1
                        /\ ToSet(q) = {Head(q)} \cup ToSet(Tail(q))
<1>1. ToSet(q) \subseteq Jobs /\ ToSet(<<>>) = {}
  BY MemberSet
<1>2. \A j \in Jobs : ToSet(Append(q, j)) = ToSet(q) \cup {j}
  BY RearSet
<1> QED BY <1>1, <1>2, FrontSet

\* What a client may wait for are jobs, and nothing is left when all is idle.
LEMMA AddedFacts ==
  ASSUME IInv
  PROVE  /\ Added \subseteq Jobs
         /\ AllIdle => Added = done
<1>1. Added \subseteq Jobs
  BY QueueJobs DEF IInv, TypeOK, Added
<1>2. ASSUME AllIdle PROVE Added = done
  <2>1. In(wpc, Busy) \in SUBSET Workers /\ IsFiniteSet(In(wpc, Busy))
    <3>1. In(wpc, Busy) \in SUBSET Workers
      BY DEF IInv, TypeOK, In
    <3> QED BY <3>1, PoolAssumption, FS_Subset
  <2>2. In(wpc, Busy) = {}
    BY <1>2, <2>1, FS_EmptySet DEF AllIdle, IInv, Counts
  <2>3. \A w \in Workers : cur[w] = NoJob
    BY <2>2 DEF IInv, JobWhileRunning, In, Busy, TypeOK
  <2>4. ToSet(queue) = {}
    BY <1>2, QueueJobs DEF AllIdle, IInv, TypeOK
  <2> QED BY <2>3, <2>4 DEF Added
<1> QED BY <1>1, <1>2

\* The invariant holds of a pool thpool_init has just made.
LEMMA InitInv == Init => IInv
<1> SUFFICES ASSUME Init PROVE IInv
  OBVIOUS
<1> USE PoolAssumption DEF Init
<1>1. TypeOK
  <2>1. wpc \in [Workers -> WorkerPcs] /\ cpc \in [Clients -> ClientPcs]
    BY DEF WorkerPcs, ClientPcs
  <2>2. queue \in Seq(Jobs)
    OBVIOUS
  <2>3. owed \in [Clients -> SUBSET Jobs] /\ done \in SUBSET Jobs
    OBVIOUS
  <2>4. cur \in [Workers -> Jobs \cup {NoJob}]
    OBVIOUS
  <2> QED BY <2>1, <2>2, <2>3, <2>4 DEF TypeOK
<1>2. Counts
  <2>1. In(wpc, Alive) = {} /\ In(wpc, Busy) = {}
    BY DEF In, Alive, Busy, Coming
  <2> QED BY <2>1, FS_EmptySet DEF Counts
<1>3. JobWhileRunning
  BY DEF JobWhileRunning
<1>4. AllServe
  BY DEF AllServe
<1>5. SemaphoreHeard
  BY DEF SemaphoreHeard
<1>6. QueueAnnounced
  BY DEF QueueAnnounced
<1>7. OwedKept
  BY DEF OwedKept
<1> QED BY <1>1, <1>2, <1>3, <1>4, <1>5, <1>6, <1>7 DEF IInv

\* It is kept when thpool_init stops waiting for its workers and returns.
LEMMA InitReturnsInv ==
  ASSUME IInv, InitReturns
  PROVE  IInv'
<1> USE PoolAssumption DEF IInv, InitReturns
<1>1. TypeOK'
  BY DEF TypeOK, WorkerPcs, ClientPcs, poolVars, history
<1>2. Counts'
  BY DEF Counts, poolVars
<1>3. JobWhileRunning'
  BY DEF JobWhileRunning, TypeOK, poolVars, history
<1>4. AllServe'
  <2>1. In(wpc, Alive) \in SUBSET Workers
    BY DEF In, TypeOK
  <2>2. In(wpc, Alive) = Workers
    BY <2>1, FS_Subset DEF Counts
  <2>3. \A w \in Workers : wpc[w] \in Alive
    BY <2>2 DEF In
  <2> QED BY <2>3 DEF AllServe, poolVars
<1>5. SemaphoreHeard'
  BY DEF SemaphoreHeard, TypeOK, poolVars, history
<1>6. QueueAnnounced'
  BY DEF QueueAnnounced, RwmutexFree, Coming, TypeOK, poolVars, history
<1>7. OwedKept'
  BY DEF OwedKept, Added, TypeOK, poolVars, history
<1> QED BY <1>1, <1>2, <1>3, <1>4, <1>5, <1>6, <1>7 DEF IInv

\* It is kept when thpool_add_work puts a job into the queue, under its lock.
LEMMA AddWorkInv ==
  ASSUME IInv, NEW c \in Clients, NEW j \in Jobs, AddWork(c, j)
  PROVE  IInv'
<1> USE PoolAssumption DEF IInv, AddWork
<1>1. TypeOK'
  BY DEF TypeOK, WorkerPcs, ClientPcs, poolVars, history
<1>2. Counts'
  BY DEF Counts, poolVars
<1>3. JobWhileRunning'
  BY DEF JobWhileRunning, TypeOK, poolVars, history
<1>4. AllServe'
  BY DEF AllServe, TypeOK, poolVars, history, Alive, Busy, Coming
<1>5. SemaphoreHeard'
  BY DEF SemaphoreHeard, TypeOK, poolVars, history
<1>6. QueueAnnounced'
  BY DEF QueueAnnounced, RwmutexFree, Coming, TypeOK, poolVars, history
<1>7. OwedKept'
  <2>1. Added' = Added \cup {j}
    BY QueueJobs DEF Added, TypeOK, history
  <2> QED BY <2>1, AddedFacts DEF OwedKept, TypeOK, poolVars, history
<1> QED BY <1>1, <1>2, <1>3, <1>4, <1>5, <1>6, <1>7 DEF IInv

\* It is kept when jobqueue_push announces the job with the semaphore.
LEMMA PushPostInv ==
  ASSUME IInv, NEW c \in Clients, PushPost(c)
  PROVE  IInv'
<1> USE PoolAssumption DEF IInv, PushPost, BsemPost
<1>0. /\ wpc' \in [Workers -> WorkerPcs]
      /\ \A t \in Workers : wpc'[t] = wpc[t] \/ (wpc[t] = "asleep" /\ wpc'[t] = "bsem")
      /\ \E t \in Workers : wpc'[t] # "asleep"
      /\ In(wpc', Alive) = In(wpc, Alive) /\ In(wpc', Busy) = In(wpc, Busy)
  BY Woken DEF TypeOK
<1>1. TypeOK'
  BY <1>0 DEF TypeOK, WorkerPcs, ClientPcs, poolVars, history
<1>2. Counts'
  BY <1>0 DEF Counts, poolVars
<1>3. JobWhileRunning'
  BY <1>0 DEF JobWhileRunning, TypeOK, poolVars, history
<1>4. AllServe'
  BY <1>0 DEF AllServe, TypeOK, poolVars, history, Alive, Busy, Coming
<1>5. SemaphoreHeard'
  BY <1>0 DEF SemaphoreHeard, TypeOK, poolVars, history
<1>6. QueueAnnounced'
  BY <1>0 DEF QueueAnnounced, RwmutexFree, Coming, TypeOK, poolVars, history
<1>7. OwedKept'
  BY <1>0 DEF OwedKept, Added, TypeOK, poolVars, history
<1> QED BY <1>1, <1>2, <1>3, <1>4, <1>5, <1>6, <1>7 DEF IInv

\* It is kept when a client enters thpool_wait.
LEMMA StartWaitInv ==
  ASSUME IInv, NEW c \in Clients, StartWait(c)
  PROVE  IInv'
<1> USE PoolAssumption DEF IInv, StartWait
<1>1. TypeOK'
  BY AddedFacts DEF TypeOK, ClientPcs, poolVars, history
<1>2. Counts'
  BY DEF Counts, poolVars
<1>3. JobWhileRunning'
  BY DEF JobWhileRunning, TypeOK, poolVars, history
<1>4. AllServe'
  BY DEF AllServe, TypeOK, poolVars, history, Alive, Busy, Coming
<1>5. SemaphoreHeard'
  BY DEF SemaphoreHeard, TypeOK, poolVars, history
<1>6. QueueAnnounced'
  BY DEF QueueAnnounced, RwmutexFree, Coming, TypeOK, poolVars, history
<1>7. OwedKept'
  <2>1. Added' = Added
    BY DEF Added, history
  <2> QED BY <2>1, AddedFacts DEF OwedKept, TypeOK, Usable, poolVars, history
<1> QED BY <1>1, <1>2, <1>3, <1>4, <1>5, <1>6, <1>7 DEF IInv

\* It is kept when thpool_wait tests the queue and the count, and returns or sleeps.
LEMMA WaitTestInv ==
  ASSUME IInv, NEW c \in Clients, WaitTest(c)
  PROVE  IInv'
<1> USE PoolAssumption DEF IInv, WaitTest
<1>1. TypeOK'
  BY DEF TypeOK, WorkerPcs, ClientPcs, poolVars, history
<1>2. Counts'
  BY DEF Counts, poolVars
<1>3. JobWhileRunning'
  BY DEF JobWhileRunning, TypeOK, poolVars, history
<1>4. AllServe'
  BY DEF AllServe, TypeOK, poolVars, history, Alive, Busy, Coming
<1>5. SemaphoreHeard'
  BY DEF SemaphoreHeard, TypeOK, poolVars, history
<1>6. QueueAnnounced'
  BY DEF QueueAnnounced, RwmutexFree, Coming, TypeOK, poolVars, history
<1>7. OwedKept'
  <2>1. Added' = Added
    BY DEF Added, history
  <2> QED BY <2>1, AddedFacts DEF OwedKept, TypeOK, poolVars, history
<1> QED BY <1>1, <1>2, <1>3, <1>4, <1>5, <1>6, <1>7 DEF IInv

\* It is kept when thpool_destroy resets threads_keepalive.
LEMMA StartDestroyInv ==
  ASSUME IInv, StartDestroy
  PROVE  IInv'
<1> USE PoolAssumption DEF IInv, StartDestroy
<1>1. TypeOK'
  BY DEF TypeOK, WorkerPcs, ClientPcs, poolVars, history
<1>2. Counts'
  BY DEF Counts, poolVars
<1>3. JobWhileRunning'
  BY DEF JobWhileRunning, TypeOK, poolVars, history
<1>4. AllServe'
  BY DEF AllServe, TypeOK, poolVars, history, Alive, Busy, Coming
<1>5. SemaphoreHeard'
  BY DEF SemaphoreHeard, TypeOK, poolVars, history
<1>6. QueueAnnounced'
  BY DEF QueueAnnounced, RwmutexFree, Coming, TypeOK, poolVars, history
<1>7. OwedKept'
  BY DEF OwedKept, Added, TypeOK, poolVars, history
<1> QED BY <1>1, <1>2, <1>3, <1>4, <1>5, <1>6, <1>7 DEF IInv

\* It is kept when thpool_destroy posts to all workers and looks who is alive.
LEMMA DestroyPollInv ==
  ASSUME IInv, DestroyPoll
  PROVE  IInv'
<1> USE PoolAssumption DEF IInv, DestroyPoll, BsemPostAll
<1>1. TypeOK'
  BY DEF TypeOK, WorkerPcs, ClientPcs, poolVars, history
<1>2. Counts'
  <2>1. In(wpc', Alive) = In(wpc, Alive) /\ In(wpc', Busy) = In(wpc, Busy)
    BY DEF In, Alive, Busy, Coming, TypeOK
  <2> QED BY <2>1 DEF Counts, poolVars
<1>3. JobWhileRunning'
  BY DEF JobWhileRunning, TypeOK, poolVars, history
<1>4. AllServe'
  BY DEF AllServe, TypeOK, poolVars, history, Alive, Busy, Coming
<1>5. SemaphoreHeard'
  BY DEF SemaphoreHeard, TypeOK, poolVars, history
<1>6. QueueAnnounced'
  BY DEF QueueAnnounced, RwmutexFree, Coming, TypeOK, poolVars, history
<1>7. OwedKept'
  BY DEF OwedKept, Added, TypeOK, poolVars, history
<1> QED BY <1>1, <1>2, <1>3, <1>4, <1>5, <1>6, <1>7 DEF IInv

\* It is kept when thpool_destroy frees the queue and the workers.
LEMMA DestroyFreeInv ==
  ASSUME IInv, DestroyFree
  PROVE  IInv'
<1> USE PoolAssumption DEF IInv, DestroyFree
<1>1. TypeOK'
  BY DEF TypeOK, WorkerPcs, ClientPcs, poolVars, history
<1>2. Counts'
  BY DEF Counts, poolVars
<1>3. JobWhileRunning'
  BY DEF JobWhileRunning, TypeOK, poolVars, history
<1>4. AllServe'
  BY DEF AllServe, TypeOK, poolVars, history, Alive, Busy, Coming
<1>5. SemaphoreHeard'
  BY DEF SemaphoreHeard, TypeOK, poolVars, history
<1>6. QueueAnnounced'
  BY DEF QueueAnnounced, RwmutexFree, Coming, TypeOK, poolVars, history
<1>7. OwedKept'
  BY DEF OwedKept, Added, TypeOK, poolVars, history
<1> QED BY <1>1, <1>2, <1>3, <1>4, <1>5, <1>6, <1>7 DEF IInv

\* It is kept when a worker counts itself as alive.
LEMMA StartedInv ==
  ASSUME IInv, NEW w \in Workers, Started(w)
  PROVE  IInv'
<1> USE PoolAssumption DEF IInv, Started
<1>1. TypeOK'
  BY DEF TypeOK, WorkerPcs, ClientPcs, poolVars, history
<1>2. Counts'
  <2> DEFINE p == "loop"
  <2>1. wpc' = [wpc EXCEPT ![w] = p] /\ TypeOK
    OBVIOUS
  <2>2. /\ wpc[w] \notin Alive /\ p \in Alive
        /\ wpc[w] \notin Busy /\ p \notin Busy
    BY DEF Alive, Busy, Coming
  <2> HIDE DEF p
  <2>3. Cardinality(In(wpc, Alive)) \in Nat /\ Cardinality(In(wpc, Busy)) \in Nat
    BY <2>1, Moved
  <2>4. alive' = Cardinality(In(wpc', Alive))
    BY <2>1, <2>2, <2>3, Moved DEF Counts, poolVars
  <2>5. working' = Cardinality(In(wpc', Busy))
    BY <2>1, <2>2, <2>3, Moved DEF Counts, poolVars
  <2> QED BY <2>4, <2>5 DEF Counts
<1>3. JobWhileRunning'
  BY DEF JobWhileRunning, TypeOK, poolVars, history
<1>4. AllServe'
  BY DEF AllServe, TypeOK, poolVars, history, Alive, Busy, Coming
<1>5. SemaphoreHeard'
  BY DEF SemaphoreHeard, TypeOK, poolVars, history
<1>6. QueueAnnounced'
  BY DEF QueueAnnounced, RwmutexFree, Coming, TypeOK, poolVars, history
<1>7. OwedKept'
  BY DEF OwedKept, Added, TypeOK, poolVars, history
<1> QED BY <1>1, <1>2, <1>3, <1>4, <1>5, <1>6, <1>7 DEF IInv

\* It is kept when a worker tests threads_keepalive at the head of its loop.
LEMMA LoopTestInv ==
  ASSUME IInv, NEW w \in Workers, LoopTest(w)
  PROVE  IInv'
<1> USE PoolAssumption DEF IInv, LoopTest
<1>1. TypeOK'
  BY DEF TypeOK, WorkerPcs, ClientPcs, poolVars, history
<1>2. Counts'
  <2> DEFINE p == IF keepalive THEN "bsem" ELSE "exit"
  <2>1. wpc' = [wpc EXCEPT ![w] = p] /\ TypeOK
    OBVIOUS
  <2>2. /\ wpc[w] \in Alive /\ p \in Alive
        /\ wpc[w] \notin Busy /\ p \notin Busy
    BY DEF Alive, Busy, Coming
  <2> HIDE DEF p
  <2>3. Cardinality(In(wpc, Alive)) \in Nat /\ Cardinality(In(wpc, Busy)) \in Nat
    BY <2>1, Moved
  <2>4. alive' = Cardinality(In(wpc', Alive))
    BY <2>1, <2>2, <2>3, Moved DEF Counts, poolVars
  <2>5. working' = Cardinality(In(wpc', Busy))
    BY <2>1, <2>2, <2>3, Moved DEF Counts, poolVars
  <2> QED BY <2>4, <2>5 DEF Counts
<1>3. JobWhileRunning'
  BY DEF JobWhileRunning, TypeOK, poolVars, history
<1>4. AllServe'
  BY DEF AllServe, TypeOK, poolVars, history, Alive, Busy, Coming
<1>5. SemaphoreHeard'
  BY DEF SemaphoreHeard, TypeOK, poolVars, history
<1>6. QueueAnnounced'
  BY DEF QueueAnnounced, RwmutexFree, Coming, TypeOK, poolVars, history
<1>7. OwedKept'
  BY DEF OwedKept, Added, TypeOK, poolVars, history
<1> QED BY <1>1, <1>2, <1>3, <1>4, <1>5, <1>6, <1>7 DEF IInv

\* It is kept when a worker that got the semaphore tests threads_keepalive again.
LEMMA AliveTestInv ==
  ASSUME IInv, NEW w \in Workers, AliveTest(w)
  PROVE  IInv'
<1> USE PoolAssumption DEF IInv, AliveTest
<1>1. TypeOK'
  BY DEF TypeOK, WorkerPcs, ClientPcs, poolVars, history
<1>2. Counts'
  <2> DEFINE p == IF keepalive THEN "count" ELSE "loop"
  <2>1. wpc' = [wpc EXCEPT ![w] = p] /\ TypeOK
    OBVIOUS
  <2>2. /\ wpc[w] \in Alive /\ p \in Alive
        /\ wpc[w] \notin Busy /\ p \notin Busy
    BY DEF Alive, Busy, Coming
  <2> HIDE DEF p
  <2>3. Cardinality(In(wpc, Alive)) \in Nat /\ Cardinality(In(wpc, Busy)) \in Nat
    BY <2>1, Moved
  <2>4. alive' = Cardinality(In(wpc', Alive))
    BY <2>1, <2>2, <2>3, Moved DEF Counts, poolVars
  <2>5. working' = Cardinality(In(wpc', Busy))
    BY <2>1, <2>2, <2>3, Moved DEF Counts, poolVars
  <2> QED BY <2>4, <2>5 DEF Counts
<1>3. JobWhileRunning'
  BY DEF JobWhileRunning, TypeOK, poolVars, history
<1>4. AllServe'
  BY DEF AllServe, TypeOK, poolVars, history, Alive, Busy, Coming
<1>5. SemaphoreHeard'
  BY DEF SemaphoreHeard, TypeOK, poolVars, history
<1>6. QueueAnnounced'
  BY DEF QueueAnnounced, RwmutexFree, Coming, TypeOK, poolVars, history
<1>7. OwedKept'
  BY DEF OwedKept, Added, TypeOK, poolVars, history
<1> QED BY <1>1, <1>2, <1>3, <1>4, <1>5, <1>6, <1>7 DEF IInv

\* It is kept when a worker counts itself as working.
LEMMA CountInInv ==
  ASSUME IInv, NEW w \in Workers, CountIn(w)
  PROVE  IInv'
<1> USE PoolAssumption DEF IInv, CountIn
<1>1. TypeOK'
  BY DEF TypeOK, WorkerPcs, ClientPcs, poolVars, history
<1>2. Counts'
  <2> DEFINE p == "pull"
  <2>1. wpc' = [wpc EXCEPT ![w] = p] /\ TypeOK
    OBVIOUS
  <2>2. /\ wpc[w] \in Alive /\ p \in Alive
        /\ wpc[w] \notin Busy /\ p \in Busy
    BY DEF Alive, Busy, Coming
  <2> HIDE DEF p
  <2>3. Cardinality(In(wpc, Alive)) \in Nat /\ Cardinality(In(wpc, Busy)) \in Nat
    BY <2>1, Moved
  <2>4. alive' = Cardinality(In(wpc', Alive))
    BY <2>1, <2>2, <2>3, Moved DEF Counts, poolVars
  <2>5. working' = Cardinality(In(wpc', Busy))
    BY <2>1, <2>2, <2>3, Moved DEF Counts, poolVars
  <2> QED BY <2>4, <2>5 DEF Counts
<1>3. JobWhileRunning'
  BY DEF JobWhileRunning, TypeOK, poolVars, history
<1>4. AllServe'
  BY DEF AllServe, TypeOK, poolVars, history, Alive, Busy, Coming
<1>5. SemaphoreHeard'
  BY DEF SemaphoreHeard, TypeOK, poolVars, history
<1>6. QueueAnnounced'
  BY DEF QueueAnnounced, RwmutexFree, Coming, TypeOK, poolVars, history
<1>7. OwedKept'
  BY DEF OwedKept, Added, TypeOK, poolVars, history
<1> QED BY <1>1, <1>2, <1>3, <1>4, <1>5, <1>6, <1>7 DEF IInv

\* It is kept when a worker takes the semaphore, or finds it down and sleeps.
LEMMA BsemWaitInv ==
  ASSUME IInv, NEW w \in Workers, BsemWait(w)
  PROVE  IInv'
<1> USE PoolAssumption DEF IInv, BsemWait
<1>1. TypeOK'
  BY DEF TypeOK, WorkerPcs, ClientPcs, poolVars, history
<1>2. Counts'
  <2> DEFINE p == IF v = 1 THEN "check" ELSE "asleep"
  <2>1. wpc' = [wpc EXCEPT ![w] = p] /\ TypeOK
    OBVIOUS
  <2>2. /\ wpc[w] \in Alive /\ p \in Alive
        /\ wpc[w] \notin Busy /\ p \notin Busy
    BY DEF Alive, Busy, Coming
  <2> HIDE DEF p
  <2>3. Cardinality(In(wpc, Alive)) \in Nat /\ Cardinality(In(wpc, Busy)) \in Nat
    BY <2>1, Moved
  <2>4. alive' = Cardinality(In(wpc', Alive))
    BY <2>1, <2>2, <2>3, Moved DEF Counts, poolVars
  <2>5. working' = Cardinality(In(wpc', Busy))
    BY <2>1, <2>2, <2>3, Moved DEF Counts, poolVars
  <2> QED BY <2>4, <2>5 DEF Counts
<1>3. JobWhileRunning'
  BY DEF JobWhileRunning, TypeOK, poolVars, history
<1>4. AllServe'
  BY DEF AllServe, TypeOK, poolVars, history, Alive, Busy, Coming
<1>5. SemaphoreHeard'
  BY DEF SemaphoreHeard, TypeOK, poolVars, history
<1>6. QueueAnnounced'
  BY DEF QueueAnnounced, RwmutexFree, Coming, TypeOK, poolVars, history
<1>7. OwedKept'
  BY DEF OwedKept, Added, TypeOK, poolVars, history
<1> QED BY <1>1, <1>2, <1>3, <1>4, <1>5, <1>6, <1>7 DEF IInv

\* It is kept when jobqueue_pull takes the first job.
LEMMA PullInv ==
  ASSUME IInv, NEW w \in Workers, Pull(w)
  PROVE  IInv'
<1> USE PoolAssumption DEF IInv, Pull
<1>1. TypeOK'
  <2>1. queue' \in Seq(Jobs) /\ cur' \in [Workers -> Jobs \cup {NoJob}]
    BY QueueJobs DEF TypeOK
  <2>2. wpc' \in [Workers -> WorkerPcs]
    BY DEF TypeOK, WorkerPcs
  <2> QED BY <2>1, <2>2 DEF TypeOK, poolVars, history
<1>2. Counts'
  <2> DEFINE p == IF queue = <<>> THEN "finish"
                                   ELSE IF Len(queue) = 1 THEN "run" ELSE "repost"
  <2>1. wpc' = [wpc EXCEPT ![w] = p] /\ TypeOK
    OBVIOUS
  <2>2. /\ wpc[w] \in Alive /\ p \in Alive
        /\ wpc[w] \in Busy /\ p \in Busy
    BY DEF Alive, Busy, Coming
  <2> HIDE DEF p
  <2>3. Cardinality(In(wpc, Alive)) \in Nat /\ Cardinality(In(wpc, Busy)) \in Nat
    BY <2>1, Moved
  <2>4. alive' = Cardinality(In(wpc', Alive))
    BY <2>1, <2>2, <2>3, Moved DEF Counts, poolVars
  <2>5. working' = Cardinality(In(wpc', Busy))
    BY <2>1, <2>2, <2>3, Moved DEF Counts, poolVars
  <2> QED BY <2>4, <2>5 DEF Counts
<1>3. JobWhileRunning'
  BY DEF JobWhileRunning, TypeOK, poolVars, history
<1>4. AllServe'
  BY DEF AllServe, TypeOK, poolVars, history, Alive, Busy, Coming
<1>5. SemaphoreHeard'
  BY DEF SemaphoreHeard, TypeOK, poolVars, history
<1>6. QueueAnnounced'
  BY DEF QueueAnnounced, RwmutexFree, Coming, TypeOK, poolVars, history
<1>7. OwedKept'
  <2>1. queue = <<>> => Added' = Added
    BY DEF Added, history
  <2>2. queue # <<>> => Added' = Added
    <3> SUFFICES ASSUME queue # <<>> PROVE Added' = Added
      OBVIOUS
    <3>1. ToSet(queue) = {Head(queue)} \cup ToSet(queue') /\ Head(queue) \in Jobs
      BY QueueJobs DEF TypeOK
    <3>2. cur[w] = NoJob /\ Head(queue) # NoJob
      BY <3>1 DEF JobWhileRunning
    <3> QED BY <3>1, <3>2 DEF Added, TypeOK, history
  <2> QED BY <2>1, <2>2 DEF OwedKept, TypeOK, poolVars, history
<1> QED BY <1>1, <1>2, <1>3, <1>4, <1>5, <1>6, <1>7 DEF IInv

\* It is kept when jobqueue_pull, with more jobs behind, posts the semaphore again.
LEMMA PullRepostInv ==
  ASSUME IInv, NEW w \in Workers, PullRepost(w)
  PROVE  IInv'
<1> USE PoolAssumption DEF IInv, PullRepost, BsemPost
<1> DEFINE f == [wpc EXCEPT ![w] = "run"]
<1>f. f \in [Workers -> WorkerPcs]
  BY DEF TypeOK, WorkerPcs
<1>0. /\ wpc' \in [Workers -> WorkerPcs]
      /\ \A t \in Workers : wpc'[t] = f[t] \/ (f[t] = "asleep" /\ wpc'[t] = "bsem")
      /\ \E t \in Workers : wpc'[t] # "asleep"
      /\ In(wpc', Alive) = In(f, Alive) /\ In(wpc', Busy) = In(f, Busy)
  BY Woken, <1>f
<1>1. TypeOK'
  BY <1>0 DEF TypeOK, WorkerPcs, ClientPcs, poolVars, history
<1>2. Counts'
  <2>1. In(f, Alive) = In(wpc, Alive) /\ In(f, Busy) = In(wpc, Busy)
    BY DEF In, Alive, Busy, Coming, TypeOK
  <2> QED BY <2>1, <1>0 DEF Counts, poolVars
<1>3. JobWhileRunning'
  BY <1>0 DEF JobWhileRunning, TypeOK, poolVars, history
<1>4. AllServe'
  BY <1>0 DEF AllServe, TypeOK, poolVars, history, Alive, Busy, Coming
<1>5. SemaphoreHeard'
  BY <1>0 DEF SemaphoreHeard, TypeOK, poolVars, history
<1>6. QueueAnnounced'
  BY <1>0 DEF QueueAnnounced, RwmutexFree, Coming, TypeOK, poolVars, history
<1>7. OwedKept'
  BY <1>0 DEF OwedKept, Added, TypeOK, poolVars, history
<1> QED BY <1>1, <1>2, <1>3, <1>4, <1>5, <1>6, <1>7 DEF IInv

\* It is kept when a worker has run its job.
LEMMA RunJobInv ==
  ASSUME IInv, NEW w \in Workers, RunJob(w)
  PROVE  IInv'
<1> USE PoolAssumption DEF IInv, RunJob
<1>1. TypeOK'
  <2>1. cur[w] \in Jobs
    BY DEF JobWhileRunning, TypeOK
  <2>2. wpc' \in [Workers -> WorkerPcs] /\ cur' \in [Workers -> Jobs \cup {NoJob}]
    BY DEF TypeOK, WorkerPcs
  <2> QED BY <2>1, <2>2 DEF TypeOK, poolVars
<1>2. Counts'
  <2> DEFINE p == "finish"
  <2>1. wpc' = [wpc EXCEPT ![w] = p] /\ TypeOK
    OBVIOUS
  <2>2. /\ wpc[w] \in Alive /\ p \in Alive
        /\ wpc[w] \in Busy /\ p \in Busy
    BY DEF Alive, Busy, Coming
  <2> HIDE DEF p
  <2>3. Cardinality(In(wpc, Alive)) \in Nat /\ Cardinality(In(wpc, Busy)) \in Nat
    BY <2>1, Moved
  <2>4. alive' = Cardinality(In(wpc', Alive))
    BY <2>1, <2>2, <2>3, Moved DEF Counts, poolVars
  <2>5. working' = Cardinality(In(wpc', Busy))
    BY <2>1, <2>2, <2>3, Moved DEF Counts, poolVars
  <2> QED BY <2>4, <2>5 DEF Counts
<1>3. JobWhileRunning'
  BY DEF JobWhileRunning, TypeOK, poolVars, history
<1>4. AllServe'
  BY DEF AllServe, TypeOK, poolVars, history, Alive, Busy, Coming
<1>5. SemaphoreHeard'
  BY DEF SemaphoreHeard, TypeOK, poolVars, history
<1>6. QueueAnnounced'
  BY DEF QueueAnnounced, RwmutexFree, Coming, TypeOK, poolVars, history
<1>7. OwedKept'
  <2>1. Added' = Added
    BY DEF Added, TypeOK, JobWhileRunning
  <2> QED BY <2>1 DEF OwedKept, TypeOK, poolVars, history
<1> QED BY <1>1, <1>2, <1>3, <1>4, <1>5, <1>6, <1>7 DEF IInv

\* It is kept when a worker no longer counts itself as working, and wakes who waits.
LEMMA CountOutInv ==
  ASSUME IInv, NEW w \in Workers, CountOut(w)
  PROVE  IInv'
<1> USE PoolAssumption DEF IInv, CountOut
<1>0. /\ cpc' \in [Clients -> ClientPcs]
      /\ \A c \in Clients : cpc'[c] = cpc[c] \/ (cpc[c] = "blocked" /\ cpc'[c] = "wait")
  BY DEF Signal, TypeOK, ClientPcs
<1>1. TypeOK'
  <2>1. working' \in Nat
    <3>1. wpc[w] \in Busy /\ "loop" \notin Busy /\ TypeOK /\ wpc' = [wpc EXCEPT ![w] = "loop"]
      BY DEF Busy
    <3>2. Cardinality(In(wpc, Busy)) \in Nat \ {0}
      BY <3>1, Moved
    <3> QED BY <3>2 DEF Counts
  <2>2. wpc' \in [Workers -> WorkerPcs]
    BY DEF TypeOK, WorkerPcs
  <2> QED BY <1>0, <2>1, <2>2 DEF TypeOK, history
<1>2. Counts'
  <2> DEFINE p == "loop"
  <2>1. wpc' = [wpc EXCEPT ![w] = p] /\ TypeOK
    OBVIOUS
  <2>2. /\ wpc[w] \in Alive /\ p \in Alive
        /\ wpc[w] \in Busy /\ p \notin Busy
    BY DEF Alive, Busy, Coming
  <2> HIDE DEF p
  <2>3. Cardinality(In(wpc, Alive)) \in Nat /\ Cardinality(In(wpc, Busy)) \in Nat
    BY <2>1, Moved
  <2>4. alive' = Cardinality(In(wpc', Alive))
    BY <2>1, <2>2, <2>3, Moved DEF Counts, poolVars
  <2>5. working' = Cardinality(In(wpc', Busy))
    BY <2>1, <2>2, <2>3, Moved DEF Counts, poolVars
  <2> QED BY <2>4, <2>5 DEF Counts
<1>3. JobWhileRunning'
  BY <1>0 DEF JobWhileRunning, TypeOK, poolVars, history
<1>4. AllServe'
  BY <1>0 DEF AllServe, TypeOK, poolVars, history, Alive, Busy, Coming
<1>5. SemaphoreHeard'
  BY <1>0 DEF SemaphoreHeard, TypeOK, poolVars, history
<1>6. QueueAnnounced'
  BY <1>0 DEF QueueAnnounced, RwmutexFree, Coming, TypeOK, poolVars, history
<1>7. OwedKept'
  <2>1. Added' = Added
    BY DEF Added, history
  <2> QED BY <1>0, <2>1 DEF OwedKept, TypeOK, history
<1> QED BY <1>1, <1>2, <1>3, <1>4, <1>5, <1>6, <1>7 DEF IInv

\* It is kept when a worker that leaves no longer counts itself as alive.
LEMMA CountDeadInv ==
  ASSUME IInv, NEW w \in Workers, CountDead(w)
  PROVE  IInv'
<1> USE PoolAssumption DEF IInv, CountDead
<1>1. TypeOK'
  <2>1. alive' \in Nat
    <3>1. wpc[w] \in Alive /\ "unlock" \notin Alive /\ TypeOK /\ wpc' = [wpc EXCEPT ![w] = "unlock"]
      BY DEF Alive, Busy, Coming
    <3>2. Cardinality(In(wpc, Alive)) \in Nat \ {0}
      BY <3>1, Moved
    <3> QED BY <3>2 DEF Counts
  <2>2. wpc' \in [Workers -> WorkerPcs]
    BY DEF TypeOK, WorkerPcs
  <2> QED BY <2>1, <2>2 DEF TypeOK, history
<1>2. Counts'
  <2> DEFINE p == "unlock"
  <2>1. wpc' = [wpc EXCEPT ![w] = p] /\ TypeOK
    OBVIOUS
  <2>2. /\ wpc[w] \in Alive /\ p \notin Alive
        /\ wpc[w] \notin Busy /\ p \notin Busy
    BY DEF Alive, Busy, Coming
  <2> HIDE DEF p
  <2>3. Cardinality(In(wpc, Alive)) \in Nat /\ Cardinality(In(wpc, Busy)) \in Nat
    BY <2>1, Moved
  <2>4. alive' = Cardinality(In(wpc', Alive))
    BY <2>1, <2>2, <2>3, Moved DEF Counts, poolVars
  <2>5. working' = Cardinality(In(wpc', Busy))
    BY <2>1, <2>2, <2>3, Moved DEF Counts, poolVars
  <2> QED BY <2>4, <2>5 DEF Counts
<1>3. JobWhileRunning'
  BY DEF JobWhileRunning, TypeOK, poolVars, history
<1>4. AllServe'
  BY DEF AllServe, TypeOK, poolVars, history, Alive, Busy, Coming
<1>5. SemaphoreHeard'
  BY DEF SemaphoreHeard, TypeOK, poolVars, history
<1>6. QueueAnnounced'
  BY DEF QueueAnnounced, RwmutexFree, Coming, TypeOK, poolVars, history
<1>7. OwedKept'
  BY DEF OwedKept, Added, TypeOK, poolVars, history
<1> QED BY <1>1, <1>2, <1>3, <1>4, <1>5, <1>6, <1>7 DEF IInv

\* It is kept when the worker that leaves gives the lock back.
LEMMA UnlockDeadInv ==
  ASSUME IInv, NEW w \in Workers, UnlockDead(w)
  PROVE  IInv'
<1> USE PoolAssumption DEF IInv, UnlockDead
<1>1. TypeOK'
  BY DEF TypeOK, WorkerPcs, ClientPcs, poolVars, history
<1>2. Counts'
  <2> DEFINE p == "dead"
  <2>1. wpc' = [wpc EXCEPT ![w] = p] /\ TypeOK
    OBVIOUS
  <2>2. /\ wpc[w] \notin Alive /\ p \notin Alive
        /\ wpc[w] \notin Busy /\ p \notin Busy
    BY DEF Alive, Busy, Coming
  <2> HIDE DEF p
  <2>3. Cardinality(In(wpc, Alive)) \in Nat /\ Cardinality(In(wpc, Busy)) \in Nat
    BY <2>1, Moved
  <2>4. alive' = Cardinality(In(wpc', Alive))
    BY <2>1, <2>2, <2>3, Moved DEF Counts, poolVars
  <2>5. working' = Cardinality(In(wpc', Busy))
    BY <2>1, <2>2, <2>3, Moved DEF Counts, poolVars
  <2> QED BY <2>4, <2>5 DEF Counts
<1>3. JobWhileRunning'
  BY DEF JobWhileRunning, TypeOK, poolVars, history
<1>4. AllServe'
  BY DEF AllServe, TypeOK, poolVars, history, Alive, Busy, Coming
<1>5. SemaphoreHeard'
  BY DEF SemaphoreHeard, TypeOK, poolVars, history
<1>6. QueueAnnounced'
  BY DEF QueueAnnounced, RwmutexFree, Coming, TypeOK, poolVars, history
<1>7. OwedKept'
  BY DEF OwedKept, Added, TypeOK, poolVars, history
<1> QED BY <1>1, <1>2, <1>3, <1>4, <1>5, <1>6, <1>7 DEF IInv

\* It is kept when a sleeping worker or client wakes up without a signal.
LEMMA SpuriousWakeupInv ==
  ASSUME IInv, SpuriousWakeup
  PROVE  IInv'
<1> USE PoolAssumption DEF IInv, SpuriousWakeup
<1>1. TypeOK'
  BY DEF TypeOK, WorkerPcs, ClientPcs, poolVars, history
<1>2. Counts'
  <2>1. In(wpc', Alive) = In(wpc, Alive) /\ In(wpc', Busy) = In(wpc, Busy)
    BY DEF In, Alive, Busy, Coming, TypeOK
  <2> QED BY <2>1 DEF Counts, poolVars
<1>3. JobWhileRunning'
  BY DEF JobWhileRunning, TypeOK, poolVars, history
<1>4. AllServe'
  BY DEF AllServe, TypeOK, poolVars, history, Alive, Busy, Coming
<1>5. SemaphoreHeard'
  BY DEF SemaphoreHeard, TypeOK, poolVars, history
<1>6. QueueAnnounced'
  BY DEF QueueAnnounced, RwmutexFree, Coming, TypeOK, poolVars, history
<1>7. OwedKept'
  BY DEF OwedKept, Added, TypeOK, poolVars, history
<1> QED BY <1>1, <1>2, <1>3, <1>4, <1>5, <1>6, <1>7 DEF IInv

\* A step that changes nothing.
LEMMA StutterInv ==
  ASSUME IInv, UNCHANGED vars
  PROVE  IInv'
  BY DEF IInv, vars, TypeOK, Counts, JobWhileRunning, AllServe, SemaphoreHeard,
         QueueAnnounced, OwedKept, Added, RwmutexFree

\* The invariant is inductive: every action keeps it, by its lemma above.
LEMMA NextInv == IInv /\ [Next]_vars => IInv'
<1> SUFFICES ASSUME IInv, [Next]_vars PROVE IInv'
  OBVIOUS
<1>1. CASE UNCHANGED vars
  BY <1>1, StutterInv
<1>2. ASSUME NEW w \in Workers, WorkerStep(w) PROVE IInv'
  BY <1>2, StartedInv, LoopTestInv, BsemWaitInv, AliveTestInv, CountInInv, PullInv,
     PullRepostInv, RunJobInv, CountOutInv, CountDeadInv, UnlockDeadInv DEF WorkerStep
<1>3. ASSUME NEW c \in Clients, ClientStep(c) PROVE IInv'
  BY <1>3, PushPostInv, WaitTestInv DEF ClientStep
<1>4. ASSUME NEW c \in Clients, NEW j \in Jobs, AddWork(c, j) PROVE IInv'
  BY <1>4, AddWorkInv
<1>5. ASSUME NEW c \in Clients, StartWait(c) PROVE IInv'
  BY <1>5, StartWaitInv
<1>6. CASE StartDestroy
  BY <1>6, StartDestroyInv
<1>7. CASE OwnerStep
  BY <1>7, InitReturnsInv, DestroyPollInv, DestroyFreeInv DEF OwnerStep
<1>8. CASE SpuriousWakeup
  BY <1>8, SpuriousWakeupInv
<1>9. CASE Gone
  BY <1>9, StutterInv DEF Gone
<1> QED BY <1>1, <1>2, <1>3, <1>4, <1>5, <1>6, <1>7, <1>8, <1>9 DEF Next

\* The inductive invariant holds in every state of every pool.
THEOREM Inductive == Spec => []IInv
  BY InitInv, NextInv, PTL DEF Spec

\* Every variable keeps its type; in particular num_threads_alive and
\* num_threads_working never go below zero.
THEOREM TypeCorrect == Spec => []TypeOK
<1>1. IInv => TypeOK
  BY DEF IInv
<1> QED BY <1>1, Inductive, PTL

\* No queued job is stranded, whatever the number of workers and clients and
\* however jobqueue_push, jobqueue_pull and bsem_wait interleave.
THEOREM NoJobStranded == Spec => []NoStrandedJob
<1>1. IInv => NoStrandedJob
  <2> SUFFICES ASSUME IInv, keepalive, cpc[Owner] # "init", queue # <<>>, RwmutexFree,
                      \A w \in Workers : wpc[w] \notin Coming
               PROVE  v = 1 /\ \E w \in Workers : wpc[w] \in Awake
    BY DEF NoStrandedJob
  <2>1. v = 1
    BY DEF IInv, QueueAnnounced
  <2>2. PICK w \in Workers : wpc[w] # "asleep"
    BY <2>1 DEF IInv, SemaphoreHeard
  <2>3. wpc[w] \in Alive /\ wpc[w] # "exit"
    BY <2>2 DEF IInv, AllServe
  <2> QED BY <2>1, <2>2, <2>3 DEF Awake
<1> QED BY <1>1, Inductive, PTL

\* thpool_wait never returns before the jobs added earlier have finished, also
\* with several clients waiting and adding at once.
THEOREM WaitSound == Spec => []WaitMeansDone
<1>1. IInv => WaitMeansDone
  BY DEF IInv, OwedKept, WaitMeansDone
<1> QED BY <1>1, Inductive, PTL

\* A queue without repetitions stays one when a new job is appended and when the
\* first is taken, and the first is then not in it any more.
LEMMA QueueDistinct ==
  ASSUME NEW q \in Seq(Jobs), IsInjective(q)
  PROVE  /\ \A j \in Jobs : j \notin ToSet(q) => IsInjective(Append(q, j))
         /\ q # <<>> => IsInjective(Tail(q)) /\ Head(q) \notin ToSet(Tail(q))
<1>1. ASSUME NEW j \in Jobs, j \notin ToSet(q) PROVE IsInjective(Append(q, j))
  <2>1. /\ DOMAIN q = 1 .. Len(q) /\ Len(q) \in Nat
        /\ DOMAIN Append(q, j) = 1 .. Len(q) + 1
        /\ \A i \in 1 .. Len(q) : Append(q, j)[i] = q[i]
        /\ Append(q, j)[Len(q) + 1] = j
    OBVIOUS
  <2>2. \A i \in 1 .. Len(q) : q[i] # j
    BY <1>1, <2>1 DEF ToSet
  <2>3. \A i \in 1 .. Len(q) + 1 : i \in 1 .. Len(q) \/ i = Len(q) + 1
    BY <2>1
  <2> QED BY <2>1, <2>2, <2>3 DEF IsInjective
<1>2. ASSUME q # <<>> PROVE IsInjective(Tail(q)) /\ Head(q) \notin ToSet(Tail(q))
  <2>1. /\ DOMAIN q = 1 .. Len(q) /\ Len(q) \in Nat \ {0} /\ Head(q) = q[1]
        /\ DOMAIN Tail(q) = 1 .. Len(q) - 1
        /\ \A i \in 1 .. Len(q) - 1 : Tail(q)[i] = q[i + 1]
    BY <1>2
  <2>2. \A i \in 1 .. Len(q) - 1 : i + 1 \in DOMAIN q /\ i + 1 # 1 /\ 1 \in DOMAIN q
    BY <2>1
  <2>3. \A i, k \in 1 .. Len(q) - 1 : i + 1 = k + 1 => i = k
    BY <2>1
  <2> QED BY <2>1, <2>2, <2>3 DEF IsInjective, ToSet
<1> QED BY <1>1, <1>2

\* No step of the pool runs a job a second time.
LEMMA RunOnceNext == IInv /\ RunOnce /\ [Next]_vars => RunOnce'
<1> SUFFICES ASSUME IInv, RunOnce, [Next]_vars PROVE RunOnce'
  OBVIOUS
<1> USE PoolAssumption DEF RunOnce
<1>0. TypeOK /\ JobWhileRunning
  BY DEF IInv
<1>1. ASSUME UNCHANGED <<queue, cur, done>> PROVE RunOnce'
  BY <1>1
<1>2. ASSUME NEW c \in Clients, NEW j \in Jobs, AddWork(c, j) PROVE RunOnce'
  <2>1. /\ j \notin ToSet(queue) /\ j \notin done
        /\ \A w \in Workers : cur[w] # NoJob => cur[w] # j
        /\ queue' = Append(queue, j) /\ cur' = cur /\ done' = done
    BY <1>2 DEF AddWork, Added, history
  <2>2. IsInjective(queue') /\ ToSet(queue') = ToSet(queue) \cup {j}
    BY <1>0, <2>1, QueueDistinct, QueueJobs DEF TypeOK
  <2> QED BY <2>1, <2>2
<1>3. ASSUME NEW w \in Workers, Pull(w) PROVE RunOnce'
  <2>1. CASE queue = <<>>
    BY <2>1, <1>1, <1>3 DEF Pull, history
  <2>2. CASE queue # <<>>
    <3>1. /\ queue' = Tail(queue) /\ cur' = [cur EXCEPT ![w] = Head(queue)] /\ done' = done
      BY <2>2, <1>3 DEF Pull, history
    <3>2. /\ IsInjective(queue') /\ Head(queue) \notin ToSet(queue')
          /\ ToSet(queue) = {Head(queue)} \cup ToSet(queue')
      BY <3>1, <1>0, <2>2, QueueDistinct, QueueJobs DEF TypeOK
    <3> QED BY <3>1, <3>2, <1>0 DEF TypeOK
  <2> QED BY <2>1, <2>2
<1>4. ASSUME NEW w \in Workers, RunJob(w) PROVE RunOnce'
  BY <1>4, <1>0 DEF RunJob, JobWhileRunning, TypeOK
<1>5. CASE DestroyFree
  <2>1. queue' = <<>> /\ cur' = cur /\ done' = done
    BY <1>5 DEF DestroyFree, history
  <2>2. IsInjective(queue') /\ ToSet(queue') = {}
    BY <2>1 DEF IsInjective, ToSet
  <2> QED BY <2>1, <2>2
<1> USE DEF history
<1>6. ASSUME NEW w \in Workers, WorkerStep(w) PROVE RunOnce'
  <2>1. ASSUME \/ Started(w) \/ LoopTest(w) \/ BsemWait(w) \/ AliveTest(w) \/ CountIn(w)
               \/ PullRepost(w) \/ CountOut(w) \/ CountDead(w) \/ UnlockDead(w)
        PROVE  UNCHANGED <<queue, cur, done>>
    BY <2>1 DEF Started, LoopTest, BsemWait, AliveTest, CountIn, PullRepost, CountOut,
                CountDead, UnlockDead
  <2> QED BY <2>1, <1>1, <1>3, <1>4, <1>6 DEF WorkerStep
<1>7. ASSUME NEW c \in Clients, ClientStep(c) \/ StartWait(c) PROVE RunOnce'
  BY <1>7, <1>1 DEF ClientStep, PushPost, WaitTest, StartWait
<1>8. CASE OwnerStep \/ StartDestroy \/ SpuriousWakeup
  BY <1>8, <1>1, <1>5 DEF OwnerStep, InitReturns, DestroyPoll, StartDestroy, SpuriousWakeup
<1>9. CASE Gone \/ UNCHANGED vars
  BY <1>9, <1>1 DEF Gone, vars
<1> QED BY <1>2, <1>6, <1>7, <1>8, <1>9 DEF Next

\* A job is never run by two workers, nor twice, nor lost and found in the queue.
THEOREM JobRunsOnce == Spec => []RunOnce
<1>1. Init => RunOnce
  BY DEF Init, RunOnce, IsInjective, ToSet
<1> QED BY <1>1, RunOnceNext, Inductive, PTL DEF Spec
-----------------------------------------------------------------------------
\* What a step of the pool leaves alone is left alone under the refinement mapping,
\* if it does not let a client into thpool_wait or out of it.
LEMMA Stutters ==
  ASSUME UNCHANGED <<queue, cur, done, owed, freed>>,
         \A c \in Waiters : cpc[c] \in {"wait", "blocked"} <=> cpc'[c] \in {"wait", "blocked"}
  PROVE  UNCHANGED Promise!vars
BY DEF Promise!vars

\* The jobs the refinement mapping calls running, after worker w got another one.
LEMMA RunningAfter ==
  ASSUME TypeOK, NEW w \in Workers, NEW j, cur' = [cur EXCEPT ![w] = j]
  PROVE  /\ cur[w] = NoJob /\ j # NoJob =>
              {cur'[x] : x \in {y \in Workers : cur'[y] # NoJob}} =
                {cur[x] : x \in {y \in Workers : cur[y] # NoJob}} \cup {j}
         /\ j = NoJob /\ (\A x \in Workers \ {w} : cur[x] # cur[w]) =>
              {cur'[x] : x \in {y \in Workers : cur'[y] # NoJob}} =
                {cur[x] : x \in {y \in Workers : cur[y] # NoJob}} \ {cur[w]}
<1> DEFINE before == {cur[x] : x \in {y \in Workers : cur[y] # NoJob}}
           after  == {cur'[x] : x \in {y \in Workers : cur'[y] # NoJob}}
<1>1. cur'[w] = j /\ \A x \in Workers \ {w} : cur'[x] = cur[x]
  BY DEF TypeOK
<1>2. /\ \A z : z \in before <=> \E x \in Workers : cur[x] = z /\ z # NoJob
      /\ \A z : z \in after <=> \E x \in Workers : cur'[x] = z /\ z # NoJob
  BY Zenon
<1> HIDE DEF before, after
<1>3. ASSUME cur[w] = NoJob, j # NoJob PROVE after = before \cup {j}
  BY <1>1, <1>2, <1>3
<1>4. ASSUME j = NoJob, \A x \in Workers \ {w} : cur[x] # cur[w]
      PROVE  after = before \ {cur[w]}
  BY <1>1, <1>2, <1>4
<1> QED BY <1>3, <1>4 DEF before, after

\* Every step of a worker is a step of the promise, or changes nothing it can see.
LEMMA WorkerImplements ==
  ASSUME IInv, RunOnce, NEW w \in Workers, WorkerStep(w)
  PROVE  [Promise!Next]_Promise!vars
<1> USE DEF IInv
<1>1. ASSUME \/ Started(w) \/ LoopTest(w) \/ BsemWait(w) \/ AliveTest(w) \/ CountIn(w)
             \/ PullRepost(w) \/ CountDead(w) \/ UnlockDead(w)
      PROVE  UNCHANGED Promise!vars
  BY <1>1, Stutters DEF Started, LoopTest, BsemWait, AliveTest, CountIn, PullRepost, CountDead,
                        UnlockDead, poolVars, history
<1>2. ASSUME CountOut(w) PROVE UNCHANGED Promise!vars
  <2>1. \A c \in Clients : cpc'[c] = cpc[c] \/ (cpc[c] = "blocked" /\ cpc'[c] = "wait")
    BY <1>2 DEF CountOut, Signal, TypeOK, ClientPcs
  <2> QED BY <1>2, <2>1, Stutters, PoolAssumption DEF CountOut, history
<1>3. ASSUME Pull(w), queue = <<>> PROVE UNCHANGED Promise!vars
  BY <1>3, Stutters DEF Pull, poolVars, history
<1>4. ASSUME Pull(w), queue # <<>> PROVE Promise!Start
  <2>1. cur[w] = NoJob /\ Head(queue) # NoJob /\ cur' = [cur EXCEPT ![w] = Head(queue)]
    BY <1>4, QueueJobs, PoolAssumption DEF Pull, JobWhileRunning, TypeOK
  <2>2. {cur'[x] : x \in {y \in Workers : cur'[y] # NoJob}} =
          {cur[x] : x \in {y \in Workers : cur[y] # NoJob}} \cup {Head(queue)}
    BY <2>1, RunningAfter
  <2> QED BY <1>4, <2>2 DEF Pull, Promise!Start, poolVars, history
<1>5. ASSUME RunJob(w) PROVE \E j \in Jobs : Promise!Finish(j)
  <2>1. cur[w] # NoJob /\ cur[w] \in Jobs /\ cur' = [cur EXCEPT ![w] = NoJob]
    BY <1>5 DEF RunJob, JobWhileRunning, TypeOK
  <2>2. \A x \in Workers \ {w} : cur[x] # cur[w]
    BY <2>1 DEF RunOnce
  <2>3. {cur'[x] : x \in {y \in Workers : cur'[y] # NoJob}} =
          {cur[x] : x \in {y \in Workers : cur[y] # NoJob}} \ {cur[w]}
    BY <2>1, <2>2, RunningAfter
  <2>4. Promise!Finish(cur[w])
    BY <1>5, <2>1, <2>3 DEF RunJob, Promise!Finish, poolVars
  <2> QED BY <2>1, <2>4 DEF Promise!Finish
<1> QED BY <1>1, <1>2, <1>3, <1>4, <1>5 DEF WorkerStep, Promise!Next

\* So is every step of a client, in thpool_add_work or thpool_wait.
LEMMA ClientImplements ==
  ASSUME IInv, NEW c \in Clients,
         \/ ClientStep(c) \/ StartWait(c) \/ (\E j \in Jobs : AddWork(c, j))
  PROVE  [Promise!Next]_Promise!vars
<1> USE DEF IInv
<1>0. Promise!Added = Added
  BY DEF Promise!Added, Promise!ToSet, Added, ToSet
<1>1. ASSUME PushPost(c) PROVE UNCHANGED Promise!vars
  BY <1>1, Stutters DEF PushPost, TypeOK, poolVars, history
<1>2. ASSUME WaitTest(c), ~AllIdle \/ c \notin Waiters PROVE UNCHANGED Promise!vars
  BY <1>2, Stutters DEF WaitTest, TypeOK, poolVars, history
<1>3. ASSUME WaitTest(c), AllIdle, c \in Waiters PROVE Promise!EndWait(c)
  <2>1. owed[c] \subseteq done
    BY <1>3, AddedFacts DEF WaitTest, OwedKept
  <2>2. {x \in Waiters : cpc'[x] \in {"wait", "blocked"}} =
          {x \in Waiters : cpc[x] \in {"wait", "blocked"}} \ {c}
    BY <1>3, PoolAssumption DEF WaitTest, TypeOK
  <2> QED BY <1>3, <2>1, <2>2 DEF WaitTest, Promise!EndWait, poolVars, history
<1>4. ASSUME StartWait(c) PROVE Promise!BeginWait(c)
  <2>1. {x \in Waiters : cpc'[x] \in {"wait", "blocked"}} =
          {x \in Waiters : cpc[x] \in {"wait", "blocked"}} \cup {c}
    BY <1>4, PoolAssumption DEF StartWait, TypeOK
  <2>2. [x \in Waiters |-> owed'[x]] = [[x \in Waiters |-> owed[x]] EXCEPT ![c] = Added]
    BY <1>4, PoolAssumption DEF StartWait, TypeOK
  <2> QED BY <1>0, <1>4, <2>1, <2>2 DEF StartWait, Promise!BeginWait, poolVars
<1>5. ASSUME NEW j \in Jobs, AddWork(c, j) PROVE Promise!Add(j)
  <2>1. {x \in Waiters : cpc'[x] \in {"wait", "blocked"}} =
          {x \in Waiters : cpc[x] \in {"wait", "blocked"}}
    BY <1>5, PoolAssumption DEF AddWork, TypeOK
  <2> QED BY <1>0, <1>5, <2>1 DEF AddWork, Usable, Promise!Add, poolVars, history
<1> QED BY <1>1, <1>2, <1>3, <1>4, <1>5 DEF ClientStep, StartWait, Promise!Next

\* So are the steps of thpool_init and thpool_destroy, and waking up for nothing.
LEMMA OwnerImplements ==
  ASSUME IInv, OwnerStep \/ StartDestroy \/ SpuriousWakeup \/ UNCHANGED vars
  PROVE  [Promise!Next]_Promise!vars
<1> USE PoolAssumption DEF IInv
<1>1. ASSUME InitReturns \/ StartDestroy PROVE UNCHANGED Promise!vars
  BY <1>1, Stutters DEF InitReturns, StartDestroy, TypeOK, poolVars, history
<1>2. ASSUME DestroyPoll \/ UNCHANGED vars PROVE UNCHANGED Promise!vars
  BY <1>2, Stutters DEF DestroyPoll, vars, poolVars, history
<1>3. ASSUME SpuriousWakeup PROVE UNCHANGED Promise!vars
  BY <1>3, Stutters DEF SpuriousWakeup, TypeOK, poolVars, history
<1>4. ASSUME DestroyFree PROVE Promise!Free
  <2>1. In(wpc, Alive) = {}
    <3>1. In(wpc, Alive) \in SUBSET Workers
      BY DEF TypeOK, In
    <3>2. IsFiniteSet(In(wpc, Alive)) /\ Cardinality(In(wpc, Alive)) = 0
      BY <1>4, <3>1, FS_Subset DEF DestroyFree, Counts
    <3> QED BY <3>2, FS_EmptySet
  <2>2. \A w \in Workers : cur[w] = NoJob
    BY <2>1 DEF JobWhileRunning, TypeOK, In, Alive, Busy
  <2> QED BY <1>4, <2>2 DEF DestroyFree, Promise!Free, history
<1> QED BY <1>1, <1>2, <1>3, <1>4 DEF OwnerStep, Promise!Next

\* Every step of the pool is a step JobPool allows, or none at all.
LEMMA StepImplements == IInv /\ RunOnce /\ [Next]_vars => [Promise!Next]_Promise!vars
BY WorkerImplements, ClientImplements, OwnerImplements DEF Next, Gone

\* The pool with its locks, its semaphore and its two counters is a queue from which
\* jobs start in the order they were added, each once, whose waits end when what
\* they wait for is done, and which is freed when nothing runs: JobPool's safety, for
\* any number of workers, clients and jobs.
THEOREM ImplementsJobPool == Spec => Promise!Spec
<1>1. Init => Promise!Init
  BY PoolAssumption DEF Init, Promise!Init
<1>2. IInv /\ RunOnce /\ [Next]_vars => [Promise!Next]_Promise!vars
  BY StepImplements
<1> QED BY <1>1, <1>2, Inductive, JobRunsOnce, PTL DEF Spec, Promise!Spec
=============================================================================
