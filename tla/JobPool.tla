------------------------------ MODULE JobPool ------------------------------
(***************************************************************************)
(* What the thread pool of third_lib/thpool promises its callers, without  *)
(* threads, semaphores or locks: jobs start in the order in which they     *)
(* were added, each is run once, a caller that waits is only released when *)
(* every job added before it began to wait has finished, and the pool is   *)
(* only freed when no job is running.  Thpool.tla implements it.           *)
(***************************************************************************)
EXTENDS Sequences, SequencesExt

CONSTANTS
  Jobs,      \* the jobs the program may add, each at most once
  Waiters    \* the threads that call thpool_wait

VARIABLES
  pending,   \* the jobs added and not started, in the order they were added
  running,   \* the jobs some thread is executing
  done,      \* the jobs whose function has returned
  waiting,   \* the threads inside thpool_wait
  owed,      \* for each of them, the jobs that had been added when it began
  freed      \* the pool was destroyed

vars == <<pending, running, done, waiting, owed, freed>>

Added == ToSet(pending) \cup running \cup done

Init ==
  /\ pending = <<>>
  /\ running = {}
  /\ done = {}
  /\ waiting = {}
  /\ owed = [c \in Waiters |-> {}]
  /\ freed = FALSE

Add(j) ==
  /\ ~freed
  /\ j \notin Added
  /\ pending' = Append(pending, j)
  /\ UNCHANGED <<running, done, waiting, owed, freed>>

Start ==
  /\ pending # <<>>
  /\ running' = running \cup {Head(pending)}
  /\ pending' = Tail(pending)
  /\ UNCHANGED <<done, waiting, owed, freed>>

Finish(j) ==
  /\ j \in running
  /\ running' = running \ {j}
  /\ done' = done \cup {j}
  /\ UNCHANGED <<pending, waiting, owed, freed>>

BeginWait(c) ==
  /\ c \notin waiting
  /\ waiting' = waiting \cup {c}
  /\ owed' = [owed EXCEPT ![c] = Added]
  /\ UNCHANGED <<pending, running, done, freed>>

EndWait(c) ==
  /\ c \in waiting
  /\ owed[c] \subseteq done
  /\ waiting' = waiting \ {c}
  /\ UNCHANGED <<pending, running, done, owed, freed>>

\* Jobs that have not started are thrown away.
Free ==
  /\ ~freed
  /\ running = {}
  /\ freed' = TRUE
  /\ pending' = <<>>
  /\ UNCHANGED <<running, done, waiting, owed>>

Next ==
  \/ \E j \in Jobs : Add(j) \/ Finish(j)
  \/ \E c \in Waiters : BeginWait(c) \/ EndWait(c)
  \/ Start
  \/ Free

Spec == Init /\ [][Next]_vars

\* A job at the head of the queue is started, a job that runs ends, and at the end of the
\* work one of the threads that wait for it is released.  It is not promised that each of
\* several is, although thpool.h:74 says so.
FairSpec ==
  /\ Spec
  /\ WF_vars(Start)
  /\ \A j \in Jobs : WF_vars(Finish(j))
  /\ \A S \in SUBSET Waiters :
       (S # {} /\ waiting = S /\ Added # done) ~> (waiting # S \/ freed)
=============================================================================
