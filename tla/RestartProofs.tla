---------------------------- MODULE RestartProofs ----------------------------
(***************************************************************************)
(* Proofs about Restart for any number of commands, with or without a TCP  *)
(* client that goes away: thpool_wait protects the accepted commands from  *)
(* all three threads that may clean up.                                    *)
(***************************************************************************)
EXTENDS Restart, Lemmas, TLAPS

SomePast == \E c \in Cleaners : Past(c)

\* While nobody is past thpool_wait the pool is there, and what the first thread waits
\* for is not forgotten.
OwedKept == ~SomePast => ~freed /\ owed \subseteq Accepted

RInv == TypeOK /\ OwedKept /\ NoCommandCutOff

\* While nobody is past thpool_wait an accepted command stays accepted: in the queue, on
\* the worker, or done.
LEMMA NothingForgotten == ASSUME TypeOK, [Next]_vars, ~SomePast PROVE Accepted \subseteq Accepted'
<1> USE DEF Accepted
<1>1. ASSUME Arrive PROVE Accepted \subseteq Accepted'
  <2>1. PICK j \in Jobs : queue' = Append(queue, j)
    BY <1>1 DEF Arrive
  <2>2. ToSet(queue') = ToSet(queue) \cup {j}
    BY <2>1, RearSet DEF TypeOK
  <2> QED BY <1>1, <2>2 DEF Arrive
<1>2. ASSUME TakeJob PROVE Accepted \subseteq Accepted'
  <2>1. ToSet(queue) = {Head(queue)} \cup ToSet(Tail(queue)) /\ Head(queue) \in Jobs
    BY <1>2, FrontSet DEF TakeJob, TypeOK
  <2>2. ToSet(cur) = {} /\ ToSet(cur') = {Head(queue)}
    BY <1>2, <2>1, MemberSet DEF TakeJob, TypeOK
  <2> QED BY <1>2, <2>1, <2>2 DEF TakeJob
<1>3. ASSUME EndJob PROVE Accepted \subseteq Accepted'
  BY <1>3 DEF EndJob
<1>4. ASSUME SigPipe \/ Install \/ MainWakes PROVE Accepted \subseteq Accepted'
  BY <1>4 DEF SigPipe, Install, MainWakes, poolVars
<1>5. ASSUME NEW c \in Cleaners, Clean(c) PROVE Accepted \subseteq Accepted'
  <2>1. ~Destroy(c)
    BY DEF SomePast, Past, Destroy, At
  <2> QED BY <1>5, <2>1 DEF Clean, ClearFlag, CloseTcp, Wait, StartDestroy, Leave, poolVars
<1>6. ASSUME UNCHANGED vars PROVE Accepted \subseteq Accepted'
  BY <1>6 DEF vars
<1> QED BY <1>1, <1>2, <1>3, <1>4, <1>5, <1>6 DEF Next, Worker

\* Every variable keeps its type, and a worker in the signal handler keeps its job.
THEOREM TypeCorrect == Spec => []TypeOK
<1> USE DEF TypeOK
<1>1. Init => TypeOK
  <2> SUFFICES ASSUME Init PROVE TypeOK
    OBVIOUS
  <2>1. cur \in Seq(Jobs) /\ Len(cur) = 1
    BY RestartAssumption DEF Init, Jobs, Update
  <2>2. queue \in Seq(Jobs)
    BY DEF Init
  <2>3. pc \in [Cleaners -> {"run", "rename", "flag", "close", "wait", "blocked",
                             "destroy", "free", "last", "gone"}]
    BY DEF Init
  <2>4. pc["worker"] = "run"
    BY DEF Init, Cleaners
  <2>5. done \in SUBSET Jobs /\ dropped \in SUBSET Jobs /\ owed \in SUBSET Jobs
    BY DEF Init
  <2>6. /\ app_running \in BOOLEAN /\ listed \in BOOLEAN /\ keepalive \in BOOLEAN
        /\ freed \in BOOLEAN /\ installed \in BOOLEAN
    BY RestartAssumption, Zenon DEF Init
  <2> QED BY <2>1, <2>2, <2>3, <2>4, <2>5, <2>6 DEF Init
<1>2. TypeOK /\ [Next]_vars => TypeOK'
  <2> SUFFICES ASSUME TypeOK, [Next]_vars PROVE TypeOK'
    OBVIOUS
  <2> USE DEF At, Goto, poolVars, Undefined, Cleaners
  <2>1. ASSUME Arrive PROVE TypeOK'
    BY <2>1 DEF Arrive
  <2>2. ASSUME TakeJob PROVE TypeOK'
    <3>1. Head(queue) \in Jobs /\ Tail(queue) \in Seq(Jobs)
      BY <2>2, FrontSet DEF TakeJob
    <3> QED BY <2>2, <3>1 DEF TakeJob
  <2>3. ASSUME EndJob PROVE TypeOK'
    <3>1. ToSet(cur) \subseteq Jobs
      BY MemberSet
    <3>2. cur' = <<>> /\ pc["worker"] = "run"
      BY <2>3 DEF EndJob
    <3>3. /\ pc' \in [Cleaners -> {"run", "rename", "flag", "close", "wait", "blocked",
                                   "destroy", "free", "last", "gone"}]
          /\ pc'["worker"] = "run"
      BY <2>3 DEF EndJob
    <3> QED BY <2>3, <3>1, <3>2, <3>3 DEF EndJob
  <2>4. ASSUME SigPipe PROVE TypeOK'
    BY <2>4 DEF SigPipe
  <2>5. ASSUME Install \/ MainWakes PROVE TypeOK'
    <3>1. CASE Install
      BY <3>1 DEF Install
    <3>2. CASE MainWakes
      BY <3>2 DEF MainWakes
    <3> QED BY <2>5, <3>1, <3>2
  <2>6. ASSUME NEW c \in Cleaners, Clean(c) PROVE TypeOK'
    <3>1. ASSUME ClearFlag(c) PROVE TypeOK'
      BY <3>1 DEF ClearFlag
    <3>2. ASSUME CloseTcp(c) PROVE TypeOK'
      <4>1. Accepted \in SUBSET Jobs
        BY MemberSet DEF Accepted
      <4> QED BY <3>2, <4>1 DEF CloseTcp
    <3>3. ASSUME Wait(c) PROVE TypeOK'
      BY <3>3 DEF Wait
    <3>4. ASSUME Destroy(c) PROVE TypeOK'
      <4>1. ToSet(queue) \in SUBSET Jobs
        BY MemberSet
      <4> QED BY <3>4, <4>1 DEF Destroy
    <3>5. ASSUME StartDestroy(c) \/ Leave(c) PROVE TypeOK'
      <4>1. CASE StartDestroy(c)
        BY <4>1 DEF StartDestroy
      <4>2. CASE Leave(c)
        BY <4>2 DEF Leave
      <4> QED BY <3>5, <4>1, <4>2
    <3> QED BY <2>6, <3>1, <3>2, <3>3, <3>4, <3>5 DEF Clean
  <2>7. ASSUME UNCHANGED vars PROVE TypeOK'
    BY <2>7 DEF vars
  <2> QED BY <2>1, <2>2, <2>3, <2>4, <2>5, <2>6, <2>7 DEF Next, Worker
<1> QED BY <1>1, <1>2, PTL DEF Spec

\* Nobody who is past thpool_wait comes back before it.
LEMMA PastStays == ASSUME TypeOK, [Next]_vars, SomePast PROVE SomePast'
<1>1. PICK c \in Cleaners : Past(c)
  BY DEF SomePast
<1>2. pc'[c] = pc[c] \/ pc'[c] \in {"free", "last", "gone"}
  <2> USE <1>1 DEF TypeOK, At, Goto, Past, Cleaners
  <2>1. ASSUME Arrive \/ TakeJob \/ SigPipe \/ Install \/ MainWakes PROVE pc'[c] = pc[c]
    BY <2>1 DEF Arrive, TakeJob, SigPipe, Install, MainWakes
  <2>2. ASSUME EndJob PROVE pc'[c] = pc[c]
    BY <2>2 DEF EndJob
  <2>3. ASSUME NEW d \in Cleaners, Clean(d)
        PROVE pc'[c] = pc[c] \/ pc'[c] \in {"free", "last", "gone"}
    BY <2>3 DEF Clean, ClearFlag, CloseTcp, Wait, StartDestroy, Destroy, Leave
  <2>4. ASSUME UNCHANGED vars PROVE pc'[c] = pc[c]
    BY <2>4 DEF vars
  <2> QED BY <2>1, <2>2, <2>3, <2>4 DEF Next, Worker
<1> QED BY <1>1, <1>2 DEF SomePast, Past

\* What the first thread waits for stays accepted until somebody is past thpool_wait.
LEMMA OwedStays == TypeOK /\ OwedKept /\ [Next]_vars => OwedKept'
<1> SUFFICES ASSUME TypeOK, OwedKept, [Next]_vars, ~SomePast' PROVE ~freed' /\ owed' \subseteq Accepted'
  BY DEF OwedKept
<1>1. ~SomePast /\ ~freed /\ owed \subseteq Accepted /\ Accepted \subseteq Accepted'
  BY NothingForgotten, PastStays DEF OwedKept
<1>2. ASSUME NEW c \in Cleaners, CloseTcp(c) PROVE ~freed' /\ owed' \subseteq Accepted'
  BY <1>1, <1>2 DEF CloseTcp
<1>3. ASSUME ~(\E c \in Cleaners : CloseTcp(c)) PROVE UNCHANGED <<owed, freed>>
  <2>1. \A c \in Cleaners : ~Destroy(c)
    BY <1>1 DEF SomePast, Past, Destroy, At
  <2> QED BY <1>3, <2>1 DEF Next, vars, Arrive, Worker, TakeJob, EndJob, SigPipe, Install, MainWakes,
                            Clean, ClearFlag, Wait, StartDestroy, Leave, poolVars
<1> QED BY <1>1, <1>2, <1>3

\* The first one gets past thpool_wait when what is owed is done; what is owed does not
\* change any more then, and what is done stays done.
LEMMA WaitProtects == RInv /\ [Next]_vars => NoCommandCutOff'
<1> SUFFICES ASSUME RInv, [Next]_vars, SomePast' PROVE owed' \subseteq done'
  BY DEF NoCommandCutOff, SomePast
<1> USE DEF RInv, TypeOK
<1>1. CASE SomePast
  <2>1. owed \subseteq done
    BY <1>1 DEF NoCommandCutOff, SomePast
  <2>2. owed' = owed
    <3>1. \E d \in Cleaners : Began(d)
      BY <1>1 DEF SomePast, Past, Began
    <3> QED BY <3>1 DEF Next, vars, Arrive, Worker, TakeJob, EndJob, SigPipe, Install, MainWakes, Clean,
                        ClearFlag, CloseTcp, Wait, StartDestroy, Destroy, Leave, poolVars
  <2>3. done \subseteq done'
    BY DEF Next, vars, Arrive, Worker, TakeJob, EndJob, SigPipe, Install, MainWakes, Clean,
           ClearFlag, CloseTcp, Wait, StartDestroy, Destroy, Leave, poolVars
  <2> QED BY <2>1, <2>2, <2>3
<1>2. CASE ~SomePast
  <2> USE <1>2 DEF At, Goto
  <2>1. PICK c \in Cleaners : Wait(c) /\ Idle
    <3> USE DEF SomePast, Past, Cleaners
    <3>1. ~(Arrive \/ TakeJob \/ SigPipe \/ Install \/ MainWakes)
      BY DEF Arrive, TakeJob, SigPipe, Install, MainWakes
    <3>2. ~EndJob
      BY DEF EndJob
    <3>3. ~UNCHANGED vars
      BY DEF vars
    <3>4. ASSUME NEW d \in Cleaners, Clean(d) PROVE Wait(d) /\ Idle
      BY <3>4 DEF Clean, ClearFlag, CloseTcp, Wait, StartDestroy, Destroy, Leave, OwedKept
    <3> QED BY <3>1, <3>2, <3>3, <3>4 DEF Next, Worker
  <2>2. Accepted = done
    BY <2>1, MemberSet DEF Idle, Accepted
  <2>3. owed \subseteq done /\ UNCHANGED <<owed, done>>
    BY <2>1, <2>2 DEF OwedKept, Wait, poolVars
  <2> QED BY <2>3
<1> QED BY <1>1, <1>2

\* Whoever destroys the pool, executes the new program or ends the process: every command
\* accepted before the first of the three threads began to wait has ended, whatever their
\* order, however many commands keep coming and are thrown away with the queue, and
\* whatever a thread reads that waits for the pool after it was freed.
THEOREM CommandsProtected == Spec => []NoCommandCutOff
<1>1. Init => OwedKept /\ NoCommandCutOff
  BY DEF Init, OwedKept, NoCommandCutOff
<1>2. TypeOK /\ OwedKept /\ [Next]_vars => OwedKept'
  BY OwedStays
<1>3. RInv /\ [Next]_vars => NoCommandCutOff'
  BY WaitProtects
<1> QED BY <1>1, <1>2, <1>3, TypeCorrect, PTL DEF Spec, RInv
=============================================================================
