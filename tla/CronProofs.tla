----------------------------- MODULE CronProofs -----------------------------
(***************************************************************************)
(* Proofs about Cron for any number of tasks, any period and timeout, and  *)
(* a clock the NTP servers may set anywhere: job threads never meet, no    *)
(* task is left armed, no trigger time is served twice.                    *)
(***************************************************************************)
EXTENDS Cron, TLAPS

\* The multiples of Period are the trigger times: CronNext is the first one after t.
LEMMA FirstAfter ==
  ASSUME NEW t \in Nat
  PROVE  /\ CronNext(t) \in Nat
         /\ CronNext(t) > t
         /\ CronNext(t) - Period <= t
<1> DEFINE q == t \div Period
<1>1. Period \in Nat /\ Period > 0
  BY CronAssumption
<1>2. q \in Int
  BY <1>1
<1>3. Period * q <= t
  BY <1>1
<1>4. Period * q > t - Period
  BY <1>1
<1>5. CronNext(t) = Period * q + Period
  BY <1>1, <1>2 DEF CronNext
<1> QED BY <1>1, <1>2, <1>3, <1>4, <1>5

-----------------------------------------------------------------------------
\* The cron thread is between jobs, or waits for one of the task at ptr.
Between == cpc \in {"sleep", "scan"}

OneJob ==
  /\ Between => jpc = "none"
  /\ cpc \in {"wait", "timedwait", "check", "join"} =>
       ptr \in Tasks /\ (jpc = "none" => ptr \in unborn)
  /\ cpc = "lost" => jpc = "none"

\* Only the task whose job has not begun is armed, and those that got no thread.
ArmedIsStarting ==
  \A t \in Tasks : cl_Pid[t] = "armed" => (jpc = "begin" /\ t = ptr) \/ t \in unborn

\* A task's next trigger time comes after every one it was served for.
ServedBefore == \A t \in Tasks : served[t] < nextTrigger[t]

CInv == TypeOK /\ OneJob /\ ArmedIsStarting /\ ServedBefore

\* The inductive invariant of the scheduler.
THEOREM Scheduled == Spec => []CInv
<1> USE DEF CInv, TypeOK, OneJob, Between, ArmedIsStarting, ServedBefore, Tasks, Never
<1>1. Init => CInv
  <2> SUFFICES ASSUME Init PROVE CInv
    OBVIOUS
  <2>1. CronNext(0) \in Nat /\ CronNext(0) > 0
    <3>1. 0 \in Nat
      OBVIOUS
    <3> QED BY <3>1, FirstAfter, Zenon
  <2>2. TypeOK
    <3>1. now \in 0 .. MaxTime /\ nextTrigger \in [Tasks -> Nat]
      BY <2>1, CronAssumption DEF Init
    <3>2. cl_Pid \in [Tasks -> {"waiting", "armed", "none"}]
      BY DEF Init
    <3>3. ptr \in 1 .. NumTasks + 1 /\ deadline \in Nat
      BY CronAssumption DEF Init
    <3>4. tried \in [Tasks -> Nat \cup {Never}] /\ served \in [Tasks -> Nat \cup {Never}]
      BY DEF Init
    <3>5. asked \subseteq {"primary", "second"} \X {"answered", "refused", "silent"}
      BY DEF Init
    <3> QED BY <3>1, <3>2, <3>3, <3>4, <3>5 DEF Init
  <2>3. OneJob /\ ArmedIsStarting
    BY DEF Init
  <2>4. ServedBefore
    BY <2>1 DEF Init
  <2> QED BY <2>2, <2>3, <2>4
<1>2. CInv /\ [Next]_vars => CInv'
  <2> SUFFICES ASSUME CInv, [Next]_vars PROVE CInv'
    OBVIOUS
  <2> USE CronAssumption DEF task, crond
  <2>1. ASSUME Tick PROVE CInv'
    BY <2>1 DEF Tick
  <2>2. ASSUME CronThread PROVE CInv'
    <3>1. ASSUME WakeUp PROVE CInv'
      BY <3>1 DEF WakeUp
    <3>10. ASSUME EndScan PROVE CInv'
      BY <3>10 DEF EndScan
    <3>2. ASSUME Skip PROVE CInv'
      BY <3>2 DEF Skip
    <3>3. ASSUME Arm PROVE CInv'
      <4>1. TypeOK'
        BY <3>3 DEF Arm
      <4>2. OneJob' /\ ArmedIsStarting' /\ ServedBefore'
        BY <3>3 DEF Arm
      <4> QED BY <4>1, <4>2
    <3>8. ASSUME ArmFails PROVE CInv'
      <4>1. ptr \in Tasks /\ jpc = "none"
        BY <3>8 DEF ArmFails
      <4>2. TypeOK'
        BY <3>8, <4>1 DEF ArmFails
      <4>3. OneJob' /\ ServedBefore'
        BY <3>8, <4>1 DEF ArmFails
      <4>4. ArmedIsStarting'
        BY <3>8, <4>1 DEF ArmFails
      <4> QED BY <4>2, <4>3, <4>4
    <3>4. ASSUME Wait PROVE CInv'
      <4>1. deadline' \in Nat
        BY <3>4 DEF Wait
      <4> QED BY <3>4, <4>1 DEF Wait
    <3>5. ASSUME EndWait PROVE CInv'
      BY <3>5 DEF EndWait
    <3>6. ASSUME Check PROVE CInv'
      <4>1. cancelled' \in BOOLEAN
        BY <3>6, Zenon DEF Check
      <4> QED BY <3>6, <4>1 DEF Check
    <3>7. ASSUME Join PROVE CInv'
      BY <3>7 DEF Join
    <3>9. ASSUME JoinNobody PROVE CInv'
      BY <3>9 DEF JoinNobody
    <3> QED BY <2>2, <3>1, <3>2, <3>3, <3>4, <3>5, <3>6, <3>7, <3>8, <3>9, <3>10 DEF CronThread
  <2>3. ASSUME JobThread PROVE CInv'
    <3>1. ASSUME Begin PROVE CInv'
      BY <3>1 DEF Begin
    <3>2. ASSUME NoZoneFile PROVE CInv'
      BY <3>2 DEF NoZoneFile
    <3>3. ASSUME NEW s \in {"primary", "second"}, Ask(s)
          PROVE  /\ now' \in 0 .. MaxTime /\ ntpTimeSync' \in BOOLEAN
                 /\ asked' \subseteq {"primary", "second"} \X {"answered", "refused", "silent"}
      <4> DEFINE Said == {"primary", "second"} \X {"answered", "refused", "silent"}
      <4>1. \A a \in {"answered", "refused", "silent"} : <<s, a>> \in Said
        OBVIOUS
      <4>2. /\ now' \in 0 .. MaxTime /\ ntpTimeSync' \in BOOLEAN
            /\ \E a \in {"answered", "refused", "silent"} : asked' = asked \cup {<<s, a>>}
        BY <3>3 DEF Ask, Answers, Refused, Silent
      <4>3. asked \subseteq Said
        OBVIOUS
      <4> HIDE DEF Said
      <4>4. asked' \subseteq Said
        BY <4>1, <4>2, <4>3
      <4> QED BY <4>2, <4>4 DEF Said
    <3>4. ASSUME Primary PROVE CInv'
      BY <3>3, <3>4 DEF Primary
    <3>5. ASSUME Second PROVE CInv'
      BY <3>3, <3>5 DEF Second
    <3>6. ASSUME Update PROVE CInv'
      <4>1. now \in Nat
        OBVIOUS
      <4>2. CronNext(now) \in Nat /\ CronNext(now) > now
        BY <4>1, FirstAfter, Zenon
      <4>3. /\ nextTrigger' = [nextTrigger EXCEPT ![ptr] = CronNext(now)]
            /\ served' = [served EXCEPT ![ptr] = IF tried[ptr] <= now THEN tried[ptr]
                                                 ELSE Never]
        BY <3>6 DEF Update
      <4>4. nextTrigger' \in [Tasks -> Nat] /\ served' \in [Tasks -> Nat \cup {Never}]
        BY <4>2, <4>3
      <4>5. ServedBefore'
        <5> SUFFICES ASSUME NEW t \in Tasks PROVE served'[t] < nextTrigger'[t]
          BY Zenon DEF ServedBefore
        <5>1. CASE t = ptr
          <6>1. nextTrigger'[t] = CronNext(now)
            BY <4>3, <5>1
          <6>2. served'[t] = IF tried[ptr] <= now THEN tried[ptr] ELSE Never
            BY <4>3, <5>1
          <6>3. tried[ptr] \in Nat \cup {Never}
            BY <5>1
          <6> HIDE DEF TypeOK, OneJob, ArmedIsStarting, ServedBefore, Tasks
          <6> QED BY <4>1, <4>2, <6>1, <6>2, <6>3
        <5>2. CASE t # ptr
          <6>1. nextTrigger'[t] = nextTrigger[t] /\ served'[t] = served[t]
            BY <4>3, <5>2
          <6> QED BY <6>1
        <5> QED BY <5>1, <5>2
      <4>6. TypeOK'
        BY <3>6, <4>4 DEF Update
      <4>7. OneJob' /\ ArmedIsStarting'
        BY <3>6 DEF Update
      <4> QED BY <4>5, <4>6, <4>7
    <3>7. ASSUME Cancel \/ Complete PROVE CInv'
      BY <3>7 DEF Cancel, Complete
    <3> QED BY <2>3, <3>1, <3>2, <3>4, <3>5, <3>6, <3>7 DEF JobThread
  <2>4. ASSUME UNCHANGED vars PROVE CInv'
    BY <2>4 DEF vars
  <2>5. Gone => UNCHANGED vars
    BY DEF Gone
  <2> QED BY <2>1, <2>2, <2>3, <2>4, <2>5 DEF Next
<1> QED BY <1>1, <1>2, PTL DEF Spec

-----------------------------------------------------------------------------
\* Every variable keeps its type, and isFunctionCompleted is the present job's.
THEOREM TypeCorrect == Spec => []TypeOK
<1>1. CInv => TypeOK
  BY DEF CInv
<1> QED BY <1>1, Scheduled, PTL

\* A job thread is gone when the cron thread goes on to the next task: two jobs never
\* share the condition variable and the flag that arm_jobs makes anew.
THEOREM JobsNeverMeet == Spec => []SoloJob
<1>1. CInv => SoloJob
  BY DEF CInv, OneJob, Between, SoloJob
<1> QED BY <1>1, Scheduled, PTL

\* However a job ends, by itself or cancelled in any of its system calls, its task can be
\* started again; the only tasks left armed are those whose thread could not be created.
THEOREM TasksComeBack == Spec => []NeverLeftArmed
<1>1. CInv => NeverLeftArmed
  BY DEF CInv, OneJob, Between, ArmedIsStarting, NeverLeftArmed
<1> QED BY <1>1, Scheduled, PTL

\* A trigger time that has been served never starts its task again, wherever the
\* task itself has set the clock.
THEOREM ServedOnce == Spec => OncePerTrigger
<1>1. CInv => [\A t \in Tasks : cl_Pid[t] # "armed" /\ cl_Pid'[t] = "armed" =>
                 nextTrigger[t] # served[t]]_vars
  BY DEF CInv, TypeOK, ServedBefore, Never
<1> QED BY <1>1, Scheduled, PTL DEF OncePerTrigger
=============================================================================
