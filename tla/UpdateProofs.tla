---------------------------- MODULE UpdateProofs ----------------------------
(***************************************************************************)
(* Proofs about Update for any number of commands, power cuts and threads: *)
(* what can take the program away from the device, that a gateway which    *)
(* stops serving has installed something, and that commands which come one *)
(* after the other never write to each other's image.                      *)
(***************************************************************************)
EXTENDS Update, TLAPS

\* A command is somewhere between its arrival and the end of its update thread.
InFlight(t) == upd[t] \in {"start", "clean", "exec"}

\* No command is in the queue that has not arrived, which bounds the queue.
Counted == TypeOK /\ pending <= arrived

\* Of commands that do not overlap at most one is in the queue, on the worker or in
\* an update thread.
OneAtATime ==
  /\ pending \in {0, 1}
  /\ pending = 1 => wpc = "idle"
  /\ pending = 1 \/ wpc # "idle" => \A t \in Threads : ~InFlight(t)
  /\ \A s, t \in Threads : InFlight(s) /\ InFlight(t) => s = t

\* What a file can be that has passed the check, or has gone since.
Passed == {"new", "absent"} \cup (IF ZeroStack THEN {"empty"} ELSE {})

Waiting == \E t \in Threads : upd[t] = "start"

\* What an update thread finds is what the worker has checked, or nothing, unless the
\* image was touched since; and whoever writes to an image that waits for its rename,
\* or to the program's file, has touched it.
ImageSealed ==
  /\ sink # "none" /\ (sink = "app" \/ Waiting) => seal = "broken"
  /\ wpc = "spawn" \/ (Waiting /\ seal = "whole") => temp \in Passed

\* Nobody has written to the image since its last check.
Untouched == seal = "whole"

\* The first program is never downloaded, and gone for good once it is replaced.
Replaced == temp # "old" /\ medium.temp # "old" /\ CleanOnlyWhenInstalled

-----------------------------------------------------------------------------
\* Every variable keeps its type, and the image is open exactly while it is written.
THEOREM TypeCorrect == Spec => []TypeOK
<1>1. Init => Counted
  <2>1. NoThread \in [Threads -> {"none", "start", "clean", "exec", "gone"}]
    BY DEF NoThread
  <2> QED BY <2>1, UpdateAssumption DEF Init, Counted, TypeOK, Contents
<1>2. Counted /\ [Next]_vars => Counted'
  <2> SUFFICES ASSUME Counted, [Next]_vars PROVE Counted'
    OBVIOUS
  <2> USE DEF Counted, TypeOK, Contents
  <2>1. ASSUME Arrive PROVE Counted'
    BY <2>1, UpdateAssumption DEF Arrive, files
  <2>2. ASSUME Worker PROVE Counted'
    <3>1. ASSUME Take PROVE Counted'
      BY <3>1, UpdateAssumption DEF Take, files
    <3>2. ASSUME ConnectFails \/ NoBody PROVE Counted'
      <4>1. wpc' \in {"idle", "read"} /\ sink = "none" /\ UNCHANGED <<files, crc, upd, pending, arrived, cuts, running>>
        BY <3>2 DEF ConnectFails, NoBody
      <4> QED BY <4>1 DEF files
    <3>9. ASSUME FirstData PROVE Counted'
      <4>1. seal' \in {"whole", "broken"}
        BY <3>9 DEF FirstData, Touch
      <4> QED BY <3>9, <4>1 DEF FirstData
    <3>10. ASSUME DownloadFails PROVE Counted'
      BY <3>10 DEF DownloadFails
    <3>3. ASSUME MoreData PROVE Counted'
      BY <3>3 DEF MoreData, Write
    <3>4. ASSUME DownloadEnds PROVE Counted'
      BY <3>4, UpdateAssumption DEF DownloadEnds, Write, AllBodies
    <3>5. ASSUME ReadCrc PROVE Counted'
      BY <3>5 DEF ReadCrc, CrcOf, files
    <3>6. ASSUME Strip PROVE Counted'
      <4>1. CASE temp = "absent"
        BY <3>6, <4>1 DEF Strip, Stripped
      <4>2. CASE temp # "absent"
        <5>1. seal' \in {"whole", "broken"}
          BY <3>6, <4>2 DEF Strip, Touch
        <5>2. Stripped(temp) \in Contents
          BY DEF Stripped
        <5>3. sink = "none" /\ temp' = Stripped(temp) /\ wpc' = "check" /\ dirty' = dirty \cup {"temp"}
              /\ UNCHANGED <<app, sink, medium, crc, upd, pending, arrived, cuts, running>>
          BY <3>6, <4>2 DEF Strip
        <5> QED BY <5>1, <5>2, <5>3
      <4> QED BY <4>1, <4>2
    <3>7. ASSUME Check PROVE Counted'
      BY <3>7 DEF Check, files
    <3>8. ASSUME Spawn PROVE Counted'
      <4>1. upd' \in [Threads -> {"none", "start", "clean", "exec", "gone"}]
        BY <3>8 DEF Spawn
      <4> QED BY <3>8, <4>1 DEF Spawn
    <3> QED BY <2>2, <3>1, <3>2, <3>3, <3>4, <3>5, <3>6, <3>7, <3>8, <3>9, <3>10 DEF Worker
  <2>3. ASSUME NEW t \in Threads, Rename(t) PROVE Counted'
    <3>1. upd' \in [Threads -> {"none", "start", "clean", "exec", "gone"}]
      BY <2>3 DEF Rename
    <3>2. CASE temp = "absent"
      <4>1. UNCHANGED <<files, wpc, crc, pending, arrived, cuts, running>>
        BY <2>3, <3>2 DEF Rename
      <4> QED BY <3>1, <4>1 DEF files
    <3>3. CASE temp # "absent"
      <4>1. MoveImage /\ UNCHANGED <<wpc, crc, pending, arrived, cuts, running>>
        BY <2>3, <3>3 DEF Rename
      <4>2. sink' \in {"none", "temp", "app"} /\ (sink' # "none" <=> wpc' = "write")
        BY <4>1 DEF MoveImage
      <4>3. dirty' \subseteq {"app", "temp"}
        BY <4>1 DEF MoveImage
      <4> QED BY <3>1, <4>1, <4>2, <4>3 DEF MoveImage
    <3> QED BY <3>2, <3>3
  <2>4. ASSUME NEW t \in Threads, Clean(t) PROVE Counted'
    BY <2>4 DEF Clean, files
  <2>5. ASSUME NEW t \in Threads, Exec(t) PROVE Counted'
    <3>1. NoThread \in [Threads -> {"none", "start", "clean", "exec", "gone"}]
      BY DEF NoThread
    <3> QED BY <2>5, <3>1, UpdateAssumption DEF Exec, Boot, Runnable
  <2>6. ASSUME WriteBack PROVE Counted'
    BY <2>6 DEF WriteBack
  <2>7. ASSUME PowerCut PROVE Counted'
    <3>1. NoThread \in [Threads -> {"none", "start", "clean", "exec", "gone"}]
      BY DEF NoThread
    <3>2. app' \in Contents /\ temp' \in Contents
      BY <2>7 DEF PowerCut, Left
    <3>3. cuts' \in 0 .. MaxCuts
      BY <2>7, UpdateAssumption DEF PowerCut
    <3>4. pending' \in 0 .. MaxCommands /\ pending' <= arrived' /\ arrived' \in 0 .. MaxCommands
      BY <2>7, UpdateAssumption DEF PowerCut, Boot
    <3> QED BY <2>7, <3>1, <3>2, <3>3, <3>4 DEF PowerCut, Boot
  <2>8. ASSUME UNCHANGED vars PROVE Counted'
    BY <2>8 DEF vars, files
  <2> QED BY <2>1, <2>2, <2>3, <2>4, <2>5, <2>6, <2>7, <2>8 DEF Next
<1>3. Counted => TypeOK
  BY DEF Counted
<1> QED BY <1>1, <1>2, <1>3, PTL DEF Spec

-----------------------------------------------------------------------------
\* Commands that do not overlap stay one at a time.
LEMMA OneCommand == ASSUME ~Overlap PROVE TypeOK /\ OneAtATime /\ [Next]_vars => OneAtATime'
<1> SUFFICES ASSUME ~Overlap, TypeOK, OneAtATime, [Next]_vars PROVE OneAtATime'
  OBVIOUS
<1> USE DEF TypeOK, OneAtATime, InFlight
<1>1. ASSUME Arrive PROVE OneAtATime'
  BY <1>1 DEF Arrive
<1>2. ASSUME Worker PROVE OneAtATime'
  <2>1. ASSUME Take PROVE OneAtATime'
    BY <2>1 DEF Take
  <2>2. ASSUME ConnectFails \/ NoBody \/ FirstData \/ MoreData PROVE OneAtATime'
    BY <2>2 DEF ConnectFails, NoBody, FirstData, MoreData
  <2>3. ASSUME DownloadFails \/ DownloadEnds \/ ReadCrc PROVE OneAtATime'
    BY <2>3 DEF DownloadFails, DownloadEnds, ReadCrc
  <2>4. ASSUME Strip \/ Check PROVE OneAtATime'
    BY <2>4 DEF Strip, Check
  <2>5. ASSUME Spawn PROVE OneAtATime'
    BY <2>5 DEF Spawn
  <2> QED BY <1>2, <2>1, <2>2, <2>3, <2>4, <2>5 DEF Worker
<1>3. ASSUME NEW t \in Threads, Rename(t) \/ Clean(t) PROVE OneAtATime'
  BY <1>3 DEF Rename, Clean
<1>4. ASSUME NEW t \in Threads, Exec(t) PROVE OneAtATime'
  BY <1>4 DEF Exec, Boot, NoThread
<1>5. ASSUME WriteBack PROVE OneAtATime'
  BY <1>5 DEF WriteBack
<1>6. ASSUME PowerCut PROVE OneAtATime'
  BY <1>6 DEF PowerCut, Boot, NoThread
<1>7. ASSUME UNCHANGED vars PROVE OneAtATime'
  BY <1>7 DEF vars
<1> QED BY <1>1, <1>2, <1>3, <1>4, <1>5, <1>6, <1>7 DEF Next

\* As long as a command comes only when the one before is over, nobody writes to an
\* image between its check and its rename.
THEOREM SoloUpdate == ASSUME ~Overlap PROVE Spec => [](OneAtATime /\ Untouched)
<1>1. Init => OneAtATime /\ Untouched
  BY DEF Init, OneAtATime, InFlight, NoThread, Untouched
<1>2. TypeOK /\ OneAtATime /\ [Next]_vars => OneAtATime'
  BY OneCommand
<1>3. TypeOK /\ OneAtATime /\ Untouched /\ [Next]_vars => Untouched'
  <2> SUFFICES ASSUME TypeOK, OneAtATime, Untouched, [Next]_vars PROVE Untouched'
    OBVIOUS
  <2> USE DEF Untouched
  <2>1. Touch /\ wpc # "idle" => Untouched'
    BY DEF Touch, OneAtATime, InFlight
  <2>2. ASSUME Worker PROVE Untouched'
    BY <2>1, <2>2 DEF Worker, Take, ConnectFails, NoBody, FirstData, MoreData, DownloadFails, DownloadEnds,
       Write, ReadCrc, Strip, Check, Spawn, files
  <2>3. ASSUME NEW t \in Threads, Rename(t) \/ Clean(t) \/ Exec(t) PROVE Untouched'
    BY <2>3 DEF Rename, MoveImage, Clean, Exec, Boot, files
  <2>4. ASSUME Arrive \/ WriteBack \/ PowerCut \/ UNCHANGED vars PROVE Untouched'
    BY <2>4 DEF Arrive, WriteBack, PowerCut, Boot, files, vars
  <2> QED BY <2>2, <2>3, <2>4 DEF Next
<1> QED BY <1>1, <1>2, <1>3, TypeCorrect, PTL DEF Spec

-----------------------------------------------------------------------------
\* The seal of an image, through overlapping commands and power cuts.
LEMMA SealStays == TypeOK /\ ImageSealed /\ [Next]_vars => ImageSealed'
<1> SUFFICES ASSUME TypeOK, ImageSealed, [Next]_vars PROVE ImageSealed'
  OBVIOUS
<1> USE DEF TypeOK, ImageSealed, Waiting
<1>1. ASSUME Arrive PROVE ImageSealed'
  BY <1>1 DEF Arrive, files
<1>2. ASSUME Worker PROVE ImageSealed'
  <2>1. ASSUME Take \/ ConnectFails \/ NoBody PROVE ImageSealed'
    BY <2>1 DEF Take, ConnectFails, NoBody, files
  <2>2. ASSUME FirstData PROVE ImageSealed'
    BY <2>2 DEF FirstData, Touch
  <2>3. ASSUME MoreData PROVE ImageSealed'
    BY <2>3 DEF MoreData, Write
  <2>4. ASSUME DownloadFails PROVE ImageSealed'
    BY <2>4 DEF DownloadFails
  <2>5. ASSUME DownloadEnds PROVE ImageSealed'
    BY <2>5 DEF DownloadEnds, Write
  <2>6. ASSUME ReadCrc PROVE ImageSealed'
    BY <2>6 DEF ReadCrc, files
  <2>7. ASSUME Strip PROVE ImageSealed'
    <3>1. CASE temp = "absent"
      BY <2>7, <3>1 DEF Strip, Stripped, Passed
    <3>2. CASE temp # "absent"
      BY <2>7, <3>2 DEF Strip, Touch
    <3> QED BY <3>1, <3>2
  <2>8. ASSUME Check PROVE ImageSealed'
    BY <2>8 DEF Check, Matches, Passed, files
  <2>9. ASSUME Spawn PROVE ImageSealed'
    BY <2>9 DEF Spawn
  <2> QED BY <1>2, <2>1, <2>2, <2>3, <2>4, <2>5, <2>6, <2>7, <2>8, <2>9 DEF Worker
<1>3. ASSUME NEW t \in Threads, Rename(t) PROVE ImageSealed'
  <2>1. CASE temp = "absent"
    BY <1>3, <2>1 DEF Rename, files
  <2>2. CASE temp # "absent"
    BY <1>3, <2>2 DEF Rename, MoveImage, Passed
  <2> QED BY <2>1, <2>2
<1>4. ASSUME NEW t \in Threads, Clean(t) PROVE ImageSealed'
  BY <1>4 DEF Clean, files
<1>5. ASSUME NEW t \in Threads, Exec(t) PROVE ImageSealed'
  BY <1>5 DEF Exec, Boot, NoThread
<1>6. ASSUME WriteBack PROVE ImageSealed'
  BY <1>6 DEF WriteBack
<1>7. ASSUME PowerCut PROVE ImageSealed'
  BY <1>7 DEF PowerCut, Boot, NoThread
<1>8. ASSUME UNCHANGED vars PROVE ImageSealed'
  BY <1>8 DEF vars, files
<1> QED BY <1>1, <1>2, <1>3, <1>4, <1>5, <1>6, <1>7, <1>8 DEF Next

\* The inductive invariant of overlapping commands: an image that waits for its
\* rename is one that passed the check, or somebody has touched it since.
THEOREM SealedUpdate == Spec => []ImageSealed
<1>1. Init => ImageSealed
  BY DEF Init, ImageSealed, Waiting, NoThread
<1> QED BY <1>1, SealStays, TypeCorrect, PTL DEF Spec

\* Whatever the servers send, whenever the commands come and the power fails, a
\* program that starts is lost only to a later command's write between check and
\* rename, to an empty file that passed by chance, or to a power cut before the
\* kernel has written back what was installed.
THEOREM ProgramSurvives == Spec => HarmHasItsCause
<1> DEFINE Harm == AppRunnable /\ ~AppRunnable' => Cause
<1>1. TypeOK /\ ImageSealed /\ [Next]_vars => [Harm]_vars
  <2> SUFFICES ASSUME TypeOK, ImageSealed, [Next]_vars, AppRunnable, ~AppRunnable' PROVE Cause
    OBVIOUS
  <2> USE DEF AppRunnable
  <2>1. app' # app
    OBVIOUS
  <2>2. ASSUME Worker PROVE seal = "broken"
    <3>1. sink = "app"
      BY <2>1, <2>2 DEF Worker, Take, ConnectFails, NoBody, FirstData, MoreData, DownloadFails, DownloadEnds,
         Write, ReadCrc, Strip, Check, Spawn, files
    <3> QED BY <3>1 DEF ImageSealed
  <2>3. ASSUME NEW t \in Threads, Rename(t) PROVE Cause
    <3>1. upd[t] = "start" /\ MoveImage
      BY <2>1, <2>3 DEF Rename, files
    <3>2. seal = "broken" \/ temp \in Passed
      BY <3>1 DEF ImageSealed, Waiting, TypeOK
    <3>3. temp \in Passed => temp = "empty" /\ ZeroStack /\ temp' = "absent"
      BY <2>1, <2>3, <3>1 DEF Rename, MoveImage, Passed, Runnable, files
    <3> QED BY <3>2, <3>3 DEF Cause
  <2>4. ASSUME PowerCut PROVE Cause
    <3>1. cuts' = cuts + 1
      BY <2>4 DEF PowerCut
    <3>2. "app" \in dirty \/ app # medium.app
      BY <2>1, <2>4 DEF PowerCut, Left
    <3> QED BY <3>1, <3>2 DEF Cause
  <2>5. ~Arrive /\ ~WriteBack /\ ~UNCHANGED vars
    BY <2>1 DEF Arrive, WriteBack, vars, files
  <2>6. ASSUME NEW t \in Threads PROVE ~Clean(t) /\ ~Exec(t)
    BY <2>1 DEF Clean, Exec, files
  <2> QED BY <2>2, <2>3, <2>4, <2>5, <2>6 DEF Next, Cause
<1> QED BY <1>1, SealedUpdate, TypeCorrect, PTL DEF Spec, HarmHasItsCause

\* Also with commands that overlap, an update thread that stops the gateway has put
\* something else in the place of the program the gateway was first started from.
THEOREM StopsOnlyForAnImage == Spec => []CleanOnlyWhenInstalled
<1>1. Init => Replaced
  BY DEF Init, Replaced, CleanOnlyWhenInstalled, NoThread
<1>2. TypeOK /\ Replaced /\ [Next]_vars => Replaced'
  <2> SUFFICES ASSUME TypeOK, Replaced, [Next]_vars PROVE Replaced'
    OBVIOUS
  <2> USE DEF TypeOK, Replaced, CleanOnlyWhenInstalled
  <2>1. ASSUME Arrive PROVE Replaced'
    BY <2>1 DEF Arrive, files
  <2>2. ASSUME Worker PROVE Replaced'
    <3>1. ASSUME Take \/ ConnectFails \/ NoBody \/ FirstData PROVE Replaced'
      BY <3>1 DEF Take, ConnectFails, NoBody, FirstData, files
    <3>2. ASSUME MoreData \/ DownloadFails \/ DownloadEnds PROVE Replaced'
      BY <3>2, UpdateAssumption DEF MoreData, DownloadFails, DownloadEnds, Write, AllBodies
    <3>3. ASSUME ReadCrc \/ Check PROVE Replaced'
      BY <3>3 DEF ReadCrc, Check, files
    <3>4. ASSUME Strip PROVE Replaced'
      BY <3>4 DEF Strip, Stripped
    <3>5. ASSUME Spawn PROVE Replaced'
      BY <3>5 DEF Spawn
    <3> QED BY <2>2, <3>1, <3>2, <3>3, <3>4, <3>5 DEF Worker
  <2>3. ASSUME NEW t \in Threads, Rename(t) PROVE Replaced'
    BY <2>3 DEF Rename, MoveImage, files
  <2>4. ASSUME NEW t \in Threads, Clean(t) PROVE Replaced'
    BY <2>4 DEF Clean, files
  <2>5. ASSUME NEW t \in Threads, Exec(t) PROVE Replaced'
    BY <2>5 DEF Exec, Boot, NoThread
  <2>6. ASSUME WriteBack PROVE Replaced'
    BY <2>6 DEF WriteBack
  <2>7. ASSUME PowerCut PROVE Replaced'
    BY <2>7 DEF PowerCut, Left, Boot, NoThread
  <2>8. ASSUME UNCHANGED vars PROVE Replaced'
    BY <2>8 DEF vars, files
  <2> QED BY <2>1, <2>2, <2>3, <2>4, <2>5, <2>6, <2>7, <2>8 DEF Next
<1> QED BY <1>1, <1>2, TypeCorrect, PTL DEF Spec, Replaced
=============================================================================
