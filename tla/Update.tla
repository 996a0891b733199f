------------------------------- MODULE Update -------------------------------
(***************************************************************************)
(* An update of the gateway's own program.  The pool's worker downloads an *)
(* image that ends in its CRC32 to TEMP_IMAGE_SAVE, reads the CRC, cuts it *)
(* off, compares, starts an update thread and goes on to the next command; *)
(* the update thread renames the image over the running program's file,    *)
(* waits for the pool, and executes it.  The power may fail at any time;   *)
(* nothing is ever synced, so that it takes what the kernel has not        *)
(* written back by itself.                                                 *)
(*                                                                         *)
(* What else happens while the process is being torn down is in Restart.   *)
(***************************************************************************)
EXTENDS Naturals, FiniteSets

CONSTANTS
  MaxCommands,  \* bound on the update commands of one behaviour
  MaxCuts,      \* bound on the power cuts
  Bodies,       \* what servers deliver, of AllBodies
  Overlap,      \* a command may come before the previous one is over
  ZeroStack     \* the uninitialized CRC of a file without one can be 0

\* An image with its CRC; one with a wrong CRC; less than the 4 bytes of a CRC; an
\* answer without a body (no Content-Length, not chunked).
AllBodies == {"signed", "damaged", "short", "none"}

\* What a file can hold.  "old" and "new" are programs; "new" is "signed" without
\* its last 4 bytes, "broken" any other content a program cannot have.
Contents == {"absent", "old", "new", "signed", "damaged", "broken", "short", "empty"}
Runnable == {"old", "new", "signed"}

ASSUME UpdateAssumption ==
  /\ MaxCommands \in Nat
  /\ MaxCuts \in Nat
  /\ Bodies \subseteq AllBodies
  /\ Overlap \in BOOLEAN
  /\ ZeroStack \in BOOLEAN

Threads == 1 .. MaxCommands

VARIABLES
  app,       \* the content of exec_path
  temp,      \* the content of TEMP_IMAGE_SAVE
  sink,      \* which of the two the worker's open save_file is
  wpc,       \* where the worker is in exec_set_update_operation
  crc,       \* update_file_crc
  upd,       \* update_th of each command
  pending,   \* update commands in the pool's queue
  arrived,   \* update commands so far
  cuts,      \* power cuts so far
  running,   \* the program that runs
  medium,    \* the two files as they were last written back
  dirty,     \* the names whose file has data that was not written back
  seal       \* history: "broken" by a write to TEMP_IMAGE_SAVE after its last check

files == <<app, temp, sink, medium, dirty, seal>>
vars == <<files, wpc, crc, upd, pending, arrived, cuts, running>>

NoThread == [t \in Threads |-> "none"]

Init ==
  /\ app = "old" /\ temp = "absent" /\ sink = "none"
  /\ wpc = "idle" /\ crc = "none"
  /\ upd = NoThread
  /\ pending = 0 /\ arrived = 0 /\ cuts = 0
  /\ running = "old"
  /\ medium = [app |-> "old", temp |-> "absent"] /\ dirty = {}
  /\ seal = "whole"

\* thpool_destroy has been called.
PoolGone == \E t \in Threads : upd[t] = "exec"

-----------------------------------------------------------------------------
Arrive ==
  /\ running \in Runnable
  /\ ~PoolGone
  /\ arrived < MaxCommands
  /\ Overlap \/ (pending = 0 /\ wpc = "idle" /\ \A t \in Threads : upd[t] \in {"none", "gone"})
  /\ arrived' = arrived + 1
  /\ pending' = pending + 1
  /\ UNCHANGED <<files, wpc, crc, upd, cuts, running>>

Take ==
  /\ wpc = "idle"
  /\ pending > 0
  /\ pending' = pending - 1
  /\ wpc' = "connect"
  /\ UNCHANGED <<files, crc, upd, arrived, cuts, running>>

\* http_download fails before any data: URL, connection, header or status.
ConnectFails ==
  /\ wpc = "connect"
  /\ wpc' = "idle"
  /\ UNCHANGED <<files, crc, upd, pending, arrived, cuts, running>>

\* A body without data: save_data is never called and the old file stays.
NoBody ==
  /\ wpc = "connect"
  /\ "none" \in Bodies
  /\ wpc' = "read"
  /\ UNCHANGED <<files, crc, upd, pending, arrived, cuts, running>>

\* A write to TEMP_IMAGE_SAVE while an update thread is about to rename it.
Touch == seal' = IF \E t \in Threads : upd[t] = "start" THEN "broken" ELSE seal

\* save_data opens the file with "w" when the first data arrives.
FirstData ==
  /\ wpc = "connect"
  /\ Bodies \ {"none"} # {}
  /\ temp' = "empty"
  /\ sink' = "temp"
  /\ dirty' = dirty \cup {"temp"}
  /\ Touch
  /\ wpc' = "write"
  /\ UNCHANGED <<app, medium, crc, upd, pending, arrived, cuts, running>>

\* The open file, whatever its name is by now, gets the content c.
Write(c) ==
  /\ temp' = IF sink = "temp" THEN c ELSE temp
  /\ app' = IF sink = "app" THEN c ELSE app
  /\ dirty' = dirty \cup {sink}
  /\ UNCHANGED <<medium, seal>>

MoreData ==
  /\ wpc = "write"
  /\ Write("broken")
  /\ UNCHANGED <<sink, wpc, crc, upd, pending, arrived, cuts, running>>

\* The rest does not come: clean_up closes the file, which keeps what it has.
DownloadFails ==
  /\ wpc = "write"
  /\ sink' = "none"
  /\ wpc' = "idle"
  /\ UNCHANGED <<app, temp, medium, dirty, seal, crc, upd, pending, arrived, cuts, running>>

\* Mistake: clean_up does not close the file.
DownloadEndsOpen ==
  /\ wpc = "write"
  /\ \E b \in Bodies \ {"none"} : Write(b)
  /\ wpc' = "read"
  /\ UNCHANGED <<sink, crc, upd, pending, arrived, cuts, running>>

DownloadEnds ==
  /\ wpc = "write"
  /\ \E b \in Bodies \ {"none"} : Write(b)
  /\ sink' = "none"
  /\ wpc' = "read"
  /\ UNCHANGED <<crc, upd, pending, arrived, cuts, running>>

-----------------------------------------------------------------------------
\* read_crc32: the last 4 bytes; an uninitialized value if there are none or no file.
CrcOf(c) ==
  CASE c = "signed" -> "ofNew"
    [] c \in {"absent", "short", "empty"} -> "unset"
    [] OTHER -> "other"

\* recover_file cuts 4 bytes off; when fseek cannot go back that far it cuts all.
Stripped(c) ==
  CASE c = "signed" -> "new"
    [] c \in {"short", "empty"} -> "empty"
    [] c = "absent" -> "absent"
    [] OTHER -> "broken"

\* Mistake: the result of the comparison is not used.
MatchesAlways(c, k) == TRUE

\* The comparison with calc_img_crc of what is left; an empty file has CRC 0.
Matches(c, k) ==
  \/ c = "new" /\ k = "ofNew"
  \/ c = "empty" /\ k = "unset" /\ ZeroStack

ReadCrc ==
  /\ wpc = "read"
  /\ crc' = CrcOf(temp)
  /\ wpc' = "strip"
  /\ UNCHANGED <<files, upd, pending, arrived, cuts, running>>

\* Without the file check_file_crc32 returns without a value.
Strip ==
  /\ wpc = "strip"
  /\ temp' = Stripped(temp)
  /\ IF temp = "absent"
     THEN wpc' \in {"spawn", "idle"} /\ UNCHANGED <<dirty, seal>>
     ELSE wpc' = "check" /\ dirty' = dirty \cup {"temp"} /\ Touch
  /\ UNCHANGED <<app, sink, medium, crc, upd, pending, arrived, cuts, running>>

\* calc_img_crc reads through a NULL stream when the file has gone: SIGSEGV, whose
\* handler waits on the worker for the pool, that is, for itself.
Check ==
  /\ wpc = "check"
  /\ IF temp = "absent"
     THEN running' = "crashed" /\ wpc' = "idle"
     ELSE /\ UNCHANGED running
          /\ wpc' = IF Matches(temp, crc) THEN "spawn" ELSE "idle"
  /\ UNCHANGED <<files, crc, upd, pending, arrived, cuts>>

\* pthread_create of update_operation, and the answer.
Spawn ==
  /\ wpc = "spawn"
  /\ \E t \in Threads :
       /\ upd[t] = "none"
       /\ \A s \in Threads : s < t => upd[s] # "none"
       /\ upd' = [upd EXCEPT ![t] = "start"]
  /\ wpc' = "idle"
  /\ seal' = "whole"
  /\ UNCHANGED <<app, temp, sink, medium, dirty, crc, pending, arrived, cuts, running>>

-----------------------------------------------------------------------------
\* The file that is renamed keeps its content and whoever is writing to it; so far
\* as it was written back, the new name's file is.
MoveImage ==
  /\ app' = temp
  /\ temp' = "absent"
  /\ sink' = IF sink = "temp" THEN "app" ELSE sink
  /\ dirty' = IF "temp" \in dirty THEN {"app"} ELSE {}
  /\ UNCHANGED <<medium, seal>>

\* Mistake: the result of rename is not looked at.
RenameUnchecked(t) ==
  /\ upd[t] = "start"
  /\ IF temp = "absent" THEN UNCHANGED files ELSE MoveImage
  /\ upd' = [upd EXCEPT ![t] = "clean"]
  /\ UNCHANGED <<wpc, crc, pending, arrived, cuts, running>>

\* update_operation: rename fails when the image has gone.
Rename(t) ==
  /\ upd[t] = "start"
  /\ IF temp = "absent"
     THEN upd' = [upd EXCEPT ![t] = "gone"] /\ UNCHANGED files
     ELSE upd' = [upd EXCEPT ![t] = "clean"] /\ MoveImage
  /\ UNCHANGED <<wpc, crc, pending, arrived, cuts, running>>

\* main_thread_clean: waits for the pool and destroys it.
Clean(t) ==
  /\ upd[t] = "clean"
  /\ wpc = "idle"
  /\ pending = 0
  /\ upd' = [upd EXCEPT ![t] = "exec"]
  /\ UNCHANGED <<files, wpc, crc, pending, arrived, cuts, running>>

\* A new process, of whatever exec_path holds.
Boot ==
  /\ running' = app'
  /\ sink' = "none" /\ wpc' = "idle" /\ crc' = "none"
  /\ upd' = NoThread
  /\ pending' = 0
  /\ seal' = "whole"
  /\ UNCHANGED arrived

\* execv is tried again, every 5 seconds, while it fails.
Exec(t) ==
  /\ upd[t] = "exec"
  /\ app \in Runnable
  /\ UNCHANGED <<app, temp, medium, dirty, cuts>>
  /\ Boot

\* The kernel writes back what has changed, data and names.
Written == dirty = {} /\ medium = [app |-> app, temp |-> temp]
WriteBack ==
  /\ ~Written
  /\ medium' = [app |-> app, temp |-> temp]
  /\ dirty' = {}
  /\ UNCHANGED <<app, temp, sink, seal, wpc, crc, upd, pending, arrived, cuts, running>>

\* What a power cut leaves of a file with the content c: all of it, or, of data that
\* was not written back, nothing or a part.
Left(c, isDirty) == {c} \cup (IF isDirty THEN {"empty", "short", "broken"} ELSE {})

\* The names are as they were last written back or as they are.
PowerCut ==
  /\ cuts < MaxCuts
  /\ cuts' = cuts + 1
  /\ \/ /\ app' \in Left(app, "app" \in dirty)
        /\ temp' \in Left(temp, "temp" \in dirty)
     \/ /\ app' = medium.app
        /\ temp' \in Left(medium.temp, dirty # {})
  /\ medium' = [app |-> app', temp |-> temp']
  /\ dirty' = {}
  /\ Boot

-----------------------------------------------------------------------------
Worker ==
  \/ Take \/ ConnectFails \/ NoBody \/ FirstData \/ MoreData \/ DownloadFails
  \/ DownloadEnds \/ ReadCrc \/ Strip \/ Check \/ Spawn

Next ==
  \/ Arrive
  \/ running # "crashed" /\ Worker
  \/ running # "crashed" /\ \E t \in Threads : Rename(t) \/ Clean(t) \/ Exec(t)
  \/ WriteBack
  \/ PowerCut

Spec == Init /\ [][Next]_vars

-----------------------------------------------------------------------------
\* The type of every variable; a file is open only while it is being written.
TypeOK ==
  /\ app \in Contents /\ temp \in Contents
  /\ sink \in {"none", "temp", "app"}
  /\ sink # "none" <=> wpc = "write"
  /\ wpc \in {"idle", "connect", "write", "read", "strip", "check", "spawn"}
  /\ crc \in {"none", "ofNew", "other", "unset"}
  /\ upd \in [Threads -> {"none", "start", "clean", "exec", "gone"}]
  /\ pending \in 0 .. MaxCommands
  /\ arrived \in 0 .. MaxCommands
  /\ cuts \in 0 .. MaxCuts
  /\ running \in Contents \cup {"crashed"}
  /\ medium \in [app : Contents, temp : Contents]
  /\ dirty \subseteq {"app", "temp"}
  /\ seal \in {"whole", "broken"}

\* The file of the program is a complete program at every moment: only an image
\* whose CRC was right replaces it ("replace the app" comes after "compute and check
\* the crc32", 开发记录.md:115-117), and nobody is writing to it ("avoid conflicts of
\* reading and writing the file", info_set.c:626).
AppRunnable == app \in Runnable

\* What may take away a program that starts: a later command wrote to the image
\* between its check and its rename; an empty file passed the check because the
\* uninitialized CRC was 0 (crc32.c:107-119); or the power fails before the kernel has
\* written the file, for no fsync stands between fclose (http.c:477) and rename
\* (com_update.c:67).
Cause ==
  \/ seal = "broken"
  \/ temp = "empty" /\ ZeroStack /\ temp' = "absent"
  \/ cuts' = cuts + 1 /\ ("app" \in dirty \/ app # medium.app)

\* Whatever was downloaded, whenever the commands came and the power failed, no step
\* takes away a program that starts but for one of these three reasons: a broken, too
\* short or cut off download alone never does.
HarmHasItsCause == [][AppRunnable /\ ~AppRunnable' => Cause]_vars

\* The gateway stops serving only when rename has replaced the program it was
\* first started from: an update thread whose image has gone, because another one
\* took it or the download brought nothing, must leave the gateway alone.
CleanOnlyWhenInstalled ==
  (\E t \in Threads : upd[t] \in {"clean", "exec"}) => app # "old"
=============================================================================
