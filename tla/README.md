# Verification of the MDTU gateway daemon

`note_work` is a collection of notes and tools around one program, the **MDTU
gateway daemon** (`src/06 项目/01 MDTU/04 src/MDTU_communication/`, written `P/`
below).  The daemon runs on an embedded Linux gateway: it receives JSON commands
over MQTT, a TCP socket and a USB serial line, executes them one after the other on
a thread pool, sends the answers back where the commands came from, keeps the clock
with NTP from a cron thread, and downloads and starts new versions of itself.  This
directory holds TLA+ models of it, TLC configurations, and proofs.

Contents: [the system](#the-system) · [what is hard about it](#what-is-hard-about-it)
· [modules](#modules) · [runs](#runs) · [fairness](#fairness) · [proofs](#proofs)
· [findings](#findings) · [not modelled](#not-modelled) · [plan](#plan)
· [running it](#running-it)

## The system

| part | code under `P/` | state it keeps | operations |
|---|---|---|---|
| thread pool | `third_lib/thpool/thpool.c` | job queue under `rwmutex`, binary semaphore `has_jobs`, `num_threads_alive`, `num_threads_working` under `thcount_lock`, condition `threads_all_idle`, `threads_keepalive` | `thpool_init`, `_add_work`, `_wait`, `_destroy`; the workers' `thread_do` |
| command pipeline | `mdtucom_dev/src/mqtt.c` (`doit`, `run_sub_pub`, `mqtt_publish`), `get_set_info/*.c` | `task_id`, `task_list`, `publish_list`, the text of each task | receive, sort (`doit`), run, answer, publish |
| MQTT | `mdtucom_dev/src/mqtt.c`, `third_lib/semaphore/` | connection, `subscribe_list`, `publish_list`, the SysV semaphore, `mqtt_connecting`, `mqtt_running` | connect, subscribe, publish, yield, stop |
| TCP server | `mdtucom_dev/src/tcp_server.c` | listening socket, `socket_clients_list`, one receive and one send buffer, two mutexes, `tcp_running` | open, accept, receive, send, disconnect, close |
| USB line | `mdtucom_dev/src/thread_usb.c` | a descriptor | read a line, write an answer |
| update | `mdtucom_dev/src/update/*.c`, `info_set.c` 587-657 | the image file, the program's file, the update thread | download, check and strip the CRC32, rename, clean up, `execv` |
| shutdown | `mdtucom_application/main.c` | `app_running`, everything above | `main_thread_clean`, `signal_handler`, the end of `main` |
| cron | `mdtucom_dev/src/cron/crontasks.c` | the tasks with `nextTrigger` and `cl_Pid`, one mutex, condition and completion flag | register, scan, start, wait with a timeout, cancel, join |
| NTP | `get_set_info/schedule_tasks.c`, `third_lib/ntp/` | `ntpTimeSync`, the system clock, the time zone file | ask a primary and a second server, set the clock |
| configuration | `mdtucom_dev/src/utils/com_config.c` | `mdtu_com.ini` and the global structs read from it | open or create, read, rewrite a value, restore |
| board parameters | `get_set_info/info_get.c`, `info_set.c` | the modem, the serial port, the globals | the get commands; the set commands for general settings, NTP, APN, serial number, serial port, restart, restore |
| shell | `info_set.c` 94-207 | a child process and two pipes | run, collect output |
| libraries in the tree | `third_lib/ini`, `cjson`, `cronexpr`, `ntp`, `list`, `semaphore`, `md5` | a file; a document; none; a socket; a list | rewrite a value; read, edit and print; next and previous time; probe a server |
| board, log, network | SDK calls, `com_log.c`, `com_network.c` | outside the repository, or none | |

How they interact.  `main` reads the configuration, registers the cron task and
starts the cron thread, starts the MQTT thread, makes a pool of one worker, waits
for `mqtt_connecting` to become 0, starts the TCP and USB threads, subscribes,
publishes a few commands to itself, and then looks at `app_running` once a second.
The three receiving sides each allocate a task (`thread_info_transmit_t`), give it
`task_id++`, append a node to `task_list` and call `doit`, which adds a job to the
pool or drops the task.  The worker runs the handler and calls
`select_handler_method`: a TCP or USB answer is written by the worker itself, an
MQTT answer is put on `publish_list` under the semaphore and sent by the MQTT
thread.  Whoever disposes of a task removes its node from `task_list`.  An update
is a command like any other whose handler leaves a thread behind that takes the
process down and starts the new program; `main` and the signal handler contain the
same clean-up.

What makes each part correct:

* pool: no job is lost, stranded or run twice; `thpool_wait` covers every job added
  before it, and one waiter at least comes back; `thpool_destroy` frees nothing that a
  job still uses, and returns.
* pipeline: a task is in `task_list` exactly while somebody has to deal with it, is
  answered once at most, on its own channel and in order, and ends, unless a thread is
  lost in the signal handler.
* update: a program that starts is taken away for three reasons only, and a bad download
  is none of them; a failed update does no harm; a successful one comes to run.
* shutdown: commands accepted before it began are finished first; the process does end.
* cron: a due task runs, once, one at a time, and a job that hangs costs only itself;
  the times are those its expression asks for.
* settings: changing one value loses no other, what was written stays written, the
  globals and the file say the same, the time zone file follows, as long as every write
  that fails is noticed; and a failure that is not costs no more than it must.
* TCP: the commands of a client arrive as it sent them and it is served, whatever
  earlier clients have left behind.
* download: what is reported as successful is the whole file, or is short of the last
  block of stdio, which the check of the CRC32 is there to find out.
* NTP: the clock is set only by a server that is synchronized, to a time that was true
  while the question was under way; every synchronization ends.
* JSON: a document survives being printed and read; nothing is printed past its memory.

## What is hard about it

Nine kinds of threads share lists, counters and a pool, mostly without locks; one of
them frees what the others use.  Files are replaced while the power may fail.  A job
is cancelled at a timeout measured with the clock it sets.  All TCP clients share one
buffer and a mutex that every one of them makes anew and destroys.  Answers come back to the
gateway as commands when both topics are the same, which is the default.  The list
of hazards with the lines where they bite, and the properties that are about each of
them, is in `PROJECT.json`; those without a property say why.

## Modules

| module | models | abstraction |
|---|---|---|
| `JobPool` | what the pool promises its callers | no threads or locks: pending, running, done, who waits for what |
| `Thpool` | `thpool.c`, one action per critical section | a job is an opaque value; `thpool_pause` is left out (nobody calls it) |
| `ThpoolProofs`, `GatewayProofs`, `UpdateProofs`, `RestartProofs`, `CronProofs`, `SettingsProofs` | theorems about the module each is named after | see [proofs](#proofs) |
| `ServiceProofs` | theorems about `Ntp`, `TcpServer`, `Http` and `Json` | each on its own |
| `Lemmas` | induction over sets of numbers and what it gives: least and greatest members, recursive functions; parts of sequences; the members of a queue | used by `GatewayProofs`, `RestartProofs`, `SettingsProofs` and `ServiceProofs` |
| `Gateway` | the life of a command: receive, `doit`, the handlers, the answers, `publish_list`, the semaphore | the pool is the FIFO of `JobPool` with one worker; a text is one of the twelve classes `doit` tells apart; `task_list` and `task_id` are atomic; a thread inside the signal handler takes no part any more |
| `Update` | download, CRC check, rename, clean-up, `execv`, writing back, power cuts | a file's content is one of eight kinds; the kernel writes back everything or nothing; the teardown is one step |
| `Restart` | `main`, the update thread and the signal handler taking the process down against each other | the pool as in `JobPool`, with freed memory and an emptied queue |
| `Cron` | the cron thread, the job thread, the NTP callback, the clock | a cron expression is a period; an NTP exchange is answered, refused or silent |
| `IniFile` | `ini.c`: every way of reading a file, and rewriting it line by line (`ini_puts`) | a line is a record; what `cleanstring` makes of a text, and what is left of a line that was cut, are tables |
| `Board` | `info_get.c` and `com_utils.c`: what each get command reads, converts and answers | the vendor's SDK is a choice among modems |
| `Settings` | `com_config.c`, the set commands, the time zone file, power cuts, a full file system; composes `IniFile` and `Board` | one put is three steps (copy, remove, rename), each of which may fail |
| `CronExpr` | `ccronexpr.c` and its callers in `crontasks.c` | a text is a sequence of numbers, names and separators; UTC |
| `Json` | `cJSON.c` | a text is a sequence of tokens, a document a tree of at most `MaxNesting` levels below its root; what lies behind the end of a text is open |
| `Http` | `http.c` | a line or a byte of the answer is one unit; stdio keeps one block |
| `Ntp` | `ntpclient.c` and the two calls of it | seconds; a message is the fields that are checked |
| `TcpServer` | `tcp_server.c`: accept, the connections' threads, the mutex | a command is one or two pieces |
| `Services` | the last five side by side | they share no state: one of them works, the others rest (`part`) |
| `MCThpool`, `MCGateway`, `MCUpdate`, `MCRestart`, `MCCron`, `MCSettings`, `MCServices` | the instances for TLC | |

How the two groups fit together.  `Cron` has when a job runs and takes its times as a
period, `CronExpr` has which times an expression means; `Update` has which files there
are and takes a download as complete or not, `Http` has which bytes arrive; `Cron` takes
an exchange as answered or not, `Ntp` has the exchange; `Gateway` has the life of a
command and takes its effect as done or failed, `Settings` has the effect; `Gateway`
takes a command over TCP as received, `TcpServer` has how.

The names of states and operations are those of the code where TLA+ allows it;
`PROJECT.json` maps every definition to its lines.  Some correspondences that are
not obvious:

* `Thpool!wpc` and `cpc` are the places between two lock operations of `thread_do`
  and of the interface.  `Signal` is `pthread_cond_signal`, which may wake more than
  one thread; `SpuriousWakeup` wakes one without it.  A mutex is held in exactly the
  places `RwmutexFree` and `ThcountFree` list.
* `Gateway!places` (in `EveryTaskHasOnePlace`) is the queue of the pool, the task
  being run, and `publish_list`; in the code these hold the pointers to the task that
  `task_list` also holds.  `Foreign` stands for the id that `mqtt_publish` reads from
  a string literal.
* `Gateway!handler` has the threads that are in `signal_handler` and do not come back to
  the pipeline: a receiving thread to which `doit` has given JSON without `ac`, `val` or
  `op` (`"noField"`: `cJSON_Print` returns NULL, which `atoi` and `strstr` dereference), and
  the worker after `BrokenPipe`, which waits in the handler until it is idle itself.
  `ShellWrites` is one `read` of a command's output and its `send`; over MQTT every piece
  replaces the one before, so that there only the last is a step (`RunShell`).
* `Update!sink` is the inode behind the open `save_file`: `rename` moves it from one
  name to the other.  `medium` is what the two names had when the kernel last wrote back,
  `dirty` the names with data it has not written back yet (nothing in the program calls
  `fsync`), `Left` what a power cut leaves of them.  `seal` is history: whether the image
  that waits for its rename was written to after its check.
* `Restart!Undefined` is what using freed memory does: nothing, or a crash.  `dropped` is
  what `jobqueue_clear` has thrown away; `owed` is history: what had been accepted when the
  first of the three threads closed the TCP server to wait.
* `Cron!cl_Pid = "none"` is `JOB_NONE`, which means running.  `ArmFails` is a
  `pthread_create` that returns an error, which is positive where the code looks for a
  negative number; `unborn` has the tasks it has left armed, and `JoinNobody` is what the
  uninitialized thread number may do: nothing, or the end (`"lost"`).
* `Settings!todo` is the rest of the list of `ini_put_str` and `ini_put_int` calls a
  command or `init_ini` has in hand; `tmp` is the copy `mdtu_com.in~` that `ini_puts`
  writes.  `PutFails` is one of its `fopen`s failing, the one failure `ini_puts` reports.
  It looks at no result of a write, a close, a remove or a rename (`ini.c`
  600, 617, 651, 659-668) and returns success: `WriteFails`, `RemoveFails` and `RenameFails`
  are these, and `step` is `"torn"` and `"lost"` instead of `"copied"` and `"removed"` after a
  copy that was cut short (`IniFile!Torn`).
* `Settings!past` has what the file was since the power came on.  Nobody calls `fsync`, so
  that a power cut may bring each of these back, or a part of one, or no file
  (`Remains`).
* `Settings!Lacking` is a `val` without one of its fields, which is the same NULL as in
  `Gateway`, on the worker; `phase` is `"stuck"` from then on (`Crash`).
* `Settings!text` is the buffer of the `FILE` of the time zone: what was printed reaches
  the file at `fclose`, and never when the job is cancelled before.
* `TcpServer!recv_lock` is the mutex as glibc makes it (lock word, number of owners,
  kind).  Initializing it while it is held, destroying it while it is waited for and
  locking it afterwards are undefined by POSIX; the model has what glibc does: a thread
  that sleeps on the old word sleeps on until somebody releases a word marked as waited
  for.  `con_sock` is the one `connt_thread_arg` all threads are given a pointer to.
* `TcpServer!stream` is a history variable: all that each client has ever sent.  It lets
  `AloneAsSent` say what the texts given to `doit` are a beginning of.
* `Gateway!FindAndRemove` is `list_find` and `list_remove`: the first node with the id is
  taken out, and not finding one is the NULL that `list_remove` dereferences.
* `Ntp!to` is the `timeval` that `select` counts down.  `Ended` is the end of
  `ntp_operate`, whose next call opens a socket of its own.
* `CronExpr!Overflow` stands for the stack that `do_prev` uses up when it calls itself
  without end.
* `Http!held` is what `fwrite` has left in the stream's block; it meets a full file system
  only in the `fclose` of `clean_up`, whose result nobody looks at.
* `Json!Outside` is what may be read behind the end of a text, which `parse_string` does after a
  trailing backslash and after a `\u` that is cut off, and `cJSON_Minify` in an open string
  or comment: the document is then any other or the same as before (`ReadOutside`).
* `Http!Return(-1, ...)` after a complete answer is the value of a function that returns
  none (`read_data`, `save_data`): it may happen to be -1.

Definitions marked *Mistake* are slips a programmer could make in the definition that
follows them.  They are not part of any specification; each property is known to
notice at least one of them.

## Runs

| run | instance | shows |
|---|---|---|
| `pool` | 2 workers, 2 jobs; `main` and a signal handler's thread both add and wait, `main` destroys (38,804 states) | type, `RunOnce`, `NoStrandedJob`, `WaitMeansDone`, the inductive invariant `IInv`; `KeepsPromise`: `Thpool` implements `JobPool` with its fairness; `DestroyReturns`, `EveryJobRuns`, `WaitEnds` |
| `gateway` | 3 tasks over MQTT and TCP, 6 kinds of text, 3 outputs of a shell command in up to 2 pieces, 1 self test, both topics the same (348,952 states) | type, `RemovalFindsNode`, `EveryTaskHasOnePlace`, `AnsweredOnceWhereAsked`, `AnswersInOrder`, `EveryTaskEnds` |
| `gateway_uart` | a serial port that cannot be opened | `RemovalFindsNode` is violated |
| `update` | 3 updates that may overlap, all kinds of answers, 2 power cuts, the uninitialized CRC may be 0 (91,350 states) | type, `HarmHasItsCause`, `CleanOnlyWhenInstalled` |
| `update_overlap` | 2 updates that may overlap, good images, no power cut | `AppRunnable` is violated |
| `restart` | 2 other commands, a TCP client that may go away (2,813 states) | type, `NoCommandCutOff`, `ProcessEnds` |
| `restart_restarts` | 1 other command, no client | `RestartsAfterUpdate` is violated |
| `cron` | 2 tasks, period 2, timeout 1, clock 0..5 that may be set to any time, `pthread_create` may fail (435,114 states) | type, `SoloJob`, `NeverLeftArmed`, `OncePerTrigger`, `DueRuns` |
| `cron_hourly` | 1 task, the clock only ticks | `OncePerHour` is violated |
| `cron_second` | 1 task, the clock only ticks | `SecondAsked` is violated |
| `settings` | 3 files the daemon may find; any 2 of: a command of any kind, a power cut, a failing open, write, remove or rename, a cancelled job, at any step (154,369 states) | type, `CopyKeepsOthers`, `WrittenIsKept`, `MemoryIsFile`, `ZoneFollows` |
| `services` | 13 expressions, 12 texts, 11 addresses, 6 kinds of answers of a time server, 3 TCP clients (325,577 states) | `TriggerIsNext`, `StampIsLast`, `RoundTrip`, `PrintFits`, `DownloadComplete`, `SetFromServer`, `AloneAsSent`, `SyncEnds`, `AloneIsServed` |

Why the bounds are enough.  *Pool*: two workers and two jobs are the least in which one post
of the binary semaphore can stand for two jobs; of two clients that both add and both wait,
one's additions race with the other's `thpool_wait`, and one may be left behind in it.  The
daemon itself has one worker; the library is checked for two, and the theorems hold for any
number.  *Gateway*: three tasks fill the queue, the worker and `publish_list` at once; every
outcome of `doit` and of the handlers occurs; two pieces of output show that an answer stays
together; one self test is enough to overtake.  *Update*: of three commands that may
overlap, one can be downloading while a second waits for its rename and a third is in the
queue; one after another they allow a failed download, what it leaves behind, and a good one
after it; two cuts allow one during the recovery from another.  *Restart*: the three
cleaners are all there are. *Cron*: two tasks show that one that hangs does not starve the
other, and a clock of six values with a period of two has trigger times on either side of
every clock step. *Settings*: one file is the shipped one, without a newline at its end; the
second has comments, a key before every section, sections in another order and a value that
has to be quoted, so that every branch of `ini_puts` is taken; the third is what a copy that
was cut short leaves.  A command and what happens to it are two events, and so are two
commands, of which one finds what the other has left.  *Services*: the expressions are the
ones of `main.c` and one for every construct and every reason to refuse; the clocks lie at
the end of an hour, a month, a February and of a year, and the delays reach over each.  The
texts have every kind of JSON value, every escape, comments, errors and every way of leading
behind the end; two edits reach nested documents of three levels, one less than `MaxNesting`
allows.  The download's buffer and the block of stdio hold two bytes, its page five, so that
the last of each is not full, and the room on the file system is less than a page, all but a
block of it, and enough; every answer is cut at every place.  The probe times of NTP lie on
both sides of the end of an era.  Three TCP clients of which two are connected at a time
leave a third that comes after them.

Constants that describe the environment, and what changes with them:

* `Thpool!Created`: the workers the system could create.  With a proper subset,
  `thpool_init` never returns (`cpc[Owner]` stays `"init"`).
* `Gateway!Echo`: `pub_first` and `sub_first` are one topic, as `init_ini` and the
  shipped `mdtu_com.ini` have it.  `Gateway!UartWorks`: `fibo_uart_open` succeeds;
  where it does not, `gateway_uart` applies.
* `Update!Overlap`: a command may arrive while an update is under way, which the protocol
  does not forbid.  `Update!ZeroStack`: the uninitialized
  `crc` of an image shorter than four bytes happens to be 0, as the CRC of the empty
  file that is left.  Both are `TRUE` in `update`; `update_overlap` has the second `FALSE`,
  so that what it shows is due to the overlap alone.
* `Gateway!MaxPieces`, `Outputs`: how often the output of a shell command is read, and what
  it looks like to `doit` when both topics are the same.
* `Restart!Disconnects`: a client may go away while the worker writes to it, which
  raises SIGPIPE.  `Restart!Connected`: there is a client at all, so that
  `close_tcp_server` can free its node a second time.
* `Cron!ClockSteps`: NTP may give a time other than the clock's.
* `IniFile!BufferSize`: what fits in the line buffer; longer lines do not occur, in the
  files the daemon finds (`Readable`, which also has each section once) as in what it
  writes (`PutFits`).
  `IniFile!Clean`: what reading makes of a text with a semicolon, quotes or blanks around
  it; `Leading` are those that `ini_puts` does not quote although they lose a blank.
  `IniFile!CutPoints`, `Shorter`: where a file may be cut short, and what is left of a value.
* `Settings!Modems`: what the SDK reports, from everything to nothing.
* `Settings!GeneralArgs`, `NtpArgs`, ...: what commands set: any texts and numbers whose
  lines fit the buffer.  A number -1 and a text that begins with `dummy`
  (`Settings!Dummies`) are written like others, but `load_config` takes just these for a
  missing key: `Reloaded` says what a restart reads instead.
* `Settings!NoIdentity`: the MD5 of the empty text, which set serial number compares with
  when the modem does not tell its IMEI.
* `Http!Hosts`: the pages.  A server that tells a length tells the truth (`WellFormed`):
  as many bytes come behind the head, a chunk ends where its size says.  Cutting an answer
  short at any place, falling silent and the room on the file system (`Rooms`) are the run's
  choices.  `Http!BUFSIZ`: the block in which stdio keeps what was written last.
* `CronExpr!East`: the board's time zone is east of Greenwich, as it is with the
  default `CST-8`; `last_day_of_month` then is one day short.
* `Ntp!Era`: the timestamps there are, 2^32 in the code, 64 in the run; `JAN_1970` is
  placed so that the era ends during the run, as it will in 2036.
* `Json!Parsed` and its neighbours: what arithmetic, `sprintf` and UTF-8 make of the
  tokens of the run.  What the tables have to say is `JsonAssumption`: no token is empty, the
  punctuation, the blanks and the letters of escapes are one byte, a control character has
  four digits, characters of `\u` exist, and the text of a number fits the buffer
  `print_number` takes for it (`NumberRoom`: 2, 21 or 64 bytes); and `ReadingAssumption`: the
  hexadecimal digits written for a control character mean that character, the text printed of a
  number is read as the number with the digits shown, and no number is spelt like punctuation.
* `Json!Large`: from where on a number that is not whole is printed with an exponent, 10^9 in the
  code and 100 in the run, as TLC's integers have 32 bits and a number here is a count of
  ten-millionths.  `RoundingAssumption`: no number of the run is half way between two that
  can be shown, where the last digit is up to the double.  `TextAssumption`: a `\u` is followed
  by four digits or by the end of the text.  `QuoteAssumption`: a quotation mark is a token.
* `Json!MaxNesting`: how deep documents go.  The code has no limit but its stack; here what is
  deeper is not read, and no text of the run is.

Deadlock is checked in `pool` and in the runs of `Cron` (whose process may end: `Gone`).  It
is switched off where the system really stops: in `Gateway` when all commands are through,
in `Update` when the program's file has become unusable or nothing is left to do, in
`Restart` when the process is gone, in `Settings` when a command without a field has
brought the worker into the signal handler, and in `Services` when the part at work has
come to the end of its bounds.

## Fairness

* `Thpool!FairSpec`: weak fairness of every worker, of a client inside the interface,
  and of the owner.  The mutexes guard short sections without blocking calls, so that
  a thread that can go on is scheduled some time; a job's function is taken to return.
  `WaitEnds` is about one of the clients that wait, and not about each: see
  [findings](#findings).
* `Gateway!FairSpec`: weak fairness of the MQTT thread; strong fairness of the worker,
  because the MQTT thread takes the semaphore again and again and the worker can only
  go on between.  That is justified by the second that thread spends in `MQTTYield`
  without it, and by the queue of a SysV semaphore.  A thread that is inside the signal
  handler takes no step; `EveryTaskEnds` is about executions in which none is.
* `Restart!FairSpec`: each of the three threads is scheduled, and a command that runs
  ends.
* `Cron!FairSpec`: time goes on, the cron thread and what the job thread does by
  itself are scheduled, and a cancelled job is in a system call at some time.  There
  is *no* fairness for the answer of a server: the callback may take for ever.  A
  `pthread_create` may fail every time; `DueRuns` leaves out the task it fails for.
* `Settings!FairSpec`: main and the worker, the file operations they call, and the job,
  which is started again and again, go on.  Two of these are written as `[]<>` of the
  state in which the step is not due: equivalent, because such a step is enabled exactly
  there, and cheaper to check.  Commands, power cuts and failures are not fair.
  `ZoneFollows` leaves out a daemon that is stuck in its signal handler.
* `Services!FairSpec`: for NTP, time passes and `select` times out: *nothing* is assumed
  of the network, and the number of answers is bounded (a server that sent refused answers
  without end could keep the loop busy).  For TCP, every connection's thread is
  scheduled; clients need not send, hang up, or connect.
* `Update` has no liveness property.

## Proofs

Every component whose definitions the prover can reason about has a proof module.  The
theorems hold for all values of the constants that satisfy the named assumptions
(`PoolAssumption`, `GatewayAssumption`, ...) and, where a theorem says so, for the
environments its hypotheses describe.

| theorem | states | beyond the assumptions on the constants |
|---|---|---|
| `ThpoolProofs!Inductive` | `[]IInv` | |
| `ThpoolProofs!TypeCorrect` | `[]TypeOK`: among others, the two counters are never negative | |
| `ThpoolProofs!NoJobStranded` | `[]NoStrandedJob` | |
| `ThpoolProofs!WaitSound` | `[]WaitMeansDone` | |
| `ThpoolProofs!JobRunsOnce` | `[]RunOnce` | |
| `ThpoolProofs!ImplementsJobPool` | `Spec => Promise!Spec`: every critical section is a step of `JobPool` or none | |
| `GatewayProofs!WhereTasksAre` | `[]Places`, the invariant of where tasks are | |
| `GatewayProofs!TypeCorrect` | `[]TypeOK` | |
| `GatewayProofs!OnePlaceForATask` | `[]EveryTaskHasOnePlace` | |
| `GatewayProofs!RemovalsSucceed` | `[]RemovalFindsNode` | `UartWorks` |
| `GatewayProofs!WhoIsAnswered` | `[]Answers`, the invariant of answering | |
| `GatewayProofs!AnsweredOnce` | `[]AnsweredOnceWhereAsked` | |
| `GatewayProofs!AnswersComeInOrder` | `[]AnswersInOrder` | |
| `UpdateProofs!TypeCorrect` | `[]TypeOK` | |
| `UpdateProofs!SoloUpdate` | `[](OneAtATime /\ Untouched)`: the first of the three reasons needs commands that overlap | `~Overlap` |
| `UpdateProofs!SealedUpdate` | `[]ImageSealed`, the invariant of the image that waits for its rename | |
| `UpdateProofs!ProgramSurvives` | `HarmHasItsCause`, an action property | |
| `UpdateProofs!StopsOnlyForAnImage` | `[]CleanOnlyWhenInstalled` | |
| `RestartProofs!TypeCorrect` | `[]TypeOK` | |
| `RestartProofs!CommandsProtected` | `[]NoCommandCutOff` | |
| `CronProofs!Scheduled` | `[]CInv`, the invariant of the scheduler | |
| `CronProofs!TypeCorrect` | `[]TypeOK` | |
| `CronProofs!JobsNeverMeet` | `[]SoloJob` | |
| `CronProofs!TasksComeBack` | `[]NeverLeftArmed` | |
| `CronProofs!ServedOnce` | `OncePerTrigger`, an action property | |
| `ServiceProofs!ClockFromServer` | `NtpSpec => []SetFromServer` | `ClocksCountable` |
| `ServiceProofs!LoneClientIsHeard` | `TcpSpec => []AloneAsSent` | |
| `ServiceProofs!DownloadIsComplete` | `HttpSpec => []DownloadComplete` | |
| `ServiceProofs!JsonTypes` | `JsonSpec => []JsonInv`: the document is a well-formed tree | |
| `ServiceProofs!PrintsFit` | `JsonSpec => []PrintFits` | |
| `ServiceProofs!RoundTrips` | `JsonSpec => []RoundTrip` | |
| `SettingsProofs!PutKeeps` | one `ini_puts` on any readable file sets its key and keeps every other | |
| `SettingsProofs!Invariance` | `[]IInv`, the invariant of the settings | |
| `SettingsProofs!CopyKept` | `[]CopyKeepsOthers` | |
| `SettingsProofs!WrittenStays` | `[]WrittenIsKept` | |
| `SettingsProofs!MemoryAgrees` | `[]MemoryIsFile` | |
| `SettingsProofs!Types` | `[]TypeOK` | |

**The hypotheses.**  `UartWorks` is what the run `gateway` takes too, and it is needed:
`gateway_uart` violates the property without it.  `~Overlap` is needed likewise, as
`update_overlap` shows.  `ClocksCountable` says that a synchronized server's clock is, while
the daemon asks, after 1970 and before the second 2^32 after it, which is what the unsigned
arithmetic of `set_time` can tell apart; the timestamps of the protocol may wrap meanwhile.
The instance of `services` satisfies it.  Of the named assumptions, seven say more than of
which kind a constant is, and TLC evaluates them on the instances: `IniAssumption` and
`SettingsAssumption` (lines that fit the buffer), `HttpAssumption` (servers that tell the
truth of a length), `JsonAssumption` (the bytes of the tokens), `ReadingAssumption` (which
of them mean the same), `TextAssumption` and `RoundingAssumption`; "Constants that describe
the environment" has the reasons.  `Services` itself
reaches the RECURSIVE definitions of `CronExpr`; `NtpSpec`, `TcpSpec`, `HttpSpec` and
`JsonSpec` are `Init` and `Next` of its four other parts, which share no variable with one
another or with that.

**The pool.**  None of its properties is inductive by itself.  That a queued job is
not stranded needs that somebody is awake whenever the semaphore is up, which needs
that no worker leaves while the pool is kept alive (`AllServe`), that a semaphore
that is up was not slept through (`SemaphoreHeard`), and that between the critical
sections a non-empty queue is either announced or being taken from
(`QueueAnnounced`).  That `thpool_wait` covers earlier jobs needs that both of its
tests together see every job: a job that is neither in the queue nor finished is held
by a worker (`JobWhileRunning`) that is counted (`Counts`); it is counted from before
it takes the job until after it has run it, which is why the test under the wrong
lock does no harm.  What a client is owed stays in the pool while it waits
(`OwedKept`).  `IInv` is the conjunction.  One lemma per action (`...Inv`) establishes
the conjuncts one by one; beside them, `Moved` and `Woken` say what a step of one worker
does to the cardinalities of the sets of workers in given places, and `AddedFacts` that
an idle pool has finished everything added.  The refinement follows from `IInv` and
`RunOnce`: the actions that are not plainly steps of `JobPool` are the end of a wait, which
needs that an idle pool owes nothing, and the freeing, which needs that no worker holds a
job when none is counted.

**The pipeline.**  Three invariants, each on the shoulders of the one before.  `Places`
has where every task is: `EveryTaskHasOnePlace` is inductive once everything that names a
task is known to name one that was created, so that a new id is nowhere yet, and the one
exception, the id read from a string literal, to come from a port that does not open
(`Known`).  `Answers` adds who still waits (`Unanswered`): what is in the queue or on
`publish_list` has not been answered, and what the worker runs only if it is a shell
command whose output went out while it ran.  For that it has to be known that a text that
is a shell command was marked as one on arrival; the marks of `doit` and the text that is
overwritten by the result are two different fields.  `Order` adds that the answers, the
list to publish, the worker and the queue hold ever newer tasks (`InLine`), until main
publishes a command of its own, which may overtake.

**The update.**  `ImageSealed` has that no open file is the program's and that an image
which waits for its rename has passed the check, was taken away, or was written to since
(`seal`); so what a rename puts in the program's place starts, or there is one of the causes.
What a power cut leaves is what the files are or were when they were last written back, and
where data is missing it had not been written back.  `OneAtATime` has that a command that
does not overlap another is in one place.  `StopsOnlyForAnImage` needs none of it: the
program the gateway was started from is never on the download side (`Replaced`).

**The shutdown.**  Until the first of the three threads leaves `thpool_wait`, what was
accepted when the first one closed the TCP server can only go from the queue to the worker
to the finished ones (`OwedKept`), and that thread leaves when the pool is idle, so that all
of it is finished.  Later ones may leave because `thpool_destroy` has emptied the queue or
freed the pool, which is too late to harm these commands, and only these
(`NothingForgotten`).

**The scheduler.**  Between two jobs there is no job thread, and while the cron thread
waits there is exactly one and it is of the task at `ptr`, or none if it could not be created
(`OneJob`); only a task whose job has not begun is armed, or one that was left so by
a thread that could not be created (`ArmedIsStarting`); and a task's next trigger time is
after those it was served for, wherever the clock is set (`ServedBefore`, with the
arithmetic of `CronNext` in `FirstAfter`).

**The time.**  What is on its way was sent by this call's server at a moment between the
probe and now (`Probing`, `AnswersDated`), a call lasts a cycle at most, so that
the clocks stay countable (`InTime`), and unsigned subtraction undoes unsigned addition,
also over the end of an era (`EraCancels`).

**The lone client.**  While a client is alone its own thread is the only one that can take
a step: the others are gone or asleep on the old word of the mutex (`Solo`).  It has the
number of its client's socket (`OwnSocket`), the mutex it has made is good and nobody is
woken by it, the buffer is empty when it is filled (`OwnLock`), and what has been given on,
what is in the buffer and what has not been received are together what was sent
(`NothingLost`).

**The settings.**  Everything rests on what `ini_puts` leaves of a file.  Its copy reads a
line, holds it back in a cache that is a window of the file, and writes the cache when it is
full; read, cached and written are at every moment the lines of the file so far, in order
(`Kept`, `CopyFacts`).  So the copy is the file with one line put in, replaced or added with
a section at the end (`RewrittenIs`).  A line put in or replaced moves no key to another
section and hides none (`InsertedKeeps`, `ReplacedKeeps`), which gives `PutKeeps`. What a
copy that was cut short leaves is readable again (`TornIsReadable`), so that the next put
finds a file like any other. The invariant of the whole is `IInv`: `Control` has which list
of puts which command has in hand, `Disk` that all files there are or may come back after a
power cut are readable, and that the temporary file is, from a complete copy to its rename,
the file with exactly this put done, `WrittenInv` that what was written is read back from
the file that a restart would find, except for the pair in hand while the file is away
(`Kept1`), and `MemoryInv` that a global agrees with the file, by way of `Reloaded`, unless
a put of its pair is still to come or one was lost (`stale`).

**The download.**  `FileIsPage` says of a success what `DownloadComplete` says, with the
bytes of the page in place of its announced content.  Four facts give it: the head is read
to its blank line and no further, and its length is the number of bytes (`HeadRead`);
`read_data` has no error only when as many bytes as announced came, when these are all and
when they fit the room and the block that stdio still holds (`ReadWhole`); between two chunks
exactly the bytes before have been saved (`Along`, `ChunkRead`), so that the chunk of the
size 0 ends the page (`ReadInChunks`); and `clean_up` leaves these bytes or as many of
them as there was room for (`ClosedIs`, `Partly`).

**The document.**  What is printed fits because a document is what its types promise, so
`JsonInv` comes first: an item of the set `Documents[n]` has at most `n` levels below it,
every child is in `Documents[n - 1]`, and what reading, editing or copying makes of members
of these sets is a member again (`ParsedIs`, `EditedIs`, `CopyIs`); so is what may come from
behind the end of a text (`OutsideIs`). The bytes of a text are a sum over its tokens, and
the room is a sum over the children; sums over concatenated sequences add up (`TotalJoins`,
`BytesAre`), so that it is enough to compare them child by child.  An escaped string is as
long as the counting loop of `print_string_ptr` says (`StringFits`), an array or object as
long as its parts with their separators and tabs, which is less than the room by one byte at
least (`ArrayFits`, `MemberFits`, `ObjectFits`).  The induction is over the levels
(`DocumentsFit`).

That printing is undone by reading starts from a text in the middle of another (`Placed`):
wherever the printed string, array or object stands in a text, reading from its first token
gives the item and the place behind its last one.  For a string it is the loop over the
escapes that is followed, to its end inside the text (`StringPlaced`, `StringEnds`), for an
array and an object the loop over the members, each of which stands where the ones before it
end (`Lies`, `ArrayRead`, `ObjectRead`), with the blanks of the formatted text skipped.
What is read of a child is known from the level below, so that the induction is over the
levels once more (`ReadsAll`), and the whole text is the case of a text that stands in
itself.  `cJSON_Minify` works without nesting, turn by turn: a text is minified to another
(`Minifies`) when from every turn that has reached its beginning the loop reaches its end
with the other text written behind what it had written (`Reached`).  This holds of a token,
a blank and a string, of texts one behind another (`MinifyJoin`, `MinifyFlat`), and so of
the formatted and the bare text of every document (`TextsMinify`).

**Recursion.**  The copy, the reading, the chunks, and the levels of a document are recursive
functions over numbers.
`Lemmas!SetInduction` proves induction for a *set* of numbers, which unlike an operator the
provers can instantiate, and `Climb` and `Iteration` give from it that a recursive function
is defined and what it satisfies.

The inductive invariants were model-checked on the instances of the runs before they were
proved; `IInv` is part of the run `pool`.

**Only model-checked.**

* All liveness properties, which need `ENABLED` and fairness and are out of the prover's
  reach: `EveryJobRuns`, `WaitEnds`, `DestroyReturns`, the fairness of `KeepsPromise`,
  `EveryTaskEnds`, `ProcessEnds`, `DueRuns`, `ZoneFollows`, `SyncEnds`, `AloneIsServed`.
* `TriggerIsNext` and `StampIsLast` of `CronExpr`: the functions of `ccronexpr.c` call one
  another, and the module translates them with RECURSIVE operators, about which the prover
  cannot reason.  They are compared with their definition (no matching time is skipped) on
  the inputs of the run.

## Findings

| run | what it shows |
|---|---|
| `gateway_uart` | `open_serial` publishes a string literal as if it were a task; the MQTT thread removes a node it has not found and dereferences NULL |
| `update_overlap` | the next update command truncates the image between check and rename; the broken file becomes the program |
| `restart_restarts` | `main` sees `app_running = 0`, cleans up too and returns before the update thread executes the new program: a cause for `开发记录.md` bug6, "sometimes the restart after an update fails, cause unknown" |
| `cron_hourly` | a job cancelled at its timeout is started again every second, for the same hour |
| `cron_second` | the second NTP server is not asked when the flag of an earlier success is still set |

Also visible in the models or met while writing them, without a run of their own:

* pool: of two threads in `thpool_wait` one may stay there for ever, although "once the queue
  is empty and all work has completed, the calling thread [...] will continue"
  (`thpool.h:74-75`): the last worker signals once (`thpool.c:379`); in the daemon `main`, the
  update thread and a signal handler wait at once.  The last worker unlocks a mutex of a pool
  that `thpool_destroy` may have freed already (`Thpool`, a worker at `"unlock"` with
  `freed`); a thread that cannot be created is counted on for ever by `thpool_init`;
* shutdown: `jobqueue_clear` throws away the commands that arrive after a `thpool_wait` has
  ended (`Restart`, `dropped`), and who waits later passes; the program's file is replaced
  before the queued commands have run, although a comment says they are waited for; main
  unregisters the cron tasks (`crontasks.c:83`) while the cron thread walks them;
* pipeline: a worker that writes to a TCP client that has gone gets SIGPIPE
  (`tcp_server.c:122`, `info_set.c:157`), and waits in the handler (`main.c:90`) for itself
  (`Gateway`, `BrokenPipe`; `Restart`, `"blocked"`); for JSON without `ac`, `val` or `op`, and for a
  `val` without one of its fields, `cJSON_Print` returns NULL, which is dereferenced
  (`mqtt.c:143-154`, `188-190`): the same handler, on the receiving thread or the worker;
* update: the CRC of an image shorter than four bytes is uninitialized, and if it happens to
  be 0 the empty file is installed (`crc32.c:107-119`); between `fclose` (`http.c:477`) and `rename`
  (`com_update.c:67`) nothing is synced, so that a power cut soon after an update may leave
  a program that is empty or a part (`HarmHasItsCause` names both);
* cron: `pthread_create` returns a positive error, `arm_jobs` looks for a negative one
  (`crontasks.c:178-182`): the task stays armed, that is, never runs again, and an uninitialized
  thread number is cancelled and joined;
* settings: minIni reports a put as successful when a write, the close, the remove or the
  rename has failed (`ini.c` 600, 617, 651, 659-668; "1 if successful, otherwise 0",
  `ini.c:677`, is said of `ini_puts`, and `com_config.c:65` relies on it), so that a full
  file system may cut the file short; a power cut between remove and rename in
  `close_rename` makes the next start put the defaults; a value loses the blanks at its
  beginning when it is read (`ini.c:301`); `get_date_str` takes every text that begins with
  `dummy` for missing (`com_config.c:132`); a serial number is accepted with the MD5 of the
  empty text when the IMEI could not be read; `set_restore_info` does not read the file it
  has written into the globals; `init_ini` writes `primary_ip` twice and never `second_ip`;
  set general answers OK when only its last put succeeded; `open_serial` sets the port to
  9600 baud whenever it is asked for its settings; a job cancelled between `fopen` and
  `fclose` leaves the time zone file empty until the next one;
* TCP: `AloneAsSent` and `AloneIsServed` do not hold of a client that is not alone: its
  thread may be given another's socket number, have its text cleared, or sleep for ever
  on the mutex a disconnected client has kept; `free_one_socket` frees the first node that
  is *not* the socket's;
* download: what does not fit in the last block is lost, and the download is reported as
  successful (`http.c:476-477`); the CRC check of `Update` is what finds it; the `Location`
  of a redirection keeps its line end, so that the redirected request is malformed; a
  `Content-Length:` without a blank loses its first digit; `clean_up` closes the socket's
  number a second time after `fclose` (line 470);
* cron expressions: with restricted months the search backwards may call itself until
  the stack ends; east of Greenwich the last day of a month is one short; the second is
  not reset when it is what has moved forward, so that of several seconds in a minute the
  first may be missed; a day 31 makes the search skip short months;
* JSON: `parse_string` reads behind the end of a text that ends in a backslash or in a cut-off
  `\u` (`cJSON.c:197`, `208-241`), `cJSON_Minify` behind an open string or comment
  (`cJSON.c:745-746`);
* NTP: a `socket()` that fails makes `primary_loop` spin on `select`'s error.

## Not modelled

* MQTT start-up: `mqtt_connecting` becomes 0 before the semaphore is made (`mqtt.c:261`).
  What main's first `semop` then does depends on an id of 0, which may be another
  program's semaphore: an outcome of the system, not of this code.
* The pointers of `list.c` and `task_id++` under several threads: after the first race
  everything is undefined, so that there is nothing to state.  `Gateway` has both as
  atomic.
* The child and the pipes of a shell command; the outcomes and the pieces are in `Gateway`.
  Opening and polling the USB device; its lines are arrivals in `Gateway`.
* The board's SDK, the MQTT library and the system are outside the repository; their
  results are choices.
* MD5, and that a CRC detects damage (the meaning of `"damaged"`): arithmetic without
  control.  `phaselock.c` is compiled in but never runs (`live` is 0).
* Texts longer than their buffers, and memory that runs out; in `Gateway` and `Settings` what
  the signal handler does after a NULL was dereferenced, which is in `Restart`.
* What a file system does to a directory in a power cut beyond bringing back earlier names and
  leaving out data that was not written back.
* `com_log.c`, `com_network.c`: text output, and SDK calls.
* `02 嵌入式/my_makefile/MDTU_communication/` is an older copy of the daemon; the rest of
  the repository is Makefile templates, AutoHotkey scripts, notes and binaries.

## Plan

The modules, in the order in which they matter; all are written.

1. `JobPool`, `Thpool`, `ThpoolProofs`: everything else runs on the pool.
2. `Gateway`: composes the channels, `JobPool`'s queue and the publisher.
3. `Update`: the one part that can make the device unusable.
4. `Restart`: composes the pool, `main` and the update thread.
5. `Cron` with NTP.
6. `IniFile`, `Board`, `Settings`: what the commands do.
7. `TcpServer`, `Ntp`, `Http`, `CronExpr`, `Json`, together as `Services`.

The proof modules follow the same order: pool, pipeline, update, shutdown, scheduler,
settings, and time, TCP server, download and JSON; all are written.

## Running it

```
tlc -workers 2 -config MCThpool_pool.cfg MCThpool    # and likewise the others
tlapm ThpoolProofs.tla                               # and the other proof modules
```

Every run takes less than four minutes on two cores.  The proofs are 17423 obligations in
eight modules and take less than half an hour from nothing; `SettingsProofs` and
`ServiceProofs` have four fifths of them.

