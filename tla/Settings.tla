------------------------------ MODULE Settings ------------------------------
(***************************************************************************)
(* The settings of the daemon: the file mdtu_com.ini, the globals read     *)
(* from it when the daemon starts (com_config.c), the commands that change *)
(* and show them (info_set.c, info_get.c), which the one worker executes   *)
(* one after the other, and the job of the cron thread that writes the     *)
(* time zone file (schedule_tasks.c).  The power may fail at any step and  *)
(* takes what the kernel has not written back; the file system may be full *)
(* or fail at any write, remove or rename, which minIni does not notice.   *)
(***************************************************************************)
EXTENDS IniFile, Board, SequencesExt

CONSTANTS
  FirstFiles,   \* the files the daemon may find at its first start (Absent: none)
  GeneralArgs, NtpArgs, ApnArgs, SnArgs, SerialArgs,   \* the "val" of the set commands
  Dummies,      \* the texts that begin with "dummy", which get_date_str looks for
  NoIdentity,   \* the MD5 of the empty text, which stands for an IMEI that was not read
  Modems,       \* what the modem's SDK may report when it is asked
  MaxEvents     \* commands, power cuts, failures of the file system and cancelled jobs, together

Absent == <<[kind |-> "absent"]>>

VARIABLES
  ini, tmp,   \* the lines of mdtu_com.ini and of mdtu_com.in~, or Absent
  past,       \* what mdtu_com.ini was before, since the power is on
  mem,        \* the globals load_config fills, one for each pair of a section and a key
  uart,       \* the settings of the serial port (fibo_uart_set_dcb)
  zone,       \* the text in the time zone file
  phase,      \* main: "off", "init" (inside init_ini), "load", "up", "stuck" (see Crash)
  cmd, arg,   \* the command the worker executes, or "none", and its "val"
  wpc,        \* where it is: "idle", "parse", "puts", "sync", "reply"
  todo,       \* the puts that are left of the list in hand, <<section, key, text>>
  step,       \* how far the first of them is: "next", "copied", "removed"; "torn" and "lost"
              \* instead of the last two when the copy was cut short
  ret,        \* ret of the last put: TRUE is 0 (success)
  reply,      \* what was answered last
  sync,       \* ntp_sync_time in the worker and in the cron job: "out", "open", "print", "ask"
  text,       \* what each of them has printed and not yet flushed
  commands, mishaps,
  written,    \* history: what ini_puts has written and reported, <<section, key>> -> text
  stale       \* history: since the start, a put failed or the defaults were restored
NoArg   == [none |-> 0]
Lacking == [lacking |-> 0]   \* a "val" without one of its fields
command == <<cmd, arg>>
vars == <<ini, tmp, past, mem, uart, zone, phase, command, wpc, todo, step, ret, reply, sync, text,
          commands, mishaps, written, stale>>

disk  == <<ini, tmp, past>>
Mishap  == commands + mishaps < MaxEvents /\ mishaps' = mishaps + 1
Arrival == commands + mishaps < MaxEvents /\ commands' = commands + 1
count == <<commands, mishaps>>

\* What load_config reads, strings and numbers.
StrPairs == {<<"mqtt_sub_pub", k>> : k \in {"pub_first", "sub_first"}}
            \cup {<<"mqtt_sign_info", k>> : k \in {"clientid", "username", "password", "host"}}
            \cup {<<"ntp_config", k>> : k \in {"primary_ip", "second_ip"}}
            \cup {<<"ota_update", k>> : k \in {"url", "model"}}
IntPairs == {<<"tcp_server", k>> : k \in {"bin", "port", "timeout", "tcptmr", "schedule"}}
            \cup {<<"ntp_config", k>> : k \in {"interval", "timezone"}}
            \cup {<<"mqtt_sign_info", "port">>, <<"ota_update", "ver">>}
Pairs == StrPairs \cup IntPairs
Zero  == [p \in Pairs |-> IF p \in IntPairs THEN 0 ELSE ""]

\* get_date_str and get_date_int for every pair: what is not found stays as it is, and so
\* does what is -1 or begins with "dummy".
get_date_str(f, p, old) == LET t == ini_gets(f, p[1], p[2], "dummy")
                           IN  IF t \in Dummies THEN old ELSE t
get_date_int(f, p, old) == LET n == ini_getl(f, p[1], p[2], -1)
                           IN  IF n = -1 THEN old ELSE n
load_config(f, m) ==
  [p \in Pairs |-> IF p \in IntPairs THEN get_date_int(f, p, m[p]) ELSE get_date_str(f, p, m[p])]

\* ini_put_str and ini_put_int.
Str(s, k, v) == <<s, k, v>>
Int1(s, k, n) == <<s, k, long2str(n)>>

\* The puts of init_ini; it writes primary_ip twice and second_ip not at all.
Defaults == <<
  Str("mqtt_sub_pub", "pub_first", "topic1"), Str("mqtt_sub_pub", "sub_first", "topic1"),
  Str("mqtt_sign_info", "clientid", "123456"), Str("mqtt_sign_info", "username", "08818bb8"),
  Str("mqtt_sign_info", "password", "50ba03ec"), Str("mqtt_sign_info", "host", "172.16.225.24"),
  Int1("mqtt_sign_info", "port", 1883),
  Int1("tcp_server", "bin", 0), Int1("tcp_server", "port", 4059), Int1("tcp_server", "timeout", 120),
  Int1("tcp_server", "tcptmr", 0), Int1("tcp_server", "schedule", 0),
  Str("ntp_config", "primary_ip", "172.16.225.24"), Str("ntp_config", "primary_ip", "172.16.225.24"),
  Int1("ntp_config", "interval", 60), Int1("ntp_config", "timezone", 8),
  Str("ota_update", "url", "http://172.16.225.25/a.bin"), Str("ota_update", "model", "L716"),
  Int1("ota_update", "ver", 1),
  Str("base_station_info", "lteBands", "B2/B3"),
  Str("apn", "name", "xxxx"), Str("apn", "user", "xxxx"), Str("apn", "passwd", "xxxx") >>

\* A put with a section, a key and a text, whose lines fit a buffer.
PutFits(p) == /\ p \in (STRING \ NoName) \X STRING \X STRING
              /\ Fits(SectionLine(p[1])) /\ Fits(KeyLine(p[2], p[3]))
Settable(s, k, n) == n \in Numbers /\ PutFits(Int1(s, k, n))
ASSUME SettingsAssumption ==
  /\ "dummy" \in Dummies /\ Dummies \subseteq STRING /\ Dummies \cap Leading = {}
  /\ \A f \in FirstFiles : f = Absent \/ Readable(f)
  /\ Fits(OtherLine("")) /\ \A i \in DOMAIN Defaults : PutFits(Defaults[i])
  /\ \A v \in GeneralArgs : /\ DOMAIN v = {"bin", "port", "timeout", "tcptmr", "schedule"}
                            /\ \A k \in DOMAIN v : Settable("tcp_server", k, v[k])
  /\ \A v \in NtpArgs : /\ PutFits(Str("ntp_config", "primary_ip", v.primary))
                        /\ PutFits(Str("ntp_config", "second_ip", v.second))
                        /\ Settable("ntp_config", "interval", v.interval)
                        /\ Settable("ntp_config", "timezone", v.timezone)
  /\ \A v \in ApnArgs : /\ PutFits(Str("apn", "name", v.name)) /\ PutFits(Str("apn", "user", v.user))
                        /\ PutFits(Str("apn", "passwd", v.passwd))
  /\ \A v \in SnArgs : /\ PutFits(Str("sn", "model", v.model)) /\ PutFits(Str("sn", "sn", v.sn))
                       /\ PutFits(Int1("sn", "hver", v.hver))

Init ==
  /\ ini \in FirstFiles /\ tmp = Absent /\ past = {} /\ mem = Zero
  /\ uart \in SerialArgs /\ zone = ""
  /\ phase = "off" /\ cmd = "none" /\ arg = NoArg /\ wpc = "idle"
  /\ todo = <<>> /\ step = "next" /\ ret = TRUE
  /\ reply = [ac |-> "none"]
  /\ sync = [a \in {"worker", "job"} |-> "out"] /\ text = [a \in {"worker", "job"} |-> ""]
  /\ commands = 0 /\ mishaps = 0
  /\ written = <<>> /\ stale = FALSE

(***************************************************************************)
(* One ini_puts of the list in hand, by main in init_ini or by the worker. *)
(***************************************************************************)
P == todo[1]
Putting == todo # <<>> /\ (phase = "init" \/ wpc = "puts")
\* The file is x from now on; the medium may have what it was for some time yet.
Change(x) == ini' = x /\ past' = past \cup {ini}
Noted(p) == [q \in DOMAIN written \cup {<<p[1], p[2]>>} |->
               IF q = <<p[1], p[2]>> THEN p[3] ELSE written[q]]
\* The put is over, with what it returns (ok): on to the next.
After(ok) == todo' = Tail(todo) /\ step' = "next" /\ ret' = ok
\* It was done, or has reported that it was not.
Done(ok) == /\ After(ok)
            /\ stale' = (stale \/ ~ok)
            /\ written' = IF ok THEN Noted(P) ELSE written
\* It was not done and reports success; what is left of the file is another matter.
Unnoticed == After(TRUE) /\ stale' = TRUE

\* Nothing to do, one line in place, a new file, or the copy.
Put ==
  /\ Putting /\ step = "next"
  /\ IF ini = Absent
     THEN Change(NewFile(P[1], P[2], P[3])) /\ Done(TRUE) /\ UNCHANGED tmp
     ELSE CASE PutKind(ini, P[1], P[2], P[3]) = "same" ->
                 Done(TRUE) /\ UNCHANGED disk
            [] PutKind(ini, P[1], P[2], P[3]) = "in place" ->
                 Change(InPlace(ini, P[1], P[2], P[3])) /\ Done(TRUE) /\ UNCHANGED tmp
            [] OTHER ->
                 /\ tmp' = Rewritten(ini, P[1], P[2], P[3]) /\ step' = "copied"
                 /\ UNCHANGED <<ini, past, todo, ret, written, stale>>
  /\ UNCHANGED <<mem, uart, zone, phase, command, wpc, reply, sync, text, count>>

\* ini_openwrite or ini_openrewrite fails, the one failure that is reported.
PutFails ==
  /\ Putting /\ step = "next" /\ Mishap
  /\ ini = Absent \/ PutKind(ini, P[1], P[2], P[3]) # "same"
  /\ Done(FALSE)
  /\ UNCHANGED <<disk, mem, uart, zone, phase, command, wpc, reply, sync, text, commands>>

\* A write or the close fails, with the file system full, and nobody looks: the new file
\* and the copy are cut short, the line in place stays what it was.
WriteFails ==
  /\ Putting /\ step = "next" /\ Mishap
  /\ \/ /\ ini = Absent
        /\ \E g \in Torn(NewFile(P[1], P[2], P[3])) : Change(g)
        /\ Unnoticed /\ written' = <<>> /\ UNCHANGED tmp
     \/ /\ ini # Absent /\ PutKind(ini, P[1], P[2], P[3]) = "in place"
        /\ Unnoticed /\ UNCHANGED <<disk, written>>
     \/ /\ ini # Absent /\ PutKind(ini, P[1], P[2], P[3]) = "copy"
        /\ tmp' \in Torn(Rewritten(ini, P[1], P[2], P[3])) /\ step' = "torn"
        /\ UNCHANGED <<ini, past, todo, ret, written, stale>>
  /\ UNCHANGED <<mem, uart, zone, phase, command, wpc, reply, sync, text, commands>>

KeepsCopy ==                                                             \* Mistake
  /\ Putting /\ step = "copied" /\ Done(TRUE)
  /\ UNCHANGED <<disk, mem, uart, zone, phase, command, wpc, reply, sync, text, count>>
\* close_rename removes the file, or fails to, before it renames the copy; of what was
\* written before nothing is sure when the copy was cut short.
ToRename ==
  /\ Putting /\ step \in {"copied", "torn"}
  /\ step' = IF step = "copied" THEN "removed" ELSE "lost"
  /\ written' = IF step = "copied" THEN written ELSE <<>>
  /\ stale' = IF step = "copied" THEN stale ELSE TRUE
  /\ UNCHANGED <<tmp, mem, uart, zone, phase, command, wpc, todo, ret, reply, sync, text>>
RemoveFile  == ToRename /\ Change(Absent) /\ UNCHANGED count
RemoveFails == ToRename /\ Mishap /\ UNCHANGED <<ini, past, commands>>
\* The copy takes the place of a file that could not be removed, too.
RenameCopy ==
  /\ Putting /\ step \in {"removed", "lost"} /\ Change(tmp) /\ tmp' = Absent
  /\ IF step = "removed" THEN Done(TRUE) ELSE Unnoticed /\ UNCHANGED written
  /\ UNCHANGED <<mem, uart, zone, phase, command, wpc, reply, sync, text, count>>
\* Nobody looks: there is no file now, or, when it could not be removed, the old one.
RenameFails ==
  /\ Putting /\ step \in {"removed", "lost"}
  /\ IF ini = Absent THEN Mishap ELSE UNCHANGED mishaps
  /\ Unnoticed /\ written' = IF ini = Absent THEN <<>> ELSE written
  /\ UNCHANGED <<disk, mem, uart, zone, phase, command, wpc, reply, sync, text, commands>>

(***************************************************************************)
(* Start and power.                                                        *)
(***************************************************************************)
\* The open with O_CREAT in init_ini, which makes a file that is missing or fails.
Create ==
  /\ \/ ini = Absent /\ Change(<<>>) /\ UNCHANGED mishaps
     \/ ini # Absent /\ UNCHANGED <<ini, past, mishaps>>
     \/ ini = Absent /\ Mishap /\ UNCHANGED <<ini, past>>
  /\ todo' = Defaults
  /\ written' = IF ini = Absent THEN <<>> ELSE written

\* open_ini: when the file is missing, init_ini creates it and puts the defaults.
Start ==
  /\ phase = "off"
  /\ IF ini = Absent
     THEN phase' = "init" /\ Create
     ELSE phase' = "load" /\ UNCHANGED <<ini, past, todo, written, mishaps>>
  /\ UNCHANGED <<tmp, mem, uart, zone, command, wpc, step, ret, reply, sync, text, commands, stale>>

EndInit ==
  /\ phase = "init" /\ todo = <<>> /\ phase' = "load"
  /\ UNCHANGED <<disk, mem, uart, zone, command, wpc, todo, step, ret, reply, sync, text, count,
                 written, stale>>

LoadForgets ==                                                             \* Mistake
  /\ phase = "load" /\ mem' = [load_config(ini, mem) EXCEPT ![<<"tcp_server", "bin">>] = 0]
  /\ phase' = "up"
  /\ UNCHANGED <<disk, uart, zone, command, wpc, todo, step, ret, reply, sync, text, count,
                 written, stale>>
Load ==
  /\ phase = "load" /\ mem' = load_config(ini, mem) /\ phase' = "up"
  /\ UNCHANGED <<disk, uart, zone, command, wpc, todo, step, ret, reply, sync, text, count,
                 written, stale>>

\* What is there after a power cut: the file as it is, or, nothing in the daemon makes the
\* kernel write it back, as it was before, no file, or a part of one of those.
Remains == LET files == (past \cup {ini}) \ {Absent}
           IN  IF past = {} THEN {ini} ELSE past \cup {ini, Absent} \cup UNION {Torn(f) : f \in files}

\* The memory is lost, and what was printed and not flushed, and what was not written back.
\* (Nobody reads what there may be of the copy.)
PowerCut ==
  /\ phase # "off" /\ Mishap
  /\ ini' \in Remains /\ past' = {} /\ tmp' = Absent /\ zone' \in {zone, ""}
  /\ written' = IF ini' = ini THEN written ELSE <<>>
  /\ phase' = "off" /\ mem' = Zero /\ cmd' = "none" /\ arg' = NoArg
  /\ wpc' = "idle" /\ todo' = <<>>
  /\ step' = "next" /\ ret' = TRUE /\ reply' = [ac |-> "none"] /\ stale' = FALSE
  /\ sync' = [a \in {"worker", "job"} |-> "out"] /\ text' = [a \in {"worker", "job"} |-> ""]
  /\ UNCHANGED <<uart, commands>>

(***************************************************************************)
(* The commands.                                                           *)
(***************************************************************************)
SetAnswer(ok) == [ac |-> "set", op |-> cmd, ok |-> ok]
Finish(answer) == reply' = answer /\ cmd' = "none" /\ arg' = NoArg /\ wpc' = "idle"

\* The worker takes the next command.
Take(op, v, to) == cmd' = op /\ arg' = v /\ wpc' = to
Accept ==
  /\ phase = "up" /\ wpc = "idle" /\ Arrival
  /\ \/ \E v \in GeneralArgs : Take("general", v, "clear")
     \/ \E v \in NtpArgs : Take("ntp", v, "clear")
     \/ \E v \in ApnArgs : Take("apn", v, "do")
     \/ \E v \in SnArgs : Take("sn", v, "do")
     \/ \E v \in SerialArgs : Take("serial", v, "do")
     \/ \E v \in 0..6 : Take("get", [val |-> v], "do")
     \/ Take("restart", NoArg, "do")
     \/ Take("restore", NoArg, "remove")
     \/ \E op \in {"general", "ntp"} : Take(op, Lacking, "clear")
     \/ \E op \in {"apn", "sn", "serial"} : Take(op, Lacking, "do")
  /\ reply' = [ac |-> "none"]
  /\ UNCHANGED <<disk, mem, uart, zone, phase, todo, step, ret, sync, text, mishaps,
                 written, stale>>

\* set_general_info and set_ntp_info: memset of the globals, which the job may read meanwhile.
Clear ==
  /\ wpc = "clear" /\ wpc' = "parse"
  /\ mem' = [p \in Pairs |-> IF p[1] = (IF cmd = "ntp" THEN "ntp_config" ELSE "tcp_server")
                             THEN Zero[p] ELSE mem[p]]
  /\ UNCHANGED <<disk, uart, zone, phase, command, todo, step, ret, reply, sync, text, count, written,
                 stale>>

\* cJSON_Print makes nothing of a field that is not there, which is given to atoi or to
\* strncpy: the handler of SIGSEGV ends the jobs and waits on the worker for the worker.
Crash ==
  /\ wpc \in {"parse", "do"} /\ arg = Lacking
  /\ phase' = "stuck" /\ cmd' = "none" /\ arg' = NoArg /\ wpc' = "idle"
  /\ UNCHANGED <<disk, mem, uart, zone, todo, step, ret, reply, sync, text, count, written, stale>>

\* parse_general_json, parse_ntp_json: the "val" of the command, field by field.
parse_general_json(v, m) == [p \in Pairs |-> IF p[1] = "tcp_server" THEN v[p[2]] ELSE m[p]]
parse_ntp_json(v, m) ==
  [p \in Pairs |-> CASE p = <<"ntp_config", "primary_ip">> -> v.primary
                     [] p = <<"ntp_config", "second_ip">>  -> v.second
                     [] p = <<"ntp_config", "interval">>   -> v.interval
                     [] p = <<"ntp_config", "timezone">>   -> v.timezone
                     [] OTHER                              -> m[p]]

GeneralMixesUp(m) ==                                                       \* Mistake
  <<Int1("tcp_server", "bin", m[<<"tcp_server", "bin">>]),
    Int1("tcp_server", "port", m[<<"tcp_server", "port">>]),
    Int1("tcp_server", "timeout", m[<<"tcp_server", "timeout">>]),
    Int1("tcp_server", "tcptmr", m[<<"tcp_server", "timeout">>]),
    Int1("tcp_server", "schedule", m[<<"tcp_server", "schedule">>])>>
exec_set_general_operation(m) ==
  [i \in 1..5 |-> LET k == <<"bin", "port", "timeout", "tcptmr", "schedule">>[i]
                  IN  Int1("tcp_server", k, m[<<"tcp_server", k>>])]
exec_set_ntp_operation(m) ==
  <<Str("ntp_config", "primary_ip", m[<<"ntp_config", "primary_ip">>]),
    Str("ntp_config", "second_ip", m[<<"ntp_config", "second_ip">>]),
    Int1("ntp_config", "interval", m[<<"ntp_config", "interval">>]),
    Int1("ntp_config", "timezone", m[<<"ntp_config", "timezone">>])>>

Parse ==
  /\ wpc = "parse" /\ arg # Lacking /\ wpc' = "puts"
  /\ mem' = IF cmd = "ntp" THEN parse_ntp_json(arg, mem) ELSE parse_general_json(arg, mem)
  /\ todo' = IF cmd = "ntp" THEN exec_set_ntp_operation(mem')
             ELSE exec_set_general_operation(mem')
  /\ UNCHANGED <<disk, uart, zone, phase, command, step, ret, reply, sync, text, count, written, stale>>

\* set_sn_info: nothing is written unless the key (its first 32 characters, which stand for
\* it here) is the MD5 of the IMEI, or of an empty text when there was none to be read; only
\* the result of the last call to the SDK is looked at.
parse_sn_json(v) == v
exec_set_sn_operation(s) ==
  <<Str("sn", "model", s.model), Str("sn", "sn", s.sn), Int1("sn", "hver", s.hver)>>
KeyMatches(m) == m.closes /\ arg.key = IF m.identified THEN m.md5 ELSE NoIdentity
SetSn ==
  /\ wpc = "do" /\ cmd = "sn" /\ arg # Lacking
  /\ \E m \in Modems : IF KeyMatches(m)
                       THEN /\ todo' = exec_set_sn_operation(parse_sn_json(arg))
                            /\ wpc' = "puts" /\ UNCHANGED <<command, reply>>
                       ELSE Finish(SetAnswer(FALSE)) /\ UNCHANGED todo
  /\ UNCHANGED <<disk, mem, uart, zone, phase, step, ret, sync, text, count, written, stale>>

\* parse_apn_json fills a set_sn_t, whose first three texts lie where set_apn_t has its own.
parse_apn_json(v) == [model |-> v.name, sn |-> v.user, key |-> v.passwd]
exec_set_apn_operation(s) ==
  <<Str("apn", "name", s.model), Str("apn", "user", s.sn), Str("apn", "passwd", s.key)>>
SetApn ==
  /\ wpc = "do" /\ cmd = "apn" /\ arg # Lacking
  /\ todo' = exec_set_apn_operation(parse_apn_json(arg)) /\ wpc' = "puts"
  /\ UNCHANGED <<disk, mem, uart, zone, phase, command, step, ret, reply, sync, text, count, written,
                 stale>>

\* set_serial_info opens the port, which sets it to 9600 baud, and then sets it.
parse_serial_json(v) ==
  IF v.name = "RS232" THEN [databit |-> v.dbt, stopbit |-> v.sbt, parity |-> v.pbt,
                            baudrate |-> v.bps]
  ELSE [databit |-> 0, stopbit |-> 0, parity |-> 0, baudrate |-> 0]
SetSerial ==
  /\ wpc = "do" /\ cmd = "serial" /\ arg # Lacking
  /\ \E m \in Modems :
       /\ uart' = IF m.uart THEN parse_serial_json(arg) ELSE uart
       /\ Finish(SetAnswer(m.uart))
  /\ UNCHANGED <<disk, mem, zone, phase, todo, step, ret, sync, text, count, written, stale>>

\* set_restart_info reboots the board (when that fails: no answer, no error).
SetRestart ==
  /\ wpc = "do" /\ cmd = "restart" /\ Finish([ac |-> "none"])
  /\ UNCHANGED <<disk, mem, uart, zone, phase, todo, step, ret, sync, text, count, written, stale>>

\* set_restore_info: remove, whose result is the answer, then init_ini, on the old file when
\* it could not be removed; load_config is not called.
RestoreRemove ==
  /\ wpc = "remove" /\ wpc' = "create"
  /\ \/ ini # Absent /\ Change(Absent) /\ arg' = [removed |-> TRUE] /\ UNCHANGED mishaps
     \/ ini = Absent /\ UNCHANGED <<ini, past, mishaps>> /\ arg' = [removed |-> FALSE]
     \/ ini # Absent /\ Mishap /\ UNCHANGED <<ini, past>> /\ arg' = [removed |-> FALSE]
  /\ UNCHANGED <<tmp, mem, uart, zone, phase, cmd, todo, step, ret, reply, sync, text, commands,
                 written, stale>>
RestoreCreate ==
  /\ wpc = "create" /\ wpc' = "puts" /\ Create /\ stale' = TRUE
  /\ UNCHANGED <<tmp, mem, uart, zone, phase, command, step, ret, reply, sync, text, commands>>

\* The get commands.
Answers(k, m) ==
  CASE k = 0 -> get_base_info(m)
    [] k = 1 -> get_base_station_info(m, ini_gets(ini, "base_station_info", "lteBands", ""))
    [] k = 2 -> get_signal_param(m)
    [] k = 3 -> get_serial_info(m)
    [] k = 4 -> get_extra_info(m, mem)
    [] k = 5 -> get_apn_config(m)
    [] k = 6 -> get_ntp_config(m, mem)
GetInfo ==
  /\ wpc = "do" /\ cmd = "get"
  /\ \E m \in Modems : \E a \in Answers(arg.val, m) : Finish(a)
  /\ uart' \in IF arg.val = 3 THEN {uart, Opened} ELSE {uart}
  /\ UNCHANGED <<disk, mem, zone, phase, todo, step, ret, sync, text, count, written, stale>>

PutsDone ==
  /\ wpc = "puts" /\ todo = <<>> /\ wpc' = IF cmd = "ntp" THEN "sync" ELSE "reply"
  /\ UNCHANGED <<disk, mem, uart, zone, phase, command, todo, step, ret, reply, sync, text, count,
                 written, stale>>

\* exec_set_ntp_operation and exec_set_apn_operation return nothing; of five puts the last
\* one's result is the answer, of those of a serial number none's.
Reply ==
  /\ wpc = "reply"
  /\ \E ok \in CASE cmd = "general"         -> {ret}
                 [] cmd \in {"ntp", "apn"}  -> BOOLEAN
                 [] cmd = "restore"           -> {arg.removed}
                 [] OTHER                      -> {TRUE} : Finish(SetAnswer(ok))
  /\ UNCHANGED <<disk, mem, uart, zone, phase, todo, step, ret, sync, text, count, written, stale>>

(***************************************************************************)
(* ntp_sync_time, by the worker (set ntp) and by the job.                  *)
(***************************************************************************)
Zone(m) == CASE m[<<"ntp_config", "timezone">>] = 8 -> "CST-8"
             [] m[<<"ntp_config", "timezone">>] = 4 -> "CST-4"
             [] OTHER                               -> ""
Busy(a) == phase = "up" /\ (a = "job" \/ wpc = "sync")
Step(a, from, to) == Busy(a) /\ sync[a] = from /\ sync' = [sync EXCEPT ![a] = to]
rest == <<disk, mem, uart, phase, command, todo, step, ret, reply, written, stale>>

OpenKeeps(a) ==                                                            \* Mistake
  Step(a, "out", "print") /\ UNCHANGED <<zone, rest, wpc, text, count>>
\* fopen(TIMEZONE_PATH, "w") empties the file; or it fails.
OpenZone(a) == Step(a, "out", "print") /\ zone' = "" /\ UNCHANGED <<rest, wpc, text, count>>
OpenFails(a) ==
  /\ Step(a, "out", "out") /\ Mishap
  /\ wpc' = IF a = "worker" THEN "reply" ELSE wpc
  /\ UNCHANGED <<zone, rest, text, commands>>
PrintZone(a) == Step(a, "print", "close") /\ text' = [text EXCEPT ![a] = Zone(mem)]
                /\ UNCHANGED <<zone, rest, wpc, count>>
\* fclose writes what was printed, if anything.
CloseZone(a) ==
  /\ Step(a, "close", "ask") /\ zone' = IF text[a] = "" THEN zone ELSE text[a]
  /\ text' = [text EXCEPT ![a] = ""] /\ UNCHANGED <<rest, wpc, count>>
\* The servers are asked (Cron has how).
Ask(a) ==
  /\ Step(a, "ask", "out") /\ wpc' = IF a = "worker" THEN "reply" ELSE wpc
  /\ UNCHANGED <<zone, rest, text, count>>
\* The job is cancelled at its timeout, in one of these system calls.
Cancel ==
  /\ phase = "up" /\ sync["job"] # "out" /\ Mishap
  /\ sync' = [sync EXCEPT !["job"] = "out"] /\ text' = [text EXCEPT !["job"] = ""]
  /\ UNCHANGED <<zone, rest, wpc, commands>>

Sync(a) == OpenZone(a) \/ PrintZone(a) \/ CloseZone(a) \/ Ask(a)
Main    == Start \/ EndInit \/ Load
Worker  == Clear \/ Crash \/ Parse \/ SetSn \/ SetApn \/ SetSerial \/ SetRestart \/ RestoreRemove
           \/ RestoreCreate \/ GetInfo \/ PutsDone \/ Reply \/ Sync("worker")
Puts    == Put \/ RemoveFile \/ RenameCopy
Failures == PutFails \/ WriteFails \/ RemoveFails \/ RenameFails
Next == Main \/ Puts \/ Failures \/ PowerCut \/ Accept \/ Worker \/ Sync("job")
        \/ (\E a \in {"worker", "job"} : OpenFails(a)) \/ Cancel
Spec == Init /\ [][Next]_vars
\* Each thread goes on; the job is started again and again.  The last two conjuncts say
\* WF_vars(Puts) and WF_vars(Load) without ENABLED: such a step is enabled when its state
\* predicate is false, and a list of puts is finite.
FairSpec == /\ Spec /\ WF_vars(Start \/ EndInit \/ Worker) /\ WF_vars(Sync("job"))
            /\ []<>~Putting /\ []<>(phase # "load")

(***************************************************************************)
(* Properties.                                                             *)
(***************************************************************************)
\* The globals hold texts and numbers, and every answer has the fields the protocol names.
Fields == <<{"fver", "hver", "ccid", "imsi", "imei", "sn", "model"},
            {"ip", "apn", "operator", "lteBands", "lteStatus", "txPower", "pCID", "cid", "mcc", "mnc"},
            {"ecio", "rsrp", "rsrq", "rssi", "sinr", "snr"}, {1},
            {"bin", "port", "timeout", "tcptmr", "schedule"}, {"name", "user", "passwd"},
            {"primary", "second", "interval", "timezone"}>>
TypeOK ==
  /\ \A p \in Pairs : IF p \in IntPairs THEN mem[p] \in Int ELSE mem[p] \in STRING
  /\ phase \in {"off", "init", "load", "up", "stuck"} /\ (cmd = "none" <=> wpc = "idle")
  /\ wpc \in {"idle", "clear", "parse", "do", "remove", "create", "puts", "sync", "reply"}
  /\ step \in {"next", "copied", "torn", "removed", "lost"} /\ ret \in BOOLEAN /\ stale \in BOOLEAN
  /\ reply.ac = "getinfo" => DOMAIN reply.info = Fields[reply.val + 1]

\* A copy that was written to its end (ini_puts) is the file with one line in the place of another
\* or one more line, whatever was cached and flushed in between; it has the new value, and every
\* other key and section for every way of reading it.
Ends(f) == {f, f \o <<OtherLine("")>>} \cup
           (IF f = <<>> THEN {} ELSE {[f EXCEPT ![Len(f)].nl = TRUE]})
OneLineApart(f, g, s, l) ==
  \/ \E i \in DOMAIN f : f[i].kind = "key" /\ f[i].name = l.name /\ g = ReplaceAt(f, i, l)
  \/ \E i \in DOMAIN f : f[i].kind = "section" /\ g = InsertAt(f, i, l)
  \/ \E e \in Ends(f) : g \in {e \o <<l>>, e \o <<SectionLine(s), l>>}
OtherKeys(f) == {b \in ini_browse(f) : <<b[1], b[2]>> # <<P[1], P[2]>>}
CopyKeepsOthers ==
  step = "copied" =>
    /\ ini_gets(tmp, P[1], P[2], "") = AsRead(P[3])
    /\ OneLineApart(ini, tmp, P[1], KeyLine(P[2], P[3]))
    /\ OtherKeys(tmp) = OtherKeys(ini)
    /\ \A b \in OtherKeys(ini) : ini_haskey(tmp, b[1], b[2]) /\ ini_hassection(tmp, b[1])
    /\ \A n \in DOMAIN ini : /\ ini_getsection(ini, n) \in {"", ini_getsection(tmp, n)}
                             /\ ini_getkey(ini, P[1], n) \in {"", ini_getkey(tmp, P[1], n)}

\* What ini_puts has written stays what the file says (a text that begins with a blank: without
\* it), through other commands, failures of the file system that are reported and those that
\* lose another put, and power cuts that leave the file as it is: until a copy is cut short or
\* the file is removed and the copy not renamed, a power cut takes what the kernel had not
\* written back, or the daemon finds the file missing and puts the defaults.
WrittenIsKept ==
  LET inHand == IF step = "removed" THEN {<<P[1], P[2]>>} ELSE {}
      f == IF step = "removed" THEN tmp ELSE ini
  IN  f # Absent => \A p \in DOMAIN written \ inHand :
                      ini_gets(f, p[1], p[2], "") \in {written[p], AsRead(written[p])}

\* What a global is after a restart: minIni drops blanks at the beginning of a text, and
\* load_config takes -1 and texts that begin with "dummy" for missing.
Reloaded(p, v) ==
  IF p \in IntPairs THEN IF v = -1 THEN 0 ELSE v
  ELSE IF AsRead(v) \in Dummies THEN "" ELSE AsRead(v)

\* Between commands the globals are what load_config would read now, but for such values,
\* unless a put failed or the defaults were restored: a set command changes the one as it
\* changes the other.
MemoryIsFile ==
  phase = "up" /\ wpc = "idle" /\ ~stale =>
    \A p \in Pairs : load_config(ini, Zero)[p] \in {mem[p], Reloaded(p, mem[p])}

\* Whatever happened, the time zone file comes to say the time zone of the globals, unless
\* a command that lacks a field stops the daemon.
ZoneFollows == []<>(phase = "stuck" \/ (phase = "up" /\ zone = Zone(mem)))
=============================================================================
