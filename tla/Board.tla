-------------------------------- MODULE Board --------------------------------
(***************************************************************************)
(* What the get commands answer (info_get.c): each handler asks the        *)
(* modem's SDK or copies the globals into a structure (..._read), makes a  *)
(* message of it (..._convert_json_object) and answers, or drops the task  *)
(* without an answer.  An operator returns the set of its possible         *)
(* results: a structure that was not filled, and a pointer into the frame  *)
(* of a function that has returned, show any text of Garbage.              *)
(***************************************************************************)
EXTENDS Integers, Sequences

CONSTANT Garbage

Unknown == -1   \* a number nobody wrote
NoText  == ""   \* a text of no character, and the one that is shown for it
Space   == " "

NoAnswer == [ac |-> "none"]
Message(val, info) == [ac |-> "getinfo", val |-> val, code |-> 0, info |-> info]

\* Every handler: no memory or ret # 0 frees the task, otherwise the message is answered.
Handle(m, ok, messages) == IF m.memory /\ ok THEN messages ELSE {NoAnswer}

(***************************************************************************)
(* 0: basic information.  Only the ret of the last call is looked at, so a *)
(* text the modem did not give stays what malloc found.                    *)
(***************************************************************************)
BaseTexts == {"fver", "hver", "ccid", "imsi", "imei", "sn", "model"}
base_info_read(m) == [BaseTexts -> IF m.identified THEN {m.identity} ELSE Garbage]
base_info_convert_json_object(val, s) == Message(val, s)
get_base_info(m) ==
  Handle(m, m.closes, {base_info_convert_json_object(0, s) : s \in base_info_read(m)})

(***************************************************************************)
(* 1: base station.                                                        *)
(***************************************************************************)
\* The text behind the first character of a number: the transmission power is read so.
AfterFirst(n) == IF n < 0 THEN -n ELSE IF n < 10 THEN 0 ELSE IF n < 100 THEN n % 10 ELSE n % 100

\* AT+GTCCINFO?: the kind of the cell and the fields behind the second colon.
exec_at_get_txPower(at, s) ==
  CASE at.cell = "GSM SERVICE CELL" -> [s EXCEPT !.txPower = AfterFirst(at.fields[10])]
    [] at.cell \in {"LTE SERVICE CELL", "LTE NEIGHBOR CELL"} -> [s EXCEPT !.pCID = at.fields[8]]
    [] OTHER -> s

\* addr2str: NULL for an address that is not valid.
addr2str(a) == IF a.valid THEN a.text ELSE "NULL"

\* apn and ip point into the frame of this function; of several addresses the last valid
\* one counts.
base_station_info_read(m, bands) ==
  LET written(t) == Garbage \cup {t}
      valid == {i \in DOMAIN m.addrs : addr2str(m.addrs[i]) # "NULL"}
      last  == CHOOSE i \in valid : \A j \in valid : j <= i
  IN  {exec_at_get_txPower(m.at, [ip |-> i, apn |-> a, operator |-> m.operator,
                                  lteBands |-> b, lteStatus |-> m.service, txPower |-> 0,
                                  pCID |-> 0, cid |-> 0, mcc |-> m.mcc, mnc |-> m.mnc]) :
        i \in IF m.addrs # <<>> /\ valid # {} THEN written(addr2str(m.addrs[last])) ELSE Garbage,
        a \in IF m.apn.known THEN (IF m.apn.name = NoText THEN {Space} ELSE written(m.apn.name))
              ELSE Garbage,
        b \in IF bands = NoText THEN Garbage ELSE {bands}}
base_station_info_convert_json_object(val, s) == Message(val, s)
get_base_station_info(m, bands) ==
  Handle(m, m.closes, {base_station_info_convert_json_object(1, s) :
                         s \in base_station_info_read(m, bands)})

(***************************************************************************)
(* 2: signal.  A technology overwrites what an earlier one reported.       *)
(***************************************************************************)
Technologies == <<"gsm", "wcdma", "tdscdma", "lte", "cdma", "hdr", "nr5g">>
Reported(t) == CASE t = "gsm"                -> {"rssi"}
                 [] t \in {"wcdma", "cdma"}  -> {"rssi", "ecio"}
                 [] t \in {"tdscdma", "hdr"} -> {"rssi", "ecio", "sinr"}
                 [] OTHER                    -> {"rssi", "rsrq", "rsrp", "snr"}
signal_param_read(m) ==
  LET by(p) == {i \in DOMAIN Technologies :
                  Technologies[i] \in DOMAIN m.signal /\ p \in Reported(Technologies[i])}
  IN  [p \in {"ecio", "rsrp", "rsrq", "rssi", "sinr", "snr"} |->
        IF by(p) = {} THEN 0
        ELSE m.signal[Technologies[CHOOSE i \in by(p) : \A j \in by(p) : j <= i]][p]]
signal_param_convert_json_object(val, s) == Message(val, s)
get_signal_param(m) == Handle(m, m.closes, {signal_param_convert_json_object(2, signal_param_read(m))})

(***************************************************************************)
(* 3: serial port.  open_serial opens it with 9600 baud, whatever was set. *)
(***************************************************************************)
Opened == [baudrate |-> 9600, databit |-> 0, parity |-> 0, stopbit |-> 0]
serial_info_read(dcb) ==
  [name |-> "RS232", bps |-> dcb.baudrate, dbt |-> dcb.databit, pbt |-> dcb.parity,
   sbt |-> dcb.stopbit]
serial_info_convert_json_object(val, s) ==
  Message(val, <<[name |-> s.name,
                  param |-> [bps |-> s.bps, dbt |-> s.dbt, pbt |-> s.pbt, sbt |-> s.sbt]]>>)
\* When the port cannot be opened, ret and the structure are what the stack and malloc hold.
get_serial_info(m) ==
  IF m.uart THEN Handle(m, TRUE, {serial_info_convert_json_object(3, serial_info_read(Opened))})
  ELSE {NoAnswer} \cup
       Handle(m, TRUE, {serial_info_convert_json_object(3,
                          [name |-> "RS232", bps |-> Unknown, dbt |-> Unknown, pbt |-> Unknown,
                           sbt |-> Unknown])})

(***************************************************************************)
(* 4, 5, 6: the TCP settings and the NTP settings of the globals, and the  *)
(* access point the modem uses, whose texts point into the frame of        *)
(* apn_config_read.                                                        *)
(***************************************************************************)
ExtraForgets(mem) ==                                                       \* Mistake
  [k \in {"bin", "port", "timeout", "tcptmr"} |-> mem[<<"tcp_server", k>>]]
extra_info_read(mem) ==
  [k \in {"bin", "port", "timeout", "tcptmr", "schedule"} |-> mem[<<"tcp_server", k>>]]
extra_info_convert_json_object(val, s) == Message(val, s)
get_extra_info(m, mem) == Handle(m, TRUE, {extra_info_convert_json_object(4, extra_info_read(mem))})

apn_config_read(m) ==
  LET shown(t) == IF t = NoText THEN {Space} ELSE Garbage \cup {t}
  IN  {[name |-> n, user |-> u, passwd |-> p] :
        n \in shown(m.apn.name), u \in shown(m.apn.user), p \in shown(m.apn.passwd)}
apn_config_convert_json_object(val, s) == Message(val, s)
get_apn_config(m) ==
  Handle(m, m.apn.known, {apn_config_convert_json_object(5, s) : s \in apn_config_read(m)})

ntp_config_read(mem) ==
  [primary_ip |-> mem[<<"ntp_config", "primary_ip">>],
   second_ip  |-> mem[<<"ntp_config", "second_ip">>],
   interval   |-> mem[<<"ntp_config", "interval">>],
   timezone   |-> mem[<<"ntp_config", "timezone">>]]
ntp_config_convert_json_object(val, s) ==
  Message(val, [primary |-> s.primary_ip, second |-> s.second_ip, interval |-> s.interval,
                timezone |-> s.timezone])
get_ntp_config(m, mem) == Handle(m, TRUE, {ntp_config_convert_json_object(6, ntp_config_read(mem))})
=============================================================================
