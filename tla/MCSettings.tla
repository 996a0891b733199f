----------------------------- MODULE MCSettings -----------------------------
(***************************************************************************)
(* The instance of Settings: files as they are shipped, edited by hand and *)
(* left behind by a full file system.                                      *)
(***************************************************************************)
EXTENDS Settings

KeyAs(k, v, q, n) == [kind |-> "key", name |-> k, val |-> v, quoted |-> q, nl |-> n]
K(k, v) == KeyAs(k, v, FALSE, TRUE)

MCBufferSize == 40
MCNumbers == (-1..10) \cup {20, 60, 120, 1883, 4059}
\* A password that has to be quoted; unquoted, what follows the semicolon is a comment.
MCClean == "p;w" :> "p" @@ " net" :> "net"
MCLeading == {" net"}
MCShorter == <<"4059", FALSE>> :> {"40"} @@ <<"p;w", TRUE>> :> {"\"p"} @@ <<"10.0.0.1", FALSE>> :> {"10.0.0."}
MCCutPoints == {0, 3, 7}
MCDummies == {"dummy", "dummy1"}

\* Shortened from mdtu_com.ini: no newline at the end.
Shipped == <<
  SectionLine("mqtt_sub_pub"), K("pub_first", "topic2"), K("sub_first", "topic2"),
  OtherLine(""), SectionLine("tcp_server"), K("bin", "0"), K("port", "4059"),
  K("timeout", "120"), K("tcptmr", "0"), K("schedule", "0"),
  SectionLine("ntp_config"), K("primary_ip", "10.0.0.1"), K("second_ip", "10.0.0.2"),
  K("interval", "60"), K("timezone", "8"),
  SectionLine("apn"), K("name", "xxxx"), K("user", "xxxx"), KeyAs("passwd", "xxxx", FALSE, FALSE) >>

\* Edited: comments, a key before every section, sections in another order, values to be cleaned.
Edited == <<
  OtherLine("; MDTU"), K("port", "1"),
  SectionLine("apn"), K("passwd", "p;w"), OtherLine("; the timezone follows"),
  SectionLine("ntp_config"), K("timezone", "4"), KeyAs("primary_ip", " net", TRUE, TRUE), OtherLine(""),
  SectionLine("tcp_server"), K("port", "4059"), OtherLine("# no more") >>

\* What a copy that was cut short has left of the shipped file.
CutShort == SubSeq(Shipped, 1, 7) \o <<[OtherLine("port") EXCEPT !.nl = FALSE]>>

MCFirstFiles == {Shipped, Edited, CutShort}

MCGeneral == {[port |-> 4059, bin |-> 1, timeout |-> 20, tcptmr |-> 5, schedule |-> 0]}
MCNtp == {[primary |-> "10.0.0.1", second |-> "10.0.0.3", interval |-> 5, timezone |-> z] :
            z \in {4}} \cup {[primary |-> " net", second |-> "dummy1", interval |-> -1, timezone |-> 0]}
MCApn == {[name |-> "net", user |-> "", passwd |-> "p;w"]}
MCSn == {[model |-> "D", sn |-> "1", key |-> k, hver |-> 1] : k \in {"good", "bad", "ofNothing"}}
MCSerial == {[name |-> "RS232", dbt |-> 8, sbt |-> 1, pbt |-> 0, bps |-> 9600]}
MCGarbage == {"???"}
Working == [memory |-> TRUE, closes |-> TRUE, identified |-> TRUE, identity |-> "86", md5 |-> "good",
            uart |-> TRUE, apn |-> [known |-> TRUE, name |-> "net", user |-> "", passwd |-> ""],
            addrs |-> <<[valid |-> TRUE, text |-> "10.0.0.72"]>>,
            at |-> [cell |-> "LTE SERVICE CELL", fields |-> <<1, 4, 460, 0, 0, 0, 9826, 43, 40, 5>>],
            operator |-> "CMCC", service |-> "service avaliable", mcc |-> 460, mnc |-> 0,
            signal |-> "lte" :> [rssi |-> -60, rsrq |-> -6, rsrp |-> -87, snr |-> 190]]
Poor == [Working EXCEPT !.identified = FALSE, !.uart = FALSE, !.apn.known = FALSE,
           !.addrs = <<[valid |-> FALSE, text |-> ""]>>,
           !.at = [cell |-> "GSM SERVICE CELL", fields |-> <<1, 1, 460, 0, 0, 0, 0, 0, 0, -15>>],
           !.signal = ("gsm" :> [rssi |-> -70]) @@
                      ("wcdma" :> [rssi |-> -71, ecio |-> 3])]
MCModems == {Working, Poor, [Working EXCEPT !.closes = FALSE, !.memory = FALSE]}
=============================================================================
