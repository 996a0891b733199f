----------------------------- MODULE MCServices -----------------------------
(* The instance of Services. *)
EXTENDS Services

(* Cron: the texts of main.c, expressions with every construct, and malformed ones. *)
\* Seconds after the beginning of a month of the calendar.
Date(month, s) == FirstDay(month) * 86400 + s
MCExpressions == {
  <<"0"," ","0"," ","0","/","1"," ","*"," ","*"," ","*">>,
  <<"0"," ","0","/","1"," ","*"," ","*"," ","*"," ","*">>,
  <<"0","/","10"," ","*"," ","*"," ","*"," ","*"," ","?">>,
  <<"59"," ","59"," ","23"," ","31"," ","*"," ","?">>,
  <<"5"," ","10","-","20","/","5",",","50"," ","1",",","13"," ","1","-","7"," ","*"," ","MON","-","FRI">>,
  <<"0"," ","0"," ","12"," ","29"," ","FEB"," ","*">>,
  <<"0"," ","0"," ","0"," ","1"," ","JAN",",","6"," ","0",",","7">>,
  <<"10",",","50"," ","5"," ","*"," ","*"," ","*"," ","*">>,
  <<"0"," ","0"," ","0"," ","31"," ","2"," ","*">>,
  <<"0"," ","*","/","0"," ","*"," ","*"," ","*"," ","*">>,
  <<"0"," ","60"," ","*"," ","*"," ","*"," ","*">>,
  <<"0"," ","5","-","1"," ","*"," ","*"," ","*"," ","*">>,
  <<"0"," ","0"," ","0"," ","*"," ","*">> }
MCClocks == {Date(97, -1), Date(97, 30 * 86400 + 3599), Date(98, 1200), Date(110,12345)}
MCDelays == {0, 1, 59, 3600, 86400 * 29}

(* JSON: commands with every construct, and texts that are wrong. *)
MCParsed == "0" :> 0 @@ "1" :> Scale @@ "12" :> 12 * Scale @@ "1.5" :> 15000000 @@ "0.1234567" :> 1234567
            @@ "1.500000" :> 15000000 @@ "0.123457" :> 1234570 @@ "5e-7" :> 5 @@ "5.000000e-07" :> 5
            @@ "-0.1234567" :> -1234567 @@ "-0.123457" :> -1234570 @@ "-3" :> -3 * Scale
            @@ "123.4567891" :> 1234567891 @@ "1.234568e+02" :> 1234568000
MCFormatted == {"1.500000", "0.123457", "5.000000e-07", "-0.123457", "1.234568e+02"}
MCHex == "0001" :> 1 @@ "0041" :> 65 @@ "D83D" :> 55357 @@ "DE00" :> 56832 @@ "0000" :> 0
MCUtf8 == 1 :> "~" @@ 65 :> "A" @@ 128512 :> "(-:)"
MCControls == "~" :> "0001"
MCLower == "A" :> "a" @@ "CMD" :> "cmd"
q == "\""
MCTexts == {
  <<"{", q, "cmd", q, ":", " ", q, "get", q, ",", "\n", "\t", q, "CMD", q, ":", "[", "1", ",", "12", "]", "}">>,
  <<"{", q, "a", "\\", "n", "\\", "u", "0001", "\\", "\\", q, ":", "0.1234567", "}", "x">>,
  <<"[", " ", "1.5", " ", ",", "{", "}", ",", q, "\\", "u", "D83D", "\\", "u", "DE00", "\\", "u", "D83D", "b", "\\", "u", "0000", q, ",", "null", "]">>,
  <<"//", "x", "\n", "[", "/*", q, "*/", "5e-7", ",", "123.4567891", ",", "-0.1234567", ",", "-3", "]">>,
  <<"{", q, "a", q, ",", "1", "}">>, <<"[", "1", " ", "true", "]">>, <<" ", q, "no end", "\\", q>>, <<"x">>,
  <<"[", q, "cut", "\\">>, <<"{", q, "\\", "u", "D83D", "\\", "u">>, <<"1", "/*", "x">>,
  <<"{", "1", ":", "1", "}">>}
MCItems == {cJSON_CreateNumber(0), cJSON_CreateString(<<"\t", "b", q, "~">>), cJSON_CreateStringArray(<<(<<"A">>), <<>>>>),
  cJSON_CreateBool(TRUE), cJSON_CreateObject, cJSON_CreateIntArray(<<1, 12>>), cJSON_CreateNull}
MCNames == {<<"cmd">>, <<"A">>, <<"a", "\\">>}
MCTokens == UNION {ToSet(t) : t \in MCTexts \cup MCNames} \cup DOMAIN MCParsed \cup Range(MCUtf8)
            \cup Range(ShortEscapes) \cup {"b", "A", "\t", q, "~"}

(* HTTP: two ports of one host. *)
MCPorts == "8080" :> 8080 @@ "65535" :> 65535
Image == <<"a", "b", "c", "d", "e">>
Pages == <<"/", "img">> :> WithLength(Image)
   @@ <<"/", "chunks">> :> InChunks(Image, 3)
   @@ <<"/", "moved">> :> <<Status(302), Sent("location", <<"http://", "host", "/", "img">>), Sent("blank", 0)>>
   @@ <<"/", "gzip">> :> <<Status(200), Sent("encoding", "gzip"), Sent("blank", 0)>> \o Content(Image)
   @@ <<"/", "tight">> :> <<Status(200), Sent("tight", 5), Sent("blank", 0)>> \o Content(Image)
   @@ <<"/", "none">> :> Answer(200) \o Content(Image)
MCHosts == <<(<<"host">>), 80>> :> Pages @@ <<(<<"host">>), 8080>> :> Pages
MCUrls == {<<"http://", "host", "/", p>> : p \in {"img", "chunks", "moved", "gzip", "none", "tight", "lost"}}
   \cup {<<"host", ":", "8080", "/", "img">>, <<"http://", "host", ":", "65535", "/", "img">>, <<"host">>, <<"http://", "nobody", "/", "img">>}

(* NTP: good and bad servers; the era ends in 31. *)
MCReplies == {Honest, [Honest EXCEPT !.li = 3, !.ahead = 40], [Honest EXCEPT !.stratum = 0], [Honest EXCEPT !.echo = FALSE],
   [Honest EXCEPT !.port = 4000], [Honest EXCEPT !.len = 0]}
MCOffsets == {-4, 20}
=============================================================================
