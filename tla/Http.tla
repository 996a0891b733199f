-------------------------------- MODULE Http --------------------------------
(***************************************************************************)
(* The download of an update (update/http.c): the URL, the connection, the *)
(* head of the answer, its body by length or in chunks, redirections.  What*)
(* happens to the file meanwhile and after is in Update; here it is which  *)
(* bytes arrive.  URLs and header values are sequences of tokens.          *)
(***************************************************************************)
EXTENDS Integers, Sequences, FiniteSetsExt, SequencesExt

CONSTANTS
  Ports,       \* the numbers that tokens are
  Hosts,       \* what each host and port answers to each path
  Urls,        \* what update commands ask for
  RECV_BUF,    \* bytes of the buffer
  Rooms,       \* bytes that may be free on the file system
  BUFSIZ,      \* bytes of the block in which stdio keeps what was written last
  MaxRedirects, MaxDownloads

(***************************************************************************)
(* What a server sends: a sequence of units, each a line or a byte.  The   *)
(* connection may be closed, or fall silent, after any of them.            *)
(***************************************************************************)
Sent(kind, value) == [kind |-> kind, value |-> value]
Status(code) == Sent("status", code)
Content(bytes) == [i \in DOMAIN bytes |-> Sent("byte", bytes[i])]
\* A page as a server should send it: the length of its content, or the content in two chunks.
WithLength(bytes) ==
  <<Status(200), Sent("length", Len(bytes)), Sent("blank", 0)>> \o Content(bytes)
InChunks(bytes, n) ==
  LET Chunk(part) == <<Sent("size", Len(part))>> \o Content(part) \o <<Sent("crlf", 0)>>
  IN  <<Status(200), Sent("encoding", "chunked"), Sent("blank", 0)>>
      \o Chunk(SubSeq(bytes, 1, n)) \o Chunk(SubSeq(bytes, n + 1, Len(bytes))) \o Chunk(<<>>)
Answer(code) == <<Status(code), Sent("other", 0), Sent("blank", 0)>>

(***************************************************************************)
(* The URL and the connection.                                             *)
(***************************************************************************)
\* The position of a token, one behind the last when there is none.
Strchr(s, c) == LET S == {i \in DOMAIN s : s[i] = c} IN IF S = {} THEN Len(s) + 1 ELSE Min(S)
parser_URL(url) ==
  LET start == IF Len(url) > 0 /\ url[1] = "http://" THEN Tail(url) ELSE url
      end   == Strchr(start, "/")
      colon == Strchr(start, ":")
      port  == IF colon < end THEN (IF start[colon + 1] \in DOMAIN Ports THEN Ports[start[colon + 1]] ELSE 0)
               ELSE 80
  IN  [ok |-> end <= Len(start) /\ port \in 1..65534, port |-> port,
       host_name |-> SubSeq(start, 1, (IF colon < end THEN colon ELSE end) - 1),
       uri |-> SubSeq(start, end, Len(start))]

\* dns and connect: somebody listens there.
connect_server(info) == <<info.host_name, info.port>> \in DOMAIN Hosts
\* The path ends in the end of the line if it was read from a Location header.
send_request(info) ==
  LET pages == Hosts[<<info.host_name, info.port>>]
  IN  IF info.uri \in DOMAIN pages THEN pages[info.uri] ELSE Answer(IF "\r\n" \in Range(info.uri) THEN 400 ELSE 404)

(***************************************************************************)
(* The answer: units s, of which the first cut arrive.                     *)
(***************************************************************************)
\* atoi starts two characters behind the colon: of 10..19 without a blank the first digit is lost.
LenOf(unit) == IF unit.kind = "tight" THEN (IF unit.value < 10 THEN 0 ELSE unit.value % 10) ELSE unit.value
\* The last line of some kind before the end of the head, 0 for none.
Line(s, end, kinds) == LET S == {i \in 2..end - 1 : s[i].kind \in kinds} IN IF S = {} THEN 0 ELSE Max(S)
\* The head ends with a blank line, and is wrong if it ends otherwise or in an encoding the code
\* does not know.
parse_http_header(s) ==
  LET stops == {i \in 2..Len(s) : s[i].kind = "blank" \/ (s[i].kind = "encoding" /\ s[i].value # "chunked")}
      end   == IF stops = {} THEN Len(s) ELSE Min(stops)
      l     == Line(s, end, {"length", "tight"})
      where == Line(s, end, {"location"})
  IN  [ok |-> s # <<>> /\ s[1].kind = "status" /\ s[end].kind = "blank",
       at |-> end + 1, len |-> IF l = 0 THEN 0 ELSE LenOf(s[l]),
       chunked_flag |-> Line(s, end, {"encoding"}) # 0,
       location |-> IF where = 0 THEN <<>> ELSE s[where].value]

\* save_data: whole buffers; got is what has been given to fwrite before, takes how much it
\* takes before it fails.
save_data(got, bytes, takes) == [ok |-> Len(got) + Len(bytes) <= takes, saved |-> got \o bytes]

EndIsEnough(s, at, len, got, takes) ==                                      \* Mistake
  LET n == Cardinality({i \in at..Len(s) : i < at + len /\ s[i].kind = "byte"})
  IN  save_data(got, [i \in 1..n |-> s[at + i - 1].value], takes)
\* Buffers that are not filled before the end or the timeout are not saved.
read_data(s, at, len, got, takes) ==
  LET n == Cardinality({i \in at..Len(s) : i < at + len /\ s[i].kind = "byte"})
      full == IF n = len THEN n ELSE n - (n % RECV_BUF)
      r == save_data(got, [i \in 1..full |-> s[at + i - 1].value], takes)
  IN  [r EXCEPT !.ok = @ /\ n = len]

\* A turn of the loop: the chunk that begins with the unit c.at, and the end of its line.
recv_chunk(s, c, takes) ==
  IF c.at > Len(s) \/ s[c.at].kind # "size" THEN [c EXCEPT !.state = "failed"]
  ELSE LET part_len == s[c.at].value
           r == read_data(s, c.at + 1, part_len, c.saved, takes)
           next == c.at + 1 + part_len
       IN  [at |-> next + 1, saved |-> r.saved,
            state |-> IF ~r.ok \/ next > Len(s) THEN "failed" ELSE IF part_len = 0 THEN "ok" ELSE "more"]
\* No answer has more chunks than units.
recv_chunked_response(s, at, takes) ==
  LET turn[n \in 0..Len(s)] ==
        IF n = 0 THEN [at |-> at, saved |-> <<>>, state |-> "more"]
        ELSE LET c == turn[n - 1] IN IF c.state = "more" THEN recv_chunk(s, c, takes) ELSE c
      last == turn[Len(s)]
  IN  [ok |-> last.state = "ok", saved |-> last.saved]

recv_response(s, header, takes) ==
  IF header.chunked_flag THEN recv_chunked_response(s, header.at, takes)
  ELSE read_data(s, header.at, header.len, <<>>, takes)

\* The content of an answer that tells its length: page, a history variable, is that.
TellsLength(units) == \E i \in DOMAIN units : units[i].kind \in {"length", "encoding"}
BytesOf(units) ==
  LET before[n \in 0..Len(units)] ==
        IF n = 0 THEN <<>>
        ELSE IF units[n].kind = "byte" THEN Append(before[n - 1], units[n].value) ELSE before[n - 1]
  IN  before[Len(units)]
Announced(units) == IF TellsLength(units) THEN BytesOf(units) ELSE <<>>

\* A server that tells the length of a page tells the truth: there are as many bytes, and they
\* are behind the head; a chunk ends where its size says, and the one of the size 0 is the last.
HeadOf(units, h) ==
  /\ h \in 2..Len(units) /\ units[h].kind = "blank" /\ \A i \in 2..h - 1 : units[i].kind # "blank"
  /\ \A i \in DOMAIN units :
       LET kind == units[i].kind  next == i + 1 + units[i].value
       IN  /\ kind = "byte" => i > h
           /\ kind \in {"length", "tight", "encoding"} => i \in 2..h - 1
           /\ kind \in {"length", "tight"} => LenOf(units[i]) = Len(BytesOf(units))
           /\ kind = "size" => /\ units[i].value \in Nat
                               /\ next \in DOMAIN units => units[next].kind # "byte"
                               /\ next = i + 1 => \A j \in i..Len(units) : units[j].kind # "byte"
WellFormed(units) == /\ Len(units) \in Nat /\ units = [i \in 1..Len(units) |-> units[i]]
                     /\ TellsLength(units) => \E h \in DOMAIN units : HeadOf(units, h)
ASSUME HttpAssumption ==
  /\ RECV_BUF \in Nat \ {0} /\ BUFSIZ \in Nat \ {0} /\ Rooms \subseteq Nat
  /\ \A h \in DOMAIN Hosts : \A uri \in DOMAIN Hosts[h] : WellFormed(Hosts[h][uri])

(***************************************************************************)
(* Downloads, one after the other.                                         *)
(***************************************************************************)
VARIABLES
  url, redirects,   \* the download that goes on: none if url = <<>>
  file,             \* the content of the file, <<>> if there is none
  ret,              \* what http_download returned
  page, found,      \* history: the content it was for, the room it found
  downloads
httpVars == <<url, redirects, file, ret, page, found, downloads>>

HttpInit ==
  /\ url = <<>> /\ redirects = 0 /\ file = <<"old">> /\ ret = -1 /\ page = <<>> /\ found = 0
  /\ downloads = 0

Begin ==
  /\ url = <<>> /\ downloads < MaxDownloads /\ downloads' = downloads + 1
  /\ url' \in Urls /\ redirects' = 0
  /\ UNCHANGED <<file, ret, page, found>>

\* clean_up closes the file, if save_data has opened it, and does not look whether the block
\* that is written then still has room.
clean_up(saved, room) == SubSeq(saved, 1, Min({room, Len(saved)}))

Return(r, saved, content, room) ==
  /\ url' = <<>> /\ ret' = r /\ page' = content /\ found' = room
  /\ file' = IF saved = <<>> THEN file ELSE clean_up(saved, room)
  /\ UNCHANGED <<redirects, downloads>>

\* fwrite fails when a full block has no room: at the end, held bytes are still in the block.
\* read_data and save_data return no value when all went well: it may happen to be -1.
Receive(s, content, room, held) ==
  LET header == parse_http_header(s)
      r == recv_response(s, header, room + held)
  IN  IF ~header.ok THEN Return(-1, <<>>, <<>>, room)
      ELSE CASE s[1].value = 200 ->
                  \/ Return(-1, r.saved, <<>>, room)
                  \/ r.ok /\ Return(0, r.saved, content, room)
             [] s[1].value = 302 ->
                  /\ url' = header.location \o <<"\r\n">> /\ redirects' = redirects + 1
                  /\ UNCHANGED <<file, ret, page, found, downloads>>
             [] OTHER -> Return(-1, <<>>, <<>>, room)

http_download ==
  /\ url # <<>> /\ redirects <= MaxRedirects
  /\ LET info == parser_URL(url)
     IN  IF ~info.ok \/ ~connect_server(info) THEN \E room \in Rooms : Return(-1, <<>>, <<>>, room)
         ELSE LET units == send_request(info)
              IN  \E cut \in 0..Len(units), room \in Rooms, held \in 0..BUFSIZ :
                    Receive(SubSeq(units, 1, cut), Announced(units), room, held)

HttpStep == Begin \/ http_download

(***************************************************************************)
(* Property.                                                               *)
(***************************************************************************)
\* A download that is reported as successful has put the whole page, and nothing else, in the
\* file, however the connection was cut, if the server has told the length of the page; or its
\* beginning, when the file system became full with no more than the last block left to write.
DownloadComplete ==
  url = <<>> /\ ret = 0 /\ page # <<>> =>
    file = page \/ (file = SubSeq(page, 1, found) /\ Len(page) - found \in 1..BUFSIZ)
=============================================================================
