------------------------------- MODULE IniFile -------------------------------
(***************************************************************************)
(* minIni (third_lib/ini/ini.c): what its functions read from the lines of *)
(* a file and how ini_puts copies them.  A line keeps its kind, its name,  *)
(* its value and whether it ends in a newline (the last one may not); the  *)
(* spelling in upper and lower case and blanks around names are left out.  *)
(* Nothing is done about a write, a close, a remove or a rename that fails *)
(* (ini.c:600, 617, 651, 659-668): Torn says what a cut file has left.     *)
(***************************************************************************)
EXTENDS Integers, Sequences, FiniteSetsExt, TLC

CONSTANTS
  Null,         \* NULL for a section, a key or a value
  BufferSize,   \* INI_BUFFERSIZE
  Clean,        \* texts with '"', ';', '#' or a blank at one of their ends, and what is
                \* left of each when it is read unquoted
  Leading,      \* those with a blank at their beginning and nothing else of this kind
  Shorter,      \* for a value and whether it is quoted: what may be left of it
  CutPoints,    \* after how many whole lines a file may be cut short
  Numbers       \* the numbers that are written and read

\* What stands for no section.
NoName == {Null, ""}

\* Different numbers are written differently (long2str).
ASSUME IniAssumption == /\ BufferSize \in Nat \ {0} /\ Null \notin STRING /\ NoName \cap STRING # {}
                        /\ \A t \in DOMAIN Clean : Clean[t] \in STRING
                        /\ Leading \subseteq DOMAIN Clean /\ \A n \in Numbers : ToString(n) \notin Leading
                        /\ \A w \in DOMAIN Shorter : Shorter[w] \subseteq STRING
                        /\ CutPoints \subseteq Nat
                        /\ Numbers \subseteq Int /\ 0 \in Numbers
                        /\ \A n \in Numbers : /\ ToString(n) \in STRING /\ ToString(n) # ""
                                            /\ \A i \in Numbers : ToString(i) = ToString(n) => i = n

SectionLine(s) == [kind |-> "section", name |-> s, val |-> "", quoted |-> FALSE, nl |-> TRUE]
OtherLine(t)   == [kind |-> "other", name |-> "", val |-> t, quoted |-> FALSE, nl |-> TRUE]

Lines == [kind : {"section", "key", "other"}, name : STRING, val : STRING, quoted : BOOLEAN,
          nl : BOOLEAN]

\* The bytes of a line.
LineLen(l) ==
  (CASE l.kind = "section" -> Len(l.name) + 2
     [] l.kind = "key"     -> Len(l.name) + 1 + Len(l.val) + (IF l.quoted THEN 2 ELSE 0)
     [] OTHER              -> Len(l.val)) + (IF l.nl THEN 1 ELSE 0)

\* A line that ini_read reads as a whole, with its newline; the files that consist of such lines,
\* with names for their sections and no two sections of one name.
Fits(l) == l \in Lines /\ {LineLen(l), LineLen([l EXCEPT !.nl = TRUE])} \subseteq 1..BufferSize - 1
Sections(f) == {i \in DOMAIN f : f[i].kind = "section"}
Readable(f) == /\ f \in Seq(Lines) /\ \A i \in DOMAIN f : Fits(f[i])
               /\ \A i \in Sections(f) : f[i].name \notin NoName /\ \A j \in Sections(f) : f[j].name = f[i].name => i = j

(***************************************************************************)
(* Reading.                                                                *)
(***************************************************************************)
First(S) == IF S = {} THEN 0 ELSE Min(S)

\* skipleading, cleanstring and ini_strncpy(QUOTE_DEQUOTE): the value of a line as it is read.
cleanstring(l) == IF l.quoted \/ l.val \notin DOMAIN Clean THEN l.val ELSE Clean[l.val]

\* The first loop of getkeystring: where Section begins (0 for none).
SectionAt(f, s) == First({i \in Sections(f) : f[i].name = s})

\* The lines of that section (without a name: those before the first), up to the next
\* section or the end of the file.
Body(f, s) ==
  LET start == IF s \in NoName THEN 0 ELSE SectionAt(f, s)
      after == {i \in Sections(f) : i > start}
      stop  == IF after = {} THEN Len(f) + 1 ELSE Min(after)
  IN  IF s \notin NoName /\ start = 0 THEN {} ELSE (start + 1)..(stop - 1)

\* getkeystring(Section, Key): the line of the key, 0 for none.
getkeystring(f, s, k) == First({i \in Body(f, s) : f[i].kind = "key" /\ f[i].name = k})

\* getkeystring with an index: the idx-th section, the idx-th key of a section (0 for none).
Nth(S, idx) == First({i \in S : Cardinality({j \in S : j < i}) = idx})
SectionNo(f, idx) == Nth(Sections(f), idx)
KeyNo(f, s, idx)  == Nth({i \in Body(f, s) : f[i].kind = "key"}, idx)

ini_gets(f, s, k, def) == LET i == getkeystring(f, s, k)
                          IN  IF i = 0 THEN def ELSE cleanstring(f[i])

\* long2str, and strtol as ini_getl uses it: digits or 0; an absent or empty value is def.
long2str(n) == ToString(n)
ini_getl(f, s, k, def) ==
  LET t == ini_gets(f, s, k, "")
  IN  IF t = "" THEN def
      ELSE IF \E n \in Numbers : ToString(n) = t THEN CHOOSE n \in Numbers : ToString(n) = t
      ELSE 0

ini_haskey(f, s, k) == getkeystring(f, s, k) # 0
\* It asks for the first key: a section without keys is reported as missing.
ini_hassection(f, s) == KeyNo(f, s, 0) # 0

ini_getsection(f, idx) == LET i == SectionNo(f, idx) IN IF i = 0 THEN "" ELSE f[i].name
ini_getkey(f, s, idx)  == LET i == KeyNo(f, s, idx) IN IF i = 0 THEN "" ELSE f[i].name

\* ini_browse calls back with every key, under the last section line before it.
ini_browse(f) ==
  LET SectionOf(i) == LET S == {j \in Sections(f) : j <= i}
                      IN  IF S = {} THEN "" ELSE f[Max(S)].name
  IN  {<<SectionOf(i), f[i].name, cleanstring(f[i])>> : i \in {j \in DOMAIN f : f[j].kind = "key"}}

(***************************************************************************)
(* Writing.                                                                *)
(***************************************************************************)
\* check_enquote does not look at the beginning of a text.
check_enquote(v) == v \in DOMAIN Clean \ Leading

KeyLine(k, v) == [kind |-> "key", name |-> k, val |-> v, quoted |-> check_enquote(v), nl |-> TRUE]
\* What a text is when it is read back.
AsRead(v) == IF v \in Leading THEN Clean[v] ELSE v
writekey(k, v) == IF k # Null /\ v # Null THEN <<KeyLine(k, v)>> ELSE <<>>
writesection(s) == IF s \notin NoName THEN <<SectionLine(s)>> ELSE <<>>

(***************************************************************************)
(* ini_puts copies the file f to the temporary file.  c.pos is the line    *)
(* the next ini_read reads, c.mark the first line not yet written, c.cache *)
(* the bytes read since mark and to be written (cachelen), c.out what is   *)
(* written, c.ended whether the last flush ended in a newline.             *)
(***************************************************************************)
CopyStart == [pos |-> 1, mark |-> 1, cache |-> 0, out |-> <<>>, ended |-> FALSE]

\* cache_flush: reads the cached lines again from mark, until it has the bytes, and writes them.
Reread(f, i, bytes) ==
  LET at[n \in 0..Len(f)] ==
        IF n = 0 THEN [pos |-> i, left |-> bytes]
        ELSE LET r == at[n - 1]
             IN  IF r.left <= 0 THEN r ELSE [pos |-> r.pos + 1, left |-> r.left - LineLen(f[r.pos])]
  IN  at[Len(f)].pos
cache_flush(f, c) ==
  LET next  == Reread(f, c.mark, c.cache)
      lines == SubSeq(f, c.mark, next - 1)
  IN  [pos |-> next, mark |-> next, cache |-> 0, out |-> c.out \o lines,
       ended |-> c.cache > 1 /\ lines[Len(lines)].nl]

\* ini_read and cache_accum; when the cache would overflow it is flushed and the line,
\* to which the flush went back, is read again.
AccumDropsLine(f, c) ==                                                    \* Mistake
  IF c.cache + LineLen(f[c.pos]) < BufferSize
  THEN [c EXCEPT !.cache = @ + LineLen(f[c.pos]), !.pos = @ + 1]
  ELSE [cache_flush(f, c) EXCEPT !.pos = c.pos + 1, !.mark = c.pos + 1]
cache_accum(f, c) ==
  IF c.cache + LineLen(f[c.pos]) < BufferSize
  THEN [c EXCEPT !.cache = @ + LineLen(f[c.pos]), !.pos = @ + 1]
  ELSE LET d == cache_flush(f, c)
       IN  [d EXCEPT !.cache = LineLen(f[d.pos]), !.pos = @ + 1]

AtEnd(f, c) == c.pos > Len(f)
Skip(f, c)  == IF AtEnd(f, c) THEN c ELSE [c EXCEPT !.pos = @ + 1, !.mark = c.pos + 1]

\* The loops of ini_puts: a line a turn, kept or skipped, up to one of stop or the end of the file.
Copy(f, start, stop, keep) ==
  LET cursor[n \in 0..Len(f)] ==
        IF n = 0 THEN start
        ELSE LET c == cursor[n - 1]
             IN  IF AtEnd(f, c) \/ c.pos \in stop THEN c
                 ELSE IF keep THEN cache_accum(f, c) ELSE Skip(f, c)
  IN  cursor[Len(f)]

\* A newline behind the last line, when the last flush did not end in one: it ends a line
\* that has none and is an empty line otherwise.
NewLine(c) ==
  IF c.ended THEN c.out
  ELSE IF c.out # <<>> /\ ~c.out[Len(c.out)].nl
       THEN [c.out EXCEPT ![Len(c.out)].nl = TRUE]
       ELSE c.out \o <<OtherLine("")>>

\* The lines where the first loop stops, and those where the second one does.
SectionLines(f, s) == {i \in Sections(f) : f[i].name = s}
BodyStops(f, k)    == Sections(f) \cup {i \in DOMAIN f : f[i].kind = "key" /\ f[i].name = k}

\* The first loop, the line of the section behind it (without a key it is not copied), and the
\* second loop: the other keys of the section (without a key they are not copied).
ToSection(f, s) ==
  IF s \in NoName THEN CopyStart ELSE Copy(f, CopyStart, SectionLines(f, s), TRUE)
ToKey(f, c, s, k) ==
  LET d == cache_flush(f, IF s \in NoName \/ k = Null THEN c ELSE cache_accum(f, c))
  IN  Copy(f, IF k = Null THEN Skip(f, d) ELSE d, BodyStops(f, k), k # Null)

\* The temporary file of ini_puts(Section, Key, Value).
Rewritten(f, s, k, v) ==
  LET puts == k # Null /\ v # Null
      b == ToSection(f, s)
      c == ToKey(f, b, s, k)
      d == cache_flush(f, c)
      e == [d EXCEPT !.out = @ \o writekey(k, v)]
      last == cache_flush(f, b)
  IN  IF s \notin NoName /\ AtEnd(f, b)
      THEN IF puts THEN NewLine(last) \o writesection(s) \o writekey(k, v) ELSE last.out
      ELSE IF AtEnd(f, c)
      THEN IF puts THEN NewLine(d) \o writekey(k, v) ELSE d.out
      ELSE cache_flush(f, Copy(f, IF f[c.pos].kind = "section" THEN cache_accum(f, e)
                                  ELSE Skip(f, e), {}, TRUE)).out

\* What ini_puts decides to do with an existing file: nothing, one line in place, or a copy.
PutKind(f, s, k, v) ==
  LET i == getkeystring(f, s, k)
  IN  IF k # Null /\ v # Null /\ i # 0
      THEN CASE cleanstring(f[i]) = v                    -> "same"
             [] LineLen(f[i]) = LineLen(KeyLine(k, v))   -> "in place"
             [] OTHER                                    -> "copy"
      ELSE IF k # Null /\ v = Null /\ i = 0 THEN "same" ELSE "copy"
InPlace(f, s, k, v) == [f EXCEPT ![getkeystring(f, s, k)] = KeyLine(k, v)]

\* A file that does not exist is made with the one key.
NewFile(s, k, v) == writesection(s) \o writekey(k, v)

(***************************************************************************)
(* A file that was not written to its end.                                 *)
(***************************************************************************)
\* What is left of a line: all but its newline, a shorter value, or so little that no
\* function takes it for a section or a key.
Pieces(l) ==
  {[l EXCEPT !.nl = FALSE]} \cup
  CASE l.kind = "section" -> {[OtherLine("[") EXCEPT !.nl = FALSE]}
    [] l.kind = "key" ->
         {[OtherLine(l.name) EXCEPT !.nl = FALSE]} \cup
         {[l EXCEPT !.val = v, !.quoted = FALSE, !.nl = FALSE] :
            v \in IF <<l.val, l.quoted>> \in DOMAIN Shorter THEN Shorter[<<l.val, l.quoted>>] ELSE {}}
    [] OTHER -> {}

\* What is left of a file: some of its lines, and a piece of the next one or not.
Torn(f) ==
  LET whole(n) == SubSeq(f, 1, n)
      cuts     == {n \in CutPoints : n < Len(f)}
  IN  {g \in {whole(n) : n \in cuts}
             \cup UNION {{Append(whole(n), l) : l \in Pieces(f[n + 1])} : n \in cuts} : Readable(g)}
=============================================================================
