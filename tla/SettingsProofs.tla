--------------------------- MODULE SettingsProofs ---------------------------
(***************************************************************************)
(* Proofs about Settings.                                                  *)
(***************************************************************************)
EXTENDS Settings, Lemmas

(***************************************************************************)
(* The first of a set of lines.                                            *)
(***************************************************************************)
LEMMA FirstFacts ==
  ASSUME NEW S, S \subseteq Nat \ {0}
  PROVE  /\ S = {} => First(S) = 0
         /\ S # {} => First(S) \in S /\ \A i \in S : First(S) <= i
<1>1. CASE S = {}
  BY <1>1 DEF First
<1>2. CASE S # {}
  <2>1. \E m \in S : \A n \in S : m <= n
    BY <1>2, Least
  <2> QED BY <1>2, <2>1 DEF First, Min
<1> QED BY <1>1, <1>2

(***************************************************************************)
(* Copying: what has been written and what is cached make up the lines     *)
(* that have been read.                                                    *)
(***************************************************************************)
\* B[i] is the length of the first i lines of f.
Lengths(f, B) == /\ B \in [0..Len(f) -> Nat] /\ B[0] = 0
                 /\ \A i \in 1..Len(f) : B[i] = B[i - 1] + LineLen(f[i])

\* What Readable says of a file: a sequence of lines, each of them read as a whole.
LEMMA FileFacts ==
  ASSUME NEW f, Readable(f)
  PROVE  /\ f \in Seq(Lines) /\ Len(f) \in Nat /\ DOMAIN f = 1..Len(f)
         /\ \A i \in 1..Len(f) : f[i] \in Lines /\ LineLen(f[i]) \in 1..BufferSize - 1
         /\ BufferSize \in Nat \ {0}
<1>1. f \in Seq(Lines) /\ Len(f) \in Nat /\ DOMAIN f = 1..Len(f)
  <2>1. f \in Seq(Lines)
    BY DEF Readable
  <2> QED BY <2>1
<1> QED BY <1>1, IniAssumption DEF Readable, Fits

\* A readable file has the lengths of its beginnings.
LEMMA LengthsExist ==
  ASSUME NEW f, Readable(f)
  PROVE  \E B : Lengths(f, B)
<1> DEFINE N == Len(f)
           V == Nat
           none == 0
           turn == [i \in 1..N |-> [b \in V |-> b + LineLen(f[i])]]
<1>1. N \in Nat /\ none \in V /\ turn \in [1..N -> [V -> V]]
  BY FileFacts
<1>2. \A i \in 1..N, b \in Nat : turn[i][b] = b + LineLen(f[i])
  OBVIOUS
<1>3. PICK B \in [0..N -> Nat] : Iterates(B, N, 0, turn)
  <2> HIDE DEF turn, N, V, none
  <2>1. \E B \in [0..N -> V] : Iterates(B, N, none, turn)
    BY ONLY <1>1, Iteration
  <2> QED BY <2>1 DEF V, none
<1> HIDE DEF turn, N
<1>4. ASSUME NEW i \in 1..N PROVE B[i] = B[i - 1] + LineLen(f[i])
  <2>1. i - 1 \in 0..N
    BY <1>1
  <2>2. B[i - 1] \in Nat
    BY <1>3, <2>1
  <2> QED BY <1>2, <1>3, <2>2 DEF Iterates
<1> QED BY <1>3, <1>4 DEF Lengths, N, Iterates

\* Every line has a byte at least.
LEMMA LengthsGrow ==
  ASSUME NEW f, Readable(f), NEW B, Lengths(f, B), NEW i \in 0..Len(f), NEW j \in i..Len(f), i # j
  PROVE  B[i] < B[j]
<1> DEFINE S == {n \in 0..Len(f) : i + n + 1 <= Len(f) => B[i] < B[i + n + 1]}
<1>1. Len(f) \in Nat /\ B \in [0..Len(f) -> Nat]
  BY FileFacts DEF Lengths
<1>2. \A n \in 1..Len(f) : LineLen(f[n]) \in Nat \ {0} /\ B[n - 1] < B[n]
  <2>1. \A n \in 1..Len(f) : LineLen(f[n]) \in Nat \ {0} /\ B[n] = B[n - 1] + LineLen(f[n])
    BY FileFacts DEF Lengths
  <2>2. \A n \in 1..Len(f) : B[n - 1] \in Nat
    BY <1>1
  <2> QED BY <2>1, <2>2
<1>3. 0 \in S
  BY <1>1, <1>2
<1>4. ASSUME NEW n \in 1..Len(f), n - 1 \in S PROVE n \in S
  <2> SUFFICES ASSUME i + n + 1 <= Len(f) PROVE B[i] < B[i + n + 1]
    OBVIOUS
  <2>1. i + (n - 1) + 1 = i + n /\ i + n \in 0..Len(f) /\ i + n + 1 \in 1..Len(f)
    BY <1>1
  <2>2. B[i] < B[i + n]
    BY <1>1, <1>4, <2>1
  <2>3. B[i + n] < B[i + n + 1]
    BY <1>1, <1>2, <2>1
  <2>4. B[i] \in Nat /\ B[i + n] \in Nat /\ B[i + n + 1] \in Nat
    BY <1>1, <2>1
  <2> QED BY <2>2, <2>3, <2>4
<1>5. 0..Len(f) \subseteq S
  <2> HIDE DEF S
  <2> QED BY <1>1, <1>3, <1>4, Climb
<1>6. j - i - 1 \in 0..Len(f) /\ i + (j - i - 1) + 1 = j /\ j <= Len(f)
  BY <1>1
<1>7. j - i - 1 \in S
  <2> HIDE DEF S
  <2> QED BY <1>5, <1>6
<1> QED BY <1>6, <1>7

\* Reading again as many bytes as the lines from i up to j - 1 have ends at j.
LEMMA RereadEnds ==
  ASSUME NEW f, Readable(f), NEW B, Lengths(f, B),
         NEW i \in 1..Len(f) + 1, NEW j \in i..Len(f) + 1
  PROVE  Reread(f, i, B[j - 1] - B[i - 1]) = j
<1> DEFINE N == Len(f)
           v == [pos |-> i, left |-> B[j - 1] - B[i - 1]]
           Next1(r) == IF r.left <= 0 THEN r
                       ELSE [pos |-> r.pos + 1, left |-> r.left - LineLen(f[r.pos])]
           V == {[pos |-> p, left |-> B[j - 1] - B[p - 1]] : p \in i..j}
           turn == [n \in 1..N |-> [r \in V |-> Next1(r)]]
           at == CHOOSE g : g = [n \in 0..N |-> IF n = 0 THEN v ELSE Next1(g[n - 1])]
<1>1. Reread(f, i, B[j - 1] - B[i - 1]) = at[N].pos
  BY DEF Reread
<1>2. Len(f) \in Nat /\ B \in [0..N -> Nat]
      /\ \A p \in 1..N : LineLen(f[p]) \in Nat /\ B[p] = B[p - 1] + LineLen(f[p])
  BY FileFacts DEF Lengths
<1>3. \A p \in i..j : B[p - 1] \in Nat /\ (p # j => B[p - 1] < B[j - 1])
  <2> SUFFICES ASSUME NEW p \in i..j PROVE B[p - 1] \in Nat /\ (p # j => B[p - 1] < B[j - 1])
    OBVIOUS
  <2>1. p - 1 \in 0..Len(f) /\ j - 1 \in (p - 1)..Len(f) /\ (p # j => p - 1 # j - 1)
    BY <1>2
  <2> QED BY <1>2, <2>1, LengthsGrow
\* A turn stays where it is at j, and goes on by one line before.
<1>4. \A r \in V : r.pos \in i..j /\ Next1(r) \in V /\ Next1(r).pos = IF r.pos = j THEN j ELSE r.pos + 1
  <2> SUFFICES ASSUME NEW p \in i..j, NEW r, r = [pos |-> p, left |-> B[j - 1] - B[p - 1]]
               PROVE  /\ r.pos \in i..j /\ Next1(r) \in V
                      /\ Next1(r).pos = IF r.pos = j THEN j ELSE r.pos + 1
    OBVIOUS
  <2>1. r.pos = p /\ r.left = B[j - 1] - B[p - 1]
    OBVIOUS
  <2>2. CASE p = j
    <3>1. r.left <= 0
      BY <1>3, <2>1, <2>2
    <3> QED BY <2>1, <2>2, <3>1
  <2>3. CASE p # j
    <3>1. ~(r.left <= 0)
      BY <1>3, <2>1, <2>3
    <3>2. p \in 1..N /\ p + 1 \in i..j /\ (p + 1) - 1 = p
      BY <1>2, <2>3
    <3>3. B[j - 1] - B[p] = (B[j - 1] - B[p - 1]) - LineLen(f[p])
      BY <1>2, <1>3, <3>2
    <3>4. Next1(r) = [pos |-> p + 1, left |-> B[j - 1] - B[(p + 1) - 1]]
      BY <2>1, <3>1, <3>2, <3>3
    <3> QED BY <2>1, <2>3, <3>2, <3>4
  <2> QED BY <2>2, <2>3
<1>5. v \in V /\ turn \in [1..N -> [V -> V]]
  <2>1. v \in V
    BY <1>2
  <2> HIDE DEF V, v, Next1
  <2> QED BY <1>4, <2>1
<1> HIDE DEF V, v, Next1
<1>6. at = [n \in 0..N |-> IF n = 0 THEN v ELSE Next1(at[n - 1])]
  <2> HIDE DEF turn
  <2>1. PICK g \in [0..N -> V] : Iterates(g, N, v, turn)
    BY <1>2, <1>5, Iteration
  <2>2. \A n \in 0..N : g[n] = IF n = 0 THEN v ELSE Next1(g[n - 1])
    <3> SUFFICES ASSUME NEW n \in 0..N, n # 0 PROVE g[n] = Next1(g[n - 1])
      BY <2>1 DEF Iterates
    <3>1. n \in 1..N /\ n - 1 \in 0..N
      BY <1>2
    <3>2. g[n - 1] \in V
      BY <2>1, <3>1
    <3> QED BY <2>1, <3>1, <3>2 DEF Iterates, turn
  <2>3. g = [n \in 0..N |-> IF n = 0 THEN v ELSE Next1(g[n - 1])]
    BY <2>1, <2>2
  <2> QED BY <2>3
<1> HIDE DEF at
<1>7. at[0] = v /\ \A n \in 1..N : at[n] = Next1(at[n - 1])
  BY SMTT(30), <1>2, <1>6
<1>8. \A n \in 0..N : at[n] \in V
  <2>1. at[0] \in V /\ \A n \in 1..N : at[n - 1] \in V => at[n] \in V
    BY <1>4, <1>5, <1>7
  <2> QED BY <1>2, <2>1, StaysIn
<1> DEFINE S == {n \in 0..N : at[n].pos = j \/ at[n].pos = i + n}
<1>9. 0..N \subseteq S
  <2>1. 0 \in S
    BY <1>2, <1>7 DEF v
  <2>2. ASSUME NEW n \in 1..N, n - 1 \in S PROVE n \in S
    <3>1. n - 1 \in 0..N /\ at[n - 1] \in V /\ at[n] = Next1(at[n - 1])
      BY <1>2, <1>7, <1>8
    <3>2. at[n].pos = IF at[n - 1].pos = j THEN j ELSE at[n - 1].pos + 1
      BY <1>4, <3>1
    <3>3. CASE at[n - 1].pos = j
      BY <3>2, <3>3
    <3>4. CASE at[n - 1].pos = i + (n - 1) /\ at[n - 1].pos # j
      <4>1. at[n].pos = i + (n - 1) + 1
        BY <3>2, <3>4
      <4>2. i + (n - 1) + 1 = i + n
        BY <1>2
      <4> QED BY <4>1, <4>2
    <3> QED BY <2>2, <3>3, <3>4
  <2> HIDE DEF S
  <2> QED BY <1>2, <2>1, <2>2, Climb
<1>10. at[N].pos \in i..j /\ (at[N].pos = j \/ at[N].pos = i + N)
  BY <1>2, <1>4, <1>8, <1>9
<1> QED BY <1>1, <1>2, <1>10

\* The cursors of a copy that starts at line m behind what was written before (w): the lines
\* from m up to mark are written, those from mark up to pos are cached.
Kept(f, B, w, m) ==
  {c \in [pos : 1..Len(f) + 1, mark : m..Len(f) + 1, cache : 0..BufferSize - 1, out : Seq(Lines),
          ended : BOOLEAN] :
     /\ c.mark <= c.pos /\ c.cache = B[c.pos - 1] - B[c.mark - 1]
     /\ c.out = Behind(w, f, m, c.mark)}

Copying(f, B, w, m) == /\ Readable(f) /\ Lengths(f, B) /\ w \in Seq(Lines) /\ m \in 1..Len(f) + 1

\* What Copying says, one fact at a time.
LEMMA CopyingFacts ==
  ASSUME NEW f, NEW B, NEW w, NEW m, Copying(f, B, w, m)
  PROVE  /\ Readable(f) /\ Lengths(f, B) /\ w \in Seq(Lines) /\ m \in 1..Len(f) + 1
         /\ f \in Seq(Lines) /\ Len(f) \in Nat /\ DOMAIN f = 1..Len(f)
         /\ \A i \in 1..Len(f) : f[i] \in Lines /\ LineLen(f[i]) \in 1..BufferSize - 1
         /\ BufferSize \in Nat \ {0} /\ B \in [0..Len(f) -> Nat]
<1>1. Readable(f) /\ Lengths(f, B) /\ w \in Seq(Lines) /\ m \in 1..Len(f) + 1
  BY DEF Copying
<1> QED BY <1>1, FileFacts DEF Lengths

\* A cursor of the copy of ini_puts: the cache holds the lines read and not yet written.
LEMMA KeptFacts ==
  ASSUME NEW f, NEW B, NEW w, NEW m, Copying(f, B, w, m), NEW c, c \in Kept(f, B, w, m)
  PROVE  /\ c.pos \in m..Len(f) + 1 /\ c.mark \in m..c.pos /\ c.cache \in 0..BufferSize - 1
         /\ c.cache = B[c.pos - 1] - B[c.mark - 1]
         /\ c.out \in Seq(Lines) /\ c.out = Behind(w, f, m, c.mark)
         /\ B[c.pos - 1] \in Nat /\ B[c.mark - 1] \in Nat
         /\ c.ended \in BOOLEAN /\ (AtEnd(f, c) <=> c.pos = Len(f) + 1)
<1>1. Len(f) \in Nat /\ B \in [0..Len(f) -> Nat] /\ m \in 1..Len(f) + 1
  BY CopyingFacts
<1>2. /\ c \in [pos : 1..Len(f) + 1, mark : m..Len(f) + 1, cache : 0..BufferSize - 1,
                out : Seq(Lines), ended : BOOLEAN]
      /\ c.mark <= c.pos /\ c.cache = B[c.pos - 1] - B[c.mark - 1]
      /\ c.out = Behind(w, f, m, c.mark)
  BY DEF Kept
<1>3. c.pos \in m..Len(f) + 1 /\ c.mark \in m..c.pos
  BY <1>1, <1>2
<1>4. B[c.pos - 1] \in Nat /\ B[c.mark - 1] \in Nat
  <2>1. c.pos - 1 \in 0..Len(f) /\ c.mark - 1 \in 0..Len(f)
    BY <1>1, <1>3
  <2> QED BY <1>1, <2>1
<1>5. AtEnd(f, c) <=> c.pos = Len(f) + 1
  BY <1>1, <1>3 DEF AtEnd
<1> QED BY <1>2, <1>3, <1>4, <1>5

\* cache_flush writes exactly the cached lines and goes on where the reading stood.
LEMMA FlushFacts ==
  ASSUME NEW f, NEW B, NEW w, NEW m, Copying(f, B, w, m), NEW c, c \in Kept(f, B, w, m)
  PROVE  /\ cache_flush(f, c) \in Kept(f, B, w, m)
         /\ cache_flush(f, c).pos = c.pos /\ cache_flush(f, c).mark = c.pos
         /\ cache_flush(f, c).cache = 0
         /\ cache_flush(f, c).out = Behind(w, f, m, c.pos)
<1> DEFINE d == cache_flush(f, c)
           lines == SubSeq(f, c.mark, c.pos - 1)
           out == Behind(c.out, f, c.mark, c.pos)
           e == c.cache > 1 /\ lines[Len(lines)].nl
<1>1. /\ Readable(f) /\ Lengths(f, B) /\ w \in Seq(Lines) /\ m \in 1..Len(f) + 1
      /\ f \in Seq(Lines) /\ Len(f) \in Nat /\ DOMAIN f = 1..Len(f)
      /\ BufferSize \in Nat \ {0}
  BY CopyingFacts
<1>2. /\ c.pos \in m..Len(f) + 1 /\ c.mark \in m..c.pos /\ c.cache = B[c.pos - 1] - B[c.mark - 1]
      /\ c.out = Behind(w, f, m, c.mark) /\ B[c.pos - 1] \in Nat
  BY KeptFacts
<1>3. Reread(f, c.mark, c.cache) = c.pos
  <2>1. c.mark \in 1..Len(f) + 1 /\ c.pos \in c.mark..Len(f) + 1
    BY <1>1, <1>2
  <2> QED BY <1>1, <1>2, <2>1, RereadEnds
<1>4. d = [pos |-> c.pos, mark |-> c.pos, cache |-> 0, out |-> out, ended |-> e]
  BY <1>3 DEF cache_flush, Behind
<1>5. out = Behind(w, f, m, c.pos) /\ out \in Seq(Lines)
  <2> DEFINE a == c.mark
             b == c.pos
  <2>1. m \in 1..Len(f) + 1 /\ a \in m..Len(f) + 1 /\ b \in a..Len(f) + 1
    BY <1>1, <1>2
  <2> HIDE DEF a, b
  <2>2. /\ Behind(Behind(w, f, m, a), f, a, b) = Behind(w, f, m, b)
        /\ Behind(w, f, m, b) \in Seq(Lines)
    BY <1>1, <2>1, Parts
  <2> QED BY <1>2, <2>2 DEF a, b
<1>6. e \in BOOLEAN
  OBVIOUS
<1>7. c.pos \in 1..Len(f) + 1 /\ c.pos <= c.pos /\ 0 \in 0..BufferSize - 1
      /\ 0 = B[c.pos - 1] - B[c.pos - 1]
  BY <1>1, <1>2
<1> HIDE DEF e, out
<1> QED BY <1>2, <1>4, <1>5, <1>6, <1>7 DEF Kept

\* The number of the line behind one that is not the end of the file.
LEMMA NextLine ==
  ASSUME NEW n \in Nat, NEW m \in 1..n + 1, NEW i \in m..n + 1, i # n + 1
  PROVE  i \in 1..n /\ i + 1 \in 1..n + 1 /\ i + 1 \in m..n + 1 /\ (i + 1) - 1 = i
OBVIOUS

\* cache_accum takes one more line and loses none, also when it has to flush the cache first.
LEMMA AccumFacts ==
  ASSUME NEW f, NEW B, NEW w, NEW m, Copying(f, B, w, m), NEW c, c \in Kept(f, B, w, m), ~AtEnd(f, c)
  PROVE  cache_accum(f, c) \in Kept(f, B, w, m) /\ cache_accum(f, c).pos = c.pos + 1
<1> DEFINE len == LineLen(f[c.pos])
           d == cache_flush(f, c)
<1>1. /\ Lengths(f, B) /\ m \in 1..Len(f) + 1 /\ Len(f) \in Nat /\ BufferSize \in Nat \ {0}
      /\ \A i \in 1..Len(f) : LineLen(f[i]) \in 1..BufferSize - 1
  BY CopyingFacts
<1>2. /\ c.pos \in m..Len(f) + 1 /\ c.mark \in m..c.pos /\ c.cache \in 0..BufferSize - 1
      /\ c.cache = B[c.pos - 1] - B[c.mark - 1]
      /\ c.out \in Seq(Lines) /\ c.out = Behind(w, f, m, c.mark)
      /\ B[c.pos - 1] \in Nat /\ B[c.mark - 1] \in Nat
      /\ c.ended \in BOOLEAN /\ c.pos # Len(f) + 1
  BY KeptFacts
<1>3. c.pos \in 1..Len(f) /\ c.pos + 1 \in 1..Len(f) + 1 /\ (c.pos + 1) - 1 = c.pos
  BY <1>1, <1>2, NextLine
<1>4. len \in 1..BufferSize - 1 /\ B[c.pos] = B[c.pos - 1] + len
  BY <1>1, <1>3 DEF Lengths
<1> DEFINE Cursors == [pos : 1..Len(f) + 1, mark : m..Len(f) + 1, cache : 0..BufferSize - 1,
                       out : Seq(Lines), ended : BOOLEAN]
<1>5. c \in Cursors
  BY DEF Kept
<1> HIDE DEF len
<1>6. CASE c.cache + len < BufferSize
  <2> DEFINE e == [c EXCEPT !.cache = @ + len, !.pos = @ + 1]
  <2>1. cache_accum(f, c) = e
    BY <1>6 DEF cache_accum, len
  <2>2. c.cache + len \in 0..BufferSize - 1
    <3>1. c.cache \in Nat /\ len \in Nat /\ BufferSize \in Nat
      BY <1>1, <1>2, <1>4
    <3> QED BY <1>6, <3>1
  <2>3. e.pos = c.pos + 1 /\ e.mark = c.mark /\ e.cache = c.cache + len /\ e.out = c.out
    BY <1>5
  <2>4. e \in Cursors
    BY <1>3, <1>5, <2>2
  <2> HIDE DEF e
  <2>5. e.mark <= e.pos
    BY <1>1, <1>2, <2>3
  <2>6. e.cache = B[e.pos - 1] - B[e.mark - 1]
    <3>1. e.pos - 1 = c.pos /\ e.mark - 1 = c.mark - 1
      BY <1>3, <2>3
    <3>2. \A x, y, n \in Nat : (x - y) + n = (x + n) - y
      OBVIOUS
    <3>3. (B[c.pos - 1] - B[c.mark - 1]) + len = B[c.pos] - B[c.mark - 1]
      BY SMTT(30), <1>1, <1>2, <1>4, <3>2
    <3> QED BY <1>2, <2>3, <3>1, <3>3
  <2> QED BY <1>2, <2>1, <2>3, <2>4, <2>5, <2>6 DEF Kept
<1>7. CASE ~(c.cache + len < BufferSize)
  <2>1. /\ d \in Kept(f, B, w, m) /\ d.pos = c.pos /\ d.mark = c.pos /\ d.cache = 0
        /\ d.out = Behind(w, f, m, c.pos)
    BY FlushFacts
  <2>2. d \in Cursors
    BY <2>1 DEF Kept
  <2> DEFINE e == [d EXCEPT !.cache = LineLen(f[d.pos]), !.pos = @ + 1]
  <2>3. cache_accum(f, c) = e
    BY <1>7 DEF cache_accum, len
  <2> HIDE DEF d
  <2>4. LineLen(f[d.pos]) = len /\ len \in 0..BufferSize - 1 /\ d.pos + 1 \in 1..Len(f) + 1
    BY <1>1, <1>3, <1>4, <2>1 DEF len
  <2>5. e.pos = d.pos + 1 /\ e.mark = d.mark /\ e.cache = len /\ e.out = d.out
    BY <2>2, <2>4
  <2>6. e \in Cursors
    BY <2>2, <2>4
  <2> HIDE DEF e
  <2>7. e.mark <= e.pos
    BY <1>1, <1>3, <2>1, <2>5
  <2>8. e.cache = B[e.pos - 1] - B[e.mark - 1]
    <3>1. e.pos - 1 = c.pos /\ e.mark - 1 = c.pos - 1
      BY <1>3, <2>1, <2>5
    <3> QED BY <1>1, <1>2, <1>4, <2>5, <3>1
  <2> QED BY <1>2, <2>1, <2>3, <2>5, <2>6, <2>7, <2>8 DEF Kept
<1> QED BY <1>6, <1>7

\* A loop goes up to the first line that stops it, or to the end.
LEMMA CopyFacts ==
  ASSUME NEW f, NEW B, NEW w, NEW m, Copying(f, B, w, m), NEW start, start \in Kept(f, B, w, m),
         NEW stop, NEW end, end = Copy(f, start, stop, TRUE)
  PROVE  /\ end \in Kept(f, B, w, m) /\ start.pos <= end.pos
         /\ AtEnd(f, end) \/ end.pos \in stop
         /\ \A i \in start.pos..end.pos - 1 : i \notin stop
<1> DEFINE N == Len(f)
           Next1(c) == IF AtEnd(f, c) \/ c.pos \in stop THEN c ELSE cache_accum(f, c)
           V == {c \in Kept(f, B, w, m) : /\ start.pos <= c.pos
                                          /\ \A i \in start.pos..c.pos - 1 : i \notin stop}
           turn == [n \in 1..N |-> [c \in V |-> Next1(c)]]
           at == CHOOSE g : g = [n \in 0..N |-> IF n = 0 THEN start ELSE Next1(g[n - 1])]
<1>1. end = at[N]
  BY DEF Copy
<1>2. N \in Nat /\ m \in 1..N + 1
  BY CopyingFacts
<1>3. ASSUME NEW c \in V
      PROVE  /\ c.pos \in m..N + 1 /\ (AtEnd(f, c) <=> c.pos = N + 1) /\ Next1(c) \in V
             /\ ~(AtEnd(f, c) \/ c.pos \in stop) => Next1(c).pos = c.pos + 1
  <2>1. c.pos \in m..N + 1 /\ (AtEnd(f, c) <=> c.pos = N + 1) /\ c \in Kept(f, B, w, m)
    BY KeptFacts
  <2>2. CASE AtEnd(f, c) \/ c.pos \in stop
    BY <2>1, <2>2
  <2>3. CASE ~(AtEnd(f, c) \/ c.pos \in stop)
    <3>1. Next1(c) \in Kept(f, B, w, m) /\ Next1(c).pos = c.pos + 1
      BY <2>1, <2>3, AccumFacts
    <3>2. start.pos \in Int /\ start.pos <= c.pos + 1 /\ \A i \in start.pos..(c.pos + 1) - 1 : i \notin stop
      <4>1. start.pos \in Int
        BY <1>2, KeptFacts
      <4> QED BY <1>2, <2>1, <2>3, <4>1
    <3> HIDE DEF Next1
    <3> QED BY <2>1, <2>3, <3>1, <3>2
  <2> QED BY <2>2, <2>3
<1>4. start \in V /\ start.pos \in m..N + 1
  BY <1>2, KeptFacts
<1> HIDE DEF V, Next1
<1>5. turn \in [1..N -> [V -> V]]
  BY <1>3
<1>6. at = [n \in 0..N |-> IF n = 0 THEN start ELSE Next1(at[n - 1])]
  <2> HIDE DEF turn
  <2>1. PICK g \in [0..N -> V] : Iterates(g, N, start, turn)
    BY <1>2, <1>4, <1>5, Iteration
  <2>2. \A n \in 0..N : g[n] = IF n = 0 THEN start ELSE Next1(g[n - 1])
    <3> SUFFICES ASSUME NEW n \in 0..N, n # 0 PROVE g[n] = Next1(g[n - 1])
      BY <2>1 DEF Iterates
    <3>1. n \in 1..N /\ n - 1 \in 0..N
      BY <1>2
    <3>2. g[n - 1] \in V
      BY <2>1, <3>1
    <3> QED BY <2>1, <3>1, <3>2 DEF Iterates, turn
  <2>3. g = [n \in 0..N |-> IF n = 0 THEN start ELSE Next1(g[n - 1])]
    BY <2>1, <2>2
  <2> QED BY <2>3
<1> HIDE DEF at
<1>7. at[0] = start /\ \A n \in 1..N : at[n] = Next1(at[n - 1])
  BY <1>2, <1>6
<1>8. \A n \in 0..N : at[n] \in V
  <2>1. at[0] \in V /\ \A n \in 1..N : at[n - 1] \in V => at[n] \in V
    BY <1>3, <1>4, <1>7
  <2> QED BY <1>2, <2>1, StaysIn
<1> DEFINE Stopped(c) == AtEnd(f, c) \/ c.pos \in stop
           S == {n \in 0..N : Stopped(at[n]) \/ at[n].pos = start.pos + n}
<1>9. 0..N \subseteq S
  <2>1. 0 \in S
    BY <1>2, <1>4, <1>7
  <2>2. ASSUME NEW n \in 1..N, n - 1 \in S PROVE n \in S
    <3>1. n - 1 \in 0..N /\ at[n - 1] \in V /\ at[n] = Next1(at[n - 1])
      BY <1>2, <1>7, <1>8
    <3>2. CASE Stopped(at[n - 1])
      <4>1. at[n] = at[n - 1]
        BY <3>1, <3>2 DEF Next1
      <4> QED BY <3>2, <4>1
    <3>3. CASE ~Stopped(at[n - 1])
      <4>1. at[n - 1].pos = start.pos + (n - 1) /\ at[n].pos = at[n - 1].pos + 1
        BY <1>3, <2>2, <3>1, <3>3
      <4> QED BY <1>2, <1>4, <4>1
    <3> QED BY <3>2, <3>3
  <2> HIDE DEF S
  <2> QED BY <1>2, <2>1, <2>2, Climb
<1>10. at[N] \in V /\ (Stopped(at[N]) \/ at[N].pos = start.pos + N)
  BY <1>2, <1>8, <1>9
<1>11. Stopped(at[N])
  BY <1>2, <1>3, <1>4, <1>10
<1> QED BY <1>1, <1>10, <1>11 DEF V

\* The end of the flushed file, whatever newline it got, is one of Ends.
LEMMA NewLineEnds ==
  ASSUME NEW f, Readable(f), NEW c, c.out = f
  PROVE  NewLine(c) \in Ends(f)
BY DEF NewLine, Ends

\* A cursor at line m that has nothing in its cache.
LEMMA KeptStart ==
  ASSUME NEW f, NEW B, NEW w, NEW m, Copying(f, B, w, m), NEW e, e \in BOOLEAN,
         NEW c, c = [pos |-> m, mark |-> m, cache |-> 0, out |-> w, ended |-> e]
  PROVE  c \in Kept(f, B, w, m)
<1>1. /\ w \in Seq(Lines) /\ m \in 1..Len(f) + 1 /\ f \in Seq(Lines) /\ Len(f) \in Nat
      /\ BufferSize \in Nat \ {0} /\ B \in [0..Len(f) -> Nat]
  BY CopyingFacts
<1>2. Behind(w, f, m, m) = w
  BY <1>1, Parts
<1>3. B[m - 1] \in Nat /\ B[m - 1] - B[m - 1] = 0
  <2>1. m - 1 \in 0..Len(f)
    BY <1>1
  <2>2. B[m - 1] \in Nat
    BY <1>1, <2>1
  <2> QED BY <2>2
<1>4. c \in [pos : 1..Len(f) + 1, mark : m..Len(f) + 1, cache : 0..BufferSize - 1, out : Seq(Lines),
             ended : BOOLEAN]
  BY <1>1
<1> QED BY <1>1, <1>2, <1>3, <1>4 DEF Kept

\* What is written in the end when the rest of the file is copied from c on.
Remaining(f, c) == cache_flush(f, Copy(f, c, {}, TRUE)).out

\* That is the rest of the file behind what was written before.
LEMMA CopyRest ==
  ASSUME NEW f, NEW B, NEW w, NEW m, Copying(f, B, w, m), NEW c, c \in Kept(f, B, w, m)
  PROVE  Remaining(f, c) = Behind(w, f, m, Len(f) + 1)
<1>0. PICK none : none = {}
  OBVIOUS
<1> DEFINE d == Copy(f, c, none, TRUE)
<1>1. d \in Kept(f, B, w, m) /\ AtEnd(f, d)
  <2>1. d \in Kept(f, B, w, m) /\ (AtEnd(f, d) \/ d.pos \in none)
    BY CopyFacts
  <2> QED BY <1>0, <2>1
<1> HIDE DEF d
<1>2. d.pos = Len(f) + 1
  BY <1>1, KeptFacts
<1>3. cache_flush(f, d).out = Behind(w, f, m, d.pos)
  BY <1>1, FlushFacts
<1>4. cache_flush(f, d).out = Behind(w, f, m, Len(f) + 1)
  BY <1>2, <1>3
<1> QED BY <1>0, <1>4 DEF d, Remaining

\* Where the key k of section s is to be put when the section has none, and where it is otherwise.
NewKeyAt(f, s, k, q) ==
  LET p == SectionAt(f, s)
  IN  /\ p \in DOMAIN f /\ q \in p + 1..Len(f) + 1 /\ \A i \in p + 1..q - 1 : i \notin BodyStops(f, k)
      /\ q = Len(f) + 1 \/ q \in Sections(f)
OldKeyAt(f, s, k, q) ==
  LET p == SectionAt(f, s)
  IN  /\ p \in DOMAIN f /\ q \in p + 1..Len(f) /\ \A i \in p + 1..q - 1 : i \notin BodyStops(f, k)
      /\ f[q].kind = "key" /\ f[q].name = k

\* The lines of f before the q-th, and l.
Headed(f, q, l) == SubSeq(f, 1, q - 1) \o <<l>>
\* The file f with l before its q-th line, and with l in the place of it.
WithLine(f, q, l) == Behind(Headed(f, q, l), f, q, Len(f) + 1)
InLine(f, q, l)   == Behind(Headed(f, q, l), f, q + 1, Len(f) + 1)

\* What may become of the file f when key k of section s is set: a section and the key at its end,
\* the key at its end, the key before the next section, the key in the place of the old one.
NewSection(f, g, s, k, l) ==
  SectionAt(f, s) = 0 /\ \E e \in Ends(f) : g = (e \o <<SectionLine(s)>>) \o <<l>>
KeyAtEnd(f, g, s, k, l) == NewKeyAt(f, s, k, Len(f) + 1) /\ \E e \in Ends(f) : g = e \o <<l>>
KeyBefore(f, g, s, k, l) == \E q \in DOMAIN f : NewKeyAt(f, s, k, q) /\ g = WithLine(f, q, l)
KeyInPlace(f, g, s, k, l) == \E q \in DOMAIN f : OldKeyAt(f, s, k, q) /\ g = InLine(f, q, l)
Edited1(f, g, s, k, l) == \/ NewSection(f, g, s, k, l) \/ KeyAtEnd(f, g, s, k, l)
                          \/ KeyBefore(f, g, s, k, l) \/ KeyInPlace(f, g, s, k, l)

\* Before anything is written.
Nothing == <<>>
\* The empty output, with which the copy starts.
LEMMA NothingFacts ==
  /\ Nothing \in Seq(Lines) /\ \A w \in Seq(Lines) : Nothing \o w = w
BY EmptySeq, ConcatEmptySeq DEF Nothing

\* The first loop of ini_puts stops at the line of the section, or at the end without one.
LEMMA FirstLoop ==
  ASSUME NEW f, NEW B, NEW m, m = 1, Copying(f, B, Nothing, m), NEW s, s \notin NoName, NEW b, b = ToSection(f, s)
  PROVE  /\ b \in Kept(f, B, Nothing, m) /\ b.pos \in 1..Len(f) + 1
         /\ SectionAt(f, s) = IF AtEnd(f, b) THEN 0 ELSE b.pos
<1> DEFINE N == Len(f)
<1>1. f \in Seq(Lines) /\ N \in Nat /\ DOMAIN f = 1..N
  BY CopyingFacts
<1>2. CopyStart \in Kept(f, B, Nothing, m) /\ CopyStart.pos = 1
  <2>1. CopyStart = [pos |-> 1, mark |-> 1, cache |-> 0, out |-> <<>>, ended |-> FALSE]
    BY DEF CopyStart
  <2>2. CopyStart = [pos |-> m, mark |-> m, cache |-> 0, out |-> Nothing, ended |-> FALSE]
    BY <2>1 DEF Nothing
  <2> QED BY <2>2, KeptStart
<1>3. b = Copy(f, CopyStart, SectionLines(f, s), TRUE)
  BY DEF ToSection
<1>4. /\ b \in Kept(f, B, Nothing, m)
      /\ AtEnd(f, b) \/ b.pos \in SectionLines(f, s)
      /\ \A i \in 1..b.pos - 1 : i \notin SectionLines(f, s)
  BY <1>2, <1>3, CopyFacts
<1>5. b.pos \in 1..N + 1 /\ (AtEnd(f, b) <=> b.pos = N + 1)
  BY <1>4, KeptFacts
<1>6. SectionAt(f, s) = First(SectionLines(f, s)) /\ SectionLines(f, s) \subseteq 1..N
  BY <1>1 DEF SectionAt, SectionLines, Sections
<1>7. CASE AtEnd(f, b)
  <2>1. SectionLines(f, s) = {}
    BY <1>1, <1>4, <1>5, <1>6, <1>7
  <2> QED BY <1>4, <1>5, <1>6, <1>7, <2>1, FirstFacts
<1>8. CASE ~AtEnd(f, b)
  <2>1. b.pos \in SectionLines(f, s) /\ \A i \in SectionLines(f, s) : b.pos <= i
    BY <1>1, <1>4, <1>5, <1>6, <1>8
  <2>2. First(SectionLines(f, s)) \in SectionLines(f, s)
        /\ \A i \in SectionLines(f, s) : First(SectionLines(f, s)) <= i
    BY <1>1, <1>6, <2>1, FirstFacts
  <2> QED BY <1>1, <1>4, <1>5, <1>6, <1>8, <2>1, <2>2
<1> QED BY <1>7, <1>8

\* The second loop goes on behind it, up to the next section or the key.
LEMMA SecondLoop ==
  ASSUME NEW f, NEW B, NEW m, m = 1, Copying(f, B, Nothing, m), NEW s, s \notin NoName, NEW k, k # Null,
         NEW b, b \in Kept(f, B, Nothing, m), ~AtEnd(f, b), NEW c, c = ToKey(f, b, s, k)
  PROVE  /\ b.pos \in 1..Len(f) /\ c \in Kept(f, B, Nothing, m) /\ c.pos \in b.pos + 1..Len(f) + 1
         /\ AtEnd(f, c) <=> c.pos = Len(f) + 1
         /\ AtEnd(f, c) \/ c.pos \in BodyStops(f, k)
         /\ \A i \in b.pos + 1..c.pos - 1 : i \notin BodyStops(f, k)
<1>1. PICK a : a = cache_accum(f, b)
  OBVIOUS
<1>2. PICK d : d = cache_flush(f, a)
  OBVIOUS
<1>3. c = Copy(f, d, BodyStops(f, k), TRUE)
  BY <1>1, <1>2 DEF ToKey
<1>4. a \in Kept(f, B, Nothing, m) /\ a.pos = b.pos + 1
  BY <1>1, AccumFacts
<1>5. d \in Kept(f, B, Nothing, m) /\ d.pos = b.pos + 1
  BY <1>2, <1>4, FlushFacts
<1>6. Len(f) \in Nat /\ b.pos \in 1..Len(f) + 1 /\ b.pos # Len(f) + 1
  BY KeptFacts, CopyingFacts
<1>7. /\ c \in Kept(f, B, Nothing, m) /\ d.pos <= c.pos
      /\ AtEnd(f, c) \/ c.pos \in BodyStops(f, k)
      /\ \A i \in d.pos..c.pos - 1 : i \notin BodyStops(f, k)
  BY <1>3, <1>5, CopyFacts
<1>8. c.pos \in 1..Len(f) + 1 /\ (AtEnd(f, c) <=> c.pos = Len(f) + 1)
  BY <1>7, KeptFacts
<1> QED BY <1>5, <1>6, <1>7, <1>8

\* The line l is written behind what the cursor d has written.
Written1(d, l) == [d EXCEPT !.out = @ \o <<l>>]

\* The line is written behind what was copied, and the rest of the file behind the line, with or
\* without the line at which the second loop stopped.
LEMMA ThirdLoop ==
  ASSUME NEW f, NEW B, NEW m, m = 1, Copying(f, B, Nothing, m), NEW l \in Lines, NEW c, c \in Kept(f, B, Nothing, m),
         ~AtEnd(f, c), NEW d, d = cache_flush(f, c), NEW e, e = Written1(d, l)
  PROVE  /\ Remaining(f, cache_accum(f, e)) = WithLine(f, c.pos, l)
         /\ Remaining(f, Skip(f, e)) = InLine(f, c.pos, l)
<1> DEFINE w == Headed(f, c.pos, l)
           Cursors == [pos : 1..Len(f) + 1, mark : 1..Len(f) + 1, cache : 0..BufferSize - 1,
                       out : Seq(Lines), ended : BOOLEAN]
<1>1. /\ Readable(f) /\ Lengths(f, B) /\ f \in Seq(Lines) /\ Len(f) \in Nat /\ DOMAIN f = 1..Len(f)
      /\ \A i \in 1..Len(f) : f[i] \in Lines
  BY CopyingFacts
<1>2. PICK q : q = c.pos
  OBVIOUS
<1>3. q \in 1..Len(f) /\ q + 1 \in 1..Len(f) + 1 /\ q \in 1..Len(f) + 1
  <2>1. c.pos \in 1..Len(f) + 1 /\ c.pos # Len(f) + 1
    BY KeptFacts
  <2> QED BY <1>1, <1>2, <2>1
<1>4. /\ d \in Kept(f, B, Nothing, m) /\ d.pos = q /\ d.mark = q /\ d.cache = 0
      /\ d.out = Behind(Nothing, f, m, q)
  BY <1>2, FlushFacts
<1>5. d \in Cursors
  BY <1>4 DEF Kept
<1>6. SubSeq(f, 1, q - 1) \in Seq(Lines)
  <2>1. 1 \in Int /\ q - 1 \in Int /\ \A i \in 1..q - 1 : f[i] \in Lines
    BY <1>1, <1>3
  <2> QED BY <2>1, SubSeqProperties
<1>7. d.out = SubSeq(f, 1, q - 1)
  <2>1. \A x \in Seq(Lines) : Nothing \o x = x
    BY NothingFacts
  <2> QED BY <1>4, <1>6, <2>1 DEF Behind
<1>8. w \in Seq(Lines) /\ w = d.out \o <<l>>
  <2>1. <<l>> \in Seq(Lines)
    OBVIOUS
  <2> QED BY <1>2, <1>6, <1>7, <2>1, ConcatProperties DEF Headed
<1> HIDE DEF w
<1>9. /\ e.pos = q /\ e.mark = q /\ e.cache = 0 /\ e.out = w /\ e.ended \in BOOLEAN
      /\ e \in Cursors
  BY <1>4, <1>5, <1>8 DEF Written1
<1>10. e = [pos |-> q, mark |-> q, cache |-> 0, out |-> w, ended |-> e.ended]
  BY <1>9
<1>11. PICK r : r = e.ended
  OBVIOUS
<1>12. ~AtEnd(f, e)
  BY <1>1, <1>3, <1>9 DEF AtEnd
<1>13. Remaining(f, cache_accum(f, e)) = Behind(w, f, q, Len(f) + 1)
  <2>1. Copying(f, B, w, q)
    BY <1>1, <1>3, <1>8 DEF Copying
  <2>2. e = [pos |-> q, mark |-> q, cache |-> 0, out |-> w, ended |-> r] /\ r \in BOOLEAN
    BY <1>9, <1>10, <1>11
  <2>3. e \in Kept(f, B, w, q)
    BY <2>1, <2>2, KeptStart
  <2>4. cache_accum(f, e) \in Kept(f, B, w, q)
    BY <1>12, <2>1, <2>3, AccumFacts
  <2> QED BY <2>1, <2>4, CopyRest
<1>14. Remaining(f, Skip(f, e)) = Behind(w, f, q + 1, Len(f) + 1)
  <2>1. Copying(f, B, w, q + 1)
    BY <1>1, <1>3, <1>8 DEF Copying
  <2>2. Skip(f, e) = [e EXCEPT !.pos = @ + 1, !.mark = e.pos + 1]
    BY <1>12 DEF Skip
  <2>3. Skip(f, e) = [pos |-> q + 1, mark |-> q + 1, cache |-> 0, out |-> w, ended |-> r]
    <3>1. PICK x : x = [e EXCEPT !.pos = @ + 1, !.mark = e.pos + 1]
      OBVIOUS
    <3>2. e.pos = q /\ e.cache = 0 /\ e.out = w /\ e.ended = r
      BY <1>9, <1>11
    <3>3. x = [pos |-> q + 1, mark |-> q + 1, cache |-> 0, out |-> w, ended |-> r]
      BY <1>9, <1>11, <3>1, <3>2
    <3> QED BY <2>2, <3>1, <3>3
  <2>4. Skip(f, e) \in Kept(f, B, w, q + 1)
    BY <1>9, <1>11, <2>1, <2>3, KeptStart
  <2> QED BY <2>1, <2>4, CopyRest
<1> QED BY <1>2, <1>13, <1>14 DEF w, WithLine, InLine

\* What ini_puts writes for a key and a value, whatever was cached and flushed on the way.
LEMMA RewrittenIs ==
  ASSUME NEW f, Readable(f), NEW s \in STRING \ NoName, NEW k \in STRING, NEW v \in STRING,
         Fits(KeyLine(k, v))
  PROVE  Edited1(f, Rewritten(f, s, k, v), s, k, KeyLine(k, v))
<1> SUFFICES ASSUME NEW g, g = Rewritten(f, s, k, v), NEW l, l = KeyLine(k, v)
             PROVE  Edited1(f, g, s, k, l)
  OBVIOUS
<1> DEFINE N == Len(f)
<1>0. PICK m : m = 1
  OBVIOUS
<1>1. PICK B : Lengths(f, B)
  BY LengthsExist
<1>2. /\ f \in Seq(Lines) /\ N \in Nat /\ DOMAIN f = 1..N /\ l \in Lines /\ Copying(f, B, Nothing, m)
  <2>1. f \in Seq(Lines) /\ N \in Nat /\ DOMAIN f = 1..N /\ Nothing \in Seq(Lines)
    BY FileFacts, NothingFacts
  <2>2. m \in 1..Len(f) + 1
    BY <1>0, <2>1
  <2>3. Copying(f, B, Nothing, m)
    BY <1>1, <2>1, <2>2 DEF Copying
  <2> QED BY <2>1, <2>3 DEF Fits
<1>3. s \notin NoName /\ k # Null /\ v # Null
  BY IniAssumption
<1>4. PICK b : b = ToSection(f, s)
  OBVIOUS
<1>5. /\ b \in Kept(f, B, Nothing, m) /\ b.pos \in 1..N + 1
      /\ SectionAt(f, s) = IF AtEnd(f, b) THEN 0 ELSE b.pos
  BY <1>0, <1>2, <1>3, <1>4, FirstLoop
<1>6. \A x : x \in Kept(f, B, Nothing, m) /\ AtEnd(f, x) => cache_flush(f, x).out = f
  <2> SUFFICES ASSUME NEW x, x \in Kept(f, B, Nothing, m), AtEnd(f, x) PROVE cache_flush(f, x).out = f
    OBVIOUS
  <2>1. Behind(Nothing, f, m, N + 1) = f
    <3>1. SubSeq(f, 1, N) = f
      BY <1>2, SubSeqFull
    <3>2. Nothing \o f = f
      BY <1>2, NothingFacts
    <3>3. (N + 1) - 1 = N
      BY <1>2
    <3> QED BY <1>0, <3>1, <3>2, <3>3 DEF Behind
  <2>2. cache_flush(f, x).out = Behind(Nothing, f, m, x.pos)
    BY <1>2, FlushFacts
  <2>3. x.pos = N + 1
    BY <1>2, KeptFacts
  <2> QED BY <2>1, <2>2, <2>3
<1>7. CASE AtEnd(f, b)
  <2>1. PICK last : last = cache_flush(f, b)
    OBVIOUS
  <2>2. g = (NewLine(last) \o <<SectionLine(s)>>) \o <<l>>
    BY <1>3, <1>4, <1>7, <2>1 DEF Rewritten, writesection, writekey
  <2>3. NewLine(last) \in Ends(f)
    BY <1>5, <1>6, <1>7, <2>1, NewLineEnds
  <2>4. NewSection(f, g, s, k, l)
    BY <1>5, <1>7, <2>2, <2>3 DEF NewSection
  <2> QED BY <2>4 DEF Edited1
<1>8. ASSUME ~AtEnd(f, b) PROVE Edited1(f, g, s, k, l)
  <2>1. PICK c : c = ToKey(f, b, s, k)
    OBVIOUS
  <2>2. PICK q : q = c.pos
    OBVIOUS
  <2>3. /\ b.pos \in 1..N /\ c \in Kept(f, B, Nothing, m) /\ q \in b.pos + 1..N + 1
        /\ AtEnd(f, c) <=> q = N + 1
        /\ AtEnd(f, c) \/ q \in BodyStops(f, k)
        /\ \A i \in b.pos + 1..q - 1 : i \notin BodyStops(f, k)
    BY <1>2, <1>3, <1>5, <1>8, <2>1, <2>2, <1>0, SecondLoop
  <2>4. SectionAt(f, s) = b.pos /\ b.pos \in DOMAIN f
    BY <1>2, <1>5, <1>8, <2>3
  <2>5. PICK d : d = cache_flush(f, c)
    OBVIOUS
  <2>6. PICK e : e = Written1(d, l)
    OBVIOUS
  <2>7. CASE AtEnd(f, c)
    <3>1. g = NewLine(d) \o <<l>>
      BY <1>3, <1>4, <1>8, <2>1, <2>5, <2>7 DEF Rewritten, writekey
    <3>2. NewLine(d) \in Ends(f)
      BY <1>6, <2>3, <2>5, <2>7, NewLineEnds
    <3>3. NewKeyAt(f, s, k, N + 1)
      BY <2>3, <2>4, <2>7 DEF NewKeyAt
    <3>4. KeyAtEnd(f, g, s, k, l)
      BY <3>1, <3>2, <3>3 DEF KeyAtEnd
    <3> QED BY <3>4 DEF Edited1
  <2>8. CASE ~AtEnd(f, c)
    <3>1. g = Remaining(f, IF f[q].kind = "section" THEN cache_accum(f, e) ELSE Skip(f, e))
      BY <1>3, <1>4, <1>8, <2>1, <2>2, <2>5, <2>6, <2>8 DEF Rewritten, writekey, Written1, Remaining
    <3>2. /\ Remaining(f, cache_accum(f, e)) = WithLine(f, q, l)
          /\ Remaining(f, Skip(f, e)) = InLine(f, q, l)
      <4>1. Copying(f, B, Nothing, m) /\ l \in Lines /\ c \in Kept(f, B, Nothing, m) /\ ~AtEnd(f, c)
        BY <1>2, <2>3, <2>8
      <4>2. Remaining(f, cache_accum(f, e)) = WithLine(f, c.pos, l)
        BY <1>0, <2>5, <2>6, <4>1, ThirdLoop
      <4>3. Remaining(f, Skip(f, e)) = InLine(f, c.pos, l)
        BY <1>0, <2>5, <2>6, <4>1, ThirdLoop
      <4> QED BY <2>2, <4>2, <4>3
    <3>3. q \in b.pos + 1..N /\ q \in 1..N /\ q \in BodyStops(f, k)
      BY <1>2, <2>3, <2>8
    <3>4. CASE f[q].kind = "section"
      <4>1. g = WithLine(f, q, l)
        BY <3>1, <3>2, <3>4
      <4>2. NewKeyAt(f, s, k, q)
        BY <1>2, <2>3, <2>4, <3>3, <3>4 DEF NewKeyAt, Sections
      <4>3. KeyBefore(f, g, s, k, l)
        BY <1>2, <3>3, <4>1, <4>2 DEF KeyBefore
      <4> QED BY <4>3 DEF Edited1
    <3>5. CASE f[q].kind # "section"
      <4>1. g = InLine(f, q, l)
        BY <3>1, <3>2, <3>5
      <4>2. f[q].kind = "key" /\ f[q].name = k
        BY <3>3, <3>5 DEF BodyStops, Sections
      <4>3. OldKeyAt(f, s, k, q)
        BY <1>2, <2>3, <2>4, <3>3, <4>2 DEF OldKeyAt
      <4>4. KeyInPlace(f, g, s, k, l)
        BY <1>2, <3>3, <4>1, <4>3 DEF KeyInPlace
      <4> QED BY <4>4 DEF Edited1
    <3> QED BY <3>4, <3>5
  <2> QED BY <2>7, <2>8
<1> QED BY <1>7, <1>8

(***************************************************************************)
(* Reading: what the functions of ini.c find, said without a loop.         *)
(***************************************************************************)
\* Line i of f belongs to section s: the last section line before it says s (without a name:
\* there is none).
Under(f, i, s) ==
  IF s \in NoName THEN \A j \in Sections(f) : j > i
  ELSE \E p \in Sections(f) : f[p].name = s /\ p < i /\ \A j \in Sections(f) : j <= p \/ j > i

\* The lines of key k in section s.
KeyLines(f, s) == {i \in DOMAIN f : f[i].kind = "key" /\ Under(f, i, s)}
KeySet(f, s, k) == {i \in KeyLines(f, s) : f[i].name = k}

\* The section lines of a readable file have different names.
LEMMA SectionFacts ==
  ASSUME NEW f, Readable(f)
  PROVE  /\ f \in Seq(Lines) /\ Len(f) \in Nat /\ DOMAIN f = 1..Len(f) /\ \A i \in 1..Len(f) : f[i] \in Lines
         /\ Sections(f) \subseteq 1..Len(f) /\ Sections(f) \subseteq Nat \ {0}
         /\ \A i, j \in Sections(f) : f[j].name = f[i].name => i = j
<1>1. f \in Seq(Lines) /\ Len(f) \in Nat /\ DOMAIN f = 1..Len(f) /\ \A i \in 1..Len(f) : f[i] \in Lines
  BY FileFacts
<1>2. Sections(f) \subseteq 1..Len(f) /\ Sections(f) \subseteq Nat \ {0}
  BY <1>1 DEF Sections
<1>3. \A i, j \in Sections(f) : f[j].name = f[i].name => i = j
  BY DEF Readable
<1> QED BY <1>1, <1>2, <1>3

\* The section that is found is the one of that name.
LEMMA SectionAtIs ==
  ASSUME NEW f, Readable(f), NEW s
  PROVE  /\ \A p \in Sections(f) : f[p].name = s => SectionAt(f, s) = p
         /\ (\A p \in Sections(f) : f[p].name # s) => SectionAt(f, s) = 0
<1> DEFINE S == {i \in Sections(f) : f[i].name = s}
<1>1. SectionAt(f, s) = First(S)
  BY DEF SectionAt
<1>2. S \subseteq Nat \ {0} /\ \A i, j \in S : i = j
  BY SectionFacts
<1>3. \A p \in S : First(S) = p
  <2> HIDE DEF S
  <2> QED BY <1>2, FirstFacts
<1>4. S = {} => First(S) = 0
  <2> HIDE DEF S
  <2> QED BY <1>2, FirstFacts
<1> QED BY <1>1, <1>3, <1>4

\* The lines getkeystring searches for a key are those under the section.
LEMMA BodyIs ==
  ASSUME NEW f, Readable(f), NEW s
  PROVE  Body(f, s) = {i \in DOMAIN f : Under(f, i, s)}
<1> DEFINE start == IF s \in NoName THEN 0 ELSE SectionAt(f, s)
           after == {i \in Sections(f) : i > start}
           stop  == IF after = {} THEN Len(f) + 1 ELSE Min(after)
<1>1. Body(f, s) = IF s \notin NoName /\ start = 0 THEN {} ELSE (start + 1)..(stop - 1)
  BY DEF Body
<1>2. /\ Len(f) \in Nat /\ DOMAIN f = 1..Len(f) /\ Sections(f) \subseteq 1..Len(f)
      /\ \A i, j \in Sections(f) : f[j].name = f[i].name => i = j
  BY SectionFacts
<1>3. start \in 0..Len(f) /\ (start # 0 => start \in Sections(f) /\ f[start].name = s)
  BY <1>2, SectionAtIs
<1>4. s \notin NoName => \A p \in Sections(f) : f[p].name = s => start = p
  BY SectionAtIs
<1>5. /\ after # {} => stop \in after /\ \A j \in after : stop <= j
      /\ after = {} => stop = Len(f) + 1
  <2>1. after \subseteq Nat
    BY <1>2
  <2>2. after # {} => \E m \in after : \A n \in after : m <= n
    <3> HIDE DEF after
    <3> QED BY <2>1, Least
  <2> HIDE DEF after
  <2> QED BY <2>2 DEF Min
<1>6. \A i \in 1..Len(f) : i > start => (i < stop <=> \A j \in Sections(f) : j <= start \/ j > i)
  <2> SUFFICES ASSUME NEW i \in 1..Len(f), i > start
               PROVE  i < stop <=> \A j \in Sections(f) : j <= start \/ j > i
    OBVIOUS
  <2>1. CASE after = {}
    <3>1. stop = Len(f) + 1
      BY <1>5, <2>1
    <3>2. \A j \in Sections(f) : j <= start
      BY <1>2, <1>3, <2>1
    <3> HIDE DEF stop
    <3> QED BY <1>2, <3>1, <3>2
  <2>2. CASE after # {}
    <3>1. stop \in Sections(f) /\ stop > start /\ \A j \in Sections(f) : j <= start \/ stop <= j
      <4>1. stop \in after /\ \A j \in after : stop <= j
        BY <1>5, <2>2
      <4>2. \A j \in Sections(f) : j \in after \/ j <= start
        <5> HIDE DEF start
        <5> QED BY <1>2, <1>3
      <4> HIDE DEF stop, start
      <4> QED BY <4>1, <4>2
    <3> HIDE DEF stop, start
    <3> QED BY <1>2, <1>3, <3>1
  <2> QED BY <2>1, <2>2
<1>7. stop \in Nat /\ stop <= Len(f) + 1
  BY <1>2, <1>5
<1> HIDE DEF stop, after
<1>8. CASE s \in NoName
  <2>1. Body(f, s) = 1..(stop - 1)
    BY <1>1, <1>8
  <2>2. \A i \in 1..Len(f) : i < stop <=> Under(f, i, s)
    BY <1>2, <1>6, <1>8 DEF Under
  <2> QED BY <1>2, <1>7, <2>1, <2>2
<1>9. CASE s \notin NoName /\ start = 0
  <2>1. \A p \in Sections(f) : f[p].name # s
    BY <1>2, <1>4, <1>9
  <2> QED BY <1>1, <1>9, <2>1 DEF Under
<1>10. CASE s \notin NoName /\ start # 0
  <2>1. start \in Sections(f) /\ f[start].name = s /\ Body(f, s) = (start + 1)..(stop - 1)
    BY <1>1, <1>3, <1>10
  <2> HIDE DEF start
  <2>2. \A i \in 1..Len(f) : Under(f, i, s) <=> start < i /\ \A j \in Sections(f) : j <= start \/ j > i
    BY <1>4, <1>10, <2>1 DEF Under
  <2>3. \A i \in 1..Len(f) : Under(f, i, s) <=> start < i /\ i < stop
    BY <1>3, <1>6, <2>2
  <2> QED BY <1>2, <1>3, <1>7, <2>1, <2>3
<1> QED BY <1>8, <1>9, <1>10

\* Hence the line that getkeystring finds is the first of the lines of the key.
LEMMA GetIs ==
  ASSUME NEW f, Readable(f), NEW s
  PROVE  /\ \A k : getkeystring(f, s, k) = First(KeySet(f, s, k))
         /\ \A n : KeyNo(f, s, n) = Nth(KeyLines(f, s), n)
         /\ KeyLines(f, s) \subseteq 1..Len(f) /\ \A k : KeySet(f, s, k) \subseteq Nat \ {0}
<1>1. \A k : {i \in Body(f, s) : f[i].kind = "key" /\ f[i].name = k} = KeySet(f, s, k)
  BY BodyIs DEF KeySet, KeyLines
<1>2. {i \in Body(f, s) : f[i].kind = "key"} = KeyLines(f, s)
  BY BodyIs DEF KeyLines
<1>3. KeyLines(f, s) \subseteq 1..Len(f) /\ \A k : KeySet(f, s, k) \subseteq Nat \ {0}
  BY SectionFacts DEF KeyLines, KeySet
<1> QED BY <1>1, <1>2, <1>3 DEF getkeystring, KeyNo

\* A line belongs to one section only.
LEMMA UnderOne ==
  ASSUME NEW f, Readable(f), NEW i \in DOMAIN f, NEW s, NEW t, Under(f, i, s), Under(f, i, t),
         s \notin NoName \/ t \notin NoName \/ {s, t} \subseteq STRING
  PROVE  s = t
<1>1. Sections(f) \subseteq Nat /\ i \in Nat
  BY SectionFacts
<1>2. CASE s \in NoName /\ t \in NoName
  <2>1. \A x \in NoName \cap STRING : x = ""
    BY IniAssumption, Zenon DEF NoName
  <2> QED BY <1>2, <2>1, Zenon
<1>3. CASE s \in NoName /\ t \notin NoName
  BY <1>1, <1>3 DEF Under
<1>4. CASE s \notin NoName /\ t \in NoName
  BY <1>1, <1>4 DEF Under
<1>5. CASE s \notin NoName /\ t \notin NoName
  <2>1. PICK p \in Sections(f) : f[p].name = s /\ p < i /\ \A j \in Sections(f) : j <= p \/ j > i
    BY <1>5 DEF Under
  <2>2. PICK r \in Sections(f) : f[r].name = t /\ r < i /\ \A j \in Sections(f) : j <= r \/ j > i
    BY <1>5 DEF Under
  <2>3. p <= r /\ r <= p
    BY <1>1, <2>1, <2>2
  <2>4. p = r
    BY <1>1, <2>3
  <2> QED BY <2>1, <2>2, <2>4
<1> QED BY <1>2, <1>3, <1>4, <1>5

(***************************************************************************)
(* A line more, and a line in the place of another.                        *)
(***************************************************************************)
\* Where the i-th line goes when a line is put before the q-th.
Moved(q, i) == IF i < q THEN i ELSE i + 1
Inserted(f, g, q, l) ==
  /\ f \in Seq(Lines) /\ g \in Seq(Lines) /\ q \in 1..Len(f) + 1 /\ Len(g) = Len(f) + 1
  /\ g[q] = l /\ \A i \in 1..Len(f) : g[Moved(q, i)] = f[i]
Replaced(f, g, q, l) ==
  /\ f \in Seq(Lines) /\ g \in Seq(Lines) /\ q \in 1..Len(f) /\ Len(g) = Len(f)
  /\ g[q] = l /\ l.kind = f[q].kind /\ l.name = f[q].name
  /\ \A i \in 1..Len(f) : i # q => g[i] = f[i]

\* The lines before q and a line l.
LEMMA HeadedFacts ==
  ASSUME NEW f \in Seq(Lines), NEW q \in 1..Len(f) + 1, NEW l \in Lines
  PROVE  /\ Headed(f, q, l) \in Seq(Lines) /\ Len(Headed(f, q, l)) = q
         /\ Headed(f, q, l)[q] = l /\ \A i \in 1..q - 1 : Headed(f, q, l)[i] = f[i]
<1> DEFINE a == SubSeq(f, 1, q - 1)
<1>1. /\ a \in Seq(Lines) /\ Len(a) = q - 1 /\ \A i \in 1..q - 1 : a[i] = f[i]
  <2>1. 1 \in Int /\ q - 1 \in Int /\ \A i \in 1..q - 1 : f[i] \in Lines
    OBVIOUS
  <2>2. a \in Seq(Lines) /\ Len(a) = (IF 1 <= q - 1 THEN (q - 1) - 1 + 1 ELSE 0)
        /\ \A i \in 1..(q - 1) - 1 + 1 : a[i] = f[1 + i - 1]
    BY <2>1, SubSeqProperties
  <2> HIDE DEF a
  <2> QED BY <2>2
<1> HIDE DEF a
<1>2. <<l>> \in Seq(Lines) /\ Len(<<l>>) = 1 /\ <<l>>[1] = l
  OBVIOUS
<1>3. PICK z : z = <<l>>
  OBVIOUS
<1>4. a \o z \in Seq(Lines) /\ Len(a \o z) = q
      /\ \A i \in 1..q : (a \o z)[i] = IF i <= q - 1 THEN a[i] ELSE z[i - (q - 1)]
  <2>1. Len(a) + Len(z) = q
    BY <1>1, <1>2, <1>3
  <2> QED BY <1>1, <1>2, <1>3, <2>1, ConcatProperties
<1>5. Headed(f, q, l) = a \o z
  BY <1>3 DEF Headed, a
<1>6. q - (q - 1) = 1 /\ q \in 1..q /\ ~(q <= q - 1)
  OBVIOUS
<1>7. (a \o z)[q] = l
  BY <1>2, <1>3, <1>4, <1>6
<1>8. \A i \in 1..q - 1 : (a \o z)[i] = f[i]
  BY <1>1, <1>4
<1> QED BY <1>4, <1>5, <1>7, <1>8

\* What stands behind the first lines of f, from the r-th line of f on.
LEMMA BehindFacts ==
  ASSUME NEW f \in Seq(Lines), NEW w \in Seq(Lines), NEW r \in 1..Len(f) + 1
  PROVE  LET g == Behind(w, f, r, Len(f) + 1)
         IN  /\ g \in Seq(Lines) /\ Len(g) = Len(w) + (Len(f) + 1 - r)
             /\ \A i \in 1..Len(w) : g[i] = w[i]
             /\ \A i \in r..Len(f) : g[Len(w) + (i + 1 - r)] = f[i]
<1>1. PICK y : y = SubSeq(f, r, Len(f))
  OBVIOUS
<1>2. /\ y \in Seq(Lines) /\ Len(y) = Len(f) + 1 - r
      /\ \A i \in 1..Len(f) + 1 - r : y[i] = f[r + i - 1]
  <2>1. r \in Int /\ Len(f) \in Int /\ \A i \in r..Len(f) : f[i] \in Lines
    OBVIOUS
  <2>2. y \in Seq(Lines) /\ Len(y) = (IF r <= Len(f) THEN Len(f) - r + 1 ELSE 0)
        /\ \A i \in 1..Len(f) - r + 1 : y[i] = f[r + i - 1]
    BY <1>1, <2>1, SubSeqProperties
  <2> QED BY <2>2
<1>3. PICK g : g = Behind(w, f, r, Len(f) + 1)
  OBVIOUS
<1>4. g = w \o y
  <2>1. (Len(f) + 1) - 1 = Len(f)
    OBVIOUS
  <2> QED BY <1>1, <1>3, <2>1 DEF Behind
<1>5. /\ g \in Seq(Lines) /\ Len(g) = Len(w) + Len(y)
      /\ \A i \in 1..Len(w) + Len(y) : g[i] = IF i <= Len(w) THEN w[i] ELSE y[i - Len(w)]
  BY <1>2, <1>4, ConcatProperties
<1>6. Len(w) \in Nat /\ Len(f) \in Nat /\ Len(y) \in Nat
  BY <1>2
<1>7. \A i \in 1..Len(w) : g[i] = w[i]
  BY <1>5, <1>6
<1>8. \A i \in r..Len(f) : g[Len(w) + (i + 1 - r)] = f[i]
  <2> SUFFICES ASSUME NEW i \in r..Len(f) PROVE g[Len(w) + (i + 1 - r)] = f[i]
    OBVIOUS
  <2>1. PICK j : j = i + 1 - r
    OBVIOUS
  <2>2. j \in 1..Len(f) + 1 - r /\ r + j - 1 = i
    BY <1>6, <2>1
  <2>3. y[j] = f[i]
    BY <1>2, <2>2
  <2>4. Len(w) + j \in 1..Len(w) + Len(y) /\ ~(Len(w) + j <= Len(w)) /\ (Len(w) + j) - Len(w) = j
    BY <1>2, <1>6, <2>2
  <2>5. g[Len(w) + j] = y[j]
    BY <1>5, <2>4
  <2> QED BY <2>1, <2>3, <2>5
<1> QED BY <1>2, <1>3, <1>5, <1>7, <1>8

\* A file copied with one line more is that file with the line inserted.
LEMMA WithLineIs ==
  ASSUME NEW f \in Seq(Lines), NEW q \in 1..Len(f) + 1, NEW l \in Lines
  PROVE  Inserted(f, WithLine(f, q, l), q, l)
<1>1. PICK w : w = Headed(f, q, l)
  OBVIOUS
<1>2. w \in Seq(Lines) /\ Len(w) = q /\ w[q] = l /\ \A i \in 1..q - 1 : w[i] = f[i]
  BY <1>1, HeadedFacts
<1>3. PICK g : g = WithLine(f, q, l)
  OBVIOUS
<1>4. g = Behind(w, f, q, Len(f) + 1)
  BY <1>1, <1>3 DEF WithLine
<1>5. /\ g \in Seq(Lines) /\ Len(g) = Len(w) + (Len(f) + 1 - q)
      /\ \A i \in 1..Len(w) : g[i] = w[i]
      /\ \A i \in q..Len(f) : g[Len(w) + (i + 1 - q)] = f[i]
  BY <1>2, <1>4, BehindFacts
<1>6. Len(f) \in Nat /\ Len(g) = Len(f) + 1 /\ g[q] = l
  BY <1>2, <1>5
<1>7. ASSUME NEW i \in 1..Len(f) PROVE g[Moved(q, i)] = f[i]
  <2>1. CASE i < q
    <3>1. Moved(q, i) = i /\ i \in 1..q - 1 /\ i \in 1..Len(w)
      BY <1>2, <1>6, <2>1 DEF Moved
    <3> QED BY <1>2, <1>5, <3>1
  <2>2. CASE ~(i < q)
    <3>1. Moved(q, i) = Len(w) + (i + 1 - q) /\ i \in q..Len(f)
      BY <1>2, <1>6, <2>2 DEF Moved
    <3> QED BY <1>5, <3>1
  <2> QED BY <2>1, <2>2
<1> QED BY <1>3, <1>5, <1>6, <1>7 DEF Inserted

\* A line behind the last one is inserted there.
LEMMA AppendIs ==
  ASSUME NEW f \in Seq(Lines), NEW l \in Lines
  PROVE  Inserted(f, f \o <<l>>, Len(f) + 1, l) /\ f \o <<l>> = Append(f, l)
<1>1. PICK g : g = Append(f, l)
  OBVIOUS
<1>2. f \o <<l>> = g
  BY <1>1
<1>3. g \in Seq(Lines) /\ Len(g) = Len(f) + 1 /\ g[Len(f) + 1] = l /\ \A i \in 1..Len(f) : g[i] = f[i]
  BY <1>1
<1>4. Len(f) \in Nat /\ Len(f) + 1 \in 1..Len(f) + 1 /\ \A i \in 1..Len(f) : Moved(Len(f) + 1, i) = i
  BY DEF Moved
<1> QED BY <1>1, <1>2, <1>3, <1>4 DEF Inserted

\* A file copied with a line in the place of another one.
LEMMA InLineIs ==
  ASSUME NEW f \in Seq(Lines), NEW q \in 1..Len(f), NEW l \in Lines,
         l.kind = f[q].kind, l.name = f[q].name
  PROVE  Replaced(f, InLine(f, q, l), q, l) /\ InLine(f, q, l) = ReplaceAt(f, q, l)
<1>1. PICK w : w = Headed(f, q, l)
  OBVIOUS
<1>2. w \in Seq(Lines) /\ Len(w) = q /\ w[q] = l /\ \A i \in 1..q - 1 : w[i] = f[i]
  <2>1. q \in 1..Len(f) + 1
    OBVIOUS
  <2>2. /\ Headed(f, q, l) \in Seq(Lines) /\ Len(Headed(f, q, l)) = q
        /\ Headed(f, q, l)[q] = l /\ \A i \in 1..q - 1 : Headed(f, q, l)[i] = f[i]
    BY <2>1, HeadedFacts
  <2> QED BY <1>1, <2>2
<1>3. PICK g : g = InLine(f, q, l)
  OBVIOUS
<1>4. g = Behind(w, f, q + 1, Len(f) + 1)
  BY <1>1, <1>3 DEF InLine
<1>5. q + 1 \in 1..Len(f) + 1
  OBVIOUS
<1>6. /\ g \in Seq(Lines) /\ Len(g) = Len(w) + (Len(f) + 1 - (q + 1))
      /\ \A i \in 1..Len(w) : g[i] = w[i]
      /\ \A i \in q + 1..Len(f) : g[Len(w) + (i + 1 - (q + 1))] = f[i]
  BY <1>2, <1>4, <1>5, BehindFacts
<1>7. Len(f) \in Nat /\ Len(g) = Len(f) /\ g[q] = l
  BY <1>2, <1>6
<1>8. ASSUME NEW i \in 1..Len(f), i # q PROVE g[i] = f[i]
  <2>1. CASE i < q
    <3>1. i \in 1..q - 1 /\ i \in 1..Len(w)
      BY <1>2, <1>7, <2>1
    <3> QED BY <1>2, <1>6, <3>1
  <2>2. CASE ~(i < q)
    <3>1. i = Len(w) + (i + 1 - (q + 1)) /\ i \in q + 1..Len(f)
      BY <1>2, <1>7, <1>8, <2>2
    <3> QED BY <1>6, <3>1
  <2> QED BY <2>1, <2>2
<1>9. g = ReplaceAt(f, q, l)
  <2>1. PICK h : h = ReplaceAt(f, q, l)
    OBVIOUS
  <2>2. h \in Seq(Lines) /\ Len(h) = Len(f) /\ \A i \in 1..Len(f) : h[i] = IF i = q THEN l ELSE f[i]
    BY <2>1 DEF ReplaceAt
  <2>3. \A i \in 1..Len(g) : g[i] = h[i]
    BY <1>7, <1>8, <2>2
  <2>4. Len(g) = Len(h)
    BY <1>7, <2>2
  <2> QED BY <1>6, <2>1, <2>2, <2>3, <2>4, SeqEqual
<1> QED BY <1>3, <1>6, <1>7, <1>8, <1>9 DEF Replaced

\* A line in the place of another of its kind and name changes no section.
LEMMA ReplacedLines ==
  ASSUME NEW f, Readable(f), NEW g, NEW q, NEW l, Replaced(f, g, q, l), Fits(l)
  PROVE  /\ Readable(g) /\ Sections(g) = Sections(f) /\ DOMAIN g = DOMAIN f
         /\ \A i \in DOMAIN f : g[i].kind = f[i].kind /\ g[i].name = f[i].name
         /\ \A s : KeyLines(g, s) = KeyLines(f, s)
         /\ \A s, k : KeySet(g, s, k) = KeySet(f, s, k)
         /\ \A i, s : Under(g, i, s) <=> Under(f, i, s)
<1>1. /\ f \in Seq(Lines) /\ Len(f) \in Nat /\ DOMAIN f = 1..Len(f)
      /\ g \in Seq(Lines) /\ DOMAIN g = 1..Len(f) /\ q \in 1..Len(f)
      /\ g[q] = l /\ l.kind = f[q].kind /\ l.name = f[q].name
      /\ \A i \in 1..Len(f) : i # q => g[i] = f[i]
  BY SectionFacts DEF Replaced
<1>2. \A i \in DOMAIN f : g[i].kind = f[i].kind /\ g[i].name = f[i].name
  BY <1>1
<1>3. Sections(g) = Sections(f)
  BY <1>1, <1>2 DEF Sections
<1>4. \A i \in DOMAIN f : Fits(g[i])
  <2>1. \A i \in DOMAIN f : Fits(f[i])
    BY DEF Readable
  <2> QED BY <1>1, <2>1
<1>5. Sections(f) \subseteq DOMAIN f
  BY DEF Sections
<1>6. Readable(g)
  <2>1. \A i \in Sections(f) : f[i].name \notin NoName
    BY DEF Readable
  <2>2. \A i, j \in Sections(f) : f[j].name = f[i].name => i = j
    BY DEF Readable
  <2>3. \A i \in Sections(g) : g[i].name \notin NoName
    BY <1>2, <1>3, <1>5, <2>1
  <2>4. \A i, j \in Sections(g) : g[j].name = g[i].name => i = j
    BY <1>2, <1>3, <1>5, <2>2
  <2> QED BY <1>1, <1>4, <2>3, <2>4 DEF Readable
<1>7. \A i, s : Under(g, i, s) <=> Under(f, i, s)
  BY <1>2, <1>3, <1>5 DEF Under
<1>8. \A s : KeyLines(g, s) = KeyLines(f, s)
  BY <1>1, <1>2, <1>7 DEF KeyLines
<1>9. \A s, k : KeySet(g, s, k) = KeySet(f, s, k)
  BY <1>2, <1>8 DEF KeySet, KeyLines
<1> QED BY <1>1, <1>2, <1>3, <1>6, <1>7, <1>8, <1>9

\* Lines behind an inserted one move down by one and keep their order.
LEMMA MovedFacts ==
  ASSUME NEW n \in Nat, NEW q \in 1..n + 1
  PROVE  /\ \A i \in 1..n : Moved(q, i) \in 1..n + 1 /\ Moved(q, i) # q
         /\ \A i, j \in 1..n : i < j <=> Moved(q, i) < Moved(q, j)
         /\ \A i \in 1..n : (i < q <=> Moved(q, i) < q) /\ (i >= q <=> Moved(q, i) > q)
         /\ \A y \in 1..n + 1 : y # q => \E i \in 1..n : y = Moved(q, i)
<1>1. \A y \in 1..n + 1 : y # q => \E i \in 1..n : y = Moved(q, i)
  <2> SUFFICES ASSUME NEW y \in 1..n + 1, y # q PROVE \E i \in 1..n : y = Moved(q, i)
    OBVIOUS
  <2>1. CASE y < q
    BY <2>1 DEF Moved
  <2>2. CASE y > q
    <3>1. y - 1 \in 1..n /\ Moved(q, y - 1) = y
      BY <2>2 DEF Moved
    <3> QED BY <3>1
  <2> QED BY <2>1, <2>2
<1> QED BY <1>1 DEF Moved

\* What may be put before a line: any line but a section line, and that at the end of the file
\* when its name is new.
Addable(f, q, l) ==
  /\ Fits(l)
  /\ l.kind = "section" => /\ q = Len(f) + 1 /\ l.name \notin NoName
                           /\ \A p \in Sections(f) : f[p].name # l.name

\* With one line more a file stays readable, and each line stays under its section.
LEMMA InsertedLines ==
  ASSUME NEW f, Readable(f), NEW g, NEW q, NEW l, Inserted(f, g, q, l), Addable(f, q, l)
  PROVE  /\ Readable(g)
         /\ Sections(g) = {Moved(q, i) : i \in Sections(f)} \cup (IF l.kind = "section" THEN {q} ELSE {})
         /\ \A i \in DOMAIN f : \A s : Under(g, Moved(q, i), s) <=> Under(f, i, s)
<1> DEFINE n == Len(f)
<1>1. /\ f \in Seq(Lines) /\ n \in Nat /\ DOMAIN f = 1..n /\ q \in 1..n + 1
      /\ g \in Seq(Lines) /\ DOMAIN g = 1..n + 1 /\ g[q] = l
      /\ \A i \in 1..n : g[Moved(q, i)] = f[i]
  BY SectionFacts DEF Inserted
<1>2. /\ \A i \in 1..n : Moved(q, i) \in 1..n + 1 /\ Moved(q, i) # q
      /\ \A i, j \in 1..n : i < j <=> Moved(q, i) < Moved(q, j)
      /\ \A i \in 1..n : (i < q <=> Moved(q, i) < q) /\ (i >= q <=> Moved(q, i) > q)
      /\ \A y \in 1..n + 1 : y # q => \E i \in 1..n : y = Moved(q, i)
  BY <1>1, MovedFacts
<1>3. Sections(f) \subseteq 1..n /\ Sections(g) \subseteq 1..n + 1
  BY <1>1 DEF Sections
<1>4. \A i \in 1..n : Moved(q, i) \in Sections(g) <=> i \in Sections(f)
  BY <1>1, <1>2 DEF Sections
<1>5. q \in Sections(g) <=> l.kind = "section"
  BY <1>1 DEF Sections
<1>6. Sections(g) = {Moved(q, i) : i \in Sections(f)} \cup (IF l.kind = "section" THEN {q} ELSE {})
  BY <1>1, <1>2, <1>3, <1>4, <1>5
<1>7. \A y \in Sections(g) : \/ y = q /\ q = n + 1 /\ l.kind = "section"
                             \/ \E i \in Sections(f) : y = Moved(q, i)
  BY <1>5, <1>6 DEF Addable
<1>8. Readable(g)
  <2>1. \A y \in DOMAIN g : Fits(g[y])
    <3>1. \A i \in 1..n : Fits(f[i])
      BY <1>1 DEF Readable
    <3>2. \A y \in 1..n + 1 : y = q \/ \E i \in 1..n : g[y] = f[i]
      BY <1>1, <1>2
    <3> QED BY <1>1, <3>1, <3>2 DEF Addable
  <2>2. \A i \in Sections(f) : f[i].name \notin NoName
    BY DEF Readable
  <2>3. \A i, j \in Sections(f) : f[j].name = f[i].name => i = j
    BY DEF Readable
  <2>4. \A y \in Sections(g) : \/ y = q /\ l.kind = "section"
                               \/ \E i \in Sections(f) : y = Moved(q, i) /\ g[y] = f[i]
    BY <1>1, <1>3, <1>7
  <2>5. \A y \in Sections(g) : g[y].name \notin NoName
    BY <1>1, <2>2, <2>4 DEF Addable
  <2>6. ASSUME NEW y \in Sections(g), NEW z \in Sections(g), g[z].name = g[y].name PROVE y = z
    <3>1. CASE y # q /\ z # q
      BY <2>3, <2>4, <2>6, <3>1
    <3>2. CASE y = q /\ z # q
      BY <1>1, <2>4, <2>6, <3>2, <1>5 DEF Addable
    <3>3. CASE y # q /\ z = q
      BY <1>1, <2>4, <2>6, <3>3, <1>5 DEF Addable
    <3> QED BY <3>1, <3>2, <3>3
  <2> QED BY <1>1, <2>1, <2>5, <2>6 DEF Readable
<1>9. ASSUME NEW i \in 1..n, NEW s PROVE Under(g, Moved(q, i), s) <=> Under(f, i, s)
  <2>1. \A p \in Sections(f) : /\ Moved(q, p) \in Sections(g) /\ g[Moved(q, p)] = f[p]
                               /\ p < i <=> Moved(q, p) < Moved(q, i)
                               /\ p > i <=> Moved(q, p) > Moved(q, i)
    BY <1>1, <1>2, <1>3, <1>4
  <2>2. \A y \in Sections(g) : \/ y = q /\ y > Moved(q, i)
                               \/ \E p \in Sections(f) : y = Moved(q, p)
    <3>1. q = n + 1 => q > Moved(q, i)
      BY <1>1, <1>2
    <3> QED BY <1>7, <3>1
  <2>3. CASE s \in NoName
    BY <2>1, <2>2, <2>3 DEF Under
  <2>4. CASE s \notin NoName
    <3>1. \A p, j \in Sections(f) : Moved(q, j) <= Moved(q, p) <=> j <= p
      BY <1>1, <1>2, <1>3
    <3>2. ASSUME Under(f, i, s) PROVE Under(g, Moved(q, i), s)
      <4>1. PICK p \in Sections(f) : f[p].name = s /\ p < i /\ \A j \in Sections(f) : j <= p \/ j > i
        BY <2>4, <3>2 DEF Under
      <4>2. Moved(q, p) \in Sections(g) /\ g[Moved(q, p)].name = s /\ Moved(q, p) < Moved(q, i)
        BY <2>1, <4>1
      <4>3. \A y \in Sections(g) : y <= Moved(q, p) \/ y > Moved(q, i)
        BY <2>1, <2>2, <3>1, <4>1
      <4> QED BY <2>4, <4>2, <4>3 DEF Under
    <3>3. ASSUME Under(g, Moved(q, i), s) PROVE Under(f, i, s)
      <4>1. PICK y \in Sections(g) : /\ g[y].name = s /\ y < Moved(q, i)
                                     /\ \A z \in Sections(g) : z <= y \/ z > Moved(q, i)
        BY <2>4, <3>3 DEF Under
      <4>2. PICK p \in Sections(f) : y = Moved(q, p)
        BY <1>1, <1>2, <1>3, <2>2, <4>1
      <4>3. f[p].name = s /\ p < i
        BY <2>1, <4>1, <4>2
      <4>4. \A j \in Sections(f) : j <= p \/ j > i
        BY <2>1, <3>1, <4>1, <4>2
      <4> QED BY <2>4, <4>3, <4>4 DEF Under
    <3> QED BY <3>2, <3>3
  <2> QED BY <2>3, <2>4
<1> QED BY <1>1, <1>6, <1>8, <1>9

\* With one line more a file has the same lines of keys, moved, and the new one.
LEMMA InsertedKeys ==
  ASSUME NEW f, Readable(f), NEW g, NEW q, NEW l, Inserted(f, g, q, l), Addable(f, q, l), NEW s
  PROVE  /\ KeyLines(g, s) = {Moved(q, i) : i \in KeyLines(f, s)}
                             \cup {y \in {q} : l.kind = "key" /\ Under(g, q, s)}
         /\ \A k : KeySet(g, s, k) = {Moved(q, i) : i \in KeySet(f, s, k)}
                             \cup {y \in {q} : l.kind = "key" /\ l.name = k /\ Under(g, q, s)}
<1> DEFINE n == Len(f)
<1>1. /\ f \in Seq(Lines) /\ n \in Nat /\ DOMAIN f = 1..n /\ q \in 1..n + 1
      /\ g \in Seq(Lines) /\ DOMAIN g = 1..n + 1 /\ g[q] = l
      /\ \A i \in 1..n : g[Moved(q, i)] = f[i]
  BY SectionFacts DEF Inserted
<1>2. /\ \A i \in 1..n : Moved(q, i) \in 1..n + 1 /\ Moved(q, i) # q
      /\ \A y \in 1..n + 1 : y # q => \E i \in 1..n : y = Moved(q, i)
  BY <1>1, MovedFacts
<1>3. \A i \in DOMAIN f : Under(g, Moved(q, i), s) <=> Under(f, i, s)
  BY InsertedLines
<1>4. \A i \in 1..n : Moved(q, i) \in KeyLines(g, s) <=> i \in KeyLines(f, s)
  BY <1>1, <1>2, <1>3 DEF KeyLines
<1>5. KeyLines(g, s) \subseteq 1..n + 1 /\ KeyLines(f, s) \subseteq 1..n
      /\ (q \in KeyLines(g, s) <=> l.kind = "key" /\ Under(g, q, s))
  BY <1>1 DEF KeyLines
<1>6. KeyLines(g, s) = {Moved(q, i) : i \in KeyLines(f, s)}
                       \cup {y \in {q} : l.kind = "key" /\ Under(g, q, s)}
  BY <1>1, <1>2, <1>4, <1>5
<1>7. ASSUME NEW k
      PROVE  KeySet(g, s, k) = {Moved(q, i) : i \in KeySet(f, s, k)}
                             \cup {y \in {q} : l.kind = "key" /\ l.name = k /\ Under(g, q, s)}
  <2>1. \A i \in 1..n : Moved(q, i) \in KeySet(g, s, k) <=> i \in KeySet(f, s, k)
    BY <1>1, <1>4 DEF KeySet
  <2>2. KeySet(g, s, k) \subseteq 1..n + 1 /\ KeySet(f, s, k) \subseteq 1..n
        /\ (q \in KeySet(g, s, k) <=> l.kind = "key" /\ l.name = k /\ Under(g, q, s))
    BY <1>1, <1>5 DEF KeySet
  <2> QED BY <1>1, <1>2, <2>1, <2>2
<1> QED BY <1>6, <1>7

\* What is read is the value of the first of these lines.
LEMMA GetsIs ==
  ASSUME NEW f, Readable(f), NEW s, NEW k
  PROVE  /\ KeySet(f, s, k) = {} => \A d : ini_gets(f, s, k, d) = d
         /\ \A i \in KeySet(f, s, k) : (\A j \in KeySet(f, s, k) : i <= j)
               => /\ getkeystring(f, s, k) = i
                  /\ \A d : ini_gets(f, s, k, d) = cleanstring(f[i])
         /\ KeySet(f, s, k) # {} => \E i \in KeySet(f, s, k) : \A j \in KeySet(f, s, k) : i <= j
         /\ KeySet(f, s, k) \subseteq 1..Len(f)
<1>1. getkeystring(f, s, k) = First(KeySet(f, s, k)) /\ KeySet(f, s, k) \subseteq Nat \ {0}
  BY GetIs
<1>2. KeySet(f, s, k) \subseteq 1..Len(f) /\ Len(f) \in Nat
  BY SectionFacts DEF KeySet, KeyLines
<1>3. CASE KeySet(f, s, k) = {}
  <2>1. getkeystring(f, s, k) = 0
    BY <1>1, <1>3, FirstFacts
  <2> QED BY <1>3, <2>1 DEF ini_gets
<1>4. CASE KeySet(f, s, k) # {}
  <2>1. PICK m : m = getkeystring(f, s, k)
    OBVIOUS
  <2>2. m \in KeySet(f, s, k) /\ \A j \in KeySet(f, s, k) : m <= j
    BY <1>1, <1>4, <2>1, FirstFacts
  <2>3. \A d : ini_gets(f, s, k, d) = cleanstring(f[m])
    BY <1>1, <2>1, <2>2 DEF ini_gets
  <2>4. \A i \in KeySet(f, s, k) : (\A j \in KeySet(f, s, k) : i <= j) => i = m
    BY <1>1, <2>2
  <2> QED BY <1>2, <2>1, <2>2, <2>3, <2>4
<1> QED BY <1>3, <1>4

\* ini_gets reads the value of a key that was inserted, and of every other key what it read before.
LEMMA InsertedGets ==
  ASSUME NEW f, Readable(f), NEW g, NEW q, NEW l, Inserted(f, g, q, l), Addable(f, q, l), NEW s, NEW k
  PROVE  /\ ~(l.kind = "key" /\ l.name = k /\ Under(g, q, s)) =>
              \A d : ini_gets(g, s, k, d) = ini_gets(f, s, k, d)
         /\ l.kind = "key" /\ l.name = k /\ Under(g, q, s) /\ KeySet(f, s, k) = {} =>
              \A d : ini_gets(g, s, k, d) = cleanstring(l)
<1> DEFINE n == Len(f)
           S == KeySet(f, s, k)
           T == KeySet(g, s, k)
<1>1. /\ n \in Nat /\ DOMAIN f = 1..n /\ q \in 1..n + 1 /\ g[q] = l /\ Len(g) = n + 1
      /\ \A i \in 1..n : g[Moved(q, i)] = f[i]
  BY SectionFacts DEF Inserted
<1>2. \A i, j \in 1..n : i < j <=> Moved(q, i) < Moved(q, j)
  BY <1>1, MovedFacts
<1>3. Readable(g)
  BY InsertedLines
<1>4. T = {Moved(q, i) : i \in S} \cup {y \in {q} : l.kind = "key" /\ l.name = k /\ Under(g, q, s)}
  BY InsertedKeys
<1>5. S \subseteq 1..n /\ T \subseteq 1..n + 1
  BY <1>1, <1>3, GetsIs
<1> HIDE DEF n
<1>6. ASSUME ~(l.kind = "key" /\ l.name = k /\ Under(g, q, s)), NEW d
      PROVE  ini_gets(g, s, k, d) = ini_gets(f, s, k, d)
  <2>1. T = {Moved(q, i) : i \in S}
    BY <1>4, <1>6
  <2>2. CASE S = {}
    <3>1. T = {}
      BY <2>1, <2>2
    <3>2. ini_gets(f, s, k, d) = d
      BY <2>2, GetsIs
    <3>3. ini_gets(g, s, k, d) = d
      BY <1>3, <3>1, GetsIs
    <3> QED BY <3>2, <3>3
  <2>3. CASE S # {}
    <3>1. PICK i \in S : \A j \in S : i <= j
      BY <2>3, GetsIs
    <3>2. Moved(q, i) \in T
      BY <2>1, <3>1
    <3>3. \A y \in T : Moved(q, i) <= y
      <4>1. \A j \in S : Moved(q, i) <= Moved(q, j)
        <5> SUFFICES ASSUME NEW j \in S PROVE Moved(q, i) <= Moved(q, j)
          OBVIOUS
        <5>1. i \in 1..n /\ j \in 1..n /\ i <= j
          BY <1>5, <3>1
        <5> QED BY <1>1, <5>1 DEF Moved
      <4> QED BY <2>1, <4>1
    <3>4. ini_gets(f, s, k, d) = cleanstring(f[i])
      BY <3>1, GetsIs
    <3>5. ini_gets(g, s, k, d) = cleanstring(g[Moved(q, i)])
      BY <1>3, <3>2, <3>3, GetsIs
    <3>6. g[Moved(q, i)] = f[i]
      BY <1>1, <1>5, <3>1
    <3> QED BY <3>4, <3>5, <3>6
  <2> QED BY <2>2, <2>3
<1>7. ASSUME l.kind = "key" /\ l.name = k /\ Under(g, q, s) /\ S = {}, NEW d
      PROVE  ini_gets(g, s, k, d) = cleanstring(l)
  <2>1. T = {q} /\ q <= q
    BY <1>1, <1>4, <1>7
  <2>2. ini_gets(g, s, k, d) = cleanstring(g[q])
    BY <1>3, <2>1, GetsIs
  <2> QED BY <1>1, <2>2
<1> QED BY <1>6, <1>7

\* ini_gets reads the value of a line that was replaced, and of every other key what it read before.
LEMMA ReplacedGets ==
  ASSUME NEW f, Readable(f), NEW g, NEW q, NEW l, Replaced(f, g, q, l), Fits(l), NEW s, NEW k
  PROVE  /\ q \notin KeySet(f, s, k) \/ cleanstring(l) = cleanstring(f[q])
              => \A d : ini_gets(g, s, k, d) = ini_gets(f, s, k, d)
         /\ q \in KeySet(f, s, k) /\ (\A j \in KeySet(f, s, k) : q <= j) =>
              \A d : ini_gets(g, s, k, d) = cleanstring(l)
<1>1. Readable(g) /\ KeySet(g, s, k) = KeySet(f, s, k)
  BY ReplacedLines
<1>2. g[q] = l /\ \A i \in KeySet(f, s, k) : i # q => g[i] = f[i]
  BY GetsIs DEF Replaced
<1>3. ASSUME q \notin KeySet(f, s, k) \/ cleanstring(l) = cleanstring(f[q]), NEW d
      PROVE  ini_gets(g, s, k, d) = ini_gets(f, s, k, d)
  <2>1. CASE KeySet(f, s, k) = {}
    <3>1. ini_gets(f, s, k, d) = d
      BY <2>1, GetsIs
    <3>2. ini_gets(g, s, k, d) = d
      BY <1>1, <2>1, GetsIs
    <3> QED BY <3>1, <3>2
  <2>2. CASE KeySet(f, s, k) # {}
    <3>1. PICK i \in KeySet(f, s, k) : \A j \in KeySet(f, s, k) : i <= j
      BY <2>2, GetsIs
    <3>2. ini_gets(f, s, k, d) = cleanstring(f[i])
      BY <3>1, GetsIs
    <3>3. ini_gets(g, s, k, d) = cleanstring(g[i])
      BY <1>1, <3>1, GetsIs
    <3> QED BY <1>2, <1>3, <3>1, <3>2, <3>3
  <2> QED BY <2>1, <2>2
<1>4. ASSUME q \in KeySet(f, s, k), \A j \in KeySet(f, s, k) : q <= j, NEW d
      PROVE  ini_gets(g, s, k, d) = cleanstring(l)
  <2>1. ini_gets(g, s, k, d) = cleanstring(g[q])
    BY <1>1, <1>4, GetsIs
  <2> QED BY <1>2, <2>1
<1> QED BY <1>3, <1>4

(***************************************************************************)
(* The n-th of a set of lines, when lines move up.                         *)
(***************************************************************************)
Below(S, i) == {j \in S : j < i}

\* The lines of a set before one of them can be counted.
LEMMA BelowFinite ==
  ASSUME NEW n \in Nat, NEW S, S \subseteq 1..n, NEW i
  PROVE  IsFiniteSet(Below(S, i)) /\ Cardinality(Below(S, i)) \in Nat
<1>1. IsFiniteSet(1..n)
  BY FS_Interval
<1>2. Below(S, i) \subseteq 1..n
  BY DEF Below
<1>3. IsFiniteSet(Below(S, i))
  BY <1>1, <1>2, FS_Subset
<1> QED BY <1>3, FS_CardinalityType

\* A later line of a set has more lines of the set before it.
LEMMA BelowGrows ==
  ASSUME NEW n \in Nat, NEW S, S \subseteq 1..n, NEW i \in S, NEW j \in S, i < j
  PROVE  Cardinality(Below(S, i)) < Cardinality(Below(S, j))
<1> DEFINE A == Below(S, i)
           C == Below(S, j)
<1>1. IsFiniteSet(C) /\ Cardinality(C) \in Nat /\ Cardinality(A) \in Nat
  BY BelowFinite
<1>2. A \subseteq C /\ A # C
  <2>1. i \in C /\ i \notin A
    BY DEF Below
  <2>2. \A x \in S : x \in Int
    OBVIOUS
  <2>3. A \subseteq C
    <3> SUFFICES ASSUME NEW x, x \in A PROVE x \in C
      OBVIOUS
    <3>1. x \in S /\ x < i
      BY DEF Below
    <3>2. x < j
      BY <2>2, <3>1
    <3> QED BY <3>1, <3>2 DEF Below
  <2> QED BY <2>1, <2>3
<1> HIDE DEF A, C
<1>3. Cardinality(A) <= Cardinality(C) /\ Cardinality(A) # Cardinality(C)
  BY <1>1, <1>2, FS_Subset
<1>4. Cardinality(A) < Cardinality(C)
  BY <1>1, <1>3
<1> QED BY <1>4 DEF A, C

\* The place of i among S, and what Nth finds.
LEMMA NthIs ==
  ASSUME NEW n \in Nat, NEW S, S \subseteq 1..n, NEW k
  PROVE  /\ \A i \in S : Cardinality(Below(S, i)) = k => Nth(S, k) = i
         /\ Nth(S, k) # 0 => Nth(S, k) \in S /\ Cardinality(Below(S, Nth(S, k))) = k
<1> DEFINE A == {i \in S : Cardinality(Below(S, i)) = k}
<1>1. Nth(S, k) = First(A)
  BY DEF Nth, Below
<1>2. A \subseteq Nat \ {0}
  <2>1. \A x \in S : x \in Nat \ {0}
    OBVIOUS
  <2> QED BY <2>1
<1>3. \A i, j \in A : i = j
  <2> SUFFICES ASSUME NEW i \in A, NEW j \in A, i < j PROVE FALSE
    BY <1>2
  <2>1. i \in S /\ j \in S /\ Cardinality(Below(S, i)) = Cardinality(Below(S, j))
    OBVIOUS
  <2>2. Cardinality(Below(S, i)) < Cardinality(Below(S, j))
    BY <2>1, BelowGrows
  <2>3. Cardinality(Below(S, i)) \in Nat
    BY BelowFinite
  <2> QED BY <2>1, <2>2, <2>3
<1>4. \A i \in A : First(A) = i
  <2> HIDE DEF A
  <2> QED BY <1>2, <1>3, FirstFacts
<1>5. First(A) # 0 => First(A) \in A
  <2> HIDE DEF A
  <2> QED BY <1>2, FirstFacts
<1> QED BY <1>1, <1>4, <1>5

\* The lines of S among 1..n, moved by the insertion at q, and those of E behind them.
MovedUp(n, S, T, E, q) == /\ n \in Nat /\ q \in 1..n + 1 /\ S \subseteq 1..n
                         /\ E \subseteq {q} /\ T = {Moved(q, i) : i \in S} \cup E
                         /\ \A y \in E, i \in S : i < y

\* The line with number k of a set keeps its number when lines are inserted behind the set.
LEMMA NthMoved ==
  ASSUME NEW n, NEW q, NEW S, NEW T, NEW E, MovedUp(n, S, T, E, q), NEW k, Nth(S, k) # 0
  PROVE  Nth(S, k) \in S /\ Nth(T, k) = Moved(q, Nth(S, k))
<1> /\ n \in Nat /\ q \in 1..n + 1 /\ S \subseteq 1..n
    /\ E \subseteq {q} /\ T = {Moved(q, i) : i \in S} \cup E /\ \A y \in E, i \in S : i < y
  BY DEF MovedUp
<1>1. PICK i : i = Nth(S, k)
  OBVIOUS
<1>2. i \in S /\ Cardinality(Below(S, i)) = k
  BY <1>1, NthIs
<1>3. PICK y : y = Moved(q, i)
  OBVIOUS
<1>4. /\ \A x \in 1..n : Moved(q, x) \in 1..n + 1 /\ Moved(q, x) # q
      /\ \A x, j \in 1..n : x < j <=> Moved(q, x) < Moved(q, j)
      /\ \A x \in 1..n : x < q <=> Moved(q, x) < q
  BY MovedFacts
<1>5. T \subseteq 1..n + 1 /\ y \in T
  BY <1>2, <1>3, <1>4
<1>6. \A z \in E : ~(z < y)
  <2> SUFFICES ASSUME NEW z \in E, z < y PROVE FALSE
    OBVIOUS
  <2>1. z = q /\ i < q /\ i \in 1..n
    BY <1>2
  <2> QED BY <1>3, <1>4, <2>1
<1> DEFINE X == Below(S, i)
           Y == Below(T, y)
           h == [x \in X |-> Moved(q, x)]
<1>7. \A x \in S : Moved(q, x) < y <=> x < i
  BY <1>2, <1>3, <1>4
<1>8. Y = {Moved(q, x) : x \in X}
  BY <1>6, <1>7 DEF Below
<1>9. X \subseteq 1..n
  BY DEF Below
<1>10. ExistsBijection(X, Y)
  <2>1. \A x, z \in X : Moved(q, x) = Moved(q, z) => x = z
    BY <1>9 DEF Moved
  <2>2. h \in [X -> Y]
    BY <1>8
  <2>3. h \in Injection(X, Y)
    BY <2>1, <2>2 DEF Injection, IsInjective
  <2>4. h \in Surjection(X, Y)
    BY <1>8, <2>2 DEF Surjection
  <2> HIDE DEF h, X, Y
  <2>5. h \in Bijection(X, Y)
    BY <2>3, <2>4 DEF Bijection
  <2> QED BY <2>5 DEF ExistsBijection
<1>11. Cardinality(Y) = Cardinality(X)
  <2>1. IsFiniteSet(X)
    <3>1. IsFiniteSet(1..n)
      BY FS_Interval
    <3> QED BY <1>9, <3>1, FS_Subset
  <2> HIDE DEF X, Y
  <2> QED BY <1>10, <2>1, FS_Bijection
<1>12. Cardinality(Below(T, y)) = k
  BY <1>2, <1>11
<1>13. Nth(T, k) = y
  <2> HIDE DEF X, Y, h
  <2>1. n + 1 \in Nat
    OBVIOUS
  <2> QED BY <1>5, <1>12, <2>1, NthIs
<1> QED BY <1>1, <1>2, <1>3, <1>13

(***************************************************************************)
(* What ini_browse calls back with.                                        *)
(***************************************************************************)
\* The section that ini_browse names for line i.
SectionName(f, i) ==
  LET S == {j \in Sections(f) : j <= i} IN IF S = {} THEN "" ELSE f[Max(S)].name

\* ini_browse names the section a line is under.
LEMMA SectionNameIs ==
  ASSUME NEW f, Readable(f), NEW i \in DOMAIN f, f[i].kind = "key"
  PROVE  SectionName(f, i) \in STRING /\ Under(f, i, SectionName(f, i))
<1> DEFINE S == {j \in Sections(f) : j <= i}
<1>1. /\ Len(f) \in Nat /\ i \in 1..Len(f) /\ Sections(f) \subseteq 1..Len(f)
      /\ \A j \in 1..Len(f) : f[j] \in Lines
  BY SectionFacts
<1>2. i \notin Sections(f)
  BY DEF Sections
<1>3. S = {} => SectionName(f, i) \in STRING /\ SectionName(f, i) \in NoName
  <2>1. "" \in NoName /\ "" \in STRING
    BY IniAssumption, Zenon DEF NoName
  <2> QED BY <2>1, Zenon DEF SectionName
<1>4. S # {} => SectionName(f, i) = f[Max(S)].name
  BY Zenon DEF SectionName
<1>5. CASE S = {}
  <2>1. \A j \in Sections(f) : j > i
    BY <1>1, <1>5
  <2> QED BY <1>3, <1>5, <2>1 DEF Under
<1>6. CASE S # {}
  <2>1. S \subseteq 0..Len(f)
    BY <1>1
  <2>2. \E m \in S : \A t \in S : t <= m
    <3> HIDE DEF S
    <3> QED BY <1>1, <1>6, <2>1, Greatest
  <2>3. Max(S) \in S /\ \A t \in S : t <= Max(S)
    <3> HIDE DEF S
    <3> QED BY <2>2 DEF Max
  <2>4. PICK m : m = Max(S)
    OBVIOUS
  <2>5. m \in Sections(f) /\ m <= i /\ m # i /\ \A j \in Sections(f) : j <= m \/ ~(j <= i)
    BY <1>2, <2>3, <2>4
  <2>6. m < i /\ \A j \in Sections(f) : j <= m \/ j > i
    BY <1>1, <2>5
  <2>7. f[m].name \in STRING /\ f[m].name \notin NoName
    <3>1. f[m] \in Lines
      BY <1>1, <2>5
    <3>2. f[m].name \notin NoName
      BY <2>5 DEF Readable
    <3> QED BY <3>1, <3>2 DEF Lines
  <2>8. SectionName(f, i) = f[m].name
    BY <1>4, <1>6, <2>4
  <2> QED BY <2>5, <2>6, <2>7, <2>8 DEF Under
<1> QED BY <1>5, <1>6

\* What ini_browse calls back with.
LEMMA BrowseIs ==
  ASSUME NEW f, Readable(f), NEW b
  PROVE  b \in ini_browse(f) <=>
           \E s \in STRING : \E i \in KeyLines(f, s) : b = <<s, f[i].name, cleanstring(f[i])>>
<1>1. b \in ini_browse(f) <=> \E i \in {j \in DOMAIN f : f[j].kind = "key"} :
                                b = <<SectionName(f, i), f[i].name, cleanstring(f[i])>>
  BY Zenon DEF ini_browse, SectionName
<1>2. ASSUME NEW i \in DOMAIN f, f[i].kind = "key"
      PROVE  SectionName(f, i) \in STRING /\ i \in KeyLines(f, SectionName(f, i))
  BY <1>2, SectionNameIs DEF KeyLines
<1>3. ASSUME NEW s \in STRING, NEW i \in KeyLines(f, s)
      PROVE  i \in DOMAIN f /\ f[i].kind = "key" /\ SectionName(f, i) = s
  <2>1. i \in DOMAIN f /\ f[i].kind = "key" /\ Under(f, i, s)
    BY DEF KeyLines
  <2> QED BY <2>1, SectionNameIs, UnderOne
<1> QED BY <1>1, <1>2, <1>3

\* Every key that ini_browse reports is found, and so is its section.
LEMMA BrowsedIsFound ==
  ASSUME NEW f, Readable(f), NEW b \in ini_browse(f)
  PROVE  ini_haskey(f, b[1], b[2]) /\ ini_hassection(f, b[1])
<1>0. PICK s \in STRING : \E i \in KeyLines(f, s) : b = <<s, f[i].name, cleanstring(f[i])>>
  BY BrowseIs
<1>1. PICK i \in KeyLines(f, s) : b = <<s, f[i].name, cleanstring(f[i])>>
  BY <1>0
<1>2. b[1] = s /\ b[2] = f[i].name
  BY <1>1
<1>3. KeyLines(f, s) \subseteq 1..Len(f) /\ Len(f) \in Nat
  BY SectionFacts, GetIs
<1>4. getkeystring(f, s, f[i].name) # 0
  <2>1. i \in KeySet(f, s, f[i].name) /\ KeySet(f, s, f[i].name) \subseteq 1..Len(f)
    BY <1>1, GetsIs DEF KeySet
  <2>2. PICK j \in KeySet(f, s, f[i].name) : getkeystring(f, s, f[i].name) = j
    BY <2>1, GetsIs
  <2> QED BY <1>3, <2>1, <2>2
<1>5. KeyNo(f, s, 0) # 0
  <2>1. PICK K : K = KeyLines(f, s)
    OBVIOUS
  <2>2. K \subseteq 1..Len(f) /\ K # {} /\ K \subseteq Nat
    BY <1>1, <1>3, <2>1
  <2>3. PICK m \in K : \A j \in K : m <= j
    BY <2>2, Least
  <2>4. Below(K, m) = {}
    <3>1. \A j \in K : ~(j < m)
      <4>1. \A x, y \in Nat : x <= y => ~(y < x)
        OBVIOUS
      <4> QED BY <2>2, <2>3, <4>1
    <3> QED BY <3>1 DEF Below
  <2>5. Cardinality(Below(K, m)) = 0
    BY <2>4, FS_EmptySet
  <2>6. Nth(K, 0) = m
    BY <1>3, <2>2, <2>3, <2>5, NthIs
  <2>7. KeyNo(f, s, 0) = Nth(K, 0)
    BY <2>1, GetIs
  <2>8. m # 0
    BY <1>3, <2>2, <2>3
  <2> QED BY <2>6, <2>7, <2>8
<1> QED BY <1>2, <1>4, <1>5 DEF ini_haskey, ini_hassection

(***************************************************************************)
(* What a reader of the file sees of a change.                             *)
(***************************************************************************)
\* The n-th section and the n-th key of s stay what they are.
NthKept(f, g, s) ==
  \A n : /\ SectionNo(f, n) # 0 => SectionNo(g, n) # 0 /\ g[SectionNo(g, n)].name = f[SectionNo(f, n)].name
         /\ KeyNo(f, s, n) # 0 => KeyNo(g, s, n) # 0 /\ g[KeyNo(g, s, n)].name = f[KeyNo(f, s, n)].name

\* Every pair but section s, key k is read in g as it is in f, in every way.
Others(f, s, k) == {b \in ini_browse(f) : <<b[1], b[2]>> # <<s, k>>}
Keeps(f, g, s, k) ==
  /\ Readable(g) /\ Others(g, s, k) = Others(f, s, k) /\ NthKept(f, g, s)
  /\ \A t, n, d : <<t, n>> # <<s, k>> => ini_gets(g, t, n, d) = ini_gets(f, t, n, d)

\* Two changes that keep the rest of a file keep it together.
LEMMA KeepsTransitive ==
  ASSUME NEW f, NEW e, NEW g, NEW s, NEW k, Keeps(f, e, s, k), Keeps(e, g, s, k)
  PROVE  Keeps(f, g, s, k)
<1>1. NthKept(f, g, s)
  <2>1. NthKept(f, e, s) /\ NthKept(e, g, s)
    BY DEF Keeps
  <2> QED BY <2>1 DEF NthKept
<1>2. Readable(g) /\ Others(g, s, k) = Others(f, s, k)
  BY DEF Keeps
<1>3. \A t, n, d : <<t, n>> # <<s, k>> => ini_gets(g, t, n, d) = ini_gets(f, t, n, d)
  BY DEF Keeps
<1> QED BY <1>1, <1>2, <1>3 DEF Keeps

\* What ini_browse reports but the pair, by the lines of the keys.
LEMMA OthersIs ==
  ASSUME NEW f, Readable(f), NEW s, NEW k, NEW b
  PROVE  b \in Others(f, s, k) <=>
           \E t \in STRING : \E i \in KeyLines(f, t) :
             b = <<t, f[i].name, cleanstring(f[i])>> /\ <<t, f[i].name>> # <<s, k>>
BY BrowseIs DEF Others

\* Replacing the line of a key keeps all other keys, their numbers and the sections.
LEMMA ReplacedKeeps ==
  ASSUME NEW f, Readable(f), NEW s \in STRING \ NoName, NEW k, NEW g, NEW q, NEW l,
         Replaced(f, g, q, l), Fits(l),
         q \in KeySet(f, s, k) \/ cleanstring(l) = cleanstring(f[q])
  PROVE  Keeps(f, g, s, k)
<1>1. /\ Readable(g) /\ Sections(g) = Sections(f) /\ DOMAIN g = DOMAIN f
      /\ \A i \in DOMAIN f : g[i].kind = f[i].kind /\ g[i].name = f[i].name
      /\ \A t : KeyLines(g, t) = KeyLines(f, t)
  BY ReplacedLines
<1>2. g[q] = l /\ \A i \in DOMAIN f : i # q => g[i] = f[i]
  BY SectionFacts DEF Replaced
<1>3. \A t : t # s /\ q \in KeySet(f, s, k) => q \notin KeyLines(f, t)
  <2> SUFFICES ASSUME NEW t, q \in KeySet(f, s, k), q \in KeyLines(f, t) PROVE t = s
    OBVIOUS
  <2>1. q \in DOMAIN f /\ Under(f, q, s) /\ Under(f, q, t)
    BY DEF KeySet, KeyLines
  <2> QED BY <2>1, UnderOne
<1>4. \A t, i : i \in KeyLines(f, t) => i \in DOMAIN f
  BY DEF KeyLines
<1>5. ASSUME NEW t, NEW n, NEW d, <<t, n>> # <<s, k>> PROVE ini_gets(g, t, n, d) = ini_gets(f, t, n, d)
  <2>1. q \notin KeySet(f, t, n) \/ cleanstring(l) = cleanstring(f[q])
    <3>1. CASE t = s
      BY <1>5, <3>1 DEF KeySet
    <3>2. CASE t # s
      BY <1>3, <3>2 DEF KeySet
    <3> QED BY <3>1, <3>2
  <2> QED BY <2>1, ReplacedGets
<1>6. \A t, i : i \in KeyLines(f, t) /\ <<t, f[i].name>> # <<s, k>>
                  => g[i].name = f[i].name /\ cleanstring(g[i]) = cleanstring(f[i])
  <2> SUFFICES ASSUME NEW t, NEW i, i \in KeyLines(f, t), <<t, f[i].name>> # <<s, k>>
               PROVE  g[i].name = f[i].name /\ cleanstring(g[i]) = cleanstring(f[i])
    OBVIOUS
  <2>1. i \in DOMAIN f /\ g[i].name = f[i].name
    BY <1>1, <1>4
  <2>2. CASE i # q
    BY <1>2, <2>1, <2>2
  <2>3. CASE i = q /\ q \in KeySet(f, s, k)
    <3>1. t = s /\ f[i].name = k
      BY <1>3, <2>3 DEF KeySet
    <3> QED BY <3>1
  <2>4. CASE i = q /\ cleanstring(l) = cleanstring(f[q])
    BY <1>2, <2>1, <2>4
  <2> QED BY <2>2, <2>3, <2>4
<1>7. Others(g, s, k) = Others(f, s, k)
  <2>1. \A b : b \in Others(g, s, k) <=>
           \E t \in STRING : \E i \in KeyLines(f, t) :
             b = <<t, g[i].name, cleanstring(g[i])>> /\ <<t, g[i].name>> # <<s, k>>
    BY <1>1, OthersIs
  <2>2. \A b : b \in Others(f, s, k) <=>
           \E t \in STRING : \E i \in KeyLines(f, t) :
             b = <<t, f[i].name, cleanstring(f[i])>> /\ <<t, f[i].name>> # <<s, k>>
    BY OthersIs
  <2>3. \A t, i : i \in KeyLines(f, t) => g[i].name = f[i].name
    BY <1>1, <1>4
  <2>4. \A b : b \in Others(g, s, k) <=> b \in Others(f, s, k)
    BY <1>6, <2>1, <2>2, <2>3
  <2> QED BY <2>4
<1>8. NthKept(f, g, s)
  <2>1. \A n : SectionNo(g, n) = SectionNo(f, n) /\ KeyNo(g, s, n) = KeyNo(f, s, n)
    BY <1>1, GetIs DEF SectionNo
  <2>2. \A n : SectionNo(f, n) # 0 => SectionNo(f, n) \in DOMAIN f
    <3> SUFFICES ASSUME NEW n, SectionNo(f, n) # 0 PROVE SectionNo(f, n) \in DOMAIN f
      OBVIOUS
    <3>1. Len(f) \in Nat /\ Sections(f) \subseteq 1..Len(f) /\ DOMAIN f = 1..Len(f)
      BY SectionFacts
    <3>2. Nth(Sections(f), n) # 0
      BY DEF SectionNo
    <3>3. Nth(Sections(f), n) \in Sections(f)
      BY <3>1, <3>2, NthIs
    <3> QED BY <3>1, <3>3 DEF SectionNo
  <2>3. \A n : KeyNo(f, s, n) # 0 => KeyNo(f, s, n) \in DOMAIN f
    <3> SUFFICES ASSUME NEW n, KeyNo(f, s, n) # 0 PROVE KeyNo(f, s, n) \in DOMAIN f
      OBVIOUS
    <3>1. Len(f) \in Nat /\ DOMAIN f = 1..Len(f)
      BY SectionFacts
    <3>2. KeyNo(f, s, n) = Nth(KeyLines(f, s), n) /\ KeyLines(f, s) \subseteq 1..Len(f)
      BY GetIs
    <3>3. Nth(KeyLines(f, s), n) # 0
      BY <3>2
    <3>4. Nth(KeyLines(f, s), n) \in KeyLines(f, s)
      BY <3>1, <3>2, <3>3, NthIs
    <3> QED BY <3>1, <3>2, <3>4
  <2> QED BY <1>1, <2>1, <2>2, <2>3 DEF NthKept
<1> QED BY <1>1, <1>5, <1>7, <1>8 DEF Keeps

\* Inserting the line of a key behind the keys of its section keeps all others, their numbers and the sections.
LEMMA InsertedKeeps ==
  ASSUME NEW f, Readable(f), NEW s \in STRING \ NoName, NEW k, NEW g, NEW q, NEW l,
         Inserted(f, g, q, l), Addable(f, q, l),
         l.kind = "key" => l.name = k /\ Under(g, q, s) /\ \A i \in KeyLines(f, s) : i < q
  PROVE  Keeps(f, g, s, k)
<1>1. /\ Len(f) \in Nat /\ DOMAIN f = 1..Len(f) /\ Sections(f) \subseteq 1..Len(f)
      /\ q \in 1..Len(f) + 1 /\ q \in DOMAIN g /\ g[q] = l /\ \A i \in 1..Len(f) : g[Moved(q, i)] = f[i]
  BY SectionFacts DEF Inserted
<1>2. /\ Readable(g)
      /\ Sections(g) = {Moved(q, i) : i \in Sections(f)} \cup (IF l.kind = "section" THEN {q} ELSE {})
  BY InsertedLines
<1>3. \A t : l.kind = "key" /\ Under(g, q, t) => t = s
  BY <1>1, <1>2, UnderOne
<1>4. \A t : KeyLines(g, t) = {Moved(q, i) : i \in KeyLines(f, t)}
                              \cup {y \in {q} : l.kind = "key" /\ Under(g, q, t)}
  BY InsertedKeys
<1>5. \A t : KeyLines(f, t) \subseteq 1..Len(f)
  BY GetIs
<1>6. ASSUME NEW t, NEW n, NEW d, <<t, n>> # <<s, k>> PROVE ini_gets(g, t, n, d) = ini_gets(f, t, n, d)
  <2>1. ~(l.kind = "key" /\ l.name = n /\ Under(g, q, t))
    BY <1>3, <1>6
  <2> QED BY <2>1, InsertedGets
<1>7. Others(g, s, k) = Others(f, s, k)
  <2>1. \A b : b \in Others(g, s, k) <=>
           \E t \in STRING : \E i \in KeyLines(g, t) :
             b = <<t, g[i].name, cleanstring(g[i])>> /\ <<t, g[i].name>> # <<s, k>>
    BY <1>2, OthersIs
  <2>2. \A b : b \in Others(f, s, k) <=>
           \E t \in STRING : \E i \in KeyLines(f, t) :
             b = <<t, f[i].name, cleanstring(f[i])>> /\ <<t, f[i].name>> # <<s, k>>
    BY OthersIs
  <2>3. ASSUME NEW b, b \in Others(g, s, k) PROVE b \in Others(f, s, k)
    <3>1. PICK t \in STRING : \E i \in KeyLines(g, t) :
             b = <<t, g[i].name, cleanstring(g[i])>> /\ <<t, g[i].name>> # <<s, k>>
      BY <2>1, <2>3
    <3>2. PICK y \in KeyLines(g, t) : b = <<t, g[y].name, cleanstring(g[y])>> /\ <<t, g[y].name>> # <<s, k>>
      BY <3>1
    <3>3. ~(y = q /\ l.kind = "key" /\ Under(g, q, t))
      BY <1>1, <1>3, <3>2
    <3>4. PICK i \in KeyLines(f, t) : y = Moved(q, i)
      BY <1>4, <3>2, <3>3
    <3>5. g[y] = f[i]
      BY <1>1, <1>5, <3>4
    <3> QED BY <2>2, <3>2, <3>4, <3>5
  <2>4. ASSUME NEW b, b \in Others(f, s, k) PROVE b \in Others(g, s, k)
    <3>1. PICK t \in STRING : \E i \in KeyLines(f, t) :
             b = <<t, f[i].name, cleanstring(f[i])>> /\ <<t, f[i].name>> # <<s, k>>
      BY <2>2, <2>4
    <3>2. PICK i \in KeyLines(f, t) : b = <<t, f[i].name, cleanstring(f[i])>> /\ <<t, f[i].name>> # <<s, k>>
      BY <3>1
    <3>3. Moved(q, i) \in KeyLines(g, t)
      BY <1>4, <3>2
    <3>4. g[Moved(q, i)] = f[i]
      BY <1>1, <1>5, <3>2
    <3> QED BY <2>1, <3>2, <3>3, <3>4
  <2> QED BY <2>3, <2>4
<1>8. ASSUME NEW n, SectionNo(f, n) # 0
      PROVE  SectionNo(g, n) # 0 /\ g[SectionNo(g, n)].name = f[SectionNo(f, n)].name
  <2> DEFINE E == IF l.kind = "section" THEN {q} ELSE {}
  <2>1. E \subseteq {q} /\ \A y \in E, i \in Sections(f) : i < y
    <3>1. l.kind = "section" => q = Len(f) + 1
      BY DEF Addable
    <3> QED BY <1>1, <3>1
  <2>2. Sections(g) = {Moved(q, i) : i \in Sections(f)} \cup E
    BY <1>2
  <2> HIDE DEF E
  <2>3. SectionNo(f, n) \in Sections(f) /\ SectionNo(g, n) = Moved(q, SectionNo(f, n))
    <3>1. Nth(Sections(f), n) # 0
      BY <1>8 DEF SectionNo
    <3>2. Len(f) \in Nat /\ q \in 1..Len(f) + 1 /\ Sections(f) \subseteq 1..Len(f)
      BY <1>1
    <3>3. Nth(Sections(f), n) \in Sections(f) /\ Nth(Sections(g), n) = Moved(q, Nth(Sections(f), n))
      <4>1. PICK S, T : S = Sections(f) /\ T = Sections(g)
        OBVIOUS
      <4>2. MovedUp(Len(f), S, T, E, q)
        BY <2>1, <2>2, <3>2, <4>1 DEF MovedUp
      <4>3. Nth(S, n) # 0
        BY <3>1, <4>1
      <4>4. Nth(S, n) \in S /\ Nth(T, n) = Moved(q, Nth(S, n))
        BY <4>2, <4>3, NthMoved
      <4> QED BY <4>1, <4>4
    <3> QED BY <3>3 DEF SectionNo
  <2>4. g[SectionNo(g, n)] = f[SectionNo(f, n)]
    BY <1>1, <2>3
  <2>5. SectionNo(g, n) # 0
    BY <1>1, <2>3 DEF Moved
  <2> QED BY <2>4, <2>5
<1>9. ASSUME NEW n, KeyNo(f, s, n) # 0
      PROVE  KeyNo(g, s, n) # 0 /\ g[KeyNo(g, s, n)].name = f[KeyNo(f, s, n)].name
  <2> DEFINE E == {y \in {q} : l.kind = "key" /\ Under(g, q, s)}
  <2>1. E \subseteq {q} /\ \A y \in E, i \in KeyLines(f, s) : i < y
    OBVIOUS
  <2>2. KeyLines(g, s) = {Moved(q, i) : i \in KeyLines(f, s)} \cup E
    BY <1>4
  <2> HIDE DEF E
  <2>3. KeyNo(f, s, n) = Nth(KeyLines(f, s), n) /\ KeyNo(g, s, n) = Nth(KeyLines(g, s), n)
    BY <1>2, GetIs
  <2>4. KeyNo(f, s, n) \in KeyLines(f, s) /\ KeyNo(g, s, n) = Moved(q, KeyNo(f, s, n))
    <3>1. Nth(KeyLines(f, s), n) # 0
      BY <1>9, <2>3
    <3>2. Len(f) \in Nat /\ q \in 1..Len(f) + 1 /\ KeyLines(f, s) \subseteq 1..Len(f)
      BY <1>1, <1>5
    <3>3. Nth(KeyLines(f, s), n) \in KeyLines(f, s)
          /\ Nth(KeyLines(g, s), n) = Moved(q, Nth(KeyLines(f, s), n))
      <4>1. PICK S, T : S = KeyLines(f, s) /\ T = KeyLines(g, s)
        OBVIOUS
      <4>2. MovedUp(Len(f), S, T, E, q)
        BY <2>1, <2>2, <3>2, <4>1 DEF MovedUp
      <4>3. Nth(S, n) # 0
        BY <3>1, <4>1
      <4>4. Nth(S, n) \in S /\ Nth(T, n) = Moved(q, Nth(S, n))
        BY <4>2, <4>3, NthMoved
      <4> QED BY <4>1, <4>4
    <3> QED BY <2>3, <3>3
  <2>5. g[KeyNo(g, s, n)] = f[KeyNo(f, s, n)] /\ KeyNo(f, s, n) \in 1..Len(f)
    BY <1>1, <1>5, <2>4
  <2>6. KeyNo(g, s, n) # 0
    BY <1>1, <2>4, <2>5 DEF Moved
  <2> QED BY <2>5, <2>6
<1> QED BY <1>2, <1>6, <1>7, <1>8, <1>9 DEF Keeps, NthKept

(***************************************************************************)
(* A put: what the file says afterwards.                                   *)
(***************************************************************************)
\* The place q of f belongs to section s and is behind its keys, none of which is k.
KeyReady(f, s, k, q) ==
  /\ q \in 1..Len(f) + 1 /\ KeySet(f, s, k) = {} /\ \A i \in KeyLines(f, s) : i < q
  /\ \E p \in Sections(f) : f[p].name = s /\ p < q /\ \A j \in Sections(f) : j <= p \/ j >= q

\* Where SectionAt finds a section.
LEMMA SectionFound ==
  ASSUME NEW f, Readable(f), NEW s, NEW p, p = SectionAt(f, s), p \in DOMAIN f
  PROVE  p \in Sections(f) /\ f[p].name = s
<1>1. p # 0
  BY SectionFacts
<1>2. PICK r \in Sections(f) : f[r].name = s
  BY <1>1, SectionAtIs
<1>3. p = r
  BY <1>2, SectionAtIs
<1> QED BY <1>2, <1>3

\* The lines of a section are those behind its line and before the next one's.
LEMMA UnderBounds ==
  ASSUME NEW f, Readable(f), NEW s, s \notin NoName, NEW p \in Sections(f), f[p].name = s,
         NEW i \in KeyLines(f, s)
  PROVE  i \in 1..Len(f) /\ p < i /\ \A j \in Sections(f) : j <= p \/ j > i
<1>1. i \in 1..Len(f) /\ Under(f, i, s)
  BY SectionFacts DEF KeyLines
<1>2. PICK r \in Sections(f) : f[r].name = s /\ r < i /\ \A j \in Sections(f) : j <= r \/ j > i
  BY <1>1 DEF Under
<1>3. r = p
  BY <1>2, SectionFacts
<1> QED BY <1>1, <1>2, <1>3

\* Where the loops of ini_puts stop without having met the key, the key may be written.
LEMMA NewKeyReady ==
  ASSUME NEW f, Readable(f), NEW s, s \notin NoName, NEW k, NEW q, NewKeyAt(f, s, k, q)
  PROVE  KeyReady(f, s, k, q)
<1>1. PICK p : p = SectionAt(f, s)
  OBVIOUS
<1>2. /\ p \in DOMAIN f /\ q \in p + 1..Len(f) + 1 /\ \A i \in p + 1..q - 1 : i \notin BodyStops(f, k)
      /\ q = Len(f) + 1 \/ q \in Sections(f)
  BY <1>1 DEF NewKeyAt
<1>3. p \in Sections(f) /\ f[p].name = s
  BY <1>1, <1>2, SectionFound
<1>4. /\ Len(f) \in Nat /\ DOMAIN f = 1..Len(f) /\ Sections(f) \subseteq 1..Len(f)
      /\ p \in 1..Len(f) /\ q \in 1..Len(f) + 1 /\ p < q
  <2>1. Len(f) \in Nat /\ DOMAIN f = 1..Len(f) /\ Sections(f) \subseteq 1..Len(f)
    BY SectionFacts
  <2> QED BY <1>2, <2>1
<1>5. \A j \in Sections(f) : j <= p \/ j >= q
  <2> SUFFICES ASSUME NEW j \in Sections(f), ~(j <= p), ~(j >= q) PROVE FALSE
    OBVIOUS
  <2>1. j \in p + 1..q - 1
    BY <1>4
  <2> QED BY <1>2, <2>1 DEF BodyStops
<1>6. ASSUME NEW i \in KeyLines(f, s) PROVE i < q /\ f[i].name # k
  <2>1. i \in 1..Len(f) /\ p < i /\ \A j \in Sections(f) : j <= p \/ j > i
    BY <1>3, UnderBounds
  <2>2. i < q
    BY <1>2, <1>4, <2>1
  <2>3. i \in p + 1..q - 1 /\ i \in DOMAIN f
    BY <1>4, <2>1, <2>2
  <2>4. f[i].kind = "key" /\ i \notin BodyStops(f, k)
    BY <1>2, <2>3 DEF KeyLines
  <2> QED BY <2>2, <2>3, <2>4 DEF BodyStops
<1>7. KeySet(f, s, k) = {}
  BY <1>6 DEF KeySet
<1> QED BY <1>3, <1>4, <1>5, <1>6, <1>7 DEF KeyReady

\* The key is found and read as v.
Says(f, s, k, v) == \A d : ini_gets(f, s, k, d) = v

\* A key written there is read, and everything else as before.
LEMMA ReadyKeeps ==
  ASSUME NEW f, Readable(f), NEW s \in STRING \ NoName, NEW k, NEW q, KeyReady(f, s, k, q),
         NEW g, NEW l, Inserted(f, g, q, l), Fits(l), l.kind = "key", l.name = k
  PROVE  Keeps(f, g, s, k) /\ Says(g, s, k, cleanstring(l))
<1>1. Addable(f, q, l)
  BY DEF Addable
<1>2. PICK p \in Sections(f) : f[p].name = s /\ p < q /\ \A j \in Sections(f) : j <= p \/ j >= q
  BY DEF KeyReady
<1>3. /\ Len(f) \in Nat /\ q \in 1..Len(f) + 1 /\ Sections(f) \subseteq 1..Len(f)
      /\ \A i \in 1..Len(f) : g[Moved(q, i)] = f[i]
  BY SectionFacts DEF Inserted
<1>4. Sections(g) = {Moved(q, i) : i \in Sections(f)}
  BY <1>1, InsertedLines
<1>5. Moved(q, p) = p /\ p \in Sections(g) /\ g[p].name = s
  BY <1>2, <1>3, <1>4 DEF Moved
<1>6. \A j \in Sections(g) : j <= p \/ j > q
  <2> SUFFICES ASSUME NEW j \in Sections(f) PROVE Moved(q, j) <= p \/ Moved(q, j) > q
    BY <1>4
  <2>1. CASE j <= p
    BY <1>2, <1>3, <2>1 DEF Moved
  <2>2. CASE j >= q
    BY <1>3, <2>2 DEF Moved
  <2> QED BY <1>2, <2>1, <2>2
<1>7. Under(g, q, s)
  BY <1>2, <1>5, <1>6 DEF Under
<1>8. KeySet(f, s, k) = {} /\ \A i \in KeyLines(f, s) : i < q
  BY DEF KeyReady
<1>9. Keeps(f, g, s, k)
  BY <1>1, <1>7, <1>8, InsertedKeeps
<1>10. Says(g, s, k, cleanstring(l))
  BY <1>1, <1>7, <1>8, InsertedGets DEF Says
<1> QED BY <1>9, <1>10

\* The empty line that ini_puts may leave at the end.
Blank == OtherLine("")
\* The empty line that the newline behind the last line makes is one ini_read reads.
LEMMA BlankFits == Fits(Blank) /\ Blank.kind = "other" /\ Blank \in Lines
<1>1. Fits(Blank)
  BY SettingsAssumption DEF Blank
<1>2. Blank \in Lines
  BY <1>1 DEF Fits
<1>3. Blank.kind = "other"
  BY DEF Blank, OtherLine
<1> QED BY <1>1, <1>2, <1>3

\* A file keeps what it says, and its sections and keys their lines.
SameLines(f, e, s, k) ==
  /\ Keeps(f, e, s, k) /\ Len(f) <= Len(e) /\ Len(e) \in Nat /\ e \in Seq(Lines)
  /\ Sections(e) = Sections(f) /\ \A i \in DOMAIN f : e[i].name = f[i].name
  /\ KeyLines(e, s) = KeyLines(f, s) /\ KeySet(e, s, k) = KeySet(f, s, k)

\* A file says what it says.
LEMMA SelfKeeps ==
  ASSUME NEW f, Readable(f), NEW s, NEW k
  PROVE  SameLines(f, f, s, k)
<1>1. NthKept(f, f, s)
  BY DEF NthKept
<1>2. Len(f) \in Nat /\ f \in Seq(Lines) /\ Len(f) <= Len(f)
  BY SectionFacts
<1>3. Keeps(f, f, s, k)
  BY <1>1 DEF Keeps
<1> QED BY <1>2, <1>3 DEF SameLines

\* An empty line behind the last one changes nothing that is read.
LEMMA BlankKeeps ==
  ASSUME NEW f, Readable(f), NEW s \in STRING \ NoName, NEW k
  PROVE  SameLines(f, f \o <<Blank>>, s, k)
<1>1. PICK e, q, l : e = f \o <<Blank>> /\ q = Len(f) + 1 /\ l = Blank
  OBVIOUS
<1>2. f \in Seq(Lines) /\ Len(f) \in Nat /\ Sections(f) \subseteq 1..Len(f) /\ DOMAIN f = 1..Len(f)
  BY SectionFacts
<1>3. l \in Lines /\ Fits(l) /\ l.kind = "other"
  BY <1>1, BlankFits
<1>4. Inserted(f, e, q, l)
  BY <1>1, <1>2, <1>3, AppendIs
<1>5. Addable(f, q, l)
  BY <1>3 DEF Addable
<1>6. Keeps(f, e, s, k)
  BY <1>3, <1>4, <1>5, InsertedKeeps
<1>7. \A i \in 1..Len(f) : Moved(q, i) = i
  BY <1>1, <1>2 DEF Moved
<1>8. Sections(e) = Sections(f)
  <2>1. Sections(e) = {Moved(q, i) : i \in Sections(f)} \cup (IF l.kind = "section" THEN {q} ELSE {})
    BY <1>4, <1>5, InsertedLines
  <2> QED BY <1>2, <1>3, <1>7, <2>1
<1>9. \A i \in DOMAIN f : e[i].name = f[i].name
  BY <1>2, <1>4, <1>7 DEF Inserted
<1>10. e \in Seq(Lines) /\ Len(e) = Len(f) + 1
  BY <1>4 DEF Inserted
<1>11. KeyLines(e, s) = KeyLines(f, s)
  <2>1. KeyLines(e, s) = {Moved(q, i) : i \in KeyLines(f, s)}
                         \cup {y \in {q} : l.kind = "key" /\ Under(e, q, s)}
    BY <1>4, <1>5, InsertedKeys
  <2>2. \A i \in KeyLines(f, s) : Moved(q, i) = i
    BY <1>2, <1>7 DEF KeyLines
  <2> QED BY <1>3, <2>1, <2>2
<1>12. KeySet(e, s, k) = KeySet(f, s, k)
  BY <1>9, <1>11 DEF KeySet, KeyLines
<1> QED BY <1>1, <1>2, <1>6, <1>8, <1>9, <1>10, <1>11, <1>12 DEF SameLines

\* The file whose last line has got its newline.
Ended(f) == [f EXCEPT ![Len(f)].nl = TRUE]
\* A newline at the end of the last line changes nothing that is read.
LEMMA EndedKeeps ==
  ASSUME NEW f, Readable(f), f # <<>>, NEW s \in STRING \ NoName, NEW k
  PROVE  SameLines(f, Ended(f), s, k)
<1>1. PICK e, q, l : e = Ended(f) /\ q = Len(f) /\ l = [f[Len(f)] EXCEPT !.nl = TRUE]
  OBVIOUS
<1>2. /\ f \in Seq(Lines) /\ Len(f) \in Nat /\ DOMAIN f = 1..Len(f) /\ q \in 1..Len(f)
      /\ f[q] \in Lines /\ Fits(f[q])
  <2>1. f \in Seq(Lines) /\ Len(f) \in Nat /\ DOMAIN f = 1..Len(f)
    BY SectionFacts
  <2>2. Len(f) # 0
    BY <2>1
  <2>3. q \in 1..Len(f)
    BY <1>1, <2>1, <2>2
  <2> QED BY <2>1, <2>3 DEF Readable
<1>3. l = [f[q] EXCEPT !.nl = TRUE]
  BY <1>1
<1>4. l \in Lines /\ l.kind = f[q].kind /\ l.name = f[q].name /\ l.val = f[q].val /\ l.quoted = f[q].quoted
      /\ [l EXCEPT !.nl = TRUE] = l
  BY <1>2, <1>3 DEF Lines
<1>5. Fits(l)
  BY <1>2, <1>3, <1>4 DEF Fits
<1>6. e = [f EXCEPT ![q] = l]
  BY <1>1, <1>2 DEF Ended
<1>7. Replaced(f, e, q, l)
  BY <1>2, <1>4, <1>6 DEF Replaced
<1>8. cleanstring(l) = cleanstring(f[q])
  BY <1>4 DEF cleanstring
<1>9. Keeps(f, e, s, k)
  BY <1>5, <1>7, <1>8, ReplacedKeeps
<1>10. /\ Sections(e) = Sections(f) /\ \A i \in DOMAIN f : e[i].name = f[i].name
       /\ KeyLines(e, s) = KeyLines(f, s) /\ KeySet(e, s, k) = KeySet(f, s, k)
  BY <1>5, <1>7, ReplacedLines
<1>11. e \in Seq(Lines) /\ Len(e) = Len(f)
  BY <1>7 DEF Replaced
<1> QED BY <1>1, <1>2, <1>9, <1>10, <1>11 DEF SameLines

\* Nothing that is read depends on how ini_puts ends the last line.
LEMMA EndsKeep ==
  ASSUME NEW f, Readable(f), NEW s \in STRING \ NoName, NEW k, NEW e \in Ends(f)
  PROVE  SameLines(f, e, s, k)
<1>1. e = f \/ e = f \o <<Blank>> \/ (f # <<>> /\ e = Ended(f))
  BY DEF Ends, Blank, Ended
<1> QED BY <1>1, SelfKeeps, BlankKeeps, EndedKeeps

\* The key may still be written at the end when the last line has got its newline.
LEMMA EndReady ==
  ASSUME NEW f, Readable(f), NEW s \in STRING \ NoName, NEW k, NEW q, q = Len(f) + 1,
         KeyReady(f, s, k, q), NEW e, SameLines(f, e, s, k), NEW r, r = Len(e) + 1
  PROVE  KeyReady(e, s, k, r)
<1>1. /\ Len(e) \in Nat /\ Sections(e) = Sections(f) /\ Len(f) <= Len(e)
      /\ KeyLines(e, s) = KeyLines(f, s) /\ KeySet(e, s, k) = KeySet(f, s, k)
      /\ \A i \in DOMAIN f : e[i].name = f[i].name
  BY DEF SameLines
<1>2. /\ Len(f) \in Nat /\ Sections(f) \subseteq 1..Len(f) /\ DOMAIN f = 1..Len(f)
      /\ KeyLines(f, s) \subseteq 1..Len(f)
  BY SectionFacts, GetIs
<1>3. PICK p \in Sections(f) : f[p].name = s /\ p < q /\ \A j \in Sections(f) : j <= p \/ j >= q
  BY DEF KeyReady
<1>4. \A j \in Sections(f) : j <= p
  BY <1>2, <1>3
<1>5. p < r /\ r \in 1..Len(e) + 1 /\ \A i \in 1..Len(f) : i < r
  BY <1>1, <1>2
<1>6. e[p].name = s /\ \A i \in KeyLines(f, s) : i < r
  BY <1>1, <1>2, <1>3, <1>5
<1>7. KeySet(f, s, k) = {}
  BY DEF KeyReady
<1> QED BY <1>1, <1>3, <1>4, <1>5, <1>6, <1>7 DEF KeyReady

\* So it may behind the line of a new section at the end.
LEMMA SectionReady ==
  ASSUME NEW f, Readable(f), NEW s \in STRING \ NoName, NEW k, SectionAt(f, s) = 0,
         Fits(SectionLine(s)), NEW e, SameLines(f, e, s, k), NEW h, h = e \o <<SectionLine(s)>>
  PROVE  Keeps(f, h, s, k) /\ KeyReady(h, s, k, Len(h) + 1) /\ h \in Seq(Lines) /\ Len(h) \in Nat
<1>1. PICK l, q : l = SectionLine(s) /\ q = Len(e) + 1
  OBVIOUS
<1>2. Fits(l) /\ l \in Lines /\ l.kind = "section" /\ l.name = s
  BY <1>1 DEF Fits, SectionLine
<1>3. /\ Len(e) \in Nat /\ e \in Seq(Lines) /\ Sections(e) = Sections(f) /\ Readable(e) /\ Keeps(f, e, s, k)
      /\ Len(f) <= Len(e) /\ \A i \in DOMAIN f : e[i].name = f[i].name
  BY DEF SameLines, Keeps
<1>4. /\ Len(f) \in Nat /\ Sections(f) \subseteq 1..Len(f) /\ DOMAIN f = 1..Len(f)
  BY SectionFacts
<1>5. \A p \in Sections(e) : e[p].name # s
  <2>1. \A p \in Sections(f) : f[p].name # s
    <3> SUFFICES ASSUME NEW p \in Sections(f), f[p].name = s PROVE FALSE
      OBVIOUS
    <3>1. p = 0
      BY SectionAtIs
    <3> QED BY <1>4, <3>1
  <2> QED BY <1>3, <1>4, <2>1
<1>6. Inserted(e, h, q, l)
  BY <1>1, <1>2, <1>3, AppendIs
<1>7. Addable(e, q, l)
  BY <1>1, <1>2, <1>5 DEF Addable
<1>8. Keeps(e, h, s, k)
  BY <1>2, <1>3, <1>6, <1>7, InsertedKeeps
<1>9. Keeps(f, h, s, k)
  BY <1>3, <1>8, KeepsTransitive
<1>10. h \in Seq(Lines) /\ Len(h) = q /\ h[q] = l
  BY <1>1, <1>6 DEF Inserted
<1>11. KeyLines(e, s) = {}
  <2> SUFFICES ASSUME NEW i \in KeyLines(e, s) PROVE FALSE
    OBVIOUS
  <2>1. Under(e, i, s)
    BY DEF KeyLines
  <2> QED BY <1>5, <2>1 DEF Under
<1>12. KeyLines(h, s) = {}
  BY <1>2, <1>3, <1>6, <1>7, <1>11, InsertedKeys
<1>13. q \in Sections(h) /\ \A j \in Sections(h) : j <= q
  <2>1. q \in 1..Len(h) /\ DOMAIN h = 1..Len(h) /\ \A j \in 1..Len(h) : j <= q
    BY <1>1, <1>3, <1>10
  <2> QED BY <1>2, <1>10, <2>1 DEF Sections
<1>14. KeySet(h, s, k) = {}
  BY <1>12 DEF KeySet
<1>15. Len(h) \in Nat /\ Len(h) + 1 \in 1..Len(h) + 1 /\ q < Len(h) + 1
  BY <1>1, <1>3, <1>10
<1> QED BY <1>2, <1>9, <1>10, <1>12, <1>13, <1>14, <1>15 DEF KeyReady

\* The key that the second loop meets is the one that is read.
LEMMA OldKeyFirst ==
  ASSUME NEW f, Readable(f), NEW s, s \notin NoName, NEW k, NEW q, OldKeyAt(f, s, k, q)
  PROVE  q \in KeySet(f, s, k) /\ \A j \in KeySet(f, s, k) : q <= j
<1>1. PICK p : p = SectionAt(f, s)
  OBVIOUS
<1>2. /\ p \in DOMAIN f /\ q \in p + 1..Len(f) /\ \A i \in p + 1..q - 1 : i \notin BodyStops(f, k)
      /\ f[q].kind = "key" /\ f[q].name = k
  BY <1>1 DEF OldKeyAt
<1>3. p \in Sections(f) /\ f[p].name = s
  BY <1>1, <1>2, SectionFound
<1>4. /\ Len(f) \in Nat /\ DOMAIN f = 1..Len(f) /\ Sections(f) \subseteq 1..Len(f)
      /\ p \in 1..Len(f) /\ q \in 1..Len(f) /\ p < q
  <2>1. Len(f) \in Nat /\ DOMAIN f = 1..Len(f) /\ Sections(f) \subseteq 1..Len(f)
    BY SectionFacts
  <2> QED BY <1>2, <2>1
<1>5. \A j \in Sections(f) : j <= p \/ j > q
  <2> SUFFICES ASSUME NEW j \in Sections(f), ~(j <= p), ~(j > q) PROVE FALSE
    OBVIOUS
  <2>1. j # q
    BY <1>2 DEF Sections
  <2>2. j \in p + 1..q - 1
    BY <1>4, <2>1
  <2> QED BY <1>2, <2>2 DEF BodyStops
<1>6. q \in KeySet(f, s, k)
  <2>1. Under(f, q, s)
    BY <1>3, <1>4, <1>5 DEF Under
  <2> QED BY <1>2, <1>4, <2>1 DEF KeySet, KeyLines
<1>7. ASSUME NEW j \in KeySet(f, s, k) PROVE q <= j
  <2>1. j \in KeyLines(f, s) /\ f[j].name = k /\ f[j].kind = "key"
    BY DEF KeySet, KeyLines
  <2>2. j \in 1..Len(f) /\ p < j
    BY <1>3, <2>1, UnderBounds
  <2>3. j \in BodyStops(f, k)
    BY <1>4, <2>1, <2>2 DEF BodyStops
  <2>4. j \notin p + 1..q - 1
    BY <1>2, <2>3
  <2> QED BY <1>4, <2>2, <2>4
<1> QED BY <1>6, <1>7

\* In its place the new value is read, and everything else as before.
FirstKey(f, s, k, q) == q \in KeySet(f, s, k) /\ \A j \in KeySet(f, s, k) : q <= j
\* Writing over the first line of a key changes that key and nothing else.
LEMMA InPlaceKeeps ==
  ASSUME NEW f, Readable(f), NEW s \in STRING \ NoName, NEW k, NEW q, FirstKey(f, s, k, q),
         NEW g, NEW l, Replaced(f, g, q, l), Fits(l)
  PROVE  Keeps(f, g, s, k) /\ Says(g, s, k, cleanstring(l))
<1>1. Keeps(f, g, s, k)
  BY ReplacedKeeps DEF FirstKey
<1>2. Readable(g) /\ KeySet(g, s, k) = KeySet(f, s, k)
  BY ReplacedLines
<1>3. q \in KeySet(g, s, k) /\ \A j \in KeySet(g, s, k) : q <= j
  BY <1>2 DEF FirstKey
<1>4. Says(g, s, k, cleanstring(g[q]))
  BY <1>2, <1>3, GetsIs DEF Says
<1>5. g[q] = l
  BY DEF Replaced
<1> QED BY <1>1, <1>4, <1>5

\* The line that is written is read as the text that was put, but for a blank before it.
LEMMA KeyLineIs ==
  ASSUME NEW k, NEW v, NEW l, l = KeyLine(k, v)
  PROVE  l.kind = "key" /\ l.name = k /\ cleanstring(l) = AsRead(v)
<1>1. l.kind = "key" /\ l.name = k /\ l.val = v /\ (l.quoted <=> v \in DOMAIN Clean \ Leading)
  BY DEF KeyLine, check_enquote
<1>2. Leading \subseteq DOMAIN Clean
  BY IniAssumption
<1> QED BY <1>1, <1>2 DEF cleanstring, AsRead

\* Every way in which the file may be edited keeps the rest and gives the key its value.
LEMMA EditedKeeps ==
  ASSUME NEW f, Readable(f), NEW s \in STRING \ NoName, NEW k, NEW v, NEW l, l = KeyLine(k, v), Fits(l),
         Fits(SectionLine(s)), NEW g, Edited1(f, g, s, k, l)
  PROVE  Keeps(f, g, s, k) /\ Says(g, s, k, AsRead(v))
<1>1. l.kind = "key" /\ l.name = k /\ cleanstring(l) = AsRead(v) /\ l \in Lines
  BY KeyLineIs DEF Fits
<1>2. /\ f \in Seq(Lines) /\ Len(f) \in Nat /\ DOMAIN f = 1..Len(f)
  BY SectionFacts
<1>3. CASE NewSection(f, g, s, k, l)
  <2>1. PICK e \in Ends(f) : g = (e \o <<SectionLine(s)>>) \o <<l>>
    BY <1>3 DEF NewSection
  <2>2. PICK h : h = e \o <<SectionLine(s)>>
    OBVIOUS
  <2>3. SectionAt(f, s) = 0 /\ SameLines(f, e, s, k)
    BY <1>3, EndsKeep DEF NewSection
  <2>4. Keeps(f, h, s, k) /\ KeyReady(h, s, k, Len(h) + 1) /\ h \in Seq(Lines) /\ Len(h) \in Nat
    BY <2>2, <2>3, SectionReady
  <2>5. g = h \o <<l>>
    BY <2>1, <2>2
  <2>6. Inserted(h, g, Len(h) + 1, l)
    BY <1>1, <2>4, <2>5, AppendIs
  <2>7. Readable(h)
    BY <2>4 DEF Keeps
  <2>8. Keeps(h, g, s, k) /\ Says(g, s, k, cleanstring(l))
    BY <1>1, <2>4, <2>6, <2>7, ReadyKeeps
  <2>9. Keeps(f, g, s, k)
    BY <2>4, <2>8, KeepsTransitive
  <2> QED BY <1>1, <2>8, <2>9
<1>4. CASE KeyAtEnd(f, g, s, k, l)
  <2>1. PICK e \in Ends(f) : g = e \o <<l>>
    BY <1>4 DEF KeyAtEnd
  <2>2. PICK q, r : q = Len(f) + 1 /\ r = Len(e) + 1
    OBVIOUS
  <2>3. SameLines(f, e, s, k)
    BY EndsKeep
  <2>4. NewKeyAt(f, s, k, q)
    BY <1>4, <2>2 DEF KeyAtEnd
  <2>5. KeyReady(f, s, k, q)
    BY <2>4, NewKeyReady
  <2>6. KeyReady(e, s, k, r)
    BY <2>2, <2>3, <2>5, EndReady
  <2>7. e \in Seq(Lines) /\ Readable(e) /\ Keeps(f, e, s, k)
    BY <2>3 DEF SameLines, Keeps
  <2>8. Inserted(e, g, r, l)
    BY <1>1, <2>1, <2>2, <2>7, AppendIs
  <2>9. Keeps(e, g, s, k) /\ Says(g, s, k, cleanstring(l))
    BY <1>1, <2>6, <2>7, <2>8, ReadyKeeps
  <2>10. Keeps(f, g, s, k)
    BY <2>7, <2>9, KeepsTransitive
  <2> QED BY <1>1, <2>9, <2>10
<1>5. CASE KeyBefore(f, g, s, k, l)
  <2>1. PICK q \in DOMAIN f : NewKeyAt(f, s, k, q) /\ g = WithLine(f, q, l)
    BY <1>5 DEF KeyBefore
  <2>2. KeyReady(f, s, k, q)
    BY <2>1, NewKeyReady
  <2>3. q \in 1..Len(f) + 1
    BY <1>2
  <2>4. Inserted(f, g, q, l)
    BY <1>1, <1>2, <2>1, <2>3, WithLineIs
  <2>5. Keeps(f, g, s, k) /\ Says(g, s, k, cleanstring(l))
    BY <1>1, <2>2, <2>4, ReadyKeeps
  <2> QED BY <1>1, <2>5
<1>6. CASE KeyInPlace(f, g, s, k, l)
  <2>1. PICK q \in DOMAIN f : OldKeyAt(f, s, k, q) /\ g = InLine(f, q, l)
    BY <1>6 DEF KeyInPlace
  <2>2. q \in 1..Len(f) /\ f[q].kind = "key" /\ f[q].name = k
    BY <1>2, <2>1 DEF OldKeyAt
  <2>3. FirstKey(f, s, k, q)
    BY <2>1, OldKeyFirst DEF FirstKey
  <2>4. Replaced(f, g, q, l)
    BY <1>1, <1>2, <2>1, <2>2, InLineIs
  <2>5. Keeps(f, g, s, k) /\ Says(g, s, k, cleanstring(l))
    <3>1. /\ Readable(f) /\ s \in STRING \ NoName /\ Fits(l)
          /\ FirstKey(f, s, k, q) /\ Replaced(f, g, q, l)
      BY <2>3, <2>4
    <3>2. Keeps(f, g, s, k)
      BY <3>1, InPlaceKeeps
    <3> QED BY <3>1, <3>2, InPlaceKeeps
  <2> QED BY <1>1, <2>5
<1> QED BY <1>3, <1>4, <1>5, <1>6 DEF Edited1

\* And it is the file with one line more or one line in the place of another.
LEMMA EditedApart ==
  ASSUME NEW f, Readable(f), NEW s \in STRING \ NoName, NEW k, NEW l, l \in Lines, l.kind = "key",
         l.name = k, Fits(SectionLine(s)), NEW g, Edited1(f, g, s, k, l)
  PROVE  OneLineApart(f, g, s, l)
<1>1. f \in Seq(Lines) /\ Len(f) \in Nat /\ DOMAIN f = 1..Len(f)
  BY SectionFacts
<1>2. CASE NewSection(f, g, s, k, l)
  <2>1. PICK e \in Ends(f) : g = (e \o <<SectionLine(s)>>) \o <<l>>
    BY <1>2 DEF NewSection
  <2>2. PICK x : x = SectionLine(s)
    OBVIOUS
  <2>3. x \in Lines /\ e \in Seq(Lines)
    BY <2>2, EndsKeep DEF SameLines, Fits
  <2>4. (e \o <<x>>) \o <<l>> = e \o (<<x>> \o <<l>>)
    <3>1. <<x>> \in Seq(Lines) /\ <<l>> \in Seq(Lines)
      BY <2>3
    <3>2. EitherWay(e, <<x>>, <<l>>)
      BY <2>3, <3>1, GroupedEitherWay
    <3> QED BY <3>2 DEF EitherWay
  <2>5. <<x>> \o <<l>> = <<x, l>>
    <3>1. <<x>> \in Seq(Lines) /\ Append(<<x>>, l) = <<x, l>>
      <4>1. <<x>> \in Seq(Lines)
        BY <2>3
      <4>2. PICK a, c : a = Append(<<x>>, l) /\ c = <<x, l>>
        OBVIOUS
      <4>3. a \in Seq(Lines) /\ Len(a) = 2 /\ a[1] = x /\ a[2] = l
        BY <2>3, <4>1, <4>2
      <4>4. c \in Seq(Lines) /\ Len(c) = 2 /\ c[1] = x /\ c[2] = l
        BY <2>3, <4>2
      <4>5. \A i \in 1..Len(a) : a[i] = c[i]
        BY <4>3, <4>4
      <4>6. a = c
        BY <4>3, <4>4, <4>5, SeqEqual
      <4> QED BY <4>1, <4>2, <4>6
    <3>2. <<x>> \o <<l>> = Append(<<x>>, l)
      BY <3>1, AppendIs
    <3> QED BY <3>1, <3>2
  <2>6. g = e \o <<SectionLine(s), l>>
    BY <2>1, <2>2, <2>4, <2>5
  <2> QED BY <2>6 DEF OneLineApart
<1>3. CASE KeyAtEnd(f, g, s, k, l)
  <2>1. PICK e \in Ends(f) : g = e \o <<l>>
    BY <1>3 DEF KeyAtEnd
  <2> QED BY <2>1 DEF OneLineApart
<1>4. CASE KeyBefore(f, g, s, k, l)
  <2>1. PICK q \in DOMAIN f : NewKeyAt(f, s, k, q) /\ g = WithLine(f, q, l)
    BY <1>4 DEF KeyBefore
  <2>2. f[q].kind = "section"
    <3>1. q # Len(f) + 1
      BY <1>1
    <3> QED BY <2>1, <3>1 DEF NewKeyAt, Sections
  <2>3. (Len(f) + 1) - 1 = Len(f)
    BY <1>1
  <2>4. g = InsertAt(f, q, l)
    BY <2>1, <2>3 DEF WithLine, Behind, Headed, InsertAt
  <2> QED BY <2>2, <2>4 DEF OneLineApart
<1>5. CASE KeyInPlace(f, g, s, k, l)
  <2>1. PICK q \in DOMAIN f : OldKeyAt(f, s, k, q) /\ g = InLine(f, q, l)
    BY <1>5 DEF KeyInPlace
  <2>2. q \in 1..Len(f) /\ f[q].kind = "key" /\ f[q].name = k
    BY <1>1, <2>1 DEF OldKeyAt
  <2>3. g = ReplaceAt(f, q, l)
    BY <1>1, <2>1, <2>2, InLineIs
  <2> QED BY <2>2, <2>3 DEF OneLineApart
<1> QED BY <1>2, <1>3, <1>4, <1>5 DEF Edited1

\* The file g says what p puts, as it is or without the blank before it, and otherwise what f says.
SaysText(g, s, k, v) == Says(g, s, k, v) \/ Says(g, s, k, AsRead(v))
PutDone(f, g, p) == /\ Readable(g) /\ SaysText(g, p[1], p[2], p[3])
                    /\ \A t, n, d : <<t, n>> # <<p[1], p[2]>> => ini_gets(g, t, n, d) = ini_gets(f, t, n, d)
\* And g is the copy of f that ini_puts makes.
Copied(f, g, p) == /\ Keeps(f, g, p[1], p[2]) /\ Says(g, p[1], p[2], AsRead(p[3]))
                   /\ OneLineApart(f, g, p[1], KeyLine(p[2], p[3]))
\* A copy has the put done.
LEMMA CopiedIsDone ==
  ASSUME NEW f, NEW g, NEW p, Copied(f, g, p)
  PROVE  PutDone(f, g, p)
BY DEF Copied, PutDone, Keeps, SaysText

\* The parts of a put whose lines fit the buffer.
LEMMA PutParts ==
  ASSUME NEW p, PutFits(p)
  PROVE  /\ p[1] \in STRING \ NoName /\ p[2] \in STRING /\ p[3] \in STRING
         /\ Fits(SectionLine(p[1])) /\ Fits(KeyLine(p[2], p[3]))
         /\ p[2] # Null /\ p[3] # Null
<1>1. p[1] \in STRING \ NoName /\ p[2] \in STRING /\ p[3] \in STRING
  BY DEF PutFits
<1> QED BY <1>1, IniAssumption DEF PutFits

\* Where a key is found, its line is the first one of the key.
LEMMA GetkeyIs ==
  ASSUME NEW f, Readable(f), NEW s, NEW k, NEW q, q = getkeystring(f, s, k), q # 0
  PROVE  FirstKey(f, s, k, q) /\ q \in 1..Len(f) /\ f[q].kind = "key" /\ f[q].name = k
         /\ Says(f, s, k, cleanstring(f[q]))
<1>1. q = First(KeySet(f, s, k)) /\ KeySet(f, s, k) \subseteq Nat \ {0}
  BY GetIs
<1>2. KeySet(f, s, k) # {}
  BY <1>1, FirstFacts
<1>3. FirstKey(f, s, k, q)
  BY <1>1, <1>2, FirstFacts DEF FirstKey
<1>4. q \in 1..Len(f) /\ f[q].kind = "key" /\ f[q].name = k
  BY <1>3, SectionFacts DEF FirstKey, KeySet, KeyLines
<1>5. Says(f, s, k, cleanstring(f[q]))
  BY DEF Says, ini_gets
<1> QED BY <1>3, <1>4, <1>5

\* Each of the three ways of ini_puts sets the key and keeps every other one: nothing to do,
\* one line in place, and the copy, which is one line apart from the file.
THEOREM PutKeeps ==
  ASSUME NEW f, Readable(f), NEW p, PutFits(p)
  PROVE  /\ PutKind(f, p[1], p[2], p[3]) = "same" => PutDone(f, f, p)
         /\ PutKind(f, p[1], p[2], p[3]) = "in place" => PutDone(f, InPlace(f, p[1], p[2], p[3]), p)
         /\ Copied(f, Rewritten(f, p[1], p[2], p[3]), p)
<1>1. PICK s, k, v, l : s = p[1] /\ k = p[2] /\ v = p[3] /\ l = KeyLine(k, v)
  OBVIOUS
<1>2. /\ s \in STRING \ NoName /\ k \in STRING /\ v \in STRING /\ Fits(SectionLine(s)) /\ Fits(l)
      /\ k # Null /\ v # Null
  BY <1>1, PutParts
<1>3. l.kind = "key" /\ l.name = k /\ cleanstring(l) = AsRead(v) /\ l \in Lines
  BY <1>1, <1>2, KeyLineIs DEF Fits
<1>4. PICK q : q = getkeystring(f, s, k)
  OBVIOUS
<1>5. ASSUME PutKind(f, s, k, v) = "same" PROVE PutDone(f, f, p)
  <2>1. q # 0 /\ cleanstring(f[q]) = v
    BY <1>2, <1>4, <1>5 DEF PutKind
  <2>2. Says(f, s, k, v)
    BY <1>4, <2>1, GetkeyIs
  <2> QED BY <1>1, <2>2 DEF PutDone, SaysText
<1>6. ASSUME PutKind(f, s, k, v) = "in place" PROVE PutDone(f, InPlace(f, s, k, v), p)
  <2>1. q # 0
    BY <1>2, <1>4, <1>6 DEF PutKind
  <2>2. FirstKey(f, s, k, q) /\ q \in 1..Len(f) /\ f[q].kind = "key" /\ f[q].name = k
    BY <1>4, <2>1, GetkeyIs
  <2>3. PICK g : g = InPlace(f, s, k, v)
    OBVIOUS
  <2>4. g = [f EXCEPT ![q] = l]
    BY <1>1, <1>4, <2>3 DEF InPlace
  <2>5. f \in Seq(Lines)
    BY SectionFacts
  <2>6. Replaced(f, g, q, l)
    BY <1>3, <2>2, <2>4, <2>5 DEF Replaced
  <2>7. Keeps(f, g, s, k) /\ Says(g, s, k, AsRead(v))
    BY <1>2, <1>3, <2>2, <2>6, InPlaceKeeps
  <2> QED BY <1>1, <2>3, <2>7 DEF PutDone, SaysText, Keeps
<1>7. PICK g : g = Rewritten(f, s, k, v)
  OBVIOUS
<1>8. Edited1(f, g, s, k, l)
  BY <1>1, <1>2, <1>7, RewrittenIs
<1>9. Keeps(f, g, s, k) /\ Says(g, s, k, AsRead(v))
  BY <1>1, <1>2, <1>8, EditedKeeps
<1>10. OneLineApart(f, g, s, l)
  BY <1>2, <1>3, <1>8, EditedApart
<1>11. Copied(f, g, p)
  BY <1>1, <1>9, <1>10 DEF Copied
<1> QED BY <1>1, <1>5, <1>6, <1>7, <1>11

\* Where there is no file there is no key,
LEMMA AbsentIs ==
  ASSUME NEW s, NEW k
  PROVE  getkeystring(Absent, s, k) = 0 /\ \A d : ini_gets(Absent, s, k, d) = d
<1>1. \A i \in DOMAIN Absent : Absent[i].kind = "absent"
  BY DEF Absent
<1>2. DOMAIN Absent = 1..1 /\ Len(Absent) = 1
  BY DEF Absent
<1>3. Sections(Absent) = {}
  BY <1>1 DEF Sections
<1>4. Body(Absent, s) \subseteq 1..1
  <2>1. SectionAt(Absent, s) = 0
    <3>1. {i \in Sections(Absent) : Absent[i].name = s} = {}
      BY <1>3
    <3> QED BY <3>1, FirstFacts DEF SectionAt
  <2>2. CASE s \in NoName
    BY <1>2, <1>3, <2>2 DEF Body
  <2>3. CASE s \notin NoName
    BY <2>1, <2>3 DEF Body
  <2> QED BY <2>2, <2>3
<1>5. {i \in Body(Absent, s) : Absent[i].kind = "key" /\ Absent[i].name = k} = {}
  BY <1>1, <1>2, <1>4
<1>6. getkeystring(Absent, s, k) = 0
  BY <1>5, FirstFacts DEF getkeystring
<1> QED BY <1>6 DEF ini_gets

\* and the file that is made has the one of the put.
LEMMA NewFileDone ==
  ASSUME NEW p, PutFits(p), NEW g, g = NewFile(p[1], p[2], p[3])
  PROVE  PutDone(Absent, g, p)
<1>1. PICK s, k, v, l, x : s = p[1] /\ k = p[2] /\ v = p[3] /\ l = KeyLine(k, v) /\ x = SectionLine(s)
  OBVIOUS
<1>2. s \in STRING \ NoName /\ Fits(x) /\ Fits(l) /\ k # Null /\ v # Null
  BY <1>1, PutParts
<1>3. /\ x \in Lines /\ x.kind = "section" /\ x.name = s
      /\ l \in Lines /\ l.kind = "key" /\ l.name = k /\ cleanstring(l) = AsRead(v)
  <2>1. x \in Lines /\ l \in Lines
    BY <1>2 DEF Fits
  <2>2. x.kind = "section" /\ x.name = s
    BY <1>1 DEF SectionLine
  <2>3. l.kind = "key" /\ l.name = k /\ cleanstring(l) = AsRead(v)
    BY <1>1, KeyLineIs
  <2> QED BY <2>1, <2>2, <2>3
<1>4. g = <<x>> \o <<l>>
  BY <1>1, <1>2 DEF NewFile, writesection, writekey
<1>5. g \in Seq(Lines) /\ Len(g) = 2 /\ DOMAIN g = 1..2 /\ g[1] = x /\ g[2] = l
  BY <1>3, <1>4
<1>6. Sections(g) = {1}
  BY <1>3, <1>5 DEF Sections
<1>7. Readable(g)
  BY <1>2, <1>3, <1>5, <1>6 DEF Readable
<1>8. ASSUME NEW t, NEW n, <<t, n>> # <<s, k>> PROVE KeySet(g, t, n) = {}
  <2> SUFFICES ASSUME NEW i \in KeySet(g, t, n) PROVE FALSE
    OBVIOUS
  <2>1. i \in 1..2 /\ g[i].kind = "key" /\ Under(g, i, t) /\ g[i].name = n
    BY <1>5 DEF KeySet, KeyLines
  <2>2. i = 2 /\ n = k
    BY <1>3, <1>5, <2>1
  <2>3. t = s
    BY <1>3, <1>5, <1>6, <2>1, <2>2 DEF Under
  <2> QED BY <1>8, <2>2, <2>3
<1>9. 2 \in KeySet(g, s, k) /\ \A i \in KeySet(g, s, k) : 2 <= i
  <2>1. Under(g, 2, s)
    BY <1>2, <1>3, <1>5, <1>6 DEF Under
  <2>2. \A i \in DOMAIN g : g[i].kind = "key" => i = 2
    BY <1>3, <1>5
  <2> QED BY <1>3, <1>5, <2>1, <2>2 DEF KeySet, KeyLines
<1>10. Says(g, s, k, AsRead(v))
  BY <1>3, <1>5, <1>7, <1>9, GetsIs DEF Says
<1>11. ASSUME NEW t, NEW n, NEW d, <<t, n>> # <<s, k>> PROVE ini_gets(g, t, n, d) = ini_gets(Absent, t, n, d)
  <2>1. getkeystring(g, t, n) = 0
    <3>1. KeySet(g, t, n) = {}
      BY <1>8, <1>11
    <3>2. getkeystring(g, t, n) = First({})
      BY <1>7, <3>1, GetIs
    <3> QED BY <3>2, FirstFacts
  <2>2. ini_gets(g, t, n, d) = d
    BY <2>1 DEF ini_gets
  <2> QED BY <2>2, AbsentIs
<1> QED BY <1>1, <1>7, <1>10, <1>11 DEF PutDone, SaysText

(***************************************************************************)
(* The invariant: what the worker and main are doing, and their puts.      *)
(***************************************************************************)
Putable == (STRING \ NoName) \X STRING \X STRING
WorkList(t) == t \in Seq(Putable) /\ \A i \in DOMAIN t : PutFits(t[i])

Commands == {"none", "general", "ntp", "apn", "sn", "serial", "get", "restart", "restore"}
Places == {"idle", "clear", "parse", "do", "remove", "create", "puts", "sync", "reply"}

\* A put is in hand only where main or the worker executes puts, and in a command with its val.
Modes ==
  /\ phase \in {"off", "init", "load", "up", "stuck"} /\ wpc \in Places /\ cmd \in Commands
  /\ phase # "up" => wpc = "idle"
  /\ cmd = "none" <=> wpc = "idle"
  /\ wpc \in {"clear", "parse"} => cmd \in {"general", "ntp"}
  /\ wpc = "remove" => cmd = "restore"
Args ==
  /\ cmd = "general" => arg \in GeneralArgs \cup {Lacking}
  /\ cmd = "ntp" => arg \in NtpArgs \cup {Lacking}
  /\ cmd = "apn" => arg \in ApnArgs \cup {Lacking}
  /\ cmd = "sn" => arg \in SnArgs \cup {Lacking}
  /\ cmd = "get" => arg.val \in 0..6
Work ==
  /\ step \in {"next", "copied", "torn", "removed", "lost"} /\ WorkList(todo)
  /\ todo # <<>> => phase = "init" \/ wpc = "puts"
  /\ step # "next" => todo # <<>>

\* The list of the puts with those that are done taken off.
LEMMA TailWorks ==
  ASSUME NEW t, WorkList(t), t # <<>>
  PROVE  /\ WorkList(Tail(t)) /\ t[1] \in Putable /\ PutFits(t[1])
         /\ \A i \in DOMAIN Tail(t) : i + 1 \in DOMAIN t /\ Tail(t)[i] = t[i + 1]
         /\ \A i \in DOMAIN t : i = 1 \/ i - 1 \in DOMAIN Tail(t)
<1>1. t \in Seq(Putable) /\ \A i \in 1..Len(t) : PutFits(t[i])
  BY DEF WorkList
<1>2. /\ Len(t) \in Nat /\ Len(t) >= 1 /\ Tail(t) \in Seq(Putable) /\ Len(Tail(t)) = Len(t) - 1
      /\ \A i \in 1..Len(t) - 1 : Tail(t)[i] = t[i + 1]
  BY <1>1
<1>3. DOMAIN t = 1..Len(t) /\ DOMAIN Tail(t) = 1..Len(t) - 1
  BY <1>1, <1>2
<1>4. \A i \in 1..Len(t) - 1 : i + 1 \in 1..Len(t)
  BY <1>2
<1>5. \A i \in 1..Len(t) : i = 1 \/ i - 1 \in 1..Len(t) - 1
  BY <1>2
<1>6. 1 \in 1..Len(t)
  BY <1>2
<1> QED BY <1>1, <1>2, <1>3, <1>4, <1>5, <1>6 DEF WorkList

\* The lists of the commands are such lists: their texts fit, by the assumption.
LEMMA DefaultsWork == WorkList(Defaults)
<1>1. \A i \in DOMAIN Defaults : PutFits(Defaults[i]) /\ Defaults[i] \in Putable
  BY SettingsAssumption DEF PutFits, Putable
<1>2. \E n \in Nat : DOMAIN Defaults = 1..n /\ Defaults = [i \in 1..n |-> Defaults[i]]
  <2>1. DOMAIN Defaults = 1..23 /\ Defaults = [i \in 1..23 |-> Defaults[i]]
    BY DEF Defaults
  <2> QED BY <2>1
<1>3. Defaults \in Seq(Putable)
  BY <1>1, <1>2
<1> QED BY <1>1, <1>3 DEF WorkList

\* The pair a put is about, and a put that writes what the globals m say of the pair.
PairOf(t) == <<t[1], t[2]>>
Carries(t, m) ==
  /\ PairOf(t) \in StrPairs => t[3] = m[PairOf(t)]
  /\ PairOf(t) \in IntPairs => m[PairOf(t)] \in Numbers /\ t[3] = long2str(m[PairOf(t)])

\* The puts of a set command cover the pairs of its section, as the globals have them.
Covers(t, s, m) == /\ WorkList(t) /\ \A i \in DOMAIN t : Carries(t[i], m)
                   /\ \A p \in Pairs : p[1] = s => \E i \in DOMAIN t : PairOf(t[i]) = p

TcpKeys == {"bin", "port", "timeout", "tcptmr", "schedule"}
\* The pairs of the section of the TCP server.
LEMMA TcpPairs ==
  /\ \A k \in TcpKeys : <<"tcp_server", k>> \in Pairs /\ <<"tcp_server", k>> \in IntPairs
  /\ \A p \in Pairs : p = <<p[1], p[2]>> /\ (p[1] = "tcp_server" => p[2] \in TcpKeys)
BY DEF TcpKeys, Pairs, IntPairs, StrPairs

\* The puts of set general write every global of the section as the command set it.
LEMMA GeneralWorks ==
  ASSUME NEW v \in GeneralArgs, NEW old, NEW m, m = parse_general_json(v, old)
  PROVE  Covers(exec_set_general_operation(m), "tcp_server", m)
<1>1. PICK t : t = exec_set_general_operation(m)
  OBVIOUS
<1>2. PICK s : s = "tcp_server"
  OBVIOUS
<1>3. ASSUME NEW k \in TcpKeys
      PROVE  /\ m[<<s, k>>] = v[k] /\ v[k] \in Numbers
             /\ PutFits(Int1(s, k, v[k])) /\ <<s, k>> \in IntPairs
  <2>1. PICK p : p = <<s, k>>
    OBVIOUS
  <2>2. p \in Pairs /\ p \in IntPairs /\ p[1] = s /\ p[2] = k
    BY <1>2, <2>1, TcpPairs
  <2>3. m[p] = v[k]
    BY <1>2, <2>2 DEF parse_general_json
  <2>4. Settable("tcp_server", k, v[k])
    BY SettingsAssumption DEF TcpKeys
  <2> QED BY <1>2, <2>1, <2>2, <2>3, <2>4 DEF Settable
<1>4. /\ t = [i \in 1..5 |-> t[i]] /\ DOMAIN t = 1..5
      /\ t[1] = Int1(s, "bin", m[<<s, "bin">>]) /\ t[2] = Int1(s, "port", m[<<s, "port">>])
      /\ t[3] = Int1(s, "timeout", m[<<s, "timeout">>]) /\ t[4] = Int1(s, "tcptmr", m[<<s, "tcptmr">>])
      /\ t[5] = Int1(s, "schedule", m[<<s, "schedule">>])
  BY <1>1, <1>2 DEF exec_set_general_operation
<1>5. /\ \A i \in 1..5 : \E k \in TcpKeys : t[i] = Int1(s, k, m[<<s, k>>])
      /\ \A k \in TcpKeys : \E i \in 1..5 : t[i] = Int1(s, k, m[<<s, k>>])
  BY <1>4 DEF TcpKeys
<1>6. ASSUME NEW i \in 1..5 PROVE PutFits(t[i]) /\ t[i] \in Putable /\ Carries(t[i], m)
  <2>1. PICK k \in TcpKeys : t[i] = Int1(s, k, m[<<s, k>>])
    BY <1>5
  <2>2. PutFits(t[i])
    BY <1>3, <2>1
  <2>3. t[i] \in Putable
    BY <2>2 DEF PutFits, Putable
  <2>4. PairOf(t[i]) = <<s, k>> /\ t[i][3] = long2str(m[<<s, k>>])
    BY <2>1 DEF PairOf, Int1
  <2>5. <<s, k>> \notin StrPairs
    BY <1>2 DEF StrPairs
  <2>6. Carries(t[i], m)
    BY <1>3, <2>4, <2>5 DEF Carries
  <2> QED BY <2>2, <2>3, <2>6
<1>7. WorkList(t)
  BY <1>4, <1>6 DEF WorkList
<1>8. ASSUME NEW p \in Pairs, p[1] = "tcp_server" PROVE \E i \in DOMAIN t : PairOf(t[i]) = p
  <2>1. p[2] \in TcpKeys /\ p = <<s, p[2]>>
    BY <1>2, <1>8, TcpPairs
  <2>2. PICK i \in 1..5 : t[i] = Int1(s, p[2], m[<<s, p[2]>>])
    BY <1>5, <2>1
  <2> QED BY <1>4, <2>1, <2>2 DEF PairOf, Int1
<1> QED BY <1>1, <1>4, <1>6, <1>7, <1>8 DEF Covers

\* The puts of set ntp write every global of the section as the command set it.
LEMMA NtpWorks ==
  ASSUME NEW v \in NtpArgs, NEW old, NEW m, m = parse_ntp_json(v, old)
  PROVE  Covers(exec_set_ntp_operation(m), "ntp_config", m)
<1>1. PICK p1, p2, p3, p4 : /\ p1 = <<"ntp_config", "primary_ip">> /\ p2 = <<"ntp_config", "second_ip">>
                            /\ p3 = <<"ntp_config", "interval">> /\ p4 = <<"ntp_config", "timezone">>
  OBVIOUS
<1>2. /\ p1 \in Pairs /\ p2 \in Pairs /\ p3 \in Pairs /\ p4 \in Pairs
      /\ p1 \notin IntPairs /\ p2 \notin IntPairs /\ p3 \notin StrPairs /\ p4 \notin StrPairs
      /\ p1 # p2 /\ p1 # p3 /\ p1 # p4 /\ p2 # p3 /\ p2 # p4 /\ p3 # p4
  BY <1>1 DEF Pairs, IntPairs, StrPairs
<1>3. m[p1] = v.primary /\ m[p2] = v.second /\ m[p3] = v.interval /\ m[p4] = v.timezone
  BY <1>1, <1>2 DEF parse_ntp_json
<1>4. PICK a, b, c, d : /\ a = Str("ntp_config", "primary_ip", m[p1])
                        /\ b = Str("ntp_config", "second_ip", m[p2])
                        /\ c = Int1("ntp_config", "interval", m[p3])
                        /\ d = Int1("ntp_config", "timezone", m[p4])
  OBVIOUS
<1>5. /\ PutFits(a) /\ PutFits(b) /\ PutFits(c) /\ PutFits(d)
      /\ m[p3] \in Numbers /\ m[p4] \in Numbers
  BY <1>3, <1>4, SettingsAssumption DEF Settable
<1>6. a \in Putable /\ b \in Putable /\ c \in Putable /\ d \in Putable
  BY <1>5 DEF PutFits, Putable
<1>7. PairOf(a) = p1 /\ PairOf(b) = p2 /\ PairOf(c) = p3 /\ PairOf(d) = p4
  BY <1>1, <1>4 DEF PairOf, Str, Int1
<1>8. a[3] = m[p1] /\ b[3] = m[p2] /\ c[3] = long2str(m[p3]) /\ d[3] = long2str(m[p4])
  BY <1>4 DEF Str, Int1
<1>9. Carries(a, m) /\ Carries(b, m) /\ Carries(c, m) /\ Carries(d, m)
  BY <1>2, <1>5, <1>7, <1>8 DEF Carries
<1>10. PICK t : t = exec_set_ntp_operation(m)
  OBVIOUS
<1>11. t = <<a, b, c, d>>
  BY <1>1, <1>4, <1>10 DEF exec_set_ntp_operation
<1>12. t \in Seq(Putable) /\ DOMAIN t = 1..4 /\ t[1] = a /\ t[2] = b /\ t[3] = c /\ t[4] = d
  BY <1>6, <1>11
<1>13. WorkList(t) /\ \A i \in DOMAIN t : Carries(t[i], m)
  BY <1>5, <1>9, <1>12 DEF WorkList
<1>14. \A p \in Pairs : p[1] = "ntp_config" => p \in {p1, p2, p3, p4}
  BY <1>1 DEF Pairs, IntPairs, StrPairs
<1>15. \A p \in {p1, p2, p3, p4} : \E i \in 1..4 : PairOf(t[i]) = p
  BY <1>7, <1>12
<1> QED BY <1>10, <1>12, <1>13, <1>14, <1>15 DEF Covers

\* What set apn has to write fits the buffer.
LEMMA ApnWorks ==
  ASSUME NEW v \in ApnArgs
  PROVE  WorkList(exec_set_apn_operation(parse_apn_json(v)))
<1>1. PICK a, b, c : a = Str("apn", "name", v.name) /\ b = Str("apn", "user", v.user)
                     /\ c = Str("apn", "passwd", v.passwd)
  OBVIOUS
<1>2. PutFits(a) /\ PutFits(b) /\ PutFits(c)
  BY <1>1, SettingsAssumption
<1>3. a \in Putable /\ b \in Putable /\ c \in Putable
  BY <1>2 DEF PutFits, Putable
<1>4. exec_set_apn_operation(parse_apn_json(v)) = <<a, b, c>>
  BY <1>1 DEF exec_set_apn_operation, parse_apn_json
<1>5. <<a, b, c>> \in Seq(Putable) /\ \A i \in DOMAIN <<a, b, c>> : PutFits(<<a, b, c>>[i])
  BY <1>2, <1>3
<1> QED BY <1>4, <1>5 DEF WorkList

\* What set sn has to write fits the buffer.
LEMMA SnWorks ==
  ASSUME NEW v \in SnArgs
  PROVE  WorkList(exec_set_sn_operation(parse_sn_json(v)))
<1>1. PICK a, b, c : a = Str("sn", "model", v.model) /\ b = Str("sn", "sn", v.sn)
                     /\ c = Int1("sn", "hver", v.hver)
  OBVIOUS
<1>2. PutFits(a) /\ PutFits(b) /\ PutFits(c)
  BY <1>1, SettingsAssumption
<1>3. a \in Putable /\ b \in Putable /\ c \in Putable
  BY <1>2 DEF PutFits, Putable
<1>4. exec_set_sn_operation(parse_sn_json(v)) = <<a, b, c>>
  BY <1>1 DEF exec_set_sn_operation, parse_sn_json
<1>5. <<a, b, c>> \in Seq(Putable) /\ \A i \in DOMAIN <<a, b, c>> : PutFits(<<a, b, c>>[i])
  BY <1>2, <1>3
<1> QED BY <1>4, <1>5 DEF WorkList

Control == Modes /\ Args /\ Work

\* Each step of Next, one by one.
Steps ==
  \/ Start \/ EndInit \/ Load \/ Put \/ RemoveFile \/ RenameCopy \/ PowerCut \/ Accept
  \/ PutFails \/ WriteFails \/ RemoveFails \/ RenameFails \/ Clear \/ Crash \/ Parse \/ SetSn \/ SetApn \/ SetSerial \/ SetRestart \/ RestoreRemove \/ RestoreCreate
  \/ GetInfo \/ PutsDone \/ Reply \/ Cancel
  \/ \E a \in {"worker", "job"} : OpenZone(a) \/ OpenFails(a) \/ PrintZone(a) \/ CloseZone(a) \/ Ask(a)
\* The steps by what they do to the file, the globals and the worker.
LEMMA NextSteps == Next => Steps
<1> SUFFICES ASSUME Next PROVE Steps
  OBVIOUS
<1>1. CASE Main
  BY <1>1 DEF Main, Steps
<1>2. CASE Puts
  BY <1>2 DEF Puts, Steps
<1>3. CASE Worker
  BY <1>3 DEF Worker, Sync, Steps
<1>4. CASE Sync("job")
  BY <1>4 DEF Sync, Steps
<1>5. CASE Failures \/ PowerCut \/ Accept \/ (\E a \in {"worker", "job"} : OpenFails(a)) \/ Cancel
  BY <1>5 DEF Failures, Steps
<1> QED BY <1>1, <1>2, <1>3, <1>4, <1>5 DEF Next

\* The steps of the time zone's synchronization change neither a file of the settings nor a global.
Elsewhere == /\ UNCHANGED <<ini, tmp, past, mem, phase, cmd, arg, todo, step, written, stale>>
             /\ \/ UNCHANGED wpc
                \/ wpc = "sync" /\ wpc' = "reply"
\* Writing the time zone file leaves the settings alone.
LEMMA SyncElsewhere ==
  ASSUME NEW a \in {"worker", "job"}, OpenZone(a) \/ OpenFails(a) \/ PrintZone(a) \/ CloseZone(a) \/ Ask(a)
  PROVE  Elsewhere
<1>1. CASE OpenZone(a)
  BY <1>1 DEF OpenZone, Step, Busy, rest, disk, command, Elsewhere
<1>2. CASE OpenFails(a)
  BY <1>2 DEF OpenFails, Step, Busy, rest, disk, command, Elsewhere
<1>3. CASE PrintZone(a)
  BY <1>3 DEF PrintZone, Step, Busy, rest, disk, command, Elsewhere
<1>4. CASE CloseZone(a)
  BY <1>4 DEF CloseZone, Step, Busy, rest, disk, command, Elsewhere
<1>5. CASE Ask(a)
  BY <1>5 DEF Ask, Step, Busy, rest, disk, command, Elsewhere
<1> QED BY <1>1, <1>2, <1>3, <1>4, <1>5

\* The steps of a put, which change neither the globals nor what the worker and main execute.
PutStep == \/ Put \/ RemoveFile \/ RenameCopy \/ PutFails \/ WriteFails \/ RemoveFails \/ RenameFails
\* They leave those alone.
LEMMA PutStepsElse ==
  ASSUME PutStep
  PROVE  Putting /\ UNCHANGED <<mem, uart, zone, phase, wpc, cmd, arg, reply, sync, text>>
<1>1. CASE Put \/ PutFails \/ WriteFails
  BY <1>1 DEF Put, PutFails, WriteFails, command
<1>2. CASE RemoveFile \/ RemoveFails
  BY <1>2 DEF RemoveFile, RemoveFails, ToRename, command
<1>3. CASE RenameCopy \/ RenameFails
  BY <1>3 DEF RenameCopy, RenameFails, command
<1> QED BY <1>1, <1>2, <1>3 DEF PutStep

\* Every step keeps Modes.
LEMMA ModesStep ==
  ASSUME Modes, Work, Next
  PROVE  Modes'
<1> Steps
  BY NextSteps
<1>1. CASE UNCHANGED <<phase, wpc, cmd>>
  BY <1>1 DEF Modes
<1>2. CASE Start
  BY <1>2 DEF Start, command, Modes, Places
<1>3. CASE EndInit
  BY <1>3 DEF EndInit, command, Modes, Places
<1>4. CASE Load
  BY <1>4 DEF Load, command, Modes, Places
<1>5. CASE PutStep
  BY <1>1, <1>5, PutStepsElse
<1>6. CASE PowerCut
  BY <1>6 DEF PowerCut, Modes, Places, Commands
<1>7. CASE Accept
  <2>1. /\ UNCHANGED phase /\ phase = "up" /\ cmd' # "none" /\ cmd' \in Commands
        /\ wpc' \in {"clear", "do", "remove"} /\ (wpc' = "clear" => cmd' \in {"general", "ntp"})
        /\ (wpc' = "remove" => cmd' = "restore")
    BY <1>7 DEF Accept, Take, Commands
  <2> QED BY <2>1 DEF Modes, Places
<1>20. CASE Crash
  BY <1>20 DEF Crash, Modes, Places, Commands
<1>8. CASE Clear
  BY <1>8 DEF Clear, command, Modes, Places
<1>9. CASE Parse
  BY <1>9 DEF Parse, command, Modes, Places
<1>10. CASE SetSn
  BY <1>10 DEF SetSn, Finish, command, Modes, Places, Commands
<1>11. CASE SetApn
  BY <1>11 DEF SetApn, command, Modes, Places
<1>12. CASE SetSerial \/ SetRestart
  BY <1>12 DEF SetSerial, SetRestart, Finish, Modes, Places, Commands
<1>13. CASE RestoreRemove \/ RestoreCreate
  BY <1>13 DEF RestoreRemove, RestoreCreate, command, Modes, Places
<1>14. CASE GetInfo
  BY <1>14 DEF GetInfo, Finish, Modes, Places, Commands
<1>15. CASE PutsDone
  BY <1>15 DEF PutsDone, command, Modes, Places
<1>16. CASE Reply
  BY <1>16 DEF Reply, Finish, Modes, Places, Commands
<1>17. CASE Cancel
  BY <1>1, <1>17 DEF Cancel, rest, command
<1>18. CASE Elsewhere
  BY <1>18 DEF Elsewhere, Modes, Places
<1> QED BY <1>2, <1>3, <1>4, <1>5, <1>6, <1>7, <1>8, <1>9, <1>10, <1>11, <1>12, <1>13, <1>14, <1>15,
           <1>16, <1>17, <1>18, <1>20, SyncElsewhere DEF Steps, PutStep

\* Every step keeps Args.
LEMMA ArgsStep ==
  ASSUME Args, Modes, Next
  PROVE  Args'
<1> Steps
  BY NextSteps
<1>1. CASE UNCHANGED <<cmd, arg>>
  BY <1>1 DEF Args
<1>2. CASE cmd' \in {"none", "serial", "restart", "restore"}
  BY <1>2 DEF Args
<1>3. CASE Start \/ EndInit \/ Load \/ PutStep
  BY <1>1, <1>3, PutStepsElse DEF Start, EndInit, Load, command
<1>4. CASE PowerCut \/ Crash
  BY <1>2, <1>4 DEF PowerCut, Crash
<1>5. CASE Accept
  <2>1. CASE \E v \in 0..6 : Take("get", [val |-> v], "do")
    <3>1. PICK v \in 0..6 : cmd' = "get" /\ arg' = [val |-> v]
      BY <2>1 DEF Take
    <3> QED BY <3>1 DEF Args
  <2>2. CASE \E v \in GeneralArgs : Take("general", v, "clear")
    BY <2>2 DEF Take, Args
  <2>3. CASE \E v \in NtpArgs : Take("ntp", v, "clear")
    BY <2>3 DEF Take, Args
  <2>4. CASE \E v \in ApnArgs : Take("apn", v, "do")
    BY <2>4 DEF Take, Args
  <2>5. CASE \E v \in SnArgs : Take("sn", v, "do")
    BY <2>5 DEF Take, Args
  <2>6. CASE (\E v \in SerialArgs : Take("serial", v, "do")) \/ Take("restart", NoArg, "do")
             \/ Take("restore", NoArg, "remove")
    BY <1>2, <2>6 DEF Take
  <2>7. CASE \/ \E op \in {"general", "ntp"} : Take(op, Lacking, "clear")
             \/ \E op \in {"apn", "sn", "serial"} : Take(op, Lacking, "do")
    BY <2>7 DEF Take, Args
  <2> QED BY <1>5, <2>1, <2>2, <2>3, <2>4, <2>5, <2>6, <2>7 DEF Accept
<1>6. CASE Clear \/ Parse \/ SetApn \/ RestoreCreate \/ PutsDone
  BY <1>1, <1>6 DEF Clear, Parse, SetApn, RestoreCreate, PutsDone, command
<1>11. CASE RestoreRemove
  <2>1. cmd' = "restore"
    BY <1>11 DEF RestoreRemove, Modes
  <2> QED BY <1>2, <2>1
<1>7. CASE SetSn
  BY <1>1, <1>2, <1>7 DEF SetSn, Finish, command
<1>8. CASE SetSerial \/ SetRestart \/ GetInfo \/ Reply
  BY <1>2, <1>8 DEF SetSerial, SetRestart, GetInfo, Reply, Finish
<1>9. CASE Cancel
  BY <1>1, <1>9 DEF Cancel, rest, command
<1>10. CASE Elsewhere
  BY <1>1, <1>10 DEF Elsewhere
<1> QED BY <1>3, <1>4, <1>5, <1>6, <1>7, <1>8, <1>9, <1>10, <1>11, SyncElsewhere DEF Steps, PutStep

\* Where no puts are executed there are none, and none is half done.
LEMMA NoPuts ==
  ASSUME Modes, Work, phase # "init", wpc # "puts"
  PROVE  todo = <<>> /\ step = "next"
BY DEF Modes, Work

\* Every step keeps Work.
LEMMA WorkStep ==
  ASSUME Work, Modes, Args, Next
  PROVE  Work'
<1> Steps
  BY NextSteps
<1>1. ASSUME todo = <<>>, step = "next", UNCHANGED <<todo, step>> PROVE Work'
  BY <1>1 DEF Work
<1>2. ASSUME UNCHANGED <<todo, step, phase, wpc>> PROVE Work'
  BY <1>2 DEF Work
<1>3. CASE Start
  <2>1. todo = <<>> /\ step = "next"
    BY <1>3, NoPuts DEF Start, Modes
  <2>2. CASE ini = Absent
    <3>1. phase' = "init" /\ todo' = Defaults /\ step' = step
      BY <1>3, <2>2 DEF Start, Create
    <3> QED BY <2>1, <3>1, DefaultsWork DEF Work
  <2>3. CASE ini # Absent
    BY <1>1, <1>3, <2>1, <2>3 DEF Start
  <2> QED BY <2>2, <2>3
<1>4. CASE EndInit \/ Load \/ Accept \/ Clear \/ Crash \/ SetSerial \/ SetRestart \/ RestoreRemove \/ GetInfo
           \/ PutsDone \/ Reply \/ Cancel
  <2>1. CASE EndInit
    <3>1. todo = <<>> /\ step = "next"
      BY <1>4, <2>1 DEF EndInit, Work
    <3> QED BY <1>1, <2>1, <3>1 DEF EndInit
  <2>2. CASE PutsDone
    <3>1. todo = <<>> /\ step = "next"
      BY <1>4, <2>2 DEF PutsDone, Work
    <3> QED BY <1>1, <2>2, <3>1 DEF PutsDone
  <2>3. CASE Cancel
    BY <1>2, <2>3 DEF Cancel, rest
  <2>4. CASE Load \/ Accept
    <3>1. todo = <<>> /\ step = "next"
      BY <2>4, NoPuts DEF Load, Accept, Modes
    <3> QED BY <1>1, <2>4, <3>1 DEF Load, Accept
  <2>5. CASE Clear \/ Crash \/ SetSerial \/ SetRestart \/ RestoreRemove \/ GetInfo \/ Reply
    <3>1. todo = <<>> /\ step = "next"
      BY <2>5, NoPuts DEF Clear, Crash, SetSerial, SetRestart, RestoreRemove, GetInfo, Reply, Modes
    <3> QED BY <1>1, <2>5, <3>1 DEF Clear, Crash, SetSerial, SetRestart, RestoreRemove, GetInfo, Reply
  <2> QED BY <1>4, <2>1, <2>2, <2>3, <2>4, <2>5
<1>5. ASSUME todo # <<>>, todo' = Tail(todo), step' = "next", UNCHANGED <<phase, wpc>> PROVE Work'
  BY <1>5, TailWorks DEF Work
<1>6. ASSUME todo # <<>>, todo' = todo, step' \in {"copied", "torn", "removed", "lost"}, UNCHANGED <<phase, wpc>>
      PROVE  Work'
  BY <1>6 DEF Work
<1>7. CASE PutStep
  <2>1. todo # <<>> /\ UNCHANGED <<phase, wpc>>
    BY <1>7, PutStepsElse DEF Putting
  <2>2. \/ todo' = Tail(todo) /\ step' = "next"
        \/ todo' = todo /\ step' \in {"copied", "torn", "removed", "lost"}
    <3>1. CASE Put \/ PutFails \/ WriteFails
      BY <3>1 DEF Put, PutFails, WriteFails, Done, Unnoticed, After
    <3>2. CASE RemoveFile \/ RemoveFails
      BY <3>2 DEF RemoveFile, RemoveFails, ToRename
    <3>3. CASE RenameCopy \/ RenameFails
      BY <3>3 DEF RenameCopy, RenameFails, Done, Unnoticed, After
    <3> QED BY <1>7, <3>1, <3>2, <3>3 DEF PutStep
  <2> QED BY <1>5, <1>6, <2>1, <2>2
<1>10. CASE PowerCut
  <2>1. todo' = <<>> /\ step' = "next"
    BY <1>10 DEF PowerCut
  <2>2. PICK t : t = <<>>
    OBVIOUS
  <2>3. t \in Seq(Putable) /\ \A i \in DOMAIN t : PutFits(t[i])
    BY <2>2
  <2>4. WorkList(t)
    BY <2>3 DEF WorkList
  <2> QED BY <2>1, <2>2, <2>4 DEF Work
<1>11. ASSUME WorkList(todo'), step = "next", step' = step, wpc' = "puts" PROVE Work'
  BY <1>11 DEF Work
<1>12. CASE Parse
  <2>1. step = "next"
    BY <1>12, NoPuts DEF Parse, Modes
  <2>2. CASE cmd = "ntp"
    <3>1. PICK m : m = mem'
      OBVIOUS
    <3>2. m = parse_ntp_json(arg, mem) /\ todo' = exec_set_ntp_operation(m) /\ arg \in NtpArgs
      BY <1>12, <2>2, <3>1 DEF Parse, Args
    <3>3. WorkList(todo')
      BY <3>2, NtpWorks DEF Covers
    <3> QED BY <1>11, <1>12, <2>1, <3>3 DEF Parse
  <2>3. CASE cmd = "general"
    <3>1. PICK m : m = mem'
      OBVIOUS
    <3>2. m = parse_general_json(arg, mem) /\ todo' = exec_set_general_operation(m) /\ arg \in GeneralArgs
      BY <1>12, <2>3, <3>1 DEF Parse, Args
    <3>3. WorkList(todo')
      BY <3>2, GeneralWorks DEF Covers
    <3> QED BY <1>11, <1>12, <2>1, <3>3 DEF Parse
  <2> QED BY <1>12, <2>2, <2>3 DEF Parse, Modes
<1>13. CASE SetSn
  <2>1. todo = <<>> /\ step = "next" /\ arg \in SnArgs
    BY <1>13, NoPuts DEF SetSn, Modes, Args
  <2>2. CASE UNCHANGED todo
    BY <1>1, <1>13, <2>1, <2>2 DEF SetSn
  <2>3. CASE ~UNCHANGED todo
    <3>1. todo' = exec_set_sn_operation(parse_sn_json(arg)) /\ wpc' = "puts" /\ step' = step
      BY <1>13, <2>3 DEF SetSn
    <3> QED BY <1>11, <2>1, <3>1, SnWorks
  <2> QED BY <2>2, <2>3
<1>14. CASE SetApn
  <2>1. step = "next" /\ arg \in ApnArgs
    BY <1>14, NoPuts DEF SetApn, Modes, Args
  <2> QED BY <1>11, <1>14, <2>1, ApnWorks DEF SetApn
<1>15. CASE RestoreCreate
  <2>1. step = "next"
    BY <1>15, NoPuts DEF RestoreCreate, Modes
  <2> QED BY <1>11, <1>15, <2>1, DefaultsWork DEF RestoreCreate, Create
<1>16. CASE Elsewhere
  <2>1. CASE UNCHANGED wpc
    BY <1>2, <1>16, <2>1 DEF Elsewhere
  <2>2. CASE wpc = "sync"
    <3>1. todo = <<>> /\ step = "next"
      BY <2>2, NoPuts DEF Modes
    <3> QED BY <1>1, <1>16, <3>1 DEF Elsewhere
  <2> QED BY <1>16, <2>1, <2>2 DEF Elsewhere
<1> QED BY <1>3, <1>4, <1>7, <1>10, <1>12, <1>13, <1>14, <1>15, <1>16, SyncElsewhere DEF Steps, PutStep

(***************************************************************************)
(* The file and its copy.                                                  *)
(***************************************************************************)
FileOrNone(x) == x = Absent \/ Readable(x)
\* The file and what it was before can be read; the copy says what the put in hand puts and
\* otherwise what the file says, or it is a part of that.
Disk ==
  /\ FileOrNone(ini) /\ \A x \in past : FileOrNone(x)
  /\ step = "copied" => Readable(ini) /\ Copied(ini, tmp, P)
  /\ step \in {"torn", "lost"} => Readable(tmp)
  /\ step = "removed" => Readable(tmp) /\ SaysText(tmp, P[1], P[2], P[3])

\* No file is not a file.
LEMMA AbsentIsNone == ~Readable(Absent)
<1> SUFFICES ASSUME Readable(Absent) PROVE FALSE
  OBVIOUS
<1>1. Absent \in Seq(Lines) /\ Len(Absent) = 1
  BY DEF Readable, Absent
<1>2. Absent[1] \in Lines
  BY <1>1
<1>3. Absent[1].kind = "absent"
  BY DEF Absent
<1> QED BY <1>2, <1>3 DEF Lines

\* An empty file is readable.
LEMMA EmptyIsReadable == Readable(<<>>)
BY DEF Readable, Sections

\* So is what is left of a file.
LEMMA TornIsReadable ==
  ASSUME NEW f, NEW g \in Torn(f)
  PROVE  Readable(g)
BY DEF Torn

\* A file that changes is among those there were.
LEMMA ChangedDisk ==
  ASSUME Disk, NEW x, FileOrNone(x), Change(x)
  PROVE  FileOrNone(ini') /\ \A y \in past' : FileOrNone(y)
BY DEF Disk, Change

\* After a power cut there is one of them, or a part of it, or none.
LEMMA RemainsFile ==
  ASSUME Disk, NEW x \in Remains
  PROVE  FileOrNone(x)
<1>1. x \in past \cup {ini, Absent} \/ \E f : x \in Torn(f)
  BY DEF Remains
<1> QED BY <1>1, TornIsReadable DEF Disk, FileOrNone

\* What a put that goes on to the next one leaves behind.
LEMMA PutSteps ==
  ASSUME Modes, Work, Disk, Put
  PROVE  /\ todo # <<>> /\ PutFits(P) /\ P \in Putable /\ step = "next"
         /\ \/ /\ step' = "next" /\ todo' = Tail(todo) /\ PutDone(ini, ini', P)
               /\ tmp' = tmp /\ written' = Noted(P) /\ past' \in {past, past \cup {ini}}
            \/ /\ step' = "copied" /\ todo' = todo /\ ini' = ini /\ Readable(ini) /\ Copied(ini, tmp', P)
               /\ written' = written /\ past' = past
         /\ (stale => stale') /\ UNCHANGED <<phase, wpc, cmd, arg, mem>>
<1>1. todo # <<>> /\ step = "next"
  BY DEF Put, Putting
<1>2. PutFits(P) /\ P \in Putable
  BY <1>1, TailWorks DEF Work, P
<1>3. PICK p : p = P
  OBVIOUS
<1>4. PutFits(p)
  BY <1>2, <1>3
<1>5. PICK kind, new, inPlace, copy : /\ kind = PutKind(ini, p[1], p[2], p[3])
                                      /\ new = NewFile(p[1], p[2], p[3])
                                      /\ inPlace = InPlace(ini, p[1], p[2], p[3])
                                      /\ copy = Rewritten(ini, p[1], p[2], p[3])
  OBVIOUS
<1>6. /\ UNCHANGED <<phase, wpc, cmd, arg, mem>>
      /\ \/ ini = Absent /\ Change(new) /\ Done(TRUE) /\ UNCHANGED tmp
         \/ ini # Absent /\ kind = "same" /\ Done(TRUE) /\ UNCHANGED disk
         \/ ini # Absent /\ kind = "in place" /\ Change(inPlace) /\ Done(TRUE) /\ UNCHANGED tmp
         \/ ini # Absent /\ tmp' = copy /\ step' = "copied" /\ UNCHANGED <<ini, past, todo, ret, written, stale>>
  BY <1>3, <1>5 DEF Put, command
<1>7. Done(TRUE) => todo' = Tail(todo) /\ step' = "next" /\ written' = Noted(P) /\ (stale => stale')
  <2>1. Done(TRUE) => todo' = Tail(todo) /\ step' = "next" /\ written' = Noted(P)
    BY DEF Done, After
  <2>2. Done(TRUE) => (stale => stale')
    BY Zenon DEF Done
  <2> QED BY <2>1, <2>2
<1>8. stale => stale'
  <2>1. Done(TRUE) \/ stale' = stale
    BY <1>6
  <2> QED BY <1>7, <2>1
<1>9. \/ /\ step' = "next" /\ todo' = Tail(todo) /\ PutDone(ini, ini', p)
         /\ tmp' = tmp /\ written' = Noted(P) /\ past' \in {past, past \cup {ini}}
      \/ /\ step' = "copied" /\ todo' = todo /\ ini' = ini /\ Readable(ini) /\ Copied(ini, tmp', p)
         /\ written' = written /\ past' = past
  <2>1. CASE ini = Absent
    <3>1. ini' = new /\ past' = past \cup {ini} /\ Done(TRUE) /\ tmp' = tmp
      BY <1>6, <2>1 DEF Change
    <3>2. PutDone(ini, new, p)
      BY <1>4, <1>5, <2>1, NewFileDone
    <3> QED BY <1>7, <3>1, <3>2
  <2>2. CASE ini # Absent
    <3>1. Readable(ini)
      BY <2>2 DEF Disk, FileOrNone
    <3>2. /\ kind = "same" => PutDone(ini, ini, p)
          /\ kind = "in place" => PutDone(ini, inPlace, p)
          /\ Copied(ini, copy, p)
      BY <1>4, <1>5, <3>1, PutKeeps
    <3>3. CASE kind = "same" /\ Done(TRUE) /\ UNCHANGED disk
      BY <1>7, <3>2, <3>3 DEF disk
    <3>4. CASE kind = "in place" /\ Change(inPlace) /\ Done(TRUE) /\ UNCHANGED tmp
      BY <1>7, <3>2, <3>4 DEF Change
    <3>5. CASE tmp' = copy /\ step' = "copied" /\ UNCHANGED <<ini, past, todo, ret, written, stale>>
      BY <3>1, <3>2, <3>5
    <3> QED BY <1>6, <2>2, <3>3, <3>4, <3>5
  <2> QED BY <2>1, <2>2
<1> QED BY <1>1, <1>2, <1>3, <1>6, <1>8, <1>9

\* Every step keeps Disk: the file stays readable and the temporary file is its copy with one put
\* done, or a part of that.
LEMMA DiskStep ==
  ASSUME Disk, Modes, Work, Next
  PROVE  Disk'
<1> Steps
  BY NextSteps
<1>1. ASSUME UNCHANGED <<ini, tmp, past, todo, step>> PROVE Disk'
  BY <1>1 DEF Disk, P
<1>2. ASSUME FileOrNone(ini'), \A x \in past' : FileOrNone(x), step' = "next" PROVE Disk'
  BY <1>2 DEF Disk
<1>3. ASSUME UNCHANGED <<ini, past>>, step' = "next" PROVE Disk'
  <2>1. FileOrNone(ini') /\ \A x \in past' : FileOrNone(x)
    BY <1>3 DEF Disk
  <2> QED BY <1>2, <1>3, <2>1
<1>4. ASSUME NEW x, FileOrNone(x), Change(x), step' = "next" PROVE Disk'
  BY <1>2, <1>4, ChangedDisk
<1>5. phase # "init" /\ wpc # "puts" => step = "next"
  BY NoPuts
<1>6. ASSUME Create, step' = "next" PROVE Disk'
  <2>1. UNCHANGED <<ini, past>> \/ Change(<<>>)
    BY <1>6 DEF Create
  <2>2. FileOrNone(<<>>)
    BY EmptyIsReadable DEF FileOrNone
  <2> QED BY <1>3, <1>4, <1>6, <2>1, <2>2
<1>7. CASE Start
  <2>1. step' = "next"
    BY <1>5, <1>7 DEF Start, Modes
  <2>2. Create \/ UNCHANGED <<ini, past>>
    BY <1>7 DEF Start
  <2> QED BY <1>3, <1>6, <2>1, <2>2
<1>8. CASE EndInit \/ Load \/ Accept \/ Clear \/ Crash \/ SetSerial \/ SetRestart \/ GetInfo \/ PutsDone \/ Reply
  <2>1. UNCHANGED <<ini, tmp, past, todo, step>>
    <3>1. CASE EndInit \/ Load \/ Accept \/ Clear \/ Crash
      BY <3>1 DEF EndInit, Load, Accept, Clear, Crash, disk
    <3>2. CASE SetSerial \/ SetRestart \/ GetInfo \/ PutsDone \/ Reply
      BY <3>2 DEF SetSerial, SetRestart, GetInfo, PutsDone, Reply, disk
    <3> QED BY <1>8, <3>1, <3>2
  <2> QED BY <1>1, <2>1
<1>9. CASE Parse \/ SetSn \/ SetApn
  <2>1. step' = "next" /\ UNCHANGED <<ini, past>>
    BY <1>5, <1>9 DEF Parse, SetSn, SetApn, Modes, disk
  <2> QED BY <1>3, <2>1
<1>10. CASE Put
  <2>1. CASE step' = "next"
    <3>1. PutDone(ini, ini', P) /\ past' \in {past, past \cup {ini}}
      BY <1>10, <2>1, PutSteps
    <3>2. FileOrNone(ini') /\ \A x \in past' : FileOrNone(x)
      BY <3>1 DEF PutDone, Disk, FileOrNone
    <3> QED BY <1>2, <2>1, <3>2
  <2>2. CASE step' # "next"
    <3>1. /\ step' = "copied" /\ P' = P /\ UNCHANGED <<ini, past>> /\ Copied(ini, tmp', P) /\ Readable(ini)
      BY <1>10, <2>2, PutSteps DEF P
    <3>2. PICK p, c : p = P /\ c = tmp'
      OBVIOUS
    <3>3. Copied(ini, c, p)
      BY <3>1, <3>2
    <3>4. FileOrNone(ini') /\ \A x \in past' : FileOrNone(x)
      BY <3>1 DEF Disk
    <3> QED BY <3>1, <3>2, <3>3, <3>4 DEF Disk
  <2> QED BY <2>1, <2>2
<1>11. CASE PutFails
  BY <1>3, <1>11 DEF PutFails, Done, After, disk
<1>12. CASE WriteFails
  <2>1. CASE step' = "next"
    <3>1. UNCHANGED <<ini, past>> \/ \E f : \E g \in Torn(f) : Change(g)
      <4>1. CASE ini = Absent
        BY <1>12, <4>1 DEF WriteFails
      <4>2. CASE ini # Absent
        BY <1>12, <2>1, <4>2 DEF WriteFails, disk
      <4> QED BY <4>1, <4>2
    <3>2. ASSUME NEW f, NEW g \in Torn(f), Change(g) PROVE Disk'
      <4>1. FileOrNone(g)
        BY TornIsReadable DEF FileOrNone
      <4> QED BY <1>4, <2>1, <3>2, <4>1
    <3> QED BY <1>3, <2>1, <3>1, <3>2
  <2>2. CASE step' # "next"
    <3>1. UNCHANGED <<ini, past>> /\ step' = "torn" /\ \E f : tmp' \in Torn(f)
      BY <1>12, <2>2 DEF WriteFails, Unnoticed, After
    <3>2. Readable(tmp')
      BY <3>1, TornIsReadable
    <3>3. FileOrNone(ini') /\ \A x \in past' : FileOrNone(x)
      BY <3>1 DEF Disk
    <3> QED BY <3>1, <3>2, <3>3 DEF Disk
  <2> QED BY <2>1, <2>2
<1>13. CASE RemoveFile \/ RemoveFails
  <2>1. /\ step \in {"copied", "torn"} /\ UNCHANGED <<tmp, todo>> /\ P' = P
        /\ step' = IF step = "copied" THEN "removed" ELSE "lost"
    BY <1>13 DEF RemoveFile, RemoveFails, ToRename, P
  <2>2. FileOrNone(ini') /\ \A x \in past' : FileOrNone(x)
    <3>1. Change(Absent) \/ UNCHANGED <<ini, past>>
      BY <1>13 DEF RemoveFile, RemoveFails
    <3>2. CASE Change(Absent)
      <4>1. FileOrNone(Absent)
        BY DEF FileOrNone
      <4> QED BY <3>2, <4>1, ChangedDisk
    <3>3. CASE UNCHANGED <<ini, past>>
      BY <3>3 DEF Disk
    <3> QED BY <3>1, <3>2, <3>3
  <2>3. PICK p, c : p = P /\ c = tmp
    OBVIOUS
  <2>4. CASE step = "copied"
    <3>1. Readable(c) /\ SaysText(c, p[1], p[2], p[3])
      BY <2>3, <2>4 DEF Disk, Copied, Keeps, SaysText
    <3> QED BY <2>1, <2>2, <2>3, <2>4, <3>1 DEF Disk
  <2>5. CASE step = "torn"
    <3>1. Readable(c) /\ step' = "lost"
      BY <2>1, <2>3, <2>5 DEF Disk
    <3> QED BY <2>1, <2>2, <2>3, <3>1 DEF Disk
  <2> QED BY <2>1, <2>4, <2>5
<1>14. CASE RenameCopy
  <2>1. step' = "next" /\ Change(tmp) /\ step \in {"removed", "lost"}
    BY <1>14 DEF RenameCopy, Done, Unnoticed, After
  <2>2. FileOrNone(tmp)
    BY <2>1 DEF Disk, FileOrNone
  <2> QED BY <1>4, <2>1, <2>2
<1>15. CASE RenameFails
  BY <1>3, <1>15 DEF RenameFails, Unnoticed, After, disk
<1>16. CASE PowerCut
  <2>1. ini' \in Remains /\ past' = {} /\ step' = "next"
    BY <1>16 DEF PowerCut
  <2>2. FileOrNone(ini')
    BY <2>1, RemainsFile
  <2> QED BY <1>2, <2>1, <2>2
<1>17. CASE RestoreRemove
  <2>1. step' = "next" /\ (Change(Absent) \/ UNCHANGED <<ini, past>>)
    BY <1>5, <1>17 DEF RestoreRemove, Modes
  <2>2. FileOrNone(Absent)
    BY DEF FileOrNone
  <2> QED BY <1>3, <1>4, <2>1, <2>2
<1>18. CASE RestoreCreate
  <2>1. step' = "next" /\ Create
    BY <1>5, <1>18 DEF RestoreCreate, Modes
  <2> QED BY <1>6, <2>1
<1>19. CASE Cancel
  BY <1>1, <1>19 DEF Cancel, rest, disk
<1>20. CASE Elsewhere
  BY <1>1, <1>20 DEF Elsewhere
<1> QED BY <1>7, <1>8, <1>9, <1>10, <1>11, <1>12, <1>13, <1>14, <1>15, <1>16, <1>17, <1>18, <1>19, <1>20,
           SyncElsewhere DEF Steps

\* Hence the copy that is to replace the file has the new value and everything else of it.
LEMMA CopyKeeps ==
  ASSUME Disk, step = "copied"
  PROVE  CopyKeepsOthers
<1>1. PICK s, k, v : s = P[1] /\ k = P[2] /\ v = P[3]
  OBVIOUS
<1>2. /\ Readable(ini) /\ Readable(tmp) /\ Keeps(ini, tmp, s, k) /\ Says(tmp, s, k, AsRead(v))
      /\ OneLineApart(ini, tmp, s, KeyLine(k, v))
  BY <1>1 DEF Disk, Copied, Keeps
<1>3. ini_gets(tmp, s, k, "") = AsRead(v)
  BY <1>2, Zenon DEF Says
<1>4. OtherKeys(tmp) = Others(tmp, s, k) /\ OtherKeys(ini) = Others(ini, s, k)
  BY <1>1 DEF OtherKeys, Others
<1>5. OtherKeys(tmp) = OtherKeys(ini)
  BY <1>2, <1>4 DEF Keeps
<1>6. \A b \in OtherKeys(ini) : ini_haskey(tmp, b[1], b[2]) /\ ini_hassection(tmp, b[1])
  <2>1. \A b \in OtherKeys(tmp) : b \in ini_browse(tmp)
    BY DEF OtherKeys
  <2> QED BY <1>2, <1>5, <2>1, BrowsedIsFound
<1>7. \A f, n : /\ SectionNo(f, n) = 0 => ini_getsection(f, n) = ""
                /\ SectionNo(f, n) # 0 => ini_getsection(f, n) = f[SectionNo(f, n)].name
  BY Zenon DEF ini_getsection
<1>8. \A f, n : /\ KeyNo(f, s, n) = 0 => ini_getkey(f, s, n) = ""
                /\ KeyNo(f, s, n) # 0 => ini_getkey(f, s, n) = f[KeyNo(f, s, n)].name
  BY Zenon DEF ini_getkey
<1>9. NthKept(ini, tmp, s)
  BY <1>2 DEF Keeps
<1>10. ASSUME NEW n PROVE ini_getsection(ini, n) \in {"", ini_getsection(tmp, n)}
  <2>1. CASE SectionNo(ini, n) = 0
    BY <1>7, <2>1, Zenon
  <2>2. CASE SectionNo(ini, n) # 0
    <3>1. SectionNo(tmp, n) # 0 /\ tmp[SectionNo(tmp, n)].name = ini[SectionNo(ini, n)].name
      BY <1>9, <2>2 DEF NthKept
    <3>2. ini_getsection(ini, n) = ini_getsection(tmp, n)
      BY <1>7, <2>2, <3>1, Zenon
    <3> QED BY <3>2, Zenon
  <2> QED BY <2>1, <2>2, Zenon
<1>11. ASSUME NEW n PROVE ini_getkey(ini, s, n) \in {"", ini_getkey(tmp, s, n)}
  <2>1. CASE KeyNo(ini, s, n) = 0
    BY <1>8, <2>1, Zenon
  <2>2. CASE KeyNo(ini, s, n) # 0
    <3>1. KeyNo(tmp, s, n) # 0 /\ tmp[KeyNo(tmp, s, n)].name = ini[KeyNo(ini, s, n)].name
      BY <1>9, <2>2 DEF NthKept
    <3>2. ini_getkey(ini, s, n) = ini_getkey(tmp, s, n)
      BY <1>8, <2>2, <3>1, Zenon
    <3> QED BY <3>2, Zenon
  <2> QED BY <2>1, <2>2, Zenon
<1>12. \A n \in DOMAIN ini : /\ ini_getsection(ini, n) \in {"", ini_getsection(tmp, n)}
                             /\ ini_getkey(ini, P[1], n) \in {"", ini_getkey(tmp, P[1], n)}
  BY <1>1, <1>10, <1>11, Zenon
<1>13. ini_gets(tmp, P[1], P[2], "") = AsRead(P[3]) /\ OneLineApart(ini, tmp, P[1], KeyLine(P[2], P[3]))
  BY <1>1, <1>2, <1>3, Zenon
<1> QED BY <1>5, <1>6, <1>12, <1>13, Zenon DEF CopyKeepsOthers

(***************************************************************************)
(* What has been written is in the file.                                   *)
(***************************************************************************)
Shown == IF step = "removed" THEN tmp ELSE ini
InHand == IF step = "removed" THEN {PairOf(P)} ELSE {}
\* The file g says what was written last, but for the pair in hand.
Kept1(g, w, hand) == /\ \A p \in DOMAIN w : p = <<p[1], p[2]>>
                     /\ g # Absent => \A p \in DOMAIN w \ hand : SaysText(g, p[1], p[2], w[p])
\* The file is missing though it is not being replaced or restored.
Gone == ini = Absent /\ phase # "off" /\ wpc # "create" /\ step # "removed"
\* The file says what was written last, or its copy while it is replaced, and the file as well when
\* it could not be removed; nothing is held to be written when it is missing or to be replaced by
\* a part of its copy.
WrittenInv == /\ Kept1(Shown, written, InHand)
              /\ step = "removed" => Kept1(ini, written, {})
              /\ step = "lost" \/ Gone => DOMAIN written = {}

\* A put that is done is noted; what was noted before it is still in the file.
LEMMA NotedKept ==
  ASSUME NEW g, g # Absent, SaysText(g, P[1], P[2], P[3]), NEW hand, hand = {PairOf(P)},
         Kept1(g, written, hand), NEW none, none = {}
  PROVE  Kept1(g, Noted(P), none)
<1>1. PICK s, k, v : s = P[1] /\ k = P[2] /\ v = P[3]
  OBVIOUS
<1>2. PICK w : w = Noted(P)
  OBVIOUS
<1>3. /\ DOMAIN w = DOMAIN written \cup {<<s, k>>}
      /\ \A q \in DOMAIN w : w[q] = IF q = <<s, k>> THEN v ELSE written[q]
  BY <1>1, <1>2 DEF Noted
<1>4. hand = {<<s, k>>}
  BY <1>1 DEF PairOf
<1>5. ASSUME NEW q \in DOMAIN w PROVE q = <<q[1], q[2]>> /\ SaysText(g, q[1], q[2], w[q])
  <2>1. CASE q = <<s, k>>
    BY <1>1, <1>3, <2>1
  <2>2. CASE q # <<s, k>>
    <3>1. q \in DOMAIN written \ hand /\ w[q] = written[q]
      BY <1>3, <1>4, <1>5, <2>2
    <3> QED BY <3>1 DEF Kept1
  <2> QED BY <2>1, <2>2
<1> QED BY <1>2, <1>5 DEF Kept1

\* A put keeps what was written about the other pairs.
LEMMA PutKept ==
  ASSUME NEW f, NEW g, PutDone(f, g, P), NEW hand, hand = {PairOf(P)}, NEW none, none = {},
         Kept1(f, written, none), f # Absent \/ DOMAIN written = {}
  PROVE  Kept1(g, written, hand)
<1>1. PICK s, k, v : s = P[1] /\ k = P[2] /\ v = P[3]
  OBVIOUS
<1>2. hand = {<<s, k>>} /\ \A t, n, d : <<t, n>> # <<s, k>> => ini_gets(g, t, n, d) = ini_gets(f, t, n, d)
  BY <1>1 DEF PutDone, PairOf
<1>3. \A p \in DOMAIN written : p = <<p[1], p[2]>>
  BY DEF Kept1
<1>4. ASSUME NEW p \in DOMAIN written \ hand PROVE SaysText(g, p[1], p[2], written[p])
  <2>1. SaysText(f, p[1], p[2], written[p])
    BY <1>4 DEF Kept1
  <2>2. <<p[1], p[2]>> # <<s, k>>
    BY <1>2, <1>3, <1>4
  <2>3. \A d : ini_gets(g, p[1], p[2], d) = ini_gets(f, p[1], p[2], d)
    BY <1>2, <2>2
  <2> QED BY <2>1, <2>3 DEF SaysText, Says
<1> QED BY <1>3, <1>4 DEF Kept1

\* Every step keeps WrittenInv.
LEMMA WrittenStep ==
  ASSUME WrittenInv, Disk, Modes, Work, Next
  PROVE  WrittenInv'
<1> Steps
  BY NextSteps
<1>0. PICK none : none = {}
  OBVIOUS
<1>1. step # "removed" => Shown = ini /\ InHand = none
  BY <1>0 DEF Shown, InHand
<1>2. step' # "removed" => Shown' = ini' /\ InHand' = none
  BY <1>0 DEF Shown, InHand
<1>3. Kept1(Shown, written, InHand) /\ (step = "removed" => Kept1(ini, written, none))
  BY <1>0 DEF WrittenInv
<1>4. Kept1(ini, written, none)
  BY <1>1, <1>3
<1>5. ASSUME DOMAIN written' = {} PROVE WrittenInv'
  <2>1. PICK w, g, hand, f : w = written' /\ g = Shown' /\ hand = InHand' /\ f = ini'
    OBVIOUS
  <2>2. Kept1(g, w, hand) /\ Kept1(f, w, {})
    BY <1>5, <2>1 DEF Kept1
  <2> QED BY <1>5, <2>1, <2>2 DEF WrittenInv
<1>6. ASSUME written' = <<>> PROVE WrittenInv'
  <2>1. PICK w : w = written'
    OBVIOUS
  <2>2. DOMAIN w = {}
    BY <1>6, <2>1
  <2> QED BY <1>5, <2>1, <2>2
<1>7. ASSUME NEW g, g = ini', NEW w, w = written', Kept1(g, w, none), step' \notin {"removed", "lost"},
             Gone' => DOMAIN w = {}
      PROVE  WrittenInv'
  <2>1. Shown' = g /\ InHand' = none
    BY <1>2, <1>7
  <2> QED BY <1>7, <2>1 DEF WrittenInv
<1>8. ASSUME UNCHANGED <<ini, written>>, step' \notin {"removed", "lost"}, Gone' => Gone PROVE WrittenInv'
  <2>1. Gone' => DOMAIN written = {}
    BY <1>8 DEF WrittenInv
  <2> QED BY <1>4, <1>7, <1>8, <2>1
<1>9. ASSUME UNCHANGED <<ini, tmp, written, step, todo>>, Gone' => Gone PROVE WrittenInv'
  <2>1. Shown' = Shown /\ InHand' = InHand
    BY <1>9 DEF Shown, InHand, P, PairOf
  <2> QED BY <1>9, <2>1 DEF WrittenInv
<1>10. phase # "init" /\ wpc # "puts" => step = "next"
  BY NoPuts
<1>11. CASE Start
  <2>1. step' = "next"
    BY <1>10, <1>11 DEF Start, Modes
  <2>2. CASE ini = Absent
    BY <1>6, <1>11, <2>2 DEF Start, Create
  <2>3. CASE ini # Absent
    <3>1. UNCHANGED <<ini, written>>
      BY <1>11, <2>3 DEF Start
    <3> QED BY <1>8, <2>1, <2>3, <3>1 DEF Gone
  <2> QED BY <2>2, <2>3
<1>12. CASE EndInit \/ Load \/ Accept \/ Clear \/ Crash \/ SetSerial \/ SetRestart \/ GetInfo \/ PutsDone \/ Reply
  <2>1. CASE EndInit \/ Load
    <3>1. UNCHANGED <<ini, tmp, written, step, todo, wpc>> /\ phase # "off"
      BY <2>1 DEF EndInit, Load, disk
    <3> QED BY <1>9, <3>1 DEF Gone
  <2>2. CASE Accept \/ Clear \/ Crash
    <3>1. UNCHANGED <<ini, tmp, written, step, todo>> /\ phase # "off" /\ wpc # "create"
      BY <2>2 DEF Accept, Clear, Crash, disk, Modes
    <3> QED BY <1>9, <3>1 DEF Gone
  <2>3. CASE SetSerial \/ SetRestart \/ GetInfo \/ PutsDone \/ Reply
    <3>1. UNCHANGED <<ini, tmp, written, step, todo>> /\ phase # "off" /\ wpc # "create"
      BY <2>3 DEF SetSerial, SetRestart, GetInfo, PutsDone, Reply, disk, Modes
    <3> QED BY <1>9, <3>1 DEF Gone
  <2> QED BY <1>12, <2>1, <2>2, <2>3
<1>13. CASE Parse \/ SetSn \/ SetApn
  <2>1. UNCHANGED <<ini, written>> /\ step' = "next" /\ step = "next" /\ phase # "off" /\ wpc # "create"
    BY <1>10, <1>13 DEF Parse, SetSn, SetApn, Modes, disk
  <2> QED BY <1>8, <2>1 DEF Gone
<1>14. ASSUME PutStep
       PROVE  UNCHANGED <<phase, wpc>> /\ phase # "off" /\ wpc # "create"
  BY <1>14, PutStepsElse DEF Putting, Modes
<1>15. CASE Put
  <2>1. step = "next" /\ PutStep
    BY <1>15, PutSteps DEF PutStep
  <2>2. ini # Absent \/ DOMAIN written = {}
    BY <1>14, <2>1 DEF WrittenInv, Gone
  <2>3. CASE step' = "next"
    <3>1. PutDone(ini, ini', P) /\ written' = Noted(P)
      BY <1>15, <2>3, PutSteps
    <3>2. PICK g, hand, w : g = ini' /\ hand = {PairOf(P)} /\ w = Noted(P)
      OBVIOUS
    <3>3. PutDone(ini, g, P)
      BY <3>1, <3>2
    <3>4. Kept1(g, written, hand)
      BY <1>0, <1>4, <2>2, <3>2, <3>3, PutKept
    <3>5. g # Absent /\ SaysText(g, P[1], P[2], P[3])
      BY <3>3, AbsentIsNone DEF PutDone
    <3>6. Kept1(g, w, none)
      BY <1>0, <3>2, <3>4, <3>5, NotedKept
    <3>7. ~Gone'
      BY <3>2, <3>5 DEF Gone
    <3> QED BY <1>7, <2>3, <3>1, <3>2, <3>6, <3>7
  <2>4. CASE step' # "next"
    <3>1. ini' = ini /\ written' = written /\ step' = "copied" /\ Readable(ini)
      BY <1>15, <2>4, PutSteps
    <3>2. ~Gone'
      BY <3>1, AbsentIsNone DEF Gone
    <3> QED BY <1>8, <3>1, <3>2
  <2> QED BY <2>3, <2>4
<1>16. CASE PutFails
  <2>1. UNCHANGED <<ini, written, phase, wpc>> /\ step' = "next" /\ step = "next"
    BY <1>14, <1>16 DEF PutFails, Done, After, disk, PutStep
  <2> QED BY <1>8, <2>1 DEF Gone
<1>17. CASE WriteFails
  <2>1. CASE ini = Absent
    BY <1>6, <1>17, <2>1 DEF WriteFails
  <2>2. CASE ini # Absent
    <3>1. UNCHANGED <<ini, written>> /\ step' \in {"next", "torn"}
      BY <1>17, <2>2 DEF WriteFails, Unnoticed, After, disk
    <3>2. ~Gone'
      BY <2>2, <3>1 DEF Gone
    <3> QED BY <1>8, <3>1, <3>2
  <2> QED BY <2>1, <2>2
<1>18. CASE RemoveFile \/ RemoveFails
  <2>1. CASE step = "copied"
    <3>1. step' = "removed" /\ UNCHANGED <<tmp, todo, written>> /\ P' = P
      BY <1>18, <2>1 DEF RemoveFile, RemoveFails, ToRename, P
    <3>2. PICK f, g, hand : f = ini' /\ g = tmp /\ hand = {PairOf(P)}
      OBVIOUS
    <3>3. f = Absent \/ f = ini
      BY <1>18, <3>2 DEF RemoveFile, RemoveFails, Change
    <3>4. Kept1(f, written, none)
      BY <1>4, <3>3 DEF Kept1
    <3>5. PutDone(ini, g, P) /\ ini # Absent
      BY <2>1, <3>2, CopiedIsDone, AbsentIsNone DEF Disk
    <3>6. Kept1(g, written, hand)
      BY <1>0, <1>4, <3>2, <3>5, PutKept
    <3>7. Shown' = g /\ InHand' = hand
      BY <3>1, <3>2 DEF Shown, InHand, PairOf
    <3>8. ~Gone'
      BY <3>1 DEF Gone
    <3> QED BY <1>0, <3>1, <3>2, <3>4, <3>6, <3>7, <3>8 DEF WrittenInv
  <2>2. CASE step # "copied"
    BY <1>6, <1>18, <2>2 DEF RemoveFile, RemoveFails, ToRename
  <2> QED BY <2>1, <2>2
<1>19. CASE RenameCopy
  <2>1. CASE step = "removed"
    <3>1. ini' = tmp /\ Done(TRUE)
      BY <1>19, <2>1 DEF RenameCopy, Change
    <3>2. step' = "next" /\ written' = Noted(P)
      BY <3>1 DEF Done, After
    <3>3. PICK g, hand, w : g = tmp /\ hand = {PairOf(P)} /\ w = Noted(P)
      OBVIOUS
    <3>4. Kept1(g, written, hand)
      BY <1>3, <2>1, <3>3 DEF Shown, InHand
    <3>5. g # Absent /\ SaysText(g, P[1], P[2], P[3])
      BY <2>1, <3>3, AbsentIsNone DEF Disk
    <3>6. Kept1(g, w, none)
      BY <1>0, <3>3, <3>4, <3>5, NotedKept
    <3>7. ~Gone'
      BY <3>1, <3>3, <3>5 DEF Gone
    <3> QED BY <1>7, <3>1, <3>2, <3>3, <3>6, <3>7
  <2>2. CASE step # "removed"
    <3>1. step = "lost" /\ written' = written
      BY <1>19, <2>2 DEF RenameCopy
    <3>2. DOMAIN written' = {}
      BY <3>1 DEF WrittenInv
    <3> QED BY <1>5, <3>2
  <2> QED BY <2>1, <2>2
<1>20. CASE RenameFails
  <2>1. CASE ini = Absent
    BY <1>6, <1>20, <2>1 DEF RenameFails
  <2>2. CASE ini # Absent
    <3>1. UNCHANGED <<ini, written>> /\ step' = "next"
      BY <1>20, <2>2 DEF RenameFails, Unnoticed, After, disk
    <3>2. ~Gone'
      BY <2>2, <3>1 DEF Gone
    <3> QED BY <1>8, <3>1, <3>2
  <2> QED BY <2>1, <2>2
<1>21. CASE PowerCut
  <2>1. CASE ini' = ini
    <3>1. UNCHANGED <<ini, written>> /\ step' = "next" /\ phase' = "off"
      BY <1>21, <2>1 DEF PowerCut
    <3> QED BY <1>8, <3>1 DEF Gone
  <2>2. CASE ini' # ini
    BY <1>6, <1>21, <2>2 DEF PowerCut
  <2> QED BY <2>1, <2>2
<1>22. CASE RestoreRemove
  <2>1. step' = "next" /\ written' = written /\ wpc' = "create"
    BY <1>10, <1>22 DEF RestoreRemove, Modes
  <2>2. PICK g, w : g = ini' /\ w = written'
    OBVIOUS
  <2>3. g = Absent \/ g = ini
    BY <1>22, <2>2 DEF RestoreRemove, Change
  <2>4. Kept1(g, w, none)
    BY <1>4, <2>1, <2>2, <2>3 DEF Kept1
  <2>5. ~Gone'
    BY <2>1 DEF Gone
  <2> QED BY <1>7, <2>1, <2>2, <2>4, <2>5
<1>23. CASE RestoreCreate
  <2>1. step' = "next"
    BY <1>10, <1>23 DEF RestoreCreate, Modes
  <2>2. CASE ini = Absent
    BY <1>6, <1>23, <2>2 DEF RestoreCreate, Create
  <2>3. CASE ini # Absent
    <3>1. UNCHANGED <<ini, written>>
      BY <1>23, <2>3 DEF RestoreCreate, Create
    <3>2. ~Gone'
      BY <2>3, <3>1 DEF Gone
    <3> QED BY <1>8, <2>1, <3>1, <3>2
  <2> QED BY <2>2, <2>3
<1>24. CASE Cancel
  <2>1. UNCHANGED <<ini, tmp, written, step, todo, phase, wpc>>
    BY <1>24 DEF Cancel, rest, disk
  <2> QED BY <1>9, <2>1 DEF Gone
<1>25. CASE Elsewhere
  <2>1. UNCHANGED <<ini, tmp, written, step, todo, phase>> /\ (wpc' = wpc \/ wpc # "create")
    BY <1>25 DEF Elsewhere
  <2> QED BY <1>9, <2>1 DEF Gone
<1> QED BY <1>11, <1>12, <1>13, <1>15, <1>16, <1>17, <1>18, <1>19, <1>20, <1>21, <1>22, <1>23, <1>24, <1>25,
           SyncElsewhere DEF Steps

(***************************************************************************)
(* The globals and the file.                                               *)
(***************************************************************************)
LEMMA GetlIs ==
  ASSUME NEW f, NEW s, NEW k, NEW n
  PROVE  /\ ini_gets(f, s, k, NoText) = NoText => ini_getl(f, s, k, n) = n
         /\ \A i \in Numbers : ini_gets(f, s, k, NoText) = long2str(i) => ini_getl(f, s, k, n) = i
         /\ ini_getl(f, s, k, n) \in Numbers \cup {n}
<1>1. PICK t : t = ini_gets(f, s, k, NoText)
  OBVIOUS
<1>2. ini_getl(f, s, k, n) =
        IF t = NoText THEN n
        ELSE IF \E i \in Numbers : ToString(i) = t THEN CHOOSE i \in Numbers : ToString(i) = t
        ELSE 0
  BY <1>1, Zenon DEF ini_getl, NoText
<1>3. \A i \in Numbers : ToString(i) # NoText
  BY IniAssumption, Zenon DEF NoText
<1>4. \A i, j \in Numbers : ToString(i) = ToString(j) => i = j
  BY IniAssumption
<1>5. ASSUME NEW i \in Numbers, t = long2str(i) PROVE ini_getl(f, s, k, n) = i
  <2>1. ToString(i) = t
    BY <1>5 DEF long2str
  <2>2. PICK c : c = CHOOSE j \in Numbers : ToString(j) = t
    OBVIOUS
  <2>3. c \in Numbers /\ ToString(c) = t
    BY <2>1, <2>2
  <2>4. c = i
    BY <1>4, <2>1, <2>3
  <2>5. t # NoText
    BY <1>3, <2>1
  <2> QED BY <1>2, <2>1, <2>2, <2>4, <2>5
<1>6. 0 \in Numbers
  BY IniAssumption
<1>7. ini_getl(f, s, k, n) \in Numbers \cup {n}
  <2>1. CASE t = NoText
    BY <1>2, <2>1
  <2>2. CASE t # NoText /\ \E i \in Numbers : ToString(i) = t
    <3>1. PICK i \in Numbers : t = long2str(i)
      BY <2>2 DEF long2str
    <3> QED BY <1>5, <3>1
  <2>3. CASE t # NoText /\ ~\E i \in Numbers : ToString(i) = t
    BY <1>2, <1>6, <2>3
  <2> QED BY <2>1, <2>2, <2>3
<1> QED BY <1>1, <1>2, <1>5, <1>7

\* What load_config takes for pair p from the file f.
Loaded(f, p) == load_config(f, Zero)[p]
\* load_config reads a number or a text.
LEMMA LoadedIs ==
  ASSUME NEW f, NEW p \in Pairs
  PROVE  /\ p \in IntPairs => Loaded(f, p) = get_date_int(f, p, Zero[p])
         /\ p \notin IntPairs => Loaded(f, p) = get_date_str(f, p, Zero[p])
BY DEF Loaded, load_config

\* Every global is a text or a number, and none is both.
LEMMA PairKinds == Pairs = StrPairs \cup IntPairs /\ \A p \in IntPairs : p \notin StrPairs
BY DEF Pairs, StrPairs, IntPairs

\* What Reloaded and Zero say of a number and of a text.
LEMMA ReloadedIs ==
  ASSUME NEW p \in Pairs, NEW v
  PROVE  /\ p \in IntPairs => Zero[p] = 0 /\ Reloaded(p, v) = IF v = -1 THEN 0 ELSE v
         /\ p \notin IntPairs => /\ Zero[p] = NoText
                               /\ Reloaded(p, v) = IF AsRead(v) \in Dummies THEN NoText ELSE AsRead(v)
<1>1. Zero[p] = IF p \in IntPairs THEN 0 ELSE NoText
  BY Zenon DEF Zero, NoText
<1>2. p \in IntPairs => Reloaded(p, v) = IF v = -1 THEN 0 ELSE v
  BY Zenon DEF Reloaded
<1>3. p \notin IntPairs => Reloaded(p, v) = IF AsRead(v) \in Dummies THEN NoText ELSE AsRead(v)
  BY Zenon DEF Reloaded, NoText
<1> QED BY <1>1, <1>2, <1>3

\* The value v that was loaded is what the globals m hold of p, or what that is after a restart.
Like(v, m, p) == v \in {m[p], Reloaded(p, m[p])}
\* It takes what a put has written.
LEMMA LoadsPut ==
  ASSUME NEW g, NEW x, NEW m, Carries(x, m), PairOf(x) \in Pairs, SaysText(g, x[1], x[2], x[3])
  PROVE  Like(Loaded(g, PairOf(x)), m, PairOf(x))
<1>1. PICK p, v : p = PairOf(x) /\ v = x[3]
  OBVIOUS
<1>2. p[1] = x[1] /\ p[2] = x[2] /\ p \in Pairs
  BY <1>1 DEF PairOf
<1>3. PICK t \in {v, AsRead(v)} : \A d : ini_gets(g, p[1], p[2], d) = t
  BY <1>1, <1>2 DEF SaysText, Says
<1>4. CASE p \in IntPairs
  <2>1. PICK n : n = m[p]
    OBVIOUS
  <2>2. n \in Numbers /\ v = long2str(n)
    BY <1>1, <1>4, <2>1 DEF Carries
  <2>3. AsRead(v) = v
    BY <2>2, IniAssumption DEF AsRead, long2str
  <2>4. ini_gets(g, p[1], p[2], NoText) = long2str(n)
    BY <1>3, <2>2, <2>3
  <2>5. ini_getl(g, p[1], p[2], -1) = n
    BY <2>2, <2>4, GetlIs
  <2>6. get_date_int(g, p, Zero[p]) = IF n = -1 THEN Zero[p] ELSE n
    BY <2>5 DEF get_date_int
  <2>7. get_date_int(g, p, Zero[p]) = Reloaded(p, n)
    BY <1>2, <1>4, <2>6, ReloadedIs
  <2> QED BY <1>1, <1>2, <1>4, <2>1, <2>7, LoadedIs DEF Like
<1>5. CASE p \notin IntPairs
  <2>1. p \in StrPairs
    BY <1>2, <1>5, PairKinds
  <2>2. v = m[p]
    BY <1>1, <2>1 DEF Carries
  <2>3. get_date_str(g, p, Zero[p]) = IF t \in Dummies THEN Zero[p] ELSE t
    BY <1>3 DEF get_date_str
  <2>4. t \in Dummies => AsRead(v) = t
    BY <1>3, SettingsAssumption DEF AsRead
  <2>5. get_date_str(g, p, Zero[p]) \in {v, Reloaded(p, v)}
    <3>1. CASE t \in Dummies
      BY <1>2, <1>5, <2>3, <2>4, <3>1, ReloadedIs
    <3>2. CASE t \notin Dummies
      BY <1>2, <1>3, <1>5, <2>3, <3>2, ReloadedIs
    <3> QED BY <3>1, <3>2
  <2> QED BY <1>1, <1>2, <1>5, <2>2, <2>5, LoadedIs DEF Like
<1> QED BY <1>4, <1>5

\* And of every other pair what it took before.
LEMMA LoadsKept ==
  ASSUME NEW f, NEW g, NEW x, PutDone(f, g, x), NEW p \in Pairs, p # PairOf(x)
  PROVE  Loaded(g, p) = Loaded(f, p)
<1>1. p = <<p[1], p[2]>>
  BY TcpPairs
<1>2. <<p[1], p[2]>> # <<x[1], x[2]>>
  BY <1>1 DEF PairOf
<1>3. \A d : ini_gets(g, p[1], p[2], d) = ini_gets(f, p[1], p[2], d)
  BY <1>2 DEF PutDone
<1>4. get_date_str(g, p, Zero[p]) = get_date_str(f, p, Zero[p])
  BY <1>3 DEF get_date_str
<1>5. ini_getl(g, p[1], p[2], -1) = ini_getl(f, p[1], p[2], -1)
  BY <1>3, Zenon DEF ini_getl
<1>6. get_date_int(g, p, Zero[p]) = get_date_int(f, p, Zero[p])
  BY <1>5 DEF get_date_int
<1> QED BY <1>4, <1>6, LoadedIs

\* For each pair the globals hold what load_config would read, or what does not come back from a
\* restart, but for those that a command has cleared or that wait in the list of its puts.
Pending(t, p) == \E i \in DOMAIN t : PairOf(t[i]) = p
Cleared(p) == wpc = "parse" /\ p[1] = IF cmd = "ntp" THEN "ntp_config" ELSE "tcp_server"
Agrees(m, f, t, p) == Pending(t, p) \/ Like(Loaded(f, p), m, p)
AllCarry(t, m) == \A i \in DOMAIN t : Carries(t[i], m)
MemoryInv ==
  /\ mem = [p \in Pairs |-> mem[p]] /\ (phase \notin {"up", "stuck"} => mem = Zero)
  /\ phase = "up" /\ wpc # "create" /\ ~stale =>
       AllCarry(todo, mem) /\ \A p \in Pairs : Cleared(p) \/ Agrees(mem, Shown, todo, p)

\* A put of the list changes the file only where the list still has to write.
LEMMA WrittenAgrees ==
  ASSUME NEW t, WorkList(t), t # <<>>, NEW x, x = t[1], NEW f, NEW g, PutDone(f, g, x), NEW m,
         NEW p \in Pairs, Agrees(m, f, t, p)
  PROVE  Agrees(m, g, t, p)
<1>1. CASE Pending(t, p)
  BY <1>1 DEF Agrees
<1>2. CASE ~Pending(t, p)
  <2>1. 1 \in DOMAIN t
    BY DEF WorkList
  <2>2. p # PairOf(x)
    BY <1>2, <2>1 DEF Pending
  <2>3. Loaded(g, p) = Loaded(f, p)
    BY <2>2, LoadsKept
  <2> QED BY <1>2, <2>3 DEF Agrees
<1> QED BY <1>1, <1>2

\* Once a put is written, the file and the globals agree on what it wrote.
LEMMA TakenAgrees ==
  ASSUME NEW t, WorkList(t), t # <<>>, NEW x, x = t[1], NEW g, SaysText(g, x[1], x[2], x[3]), NEW m,
         AllCarry(t, m), NEW p \in Pairs, Agrees(m, g, t, p), NEW u, u = Tail(t)
  PROVE  Agrees(m, g, u, p)
<1>1. 1 \in DOMAIN t
  BY DEF WorkList
<1>2. CASE p = PairOf(x)
  <2>1. Carries(x, m)
    BY <1>1 DEF AllCarry
  <2>2. Like(Loaded(g, p), m, p)
    BY <1>2, <2>1, LoadsPut
  <2> QED BY <2>2 DEF Agrees
<1>3. CASE p # PairOf(x) /\ Pending(t, p)
  <2>1. PICK i \in DOMAIN t : PairOf(t[i]) = p
    BY <1>3 DEF Pending
  <2>2. i # 1
    BY <1>3, <2>1
  <2>3. /\ \A j \in DOMAIN u : j + 1 \in DOMAIN t /\ u[j] = t[j + 1]
        /\ \A j \in DOMAIN t : j = 1 \/ j - 1 \in DOMAIN u
    BY TailWorks
  <2>4. i \in Int
    BY <2>1 DEF WorkList
  <2>5. i - 1 \in DOMAIN u /\ (i - 1) + 1 = i
    BY <2>1, <2>2, <2>3, <2>4
  <2>6. u[i - 1] = t[i]
    BY <2>3, <2>5
  <2> QED BY <2>1, <2>5, <2>6 DEF Agrees, Pending
<1>4. CASE ~Pending(t, p)
  BY <1>4 DEF Agrees
<1> QED BY <1>2, <1>3, <1>4

\* The rest of the list still carries the globals.
LEMMA TakenCarry ==
  ASSUME NEW t, WorkList(t), t # <<>>, NEW m, AllCarry(t, m), NEW u, u = Tail(t)
  PROVE  AllCarry(u, m)
<1>1. \A j \in DOMAIN u : j + 1 \in DOMAIN t /\ u[j] = t[j + 1]
  BY TailWorks
<1> QED BY <1>1 DEF AllCarry

\* A list about other pairs says nothing against the globals.
LEMMA OtherPuts ==
  ASSUME NEW t, NEW m, \A i \in DOMAIN t : t[i][1] \in {"apn", "sn"}
  PROVE  AllCarry(t, m)
<1>1. \A p \in Pairs : p[1] \notin {"apn", "sn"}
  BY DEF Pairs, StrPairs, IntPairs
<1>2. ASSUME NEW i \in DOMAIN t PROVE Carries(t[i], m)
  <2>1. PairOf(t[i])[1] \in {"apn", "sn"}
    BY DEF PairOf
  <2>2. PairOf(t[i]) \notin Pairs
    BY <1>1, <2>1
  <2> QED BY <2>2, PairKinds DEF Carries
<1> QED BY <1>2 DEF AllCarry

\* Every step keeps MemoryInv.
LEMMA MemoryStep ==
  ASSUME MemoryInv, Disk, Modes, Args, Work, Next
  PROVE  MemoryInv'
<1> Steps
  BY NextSteps
<1> DEFINE Same == mem = [p \in Pairs |-> mem[p]] /\ (phase \notin {"up", "stuck"} => mem = Zero)
           All(m, f, t) == \A p \in Pairs : Agrees(m, f, t, p)
           Clean1 == phase = "up" /\ wpc # "create" /\ wpc # "parse" /\ ~stale => AllCarry(todo, mem) /\ All(mem, Shown, todo)
<1>0. Same /\ Clean1
  BY DEF MemoryInv, Cleared
<1>1. ASSUME UNCHANGED mem, phase \in {"up", "stuck"} => phase' \in {"up", "stuck"} PROVE Same'
  BY <1>0, <1>1
<1>2. ASSUME Same', phase' # "up" \/ wpc' = "create" \/ stale' PROVE MemoryInv'
  BY <1>2 DEF MemoryInv
<1>3. ASSUME Same', NEW m, m = mem', NEW f, f = Shown', NEW t, t = todo', AllCarry(t, m), All(m, f, t)
      PROVE  MemoryInv'
  BY <1>3 DEF MemoryInv
<1>4. ASSUME UNCHANGED <<mem, ini, tmp, todo, step>>, phase = "up", phase' = "up", wpc # "create", wpc # "parse",
             stale => stale'
      PROVE  MemoryInv'
  <2>1. Same'
    BY <1>1, <1>4
  <2>2. CASE stale
    BY <1>2, <1>4, <2>1, <2>2
  <2>3. CASE ~stale
    <3>1. AllCarry(todo, mem) /\ All(mem, Shown, todo)
      BY <1>0, <1>4, <2>3
    <3>2. Shown' = Shown
      BY <1>4 DEF Shown
    <3> HIDE DEF All, Same
    <3> QED BY <1>3, <1>4, <2>1, <3>1, <3>2
  <2> QED BY <2>2, <2>3
<1> HIDE DEF Same, All
<1>5. phase # "init" /\ wpc # "puts" => step = "next" /\ todo = <<>>
  BY NoPuts
<1>6. CASE Start \/ EndInit
  <2>1. UNCHANGED mem /\ phase \notin {"up", "stuck"} /\ phase' # "up"
    BY <1>6 DEF Start, EndInit
  <2> QED BY <1>1, <1>2, <2>1
<1>24. CASE Crash
  <2>1. UNCHANGED mem /\ phase' = "stuck"
    BY <1>24 DEF Crash
  <2> QED BY <1>1, <1>2, <2>1
<1>7. CASE PowerCut
  <2>1. mem' = Zero /\ phase' = "off"
    BY <1>7 DEF PowerCut
  <2>2. Same'
    BY <2>1 DEF Same, Zero
  <2> QED BY <1>2, <2>1, <2>2
<1>8. CASE Load
  <2>1. phase = "load" /\ phase' = "up" /\ UNCHANGED <<ini, todo, step, stale>> /\ step = "next" /\ todo = <<>>
    BY <1>5, <1>8 DEF Load, Modes, disk
  <2>2. mem = Zero
    BY <1>0, <2>1 DEF Same
  <2>3. mem' = load_config(ini, Zero)
    BY <1>8, <2>2 DEF Load
  <2>4. Same'
    BY <2>1, <2>3 DEF Same, load_config
  <2>5. PICK m, f, t : m = mem' /\ f = ini /\ t = todo
    OBVIOUS
  <2>6. f = Shown' /\ t = todo'
    BY <2>1, <2>5 DEF Shown
  <2>7. All(m, f, t)
    BY <2>3, <2>5 DEF All, Agrees, Like, Loaded
  <2>8. AllCarry(t, m)
    BY <2>1, <2>5 DEF AllCarry
  <2> QED BY <1>3, <2>4, <2>5, <2>6, <2>7, <2>8
<1>9. CASE Accept
  <2>1. UNCHANGED <<mem, ini, tmp, todo, step, stale, phase>> /\ phase = "up" /\ wpc = "idle"
    BY <1>9 DEF Accept, disk
  <2> QED BY <1>4, <2>1
<1>10. CASE SetSerial \/ SetRestart \/ GetInfo \/ Reply \/ PutsDone
  <2>1. UNCHANGED <<mem, ini, tmp, todo, step, stale, phase>> /\ wpc \in {"do", "reply", "puts"}
    BY <1>10 DEF SetSerial, SetRestart, GetInfo, Reply, PutsDone, disk
  <2>2. phase = "up"
    BY <2>1 DEF Modes
  <2> QED BY <1>4, <2>1, <2>2
<1>11. CASE Cancel
  <2>1. UNCHANGED <<mem, ini, tmp, todo, step, stale, phase, wpc, cmd>> /\ phase = "up"
    BY <1>11 DEF Cancel, rest, disk, command
  <2>2. MemoryInv' = MemoryInv
    BY <2>1 DEF MemoryInv, Cleared, Shown
  <2> QED BY <2>2
<1>12. CASE Elsewhere
  <2>1. UNCHANGED <<mem, ini, tmp, todo, step, stale, phase, cmd>>
    BY <1>12 DEF Elsewhere
  <2>2. CASE UNCHANGED wpc
    <3>1. MemoryInv' = MemoryInv
      BY <2>1, <2>2 DEF MemoryInv, Cleared, Shown
    <3> QED BY <3>1
  <2>3. CASE wpc = "sync"
    <3>1. phase = "up"
      BY <2>3 DEF Modes
    <3> QED BY <1>4, <2>1, <2>3, <3>1
  <2> QED BY <1>12, <2>2, <2>3 DEF Elsewhere
<1>13. CASE RestoreRemove
  <2>1. UNCHANGED <<mem, phase>> /\ wpc' = "create"
    BY <1>13 DEF RestoreRemove
  <2> QED BY <1>1, <1>2, <2>1
<1>14. CASE RestoreCreate
  <2>1. UNCHANGED <<mem, phase>> /\ stale' = TRUE
    BY <1>14 DEF RestoreCreate
  <2> QED BY <1>1, <1>2, <2>1
<1>15. CASE PutFails
  <2>1. UNCHANGED <<mem, phase>> /\ stale'
    BY <1>15, Zenon DEF PutFails, Done
  <2> QED BY <1>1, <1>2, <2>1
<1>25. CASE RenameFails \/ (RenameCopy /\ step # "removed")
  <2>1. stale'
    <3>1. Unnoticed
      BY <1>25 DEF RenameFails, RenameCopy
    <3> QED BY <3>1, Zenon DEF Unnoticed
  <2>2. UNCHANGED <<mem, phase>>
    BY <1>25, PutStepsElse DEF PutStep
  <2> QED BY <1>1, <1>2, <2>1, <2>2
<1>26. CASE (RemoveFile \/ RemoveFails) /\ step # "copied"
  <2>1. stale'
    <3>1. ToRename
      BY <1>26 DEF RemoveFile, RemoveFails
    <3>2. stale' = TRUE
      BY <1>26, <3>1, Zenon DEF ToRename
    <3> QED BY <3>2
  <2>2. UNCHANGED <<mem, phase>>
    BY <1>26, PutStepsElse DEF PutStep
  <2> QED BY <1>1, <1>2, <2>1, <2>2
<1>16. ASSUME phase = "up", wpc = "puts", ~stale PROVE AllCarry(todo, mem) /\ All(mem, Shown, todo)
  BY <1>0, <1>16
<1>17. ASSUME todo # <<>>, UNCHANGED <<phase, wpc, mem>>, ~stale' => ~stale,
              phase = "up" /\ wpc = "puts" /\ ~stale =>
                AllCarry(todo', mem) /\ All(mem, Shown', todo')
       PROVE  MemoryInv'
  <2>1. Same'
    BY <1>1, <1>17
  <2>2. phase = "init" \/ (phase = "up" /\ wpc = "puts")
    BY <1>17 DEF Work, Modes
  <2>3. CASE phase = "init"
    BY <1>2, <1>17, <2>1, <2>3
  <2>4. CASE stale'
    BY <1>2, <2>1, <2>4
  <2>5. CASE phase = "up" /\ wpc = "puts" /\ ~stale'
    <3>1. AllCarry(todo', mem) /\ All(mem, Shown', todo')
      BY <1>17, <2>5
    <3>2. PICK m, f, t : m = mem' /\ f = Shown' /\ t = todo'
      OBVIOUS
    <3>3. AllCarry(t, m) /\ All(m, f, t)
      BY <1>17, <3>1, <3>2
    <3> QED BY <1>3, <2>1, <3>2, <3>3
  <2> QED BY <2>2, <2>3, <2>4, <2>5
<1>18. CASE Put
  <2>1. PICK x, t, u : x = P /\ t = todo /\ u = Tail(todo)
    OBVIOUS
  <2>2. /\ t # <<>> /\ WorkList(t) /\ x = t[1] /\ u = Tail(t) /\ step = "next"
        /\ UNCHANGED <<phase, wpc, mem>> /\ (stale => stale')
    BY <1>18, <2>1, PutSteps DEF Work, P
  <2>3. Shown = ini
    BY <2>2 DEF Shown
  <2>4. ASSUME phase = "up", wpc = "puts", ~stale PROVE AllCarry(todo', mem) /\ All(mem, Shown', todo')
    <3>1. AllCarry(t, mem) /\ All(mem, ini, t)
      BY <1>16, <2>1, <2>3, <2>4
    <3>2. CASE step' = "next"
      <4>1. PICK g : g = ini'
        OBVIOUS
      <4>2. PutDone(ini, g, x) /\ todo' = u /\ Shown' = g /\ SaysText(g, x[1], x[2], x[3])
        BY <1>18, <2>1, <3>2, <4>1, PutSteps DEF Shown, PutDone
      <4>3. AllCarry(u, mem)
        BY <2>2, <3>1, TakenCarry
      <4>4. ASSUME NEW p \in Pairs PROVE Agrees(mem, g, u, p)
        <5>1. Agrees(mem, ini, t, p)
          BY <3>1 DEF All
        <5>2. Agrees(mem, g, t, p)
          BY <2>2, <4>2, <5>1, WrittenAgrees
        <5> QED BY <2>2, <3>1, <4>2, <5>2, TakenAgrees
      <4> QED BY <4>2, <4>3, <4>4 DEF All
    <3>3. CASE step' # "next"
      <4>1. todo' = t /\ Shown' = ini
        BY <1>18, <2>1, <3>3, PutSteps DEF Shown
      <4> QED BY <3>1, <4>1
    <3> QED BY <3>2, <3>3
  <2> QED BY <1>17, <2>1, <2>2, <2>4
<1>27. CASE WriteFails
  <2>1. UNCHANGED <<phase, wpc, mem>> /\ todo # <<>> /\ step = "next"
    BY <1>27, PutStepsElse DEF PutStep, WriteFails, Putting
  <2>2. CASE Unnoticed
    <3>1. stale'
      BY <2>2, Zenon DEF Unnoticed
    <3> QED BY <1>1, <1>2, <2>1, <3>1
  <2>3. CASE ~Unnoticed
    <3>1. step' = "torn" /\ UNCHANGED <<ini, todo, stale>>
      BY <1>27, <2>3 DEF WriteFails
    <3>2. Shown' = Shown
      BY <2>1, <3>1 DEF Shown
    <3> QED BY <1>16, <1>17, <2>1, <3>1, <3>2
  <2> QED BY <2>2, <2>3
<1>19. CASE (RemoveFile \/ RemoveFails) /\ step = "copied"
  <2>1. /\ todo # <<>> /\ UNCHANGED <<phase, wpc, mem, todo, tmp, stale>> /\ step = "copied"
        /\ step' = "removed"
    BY <1>19 DEF RemoveFile, RemoveFails, ToRename, Putting, command
  <2>2. PICK x, t, f, g : x = P /\ t = todo /\ f = ini /\ g = tmp
    OBVIOUS
  <2>3. t # <<>> /\ WorkList(t) /\ x = t[1] /\ PutDone(f, g, x)
    BY <2>1, <2>2, CopiedIsDone DEF Work, P, Disk
  <2>4. Shown = f /\ Shown' = g
    BY <2>1, <2>2 DEF Shown
  <2>5. ASSUME phase = "up", wpc = "puts", ~stale PROVE AllCarry(todo', mem) /\ All(mem, Shown', todo')
    <3>1. AllCarry(t, mem) /\ All(mem, f, t)
      BY <1>16, <2>2, <2>4, <2>5
    <3>2. ASSUME NEW p \in Pairs PROVE Agrees(mem, g, t, p)
      <4>1. Agrees(mem, f, t, p)
        BY <3>1 DEF All
      <4> QED BY <2>3, <4>1, WrittenAgrees
    <3> QED BY <2>1, <2>2, <2>4, <3>1, <3>2 DEF All
  <2> QED BY <1>17, <2>1, <2>5
<1>20. CASE RenameCopy /\ step = "removed"
  <2>1. /\ todo # <<>> /\ UNCHANGED <<phase, wpc, mem>> /\ step = "removed" /\ step' = "next"
        /\ ini' = tmp /\ todo' = Tail(todo)
    BY <1>20 DEF RenameCopy, Putting, Done, After, Change, command
  <2>2. stale => stale'
    <3>1. Done(TRUE)
      BY <1>20 DEF RenameCopy
    <3> QED BY <3>1, Zenon DEF Done
  <2>3. PICK x, t, u, g : x = P /\ t = todo /\ u = Tail(todo) /\ g = tmp
    OBVIOUS
  <2>4. t # <<>> /\ WorkList(t) /\ x = t[1] /\ u = Tail(t) /\ SaysText(g, x[1], x[2], x[3])
    BY <2>1, <2>3 DEF Work, P, Disk
  <2>5. Shown = g /\ Shown' = g
    BY <2>1, <2>3 DEF Shown
  <2>6. ASSUME phase = "up", wpc = "puts", ~stale PROVE AllCarry(todo', mem) /\ All(mem, Shown', todo')
    <3>1. AllCarry(t, mem) /\ All(mem, g, t)
      BY <1>16, <2>3, <2>5, <2>6
    <3>2. AllCarry(u, mem)
      BY <2>4, <3>1, TakenCarry
    <3>3. ASSUME NEW p \in Pairs PROVE Agrees(mem, g, u, p)
      <4>1. Agrees(mem, g, t, p)
        BY <3>1 DEF All
      <4> QED BY <2>4, <3>1, <4>1, TakenAgrees
    <3> QED BY <2>1, <2>3, <2>5, <3>2, <3>3 DEF All
  <2> QED BY <1>17, <2>1, <2>2, <2>6
<1>21. CASE SetSn \/ SetApn
  <2>1. /\ phase = "up" /\ UNCHANGED <<phase, mem, ini, tmp, step, stale>> /\ wpc = "do"
        /\ step = "next" /\ todo = <<>>
    BY <1>5, <1>21 DEF SetSn, SetApn, Modes, disk
  <2>2. Same'
    BY <1>1, <2>1
  <2>3. PICK m, f, t : m = mem' /\ f = Shown' /\ t = todo'
    OBVIOUS
  <2>4. m = mem /\ f = Shown
    BY <2>1, <2>3 DEF Shown
  <2>5. CASE stale'
    BY <1>2, <2>2, <2>5
  <2>6. CASE ~stale'
    <3>1. All(mem, Shown, todo)
      BY <1>0, <2>1, <2>6
    <3>2. \A i \in DOMAIN t : t[i][1] \in {"apn", "sn"}
      <4>1. CASE SetSn
        <5>1. t = todo \/ t = exec_set_sn_operation(parse_sn_json(arg))
          BY <2>3, <4>1 DEF SetSn
        <5>2. CASE t = todo
          BY <2>1, <5>2
        <5>3. CASE t = exec_set_sn_operation(parse_sn_json(arg))
          BY <5>3 DEF exec_set_sn_operation, Str, Int1
        <5> QED BY <5>1, <5>2, <5>3
      <4>2. CASE SetApn
        BY <2>3, <4>2 DEF SetApn, exec_set_apn_operation, Str
      <4> QED BY <1>21, <4>1, <4>2
    <3>3. AllCarry(t, m)
      BY <3>2, OtherPuts
    <3>4. All(m, f, t)
      <4>1. ASSUME NEW p \in Pairs PROVE Agrees(m, f, t, p)
        <5>1. Agrees(mem, Shown, todo, p)
          BY <3>1 DEF All
        <5>2. ~Pending(todo, p)
          BY <2>1 DEF Pending
        <5> QED BY <2>4, <5>1, <5>2 DEF Agrees, Like
      <4> QED BY <4>1 DEF All
    <3> QED BY <1>3, <2>2, <2>3, <3>3, <3>4
  <2> QED BY <2>5, <2>6
<1>22. CASE Clear
  <2>1. /\ phase = "up" /\ UNCHANGED <<phase, ini, tmp, step, todo, stale, cmd>> /\ wpc = "clear" /\ wpc' = "parse"
        /\ step = "next" /\ todo = <<>>
    BY <1>5, <1>22 DEF Clear, Modes, disk, command
  <2>2. PICK s : s = IF cmd = "ntp" THEN "ntp_config" ELSE "tcp_server"
    OBVIOUS
  <2>3. mem' = [p \in Pairs |-> IF p[1] = s THEN Zero[p] ELSE mem[p]]
    BY <1>22, <2>2 DEF Clear
  <2>4. Same'
    BY <2>1, <2>3 DEF Same
  <2>5. PICK m, f, t : m = mem' /\ f = Shown' /\ t = todo'
    OBVIOUS
  <2>6. t = <<>> /\ t = todo /\ f = Shown
    BY <2>1, <2>5 DEF Shown
  <2>7. AllCarry(t, m)
    BY <2>6 DEF AllCarry
  <2>8. CASE stale
    BY <1>2, <2>1, <2>4, <2>8
  <2>9. CASE ~stale
    <3>1. All(mem, f, t)
      BY <1>0, <2>1, <2>6, <2>9
    <3>2. ASSUME NEW p \in Pairs PROVE Cleared(p)' \/ Agrees(m, f, t, p)
      <4>1. CASE p[1] = s
        BY <2>1, <2>2, <4>1 DEF Cleared
      <4>2. CASE p[1] # s
        <5>1. Agrees(mem, f, t, p) /\ m[p] = mem[p]
          BY <2>3, <2>5, <3>1, <4>2 DEF All
        <5> QED BY <5>1 DEF Agrees, Like
      <4> QED BY <4>1, <4>2
    <3> QED BY <2>4, <2>5, <2>7, <3>2 DEF MemoryInv, Same
  <2> QED BY <2>8, <2>9
<1>23. CASE Parse
  <2>1. /\ phase = "up" /\ UNCHANGED <<phase, ini, tmp, step, stale, cmd>> /\ wpc = "parse" /\ wpc' = "puts"
        /\ step = "next" /\ todo = <<>> /\ cmd \in {"general", "ntp"}
    BY <1>5, <1>23 DEF Parse, Modes, disk, command
  <2>2. PICK s : s = IF cmd = "ntp" THEN "ntp_config" ELSE "tcp_server"
    OBVIOUS
  <2>3. PICK m, f, t : m = mem' /\ f = Shown' /\ t = todo'
    OBVIOUS
  <2>4. f = Shown
    BY <2>1, <2>3 DEF Shown
  <2>5. /\ Covers(t, s, m) /\ m = [p \in Pairs |-> m[p]]
        /\ \A p \in Pairs : p[1] # s => m[p] = mem[p]
    <3>1. CASE cmd = "ntp"
      <4>1. m = parse_ntp_json(arg, mem) /\ t = exec_set_ntp_operation(m) /\ arg \in NtpArgs
        BY <1>23, <2>3, <3>1 DEF Parse, Args
      <4>2. m = [p \in Pairs |-> m[p]] /\ \A p \in Pairs : p[1] # s => m[p] = mem[p]
        BY <2>2, <3>1, <4>1 DEF parse_ntp_json
      <4> QED BY <2>2, <3>1, <4>1, <4>2, NtpWorks
    <3>2. CASE cmd = "general"
      <4>1. m = parse_general_json(arg, mem) /\ t = exec_set_general_operation(m) /\ arg \in GeneralArgs
        BY <1>23, <2>3, <3>2 DEF Parse, Args
      <4>2. m = [p \in Pairs |-> m[p]] /\ \A p \in Pairs : p[1] # s => m[p] = mem[p]
        BY <2>2, <3>2, <4>1 DEF parse_general_json
      <4> QED BY <2>2, <3>2, <4>1, <4>2, GeneralWorks
    <3> QED BY <2>1, <3>1, <3>2
  <2>6. Same'
    BY <2>1, <2>3, <2>5 DEF Same
  <2>7. AllCarry(t, m)
    BY <2>5 DEF Covers, AllCarry
  <2>8. CASE stale
    BY <1>2, <2>1, <2>6, <2>8
  <2>9. CASE ~stale
    <3>1. \A p \in Pairs : Cleared(p) \/ Agrees(mem, Shown, todo, p)
      BY <2>1, <2>9 DEF MemoryInv
    <3>2. ASSUME NEW p \in Pairs PROVE Agrees(m, f, t, p)
      <4>1. CASE p[1] = s
        BY <2>5, <4>1 DEF Covers, Agrees, Pending
      <4>2. CASE p[1] # s
        <5>1. ~Cleared(p) /\ ~Pending(todo, p)
          BY <2>1, <2>2, <4>2 DEF Cleared, Pending
        <5>2. Like(Loaded(f, p), mem, p)
          BY <2>4, <3>1, <5>1 DEF Agrees
        <5> QED BY <2>5, <4>2, <5>2 DEF Agrees, Like
      <4> QED BY <4>1, <4>2
    <3> QED BY <1>3, <2>3, <2>6, <2>7, <3>2 DEF All
  <2> QED BY <2>8, <2>9
<1> QED BY <1>6, <1>7, <1>8, <1>9, <1>10, <1>11, <1>12, <1>13, <1>14, <1>15, <1>18, <1>19, <1>20, <1>21,
          <1>22, <1>23, <1>24, <1>25, <1>26, <1>27, SyncElsewhere DEF Steps

(***************************************************************************)
(* The inductive invariant and the theorems.                               *)
(***************************************************************************)
IInv == Control /\ Disk /\ WrittenInv /\ MemoryInv

\* The daemon is off, with the file it finds or none, and nothing has been written.
LEMMA InitIInv == Init => IInv
<1> SUFFICES ASSUME Init PROVE IInv
  OBVIOUS
<1>1. /\ phase = "off" /\ cmd = "none" /\ wpc = "idle" /\ step = "next" /\ todo = <<>> /\ mem = Zero
      /\ written = <<>> /\ ini \in FirstFiles /\ past = {}
  BY DEF Init
<1>2. Modes
  BY <1>1 DEF Modes, Places, Commands
<1>3. Args
  BY <1>1 DEF Args
<1>4. Work
  BY <1>1 DEF Work, WorkList
<1>5. Disk
  BY <1>1, SettingsAssumption DEF Disk, FileOrNone
<1>6. WrittenInv
  <2>1. PICK g, w, hand : g = Shown /\ w = written /\ hand = InHand
    OBVIOUS
  <2>2. DOMAIN w = {}
    BY <1>1, <2>1
  <2>3. Kept1(g, w, hand)
    BY <2>2 DEF Kept1
  <2> QED BY <1>1, <2>1, <2>2, <2>3 DEF WrittenInv
<1>7. MemoryInv
  BY <1>1 DEF MemoryInv, Zero
<1> QED BY <1>2, <1>3, <1>4, <1>5, <1>6, <1>7 DEF IInv, Control

\* Every step keeps it, part by part.
LEMMA StepIInv == IInv /\ [Next]_vars => IInv'
<1> SUFFICES ASSUME IInv, [Next]_vars PROVE IInv'
  OBVIOUS
<1>1. Modes /\ Args /\ Work /\ Disk /\ WrittenInv /\ MemoryInv
  BY DEF IInv, Control
<1>2. CASE Next
  <2>1. Modes' /\ Args' /\ Work'
    BY <1>1, <1>2, ModesStep, ArgsStep, WorkStep
  <2>2. Disk' /\ WrittenInv' /\ MemoryInv'
    BY <1>1, <1>2, DiskStep, WrittenStep, MemoryStep
  <2> QED BY <2>1, <2>2 DEF IInv, Control
<1>3. CASE UNCHANGED vars
  <2>1. UNCHANGED <<ini, tmp, past, mem, phase, cmd, arg, wpc, todo, step, written, stale>>
    BY <1>3 DEF vars, command
  <2>2. Modes' /\ Args' /\ Work'
    BY <1>1, <2>1 DEF Modes, Args, Work
  <2>3. Disk'
    BY <1>1, <2>1 DEF Disk, P
  <2>4. WrittenInv'
    <3>1. Shown' = Shown /\ InHand' = InHand
      BY <2>1 DEF Shown, InHand, P, PairOf
    <3>2. Gone' = Gone
      BY <2>1 DEF Gone
    <3> QED BY <1>1, <2>1, <3>1, <3>2 DEF WrittenInv
  <2>5. MemoryInv'
    <3>1. MemoryInv' = MemoryInv
      BY <2>1 DEF MemoryInv, Cleared, Shown
    <3> QED BY <1>1, <3>1
  <2> QED BY <2>2, <2>3, <2>4, <2>5 DEF IInv, Control
<1> QED BY <1>2, <1>3

\* The worker and main put one after the other, each from a file that can be read, to which the
\* written values, the globals and the copy in hand stand as the four parts of IInv say.
THEOREM Invariance == Spec => []IInv
<1> QED BY InitIInv, StepIInv, PTL DEF Spec

\* Each copy that ini_puts has written to its end and is about to put in the place of the file
\* has the new value (a text that begins with a blank: without it) and every other key, section
\* and line of the file, for every way of reading it.
THEOREM CopyKept == Spec => []CopyKeepsOthers
<1>1. IInv => CopyKeepsOthers
  <2> SUFFICES ASSUME IInv PROVE CopyKeepsOthers
    OBVIOUS
  <2>1. CASE step = "copied"
    BY <2>1, CopyKeeps DEF IInv
  <2>2. CASE step # "copied"
    BY <2>2 DEF CopyKeepsOthers
  <2> QED BY <2>1, <2>2
<1> QED BY <1>1, Invariance, PTL

\* What ini_puts has written and reported the file says, or its copy while it is replaced, through
\* every later put and command and every failure that is reported or loses another put: until a
\* cut copy takes the place of the file, the file is lost, or a power cut takes what was not
\* written back.
THEOREM WrittenStays == Spec => []WrittenIsKept
<1>1. IInv => WrittenIsKept
  <2> SUFFICES ASSUME IInv PROVE WrittenIsKept
    OBVIOUS
  <2>1. PICK g, hand : g = Shown /\ hand = InHand
    OBVIOUS
  <2>2. Kept1(g, written, hand)
    BY <2>1 DEF IInv, WrittenInv
  <2>3. g # Absent => \A p \in DOMAIN written \ hand : SaysText(g, p[1], p[2], written[p])
    BY <2>2 DEF Kept1
  <2>4. g # Absent => \A p \in DOMAIN written \ hand :
                        ini_gets(g, p[1], p[2], "") \in {written[p], AsRead(written[p])}
    BY <2>3, Zenon DEF SaysText, Says
  <2>5. /\ g = IF step = "removed" THEN tmp ELSE ini
        /\ hand = IF step = "removed" THEN {<<P[1], P[2]>>} ELSE {}
    BY <2>1 DEF Shown, InHand, PairOf
  <2> QED BY <2>4, <2>5, Zenon DEF WrittenIsKept
<1> QED BY <1>1, Invariance, PTL

\* Between commands the globals are what load_config would read from the file, but for texts that
\* begin with a blank or with "dummy" and for -1, unless a put has failed, noticed or not, or the
\* defaults were restored since the daemon started.
THEOREM MemoryAgrees == Spec => []MemoryIsFile
<1>1. IInv => MemoryIsFile
  <2> SUFFICES ASSUME IInv, phase = "up", wpc = "idle", ~stale, NEW p \in Pairs
               PROVE  load_config(ini, Zero)[p] \in {mem[p], Reloaded(p, mem[p])}
    BY DEF MemoryIsFile
  <2>1. todo = <<>> /\ step = "next"
    BY NoPuts DEF IInv, Control
  <2>2. Shown = ini
    BY <2>1 DEF Shown
  <2>3. Cleared(p) \/ Agrees(mem, Shown, todo, p)
    BY DEF IInv, MemoryInv
  <2>4. ~Cleared(p) /\ ~Pending(todo, p)
    BY <2>1 DEF Cleared, Pending
  <2> QED BY <2>2, <2>3, <2>4 DEF Agrees, Like, Loaded
<1> QED BY <1>1, Invariance, PTL

(***************************************************************************)
(* Types: what the globals hold and what the answers consist of.           *)
(***************************************************************************)
MemTypes(m) == \A p \in Pairs : IF p \in IntPairs THEN m[p] \in Int ELSE m[p] \in STRING
AnswerFits(r) == r.ac = "getinfo" => DOMAIN r.info = Fields[r.val + 1]
Flags == ret \in BOOLEAN /\ stale \in BOOLEAN

\* The cleared globals are numbers and texts.
LEMMA ZeroTypes == MemTypes(Zero)
<1>1. NoText \in STRING
  BY IniAssumption, Zenon DEF NoText, NoName
<1>2. \A p \in Pairs : Zero[p] = IF p \in IntPairs THEN 0 ELSE NoText
  BY Zenon DEF Zero, NoText
<1>3. ASSUME NEW p \in Pairs PROVE IF p \in IntPairs THEN Zero[p] \in Int ELSE Zero[p] \in STRING
  <2>1. CASE p \in IntPairs
    <3>1. Zero[p] = 0
      BY <1>2, <2>1
    <3> QED BY <2>1, <3>1
  <2>2. CASE p \notin IntPairs
    <3>1. Zero[p] = NoText
      BY <1>2, <2>2
    <3> QED BY <1>1, <2>2, <3>1
  <2> QED BY <2>1, <2>2
<1> QED BY <1>3 DEF MemTypes

\* And so is what load_config reads: a value in the file is a text of a line, or what is left of
\* it, and a number of it is one that ini_getl can read.
LEMMA LoadTypes ==
  ASSUME NEW f, FileOrNone(f), NEW m, m = load_config(f, Zero)
  PROVE  MemTypes(m)
<1>1. \A p \in Pairs : IF p \in IntPairs THEN Zero[p] \in Int ELSE Zero[p] \in STRING
  BY ZeroTypes DEF MemTypes
<1>2. ASSUME NEW p \in Pairs, p \in IntPairs PROVE m[p] \in Int
  <2>1. ini_getl(f, p[1], p[2], -1) \in Numbers \cup {-1}
    BY GetlIs
  <2>2. get_date_int(f, p, Zero[p]) \in Int
    BY <1>1, <1>2, <2>1, IniAssumption DEF get_date_int
  <2> QED BY <1>2, <2>2 DEF load_config
<1>3. ASSUME NEW p \in Pairs, p \notin IntPairs PROVE m[p] \in STRING
  <2>1. PICK q, t : q = getkeystring(f, p[1], p[2]) /\ t = ini_gets(f, p[1], p[2], "dummy")
    OBVIOUS
  <2>2. CASE q = 0
    <3>1. t = "dummy" /\ "dummy" \in Dummies
      BY <2>1, <2>2, SettingsAssumption DEF ini_gets
    <3>2. get_date_str(f, p, Zero[p]) = Zero[p]
      BY <2>1, <3>1 DEF get_date_str
    <3> QED BY <1>1, <1>3, <3>2 DEF load_config
  <2>3. CASE q # 0
    <3>1. Readable(f)
      BY <2>1, <2>3, AbsentIs DEF FileOrNone
    <3>2. q \in 1..Len(f) /\ t = cleanstring(f[q]) /\ f[q] \in Lines
      BY <2>1, <2>3, <3>1, GetkeyIs, FileFacts DEF Says
    <3>3. t \in STRING
      BY <3>2, IniAssumption DEF cleanstring, Lines
    <3>4. get_date_str(f, p, Zero[p]) \in STRING
      BY <1>1, <1>3, <2>1, <3>3 DEF get_date_str
    <3> QED BY <1>3, <3>4 DEF load_config
  <2> QED BY <2>2, <2>3
<1> QED BY <1>2, <1>3 DEF MemTypes

\* And what the commands set.
LEMMA ParseTypes ==
  ASSUME NEW old, MemTypes(old), NEW v, NEW m,
         \/ v \in GeneralArgs /\ m = parse_general_json(v, old)
         \/ v \in NtpArgs /\ m = parse_ntp_json(v, old)
  PROVE  MemTypes(m)
<1>1. CASE v \in GeneralArgs /\ m = parse_general_json(v, old)
  <2>1. ASSUME NEW p \in Pairs, p[1] = "tcp_server" PROVE p \in IntPairs /\ m[p] \in Int
    <3>1. p[2] \in TcpKeys /\ p = <<"tcp_server", p[2]>>
      BY <2>1, TcpPairs
    <3>2. p \in IntPairs
      BY <3>1, TcpPairs
    <3>3. Settable("tcp_server", p[2], v[p[2]])
      BY <1>1, <3>1, SettingsAssumption DEF TcpKeys
    <3>4. v[p[2]] \in Int
      BY <3>3, IniAssumption DEF Settable
    <3> QED BY <1>1, <2>1, <3>2, <3>4 DEF parse_general_json
  <2>2. \A p \in Pairs : p[1] # "tcp_server" => m[p] = old[p]
    BY <1>1 DEF parse_general_json
  <2> QED BY <2>1, <2>2 DEF MemTypes
<1>2. CASE v \in NtpArgs /\ m = parse_ntp_json(v, old)
  <2>1. PICK p1, p2, p3, p4 : /\ p1 = <<"ntp_config", "primary_ip">> /\ p2 = <<"ntp_config", "second_ip">>
                              /\ p3 = <<"ntp_config", "interval">> /\ p4 = <<"ntp_config", "timezone">>
    OBVIOUS
  <2>2. /\ p1 \notin IntPairs /\ p2 \notin IntPairs /\ p3 \in IntPairs /\ p4 \in IntPairs
        /\ p1 # p2 /\ p1 # p3 /\ p1 # p4 /\ p2 # p3 /\ p2 # p4 /\ p3 # p4
    BY <2>1 DEF IntPairs
  <2>3. v.primary \in STRING /\ v.second \in STRING
    <3>1. /\ PutFits(Str("ntp_config", "primary_ip", v.primary))
          /\ PutFits(Str("ntp_config", "second_ip", v.second))
      BY <1>2, SettingsAssumption
    <3> QED BY <3>1, PutParts DEF Str
  <2>4. v.interval \in Int /\ v.timezone \in Int
    BY <1>2, SettingsAssumption, IniAssumption DEF Settable
  <2>5. \A p \in Pairs : /\ p = p1 => m[p] = v.primary
                         /\ p = p2 => m[p] = v.second
                         /\ p = p3 => m[p] = v.interval
                         /\ p = p4 => m[p] = v.timezone
                         /\ p \notin {p1, p2, p3, p4} => m[p] = old[p]
    BY <1>2, <2>1, <2>2 DEF parse_ntp_json
  <2> QED BY <2>2, <2>3, <2>4, <2>5 DEF MemTypes
<1> QED BY <1>1, <1>2

\* Each handler answers with the fields of its message, whatever the modem says, or not at all.
LEMMA AnswersFit ==
  ASSUME NEW k \in 0..6, NEW m, NEW a \in Answers(k, m)
  PROVE  AnswerFits(a)
<1>1. ASSUME a = NoAnswer PROVE AnswerFits(a)
  BY <1>1 DEF AnswerFits, NoAnswer
<1>2. ASSUME NEW n \in 0..6, NEW s, a = Message(n, s), DOMAIN s = Fields[n + 1] PROVE AnswerFits(a)
  BY <1>2 DEF AnswerFits, Message
<1>3. ASSUME NEW ok, NEW S, a \in Handle(m, ok, S) PROVE a \in S \/ a = NoAnswer
  BY <1>3 DEF Handle
<1>4. CASE k = 0
  <2>1. a \in get_base_info(m)
    BY <1>4 DEF Answers
  <2>2. a = NoAnswer \/ \E s \in base_info_read(m) : a = Message(0, s)
    BY <2>1 DEF get_base_info, Handle, base_info_convert_json_object
  <2>3. \A s \in base_info_read(m) : DOMAIN s = Fields[0 + 1]
    BY DEF base_info_read, BaseTexts, Fields
  <2> QED BY <1>1, <1>2, <2>2, <2>3
<1>5. CASE k = 1
  <2>1. PICK bands : a \in get_base_station_info(m, bands)
    <3>1. PICK b : Answers(k, m) =
            CASE k = 0 -> get_base_info(m)
              [] k = 1 -> get_base_station_info(m, b)
              [] k = 2 -> get_signal_param(m)
              [] k = 3 -> get_serial_info(m)
              [] k = 4 -> get_extra_info(m, mem)
              [] k = 5 -> get_apn_config(m)
              [] k = 6 -> get_ntp_config(m, mem)
      BY Zenon DEF Answers
    <3> QED BY <1>5, <3>1
  <2>2. a = NoAnswer \/ \E s \in base_station_info_read(m, bands) : a = Message(1, s)
    BY <2>1 DEF get_base_station_info, Handle, base_station_info_convert_json_object
  <2>3. ASSUME NEW s \in base_station_info_read(m, bands) PROVE DOMAIN s = Fields[1 + 1]
    <3>1. PICK i, n, b, z : /\ z = [ip |-> i, apn |-> n, operator |-> m.operator,
                                    lteBands |-> b, lteStatus |-> m.service, txPower |-> 0,
                                    pCID |-> 0, cid |-> 0, mcc |-> m.mcc, mnc |-> m.mnc]
                            /\ s = exec_at_get_txPower(m.at, z)
      <4> DEFINE valid == {i \in DOMAIN m.addrs : addr2str(m.addrs[i]) # "NULL"}
                 last == CHOOSE i \in valid : \A j \in valid : j <= i
                 I == IF m.addrs # <<>> /\ valid # {} THEN Garbage \cup {addr2str(m.addrs[last])} ELSE Garbage
                 N == IF m.apn.known THEN (IF m.apn.name = NoText THEN {Space} ELSE Garbage \cup {m.apn.name})
                      ELSE Garbage
                 B == IF bands = NoText THEN Garbage ELSE {bands}
                 From(i, n, b) == [ip |-> i, apn |-> n, operator |-> m.operator,
                                   lteBands |-> b, lteStatus |-> m.service, txPower |-> 0,
                                   pCID |-> 0, cid |-> 0, mcc |-> m.mcc, mnc |-> m.mnc]
      <4>1. base_station_info_read(m, bands) =
              {exec_at_get_txPower(m.at, From(i, n, b)) : i \in I, n \in N, b \in B}
        BY DEF base_station_info_read
      <4> HIDE DEF I, N, B
      <4>2. PICK i \in I, n \in N, b \in B : s = exec_at_get_txPower(m.at, From(i, n, b))
        BY <2>3, <4>1
      <4> QED BY <4>2
    <3>2. DOMAIN z = Fields[1 + 1]
      BY <3>1 DEF Fields
    <3>3. DOMAIN s = DOMAIN z
      BY <3>1 DEF exec_at_get_txPower
    <3> QED BY <3>2, <3>3
  <2> QED BY <1>1, <1>2, <2>2, <2>3
<1>6. CASE k = 2
  <2>1. a = NoAnswer \/ a = Message(2, signal_param_read(m))
    BY <1>6 DEF Answers, get_signal_param, Handle, signal_param_convert_json_object
  <2>2. DOMAIN signal_param_read(m) = Fields[2 + 1]
    BY DEF signal_param_read, Fields
  <2> QED BY <1>1, <1>2, <2>1, <2>2
<1>7. CASE k = 3
  <2>1. a = NoAnswer \/ \E z : a = serial_info_convert_json_object(3, z)
    BY <1>7 DEF Answers, get_serial_info, Handle
  <2>2. ASSUME NEW z, a = serial_info_convert_json_object(3, z) PROVE AnswerFits(a)
    <3>1. PICK r : a = Message(3, <<r>>)
      BY <2>2 DEF serial_info_convert_json_object
    <3>2. DOMAIN <<r>> = Fields[3 + 1]
      BY DEF Fields
    <3> QED BY <1>2, <3>1, <3>2
  <2> QED BY <1>1, <2>1, <2>2
<1>8. CASE k = 4
  <2>1. a = NoAnswer \/ a = Message(4, extra_info_read(mem))
    BY <1>8 DEF Answers, get_extra_info, Handle, extra_info_convert_json_object
  <2>2. DOMAIN extra_info_read(mem) = Fields[4 + 1]
    BY DEF extra_info_read, Fields
  <2> QED BY <1>1, <1>2, <2>1, <2>2
<1>9. CASE k = 5
  <2>1. a = NoAnswer \/ \E s \in apn_config_read(m) : a = Message(5, s)
    BY <1>9 DEF Answers, get_apn_config, Handle, apn_config_convert_json_object
  <2>2. \A s \in apn_config_read(m) : DOMAIN s = Fields[5 + 1]
    BY DEF apn_config_read, Fields
  <2> QED BY <1>1, <1>2, <2>1, <2>2
<1>10. CASE k = 6
  <2>1. PICK s : /\ DOMAIN s = {"primary", "second", "interval", "timezone"}
                 /\ a = NoAnswer \/ a = Message(6, s)
    BY <1>10 DEF Answers, get_ntp_config, Handle, ntp_config_convert_json_object
  <2>2. DOMAIN s = Fields[6 + 1]
    BY <2>1 DEF Fields
  <2> QED BY <1>1, <1>2, <2>1, <2>2
<1> QED BY <1>4, <1>5, <1>6, <1>7, <1>8, <1>9, <1>10

\* Each step leaves the globals numbers and texts,
LEMMA MemStep ==
  ASSUME MemTypes(mem), IInv, Next
  PROVE  MemTypes(mem')
<1> Steps
  BY NextSteps
<1>0. Modes /\ Args /\ Work /\ Disk /\ MemoryInv
  BY DEF IInv, Control
<1>1. CASE UNCHANGED mem
  BY <1>1
<1>2. CASE Load
  <2>1. phase = "load"
    BY <1>2 DEF Load
  <2>2. mem = Zero
    BY <1>0, <2>1 DEF MemoryInv
  <2> QED BY <1>0, <1>2, <2>2, LoadTypes DEF Load, Disk
<1>3. CASE PowerCut
  BY <1>3, ZeroTypes DEF PowerCut
<1>4. CASE Clear
  <2>1. PICK s : mem' = [p \in Pairs |-> IF p[1] = s THEN Zero[p] ELSE mem[p]]
    BY <1>4 DEF Clear
  <2> QED BY <2>1, ZeroTypes DEF MemTypes
<1>5. CASE Parse
  <2>1. cmd = "ntp" => arg \in NtpArgs /\ mem' = parse_ntp_json(arg, mem)
    BY <1>0, <1>5 DEF Parse, Args
  <2>2. cmd = "general" => arg \in GeneralArgs /\ mem' = parse_general_json(arg, mem)
    BY <1>0, <1>5 DEF Parse, Args
  <2>3. cmd \in {"general", "ntp"}
    BY <1>0, <1>5 DEF Parse, Modes
  <2>4. PICK m, v : m = mem' /\ v = arg
    OBVIOUS
  <2>5. \/ v \in GeneralArgs /\ m = parse_general_json(v, mem)
        \/ v \in NtpArgs /\ m = parse_ntp_json(v, mem)
    BY <2>1, <2>2, <2>3, <2>4
  <2> QED BY <2>4, <2>5, ParseTypes
<1>6. CASE PutStep \/ Start \/ EndInit \/ Accept \/ Crash
  BY <1>1, <1>6, PutStepsElse DEF Start, EndInit, Accept, Crash
<1>7. CASE \/ SetSn \/ SetApn \/ SetSerial \/ SetRestart \/ RestoreRemove \/ RestoreCreate
           \/ GetInfo \/ PutsDone \/ Reply
  BY <1>1, <1>7 DEF SetSn, SetApn, SetSerial, SetRestart, RestoreRemove, RestoreCreate, GetInfo, PutsDone,
                    Reply
<1>8. CASE Cancel
  BY <1>1, <1>8 DEF Cancel, rest
<1>9. CASE Elsewhere
  BY <1>1, <1>9 DEF Elsewhere
<1> QED BY <1>2, <1>3, <1>4, <1>5, <1>6, <1>7, <1>8, <1>9, SyncElsewhere DEF Steps, PutStep

\* every answer one of the protocol,
LEMMA ReplyStep ==
  ASSUME AnswerFits(reply), IInv, Next
  PROVE  AnswerFits(reply')
<1> Steps
  BY NextSteps
<1>1. CASE UNCHANGED reply
  BY <1>1
<1>2. ASSUME reply' = [ac |-> "none"] PROVE AnswerFits(reply')
  BY <1>2 DEF AnswerFits
<1>3. ASSUME NEW ok, reply' = SetAnswer(ok) PROVE AnswerFits(reply')
  BY <1>3 DEF AnswerFits, SetAnswer
<1>4. CASE PowerCut \/ Accept
  BY <1>2, <1>4 DEF PowerCut, Accept
<1>5. CASE SetRestart
  BY <1>2, <1>5 DEF SetRestart, Finish
<1>6. CASE SetSn
  BY <1>1, <1>3, <1>6 DEF SetSn, Finish
<1>7. CASE SetSerial
  BY <1>3, <1>7 DEF SetSerial, Finish
<1>8. CASE Reply
  BY <1>3, <1>8 DEF Reply, Finish
<1>9. CASE GetInfo
  <2>1. PICK m \in Modems : \E a \in Answers(arg.val, m) : reply' = a
    BY <1>9 DEF GetInfo, Finish
  <2>2. arg.val \in 0..6
    BY <1>9 DEF GetInfo, IInv, Control, Args
  <2> QED BY <2>1, <2>2, AnswersFit
<1>11. CASE PutStep \/ Start \/ EndInit \/ Load \/ Crash
  BY <1>1, <1>11, PutStepsElse DEF Start, EndInit, Load, Crash
<1>12. CASE Clear \/ Parse \/ SetApn \/ RestoreRemove \/ RestoreCreate \/ PutsDone
  BY <1>1, <1>12 DEF Clear, Parse, SetApn, RestoreRemove, RestoreCreate, PutsDone
<1>13. CASE Cancel
  BY <1>1, <1>13 DEF Cancel, rest
<1>14. CASE \E a \in {"worker", "job"} : OpenZone(a) \/ OpenFails(a) \/ PrintZone(a) \/ CloseZone(a) \/ Ask(a)
  BY <1>1, <1>14 DEF OpenZone, OpenFails, PrintZone, CloseZone, Ask, rest
<1> QED BY <1>4, <1>5, <1>6, <1>7, <1>8, <1>9, <1>11, <1>12, <1>13, <1>14 DEF Steps, PutStep

\* and ret and stale truth values.
LEMMA FlagsStep ==
  ASSUME Flags, Next
  PROVE  Flags'
<1> Steps
  BY NextSteps
<1>1. CASE UNCHANGED <<ret, stale>>
  BY <1>1, Zenon DEF Flags
<1>2. ASSUME Done(TRUE) \/ Done(FALSE) \/ Unnoticed PROVE Flags'
  BY <1>2, Zenon DEF Flags, Done, Unnoticed, After
<1>3. CASE Put
  <2>1. Done(TRUE) \/ UNCHANGED <<ret, stale>>
    BY <1>3 DEF Put
  <2> QED BY <1>1, <1>2, <2>1
<1>4. CASE PutFails \/ RenameCopy \/ RenameFails
  BY <1>2, <1>4 DEF PutFails, RenameCopy, RenameFails
<1>11. CASE WriteFails
  <2>1. Unnoticed \/ UNCHANGED <<ret, stale>>
    BY <1>11 DEF WriteFails
  <2> QED BY <1>1, <1>2, <2>1
<1>12. CASE RemoveFile \/ RemoveFails
  <2>1. ToRename
    BY <1>12 DEF RemoveFile, RemoveFails
  <2> QED BY <2>1, Zenon DEF Flags, ToRename
<1>5. CASE PowerCut
  BY <1>5, Zenon DEF Flags, PowerCut
<1>6. CASE RestoreCreate
  BY <1>6, Zenon DEF Flags, RestoreCreate
<1>7. CASE Start \/ EndInit \/ Load \/ Accept \/ Crash
  BY <1>1, <1>7 DEF Start, EndInit, Load, Accept, Crash
<1>8. CASE Clear \/ Parse \/ SetSn \/ SetApn \/ SetSerial \/ SetRestart \/ RestoreRemove \/ GetInfo \/ PutsDone \/ Reply
  BY <1>1, <1>8 DEF Clear, Parse, SetSn, SetApn, SetSerial, SetRestart, RestoreRemove, GetInfo, PutsDone, Reply
<1>9. CASE Cancel
  BY <1>1, <1>9 DEF Cancel, rest
<1>10. CASE \E a \in {"worker", "job"} : OpenZone(a) \/ OpenFails(a) \/ PrintZone(a) \/ CloseZone(a) \/ Ask(a)
  BY <1>1, <1>10 DEF OpenZone, OpenFails, PrintZone, CloseZone, Ask, rest
<1> QED BY <1>3, <1>4, <1>5, <1>6, <1>7, <1>8, <1>9, <1>10, <1>11, <1>12 DEF Steps

\* The globals hold texts and numbers after every start, load, clear and parse, and every answer
\* to a get command has the fields of its message.
THEOREM Types == Spec => []TypeOK
<1> DEFINE Typed == IInv /\ MemTypes(mem) /\ AnswerFits(reply) /\ Flags
<1>1. Init => Typed
  <2> SUFFICES ASSUME Init PROVE Typed
    OBVIOUS
  <2>1. MemTypes(mem)
    BY ZeroTypes DEF Init
  <2>2. AnswerFits(reply)
    BY DEF Init, AnswerFits
  <2>3. Flags
    BY Zenon DEF Init, Flags
  <2> QED BY <2>1, <2>2, <2>3, InitIInv
<1>2. Typed /\ [Next]_vars => Typed'
  <2> SUFFICES ASSUME Typed, [Next]_vars PROVE Typed'
    OBVIOUS
  <2>1. IInv'
    BY StepIInv
  <2>2. CASE Next
    BY <2>1, <2>2, MemStep, ReplyStep, FlagsStep
  <2>3. CASE UNCHANGED vars
    <3>1. UNCHANGED <<mem, reply, ret, stale>>
      BY <2>3 DEF vars
    <3>2. MemTypes(mem') /\ AnswerFits(reply')
      BY <3>1
    <3>3. Flags'
      BY <3>1, Zenon DEF Flags
    <3> QED BY <2>1, <3>2, <3>3
  <2> QED BY <2>2, <2>3
<1>3. Typed => TypeOK
  <2> SUFFICES ASSUME Typed PROVE TypeOK
    OBVIOUS
  <2>1. \A p \in Pairs : IF p \in IntPairs THEN mem[p] \in Int ELSE mem[p] \in STRING
    BY DEF MemTypes
  <2>2. reply.ac = "getinfo" => DOMAIN reply.info = Fields[reply.val + 1]
    BY DEF AnswerFits
  <2>3. /\ phase \in {"off", "init", "load", "up", "stuck"} /\ (cmd = "none" <=> wpc = "idle")
        /\ wpc \in {"idle", "clear", "parse", "do", "remove", "create", "puts", "sync", "reply"}
        /\ step \in {"next", "copied", "torn", "removed", "lost"}
    BY DEF IInv, Control, Modes, Work, Places
  <2>4. ret \in BOOLEAN /\ stale \in BOOLEAN
    BY Zenon DEF Flags
  <2> QED BY <2>1, <2>2, <2>3, <2>4, Zenon DEF TypeOK
<1> HIDE DEF Typed
<1> QED BY <1>1, <1>2, <1>3, PTL DEF Spec
=============================================================================
