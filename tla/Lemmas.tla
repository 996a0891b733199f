-------------------------------- MODULE Lemmas --------------------------------
(***************************************************************************)
(* What the proofs need to know of the natural numbers, of functions that  *)
(* are defined by recursion, and of sequences, for elements of any set.    *)
(***************************************************************************)
EXTENDS Integers, Sequences, SequencesExt, FiniteSetTheorems, SequenceTheorems, TLAPS

(***************************************************************************)
(* Induction and recursion, without an operator as a parameter.            *)
(***************************************************************************)
\* Induction, with a set in the place of a predicate: the numbers for which something holds.
\* (Were k not in S, adding 1 would map the members below k one to one into those but 0.)
LEMMA SetInduction ==
  ASSUME NEW S, S \subseteq Nat, 0 \in S, \A n \in S : n + 1 \in S
  PROVE  S = Nat
<1> SUFFICES ASSUME NEW k \in Nat, k \notin S PROVE FALSE
  OBVIOUS
<1> DEFINE A == S \cap 0..k
           f == [n \in A |-> n + 1]
<1>1. IsFiniteSet(A)
  <2>1. IsFiniteSet(0..k)
    BY FS_Interval
  <2> QED BY <2>1, FS_Subset
<1>2. 0 \in A /\ f \in [A -> A \ {0}] /\ \A x, y \in A : f[x] = f[y] => x = y
  OBVIOUS
<1> HIDE DEF A, f
<1>3. IsFiniteSet(A \ {0}) /\ Cardinality(A \ {0}) = Cardinality(A) - 1
  BY <1>1, <1>2, FS_RemoveElement
<1>4. Cardinality(A \ {0}) < Cardinality(A)
  BY <1>1, <1>3, FS_CardinalityType
<1>5. \E x, y \in A : x # y /\ f[x] = f[y]
  BY <1>1, <1>2, <1>3, <1>4, FS_PigeonHole
<1> QED BY <1>2, <1>5

\* ... up to a number.
LEMMA Climb ==
  ASSUME NEW N \in Nat, NEW S, 0 \in S, \A n \in 1..N : n - 1 \in S => n \in S
  PROVE  0..N \subseteq S
<1> DEFINE T == {n \in Nat : n <= N => n \in S}
<1>1. \A n \in T : n + 1 \in T
  <2> SUFFICES ASSUME NEW n \in T, n + 1 <= N PROVE n + 1 \in S
    OBVIOUS
  <2>1. n \in S /\ n + 1 \in 1..N /\ (n + 1) - 1 = n
    OBVIOUS
  <2> QED BY <2>1
<1>2. T \subseteq Nat /\ 0 \in T
  OBVIOUS
<1> HIDE DEF T
<1>3. T = Nat
  BY <1>1, <1>2, SetInduction
<1> QED BY <1>3 DEF T

\* Numbers that are not none have a least one.
LEMMA Least ==
  ASSUME NEW T, T \subseteq Nat, T # {}
  PROVE \E m \in T : \A n \in T : m <= n
<1> DEFINE S == {n \in Nat : \A t \in T : n <= t}
<1>1. S # Nat
  <2>1. PICK t \in T : TRUE
    OBVIOUS
  <2>2. t + 1 \in Nat /\ t + 1 \notin S
    BY <2>1
  <2> QED BY <2>2
<1>2. S \subseteq Nat /\ 0 \in S
  OBVIOUS
<1>3. PICK n \in S : n + 1 \notin S
  <2> HIDE DEF S
  <2> QED BY <1>1, <1>2, SetInduction
<1> QED BY <1>3

\* Numbers up to n have a greatest one.
LEMMA Greatest ==
  ASSUME NEW n \in Nat, NEW T, T \subseteq 0..n, T # {}
  PROVE \E m \in T : \A t \in T : t <= m
<1> DEFINE R == {n - t : t \in T}
<1>1. R \subseteq Nat /\ R # {}
  <2>1. \A t \in T : n - t \in Nat
    OBVIOUS
  <2>2. \E t \in T : n - t \in R
    OBVIOUS
  <2> QED BY <2>1, <2>2
<1> HIDE DEF R
<1>2. PICK r \in R : \A x \in R : r <= x
  BY <1>1, Least
<1> USE DEF R
<1>3. PICK m \in T : r = n - m
  OBVIOUS
<1>4. \A t \in T : n - m <= n - t /\ t \in 0..n /\ m \in 0..n
  BY <1>2, <1>3
<1>5. \A t \in T : t <= m
  BY <1>4
<1> QED BY <1>5

\* Steps applied one after the other: there is the function of their results.
Iterates(a, N, v, turn) == a[0] = v /\ \A n \in 1..N : a[n] = turn[n][a[n - 1]]
\* What is done N times to a value, by a turn of its own each time, has results at every turn.
LEMMA Iteration ==
  ASSUME NEW N \in Nat, NEW V, NEW v \in V, NEW turn \in [1..N -> [V -> V]]
  PROVE  \E a \in [0..N -> V] : Iterates(a, N, v, turn)
<1> DEFINE Is(a, m) == Iterates(a, m, v, turn)
           S == {m \in 0..N : \E a \in [0..m -> V] : Is(a, m)}
<1>1. 0 \in S
  <2> DEFINE a == [n \in 0..0 |-> v]
  <2>1. a \in [0..0 -> V] /\ Is(a, 0)
    BY DEF Iterates
  <2> HIDE DEF a
  <2> QED BY <2>1
<1>2. ASSUME NEW m \in 1..N, m - 1 \in S PROVE m \in S
  <2>1. PICK a \in [0..(m - 1) -> V] : Is(a, m - 1)
    BY <1>2
  <2> DEFINE b == [n \in 0..m |-> IF n = m THEN turn[m][a[m - 1]] ELSE a[n]]
  <2>2. b \in [0..m -> V]
    OBVIOUS
  <2>3. Is(b, m)
    BY <2>1 DEF Iterates
  <2> HIDE DEF b
  <2> QED BY <2>2, <2>3
<1>3. N \in S
  <2> HIDE DEF S
  <2>1. 0..N \subseteq S
    BY <1>1, <1>2, Climb
  <2> QED BY <2>1
<1> QED BY <1>3

\* A function on 0..N whose values stay in a set, each because the one before is in it.
LEMMA StaysIn ==
  ASSUME NEW N \in Nat, NEW V, NEW a, a[0] \in V, \A n \in 1..N : a[n - 1] \in V => a[n] \in V
  PROVE  \A n \in 0..N : a[n] \in V
<1> DEFINE S == {n \in 0..N : a[n] \in V}
<1>1. 0 \in S /\ \A n \in 1..N : n - 1 \in S => n \in S
  OBVIOUS
<1>2. 0..N \subseteq S
  <2> HIDE DEF S
  <2> QED BY <1>1, Climb
<1> QED BY <1>2

(***************************************************************************)
(* Parts of sequences.                                                     *)
(***************************************************************************)
\* It makes no difference which two of three sequences are put together first ...
EitherWay(s, t, u) == (s \o t) \o u = s \o (t \o u)

\* ... whatever they are.  As a definition it is used of the sequences at hand only.
LEMMA GroupedEitherWay ==
  ASSUME NEW S, NEW s \in Seq(S), NEW t \in Seq(S), NEW u \in Seq(S)
  PROVE  EitherWay(s, t, u)
BY ConcatAssociative DEF EitherWay

\* Behind w, the elements of f from the a-th up to the one before the b-th.
Behind(w, f, a, b) == w \o SubSeq(f, a, b - 1)

\* What is appended part by part is appended as a whole.
LEMMA Parts ==
  ASSUME NEW S, NEW w \in Seq(S), NEW f \in Seq(S), NEW a \in 1..Len(f) + 1,
         NEW b \in a..Len(f) + 1, NEW c \in b..Len(f) + 1
  PROVE  /\ Behind(w, f, a, b) \in Seq(S) /\ Behind(w, f, a, c) \in Seq(S)
         /\ Behind(Behind(w, f, a, b), f, b, c) = Behind(w, f, a, c)
         /\ Behind(w, f, a, a) = w
<1> DEFINE x == SubSeq(f, a, b - 1)
           y == SubSeq(f, b, c - 1)
           z == SubSeq(f, a, c - 1)
<1>1. Len(f) \in Nat /\ \A i \in 1..Len(f) : f[i] \in S
  OBVIOUS
<1>2. x \in Seq(S)
  <2>1. a \in Int /\ b - 1 \in Int /\ \A i \in a..b - 1 : f[i] \in S
    BY <1>1
  <2> QED BY <2>1, SubSeqProperties
<1>3. y \in Seq(S)
  <2>1. b \in Int /\ c - 1 \in Int /\ \A i \in b..c - 1 : f[i] \in S
    BY <1>1
  <2> QED BY <2>1, SubSeqProperties
<1>4. z \in Seq(S)
  <2>1. a \in Int /\ c - 1 \in Int /\ \A i \in a..c - 1 : f[i] \in S
    BY <1>1
  <2> QED BY <2>1, SubSeqProperties
<1>5. x \o y = z
  <2> DEFINE k == b - 1
             n == c - 1
  <2>1. k \in a - 1..Len(f) /\ n \in k..Len(f) /\ k + 1 = b
    BY <1>1
  <2> HIDE DEF k, n
  <2>2. SubSeq(f, a, k) \o SubSeq(f, k + 1, n) = SubSeq(f, a, n)
    BY <2>1, ConcatAdjacentSubSeq
  <2> QED BY <2>1, <2>2 DEF k, n
<1> HIDE DEF x, y, z
<1>6. w \o x \in Seq(S) /\ w \o z \in Seq(S)
  BY <1>2, <1>4, ConcatProperties
<1>7. (w \o x) \o y = w \o (x \o y)
  <2>1. EitherWay(w, x, y)
    BY <1>2, <1>3, GroupedEitherWay
  <2> QED BY <2>1 DEF EitherWay
<1>8. SubSeq(f, a, a - 1) = <<>> /\ w \o <<>> = w
  OBVIOUS
<1> QED BY <1>5, <1>6, <1>7, <1>8 DEF x, y, z, Behind

(***************************************************************************)
(* Queues.                                                                 *)
(***************************************************************************)

\* The members of a queue that grows at its rear.
LEMMA RearSet ==
  ASSUME NEW S, NEW q \in Seq(S), NEW x \in S
  PROVE  Append(q, x) \in Seq(S) /\ ToSet(Append(q, x)) = ToSet(q) \cup {x}
<1>1. /\ DOMAIN q = 1 .. Len(q) /\ Len(q) \in Nat
      /\ DOMAIN Append(q, x) = 1 .. Len(q) + 1
      /\ \A i \in 1 .. Len(q) : Append(q, x)[i] = q[i]
      /\ Append(q, x)[Len(q) + 1] = x
  OBVIOUS
<1>2. 1 .. Len(q) + 1 = (1 .. Len(q)) \cup {Len(q) + 1}
  BY <1>1
<1> QED BY <1>1, <1>2 DEF ToSet

\* The members of a queue that shrinks at its front.
LEMMA FrontSet ==
  ASSUME NEW S, NEW q \in Seq(S), q # <<>>
  PROVE  /\ Head(q) \in S
         /\ Tail(q) \in Seq(S)
         /\ Len(Tail(q)) = Len(q) - 1
         /\ ToSet(q) = {Head(q)} \cup ToSet(Tail(q))
<1>1. /\ DOMAIN q = 1 .. Len(q) /\ Len(q) \in Nat \ {0} /\ Head(q) = q[1]
      /\ Head(q) \in S /\ Tail(q) \in Seq(S) /\ Len(Tail(q)) = Len(q) - 1
      /\ DOMAIN Tail(q) = 1 .. Len(q) - 1
      /\ \A i \in 1 .. Len(q) - 1 : Tail(q)[i] = q[i + 1]
  OBVIOUS
<1>2. ToSet(q) \subseteq {Head(q)} \cup ToSet(Tail(q))
  <2> SUFFICES ASSUME NEW i \in 1 .. Len(q), i # 1 PROVE q[i] \in ToSet(Tail(q))
    BY <1>1 DEF ToSet
  <2>1. i - 1 \in 1 .. Len(q) - 1 /\ Tail(q)[i - 1] = q[i]
    BY <1>1
  <2> QED BY <1>1, <2>1 DEF ToSet
<1>3. {Head(q)} \cup ToSet(Tail(q)) \subseteq ToSet(q)
  <2>1. Head(q) \in ToSet(q)
    BY <1>1 DEF ToSet
  <2>2. ASSUME NEW i \in 1 .. Len(q) - 1 PROVE Tail(q)[i] \in ToSet(q)
    BY <1>1 DEF ToSet
  <2> QED BY <1>1, <2>1, <2>2 DEF ToSet
<1> QED BY <1>1, <1>2, <1>3

\* The members of a queue are elements, and an empty one has none.
LEMMA MemberSet ==
  ASSUME NEW S, NEW q \in Seq(S)
  PROVE  /\ ToSet(q) \subseteq S
         /\ ToSet(<<>>) = {}
         /\ \A x \in S : ToSet(<<x>>) = {x}
<1>1. ToSet(q) \subseteq S /\ ToSet(<<>>) = {}
  BY DEF ToSet
<1>2. ASSUME NEW x \in S PROVE ToSet(<<x>>) = {x}
  <2>1. DOMAIN <<x>> = {1} /\ <<x>>[1] = x
    OBVIOUS
  <2> QED BY <2>1 DEF ToSet
<1> QED BY <1>1, <1>2

\* A queue without repetitions stays one when something new is appended.
LEMMA RearDistinct ==
  ASSUME NEW S, NEW q \in Seq(S), NEW x \in S, IsInjective(q), x \notin ToSet(q)
  PROVE  IsInjective(Append(q, x))
<1>1. /\ DOMAIN q = 1 .. Len(q) /\ Len(q) \in Nat
      /\ DOMAIN Append(q, x) = 1 .. Len(q) + 1
      /\ \A i \in 1 .. Len(q) : Append(q, x)[i] = q[i] /\ q[i] # x
      /\ Append(q, x)[Len(q) + 1] = x
  BY DEF ToSet
<1>2. SUFFICES ASSUME NEW a \in 1 .. Len(q) + 1, NEW b \in 1 .. Len(q) + 1,
                      Append(q, x)[a] = Append(q, x)[b]
               PROVE  a = b
  BY <1>1 DEF IsInjective
<1>3. CASE a \in 1 .. Len(q) /\ b \in 1 .. Len(q)
  BY <1>1, <1>2, <1>3 DEF IsInjective
<1> QED BY <1>1, <1>2, <1>3

\* ... and when the first is taken, which is then not in it any more.
LEMMA FrontDistinct ==
  ASSUME NEW S, NEW q \in Seq(S), q # <<>>, IsInjective(q)
  PROVE  IsInjective(Tail(q)) /\ Head(q) \notin ToSet(Tail(q))
<1>1. /\ DOMAIN q = 1 .. Len(q) /\ Len(q) \in Nat \ {0} /\ Head(q) = q[1]
      /\ DOMAIN Tail(q) = 1 .. Len(q) - 1
      /\ \A i \in 1 .. Len(q) - 1 : Tail(q)[i] = q[i + 1] /\ i + 1 \in 1 .. Len(q)
  OBVIOUS
<1>2. ASSUME NEW a \in 1 .. Len(q) - 1, NEW b \in 1 .. Len(q) - 1, Tail(q)[a] = Tail(q)[b]
      PROVE  a = b
  <2>1. a + 1 = b + 1
    BY <1>1, <1>2 DEF IsInjective
  <2> QED BY <2>1
<1>3. ASSUME NEW a \in 1 .. Len(q) - 1 PROVE Tail(q)[a] # Head(q)
  <2>1. 1 \in DOMAIN q /\ a + 1 \in DOMAIN q /\ a + 1 # 1
    BY <1>1
  <2> QED BY <1>1, <2>1 DEF IsInjective
<1> QED BY <1>1, <1>2, <1>3 DEF IsInjective, ToSet

\* RemoveAt takes one place out of a sequence and closes the gap.
LEMMA RemoveAtFacts ==
  ASSUME NEW S, NEW q \in Seq(S), NEW k \in 1 .. Len(q)
  PROVE  /\ RemoveAt(q, k) \in Seq(S)
         /\ DOMAIN RemoveAt(q, k) = 1 .. Len(q) - 1
         /\ \A i \in 1 .. Len(q) - 1 : RemoveAt(q, k)[i] = IF i < k THEN q[i] ELSE q[i + 1]
<1> DEFINE before == SubSeq(q, 1, k - 1)
           after  == SubSeq(q, k + 1, Len(q))
<1>1. Len(q) \in Nat /\ k \in Nat
  OBVIOUS
<1>2. /\ before \in Seq(S) /\ Len(before) = k - 1
      /\ \A i \in 1 .. k - 1 : before[i] = q[i]
  BY <1>1, SubSeqProperties
<1>3. /\ after \in Seq(S) /\ Len(after) = Len(q) - k
      /\ \A i \in 1 .. Len(q) - k : after[i] = q[k + i]
  BY <1>1, SubSeqProperties
<1> HIDE DEF before, after
<1>4. /\ before \o after \in Seq(S) /\ Len(before \o after) = Len(q) - 1
      /\ \A i \in 1 .. Len(q) - 1 :
           (before \o after)[i] = IF i <= k - 1 THEN before[i] ELSE after[i - (k - 1)]
  <2>1. /\ before \o after \in Seq(S)
        /\ Len(before \o after) = Len(before) + Len(after)
        /\ \A i \in 1 .. Len(before) + Len(after) :
             (before \o after)[i] = IF i <= Len(before) THEN before[i]
                                    ELSE after[i - Len(before)]
    BY <1>2, <1>3, ConcatProperties
  <2>2. Len(before) + Len(after) = Len(q) - 1
    BY <1>1, <1>2, <1>3
  <2> QED BY <1>2, <2>1, <2>2
<1>5. \A i \in 1 .. Len(q) - 1 : (before \o after)[i] = IF i < k THEN q[i] ELSE q[i + 1]
  <2> SUFFICES ASSUME NEW i \in 1 .. Len(q) - 1
               PROVE (before \o after)[i] = IF i < k THEN q[i] ELSE q[i + 1]
    OBVIOUS
  <2>1. CASE i < k
    BY <1>1, <1>2, <1>4, <2>1
  <2>2. CASE i >= k
    <3>1. i - (k - 1) \in 1 .. Len(q) - k /\ k + (i - (k - 1)) = i + 1
      BY <1>1, <2>2
    <3>2. after[i - (k - 1)] = q[i + 1]
      BY <1>3, <3>1
    <3> QED BY <1>1, <1>4, <2>2, <3>2
  <2>3. i < k \/ i >= k
    BY <1>1
  <2> QED BY <2>1, <2>2, <2>3
<1>6. DOMAIN (before \o after) = 1 .. Len(q) - 1
  BY <1>4, LenProperties
<1>7. RemoveAt(q, k) = before \o after
  BY DEF RemoveAt, before, after
<1> QED BY <1>4, <1>5, <1>6, <1>7

\* RemoveFirst takes the only occurrence of a member out of a queue that has no
\* repetitions, and leaves the others.
LEMMA RemoveFirstFacts ==
  ASSUME NEW S, NEW q \in Seq(S), IsInjective(q), NEW x \in ToSet(q)
  PROVE  /\ RemoveFirst(q, x) \in Seq(S)
         /\ IsInjective(RemoveFirst(q, x))
         /\ ToSet(RemoveFirst(q, x)) = ToSet(q) \ {x}
<1>1. PICK k \in 1 .. Len(q) : q[k] = x
  BY DEF ToSet
<1>2. {i \in 1 .. Len(q) : q[i] = x} = {k}
  BY <1>1 DEF IsInjective
<1>3. k \in Nat /\ Min({k}) = k
  BY DEF Min
<1>4. RemoveFirst(q, x) = RemoveAt(q, k)
  BY <1>1, <1>2, <1>3 DEF RemoveFirst, SelectInSeq
<1> DEFINE r == RemoveAt(q, k)
<1>5. /\ r \in Seq(S) /\ DOMAIN r = 1 .. Len(q) - 1
      /\ \A i \in 1 .. Len(q) - 1 : r[i] = IF i < k THEN q[i] ELSE q[i + 1]
  BY RemoveAtFacts
<1>6. Len(q) \in Nat /\ DOMAIN q = 1 .. Len(q)
  OBVIOUS
<1> HIDE DEF r
<1>7. IsInjective(r)
  <2> SUFFICES ASSUME NEW a \in 1 .. Len(q) - 1, NEW b \in 1 .. Len(q) - 1, r[a] = r[b]
               PROVE  a = b
    BY <1>5 DEF IsInjective
  <2> DEFINE up(i) == IF i < k THEN i ELSE i + 1
  <2>1. up(a) \in 1 .. Len(q) /\ up(b) \in 1 .. Len(q)
    BY <1>3, <1>6
  <2>2. q[up(a)] = q[up(b)]
    BY <1>5
  <2>3. up(a) = up(b)
    BY <1>6, <2>1, <2>2 DEF IsInjective
  <2> QED BY <1>3, <1>6, <2>3
<1>8. ToSet(r) = ToSet(q) \ {x}
  <2>1. ASSUME NEW i \in 1 .. Len(q) - 1 PROVE r[i] \in ToSet(q) \ {x}
    <3>1. CASE i < k
      <4>1. i \in 1 .. Len(q) /\ i # k
        BY <1>3, <1>6, <3>1
      <4>2. r[i] = q[i] /\ q[i] # q[k]
        BY <1>5, <1>6, <3>1, <4>1 DEF IsInjective
      <4> QED BY <1>1, <1>6, <4>1, <4>2 DEF ToSet
    <3>2. CASE ~(i < k)
      <4>1. i + 1 \in 1 .. Len(q) /\ i + 1 # k
        BY <1>3, <1>6, <3>2
      <4>2. r[i] = q[i + 1] /\ q[i + 1] # q[k]
        BY <1>5, <1>6, <3>2, <4>1 DEF IsInjective
      <4> QED BY <1>1, <1>6, <4>1, <4>2 DEF ToSet
    <3> QED BY <3>1, <3>2
  <2>2. ASSUME NEW j \in 1 .. Len(q), j # k PROVE q[j] \in ToSet(r)
    <3>1. CASE j < k
      <4>1. j \in 1 .. Len(q) - 1 /\ r[j] = q[j]
        BY <1>3, <1>5, <1>6, <3>1
      <4> QED BY <1>5, <4>1 DEF ToSet
    <3>2. CASE j > k
      <4>1. j - 1 \in 1 .. Len(q) - 1 /\ ~(j - 1 < k) /\ (j - 1) + 1 = j
        BY <1>3, <1>6, <3>2
      <4>2. r[j - 1] = q[j]
        BY <1>5, <4>1
      <4> QED BY <1>5, <4>1, <4>2 DEF ToSet
    <3> QED BY <1>3, <1>6, <2>2, <3>1, <3>2
  <2>3. ToSet(r) \subseteq ToSet(q) \ {x}
    BY <1>5, <2>1 DEF ToSet
  <2>4. ToSet(q) \ {x} \subseteq ToSet(r)
    BY <1>1, <1>6, <2>2 DEF ToSet
  <2> QED BY <2>3, <2>4
<1> QED BY <1>4, <1>5, <1>7, <1>8 DEF r
=============================================================================
