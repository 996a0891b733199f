------------------------------ MODULE CronExpr ------------------------------
(***************************************************************************)
(* Cron expressions (third_lib/cronexpr/ccronexpr.c) and what crontasks.c  *)
(* asks of them: parsing the text of a task, the next time it is due and   *)
(* the last time it was.  A text is a sequence of numbers, names and       *)
(* separators, an instant a number of seconds since the beginning of 2016. *)
(***************************************************************************)
EXTENDS Integers, Sequences, FiniteSetsExt, SequencesExt, TLC

CONSTANTS
  Expressions,   \* the texts tasks are registered with
  Clocks,        \* the times the clock may show or be set to
  Delays,        \* how late a job may end after it was due
  East,          \* the local time zone is east of Greenwich
  MaxDepth,      \* the calls of do_prev that fit on the stack
  MaxJobs

Invalid  == -1   \* CRON_INVALID_INSTANT
Overflow == -2   \* the recursion has used up the stack

(***************************************************************************)
(* Parsing.  A result is [ok, bits].                                       *)
(***************************************************************************)
Failed == [ok |-> FALSE, bits |-> {}]
Bits(S) == [ok |-> TRUE, bits |-> S]

split_str(text, del) ==
  LET step(parts, c) == IF c = del THEN Append(parts, <<>>)
                        ELSE [parts EXCEPT ![Len(parts)] = IF c = " " THEN @ ELSE Append(@, c)]
  IN  SelectSeq(FoldLeft(step, <<(<<>>)>>, text), LAMBDA p : p # <<>>)

has_char(text, c) == \E i \in DOMAIN text : text[i] = c

\* -1 for what is not a number; the numbers texts are made of are small.
parse_uint(text) ==
  IF Len(text) = 1 /\ \E n \in 0..99 : ToString(n) = text[1]
  THEN CHOOSE n \in 0..99 : ToString(n) = text[1] ELSE -1

\* The first and the last number of a range, <<-1, -1>> when it is none between min and max.
Ends(field, parts, min, max) ==
  IF field = <<"*">> THEN <<min, max - 1>>
  ELSE IF ~has_char(field, "-") THEN <<parse_uint(field), parse_uint(field)>>
  ELSE IF Len(parts) = 2 THEN <<parse_uint(parts[1]), parse_uint(parts[2])>>
  ELSE <<-1, -1>>
Within(range, min, max) ==
  IF min <= range[1] /\ range[1] <= range[2] /\ range[2] < max THEN range ELSE <<-1, -1>>
get_range(field, min, max) == Within(Ends(field, split_str(field, "-"), min, max), min, max)

Every(lo, hi, delta) == {i \in lo..hi : (i - lo) % delta = 0}
\* One member of a list, split at its "/", with its range and its step.
Hits(f, split, range, delta, max) ==
  IF (has_char(f, "/") /\ Len(split) # 2) \/ range[1] = -1 THEN Failed
  ELSE IF ~has_char(f, "/") THEN Bits(range[1]..range[2])
  ELSE IF delta <= 0 THEN Failed
  ELSE Bits(Every(range[1], IF has_char(split[1], "-") THEN range[2] ELSE max - 1, delta))
MemberHits(f, split, min, max) ==
  Hits(f, split, get_range(IF has_char(f, "/") THEN split[1] ELSE f, min, max), parse_uint(split[2]), max)
AllHits(hits) == IF hits = {} \/ Failed \in hits THEN Failed ELSE Bits(UNION {h.bits : h \in hits})
set_number_hits(value, min, max) ==
  AllHits({MemberHits(f, split_str(f, "/"), min, max) : f \in ToSet(split_str(value, ","))})

DAYS   == <<"SUN", "MON", "TUE", "WED", "THU", "FRI", "SAT">>
MONTHS == <<"FOO", "JAN", "FEB", "MAR", "APR", "MAY", "JUN", "JUL", "AUG", "SEP", "OCT", "NOV", "DEC">>
\* A name becomes its number in the list; numbers and separators stay.
str_replace(token, arr) ==
  IF has_char(arr, token) THEN ToString((CHOOSE n \in DOMAIN arr : arr[n] = token) - 1) ELSE token
replace_ordinals(value, arr) == [i \in DOMAIN value |-> str_replace(value[i], arr)]
AnyDay(field) == IF field = <<"?">> THEN <<"*">> ELSE field

\* Months count from 0 afterwards, and Sunday is day 0 and day 7.
set_months(value) ==
  LET r == set_number_hits(replace_ordinals(value, MONTHS), 1, 13)
  IN  [r EXCEPT !.bits = {b - 1 : b \in @}]
set_days_of_week(field) ==
  LET r == set_number_hits(replace_ordinals(AnyDay(field), DAYS), 0, 8)
  IN  [r EXCEPT !.bits = {b % 7 : b \in @}]
set_days_of_month(field) == set_number_hits(AnyDay(field), 1, 32)

SixFields(f) ==
  [second |-> set_number_hits(f[1], 0, 60), minute |-> set_number_hits(f[2], 0, 60),
   hour   |-> set_number_hits(f[3], 0, 24), day    |-> set_days_of_month(f[4]),
   month  |-> set_months(f[5]),             weekday |-> set_days_of_week(f[6])]
Whole(fields) ==
  IF \E x \in DOMAIN fields : ~fields[x].ok THEN [ok |-> FALSE]
  ELSE [ok |-> TRUE] @@ [x \in DOMAIN fields |-> fields[x].bits]
cron_parse_expr(text) ==
  IF Len(split_str(text, " ")) # 6 THEN [ok |-> FALSE] ELSE Whole(SixFields(split_str(text, " ")))

(***************************************************************************)
(* The calendar of gmtime and timegm; months count from January 2016.      *)
(***************************************************************************)
Before == <<0, 31, 59, 90, 120, 151, 181, 212, 243, 273, 304, 334>>
FirstDay(n) == LET y == n \div 12
               IN  365 * y + (y + 3) \div 4 + Before[(n % 12) + 1]
                   + (IF n % 12 > 1 /\ y % 4 = 0 THEN 1 ELSE 0)
Day(t)   == t \div 86400
Month(t) == CHOOSE n \in (Day(t) \div 31)..(Day(t) \div 28) :
              FirstDay(n) <= Day(t) /\ Day(t) < FirstDay(n + 1)
Field(t, f) == CASE f = "second"  -> t % 60
                 [] f = "minute"  -> (t \div 60) % 60
                 [] f = "hour"    -> (t \div 3600) % 24
                 [] f = "day"     -> Day(t) - FirstDay(Month(t)) + 1
                 [] f = "weekday" -> (Day(t) + 5) % 7
                 [] f = "month"   -> Month(t) % 12
Unit == [second |-> 1, minute |-> 60, hour |-> 3600, day |-> 86400]
InMonth(t, n) == t + (FirstDay(n) - FirstDay(Month(t))) * 86400

\* timegm takes every field as it is, so that the 31st of a short month lies in the next.
add_to_field(t, f, val) == CASE f = "month" -> InMonth(t, Month(t) + val)
                             [] f = "year"  -> InMonth(t, Month(t) + 12 * val)
                             [] OTHER       -> t + val * Unit[f]
set_field(t, f, val) == add_to_field(t, f, val - Field(t, f))

(***************************************************************************)
(* The next time.  The fields in resets are those that matched so far.     *)
(***************************************************************************)
reset_min(t, f) == set_field(t, f, IF f = "day" THEN 1 ELSE 0)
reset_all_min(t, resets) == FoldLeft(reset_min, t, resets)

\* The first of the later bits, or in the next unit of the field above the first of all.
Later(t, later, bits, f, carry) ==
  IF later # {} THEN set_field(t, f, Min(later))
  ELSE set_field(reset_min(add_to_field(t, carry, 1), f), f, Min(bits))
NextKeepsLower(t, bits, f, carry, resets) ==                               \* Mistake
  Later(t, {b \in bits : b >= Field(t, f)}, bits, f, carry)
find_next(t, bits, f, carry, resets) ==
  IF Field(t, f) \in bits THEN t
  ELSE reset_all_min(Later(t, {b \in bits : b >= Field(t, f)}, bits, f, carry), resets)

DayMatches(e, t) == Field(t, "day") \in e.day /\ Field(t, "weekday") \in e.weekday
\* How many days the search for one that matches takes; it gives up after a year.
DaysTo(e, t, dir) ==
  CHOOSE n \in 1..366 : /\ n = 366 \/ DayMatches(e, add_to_field(t, "day", dir * n))
                        /\ \A k \in 1..n - 1 : ~DayMatches(e, add_to_field(t, "day", dir * k))
find_next_day(e, t, resets) ==
  IF DayMatches(e, t) THEN t ELSE reset_all_min(add_to_field(t, "day", DaysTo(e, t, 1)), resets)

\* The fields above the second: when one was moved, everything below is done again; resets
\* then lacks the field, and the second if that was moved.
Higher == <<"minute", "hour", "day", "month">>
Carry  == [minute |-> "hour", hour |-> "day", month |-> "year"]
\* The field of t was right already; otherwise t was moved.
Same(e, t, moved, f) == IF f = "day" THEN Field(t, f) = Field(moved, f) ELSE Field(t, f) \in e[f]
ToNext(e, t, f, resets) == IF f = "day" THEN find_next_day(e, t, resets)
                           ELSE find_next(t, e[f], f, Carry[f], resets)
RECURSIVE do_next(_, _, _), NextField(_, _, _, _, _), AfterField(_, _, _, _, _, _)
do_next(e, t, dot) ==
  NextField(e, find_next(t, e.second, "second", "minute", <<>>), dot, 1,
            IF Field(t, "second") \in e.second THEN <<"second">> ELSE <<>>)
NextField(e, t, dot, i, resets) ==
  IF i > 4 \/ t < 0 THEN t ELSE AfterField(e, t, ToNext(e, t, Higher[i], resets), dot, i, resets)
AfterField(e, t, moved, dot, i, resets) ==
  IF Same(e, t, moved, Higher[i]) THEN NextField(e, moved, dot, i + 1, Append(resets, Higher[i]))
  ELSE NextField(e, IF Higher[i] = "month" /\ Month(moved) \div 12 - dot > 4 THEN Invalid
                    ELSE do_next(e, moved, dot), dot, i + 1, resets)

\* The time found is not the given one: otherwise the search starts a second further.
Other(e, date, calculated) ==
  IF calculated = date THEN do_next(e, date + 1, Month(date + 1) \div 12) ELSE calculated
cron_next(e, date) == Other(e, date, do_next(e, date, Month(date) \div 12))

(***************************************************************************)
(* The time before.                                                        *)
(***************************************************************************)
\* The last day as mktime and gmtime have it: one day short east of Greenwich.
last_day_of_month(n) == FirstDay(n + 1) - FirstDay(n) - (IF East THEN 1 ELSE 0)
reset_max(t, f) == set_field(t, f, CASE f \in {"second", "minute"} -> 59
                                     [] f = "hour"                 -> 23
                                     [] f = "day"                  -> last_day_of_month(Month(t))
                                     [] f = "month"                -> 11)
reset_all_max(t, resets) == FoldLeft(reset_max, t, resets)

Earlier(t, earlier, bits, f, carry) ==
  IF earlier # {} THEN set_field(t, f, Max(earlier))
  ELSE set_field(reset_max(add_to_field(t, carry, -1), f), f, Max(bits))
find_prev(t, bits, f, carry, resets) ==
  IF Field(t, f) \in bits THEN t
  ELSE reset_all_max(Earlier(t, {b \in bits : b <= Field(t, f)}, bits, f, carry), resets)

find_prev_day(e, t, resets) ==
  IF DayMatches(e, t) THEN t ELSE reset_all_max(add_to_field(t, "day", -DaysTo(e, t, -1)), resets)

ToPrev(e, t, f, resets) == IF f = "day" THEN find_prev_day(e, t, resets)
                           ELSE find_prev(t, e[f], f, Carry[f], resets)
RECURSIVE do_prev(_, _, _, _), PrevField(_, _, _, _, _, _), BeforeField(_, _, _, _, _, _, _)
do_prev(e, t, dot, depth) ==
  IF depth = 0 THEN Overflow
  ELSE PrevField(e, find_prev(t, e.second, "second", "minute", <<>>), dot, depth, 1,
                 IF Field(t, "second") \in e.second THEN <<"second">> ELSE <<>>)
PrevField(e, t, dot, depth, i, resets) ==
  IF i > 4 \/ t < 0 THEN t
  ELSE BeforeField(e, t, ToPrev(e, t, Higher[i], resets), dot, depth, i, resets)
BeforeField(e, t, moved, dot, depth, i, resets) ==
  IF Same(e, t, moved, Higher[i])
  THEN PrevField(e, moved, dot, depth, i + 1, Append(resets, Higher[i]))
  ELSE PrevField(e, IF Higher[i] = "month" /\ dot - Month(moved) \div 12 > 4 THEN Invalid
                    ELSE do_prev(e, moved, dot, depth - 1), dot, depth, i + 1, resets)

OtherBefore(e, date, calculated) ==
  IF calculated = date THEN do_prev(e, date - 1, Month(date - 1) \div 12, MaxDepth) ELSE calculated
cron_prev(e, date) == OtherBefore(e, date, do_prev(e, date, Month(date) \div 12, MaxDepth))

(***************************************************************************)
(* A task of crontasks.c.                                                  *)
(***************************************************************************)
VARIABLES
  text, expr,    \* the text a task is registered with, and what it was parsed into
  now,           \* the clock
  nextTrigger, cl_NotUntil,
  asked,         \* history: the times they were computed at
  jobs
cronVars == <<text, expr, now, nextTrigger, cl_NotUntil, asked, jobs>>

CronInit ==
  /\ text \in Expressions /\ expr = [ok |-> FALSE] /\ now \in Clocks
  /\ nextTrigger = Invalid /\ cl_NotUntil = Invalid /\ asked = <<>> /\ jobs = 0

\* cron_task_register parses the text and computes the first nextTrigger.
Register ==
  /\ jobs = 0 /\ jobs' = 1 /\ expr' = cron_parse_expr(text)
  /\ IF expr'.ok THEN nextTrigger' = cron_next(expr', now) /\ asked' = [next |-> now]
     ELSE UNCHANGED <<nextTrigger, asked>>
  /\ UNCHANGED <<text, now, cl_NotUntil>>

\* run_job: the callback, which may set the clock, then prev_stamp and updateNextTrigger.
RunJob ==
  /\ jobs \in 1..MaxJobs /\ jobs' = jobs + 1 /\ expr.ok /\ nextTrigger >= 0
  /\ now' \in {nextTrigger + d : d \in Delays} \cup Clocks
  /\ cl_NotUntil' = cron_prev(expr, now') /\ nextTrigger' = cron_next(expr, now')
  /\ asked' = [next |-> now', prev |-> now']
  /\ UNCHANGED <<text, expr>>

CronStep == Register \/ RunJob

(***************************************************************************)
(* Properties.                                                             *)
(***************************************************************************)
Matches(t) == /\ Field(t, "second") \in expr.second /\ Field(t, "minute") \in expr.minute
              /\ Field(t, "hour") \in expr.hour /\ DayMatches(expr, t)
              /\ Field(t, "month") \in expr.month
\* No time between lo and hi, both excluded, matches.
NoneBetween(lo, hi) ==
  \A d \in Day(lo)..Day(hi) : DayMatches(expr, d * 86400) /\ Field(d * 86400, "month") \in expr.month =>
    \A h \in expr.hour, m \in expr.minute, s \in expr.second :
      LET t == d * 86400 + h * 3600 + m * 60 + s IN t <= lo \/ hi <= t
\* One second of the minute and every month: what the daemon's own expressions are like.
Plain == Cardinality(expr.second) = 1 /\ expr.month = 0..11

\* nextTrigger matches the expression and lies after the time it was computed at; of a plain
\* expression it is the first that does.
TriggerIsNext ==
  "next" \in DOMAIN asked =>
    /\ nextTrigger >= 0 => nextTrigger > asked.next /\ Matches(nextTrigger)
    /\ Plain => nextTrigger >= 0 /\ NoneBetween(asked.next, nextTrigger)

\* cl_NotUntil is the last matching time before the one it was computed at.
StampIsLast ==
  "prev" \in DOMAIN asked =>
    /\ cl_NotUntil >= 0 => cl_NotUntil < asked.prev /\ Matches(cl_NotUntil)
    /\ Plain => cl_NotUntil >= 0 /\ NoneBetween(cl_NotUntil, asked.prev)
=============================================================================
