---------------------------- MODULE SIODTimeRange ----------------------------
(***************************************************************************)
(* The time range of a SIOD, outside of which Set and IVRSetReq are turned *)
(* down: the TimeRange message and the start read it into two broken-down  *)
(* times (ParseTimeRange), and CheckTimeRange compares them with the clock.*)
(*                                                                         *)
(* A day has DAY units of time.  All days are in one month, that begins on *)
(* a Monday and that the clock does not leave, so the day of the month says*)
(* which day it is; tm_mon goes with tm_year.  The C library is external.  *)
(***************************************************************************)
EXTENDS Integers

CONSTANTS
    DAY,        \* SECSINDAY
    Ranges,     \* what a message may ask for: kind, from, to, time
    Now         \* the clock: units since the beginning of the month

DAYSINWEEK == 7
YEAR       == 115     \* tm_year of the month

(* Dates are of three kinds: omitted, days of the week, days of the month. *)
(* A time is omitted, or a pair.  text says whether the end can be read.   *)
Kind == {"any", "week", "date"}

VARIABLES
    start, end,   \* TIMERANGE, static and so zero at first
    stored,       \* siod.timerange.range, committed
    pc,           \* the process: down, up, or before uciset and ucicommit
    now,
    given,        \* ghost: the range in force
    mixed         \* ghost: a range of the week was read over other fields
vars == <<start, end, stored, pc, now, given, mixed>>

Tm == [mday : -1 .. 31, year : {-1, 0, YEAR}, wday : 0 .. 6, time : -1 .. DAY - 1]

TypeOK ==
    /\ start \in Tm /\ end \in Tm
    /\ stored \in Ranges /\ given \in Ranges
    /\ pc \in {"down", "up", "commit"}
    /\ now \in Now
    /\ mixed \in BOOLEAN

Zero == [mday |-> 0, year |-> 0, wday |-> 0, time |-> 0]

Init ==
    /\ start = Zero /\ end = Zero
    /\ stored \in {r \in Ranges : r.kind = "any" /\ r.time = <<>> /\ r.text = "good"}
    /\ given = stored /\ mixed = FALSE
    /\ pc = "down"
    /\ now \in Now

-----------------------------------------------------------------------------
(* strptime: a day of the month sets day, month and year.  A day of the    *)
(* week is tried as a day of the month first, and whether that try leaves a*)
(* day it could read behind depends on the library; 0 is not one.          *)
strptime(tm, r, day, time) ==
    LET timed == [tm EXCEPT !.time = time]
    IN  CASE r.kind = "date" -> {[timed EXCEPT !.mday = day, !.year = YEAR]}
          [] r.kind = "week" -> {[timed EXCEPT !.wday = day]}
                                \cup {[timed EXCEPT !.wday = day, !.mday = day] : d \in {day} \ {0}}
          [] r.kind = "any"  -> {[timed EXCEPT !.wday = 0]}

(* An omitted date is read as Sunday and an omitted time as midnight, and  *)
(* the fields are then replaced by -1.                                     *)
Repetitive(tm, r) ==
    [mday |-> IF r.kind = "any" THEN -1 ELSE tm.mday,
     year |-> IF r.kind = "any" THEN -1 ELSE tm.year,
     wday |-> tm.wday,
     time |-> IF r.time = <<>> THEN -1 ELSE tm.time]

Times(r) == IF r.time = <<>> THEN <<0, 0>> ELSE r.time

(* When the end cannot be read, the start has already been changed.        *)
ParseTimeRange(r) ==
    \E s \in strptime(start, r, r.from, Times(r)[1]) :
       IF r.text = "bad"
       THEN start' = s /\ UNCHANGED end
       ELSE \E e \in strptime(end, r, r.to, Times(r)[2]) :
               start' = Repetitive(s, r) /\ end' = Repetitive(e, r)

-----------------------------------------------------------------------------
(* CheckTimeRange.  A time before 1900 is before everything.               *)
mktime(tm) == IF tm.year = -1 THEN -1 ELSE tm.mday * DAY + tm.time

mday == now \div DAY
wday == mday % DAYSINWEEK

Today(tm) == [tm EXCEPT !.mday = mday, !.year = YEAR]

(* The fields of the start decide which ones are taken from the clock.     *)
Filled(tm) ==
    LET dated == IF start.mday = -1 THEN Today(tm) ELSE tm
    IN  IF start.time = -1 THEN [dated EXCEPT !.time = now % DAY] ELSE dated

(* Mutant: the end is always in this week.                                 *)
WeekOfNow ==
    LET from == mktime(Today(Filled(start))) + (start.wday - wday) * DAY
        to   == mktime(Today(Filled(end))) + (end.wday - wday) * DAY
    IN  from <= now /\ now <= to

(* A range of the week: the start is in this week, the end may be in the   *)
(* next.                                                                   *)
Week ==
    LET from  == mktime(Today(Filled(start))) + (start.wday - wday) * DAY
        weeks == IF end.wday >= start.wday THEN 0 ELSE DAYSINWEEK
        to    == mktime(Today(Filled(end))) + (end.wday - wday + weeks) * DAY
    IN  from <= now /\ now <= to

Concrete == mktime(Filled(start)) <= now /\ now <= mktime(Filled(end))

(* Whether the outputs are released.  With a date and a time in the start, *)
(* neither branch sets the variables that Concrete compares.               *)
Unset == start.mday # -1 /\ start.time # -1

CheckTimeRange == IF start.year = 0 THEN {Week}
                  ELSE IF Unset THEN BOOLEAN ELSE {Concrete}

-----------------------------------------------------------------------------
(* main: the static fields are zero, and the stored range is read.         *)
Start ==
    /\ pc = "down"
    /\ ParseTimeRange(stored)
    /\ pc' = "up"
    /\ given' = stored /\ mixed' = FALSE
    /\ UNCHANGED <<stored, now>>

(* The message: a range that can be read is stored.                        *)
TimeRange(r) ==
    /\ pc = "up"
    /\ ParseTimeRange(r)
    /\ pc' = IF r.text = "good" THEN "commit" ELSE "up"
    /\ given' = IF r.text = "good" THEN r ELSE given
    /\ mixed' = (r.text = "bad" \/ (r.kind = "week" /\ (given.kind # "week" \/ mixed)))
    /\ UNCHANGED <<stored, now>>

ucicommit ==
    /\ pc = "commit"
    /\ stored' = given
    /\ pc' = "up"
    /\ UNCHANGED <<start, end, now, given, mixed>>

(* Time passes; the process ends, or the power fails.                      *)
Pass ==
    /\ now + 1 \in Now
    /\ now' = now + 1
    /\ UNCHANGED <<start, end, stored, pc, given, mixed>>

Crash ==
    /\ pc # "down"
    /\ pc' = "down"
    /\ start' = Zero /\ end' = Zero
    /\ given' = stored /\ mixed' = FALSE
    /\ UNCHANGED <<stored, now>>

Next == Start \/ ucicommit \/ Pass \/ Crash \/ \E r \in Ranges : TimeRange(r)

Spec == Init /\ [][Next]_vars

-----------------------------------------------------------------------------
(* What the description of the message says: a range begins on a day and   *)
(* ends on that day or a later one, the next one when the second time is   *)
(* the smaller and no range of days is given; without days it begins every *)
(* day, and a day of the week comes every week.                            *)
Days(r) ==
    CASE r.kind = "date" -> {<<r.from, r.to>>}
      [] r.kind = "any"  -> {<<d, d>> : d \in mday - 1 .. mday}
      [] r.kind = "week" ->
            {<<w * DAYSINWEEK + r.from, w * DAYSINWEEK + r.from + ((r.to - r.from) % DAYSINWEEK)>> :
                w \in -1 .. mday \div DAYSINWEEK}

Overnight(r) == r.time # <<>> /\ r.time[2] < r.time[1] /\ r.from = r.to

Meant(r) ==
    \E d \in Days(r) :
       IF r.time = <<>> THEN mday \in d[1] .. d[2]
       ELSE /\ d[1] * DAY + r.time[1] <= now
            /\ now <= (IF Overnight(r) THEN d[2] + 1 ELSE d[2]) * DAY + r.time[2]

(* The days of a range over the end of the week that are in the new week.  *)
NewWeek(r) == r.kind = "week" /\ r.to < r.from /\ wday < r.from

(* Whatever ranges were set and forgotten before, outputs are released at  *)
(* the times the last range names.  Four kinds of ranges are excepted: a   *)
(* single one, of days of the month with times; one that ends on the next  *)
(* day; one of the week, after its end; and what is read over a range of   *)
(* another kind, or over a part of one that was refused, since the last    *)
(* start.                                                                  *)
Single(r) == r.kind = "date" /\ r.time # <<>>

InTimeRange ==
    pc # "down" /\ ~ mixed /\ ~ Single(given) /\ ~ Overnight(given) /\ ~ NewWeek(given) =>
       CheckTimeRange = {Meant(given)}
=============================================================================
