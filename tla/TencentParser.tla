----------------------------- MODULE TencentParser -----------------------------
(***************************************************************************)
(* What parser.rs makes of the texts of the Tencent service: quote lines   *)
(* become depths, the opening time of a bar becomes an instant.  A line is *)
(* known by its number of '~' separated fields, its market id and its      *)
(* code; a line without '=' or without content has no fields.              *)
(***************************************************************************)
EXTENDS Integers, Sequences, FiniteSets

\* Variant: the guard asks for the first of the two levels only.
MinFieldsOfBids == 19
MinFields == 48

\* parse_levels reads five pairs of price and volume from a slice of ten fields.
LevelFields(first) == {first + 2 * k + i : k \in 0 .. 4, i \in 0 .. 1}

\* Fields read by index or slice, which panics past the end; all others are read
\* with get() and have a default.
IndexedFields == {0, 2} \union LevelFields(9) \union LevelFields(19)

\* parse_depth_line returns a depth, or indexes past the end of the line.
IsQuote(line) == line.fields >= MinFields
Overrun(line) == IsQuote(line) /\ \E f \in IndexedFields : f >= line.fields

DepthOf(line) ==
  [market |-> IF line.id = "1" THEN "SH" ELSE "SZ", code |-> line.code]

\* The k-th smallest of a set of line numbers.
Kth(Q, k) == CHOOSE i \in Q : Cardinality({j \in Q : j <= i}) = k

\* parse_depth_quote: lines that are no quotes are left out, order is kept.
ParseDepthQuote(lines) ==
  LET quotes == {i \in DOMAIN lines : IsQuote(lines[i])}
  IN  [k \in 1 .. Cardinality(quotes) |-> DepthOf(lines[Kth(quotes, k)])]

-----------------------------------------------------------------------------
(* Opening times, in minutes since 1970 where the code has nanoseconds in  *)
(* an i64.                                                                 *)

\* Variant: the shift of the year to March is forgotten.
DaysFromCivilUnshifted(year, month, day) ==
  LET era == (IF year >= 0 THEN year ELSE year - 399) \div 400
      yoe == year - era * 400
      doy == (153 * (month + IF month > 2 THEN -3 ELSE 9) + 2) \div 5 + day - 1
      doe == yoe * 365 + yoe \div 4 - yoe \div 100 + doy
  IN  era * 146097 + doe - 719468

DaysFromCivil(year, month, day) ==
  LET y   == IF month <= 2 THEN year - 1 ELSE year
      era == (IF y >= 0 THEN y ELSE y - 399) \div 400
      yoe == y - era * 400
      doy == (153 * (month + IF month > 2 THEN -3 ELSE 9) + 2) \div 5 + day - 1
      doe == yoe * 365 + yoe \div 4 - yoe \div 100 + doy
  IN  era * 146097 + doe - 719468

\* Whole minutes whose nanoseconds an i64 holds: 2^63 \div (60 * 10^9).
MaxMinutes == 153722867
Times == -MaxMinutes .. MaxMinutes

\* secs * 1_000_000_000: outside the range a debug build panics and a release
\* build wraps to a time that has nothing to do with the date.
Overflowed == MaxMinutes + 1
Time(minutes) == IF minutes \in Times THEN minutes ELSE Overflowed

\* "202605201022" has a time of day, "2026-05-20" opens at midnight; both are
\* China time.
MinuteOpenTime(y, m, d, hour, minute) ==
  Time(DaysFromCivil(y, m, d) * 1440 + hour * 60 + minute - 8 * 60)
DayOpenTime(y, m, d) == MinuteOpenTime(y, m, d, 0, 0)

-----------------------------------------------------------------------------
(* The calendar, counted day by day.                                       *)

\* The years all of whose days open at a time an i64 holds.
Years == 1678 .. 2261

Leap(y) == y % 4 = 0 /\ (y % 100 # 0 \/ y % 400 = 0)

MonthLength(y, m) ==
  CASE m = 2              -> IF Leap(y) THEN 29 ELSE 28
    [] m \in {4, 6, 9, 11} -> 30
    [] OTHER              -> 31

Date == {t \in Years \X (1 .. 12) \X (1 .. 31) : t[3] <= MonthLength(t[1], t[2])}

NextDay(y, m, d) ==
  IF d < MonthLength(y, m) THEN <<y, m, d + 1>>
  ELSE IF m < 12 THEN <<y, m + 1, 1>> ELSE <<y + 1, 1, 1>>

OneDayLater(t, u) ==
  /\ {DayOpenTime(t[1], t[2], t[3]), DayOpenTime(u[1], u[2], u[3])} \subseteq Times
  /\ DayOpenTime(u[1], u[2], u[3]) = DayOpenTime(t[1], t[2], t[3]) + 1440

\* The closed formula for days agrees with the calendar, and no time overflows;
\* it does in the years on either side.
OpenTimesFollowCalendar ==
  /\ DayOpenTime(1970, 1, 1) = -480
  /\ \A t \in Date : OneDayLater(t, NextDay(t[1], t[2], t[3]))
  /\ DayOpenTime(1677, 1, 1) = Overflowed /\ DayOpenTime(2262, 12, 31) = Overflowed
=============================================================================
