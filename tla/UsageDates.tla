----------------------------- MODULE UsageDates -----------------------------
(***************************************************************************)
(* The date arithmetic behind the usage window of a token (web/src/pages/   *)
(* TokenDetail.tsx): what the browser's date, week and month inputs hold,   *)
(* the window they stand for, and the buckets of its chart.  Days are       *)
(* numbered from 1 January 1970 in the reader's time zone (daylight saving  *)
(* left out), times are in half hours UTC.                                  *)
(***************************************************************************)
EXTENDS Integers, FiniteSets

CONSTANTS
    SampleDay,     \* days the window is computed for
    Today,         \* the current day
    ZoneOffset     \* half hours of the time zone east of UTC

ASSUME DateConstants ==
    SampleDay \subseteq Nat /\ Today \in Nat /\ ZoneOffset \subseteq -24 .. 28

VARIABLE dateSample   \* a day, a period and a time zone

-----------------------------------------------------------------------------
(* The calendar (external: Date of JavaScript).                               *)

Leap(y) == y % 4 = 0                                      \* 1901 .. 2099
DaysBefore(y) == 365 * (y - 1970) + (y - 1969) \div 4
YearOf(d) ==
    LET r == (d + 365) % 1461
    IN  1969 + 4 * ((d + 365) \div 1461) + (IF r >= 1095 THEN 3 ELSE r \div 365)
MonthStart(y, m) ==
    DaysBefore(y) + <<0, 31, 59, 90, 120, 151, 181, 212, 243, 273, 304, 334>>[m]
                  + (IF m > 2 /\ Leap(y) THEN 1 ELSE 0)
NextMonth(y, m) == IF m = 12 THEN DaysBefore(y + 1) ELSE MonthStart(y, m + 1)
MonthOf(d) == CHOOSE m \in 1 .. 12 : MonthStart(YearOf(d), m) <= d /\ d < NextMonth(YearOf(d), m)
Weekday(d) == (d + 3) % 7     \* Monday is 0

-----------------------------------------------------------------------------
(* Windows.                                                                   *)

StartOfWeek(d) == d - Weekday(d)
StartOfMonth(d) == MonthStart(YearOf(d), MonthOf(d))
StartOf(p, d) == CASE p = "day" -> d [] p = "week" -> StartOfWeek(d) [] p = "month" -> StartOfMonth(d)

\* formatWeekInput: the year and number of the week, by its Thursday.
FormatWeekInput(d) ==
    LET thursday == d + 3 - Weekday(d)
        jan4 == DaysBefore(YearOf(thursday)) + 3
    IN  [year |-> YearOf(thursday), part |-> 1 + (thursday - jan4 - 3 + Weekday(jan4)) \div 7]

FormatPeriodInput(p, d) ==
    CASE p = "day" -> [year |-> YearOf(d), part |-> d - DaysBefore(YearOf(d))]
      [] p = "week" -> FormatWeekInput(d)
      [] p = "month" -> [year |-> YearOf(d), part |-> MonthOf(d)]

\* computeStartDate, nothing after the current day.
ReadInput(p, input) ==
    CASE p = "day" -> DaysBefore(input.year) + input.part
      [] p = "week" -> LET jan4 == DaysBefore(input.year) + 3
                       IN  jan4 - Weekday(jan4) + (input.part - 1) * 7
      [] p = "month" -> MonthStart(input.year, input.part)
ComputeStartDate(p, input) ==
    LET start == ReadInput(p, input)
    IN  IF start <= Today THEN start ELSE IF p = "month" THEN StartOfMonth(Today) ELSE Today

ComputeEndDate(p, start) ==
    CASE p = "day" -> start + 1
      [] p = "week" -> start + 7
      [] p = "month" -> NextMonth(YearOf(start), MonthOf(start)) + start - StartOfMonth(start)

Sanitize(p, input) == FormatPeriodInput(p, ComputeStartDate(p, input))

-----------------------------------------------------------------------------
(* The buckets of the chart.                                                  *)

BucketSize(p) == IF p = "day" THEN 2 ELSE 48
AlignToBucket(t, size) == t - (t % size)
Max2(a, b) == IF a > b THEN a ELSE b
Ceil(a, b) == (a + b - 1) \div b

\* refreshSnapshotUsage: the starts of the bars, from the aligned start to the first aligned time
\* at or after the end.
SnapshotBuckets(p, start, end) ==
    LET size == BucketSize(p)
        first == AlignToBucket(start, size)
        count == Max2(1, Ceil(Max2(first + size, end) - first, size))
    IN  {first + i * size : i \in 0 .. count - 1}

-----------------------------------------------------------------------------
(* Samples.                                                                   *)

DateSample == [day : SampleDay, period : {"day", "week", "month"}, zone : ZoneOffset]
NoDate == [period |-> "none"]   \* the page is not on the screen
DateInit == dateSample \in DateSample
DateTypeOK == dateSample \in DateSample \cup {NoDate}

\* The input a day is written as stands for a window that holds the day, and is written the same
\* again; for a day to come it becomes the current period.  A week has the number the browser's
\* input accepts, before the first week of the next year.  Weeks that belong to another year
\* than their days, and the lengths of months, are where this can fail.
WindowOfInput ==
    dateSample # NoDate =>
    LET p == dateSample.period
        d == dateSample.day
        input == FormatPeriodInput(p, StartOf(p, d))
        start == ComputeStartDate(p, input)
    IN  /\ d <= Today => /\ start <= d /\ d < ComputeEndDate(p, start)
                         /\ start = StartOf(p, d) /\ Sanitize(p, input) = input
        /\ p = "week" => StartOf(p, d) < ReadInput(p, [year |-> input.year + 1, part |-> 1])
        /\ StartOf(p, d) > Today => Sanitize(p, input) = FormatPeriodInput(p, StartOf(p, Today))

\* The bars of the chart leave nothing of the window out and reach less than a bucket over either
\* end, whatever the time zone.
BarsCoverWindow ==
    dateSample # NoDate =>
    LET p == dateSample.period
        first == StartOf(p, dateSample.day)
        start == 48 * first - dateSample.zone
        end == 48 * ComputeEndDate(p, first) - dateSample.zone
        bars == SnapshotBuckets(p, start, end)
        size == BucketSize(p)
    IN  /\ \E b \in bars : b <= start /\ start < b + size
        /\ \E b \in bars : b < end /\ end <= b + size
        /\ \A b \in bars : b + size > start /\ b < end /\ (b + size < end => b + size \in bars)
=============================================================================
