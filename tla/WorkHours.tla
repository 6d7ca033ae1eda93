------------------------------- MODULE WorkHours -------------------------------
(***************************************************************************)
(* The hours that the Python worker calculates from the punches of a       *)
(* workbook of attendance (worker_python/wage/attendance.py), and the days *)
(* of the period it finds columns for.                                     *)
(*                                                                         *)
(* A punch is the minute of the day; texts that are no time of day are no  *)
(* punches.  Hours are in hundredths, as they are rounded.  A date is a    *)
(* record of a month and a day.  Left out: the layout of the sheet, and    *)
(* warnings about it.                                                      *)
(***************************************************************************)
EXTENDS Integers, Sequences, FiniteSets, Functions

\* t is the i-th time: fewer punches are before it, and enough not after it
Placed(punches, i, t) ==
    /\ Cardinality({j \in DOMAIN punches : punches[j] < t}) < i
    /\ i <= Cardinality({j \in DOMAIN punches : punches[j] <= t})

Chronological(punches) ==
    [i \in DOMAIN punches |-> CHOOSE t \in Range(punches) : Placed(punches, i, t)]

Paired(punches) == Len(punches) % 2 = 0

\* an odd number of punches is one interval, from the first to the last
Intervals(punches) ==
    LET p == Chronological(punches)
    IN  IF Paired(p)
        THEN [i \in 1..(Len(p) \div 2) |-> [start |-> p[2*i - 1], end |-> p[2*i]]]
        ELSE <<[start |-> p[1], end |-> p[Len(p)]]>>

Minutes(intervals) ==
    SumFunction([i \in DOMAIN intervals |-> intervals[i].end - intervals[i].start])

\* round(minutes / 60, 2), in hundredths of an hour; a third is never a tie
Hours(minutes) == (10 * minutes + 3) \div 6

Method(punches) ==
    IF punches = <<>> THEN "NO_PUNCHES"
    ELSE IF Paired(punches) THEN "PAIRED_INTERVALS" ELSE "FIRST_LAST_FALLBACK"

\* once a day, however many intervals it has
Lunch(punches) == IF Len(punches) >= 2 THEN 30 ELSE 0

PaidMinutes(punches) ==
    LET rest == Minutes(Intervals(punches)) - Lunch(punches)
    IN  IF rest < 0 THEN 0 ELSE rest

DayHours(punches) == Hours(PaidMinutes(punches))

\* an employee's total adds up the rounded days
TotalHours(days) == SumFunction([d \in DOMAIN days |-> DayHours(days[d])])

ForReview(punches) == Method(punches) # "PAIRED_INTERVALS"
-----------------------------------------------------------------------------
\* The columns of a period: the numbers of the header row that are days of the month
\* in which the period starts, and lie within it.
NotAfter(a, b) == a.month < b.month \/ (a.month = b.month /\ a.day <= b.day)

DayColumns(header, from, until, last) ==
    LET date(n) == [month |-> from.month, day |-> n]
    IN  {date(n) : n \in {n \in header : /\ n \in 1..last
                                         /\ NotAfter(from, date(n))
                                         /\ NotAfter(date(n), until)}}
-----------------------------------------------------------------------------
(* What is true of the hours.  These formulas have no state: TLC evaluates *)
(* them as assumptions of MCAttendance, SettlementProofs proves them.      *)

\* Nobody is paid for less than nothing, or for more than the time from the first
\* punch to the last, however many there are; a single punch pays nothing.
HoursBounded(days) ==
    \A day \in days :
        LET p == Chronological(day)
        IN  /\ PaidMinutes(day) >= 0
            /\ Len(p) <= 1 => PaidMinutes(day) = 0
            /\ Len(p) >= 1 => PaidMinutes(day) <= p[Len(p)] - p[1]

\* Coming back pays in full: lunch was taken off before and is not taken off again.
NextIntervalPaid(days, times) ==
    \A day \in days : \A back, gone \in times :
        /\ Paired(day) /\ Minutes(Intervals(day)) >= 30
        /\ back <= gone /\ \A i \in DOMAIN day : day[i] <= back
        => PaidMinutes(day \o <<gone, back>>) = PaidMinutes(day) + gone - back

\* Forgetting a punch between the first and the last of a complete day never costs an
\* employee time, and the day is marked for review.
ForgottenPunchKeeps(days) ==
    \A day \in days : Paired(day) =>
        \A i \in 2..(Len(day) - 1) :
            LET c == Chronological(day)
                p == SubSeq(c, 1, i - 1) \o SubSeq(c, i + 1, Len(c))
            IN  PaidMinutes(p) >= PaidMinutes(day) /\ ForReview(p)

\* The total of an employee is off by no more than a third of a hundredth of an hour a
\* day.
RoundingBounded(employees) ==
    \A days \in employees :
        LET off == 3 * TotalHours(days)
                   - 5 * SumFunction([d \in DOMAIN days |-> PaidMinutes(days[d])])
        IN  off \in -Len(days)..Len(days)

\* A period within a month has a column for each of its days, and no other.
PeriodCovered(last) ==
    \A from, until \in 1..last : from <= until =>
        DayColumns(1..31, [month |-> 1, day |-> from], [month |-> 1, day |-> until], last)
            = [month : {1}, day : from..until]

(* Statements the code does not keep (README). *)

\* A period that ends in the next month has columns for all of its days.
NextMonthCovered(last) ==
    \A from, until \in 1..last : until < from =>
        DayColumns(1..31, [month |-> 1, day |-> from], [month |-> 2, day |-> until], last)
            = [month : {1}, day : from..last] \cup [month : {2}, day : 1..until]

\* A punch that is recorded twice changes nothing.
SecondSwipeKeeps(days) ==
    \A day \in days : \A i \in DOMAIN day :
        PaidMinutes(Append(day, day[i])) = PaidMinutes(day)
=============================================================================
