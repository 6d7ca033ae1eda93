----------------------------- MODULE MCAttendance ----------------------------
(* Small instances of Attendance for TLC. *)
EXTENDS Attendance, WorkHours, TLC

CONSTANTS d1, d2, q1, q2, q3

\* the workbook read in two ways, by two versions of the worker
TwoReadings == {{d1, d2}, {d1}}

\* days of up to five punches, two of them a minute apart
Punched == UNION {[1..n -> {480, 481, 720, 750, 1020}] : n \in 0..5}
PunchedFew == UNION {[1..n -> {480, 482, 515, 1020}] : n \in 0..3}

ASSUME HoursAreRight ==
    /\ HoursBounded(Punched) /\ ForgottenPunchKeeps(Punched) /\ RoundingBounded(PunchedFew \X PunchedFew)
    /\ NextIntervalPaid(Punched, {1020, 1050, 1200})
    /\ \A last \in {28, 31} : PeriodCovered(last)
=============================================================================
