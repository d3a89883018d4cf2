------------------------------- MODULE MCRecords -------------------------------
(* Small instances of RecordsLifecycle: one claim and one overtime to begin *)
(* with, approved or pending, and one of each for each call that may submit *)
(* one; a period of three days and in some instances a second one.          *)
EXTENDS RecordsLifecycle, TLC

CONSTANTS e1, e2, p1, p2, c1, n1, n2, o1, m1, m2, q1, q2, r1, r2

MCNewClaimId    == [q \in ClaimRequest |-> IF q = q1 THEN n1 ELSE n2]
MCNewOvertimeId == [v \in OvertimeRequest |-> IF v = q1 THEN m1 ELSE m2]

(* The payroll requests may change places, and so may the two other calls, *)
(* with the rows they submit.                                              *)
MCSymmetry ==
  {f @@ g @@ (n1 :> MCNewClaimId[f[q1]]) @@ (n2 :> MCNewClaimId[f[q2]])
          @@ (m1 :> MCNewOvertimeId[f[q1]]) @@ (m2 :> MCNewOvertimeId[f[q2]]) :
     f \in Permutations({q1, q2}), g \in Permutations({r1, r2})}

Period(start, end) == [startDate |-> start, endDate |-> end, status |-> "ACTIVE",
                       isActive |-> start = 0, payrollProcessed |-> FALSE]

Claim(status) == [employeeId |-> e1, attendancePeriodId |-> p1, amount |-> 1, status |-> status]

TimeRange(start, end, hours) == [startTime |-> start, endTime |-> end, hoursWorked |-> hours]

(* A range with its hours, the same turned round, a start alone, hours      *)
(* alone.                                                                   *)
MCOvertimeDto == {TimeRange(1080, 1200, 200), TimeRange(1200, 1080, 200), TimeRange(1200, None, None)}
                   \cup {TimeRange(None, None, h) : h \in Hours}

Overtime(status) ==
  [employeeId |-> e1, attendancePeriodId |-> p1, date |-> 0, startTime |-> 1080,
   endTime |-> 1200, hoursWorked |-> 200, status |-> status]

MCDatabase(employee, claim, overtime) ==
  [employees |-> [e \in EmployeeId |-> employee],
   attendancePeriods |-> [p \in PeriodId |-> IF p = p1 THEN Period(0, 2) ELSE Period(3, 3)],
   attendances |-> {[employeeId |-> e1, attendancePeriodId |-> p1, date |-> d] : d \in {0, 1}},
   overtimes |-> [o \in OvertimeId |-> IF o = o1 THEN overtime ELSE None],
   reimbursements |-> [c \in ReimbursementId |-> IF c = c1 THEN claim ELSE None]]

MCMixed == {MCDatabase(s, Claim("APPROVED"), Overtime("PENDING")) : s \in {"ACTIVE", "INACTIVE"}}
MCAny   == {MCDatabase("ACTIVE", Claim(s), Overtime(s)) : s \in {"APPROVED", "PENDING"}}
=============================================================================
