------------------------------ MODULE MCLifecycle ------------------------------
(* Small instances of PeriodLifecycle: one employee, one period to begin    *)
(* with, two that calls may create.                                         *)
EXTENDS PeriodLifecycle, TLC

CONSTANTS p0, n1, n2, q1, q2, r1, a1, e1, o1

MCPeriodId == {p0, n1, n2}
MCNewPeriodId == [q \in PeriodRequest |-> IF q = q1 THEN n1 ELSE n2]
MCDay == 0 .. 5

Dto(start, end, active, status) ==
  [startDate |-> start, endDate |-> end, isActive |-> active, status |-> status]

(* A create beside the first period, a create around it; either date moved *)
(* alone, an activation, a closing.                                        *)
MCPeriodDto == {Dto(4, 5, FALSE, None), Dto(0, 4, None, None), Dto(4, None, None, None),
                Dto(None, 2, None, None), Dto(None, None, TRUE, None),
                Dto(None, None, None, "CLOSED")}

Start(status, present, overtime) ==
  [employees |-> [e \in EmployeeId |-> "ACTIVE"],
   attendancePeriods |-> [p \in PeriodId |-> IF p # p0 THEN None ELSE
      [startDate |-> 1, endDate |-> 3, status |-> status,
       isActive |-> TRUE, payrollProcessed |-> FALSE]],
   attendances |-> present, overtimes |-> [o \in {o1} |-> overtime],
   reimbursements |-> [c \in {} |-> None]]

CheckedIn == {[employeeId |-> e1, attendancePeriodId |-> p0, date |-> 1]}
Overtime  == [employeeId |-> e1, attendancePeriodId |-> p0, date |-> 1,
              startTime |-> 1080, endTime |-> 1200, hoursWorked |-> 200, status |-> "APPROVED"]

(* The two requests that may be anything can change places, with the       *)
(* periods they create.                                                    *)
MCSymmetry ==
  {f @@ (n1 :> MCNewPeriodId[f[q1]]) @@ (n2 :> MCNewPeriodId[f[q2]]) : f \in Permutations({q1, q2})}

(* An open period; one that was closed but is still the active one; and an *)
(* open one with a record of either kind.                                  *)
MCDatabases == {Start("ACTIVE", {}, None), Start("CLOSED", {}, None),
                Start("ACTIVE", CheckedIn, None), Start("ACTIVE", {}, Overtime)}
=============================================================================
