------------------------------ MODULE MCPayroll ------------------------------
(* Small instances of Payroll: two periods of one month, the second of them *)
(* closed, without a working day, or missing in some of the databases.      *)
EXTENDS Payroll

CONSTANTS e1, e2, p1, p2, o1, c1, r1, r2

MCEmployee == {e1, e2}
MCPeriod   == {p1, p2}
MCOnePeriod == {p1}
MCDay      == 0 .. 6
MCWeekend  == {5, 6}
MCSelection == {{}, {e1}}

Row(start, end, status) == [startDate |-> start, endDate |-> end, status |-> status,
                            isActive |-> FALSE, payrollProcessed |-> FALSE]

January == [[p \in PeriodId |-> Row(0, 2, "ACTIVE")] EXCEPT ![p1].isActive = TRUE]

SecondPeriods == { None, Row(3, 4, "ACTIVE"), Row(3, 4, "CLOSED"), Row(5, 6, "ACTIVE")}

MCDatabase(roster, periods) ==
  [employees |-> roster, attendancePeriods |-> periods,
   attendances |-> {[employeeId |-> e1, attendancePeriodId |-> p1, date |-> 0],
                    [employeeId |-> e1, attendancePeriodId |-> p1, date |-> 1],
                    [employeeId |-> e2, attendancePeriodId |-> p1, date |-> 1]},
   overtimes |-> [o \in {o1} |-> [employeeId |-> e1, attendancePeriodId |-> p1,
                                  date |-> 1, startTime |-> 1080, endTime |-> 1200,
                                  hoursWorked |-> 200, status |-> "APPROVED"]],
   reimbursements |-> [c \in {c1} |-> [employeeId |-> e2, attendancePeriodId |-> p1,
                                       amount |-> 2, status |-> "APPROVED"]]]

BothActive == [e \in MCEmployee |-> "ACTIVE"]
OneActive  == [BothActive EXCEPT ![e2] = "INACTIVE"]

(* Every kind of second period, with both employees active or one.         *)
MCVaried == {MCDatabase(roster, [January EXCEPT ![p2] = row]) :
               roster \in {BothActive, OneActive}, row \in SecondPeriods}

(* Two ordinary periods; or a single one, without a working day.          *)
MCPair == {MCDatabase(BothActive, [January EXCEPT ![p2] = Row(3, 4, "ACTIVE")]),
           MCDatabase(BothActive, [January EXCEPT ![p1] = Row(5, 6, "ACTIVE"), ![p2] = None])}

(* One ordinary period; and two, both with employees active.              *)
MCSingle == {MCDatabase(BothActive, January)}
MCPlain == {MCDatabase(BothActive, [January EXCEPT ![p2] = Row(3, 4, "ACTIVE")])}
=============================================================================
