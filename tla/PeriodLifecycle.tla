---------------------------- MODULE PeriodLifecycle ----------------------------
(***************************************************************************)
(* The life of attendance periods: the handlers that create, change and    *)
(* remove them, the check-ins that fill them and the payroll runs that     *)
(* settle them, all over one database.                                     *)
(***************************************************************************)
EXTENDS Payroll, AttendancePeriods, Attendance

CONSTANT Crowd   \* bound: once requests overlap, at most so many are made

ASSUME CrowdAssumption == Crowd \in Nat

VARIABLE overlapped   \* history: a request arrived while another was served

lifecycleVars == <<dbVars, auditVars, today, run, periodCall, checkIn, overlapped>>

LifecycleInit == /\ PayrollInit
                 /\ AuditInit
                 /\ ClockInit
                 /\ PeriodInit
                 /\ CheckInInit
                 /\ overlapped = FALSE

LifecycleTypeOK == /\ PayrollTypeOK
                   /\ PeriodTypeOK
                   /\ CheckInTypeOK
                   /\ overlapped \in BOOLEAN
-----------------------------------------------------------------------------
AllQuiet == Quiet /\ PeriodQuiet /\ CheckInQuiet

(* A request in several of the sets goes to one service, once.             *)
Made(q) == \/ q \in PayrollRequest /\ run[q].pc # "idle"
           \/ q \in PeriodRequest /\ periodCall[q].pc # "idle"
           \/ q \in AttendanceRequest /\ checkIn[q].pc # "idle"

Requests == PayrollRequest \cup PeriodRequest \cup AttendanceRequest

(* Another request comes, alone or not.                                    *)
Admitted(q) ==
  /\ ~Made(q)
  /\ overlapped' = (overlapped \/ ~AllQuiet)
  /\ overlapped' => Cardinality({x \in Requests : Made(x)}) < Crowd

PayrollArrives == /\ \E r \in PayrollRequest : Admitted(r) /\ ProcessPayroll(r)
                  /\ UNCHANGED <<auditVars, today, periodCall, checkIn>>

PeriodCallArrives == /\ \E q \in PeriodRequest : Admitted(q) /\ PeriodStart(q)
                     /\ UNCHANGED <<today, run, checkIn>>

CheckInArrives == /\ \E q \in AttendanceRequest : Admitted(q) /\ SubmitAttendance(q)
                  /\ UNCHANGED <<run, periodCall>>

Arrival == PayrollArrives \/ PeriodCallArrives \/ CheckInArrives

(* Requests being served take a step.                                      *)
PayrollMoves == /\ \E r \in PayrollRequest : HandlerStep(r) \/ FailureStep(r)
                /\ UNCHANGED <<auditVars, today, periodCall, checkIn, overlapped>>

PeriodCallMoves == /\ \E q \in PeriodRequest : PeriodStep(q)
                   /\ UNCHANGED <<today, run, checkIn, overlapped>>

CheckInMoves == /\ \E q \in AttendanceRequest : CheckInStep(q)
                /\ UNCHANGED <<run, periodCall, overlapped>>

DayPasses == NextDay /\ UNCHANGED <<dbVars, auditVars, run, periodCall, checkIn, overlapped>>

Service == PayrollMoves \/ PeriodCallMoves \/ CheckInMoves \/ DayPasses

LifecycleSpec == LifecycleInit /\ [][Arrival \/ Service]_lifecycleVars
-----------------------------------------------------------------------------
IsProcessed(p) == attendancePeriods[p] # None /\ attendancePeriods[p].payrollProcessed

(* At most one period is active (attendance-period.service.ts, comments at *)
(* lines 62 and 199).                                                      *)
OneActive ==
  \A p1, p2 \in PeriodId :
    /\ attendancePeriods[p1] # None /\ attendancePeriods[p1].isActive
    /\ attendancePeriods[p2] # None /\ attendancePeriods[p2].isActive
    => p1 = p2

(* Every period starts before it ends (errors of lines 35 and 195).        *)
DatesOrdered ==
  \A p \in PeriodId : attendancePeriods[p] # None =>
    attendancePeriods[p].startDate < attendancePeriods[p].endDate

(* As long as requests do not overlap, at most one period is active, also  *)
(* when a call dies between deactivating the others and writing its own    *)
(* row.                                                                    *)
AtMostOneActive == ~overlapped => OneActive

(* As long as requests do not overlap, every period starts before it ends, *)
(* although an update may give only one of the dates, which is then        *)
(* checked against the other one of the row (lines 34, 190-197).           *)
DatesInOrder == ~overlapped => DatesOrdered

DaysOf(row) == row.startDate .. row.endDate

(* If p is created now, it shares no day with a period that is not closed  *)
(* (lines 38-60).                                                          *)
CreatedApart(p) ==
  attendancePeriods[p] = None /\ attendancePeriods'[p] # None =>
    \A other \in PeriodId \ {p} :
      attendancePeriods[other] # None /\ attendancePeriods[other].status # "CLOSED" =>
        DaysOf(attendancePeriods'[p]) \cap DaysOf(attendancePeriods[other]) = {}

(* If p is removed now, it has no attendance and no overtime: the cascades *)
(* of the schema never reach them (lines 259-288).                         *)
RemovedEmpty(p) ==
  attendancePeriods[p] # None /\ attendancePeriods'[p] = None =>
    /\ \A a \in attendances : a.attendancePeriodId # p
    /\ ~HasOvertimes(p)

(* If p is processed, it keeps its row, its dates and its status.          *)
ProcessedStands(p) ==
  IsProcessed(p) =>
    /\ attendancePeriods'[p] # None
    /\ attendancePeriods'[p].payrollProcessed
    /\ attendancePeriods'[p].startDate = attendancePeriods[p].startDate
    /\ attendancePeriods'[p].endDate = attendancePeriods[p].endDate
    /\ attendancePeriods'[p].status = attendancePeriods[p].status

(* As long as requests do not overlap, no period is created that shares a  *)
(* day with one that is not closed: the query of lines 39-54 finds every   *)
(* way in which two ranges meet.                                           *)
CreateNeverOverlaps == [][\A p \in PeriodId : ~overlapped => CreatedApart(p)]_lifecycleVars

(* As long as requests do not overlap, a removal takes no attendance and   *)
(* no overtime with it (lines 259-288).                                    *)
RemovalLosesNoAttendance == [][\A p \in PeriodId : ~overlapped => RemovedEmpty(p)]_lifecycleVars

(* As long as requests do not overlap, a processed period keeps its row,   *)
(* its dates and its status (lines 181-185, 255-257).                      *)
ProcessedPeriodStays == [][\A p \in PeriodId : ~overlapped => ProcessedStands(p)]_lifecycleVars

(* As long as requests do not overlap, nobody is paid for more days than   *)
(* the period has working days, which keeps the prorated salary within the *)
(* monthly one, unless an update has moved the period's dates away from    *)
(* days that were checked in: what a check-in admits is what payroll       *)
(* counts (attendance.service.ts, lines 33-49; payroll.service.ts, lines   *)
(* 180-197, 258-272).                                                      *)
SalaryWithinMonth ==
  [][\A s \in payslips' \ payslips :
       LET row == attendancePeriods[s.attendancePeriodId] IN
       ~overlapped /\ (\A a \in attendances : /\ a.employeeId = s.employeeId
                                               /\ a.attendancePeriodId = s.attendancePeriodId
                                               => a.date \in DaysOf(row))
         => s.attendedDays <= Cardinality(WorkingDays(row.startDate, row.endDate))]_lifecycleVars

-----------------------------------------------------------------------------
(* What the code says and does not keep.                                   *)

(* Error of line 273, "Cannot delete period with existing records", read   *)
(* for all the records of a period.                                        *)
RemovalLosesNoPayslip ==
  [][\A p \in PeriodId : attendancePeriods[p] # None /\ attendancePeriods'[p] = None =>
       \A s \in payslips : s.attendancePeriodId # p]_lifecycleVars
=============================================================================
