--------------------------- MODULE RecordsLifecycle ---------------------------
(***************************************************************************)
(* The life of what payroll pays besides attendance: the handlers called   *)
(* on claims and on overtimes, the previews that tell employees what they  *)
(* will be paid, and the payroll runs that pay what was approved, over one *)
(* database.                                                               *)
(***************************************************************************)
EXTENDS Payroll, Reimbursements, Overtimes, Preview, PayCalculation

VARIABLE current   \* history: the previews begun since a record last changed

recordVars == <<dbVars, auditVars, today, run, claimCall, overtimeCall, previewCall, current>>

RecordsInit == /\ PayrollInit
               /\ AuditInit
               /\ ClockInit
               /\ ClaimInit
               /\ OvertimeInit
               /\ PreviewInit
               /\ current = {}

RecordsTypeOK == /\ PayrollTypeOK
                 /\ ClaimTypeOK
                 /\ OvertimeTypeOK
                 /\ PreviewTypeOK
                 /\ current \subseteq PreviewRequest
-----------------------------------------------------------------------------
(* A request in several of the sets goes to one service, once.             *)
Unmade(q) == /\ q \in PayrollRequest => run[q].pc = "idle"
             /\ q \in ClaimRequest => claimCall[q].pc = "idle"
             /\ q \in OvertimeRequest => overtimeCall[q].pc = "idle"
             /\ q \in PreviewRequest => previewCall[q] = None

(* The previews that no change of a record has overtaken.                  *)
TrackPreviews ==
  current' = IF UNCHANGED <<attendances, overtimes, reimbursements>>
             THEN current \cup {q \in PreviewRequest : previewCall[q] = None /\ previewCall'[q] # None}
             ELSE {}

PayrollArrives == /\ \E r \in PayrollRequest : Unmade(r) /\ ProcessPayroll(r)
                  /\ UNCHANGED <<auditVars, today, claimCall, overtimeCall, previewCall>>
                  /\ TrackPreviews

ClaimCallArrives == /\ \E q \in ClaimRequest : Unmade(q) /\ ClaimStart(q)
                    /\ UNCHANGED <<run, overtimeCall, previewCall>>
                    /\ TrackPreviews

OvertimeCallArrives == /\ \E v \in OvertimeRequest : Unmade(v) /\ OvertimeStart(v)
                       /\ UNCHANGED <<run, claimCall, previewCall>>
                       /\ TrackPreviews

PreviewCallArrives == /\ \E q \in PreviewRequest : Unmade(q) /\ PreviewStart(q)
                      /\ UNCHANGED <<today, run, claimCall, overtimeCall>>
                      /\ TrackPreviews

Arrival == PayrollArrives \/ ClaimCallArrives \/ OvertimeCallArrives \/ PreviewCallArrives

PayrollMoves == /\ \E r \in PayrollRequest : HandlerStep(r) \/ FailureStep(r)
                /\ UNCHANGED <<auditVars, today, claimCall, overtimeCall, previewCall>>
                /\ TrackPreviews

ClaimCallMoves == /\ \E q \in ClaimRequest : ClaimStep(q)
                  /\ UNCHANGED <<run, overtimeCall, previewCall>>
                  /\ TrackPreviews

OvertimeCallMoves == /\ \E v \in OvertimeRequest : OvertimeStep(v)
                     /\ UNCHANGED <<run, claimCall, previewCall>>
                     /\ TrackPreviews

PreviewCallMoves == /\ \E q \in PreviewRequest : PreviewStep(q)
                    /\ UNCHANGED <<today, run, claimCall, overtimeCall>>
                    /\ TrackPreviews

(* Departures; changes of status are in PayrollSpec.  The day does not     *)
(* pass: only the dates of a submission are compared with it, in one step. *)
Departures == /\ \E e \in EmployeeId : RemoveEmployee(e)
              /\ UNCHANGED <<auditVars, today, claimCall, overtimeCall, previewCall>>
              /\ TrackPreviews

Service == PayrollMoves \/ ClaimCallMoves \/ OvertimeCallMoves \/ PreviewCallMoves

RecordsSpec == RecordsInit /\ [][Arrival \/ Service \/ Departures]_recordVars

(* One request at a time, and the roster stays as it is.                   *)
AllQuiet == Quiet /\ ClaimQuiet /\ OvertimeQuiet /\ PreviewQuiet

SerialRecordsSpec == RecordsInit /\ [][(AllQuiet /\ Arrival) \/ Service]_recordVars
-----------------------------------------------------------------------------
IsProcessed(p) == attendancePeriods[p] # None /\ attendancePeriods[p].payrollProcessed

(* However runs over several periods interleave with the calls that        *)
(* submit, change, approve and withdraw them, a claim or an overtime is    *)
(* paid by one payslip at most, and once (payroll.service.ts, lines        *)
(* 199-230).                                                               *)
PaidOnce ==
  \A s1, s2 \in payslips :
    /\ \A x1 \in s1.reimbursements, x2 \in s2.reimbursements :
         x1[1] = x2[1] => s1 = s2 /\ x1 = x2
    /\ \A x1 \in s1.overtimes, x2 \in s2.overtimes :
         x1[1] = x2[1] => s1 = s2 /\ x1 = x2

(* However submissions interleave, no employee has two overtimes of one    *)
(* day, and each belongs to a day the employee was present, the insert     *)
(* coming after three look-ups (overtime.service.ts, lines 80-131).        *)
OvertimeOncePerDayPresent ==
  \A o \in OvertimeId :
    LET row == overtimes[o] IN
    row # None =>
      /\ \E a \in attendances : a.employeeId = row.employeeId /\ a.date = row.date
      /\ \A other \in OvertimeId \ {o} :
           overtimes[other] # None /\ overtimes[other].employeeId = row.employeeId
             => overtimes[other].date # row.date

(* An overtime that its employee removes is in the audit log, whether the  *)
(* handler lives to answer or not: the entry comes before the statement    *)
(* (overtime.service.ts, lines 422-433).                                   *)
OvertimeRemovalIsLogged ==
  [][\A o \in OvertimeId :
       LET row == overtimes[o] IN
       row # None /\ overtimes'[o] = None /\ employees'[row.employeeId] # None =>
         Logged(AuditEntry("overtimes", o, "DELETE", None, None))]_recordVars

(* One request at a time, a processed period's payslips and claims agree:  *)
(* each claim a payslip paid is still there with the amount paid, although *)
(* its status may be set back to PENDING, with which it could be changed   *)
(* and withdrawn again (reimbursement.service.ts, lines 282-297, 394-409;  *)
(* the error of line 284: "Can only update pending reimbursements").       *)
ProcessedClaimsStand ==
  \A s \in payslips : IsProcessed(s.attendancePeriodId) =>
    \A x \in s.reimbursements :
      reimbursements[x[1]] # None /\ reimbursements[x[1]].amount = x[2]

(* One request at a time, an overtime that a payslip paid stays approved   *)
(* with the hours paid, whether the period is marked or not: an approval   *)
(* is final and only what is pending can be changed or removed             *)
(* (overtime.service.ts, lines 298, 416, 450; the error of line 300:       *)
(* "Cannot update overtime that has been processed").                      *)
PaidOvertimesStand ==
  \A s \in payslips : \A x \in s.overtimes :
    /\ overtimes[x[1]] # None
    /\ overtimes[x[1]].status = "APPROVED"
    /\ overtimes[x[1]].hoursWorked = x[2]

(* Whatever was approved, a payslip adds up: its net pay is its gross pay  *)
(* less its deductions, give or take the cent that is lost by storing each *)
(* of the three rounded by itself (payroll.service.ts, lines 232-239).     *)
ColumnsAddUp ==
  \A s \in payslips :
    LET row == attendancePeriods[s.attendancePeriodId]
        workingDays == Cardinality(WorkingDays(row.startDate, row.endDate))
    IN  AddUp(GrossPay(s, workingDays), workingDays)

(* An approved record of the period, of an active employee.                *)
Due(row, p) == /\ row # None
               /\ row.attendancePeriodId = p
               /\ row.status = "APPROVED"
               /\ employees[row.employeeId] = "ACTIVE"

(* One request at a time, a period is marked only when every approved      *)
(* claim and overtime of an active employee is in that employee's payslip, *)
(* whatever runs failed before in part and were followed by more          *)
(* approvals (README, line 211: "Included in payslip after approval").     *)
(* None of these three survives requests that overlap: a record is read in *)
(* one statement and written, or the period marked, in a later one.        *)
MarkPaysApproved ==
  [][\A p \in PeriodId : ~IsProcessed(p) /\ IsProcessed(p)' =>
       /\ \A c \in ReimbursementId : Due(reimbursements[c], p) =>
            \E s \in payslips : <<c, reimbursements[c].amount>> \in s.reimbursements
       /\ \A o \in OvertimeId : Due(overtimes[o], p) =>
            \E s \in payslips : <<o, overtimes[o].hoursWorked>> \in s.overtimes]_recordVars

(* One request at a time, what a preview told an employee is what the      *)
(* payslip pays, unless a record changed in between: the two services      *)
(* select the records each with queries of their own (payslip.service.ts,  *)
(* lines 28-50; payroll.service.ts, lines 187-226).                        *)
PreviewForetellsPayslip ==
  [][\A s \in payslips' \ payslips : \A q \in current :
       LET e == s.employeeId IN
       PartAt(q, e, "done") /\ previewCall[q][e].periodId = s.attendancePeriodId =>
         /\ s.attendedDays = previewCall[q][e].attendedDays
         /\ s.overtimes = previewCall[q][e].overtimes
         /\ s.reimbursements = previewCall[q][e].reimbursements]_recordVars
-----------------------------------------------------------------------------
(* What the documentation says and the code does not keep.                 *)

(* README, line 215: "Once processed, records from that period are locked".*)
ProcessedRecordsLocked ==
  [][/\ \A c \in ReimbursementId :
          reimbursements[c] # None /\ IsProcessed(reimbursements[c].attendancePeriodId) =>
            reimbursements'[c] = reimbursements[c]
     /\ \A o \in OvertimeId :
          overtimes[o] # None /\ IsProcessed(overtimes[o].attendancePeriodId) =>
            overtimes'[o] = overtimes[o]]_recordVars
=============================================================================
