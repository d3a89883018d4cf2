------------------------------- MODULE Payroll -------------------------------
(***************************************************************************)
(* payroll.service.ts: POST /payroll/process as a step machine per request,*)
(* one step per awaited statement.  Requests run concurrently with one     *)
(* another and with changes of the roster; a request may die between any   *)
(* two steps, and a transaction may fail, or commit without the service    *)
(* learning that it did.                                                   *)
(***************************************************************************)
EXTENDS Database, NumberSequence

CONSTANTS PayrollRequest,   \* the payroll requests, each made at most once
          Selection         \* the employeeIds lists a request may carry

VARIABLE run                \* the state of every payroll request

payrollVars == <<dbVars, run>>

ASSUME SelectionAssumption == {} \in Selection /\ Selection \subseteq SUBSET EmployeeId
-----------------------------------------------------------------------------
(* What the transaction for one employee has read so far.                  *)
Calculation == [employeeId: EmployeeId, attendedDays: Nat,
                overtimes: SUBSET (OvertimeId \X Hours),
                reimbursements: SUBSET (ReimbursementId \X Amount),
                payslipNumber: PayslipNumber \cup {None}]

InLoop     == {"next", "attendance", "overtime", "reimbursements", "number", "create"}
InProgress == {"validated"} \cup InLoop
Ended      == {"settled", "returned", "rejected", "crashed"}

RunRow == [pc: {"idle"} \cup InProgress \cup Ended,
           periodId: PeriodId \cup {None},
           period: PeriodRow \cup {None},     \* the row as it was when read
           targeted: BOOLEAN,                 \* employeeIds was given
           employeeIds: SUBSET EmployeeId,
           listed: SUBSET EmployeeId,         \* employees
           todo: SUBSET EmployeeId,           \* those the loop has not reached
           calculation: Calculation \cup {None},
           processed: SUBSET EmployeeId,      \* counted in totalProcessed
           dbErrors: SUBSET EmployeeId]       \* history: hit by a database error

IdleRun == [pc |-> "idle", periodId |-> None, period |-> None, targeted |-> FALSE,
            employeeIds |-> {}, listed |-> {}, todo |-> {}, calculation |-> None,
            processed |-> {}, dbErrors |-> {}]

PayrollTypeOK == /\ DatabaseTypeOK
                 /\ run \in [PayrollRequest -> RunRow]

PayrollInit == /\ DatabaseInit
               /\ run = [r \in PayrollRequest |-> IdleRun]
-----------------------------------------------------------------------------
(* The period is looked up and refused if missing, processed or closed.    *)
Processable(row) == row # None /\ ~row.payrollProcessed /\ row.status # "CLOSED"

ProcessPayroll(r) ==
  /\ run[r].pc = "idle"
  /\ \E p \in PeriodId, targeted \in BOOLEAN, ids \in Selection :
       /\ ~targeted => ids = {}
       /\ run' = [run EXCEPT ![r] =
                    [IdleRun EXCEPT !.periodId = p, !.targeted = targeted,
                       !.employeeIds = ids, !.period = attendancePeriods[p],
                       !.pc = IF Processable(attendancePeriods[p])
                              THEN "validated" ELSE "rejected"]]
  /\ UNCHANGED dbVars

(* The active employees, among those named if a list was given.            *)
Active == {e \in EmployeeId : employees[e] = "ACTIVE"}

LoadEmployees(r) ==
  /\ run[r].pc = "validated"
  /\ LET found == IF run[r].targeted THEN Active \cap run[r].employeeIds ELSE Active
     IN  run' = [run EXCEPT ![r].listed = found, ![r].todo = found,
                            ![r].pc = IF found = {} THEN "rejected" ELSE "next"]
  /\ UNCHANGED dbVars

(* Faulty: an employee that failed is put back for another try.            *)
EndTurn_Retrying(r, processed, failed) ==
  run' = [run EXCEPT ![r].pc = "next",
                     ![r].todo = @ \ processed,
                     ![r].calculation = None,
                     ![r].processed = @ \cup processed]

(* The end of one turn of the loop, the employee counted or not.           *)
EndTurn(r, processed, failed) ==
  run' = [run EXCEPT ![r].pc = "next",
                     ![r].todo = @ \ (processed \cup failed),
                     ![r].calculation = None,
                     ![r].processed = @ \cup processed]

(* Faulty: a payslip that is already there counts as success.              *)
BeginEmployee_Idempotent(r) ==
  /\ run[r].pc = "next"
  /\ \E e \in run[r].todo :
       IF Paid(e, run[r].periodId)
       THEN EndTurn(r, {e}, {})
       ELSE run' = [run EXCEPT ![r].pc = "attendance",
                       ![r].calculation = [employeeId |-> e, attendedDays |-> 0,
                          overtimes |-> {}, reimbursements |-> {}, payslipNumber |-> None]]
  /\ UNCHANGED dbVars

(* A turn of the loop: the transaction opens and looks for a payslip.      *)
BeginEmployee(r) ==
  /\ run[r].pc = "next"
  /\ \E e \in run[r].todo :
       IF Paid(e, run[r].periodId)
       THEN EndTurn(r, {}, {e})
       ELSE run' = [run EXCEPT ![r].pc = "attendance",
                       ![r].calculation = [employeeId |-> e, attendedDays |-> 0,
                          overtimes |-> {}, reimbursements |-> {}, payslipNumber |-> None]]
  /\ UNCHANGED dbVars

(* Faulty: the rows of the employee, whatever their period.                *)
Concerns_AnyPeriod(row, r) == /\ row # None
                              /\ row.employeeId = run[r].calculation.employeeId

(* The rows of a table that belong to the employee and period at hand.     *)
Concerns(row, r) == /\ row # None
                    /\ row.employeeId = run[r].calculation.employeeId
                    /\ row.attendancePeriodId = run[r].periodId

CountAttendance(r) ==
  /\ run[r].pc = "attendance"
  /\ run' = [run EXCEPT ![r].pc = "overtime", ![r].calculation.attendedDays =
               Cardinality({a \in attendances : Concerns(a, r)})]
  /\ UNCHANGED dbVars

ApprovedOvertimes(r) == {o \in OvertimeId : /\ Concerns(overtimes[o], r)
                                            /\ overtimes[o].status = "APPROVED"}

CountOvertime(r) ==
  /\ run[r].pc = "overtime"
  /\ run' = [run EXCEPT ![r].pc = "reimbursements", ![r].calculation.overtimes =
               {<<o, overtimes[o].hoursWorked>> : o \in ApprovedOvertimes(r)}]
  /\ UNCHANGED dbVars

ApprovedClaims(r) == {c \in ReimbursementId : /\ Concerns(reimbursements[c], r)
                                              /\ reimbursements[c].status = "APPROVED"}

CountReimbursements(r) ==
  /\ run[r].pc = "reimbursements"
  /\ run' = [run EXCEPT ![r].pc = "number", ![r].calculation.reimbursements =
               {<<c, reimbursements[c].amount>> : c \in ApprovedClaims(r)}]
  /\ UNCHANGED dbVars

(* The prefix comes from the period as it was read when the run began.     *)
NumbersTaken(month) ==
  {n \in Sequence : \E s \in payslips : s.payslipNumber = [month |-> month, sequence |-> n]}

GeneratePayslipNumber(r) ==
  /\ run[r].pc = "number"
  /\ LET month == MonthOf(run[r].period.startDate) IN
     \E n \in NextSequence(NumbersTaken(month)) :
        run' = [run EXCEPT ![r].pc = "create",
                  ![r].calculation.payslipNumber = [month |-> month, sequence |-> n]]
  /\ UNCHANGED dbVars

(* The row the transaction inserts.                                        *)
NewPayslip(r) ==
  LET c == run[r].calculation IN
  [employeeId |-> c.employeeId, attendancePeriodId |-> run[r].periodId,
   payslipNumber |-> c.payslipNumber, attendedDays |-> c.attendedDays,
   overtimes |-> c.overtimes, reimbursements |-> c.reimbursements]

(* The insert is refused by a key, or because a period without a working   *)
(* day has divided the salary by zero.                                     *)
Insertable(r) ==
  /\ HasParents(NewPayslip(r))
  /\ ConflictsWith(NewPayslip(r)) = {}
  /\ WorkingDays(run[r].period.startDate, run[r].period.endDate) # {}

(* Faulty: an employee counts although the insert was refused.             *)
CreatePayslip_CountingAll(r) ==
  /\ run[r].pc = "create"
  /\ EndTurn(r, {run[r].calculation.employeeId}, {})
  /\ payslips' = IF Insertable(r) THEN payslips \cup {NewPayslip(r)} ELSE payslips
  /\ UNCHANGED <<employees, attendancePeriods, attendances, overtimes, reimbursements>>

CreatePayslip(r) ==
  /\ run[r].pc = "create"
  /\ LET e == run[r].calculation.employeeId IN
     IF Insertable(r)
     THEN /\ payslips' = payslips \cup {NewPayslip(r)}
          /\ EndTurn(r, {e}, {})
     ELSE /\ UNCHANGED payslips
          /\ EndTurn(r, {}, {e})
  /\ UNCHANGED <<employees, attendancePeriods, attendances, overtimes, reimbursements>>

(* Faulty: the list is ignored; everybody counts; or somebody is enough.   *)
AllProcessed_IgnoringList(r) == run[r].processed = run[r].listed
AllProcessed_Unchecked(r)    == ~run[r].targeted
AllProcessed_Somebody(r)     == run[r].processed # {} /\ ~run[r].targeted

(* totalProcessed === employees.length && !employeeIds                     *)
AllProcessed(r) == run[r].processed = run[r].listed /\ ~run[r].targeted

(* The loop is over.  The period is marked, or the run just answers; the   *)
(* update is by id, whatever the row says by now.                          *)
FinishRun(r) ==
  /\ run[r].pc = "next"
  /\ run[r].todo = {}
  /\ LET p == run[r].periodId IN
     \/ /\ AllProcessed(r)
        /\ attendancePeriods[p] # None
        /\ attendancePeriods' = [attendancePeriods EXCEPT ![p].payrollProcessed = TRUE]
        /\ run' = [run EXCEPT ![r].pc = "settled"]
     \/ /\ AllProcessed(r)
        /\ attendancePeriods[p] = None        \* the update finds no row
        /\ run' = [run EXCEPT ![r].pc = "crashed"]
        /\ UNCHANGED attendancePeriods
     \/ /\ ~AllProcessed(r)
        /\ run' = [run EXCEPT ![r].pc = "returned"]
        /\ UNCHANGED attendancePeriods
  /\ UNCHANGED <<employees, attendances, overtimes, reimbursements, payslips>>
-----------------------------------------------------------------------------
(* Failures.                                                               *)

(* The turn ends in a database error, which the loop logs and forgets.     *)
EndTurnInError(r) ==
  LET e == run[r].calculation.employeeId IN
  run' = [run EXCEPT ![r].pc = "next", ![r].todo = @ \ {e},
                     ![r].calculation = None, ![r].dbErrors = @ \cup {e}]

(* A statement of the transaction fails, or it times out: it rolls back.   *)
(* A sum that overflows its column fails so too (totalOvertimeHours holds  *)
(* 99.99 at most, schema.prisma, line 288).                                *)
TransactionFails(r) ==
  /\ run[r].pc \in InLoop \ {"next"}
  /\ EndTurnInError(r)
  /\ UNCHANGED dbVars

(* The transaction commits and the connection is lost before the answer.   *)
CommitUnacknowledged(r) ==
  /\ run[r].pc = "create"
  /\ Insertable(r)
  /\ payslips' = payslips \cup {NewPayslip(r)}
  /\ EndTurnInError(r)
  /\ UNCHANGED <<employees, attendancePeriods, attendances, overtimes, reimbursements>>

(* The process dies, or a statement outside the loop's try block throws.   *)
Crash(r) ==
  /\ run[r].pc \in InProgress
  /\ run' = [run EXCEPT ![r].pc = "crashed", ![r].calculation = None]
  /\ UNCHANGED dbVars
-----------------------------------------------------------------------------
(* The roster: the statements of employee.service.ts a run can notice.     *)
SetEmployeeStatus(e) ==
  /\ employees[e] # None
  /\ \E s \in EmployeeStatus : employees' = [employees EXCEPT ![e] = s]
  /\ UNCHANGED <<attendancePeriods, attendances, overtimes, reimbursements, payslips, run>>

RemoveEmployee(e) ==
  /\ employees[e] # None
  /\ DeleteEmployee(e)
  /\ UNCHANGED run
-----------------------------------------------------------------------------
HandlerStep(r) ==
  \/ LoadEmployees(r)
  \/ BeginEmployee(r)
  \/ CountAttendance(r)
  \/ CountOvertime(r)
  \/ CountReimbursements(r)
  \/ GeneratePayslipNumber(r)
  \/ CreatePayslip(r)
  \/ FinishRun(r)

FailureStep(r) == TransactionFails(r) \/ CommitUnacknowledged(r) \/ Crash(r)

RosterStep == \E e \in EmployeeId : SetEmployeeStatus(e) \/ RemoveEmployee(e)

RunStep(r) == ProcessPayroll(r) \/ HandlerStep(r) \/ FailureStep(r)

PayrollNext == (\E r \in PayrollRequest : RunStep(r)) \/ RosterStep

(* The handler keeps running once called; nobody has to call it, and       *)
(* nothing fails because it must.                                          *)
PayrollFairness == \A r \in PayrollRequest : WF_payrollVars(HandlerStep(r))

PayrollSpec == PayrollInit /\ [][PayrollNext]_payrollVars /\ PayrollFairness

(* The roster stays as it is.                                              *)
StableNext == \E r \in PayrollRequest : RunStep(r)
StableSpec == PayrollInit /\ [][StableNext]_payrollVars /\ PayrollFairness

(* One run at a time: a request is made when no other is being served.     *)
Quiet == \A r \in PayrollRequest : run[r].pc \notin InProgress
SerialNext == \/ \E r \in PayrollRequest : \/ Quiet /\ ProcessPayroll(r)
                                           \/ HandlerStep(r)
                                           \/ FailureStep(r)
              \/ RosterStep
SerialSpec == PayrollInit /\ [][SerialNext]_payrollVars
-----------------------------------------------------------------------------
(* Every employee a run counts as processed has the payslip, unless the    *)
(* employee or the period has been deleted since: neither a refused insert *)
(* nor a transaction that rolled back is ever counted (lines 63-83).       *)
SuccessMeansPaid ==
  \A r \in PayrollRequest : \A e \in run[r].processed :
    \/ Paid(e, run[r].periodId)
    \/ employees[e] = None
    \/ attendancePeriods[run[r].periodId] = None

(* However two runs of one period interleave, no employee is counted by    *)
(* both: whoever comes second, before or after the first one's commit, is  *)
(* turned away by the look-up or by the unique key (lines 113-137).        *)
RunsShareNobody ==
  \A r1, r2 \in PayrollRequest :
    r1 # r2 /\ run[r1].periodId = run[r2].periodId =>
      run[r1].processed \cap run[r2].processed = {}

(* A processed period owes its mark to an unrestricted run that found      *)
(* somebody to pay, and everybody that run listed is paid or has been      *)
(* deleted: partial and restricted runs never mark (line 86).              *)
ProcessedMeansPaid ==
  \A p \in PeriodId :
    attendancePeriods[p] # None /\ attendancePeriods[p].payrollProcessed =>
      \E r \in PayrollRequest :
        /\ run[r].periodId = p /\ ~run[r].targeted /\ run[r].listed # {}
        /\ \A e \in run[r].listed : Paid(e, p) \/ employees[e] = None

(* With a stable roster a period is processed once (README: "Each period   *)
(* can only be processed once"): of any number of concurrent runs that     *)
(* passed the check of payrollProcessed, at most one marks it.             *)
ProcessedOnce ==
  \A r1, r2 \in PayrollRequest :
    /\ run[r1].pc = "settled" /\ run[r2].pc = "settled"
    /\ run[r1].periodId = run[r2].periodId
    => r1 = r2

(* With a stable roster every active employee of a processed period has a  *)
(* payslip for it (README: "Generates payslips for all employees").        *)
ProcessedPaysRoster ==
  \A p \in PeriodId :
    attendancePeriods[p] # None /\ attendancePeriods[p].payrollProcessed =>
      \A e \in Active : Paid(e, p)

(* With a stable roster no payslip is issued for a period once it is       *)
(* marked, although runs that began earlier are still in their loops.      *)
NoPayslipAfterMark ==
  [][\A s \in payslips' \ payslips :
       LET row == attendancePeriods[s.attendancePeriodId]
       IN  row # None => ~row.payrollProcessed]_payrollVars

(* The payslips there are have numbers of the padded width.                *)
NumbersFit == \A s \in payslips : s.payslipNumber.sequence <= SeqCap

(* Somebody the run listed is unpaid, without a database error.            *)
LeavesUnpaid(r) ==
  /\ run[r].pc \in {"settled", "returned"}
  /\ WorkingDays(run[r].period.startDate, run[r].period.endDate) # {}
  /\ \E e \in run[r].listed \ run[r].dbErrors :
       ~Paid(e, run[r].periodId) /\ employees[e] # None

(* A run that is alone leaves nobody unpaid but those a database error     *)
(* hit or whose row is gone, as long as the numbers have fitted their      *)
(* width all along and the period has a working day: the number it         *)
(* generates is never taken (payroll.service.ts, lines 405-431).           *)
LoneRunPaysEveryone == []NumbersFit => [](\A r \in PayrollRequest : ~LeavesUnpaid(r))

(* Every run whose process stays up ends, whatever fails along its way and *)
(* whatever the other runs and the roster do meanwhile.                    *)
RunsEnd == \A r \in PayrollRequest : run[r].pc \in InProgress ~> run[r].pc \in Ended

(* The numbers the program can write.                                      *)
WrittenNumber == [month: {MonthOf(d) : d \in Day}, sequence: Sequence]

Ledger == INSTANCE PayrollLedger WITH
  Employee <- EmployeeId, Period <- PeriodId, Number <- WrittenNumber,
  ledger   <- {<<s.employeeId, s.attendancePeriodId, s.payslipNumber>> : s \in payslips},
  staff    <- {e \in EmployeeId : employees[e] # None},
  open     <- {p \in PeriodId : /\ attendancePeriods[p] # None
                                /\ ~attendancePeriods[p].payrollProcessed},
  settled  <- {p \in PeriodId : /\ attendancePeriods[p] # None
                                /\ attendancePeriods[p].payrollProcessed}

(* The payslips, the roster and the marks behave like a ledger: every step *)
(* of every handler is one new entry that meets no other, a settlement, a  *)
(* departure, or nothing; no entry is ever altered or withdrawn, no        *)
(* settlement undone (schema keys, lines 113-166, line 88).                *)
KeepsLedger == Ledger!LedgerSpec
-----------------------------------------------------------------------------
(* What the documentation says and the code does not keep.                 *)

(* Comment at line 85: "Update period as processed if all employees were   *)
(* processed".  An employee paid by an earlier run counts as a failure of  *)
(* this one, so the period stays open with everybody paid, although no     *)
(* error of the database hit this run.                                     *)
FullRunSettles ==
  \A r \in PayrollRequest :
    /\ run[r].pc = "returned" /\ ~run[r].targeted
    /\ run[r].dbErrors = {}
    /\ \A e \in run[r].listed : Paid(e, run[r].periodId)
    /\ attendancePeriods[run[r].periodId] # None
    => attendancePeriods[run[r].periodId].payrollProcessed
=============================================================================
