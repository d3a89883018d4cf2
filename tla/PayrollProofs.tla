---------------------------- MODULE PayrollProofs ----------------------------
(***************************************************************************)
(* Theorems about Payroll, for any employees, periods, requests, numbers   *)
(* of requests and initial databases.                                      *)
(***************************************************************************)
EXTENDS Payroll, DatabaseProofs, FiniteSetTheorems, TLAPS

(* What holds of one run by itself: which fields are set at which point,   *)
(* and what a run that marked its period had counted.                      *)
RunShape(x) ==
  /\ x.pc # "idle" => x.periodId \in PeriodId
  /\ x.pc \in InProgress => x.period \in PeriodRow
  /\ x.pc \in InLoop \ {"next"} => /\ x.calculation \in Calculation
                                   /\ x.calculation.employeeId \in x.todo
  /\ x.pc = "create" => x.calculation.payslipNumber \in WrittenNumber
  /\ x.pc \in {"idle", "validated"} => x.processed = {} /\ x.listed = {} /\ x.todo = {}
  /\ x.todo \subseteq x.listed
  /\ x.processed \subseteq x.listed
  /\ x.pc \in InLoop \cup {"settled", "returned"} => x.listed # {}
  /\ x.pc = "settled" => x.processed = x.listed /\ ~x.targeted

RunsOK == /\ run \in [PayrollRequest -> RunRow]
          /\ \A r \in PayrollRequest : RunShape(run[r])

(* The type invariant made inductive.                                      *)
PayrollInv == DatabaseTypeOK /\ RunsOK
-----------------------------------------------------------------------------
(* Facts about the days.                                                   *)

LEMMA WrittenNumberTyped == WrittenNumber \subseteq PayslipNumber
<1>1. \A d \in Day : MonthOf(d) \in Int
  BY MonthIsInteger
<1>2. Sequence \subseteq Nat \ {0}
  BY CapIsNatural DEF Sequence
<1> QED
  BY <1>1, <1>2 DEF WrittenNumber, PayslipNumber
-----------------------------------------------------------------------------
(* The type invariant.                                                     *)

LEMMA InitOK == PayrollInit => PayrollInv
<1> SUFFICES ASSUME PayrollInit
             PROVE  PayrollInv
  OBVIOUS
<1>1. DatabaseTypeOK
  BY DatabaseInitTyped DEF PayrollInit
<1>2. IdleRun \in RunRow /\ RunShape(IdleRun)
  BY DEF IdleRun, RunRow, RunShape, InLoop, InProgress, Ended
<1> QED
  BY <1>1, <1>2 DEF PayrollInit, PayrollInv, RunsOK

LEMMA OneRunChanges ==
  ASSUME RunsOK, NEW r \in PayrollRequest, NEW x \in RunRow, RunShape(x),
         run' = [run EXCEPT ![r] = x]
  PROVE  RunsOK'
BY DEF RunsOK

LEMMA ProcessPayrollOK ==
  ASSUME PayrollInv, NEW r \in PayrollRequest, ProcessPayroll(r)
  PROVE  RunsOK'
<1>1. PICK p \in PeriodId, targeted \in BOOLEAN, ids \in Selection :
         run' = [run EXCEPT ![r] =
                   [IdleRun EXCEPT !.periodId = p, !.targeted = targeted,
                      !.employeeIds = ids, !.period = attendancePeriods[p],
                      !.pc = IF Processable(attendancePeriods[p])
                             THEN "validated" ELSE "rejected"]]
  BY DEF ProcessPayroll
<1> DEFINE x == [IdleRun EXCEPT !.periodId = p, !.targeted = targeted,
                   !.employeeIds = ids, !.period = attendancePeriods[p],
                   !.pc = IF Processable(attendancePeriods[p])
                          THEN "validated" ELSE "rejected"]
<1>2. attendancePeriods[p] \in PeriodRow \cup {None}
  BY DEF PayrollInv, DatabaseTypeOK, Table
<1>3. x \in RunRow
  BY <1>2, SelectionAssumption DEF IdleRun, RunRow, InProgress, Ended
<1>4. RunShape(x)
  BY <1>2 DEF RunShape, Processable, IdleRun, InLoop, InProgress
<1> HIDE DEF x
<1> QED
  BY <1>1, <1>3, <1>4, OneRunChanges DEF PayrollInv, x

LEMMA LoadEmployeesOK ==
  ASSUME PayrollInv, NEW r \in PayrollRequest, LoadEmployees(r)
  PROVE  RunsOK'
<1> DEFINE found == IF run[r].targeted THEN Active \cap run[r].employeeIds ELSE Active
           x == [run[r] EXCEPT !.listed = found, !.todo = found,
                               !.pc = IF found = {} THEN "rejected" ELSE "next"]
<1>1. run[r] \in RunRow /\ RunShape(run[r]) /\ run[r].pc = "validated"
  BY DEF PayrollInv, RunsOK, LoadEmployees
<1>2. found \in SUBSET EmployeeId
  BY DEF Active
<1>3. run' = [run EXCEPT ![r] = x]
  BY DEF LoadEmployees, PayrollInv, RunsOK
<1> HIDE DEF found
<1>4. x \in RunRow
  BY <1>1, <1>2 DEF RunRow, InProgress, InLoop, Ended
<1>5. RunShape(x)
  BY <1>1, <1>2 DEF RunShape, RunRow, InProgress, InLoop
<1> QED
  BY <1>3, <1>4, <1>5, OneRunChanges DEF PayrollInv

LEMMA EndTurnOK ==
  ASSUME PayrollInv, NEW r \in PayrollRequest, run[r].pc \in InLoop,
         NEW done \in SUBSET run[r].todo, NEW failed, EndTurn(r, done, failed)
  PROVE  RunsOK'
<1> DEFINE x == [run[r] EXCEPT !.pc = "next", !.todo = @ \ (done \cup failed),
                               !.calculation = None, !.processed = @ \cup done]
<1>1. run[r] \in RunRow /\ RunShape(run[r])
  BY DEF PayrollInv, RunsOK
<1>2. run' = [run EXCEPT ![r] = x]
  BY DEF EndTurn, PayrollInv, RunsOK
<1>3. x \in RunRow
  BY <1>1 DEF RunRow, RunShape, InProgress, InLoop
<1>4. RunShape(x)
  BY <1>1 DEF RunShape, RunRow, InProgress, InLoop
<1> QED
  BY <1>2, <1>3, <1>4, OneRunChanges DEF PayrollInv

LEMMA EndTurnInErrorOK ==
  ASSUME PayrollInv, NEW r \in PayrollRequest, run[r].pc \in InLoop \ {"next"},
         EndTurnInError(r)
  PROVE  RunsOK'
<1> DEFINE e == run[r].calculation.employeeId
           x == [run[r] EXCEPT !.pc = "next", !.todo = @ \ {e},
                               !.calculation = None, !.dbErrors = @ \cup {e}]
<1>1. run[r] \in RunRow /\ RunShape(run[r]) /\ e \in run[r].todo
  BY DEF PayrollInv, RunsOK, RunShape
<1> HIDE DEF e
<1>2. run' = [run EXCEPT ![r] = x]
  BY DEF EndTurnInError, PayrollInv, RunsOK, e
<1>3. x \in RunRow
  BY <1>1 DEF RunRow, RunShape, InProgress, InLoop
<1>4. RunShape(x)
  BY <1>1 DEF RunShape, RunRow, InProgress, InLoop
<1> QED
  BY <1>2, <1>3, <1>4, OneRunChanges DEF PayrollInv

LEMMA BeginEmployeeOK ==
  ASSUME PayrollInv, NEW r \in PayrollRequest, BeginEmployee(r)
  PROVE  RunsOK'
<1>1. PICK e \in run[r].todo :
         IF Paid(e, run[r].periodId)
         THEN EndTurn(r, {}, {e})
         ELSE run' = [run EXCEPT ![r].pc = "attendance",
                        ![r].calculation = [employeeId |-> e, attendedDays |-> 0,
                           overtimes |-> {}, reimbursements |-> {}, payslipNumber |-> None]]
  BY DEF BeginEmployee
<1>2. run[r] \in RunRow /\ RunShape(run[r]) /\ run[r].pc = "next"
  BY DEF PayrollInv, RunsOK, BeginEmployee
<1>3. CASE Paid(e, run[r].periodId)
  BY <1>1, <1>2, <1>3, EndTurnOK DEF InLoop
<1>4. CASE ~Paid(e, run[r].periodId)
  <2> DEFINE c == [employeeId |-> e, attendedDays |-> 0, overtimes |-> {},
                   reimbursements |-> {}, payslipNumber |-> None]
             x == [run[r] EXCEPT !.pc = "attendance", !.calculation = c]
  <2>1. e \in EmployeeId
    BY <1>1, <1>2 DEF RunRow
  <2>2. c \in Calculation
    BY <2>1 DEF Calculation
  <2>3. run' = [run EXCEPT ![r] = x]
    BY <1>1, <1>4 DEF PayrollInv, RunsOK
  <2>4. c.employeeId \in run[r].todo
    BY <1>1
  <2> HIDE DEF c
  <2>5. x \in RunRow
    BY <1>2, <2>2 DEF RunRow, InProgress, InLoop
  <2>6. RunShape(x)
    BY <1>2, <2>2, <2>4 DEF RunShape, RunRow, InProgress, InLoop
  <2> QED
    BY <2>3, <2>5, <2>6, OneRunChanges DEF PayrollInv
<1> QED
  BY <1>3, <1>4

(* A step that only fills in the calculation at hand.                      *)
LEMMA CalculationChanges ==
  ASSUME PayrollInv, NEW r \in PayrollRequest, run[r].pc \in InLoop \ {"next"},
         NEW pc \in InLoop \ {"next"}, NEW c \in Calculation,
         c.employeeId = run[r].calculation.employeeId,
         pc = "create" => c.payslipNumber \in WrittenNumber,
         run' = [run EXCEPT ![r] = [run[r] EXCEPT !.pc = pc, !.calculation = c]]
  PROVE  RunsOK'
<1> DEFINE x == [run[r] EXCEPT !.pc = pc, !.calculation = c]
<1>1. run[r] \in RunRow /\ RunShape(run[r])
  BY DEF PayrollInv, RunsOK
<1>2. x \in RunRow
  BY <1>1 DEF RunRow, InProgress, InLoop
<1>3. RunShape(x)
  BY <1>1 DEF RunShape, RunRow, InProgress, InLoop
<1> QED
  BY <1>2, <1>3, OneRunChanges DEF PayrollInv

LEMMA CountAttendanceOK ==
  ASSUME PayrollInv, NEW r \in PayrollRequest, CountAttendance(r)
  PROVE  RunsOK'
<1> DEFINE counted == {a \in attendances : Concerns(a, r)}
           c == [run[r].calculation EXCEPT !.attendedDays = Cardinality(counted)]
<1>1. /\ run \in [PayrollRequest -> RunRow] /\ run[r] \in RunRow
      /\ run[r].pc = "attendance" /\ run[r].calculation \in Calculation
  BY DEF PayrollInv, RunsOK, RunShape, InLoop, CountAttendance
<1>2. IsFiniteSet(attendances)
  BY DEF PayrollInv, DatabaseTypeOK
<1>3. Cardinality(counted) \in Nat
  BY <1>2, FS_Subset, FS_CardinalityType
<1>4. run' = [run EXCEPT ![r] = [run[r] EXCEPT !.pc = "overtime", !.calculation = c]]
  BY <1>1 DEF CountAttendance, RunRow
<1> HIDE DEF counted
<1>5. c \in Calculation /\ c.employeeId = run[r].calculation.employeeId
  BY <1>1, <1>3 DEF Calculation
<1>6. "overtime" \in InLoop \ {"next"} /\ "overtime" # "create"
  BY DEF InLoop
<1>7. run[r].pc \in InLoop \ {"next"}
  BY <1>1 DEF InLoop
<1> HIDE DEF c
<1> QED
  BY <1>1, <1>4, <1>5, <1>6, <1>7, CalculationChanges

(* What is counted is what the employee attended in the period.            *)
LEMMA CountsAttended ==
  ASSUME PayrollInv, NEW r \in PayrollRequest, CountAttendance(r)
  PROVE  run' = [run EXCEPT ![r].pc = "overtime",
                   ![r].calculation.attendedDays =
                      Attended(run[r].calculation.employeeId, run[r].periodId)]
<1>1. {a \in attendances : Concerns(a, r)}
        = {a \in attendances : /\ a.employeeId = run[r].calculation.employeeId
                               /\ a.attendancePeriodId = run[r].periodId}
  BY NoneAssumption DEF Concerns, PayrollInv, DatabaseTypeOK
<1> QED
  BY <1>1 DEF CountAttendance, Attended

LEMMA CountOvertimeOK ==
  ASSUME PayrollInv, NEW r \in PayrollRequest, CountOvertime(r)
  PROVE  RunsOK'
<1> DEFINE counted == {<<o, overtimes[o].hoursWorked>> : o \in ApprovedOvertimes(r)}
           c == [run[r].calculation EXCEPT !.overtimes = counted]
<1>1. /\ run \in [PayrollRequest -> RunRow] /\ run[r] \in RunRow
      /\ run[r].pc = "overtime" /\ run[r].calculation \in Calculation
  BY DEF PayrollInv, RunsOK, RunShape, InLoop, CountOvertime
<1>2. counted \in SUBSET (OvertimeId \X Hours)
  <2> SUFFICES ASSUME NEW o \in ApprovedOvertimes(r)
               PROVE  o \in OvertimeId /\ overtimes[o].hoursWorked \in Hours
    OBVIOUS
  <2>1. o \in OvertimeId /\ overtimes[o] # None
    BY DEF ApprovedOvertimes, Concerns
  <2>2. overtimes[o] \in OvertimeRow
    BY <2>1 DEF PayrollInv, DatabaseTypeOK, Table
  <2> QED
    BY <2>1, <2>2 DEF OvertimeRow
<1>3. run' = [run EXCEPT ![r] = [run[r] EXCEPT !.pc = "reimbursements", !.calculation = c]]
  BY <1>1 DEF CountOvertime, RunRow
<1> HIDE DEF counted
<1>4. c \in Calculation /\ c.employeeId = run[r].calculation.employeeId
  BY <1>1, <1>2 DEF Calculation
<1>5. "reimbursements" \in InLoop \ {"next"} /\ "reimbursements" # "create"
  BY DEF InLoop
<1>6. run[r].pc \in InLoop \ {"next"}
  BY <1>1 DEF InLoop
<1> HIDE DEF c
<1> QED
  BY <1>1, <1>3, <1>4, <1>5, <1>6, CalculationChanges

LEMMA CountReimbursementsOK ==
  ASSUME PayrollInv, NEW r \in PayrollRequest, CountReimbursements(r)
  PROVE  RunsOK'
<1> DEFINE counted == {<<k, reimbursements[k].amount>> : k \in ApprovedClaims(r)}
           c == [run[r].calculation EXCEPT !.reimbursements = counted]
<1>1. /\ run \in [PayrollRequest -> RunRow] /\ run[r] \in RunRow
      /\ run[r].pc = "reimbursements" /\ run[r].calculation \in Calculation
  BY DEF PayrollInv, RunsOK, RunShape, InLoop, CountReimbursements
<1>2. counted \in SUBSET (ReimbursementId \X Amount)
  <2> SUFFICES ASSUME NEW k \in ApprovedClaims(r)
               PROVE  k \in ReimbursementId /\ reimbursements[k].amount \in Amount
    OBVIOUS
  <2>1. k \in ReimbursementId /\ reimbursements[k] # None
    BY DEF ApprovedClaims, Concerns
  <2>2. reimbursements[k] \in ReimbursementRow
    BY <2>1 DEF PayrollInv, DatabaseTypeOK, Table
  <2> QED
    BY <2>1, <2>2 DEF ReimbursementRow
<1>3. run' = [run EXCEPT ![r] = [run[r] EXCEPT !.pc = "number", !.calculation = c]]
  BY <1>1 DEF CountReimbursements, RunRow
<1> HIDE DEF counted
<1>4. c \in Calculation /\ c.employeeId = run[r].calculation.employeeId
  BY <1>1, <1>2 DEF Calculation
<1>5. "number" \in InLoop \ {"next"} /\ "number" # "create"
  BY DEF InLoop
<1>6. run[r].pc \in InLoop \ {"next"}
  BY <1>1 DEF InLoop
<1> HIDE DEF c
<1> QED
  BY <1>1, <1>3, <1>4, <1>5, <1>6, CalculationChanges

LEMMA GeneratePayslipNumberOK ==
  ASSUME PayrollInv, NEW r \in PayrollRequest, GeneratePayslipNumber(r)
  PROVE  RunsOK'
<1> DEFINE month == MonthOf(run[r].period.startDate)
<1>1. PICK n \in NextSequence(NumbersTaken(month)) :
         run' = [run EXCEPT ![r].pc = "create",
                   ![r].calculation.payslipNumber = [month |-> month, sequence |-> n]]
  BY DEF GeneratePayslipNumber
<1>2. /\ run \in [PayrollRequest -> RunRow] /\ run[r] \in RunRow
      /\ run[r].pc = "number" /\ run[r].calculation \in Calculation
      /\ run[r].period \in PeriodRow
  BY DEF PayrollInv, RunsOK, RunShape, InLoop, InProgress, GeneratePayslipNumber
<1>3. n \in Sequence
  <2>1. NumbersTaken(month) \subseteq Sequence
    BY Zenon DEF NumbersTaken
  <2> QED
    BY <2>1, NextSequenceInRange
<1>4. month \in {MonthOf(d) : d \in Day}
  BY <1>2 DEF PeriodRow
<1> DEFINE number == [month |-> month, sequence |-> n]
           c == [run[r].calculation EXCEPT !.payslipNumber = number]
<1>5. number \in WrittenNumber /\ number \in PayslipNumber
  BY <1>3, <1>4, WrittenNumberTyped DEF WrittenNumber
<1>6. run' = [run EXCEPT ![r] = [run[r] EXCEPT !.pc = "create", !.calculation = c]]
  BY <1>1, <1>2 DEF RunRow
<1> HIDE DEF number, month
<1>7. /\ c \in Calculation /\ c.employeeId = run[r].calculation.employeeId
      /\ c.payslipNumber = number
  BY <1>2, <1>5 DEF Calculation
<1> HIDE DEF c
<1> QED
  BY <1>2, <1>5, <1>6, <1>7, CalculationChanges DEF InLoop

LEMMA NewPayslipOK ==
  ASSUME PayrollInv, NEW r \in PayrollRequest, run[r].pc = "create"
  PROVE  NewPayslip(r) \in PayslipRow
<1>1. /\ run[r].calculation \in Calculation /\ run[r].periodId \in PeriodId
      /\ run[r].calculation.payslipNumber \in PayslipNumber
  BY WrittenNumberTyped DEF PayrollInv, RunsOK, RunShape, InLoop
<1> QED
  BY <1>1 DEF NewPayslip, PayslipRow, Calculation

LEMMA CreatePayslipOK ==
  ASSUME PayrollInv, NEW r \in PayrollRequest, CreatePayslip(r)
  PROVE  PayrollInv'
<1> DEFINE e == run[r].calculation.employeeId
<1>1. run[r].pc = "create" /\ run[r].pc \in InLoop /\ e \in run[r].todo
  BY DEF CreatePayslip, PayrollInv, RunsOK, RunShape, InLoop
<1>2. \/ payslips' = payslips \cup {NewPayslip(r)} /\ EndTurn(r, {e}, {})
      \/ payslips' = payslips /\ EndTurn(r, {}, {e})
  BY DEF CreatePayslip
<1> HIDE DEF e
<1>3. RunsOK'
  BY <1>1, <1>2, EndTurnOK
<1>4. payslips' \subseteq PayslipRow
  BY <1>1, <1>2, NewPayslipOK DEF PayrollInv, DatabaseTypeOK
<1> QED
  BY <1>3, <1>4 DEF CreatePayslip, PayrollInv, DatabaseTypeOK

LEMMA CommitUnacknowledgedOK ==
  ASSUME PayrollInv, NEW r \in PayrollRequest, CommitUnacknowledged(r)
  PROVE  PayrollInv'
<1>1. run[r].pc = "create" /\ run[r].pc \in InLoop \ {"next"}
  BY DEF CommitUnacknowledged, InLoop
<1>2. RunsOK'
  BY <1>1, EndTurnInErrorOK DEF CommitUnacknowledged
<1>3. payslips' \subseteq PayslipRow
  BY <1>1, NewPayslipOK DEF CommitUnacknowledged, PayrollInv, DatabaseTypeOK
<1> QED
  BY <1>2, <1>3 DEF CommitUnacknowledged, PayrollInv, DatabaseTypeOK

LEMMA FinishRunOK ==
  ASSUME PayrollInv, NEW r \in PayrollRequest, FinishRun(r)
  PROVE  PayrollInv'
<1>1. /\ run[r] \in RunRow /\ RunShape(run[r]) /\ run[r].pc = "next"
      /\ run \in [PayrollRequest -> RunRow] /\ run[r].periodId \in PeriodId
  BY DEF PayrollInv, RunsOK, RunShape, FinishRun
<1>2. PICK pc \in {"settled", "crashed", "returned"} :
         /\ run' = [run EXCEPT ![r].pc = pc]
         /\ pc = "settled" => AllProcessed(r)
  BY DEF FinishRun
<1> DEFINE x == [run[r] EXCEPT !.pc = pc]
<1>3. run' = [run EXCEPT ![r] = x]
  BY <1>1, <1>2
<1>4. x \in RunRow
  BY <1>1 DEF RunRow, Ended
<1>5. RunShape(x)
  BY <1>1, <1>2 DEF RunShape, RunRow, AllProcessed, InProgress, InLoop
<1>6. RunsOK'
  BY <1>3, <1>4, <1>5, OneRunChanges DEF PayrollInv
<1>7. attendancePeriods' \in Table(PeriodId, PeriodRow)
  <2>1. attendancePeriods \in Table(PeriodId, PeriodRow)
    BY DEF PayrollInv, DatabaseTypeOK
  <2>2. CASE attendancePeriods' = attendancePeriods
    BY <2>1, <2>2
  <2>3. CASE /\ attendancePeriods[run[r].periodId] # None
             /\ attendancePeriods' =
                  [attendancePeriods EXCEPT ![run[r].periodId].payrollProcessed = TRUE]
    <3>1. attendancePeriods[run[r].periodId] \in PeriodRow
      BY <1>1, <2>1, <2>3 DEF Table
    <3>2. [attendancePeriods[run[r].periodId] EXCEPT !.payrollProcessed = TRUE] \in PeriodRow
      BY <3>1 DEF PeriodRow
    <3> QED
      BY <2>1, <2>3, <3>2 DEF Table
  <2> QED
    BY <2>2, <2>3 DEF FinishRun
<1> QED
  BY <1>6, <1>7 DEF FinishRun, PayrollInv, DatabaseTypeOK

LEMMA CrashOK ==
  ASSUME PayrollInv, NEW r \in PayrollRequest, Crash(r)
  PROVE  RunsOK'
<1> DEFINE x == [run[r] EXCEPT !.pc = "crashed", !.calculation = None]
<1>1. run[r] \in RunRow /\ RunShape(run[r]) /\ run[r].pc \in InProgress
  BY DEF PayrollInv, RunsOK, Crash
<1>2. run' = [run EXCEPT ![r] = x]
  BY DEF Crash, PayrollInv, RunsOK
<1>3. x \in RunRow
  BY <1>1 DEF RunRow, Ended
<1>4. RunShape(x)
  BY <1>1 DEF RunShape, RunRow, InProgress, InLoop
<1> QED
  BY <1>2, <1>3, <1>4, OneRunChanges DEF PayrollInv

LEMMA RosterStepOK ==
  ASSUME PayrollInv, RosterStep
  PROVE  PayrollInv'
<1>1. PICK e \in EmployeeId : SetEmployeeStatus(e) \/ RemoveEmployee(e)
  BY DEF RosterStep
<1>2. RunsOK'
  BY <1>1 DEF SetEmployeeStatus, RemoveEmployee, PayrollInv, RunsOK
<1>3. CASE SetEmployeeStatus(e)
  <2>1. employees' \in Table(EmployeeId, EmployeeStatus)
    BY <1>3 DEF SetEmployeeStatus, PayrollInv, DatabaseTypeOK, Table
  <2> QED
    BY <1>2, <1>3, <2>1 DEF SetEmployeeStatus, PayrollInv, DatabaseTypeOK
<1>4. CASE RemoveEmployee(e)
  <2> QED
    BY <1>2, <1>4, DeleteEmployeeTyped DEF RemoveEmployee, PayrollInv
<1> QED
  BY <1>1, <1>3, <1>4

LEMMA RunStepOK ==
  ASSUME PayrollInv, NEW r \in PayrollRequest, RunStep(r)
  PROVE  PayrollInv'
<1> DEFINE Reading == \/ ProcessPayroll(r) \/ LoadEmployees(r) \/ BeginEmployee(r)
                      \/ CountAttendance(r) \/ CountOvertime(r) \/ CountReimbursements(r)
                      \/ GeneratePayslipNumber(r) \/ TransactionFails(r) \/ Crash(r)
<1>1. CASE Reading
  <2>1. DatabaseTypeOK'
    BY <1>1 DEF ProcessPayroll, LoadEmployees, BeginEmployee, CountAttendance, CountOvertime,
       CountReimbursements, GeneratePayslipNumber, TransactionFails, Crash,
       dbVars, PayrollInv, DatabaseTypeOK
  <2>2. CASE TransactionFails(r)
    BY <2>1, <2>2, EndTurnInErrorOK DEF TransactionFails, PayrollInv
  <2> QED
    BY <1>1, <2>1, <2>2, ProcessPayrollOK, LoadEmployeesOK, BeginEmployeeOK, CountAttendanceOK,
       CountOvertimeOK, CountReimbursementsOK, GeneratePayslipNumberOK, CrashOK
    DEF PayrollInv
<1> HIDE DEF Reading
<1>2. \/ Reading \/ CreatePayslip(r) \/ CommitUnacknowledged(r) \/ FinishRun(r)
  BY DEF RunStep, HandlerStep, FailureStep, Reading
<1> QED
  BY <1>1, <1>2, CreatePayslipOK, CommitUnacknowledgedOK, FinishRunOK

LEMMA PayrollInvInductive == PayrollInv /\ [PayrollNext]_payrollVars => PayrollInv'
<1> SUFFICES ASSUME PayrollInv, [PayrollNext]_payrollVars
             PROVE  PayrollInv'
  OBVIOUS
<1>1. CASE PayrollNext
  BY <1>1, RunStepOK, RosterStepOK DEF PayrollNext
<1>2. CASE UNCHANGED payrollVars
  BY <1>2 DEF payrollVars, dbVars, PayrollInv, DatabaseTypeOK, RunsOK
<1> QED
  BY <1>1, <1>2

(* Every table and every run keeps its type.                               *)
THEOREM PayrollTypeCorrect == PayrollSpec => []PayrollTypeOK
<1>1. PayrollInv => PayrollTypeOK
  BY DEF PayrollInv, PayrollTypeOK, RunsOK
<1> QED
  BY <1>1, InitOK, PayrollInvInductive, PTL DEF PayrollSpec
-----------------------------------------------------------------------------
(* Who is counted, and who is paid.                                        *)

(* The employees counted do not change, nor the period they count for.     *)
ProcessedKept ==
  \A q \in PayrollRequest :
    /\ run'[q].processed = run[q].processed
    /\ run[q].processed # {} => run'[q].periodId = run[q].periodId

(* One more employee is counted, just paid by a row that met no other.     *)
OnePaid(r, e) ==
  /\ e \in EmployeeId /\ employees[e] # None /\ ~Paid(e, run[r].periodId)
  /\ attendancePeriods[run[r].periodId] # None
  /\ \E s \in payslips' : s.employeeId = e /\ s.attendancePeriodId = run[r].periodId
  /\ run'[r].processed = run[r].processed \cup {e}
  /\ \A q \in PayrollRequest : run'[q].periodId = run[q].periodId
  /\ \A q \in PayrollRequest \ {r} : run'[q].processed = run[q].processed

LEMMA CreatePayslipEffect ==
  ASSUME PayrollInv, NEW r \in PayrollRequest, CreatePayslip(r)
  PROVE  /\ payslips \subseteq payslips'
         /\ UNCHANGED <<employees, attendancePeriods>>
         /\ ProcessedKept \/ \E e \in run[r].todo : OnePaid(r, e)
<1> DEFINE e == run[r].calculation.employeeId
<1>1. /\ run \in [PayrollRequest -> RunRow] /\ run[r] \in RunRow
      /\ e \in run[r].todo /\ e \in EmployeeId
  BY DEF CreatePayslip, PayrollInv, RunsOK, RunShape, RunRow, InLoop
<1>2. CASE Insertable(r)
  <2>1. /\ payslips' = payslips \cup {NewPayslip(r)}
        /\ run' = [run EXCEPT ![r].pc = "next", ![r].todo = @ \ ({e} \cup {}),
                     ![r].calculation = None, ![r].processed = @ \cup {e}]
    BY <1>2 DEF CreatePayslip, EndTurn
  <2>2. /\ NewPayslip(r).employeeId = e
        /\ NewPayslip(r).attendancePeriodId = run[r].periodId
    BY DEF NewPayslip
  <2> HIDE DEF e
  <2>3. /\ employees[e] # None /\ attendancePeriods[run[r].periodId] # None
        /\ ~Paid(e, run[r].periodId)
    BY <1>2, <2>2 DEF Insertable, HasParents, ConflictsWith, Paid
  <2>4. /\ run'[r].processed = run[r].processed \cup {e}
        /\ run'[r].periodId = run[r].periodId
        /\ \A q \in PayrollRequest \ {r} : run'[q] = run[q]
    BY <1>1, <2>1 DEF RunRow
  <2>5. \E s \in payslips' : s.employeeId = e /\ s.attendancePeriodId = run[r].periodId
    BY <2>1, <2>2
  <2>6. OnePaid(r, e)
    BY <1>1, <2>3, <2>4, <2>5 DEF OnePaid
  <2> QED
    BY <1>1, <2>1, <2>6 DEF CreatePayslip
<1>3. CASE ~Insertable(r)
  <2>1. run' = [run EXCEPT ![r].pc = "next", ![r].todo = @ \ ({} \cup {e}),
                  ![r].calculation = None, ![r].processed = @ \cup {}]
    BY <1>3 DEF CreatePayslip, EndTurn
  <2>2. ProcessedKept
    BY <1>1, <2>1 DEF RunRow, ProcessedKept
  <2> QED
    BY <1>3, <2>2 DEF CreatePayslip
<1> QED
  BY <1>2, <1>3

LEMMA OthersCountNobody ==
  ASSUME PayrollInv, NEW r \in PayrollRequest, RunStep(r), ~CreatePayslip(r)
  PROVE  ProcessedKept /\ payslips \subseteq payslips' /\ employees' = employees
<1>1. run \in [PayrollRequest -> RunRow] /\ run[r] \in RunRow /\ RunShape(run[r])
  BY DEF PayrollInv, RunsOK
<1>2. CASE ProcessPayroll(r)
  <2>1. run[r].processed = {} /\ run'[r].processed = {}
    BY <1>1, <1>2 DEF ProcessPayroll, RunShape, IdleRun
  <2> QED
    BY <1>1, <1>2, <2>1 DEF ProcessPayroll, ProcessedKept, dbVars
<1>3. CASE LoadEmployees(r) \/ Crash(r)
  BY <1>1, <1>3 DEF LoadEmployees, Crash, ProcessedKept, dbVars, RunRow
<1>4. CASE BeginEmployee(r)
  BY <1>1, <1>4 DEF BeginEmployee, EndTurn, ProcessedKept, dbVars, RunRow
<1>5. CASE CountAttendance(r) \/ CountOvertime(r) \/ CountReimbursements(r)
  BY <1>1, <1>5 DEF CountAttendance, CountOvertime, CountReimbursements, ProcessedKept, dbVars, RunRow
<1>6. CASE GeneratePayslipNumber(r)
  BY <1>1, <1>6 DEF GeneratePayslipNumber, ProcessedKept, dbVars, RunRow
<1>7. CASE TransactionFails(r) \/ CommitUnacknowledged(r)
  BY <1>1, <1>7 DEF TransactionFails, CommitUnacknowledged, EndTurnInError, ProcessedKept, dbVars, RunRow
<1>8. CASE FinishRun(r)
  BY <1>1, <1>8 DEF FinishRun, ProcessedKept, RunRow
<1> QED
  BY <1>2, <1>3, <1>4, <1>5, <1>6, <1>7, <1>8 DEF RunStep, HandlerStep, FailureStep

(* No step of the module takes a period away.                              *)
LEMMA PeriodsStay ==
  ASSUME PayrollInv, PayrollNext, NEW p \in PeriodId
  PROVE  attendancePeriods'[p] = None <=> attendancePeriods[p] = None
<1>1. CASE attendancePeriods' = attendancePeriods
  BY <1>1
<1>2. CASE \E r \in PayrollRequest : FinishRun(r)
  <2>1. PICK r \in PayrollRequest : FinishRun(r)
    BY <1>2
  <2>2. attendancePeriods \in Table(PeriodId, PeriodRow)
    BY DEF PayrollInv, DatabaseTypeOK
  <2>3. CASE p = run[r].periodId /\ attendancePeriods[p] # None
    <3>1. attendancePeriods[p] \in PeriodRow
      BY <2>2, <2>3 DEF Table
    <3>2. [attendancePeriods[p] EXCEPT !.payrollProcessed = TRUE] \in PeriodRow
      BY <3>1 DEF PeriodRow
    <3> QED
      BY <2>1, <2>2, <2>3, <3>2, NoneAssumption DEF FinishRun, Table
  <2> QED
    BY <2>1, <2>2, <2>3 DEF FinishRun, Table
<1> QED
  BY <1>1, <1>2 DEF PayrollNext, RunStep, HandlerStep, FailureStep, RosterStep,
     ProcessPayroll, LoadEmployees, BeginEmployee, CountAttendance, CountOvertime,
     CountReimbursements, GeneratePayslipNumber, CreatePayslip, TransactionFails,
     CommitUnacknowledged, Crash, SetEmployeeStatus, RemoveEmployee, DeleteEmployee, dbVars

LEMMA SuccessStep ==
  ASSUME PayrollInv, SuccessMeansPaid, PayrollNext
  PROVE  SuccessMeansPaid'
<1> SUFFICES ASSUME NEW q \in PayrollRequest, NEW f \in run'[q].processed
             PROVE  \/ Paid(f, run[q].periodId)' \/ employees'[f] = None
                    \/ attendancePeriods'[run'[q].periodId] = None
  BY DEF SuccessMeansPaid
<1>1. \A x \in PayrollRequest : run[x].processed # {} => run[x].periodId \in PeriodId
  BY DEF PayrollInv, RunsOK, RunShape
<1>2. CASE ProcessedKept /\ payslips \subseteq payslips' /\ employees' = employees
  BY <1>1, <1>2, PeriodsStay DEF ProcessedKept, SuccessMeansPaid, Paid
<1>3. CASE \E r \in PayrollRequest : CreatePayslip(r)
  <2>1. PICK r \in PayrollRequest : CreatePayslip(r)
    BY <1>3
  <2>2. CASE ProcessedKept
    BY <1>2, <2>1, <2>2, CreatePayslipEffect
  <2>3. CASE \E e \in run[r].todo : OnePaid(r, e)
    BY <1>1, <2>1, <2>3, CreatePayslipEffect DEF OnePaid, SuccessMeansPaid, Paid
  <2> QED
    BY <2>1, <2>2, <2>3, CreatePayslipEffect
<1>4. CASE RosterStep
  <2>1. run' = run /\ attendancePeriods' = attendancePeriods
    BY <1>4 DEF RosterStep, SetEmployeeStatus, RemoveEmployee, DeleteEmployee
  <2>2. f \in EmployeeId
    BY <2>1 DEF PayrollInv, RunsOK, RunRow
  <2>3. employees \in [EmployeeId -> EmployeeStatus \cup {None}]
    BY DEF PayrollInv, DatabaseTypeOK, Table
  <2>4. CASE \E e \in EmployeeId : SetEmployeeStatus(e)
    BY <2>1, <2>2, <2>3, <2>4 DEF SetEmployeeStatus, SuccessMeansPaid, Paid
  <2>5. CASE \E e \in EmployeeId : RemoveEmployee(e)
    <3>1. PICK e \in EmployeeId : RemoveEmployee(e)
      BY <2>5
    <3>2. CASE f = e
      BY <2>3, <3>1, <3>2 DEF RemoveEmployee, DeleteEmployee, Without
    <3>3. CASE f # e
      BY <2>1, <2>2, <2>3, <3>1, <3>3
      DEF RemoveEmployee, DeleteEmployee, Without, SuccessMeansPaid, Paid
    <3> QED
      BY <3>2, <3>3
  <2> QED
    BY <1>4, <2>4, <2>5 DEF RosterStep
<1> QED
  BY <1>2, <1>3, <1>4, OthersCountNobody DEF PayrollNext

LEMMA ShareStep ==
  ASSUME PayrollInv, SuccessMeansPaid, RunsShareNobody, PayrollNext
  PROVE  RunsShareNobody'
<1>1. CASE ProcessedKept
  BY <1>1 DEF ProcessedKept, RunsShareNobody
<1>2. CASE \E r \in PayrollRequest : CreatePayslip(r) /\ ~ProcessedKept
  <2>1. PICK r \in PayrollRequest : CreatePayslip(r) /\ ~ProcessedKept
    BY <1>2
  <2>2. PICK e \in run[r].todo : OnePaid(r, e)
    BY <2>1, CreatePayslipEffect
  <2>3. \A q \in PayrollRequest \ {r} :
           run[q].periodId = run[r].periodId => e \notin run[q].processed
    BY <2>2 DEF OnePaid, SuccessMeansPaid
  <2> QED
    BY <2>2, <2>3 DEF OnePaid, RunsShareNobody
<1>3. CASE RosterStep
  BY <1>3 DEF RosterStep, SetEmployeeStatus, RemoveEmployee, RunsShareNobody
<1> QED
  BY <1>1, <1>2, <1>3, OthersCountNobody DEF PayrollNext

LEMMA CountsInductive ==
  PayrollInv /\ SuccessMeansPaid /\ RunsShareNobody /\ [PayrollNext]_payrollVars
    => SuccessMeansPaid' /\ RunsShareNobody'
<1>1. CASE UNCHANGED payrollVars
  BY <1>1 DEF payrollVars, dbVars, SuccessMeansPaid, RunsShareNobody, Paid
<1> QED
  BY <1>1, SuccessStep, ShareStep

LEMMA CountsInit == PayrollInit => SuccessMeansPaid /\ RunsShareNobody
BY DEF PayrollInit, IdleRun, SuccessMeansPaid, RunsShareNobody

(* Whoever a run counted is paid, unless deleted with employee or period.  *)
THEOREM SuccessIsPaid == PayrollSpec => []SuccessMeansPaid
BY InitOK, PayrollInvInductive, CountsInit, CountsInductive, PTL DEF PayrollSpec

(* Two runs of a period never count the same employee.                     *)
THEOREM RunsAreDisjoint == PayrollSpec => []RunsShareNobody
BY InitOK, PayrollInvInductive, CountsInit, CountsInductive, PTL DEF PayrollSpec
-----------------------------------------------------------------------------
(* What the mark of a period means.                                        *)

(* A run keeps what it was asked and whom it found.                        *)
LEMMA ListKept ==
  ASSUME PayrollInv, NEW r \in PayrollRequest, RunStep(r), NEW q \in PayrollRequest,
         run[q].listed # {}
  PROVE  /\ run'[q].listed = run[q].listed
         /\ run'[q].periodId = run[q].periodId
         /\ run'[q].targeted = run[q].targeted
<1>1. /\ run \in [PayrollRequest -> RunRow] /\ run[r] \in RunRow /\ RunShape(run[r])
      /\ RunShape(run[q])
  BY DEF PayrollInv, RunsOK
<1>2. CASE ProcessPayroll(r) \/ LoadEmployees(r)
  <2>1. q # r
    BY <1>1, <1>2 DEF ProcessPayroll, LoadEmployees, RunShape
  <2> QED
    BY <1>1, <1>2, <2>1 DEF ProcessPayroll, LoadEmployees
<1>3. CASE BeginEmployee(r) \/ CreatePayslip(r)
  <2>1. ASSUME NEW done, NEW failed, EndTurn(r, done, failed)
        PROVE  /\ run'[q].listed = run[q].listed
               /\ run'[q].periodId = run[q].periodId
               /\ run'[q].targeted = run[q].targeted
    BY <1>1, <2>1 DEF EndTurn, RunRow
  <2>2. CASE BeginEmployee(r)
    BY <1>1, <2>1, <2>2 DEF BeginEmployee, RunRow
  <2>3. CASE CreatePayslip(r)
    BY <2>1, <2>3 DEF CreatePayslip
  <2> QED
    BY <1>3, <2>2, <2>3
<1>4. CASE CountAttendance(r) \/ CountOvertime(r) \/ CountReimbursements(r)
  BY <1>1, <1>4 DEF CountAttendance, CountOvertime, CountReimbursements, RunRow
<1>5. CASE GeneratePayslipNumber(r)
  BY <1>1, <1>5 DEF GeneratePayslipNumber, RunRow
<1>6. CASE TransactionFails(r) \/ CommitUnacknowledged(r)
  BY <1>1, <1>6 DEF TransactionFails, CommitUnacknowledged, EndTurnInError, RunRow
<1>7. CASE FinishRun(r) \/ Crash(r)
  BY <1>1, <1>7 DEF FinishRun, Crash, RunRow
<1> QED
  BY <1>2, <1>3, <1>4, <1>5, <1>6, <1>7 DEF RunStep, HandlerStep, FailureStep

(* Payslips only leave with their employee.                                *)
LEMMA PaidOrGoneKept ==
  ASSUME PayrollInv, PayrollNext, NEW e \in EmployeeId, NEW p \in PeriodId,
         Paid(e, p) \/ employees[e] = None
  PROVE  Paid(e, p)' \/ employees'[e] = None
<1>1. employees \in [EmployeeId -> EmployeeStatus \cup {None}]
  BY DEF PayrollInv, DatabaseTypeOK, Table
<1>2. CASE payslips \subseteq payslips' /\ employees' = employees
  BY <1>2 DEF Paid
<1>3. CASE RosterStep
  <2>1. PICK x \in EmployeeId : SetEmployeeStatus(x) \/ RemoveEmployee(x)
    BY <1>3 DEF RosterStep
  <2>2. CASE SetEmployeeStatus(x)
    BY <1>1, <2>2 DEF SetEmployeeStatus, Paid
  <2>3. CASE RemoveEmployee(x)
    BY <1>1, <2>3 DEF RemoveEmployee, DeleteEmployee, Without, Paid
  <2> QED
    BY <2>1, <2>2, <2>3
<1> QED
  BY <1>2, <1>3, OthersCountNobody, CreatePayslipEffect DEF PayrollNext

(* A step that marks p, or leaves its mark as it was.                      *)
LEMMA OnlyFinishMarks ==
  ASSUME PayrollInv, PayrollNext, NEW p \in PeriodId,
         attendancePeriods'[p] # None, attendancePeriods'[p].payrollProcessed
  PROVE  \/ attendancePeriods[p] # None /\ attendancePeriods[p].payrollProcessed
         \/ \E r \in PayrollRequest : FinishRun(r) /\ AllProcessed(r) /\ run[r].periodId = p
<1>1. attendancePeriods \in [PeriodId -> PeriodRow \cup {None}]
  BY DEF PayrollInv, DatabaseTypeOK, Table
<1>2. CASE attendancePeriods' = attendancePeriods
  BY <1>2
<1>3. CASE \E r \in PayrollRequest : FinishRun(r)
  BY <1>1, <1>3 DEF FinishRun
<1> QED
  BY <1>2, <1>3 DEF PayrollNext, RunStep, HandlerStep, FailureStep, RosterStep,
     ProcessPayroll, LoadEmployees, BeginEmployee, CountAttendance, CountOvertime,
     CountReimbursements, GeneratePayslipNumber, CreatePayslip, TransactionFails,
     CommitUnacknowledged, Crash, SetEmployeeStatus, RemoveEmployee, DeleteEmployee, dbVars

(* The run that marked p, in the words of ProcessedMeansPaid.              *)
Settles(r, p) ==
  /\ run[r].periodId = p /\ ~run[r].targeted /\ run[r].listed # {}
  /\ \A e \in run[r].listed : Paid(e, p) \/ employees[e] = None

LEMMA SettlesKept ==
  ASSUME PayrollInv, PayrollNext, NEW r \in PayrollRequest, NEW p \in PeriodId, Settles(r, p)
  PROVE  Settles(r, p)'
<1>1. /\ run'[r].listed = run[r].listed /\ run'[r].periodId = run[r].periodId
      /\ run'[r].targeted = run[r].targeted
  BY ListKept DEF PayrollNext, Settles, RosterStep, SetEmployeeStatus, RemoveEmployee
<1>2. run[r].listed \subseteq EmployeeId
  BY DEF PayrollInv, RunsOK, RunRow
<1> QED
  BY <1>1, <1>2, PaidOrGoneKept DEF Settles

LEMMA ProcessedStep ==
  ASSUME PayrollInv, SuccessMeansPaid, ProcessedMeansPaid, PayrollNext
  PROVE  ProcessedMeansPaid'
<1> SUFFICES ASSUME NEW p \in PeriodId,
                    attendancePeriods'[p] # None, attendancePeriods'[p].payrollProcessed
             PROVE  \E r \in PayrollRequest : Settles(r, p)'
  BY DEF ProcessedMeansPaid, Settles
<1>1. CASE attendancePeriods[p] # None /\ attendancePeriods[p].payrollProcessed
  <2>1. PICK r \in PayrollRequest : Settles(r, p)
    BY <1>1 DEF ProcessedMeansPaid, Settles
  <2> QED
    BY <2>1, SettlesKept
<1>2. CASE \E r \in PayrollRequest : FinishRun(r) /\ AllProcessed(r) /\ run[r].periodId = p
  <2>1. PICK r \in PayrollRequest : FinishRun(r) /\ AllProcessed(r) /\ run[r].periodId = p
    BY <1>2
  <2>2. attendancePeriods[p] # None
    BY PeriodsStay
  <2>3. run[r].listed # {}
    BY <2>1 DEF FinishRun, PayrollInv, RunsOK, RunShape, InLoop
  <2>4. Settles(r, p)
    BY <2>1, <2>2, <2>3 DEF Settles, AllProcessed, SuccessMeansPaid
  <2> QED
    BY <2>4, SettlesKept
<1> QED
  BY <1>1, <1>2, OnlyFinishMarks

LEMMA ProcessedInductive ==
  PayrollInv /\ SuccessMeansPaid /\ ProcessedMeansPaid /\ [PayrollNext]_payrollVars
    => ProcessedMeansPaid'
<1>1. CASE UNCHANGED payrollVars
  BY <1>1 DEF payrollVars, dbVars, ProcessedMeansPaid, Paid
<1> QED
  BY <1>1, ProcessedStep

LEMMA ProcessedInit == PayrollInit => ProcessedMeansPaid
BY InitialAssumption DEF PayrollInit, DatabaseInit, ProcessedMeansPaid

(* The mark of a period stands for a whole roster paid: an unrestricted    *)
(* run listed somebody, and all it listed have payslips or are deleted.    *)
THEOREM MarkMeansPaid == PayrollSpec => []ProcessedMeansPaid
BY InitOK, PayrollInvInductive, CountsInit, CountsInductive, ProcessedInit,
   ProcessedInductive, PTL DEF PayrollSpec
-----------------------------------------------------------------------------
(* A stable roster.                                                        *)

(* Whoever a run lists is active, and an unrestricted run lists them all.  *)
ListsRoster ==
  \A r \in PayrollRequest :
    /\ run[r].listed \subseteq Active
    /\ run[r].listed # {} /\ ~run[r].targeted => run[r].listed = Active

StableInv == /\ PayrollInv /\ SuccessMeansPaid /\ RunsShareNobody
             /\ ProcessedMeansPaid /\ ListsRoster

LEMMA StableInit == PayrollInit => StableInv
BY InitOK, CountsInit, ProcessedInit DEF StableInv, PayrollInit, IdleRun, ListsRoster

LEMMA ListsRosterStep ==
  ASSUME PayrollInv, ListsRoster, StableNext
  PROVE  ListsRoster'
<1>1. PICK r \in PayrollRequest : RunStep(r)
  BY DEF StableNext
<1>2. employees' = employees /\ Active' = Active
  BY <1>1, OthersCountNobody, CreatePayslipEffect DEF Active
<1>3. run \in [PayrollRequest -> RunRow] /\ run[r] \in RunRow /\ RunShape(run[r])
  BY DEF PayrollInv, RunsOK
<1>4. \A q \in PayrollRequest \ {r} : run'[q] = run[q]
  BY <1>1, <1>3 DEF RunStep, HandlerStep, FailureStep, ProcessPayroll, LoadEmployees,
     BeginEmployee, EndTurn, CountAttendance, CountOvertime, CountReimbursements,
     GeneratePayslipNumber, CreatePayslip, FinishRun, TransactionFails,
     CommitUnacknowledged, EndTurnInError, Crash
<1>5. CASE run[r].listed # {}
  BY <1>1, <1>2, <1>4, <1>5, ListKept DEF ListsRoster
<1>6. CASE run[r].listed = {} /\ LoadEmployees(r)
  BY <1>2, <1>3, <1>4, <1>6 DEF LoadEmployees, ListsRoster, RunRow
<1>7. CASE run[r].listed = {} /\ ~LoadEmployees(r)
  <2>1. run'[r].listed = {}
    <3>1. CASE ProcessPayroll(r) \/ Crash(r)
      <4>1. CASE ProcessPayroll(r)
        BY <1>3, <4>1 DEF ProcessPayroll, IdleRun
      <4>2. CASE Crash(r)
        BY <1>3, <1>7, <4>2 DEF Crash, RunRow
      <4> QED
        BY <3>1, <4>1, <4>2
    <3>2. ~(run[r].pc \in InLoop)
      BY <1>3, <1>7 DEF RunShape
    <3>3. ~HandlerStep(r) /\ ~TransactionFails(r) /\ ~CommitUnacknowledged(r)
      BY <1>7, <3>2 DEF HandlerStep, InLoop, BeginEmployee, CountAttendance, CountOvertime,
         CountReimbursements, GeneratePayslipNumber, CreatePayslip, FinishRun, TransactionFails, CommitUnacknowledged
    <3> QED
      BY <1>1, <3>1, <3>3 DEF RunStep, FailureStep
  <2> QED
    BY <1>2, <1>4, <2>1 DEF ListsRoster
<1> QED
  BY <1>5, <1>6, <1>7

LEMMA StableInductive == StableInv /\ [StableNext]_payrollVars => StableInv'
<1> SUFFICES ASSUME StableInv, [StableNext]_payrollVars
             PROVE  StableInv'
  OBVIOUS
<1>1. [PayrollNext]_payrollVars
  BY DEF StableNext, PayrollNext
<1>2. ListsRoster'
  <2>1. CASE UNCHANGED payrollVars
    BY <2>1 DEF payrollVars, dbVars, ListsRoster, Active, StableInv
  <2> QED
    BY <2>1, ListsRosterStep DEF StableInv
<1> QED
  BY <1>1, <1>2, PayrollInvInductive, CountsInductive, ProcessedInductive DEF StableInv

LEMMA StableMarksOnce == StableInv => ProcessedOnce
<1> SUFFICES ASSUME StableInv, NEW r1 \in PayrollRequest, NEW r2 \in PayrollRequest,
                    run[r1].pc = "settled", run[r2].pc = "settled",
                    run[r1].periodId = run[r2].periodId, r1 # r2
             PROVE  FALSE
  BY DEF ProcessedOnce
<1>1. \A r \in {r1, r2} : /\ run[r].processed = run[r].listed
                          /\ run[r].listed # {} /\ ~run[r].targeted
  BY DEF StableInv, PayrollInv, RunsOK, RunShape
<1>2. run[r1].listed = run[r2].listed
  BY <1>1 DEF StableInv, ListsRoster
<1> QED
  BY <1>1, <1>2 DEF StableInv, RunsShareNobody

LEMMA StablePaysRoster == StableInv => ProcessedPaysRoster
<1> SUFFICES ASSUME StableInv, NEW p \in PeriodId, attendancePeriods[p] # None,
                    attendancePeriods[p].payrollProcessed, NEW e \in Active
             PROVE  Paid(e, p)
  BY DEF ProcessedPaysRoster
<1>1. PICK r \in PayrollRequest : Settles(r, p)
  BY DEF StableInv, ProcessedMeansPaid, Settles
<1>2. e \in run[r].listed
  BY <1>1 DEF StableInv, ListsRoster, Settles
<1>3. employees[e] # None
  BY NoneAssumption DEF Active, EmployeeStatus
<1> QED
  BY <1>1, <1>2, <1>3 DEF Settles

LEMMA StableIssuesBeforeMark ==
  ASSUME StableInv, StableNext, NEW s \in payslips' \ payslips,
         attendancePeriods[s.attendancePeriodId] # None
  PROVE  ~attendancePeriods[s.attendancePeriodId].payrollProcessed
<1>1. PICK r \in PayrollRequest : /\ CreatePayslip(r) \/ CommitUnacknowledged(r)
                                 /\ Insertable(r) /\ s = NewPayslip(r)
  BY DEF StableNext, RunStep, HandlerStep, FailureStep, ProcessPayroll, LoadEmployees,
     BeginEmployee, CountAttendance, CountOvertime, CountReimbursements,
     GeneratePayslipNumber, CreatePayslip, FinishRun, TransactionFails,
     CommitUnacknowledged, Crash, dbVars
<1>2. run[r].pc = "create"
  BY <1>1 DEF CreatePayslip, CommitUnacknowledged
<1>3. RunShape(run[r]) /\ run[r].periodId \in PeriodId /\ run[r].listed \subseteq Active
  BY <1>2 DEF StableInv, PayrollInv, RunsOK, RunShape, ListsRoster
<1>4. run[r].calculation.employeeId \in Active
  BY <1>2, <1>3 DEF RunShape, InLoop
<1>5. /\ s.employeeId = run[r].calculation.employeeId
      /\ s.attendancePeriodId = run[r].periodId
  BY <1>1 DEF NewPayslip
<1>6. ~Paid(s.employeeId, s.attendancePeriodId)
  BY <1>1 DEF Insertable, ConflictsWith, Paid
<1> QED
  BY <1>3, <1>4, <1>5, <1>6, StablePaysRoster DEF ProcessedPaysRoster

(* With a stable roster at most one run marks a period.                    *)
THEOREM OneRunMarks == StableSpec => []ProcessedOnce
BY StableInit, StableInductive, StableMarksOnce, PTL DEF StableSpec

(* With a stable roster a marked period has paid every active employee.    *)
THEOREM MarkPaysRoster == StableSpec => []ProcessedPaysRoster
BY StableInit, StableInductive, StablePaysRoster, PTL DEF StableSpec

(* With a stable roster no payslip appears in a marked period.             *)
THEOREM NothingIssuedAfterMark == StableSpec => NoPayslipAfterMark
<1> DEFINE Quietly == \A s \in payslips' \ payslips :
                        LET row == attendancePeriods[s.attendancePeriodId]
                        IN  row # None => ~row.payrollProcessed
<1>1. StableInv /\ [StableNext]_payrollVars => [Quietly]_payrollVars
  BY StableIssuesBeforeMark
<1> QED
  BY <1>1, StableInit, StableInductive, PTL DEF StableSpec, NoPayslipAfterMark
-----------------------------------------------------------------------------
(* A run that is alone.                                                    *)

LoneNumbers(r) ==
  /\ run[r].pc \in InProgress => attendancePeriods[run[r].periodId] # None
  /\ run[r].pc \in InLoop \ {"next"} => ~Paid(run[r].calculation.employeeId, run[r].periodId)
  /\ run[r].pc = "create" =>
       \A s \in payslips : s.payslipNumber # run[r].calculation.payslipNumber

(* Whoever had a turn is paid or gone, or hit by a database error.         *)
LoneTurns(r) ==
  /\ run[r].pc \in {"settled", "returned"} => run[r].todo = {}
  /\ run[r].pc \in InLoop \cup {"settled", "returned"} =>
       \/ WorkingDays(run[r].period.startDate, run[r].period.endDate) = {}
       \/ \A e \in run[r].listed \ (run[r].todo \cup run[r].dbErrors) :
            Paid(e, run[r].periodId) \/ employees[e] = None

OneRun == \A r1, r2 \in PayrollRequest :
            run[r1].pc \in InProgress /\ run[r2].pc \in InProgress => r1 = r2

LoneRunInv == PayrollInv /\ OneRun /\ \A r \in PayrollRequest : LoneNumbers(r) /\ LoneTurns(r)

LEMMA OnlyOneMoves ==
  ASSUME PayrollInv, NEW r \in PayrollRequest, RunStep(r), NEW q \in PayrollRequest \ {r}
  PROVE  run'[q] = run[q]
BY DEF PayrollInv, RunsOK, RunStep, HandlerStep, FailureStep, ProcessPayroll, LoadEmployees,
   BeginEmployee, EndTurn, CountAttendance, CountOvertime, CountReimbursements,
   GeneratePayslipNumber, CreatePayslip, FinishRun, TransactionFails,
   CommitUnacknowledged, EndTurnInError, Crash

(* What a run has finished another run or the roster does not undo.        *)
LEMMA TurnsKept ==
  ASSUME PayrollInv, PayrollNext, NEW q \in PayrollRequest, run'[q] = run[q], LoneTurns(q)
  PROVE  LoneTurns(q)'
<1>1. run[q].listed \subseteq EmployeeId /\ RunShape(run[q])
  BY DEF PayrollInv, RunsOK, RunRow
<1>2. run[q].pc \in InLoop \cup {"settled", "returned"} => run[q].periodId \in PeriodId
  BY <1>1 DEF RunShape, InLoop
<1>3. \A e \in run[q].listed :
        /\ run[q].pc \in InLoop \cup {"settled", "returned"}
        /\ Paid(e, run[q].periodId) \/ employees[e] = None
        => Paid(e, run[q].periodId)' \/ employees'[e] = None
  <2> SUFFICES ASSUME NEW e \in run[q].listed,
                      run[q].pc \in InLoop \cup {"settled", "returned"},
                      Paid(e, run[q].periodId) \/ employees[e] = None
               PROVE  Paid(e, run[q].periodId)' \/ employees'[e] = None
    OBVIOUS
  <2>1. PICK p \in PeriodId : p = run[q].periodId
    BY <1>2
  <2>2. Paid(e, p)' \/ employees'[e] = None
    BY <1>1, <2>1, PaidOrGoneKept
  <2> QED
    BY <2>1, <2>2 DEF Paid
<1> QED
  BY <1>3 DEF LoneTurns

(* The turn of e ends, and e is paid, gone or hit by an error, unless the  *)
(* period has no working day.                                              *)
TurnEnds(r, e) ==
  /\ run'[r].pc = "next"
  /\ run'[r].todo = run[r].todo \ {e} /\ run'[r].listed = run[r].listed
  /\ run'[r].period = run[r].period /\ run'[r].periodId = run[r].periodId
  /\ run[r].dbErrors \subseteq run'[r].dbErrors
  /\ \/ WorkingDays(run[r].period.startDate, run[r].period.endDate) = {}
     \/ e \in run'[r].dbErrors
     \/ Paid(e, run[r].periodId)' \/ employees'[e] = None

LEMMA TurnEndsOK ==
  ASSUME LoneRunInv, NEW r \in PayrollRequest, RunStep(r), run[r].pc \in InLoop,
         NEW e \in EmployeeId, TurnEnds(r, e)
  PROVE  LoneNumbers(r)' /\ LoneTurns(r)'
<1>1. PayrollNext /\ PayrollInv /\ LoneTurns(r) /\ LoneNumbers(r)
  BY DEF PayrollNext, LoneRunInv
<1>2. PICK p \in PeriodId : p = run[r].periodId
  BY DEF LoneRunInv, PayrollInv, RunsOK, RunShape, InLoop
<1>3. attendancePeriods[p] # None /\ attendancePeriods'[p] # None
  BY <1>1, <1>2, PeriodsStay DEF LoneNumbers, InProgress
<1>4. LoneNumbers(r)'
  BY <1>2, <1>3 DEF LoneNumbers, TurnEnds, InLoop
<1>5. \A x \in EmployeeId : Paid(x, p) \/ employees[x] = None => Paid(x, p)' \/ employees'[x] = None
  BY <1>1, PaidOrGoneKept
<1>6. run[r].listed \subseteq EmployeeId
  BY DEF LoneRunInv, PayrollInv, RunsOK, RunRow
<1>7. CASE WorkingDays(run[r].period.startDate, run[r].period.endDate) = {}
  BY <1>4, <1>7 DEF LoneTurns, TurnEnds
<1>8. CASE WorkingDays(run[r].period.startDate, run[r].period.endDate) # {}
  <2>1. \A x \in run[r].listed \ (run[r].todo \cup run[r].dbErrors) :
          Paid(x, p) \/ employees[x] = None
    BY <1>1, <1>2, <1>8 DEF LoneTurns
  <2>2. \A x \in run'[r].listed \ (run'[r].todo \cup run'[r].dbErrors) :
          Paid(x, p)' \/ employees'[x] = None
    <3> SUFFICES ASSUME NEW x \in run'[r].listed \ (run'[r].todo \cup run'[r].dbErrors)
                 PROVE  Paid(x, p)' \/ employees'[x] = None
      OBVIOUS
    <3>1. CASE x = e
      BY <1>2, <1>8, <3>1 DEF TurnEnds, Paid
    <3>2. CASE x # e
      BY <1>5, <1>6, <2>1, <3>2 DEF TurnEnds
    <3> QED
      BY <3>1, <3>2
  <2> QED
    BY <1>2, <1>4, <2>2 DEF LoneTurns, TurnEnds, Paid
<1> QED
  BY <1>4, <1>7, <1>8

(* The number generated is free if those taken fit their width.            *)
LEMMA NumberIsFree ==
  ASSUME NumbersFit, NEW month, NEW n \in NextSequence(NumbersTaken(month)), NEW s \in payslips
  PROVE  s.payslipNumber # [month |-> month, sequence |-> n]
<1>1. \A m \in NumbersTaken(month) : m \in 1 .. SeqCap
  <2> SUFFICES ASSUME NEW m \in NumbersTaken(month)
               PROVE  m \in 1 .. SeqCap
    OBVIOUS
  <2>1. PICK t \in payslips : t.payslipNumber = [month |-> month, sequence |-> m]
    BY DEF NumbersTaken
  <2>2. t.payslipNumber.sequence = m /\ m \in 1 .. SeqCap + 1
    BY <2>1 DEF NumbersTaken, Sequence
  <2> QED
    BY <2>2, CapIsNatural DEF NumbersFit
<1>2. n \notin NumbersTaken(month)
  BY <1>1, NextSequenceIsNew
<1>3. NumbersTaken(month) \in SUBSET Sequence
  BY Zenon DEF NumbersTaken
<1>4. n \in Sequence
  BY <1>3, NextSequenceInRange
<1> QED
  BY <1>2, <1>4 DEF NumbersTaken

LEMMA LoneStepOK ==
  ASSUME LoneRunInv, NumbersFit, NEW r \in PayrollRequest, HandlerStep(r) \/ FailureStep(r)
  PROVE  LoneNumbers(r)' /\ LoneTurns(r)'
<1> DEFINE x == run[r]
           e == x.calculation.employeeId
           p == x.periodId
<1>1. /\ run \in [PayrollRequest -> RunRow] /\ x \in RunRow /\ RunShape(x)
      /\ LoneNumbers(r) /\ LoneTurns(r) /\ PayrollInv
  BY DEF LoneRunInv, PayrollInv, RunsOK
<1>2. RunStep(r) /\ PayrollNext
  BY DEF RunStep, PayrollNext
<1>3. x.pc \in InLoop \ {"next"} => e \in EmployeeId /\ e \in x.todo
  BY <1>1 DEF RunShape, RunRow
<1>4. CASE LoadEmployees(r)
  BY <1>1, <1>4 DEF LoadEmployees, LoneNumbers, LoneTurns, RunRow, InProgress, InLoop, dbVars
<1>5. CASE BeginEmployee(r)
  <2>1. PICK f \in x.todo :
           IF Paid(f, p)
           THEN EndTurn(r, {}, {f})
           ELSE run' = [run EXCEPT ![r].pc = "attendance",
                          ![r].calculation = [employeeId |-> f, attendedDays |-> 0,
                             overtimes |-> {}, reimbursements |-> {}, payslipNumber |-> None]]
    BY <1>5 DEF BeginEmployee
  <2>2. f \in EmployeeId /\ x.pc = "next" /\ UNCHANGED dbVars
    BY <1>1, <1>5, <2>1 DEF BeginEmployee, RunRow
  <2>3. CASE Paid(f, p)
    <3>1. TurnEnds(r, f)
      BY <1>1, <2>1, <2>2, <2>3 DEF EndTurn, TurnEnds, RunRow, dbVars, Paid
    <3> QED
      BY <1>2, <2>2, <3>1, TurnEndsOK DEF InLoop
  <2>4. CASE ~Paid(f, p)
    BY <1>1, <2>1, <2>2, <2>4, SMTT(30)
    DEF LoneNumbers, LoneTurns, RunRow, dbVars, Paid, InProgress, InLoop
  <2> QED
    BY <2>3, <2>4
<1>6. CASE CountAttendance(r) \/ CountOvertime(r) \/ CountReimbursements(r)
  <2>1. /\ x.pc \in InLoop \ {"next"} /\ run'[r].pc \in InLoop \ {"next", "create"}
        /\ run'[r].calculation.employeeId = e /\ UNCHANGED dbVars
        /\ run'[r].listed = x.listed /\ run'[r].todo = x.todo /\ run'[r].dbErrors = x.dbErrors
        /\ run'[r].period = x.period /\ run'[r].periodId = p
    BY <1>1, <1>6 DEF CountAttendance, CountOvertime, CountReimbursements, RunRow, InLoop,
       RunShape, Calculation
  <2> QED
    BY <1>1, <2>1 DEF LoneNumbers, LoneTurns, dbVars, Paid, InProgress, InLoop
<1>7. CASE GeneratePayslipNumber(r)
  <2> DEFINE month == MonthOf(x.period.startDate)
  <2>1. PICK n \in NextSequence(NumbersTaken(month)) :
           run' = [run EXCEPT ![r].pc = "create",
                     ![r].calculation.payslipNumber = [month |-> month, sequence |-> n]]
    BY <1>7 DEF GeneratePayslipNumber
  <2> HIDE DEF month
  <2>2. /\ x.pc = "number" /\ run'[r].pc = "create"
        /\ run'[r].calculation.employeeId = e /\ UNCHANGED dbVars
        /\ run'[r].calculation.payslipNumber = [month |-> month, sequence |-> n]
        /\ run'[r].listed = x.listed /\ run'[r].todo = x.todo /\ run'[r].dbErrors = x.dbErrors
        /\ run'[r].period = x.period /\ run'[r].periodId = p
    BY <1>1, <1>7, <2>1 DEF GeneratePayslipNumber, RunRow, InLoop, RunShape, Calculation
  <2>3. \A s \in payslips : s.payslipNumber # [month |-> month, sequence |-> n]
    BY NumberIsFree
  <2> QED
    BY <1>1, <2>2, <2>3 DEF LoneNumbers, LoneTurns, dbVars, Paid, InProgress, InLoop
<1>8. CASE CreatePayslip(r)
  <2>1. PICK f \in EmployeeId : f = e
    BY <1>3, <1>8 DEF CreatePayslip, InLoop
  <2>2. x.pc = "create" /\ x.pc \in InLoop
    BY <1>8 DEF CreatePayslip, InLoop
  <2>3. NewPayslip(r).employeeId = f /\ NewPayslip(r).attendancePeriodId = p
        /\ NewPayslip(r).payslipNumber = x.calculation.payslipNumber
    BY <2>1 DEF NewPayslip
  <2>4. CASE Insertable(r)
    <3>1. NewPayslip(r) \in payslips' /\ EndTurn(r, {f}, {})
      BY <1>8, <2>1, <2>4 DEF CreatePayslip
    <3>2. \E s \in payslips' : s.employeeId = f /\ s.attendancePeriodId = p
      BY <2>3, <3>1
    <3>3. TurnEnds(r, f)
      BY <1>1, <3>1, <3>2 DEF EndTurn, TurnEnds, RunRow, Paid
    <3> QED
      BY <1>2, <2>2, <3>3, TurnEndsOK
  <2>5. CASE ~Insertable(r)
    <3>1. \/ WorkingDays(x.period.startDate, x.period.endDate) = {}
          \/ employees[f] = None
      BY <1>1, <2>1, <2>2, <2>3, <2>5
      DEF Insertable, HasParents, ConflictsWith, LoneNumbers, Paid, InProgress, InLoop
    <3>2. EndTurn(r, {}, {f}) /\ employees' = employees
      BY <1>8, <2>1, <2>5 DEF CreatePayslip
    <3>3. TurnEnds(r, f)
      BY <1>1, <3>1, <3>2 DEF EndTurn, TurnEnds, RunRow
    <3> QED
      BY <1>2, <2>2, <3>3, TurnEndsOK
  <2> QED
    BY <2>4, <2>5
<1>9. CASE FinishRun(r)
  <2>1. /\ x.pc = "next" /\ x.todo = {} /\ run'[r].pc \in {"settled", "returned", "crashed"}
        /\ run'[r].listed = x.listed /\ run'[r].todo = x.todo /\ run'[r].dbErrors = x.dbErrors
        /\ run'[r].period = x.period /\ run'[r].periodId = p
        /\ UNCHANGED <<employees, payslips>>
    BY <1>1, <1>9 DEF FinishRun, RunRow
  <2> QED
    BY <1>1, <2>1 DEF LoneNumbers, LoneTurns, Paid, InProgress, InLoop
<1>10. CASE TransactionFails(r) \/ CommitUnacknowledged(r)
  <2>1. EndTurnInError(r) /\ x.pc \in InLoop \ {"next"}
    BY <1>10 DEF TransactionFails, CommitUnacknowledged, InLoop
  <2>2. PICK f \in EmployeeId : f = e
    BY <1>3, <2>1
  <2>3. TurnEnds(r, f)
    BY <1>1, <2>1, <2>2 DEF EndTurnInError, TurnEnds, RunRow
  <2> QED
    BY <1>2, <2>1, <2>3, TurnEndsOK
<1>11. CASE Crash(r)
  <2>1. run'[r].pc = "crashed"
    BY <1>1, <1>11 DEF Crash
  <2> QED
    BY <2>1 DEF LoneNumbers, LoneTurns, InProgress, InLoop
<1> QED
  BY <1>4, <1>5, <1>6, <1>7, <1>8, <1>9, <1>10, <1>11 DEF HandlerStep, FailureStep

LEMMA LoneRosterOK ==
  ASSUME LoneRunInv, RosterStep, NEW r \in PayrollRequest
  PROVE  LoneNumbers(r)' /\ LoneTurns(r)'
<1>1. run' = run /\ attendancePeriods' = attendancePeriods /\ payslips' \subseteq payslips
  BY DEF RosterStep, SetEmployeeStatus, RemoveEmployee, DeleteEmployee
<1>2. LoneNumbers(r)'
  BY <1>1 DEF LoneRunInv, LoneNumbers, Paid
<1> QED
  BY <1>1, <1>2, TurnsKept DEF LoneRunInv, PayrollNext

LEMMA LoneInductive == LoneRunInv /\ NumbersFit /\ [SerialNext]_payrollVars => LoneRunInv'
<1> SUFFICES ASSUME LoneRunInv, NumbersFit, [SerialNext]_payrollVars
             PROVE  LoneRunInv'
  OBVIOUS
<1>1. PayrollInv'
  BY PayrollInvInductive DEF LoneRunInv, SerialNext, PayrollNext, RunStep
<1>2. CASE UNCHANGED payrollVars
  BY <1>1, <1>2 DEF payrollVars, dbVars, LoneRunInv, OneRun, LoneNumbers, LoneTurns, Paid
<1>3. CASE RosterStep
  <2>1. run' = run
    BY <1>3 DEF RosterStep, SetEmployeeStatus, RemoveEmployee
  <2> QED
    BY <1>1, <1>3, <2>1, LoneRosterOK DEF LoneRunInv, OneRun
<1>4. ASSUME NEW r \in PayrollRequest, \/ Quiet /\ ProcessPayroll(r)
                                       \/ HandlerStep(r) \/ FailureStep(r)
      PROVE  LoneRunInv'
  <2>1. RunStep(r) /\ PayrollNext /\ PayrollInv
    BY <1>4 DEF RunStep, PayrollNext, LoneRunInv
  <2>2. \A q \in PayrollRequest \ {r} : run'[q] = run[q]
    BY <2>1, OnlyOneMoves
  <2>3. \A q \in PayrollRequest \ {r} : run[q].pc \notin InProgress
    <3>1. CASE Quiet
      BY <3>1 DEF Quiet
    <3>2. CASE run[r].pc \in InProgress
      BY <3>2 DEF LoneRunInv, OneRun
    <3> QED
      BY <1>4, <3>1, <3>2 DEF HandlerStep, FailureStep, LoadEmployees, BeginEmployee,
         CountAttendance, CountOvertime, CountReimbursements, GeneratePayslipNumber,
         CreatePayslip, FinishRun, TransactionFails, CommitUnacknowledged, Crash, InProgress, InLoop
  <2>4. OneRun'
    BY <2>2, <2>3 DEF OneRun
  <2>5. \A q \in PayrollRequest \ {r} : LoneNumbers(q)' /\ LoneTurns(q)'
    BY <2>1, <2>2, <2>3, TurnsKept DEF LoneRunInv, LoneNumbers, InProgress, InLoop
  <2>6. LoneNumbers(r)' /\ LoneTurns(r)'
    <3>1. CASE ProcessPayroll(r)
      <4>1. run'[r].pc \in {"validated", "rejected"}
        BY <3>1 DEF ProcessPayroll, LoneRunInv, PayrollInv, RunsOK
      <4>2. run'[r].pc = "validated" => attendancePeriods'[run'[r].periodId] # None
        BY <3>1 DEF ProcessPayroll, LoneRunInv, PayrollInv, RunsOK, IdleRun, Processable, dbVars
      <4> QED
        BY <4>1, <4>2 DEF LoneNumbers, LoneTurns, InProgress, InLoop
    <3> QED
      BY <1>4, <3>1, LoneStepOK
  <2> QED
    BY <1>1, <2>4, <2>5, <2>6 DEF LoneRunInv
<1> QED
  BY <1>2, <1>3, <1>4 DEF SerialNext

LEMMA LoneInit == PayrollInit => LoneRunInv
BY InitOK DEF PayrollInit, IdleRun, LoneRunInv, OneRun, LoneNumbers, LoneTurns, InProgress, InLoop

(* A run that is alone pays everybody it listed but those a database error *)
(* hit or whose row is gone, as long as the numbers have fitted: no        *)
(* insert of its own is ever refused by a key.                             *)
THEOREM LoneRunsPay == SerialSpec => LoneRunPaysEveryone
<1>1. LoneRunInv => \A r \in PayrollRequest : ~LeavesUnpaid(r)
  BY DEF LoneRunInv, LoneTurns, LeavesUnpaid
<1> QED
  BY <1>1, LoneInit, LoneInductive, PTL DEF SerialSpec, LoneRunPaysEveryone
-----------------------------------------------------------------------------
(* The ledger.                                                             *)

Entry(s) == <<s.employeeId, s.attendancePeriodId, s.payslipNumber>>

LEMMA LedgerInitial == PayrollInit => Ledger!LedgerInit
BY InitialAssumption DEF PayrollInit, DatabaseInit, Ledger!LedgerInit

(* An insert that meets no key is an entry that meets no other.            *)
LEMMA InsertIssues ==
  ASSUME PayrollInv, NEW r \in PayrollRequest, run[r].pc = "create", Insertable(r),
         payslips' = payslips \cup {NewPayslip(r)},
         UNCHANGED <<employees, attendancePeriods>>
  PROVE  Ledger!LedgerNext
<1>1. PICK e \in EmployeeId, p \in PeriodId, n \in WrittenNumber :
         /\ e = run[r].calculation.employeeId /\ p = run[r].periodId
         /\ n = run[r].calculation.payslipNumber
  BY DEF PayrollInv, RunsOK, RunShape, InLoop, Calculation
<1>2. /\ NewPayslip(r).employeeId = e /\ NewPayslip(r).attendancePeriodId = p
      /\ NewPayslip(r).payslipNumber = n
  BY <1>1 DEF NewPayslip
<1>3. employees[e] # None /\ attendancePeriods[p] # None
  BY <1>2 DEF Insertable, HasParents
<1>4. \A s \in payslips : /\ ~(s.employeeId = e /\ s.attendancePeriodId = p)
                          /\ s.payslipNumber # n
  BY <1>2 DEF Insertable, ConflictsWith
<1>5. Ledger!Issue(e, p, n)
  BY <1>1, <1>2, <1>3, <1>4 DEF Ledger!Issue
<1> QED
  BY <1>1, <1>5 DEF Ledger!LedgerNext

LEMMA FinishSettles ==
  ASSUME PayrollInv, SuccessMeansPaid, NEW r \in PayrollRequest, FinishRun(r)
  PROVE  Ledger!LedgerNext \/ UNCHANGED Ledger!ledgerVars
<1>1. CASE attendancePeriods' = attendancePeriods
  BY <1>1 DEF FinishRun, Ledger!ledgerVars
<1>2. CASE /\ AllProcessed(r) /\ attendancePeriods[run[r].periodId] # None
           /\ attendancePeriods' =
                [attendancePeriods EXCEPT ![run[r].periodId].payrollProcessed = TRUE]
  <2>1. PICK p \in PeriodId : p = run[r].periodId
    BY DEF FinishRun, PayrollInv, RunsOK, RunShape
  <2>2. attendancePeriods \in [PeriodId -> PeriodRow \cup {None}]
    BY DEF PayrollInv, DatabaseTypeOK, Table
  <2>3. attendancePeriods[p] \in PeriodRow
    BY <1>2, <2>1, <2>2
  <2>4. /\ attendancePeriods'[p] = [attendancePeriods[p] EXCEPT !.payrollProcessed = TRUE]
        /\ attendancePeriods'[p] \in PeriodRow /\ attendancePeriods'[p].payrollProcessed
        /\ \A x \in PeriodId \ {p} : attendancePeriods'[x] = attendancePeriods[x]
    BY <1>2, <2>1, <2>2, <2>3 DEF PeriodRow
  <2>5. attendancePeriods'[p] # None
    BY <2>4, NoneAssumption
  <2>6. CASE attendancePeriods[p].payrollProcessed
    BY <2>3, <2>4, <2>5, <2>6, <1>2, <2>1 DEF FinishRun, Ledger!ledgerVars
  <2>7. CASE ~attendancePeriods[p].payrollProcessed
    <3>1. PICK e \in run[r].processed : e \in EmployeeId
      BY <1>2 DEF FinishRun, AllProcessed, PayrollInv, RunsOK, RunShape, RunRow, InLoop
    <3>2. Paid(e, p) \/ employees[e] = None
      BY <1>2, <2>1, <3>1 DEF SuccessMeansPaid
    <3>3. \/ e \notin {x \in EmployeeId : employees[x] # None}
          \/ \E x \in {Entry(s) : s \in payslips} : x[1] = e /\ x[2] = p
      <4>1. CASE employees[e] = None
        BY <4>1
      <4>2. CASE Paid(e, p)
        <5>1. PICK s \in payslips : s.employeeId = e /\ s.attendancePeriodId = p
          BY <4>2 DEF Paid
        <5>2. Entry(s)[1] = e /\ Entry(s)[2] = p
          BY <5>1 DEF Entry
        <5> QED
          BY <5>2
      <4> QED
        BY <3>2, <4>1, <4>2
    <3>4. Ledger!Settle(p)
      BY <1>2, <2>1, <2>3, <2>4, <2>5, <2>7, <3>1, <3>3 DEF FinishRun, Ledger!Settle, Entry
    <3> QED
      BY <3>4 DEF Ledger!LedgerNext
  <2> QED
    BY <2>6, <2>7
<1> QED
  BY <1>1, <1>2 DEF FinishRun

LEMMA RosterLeaves ==
  ASSUME PayrollInv, RosterStep
  PROVE  Ledger!LedgerNext \/ UNCHANGED Ledger!ledgerVars
<1>1. PICK e \in EmployeeId : SetEmployeeStatus(e) \/ RemoveEmployee(e)
  BY DEF RosterStep
<1>2. employees \in [EmployeeId -> EmployeeStatus \cup {None}]
  BY DEF PayrollInv, DatabaseTypeOK, Table
<1>3. CASE SetEmployeeStatus(e)
  <2>1. employees'[e] # None /\ \A x \in EmployeeId \ {e} : employees'[x] = employees[x]
    BY <1>2, <1>3, NoneAssumption DEF SetEmployeeStatus
  <2> QED
    BY <1>3, <2>1 DEF SetEmployeeStatus, Ledger!ledgerVars
<1>4. CASE RemoveEmployee(e)
  <2>1. employees'[e] = None /\ \A x \in EmployeeId \ {e} : employees'[x] = employees[x]
    BY <1>2, <1>4 DEF RemoveEmployee, DeleteEmployee, Without
  <2>2. payslips' = {s \in payslips : s.employeeId # e} /\ attendancePeriods' = attendancePeriods
    <3>1. \A s \in payslips : s # None
      BY NoneAssumption DEF PayrollInv, DatabaseTypeOK
    <3> QED
      BY <1>4, <3>1 DEF RemoveEmployee, DeleteEmployee
  <2>3. Ledger!Leave(e)
    BY <1>4, <2>1, <2>2 DEF RemoveEmployee, Ledger!Leave
  <2> QED
    BY <2>3 DEF Ledger!LedgerNext
<1> QED
  BY <1>1, <1>3, <1>4

LEMMA StepKeepsLedger ==
  PayrollInv /\ SuccessMeansPaid /\ [PayrollNext]_payrollVars
    => [Ledger!LedgerNext]_Ledger!ledgerVars
<1> SUFFICES ASSUME PayrollInv, SuccessMeansPaid, [PayrollNext]_payrollVars
             PROVE  Ledger!LedgerNext \/ UNCHANGED Ledger!ledgerVars
  OBVIOUS
<1>1. CASE UNCHANGED <<employees, attendancePeriods, payslips>>
  BY <1>1 DEF Ledger!ledgerVars
<1>2. ASSUME NEW r \in PayrollRequest, CreatePayslip(r)
      PROVE  Ledger!LedgerNext \/ UNCHANGED Ledger!ledgerVars
  BY <1>1, <1>2, InsertIssues DEF CreatePayslip
<1>3. ASSUME NEW r \in PayrollRequest, CommitUnacknowledged(r)
      PROVE  Ledger!LedgerNext
  BY <1>3, InsertIssues DEF CommitUnacknowledged
<1> QED
  BY <1>1, <1>2, <1>3, FinishSettles, RosterLeaves
  DEF PayrollNext, RunStep, HandlerStep, FailureStep, ProcessPayroll, LoadEmployees,
      BeginEmployee, CountAttendance, CountOvertime, CountReimbursements,
      GeneratePayslipNumber, TransactionFails, Crash, payrollVars, dbVars

(* Payroll implements the ledger.                                          *)
THEOREM PayrollImplementsLedger == PayrollSpec => KeepsLedger
BY InitOK, PayrollInvInductive, CountsInit, CountsInductive, LedgerInitial,
   StepKeepsLedger, PTL DEF PayrollSpec, KeepsLedger, Ledger!LedgerSpec
=============================================================================
