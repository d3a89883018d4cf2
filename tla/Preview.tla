------------------------------- MODULE Preview -------------------------------
(***************************************************************************)
(* payslip.service.ts: an employee previews the payslip of the active      *)
(* period, an administrator those of everybody.  A preview is one part for *)
(* each employee; the parts of a summary run side by side (Promise.all),   *)
(* one step per awaited statement, outside any transaction.  Nothing is    *)
(* written but an audit entry for each part.                               *)
(***************************************************************************)
EXTENDS Audit

CONSTANT PreviewRequest   \* the calls, each made at most once

VARIABLE previewCall      \* the parts of every call

PartInProgress == {"employee", "period", "attendances", "overtimes", "reimbursements", "audit"}
PartEnded      == {"done", "failed"}

Part == [pc: PartInProgress \cup PartEnded,
         found: BOOLEAN,                    \* the employee was there
         periodId: PeriodId \cup {None},
         attendedDays: Nat,
         overtimes: SUBSET (OvertimeId \X Hours),
         reimbursements: SUBSET (ReimbursementId \X Amount)]

FreshPart == [pc |-> "employee", found |-> FALSE, periodId |-> None, attendedDays |-> 0,
              overtimes |-> {}, reimbursements |-> {}]

(* A call not yet made has no record.                                      *)
PreviewInit == previewCall = [q \in PreviewRequest |-> None]

PreviewTypeOK ==
  /\ DOMAIN previewCall = PreviewRequest
  /\ \A q \in PreviewRequest : previewCall[q] # None =>
       \E E \in SUBSET EmployeeId : previewCall[q] \in [E -> Part]

previewVars == <<dbVars, auditVars, previewCall>>
-----------------------------------------------------------------------------
(* generatePayslip for one employee; generatePayslipSummary for those that *)
(* are there when it begins.                                               *)
GeneratePayslip(q) ==
  /\ previewCall[q] = None
  /\ \E e \in EmployeeId : previewCall' = [previewCall EXCEPT ![q] = [x \in {e} |-> FreshPart]]
  /\ UNCHANGED <<dbVars, auditVars>>

GeneratePayslipSummary(q) ==
  /\ previewCall[q] = None
  /\ previewCall' = [previewCall EXCEPT ![q] =
                       [e \in {x \in EmployeeId : employees[x] # None} |-> FreshPart]]
  /\ UNCHANGED <<dbVars, auditVars>>

(* The part of e in the call q is at the statement pc.                     *)
PartAt(q, e, pc) == IF previewCall[q] = None THEN FALSE
                    ELSE e \in DOMAIN previewCall[q] /\ previewCall[q][e].pc = pc

FindEmployee(q, e) ==
  /\ PartAt(q, e, "employee")
  /\ previewCall' = [previewCall EXCEPT ![q][e].pc = "period",
                                        ![q][e].found = employees[e] # None]
  /\ UNCHANGED <<dbVars, auditVars>>

(* Any period that is active and open will do.                             *)
CurrentPeriods == {p \in PeriodId : /\ attendancePeriods[p] # None
                                    /\ attendancePeriods[p].isActive
                                    /\ attendancePeriods[p].status = "ACTIVE"}

FindPeriod(q, e) ==
  /\ PartAt(q, e, "period")
  /\ \/ /\ previewCall[q][e].found
        /\ \E p \in CurrentPeriods :
             previewCall' = [previewCall EXCEPT ![q][e].pc = "attendances", ![q][e].periodId = p]
     \/ /\ ~previewCall[q][e].found \/ CurrentPeriods = {}
        /\ previewCall' = [previewCall EXCEPT ![q][e] = [FreshPart EXCEPT !.pc = "failed"]]
  /\ UNCHANGED <<dbVars, auditVars>>

(* Faulty: what is not approved counts as well.                            *)
Countable_AnyStatus(row, q, e) ==
  row # None /\ row.employeeId = e /\ row.attendancePeriodId = previewCall[q][e].periodId

(* The approved records of the employee in the period.                     *)
Countable(row, q, e) ==
  /\ row # None
  /\ row.employeeId = e
  /\ row.attendancePeriodId = previewCall[q][e].periodId
  /\ row.status = "APPROVED"

FindAttendancesOf(q, e) ==
  /\ PartAt(q, e, "attendances")
  /\ previewCall' = [previewCall EXCEPT ![q][e].pc = "overtimes", ![q][e].attendedDays =
       Cardinality({a \in attendances : /\ a.employeeId = e
                                        /\ a.attendancePeriodId = previewCall[q][e].periodId})]
  /\ UNCHANGED <<dbVars, auditVars>>

FindOvertimesOf(q, e) ==
  /\ PartAt(q, e, "overtimes")
  /\ previewCall' = [previewCall EXCEPT ![q][e].pc = "reimbursements", ![q][e].overtimes =
       {<<o, overtimes[o].hoursWorked>> : o \in {x \in OvertimeId : Countable(overtimes[x], q, e)}}]
  /\ UNCHANGED <<dbVars, auditVars>>

FindReimbursementsOf(q, e) ==
  /\ PartAt(q, e, "reimbursements")
  /\ previewCall' = [previewCall EXCEPT ![q][e].pc = "audit", ![q][e].reimbursements =
       {<<c, reimbursements[c].amount>> :
          c \in {x \in ReimbursementId : Countable(reimbursements[x], q, e)}}]
  /\ UNCHANGED <<dbVars, auditVars>>

(* The entry is that of a payslip under a new UUID.                        *)
AuditPreview(q, e) ==
  /\ PartAt(q, e, "audit")
  /\ LogAudit(AuditEntry("payslips", <<q, e>>, "CREATE", None,
                         [previewCall[q][e] EXCEPT !.pc = "done"]))
  /\ previewCall' = [previewCall EXCEPT ![q][e].pc = "done"]
  /\ UNCHANGED dbVars

(* A statement of a part fails; that fails the call, but the other parts   *)
(* go on.                                                                  *)
PartFails(q, e) ==
  /\ \E pc \in PartInProgress : PartAt(q, e, pc)
  /\ previewCall' = [previewCall EXCEPT ![q][e] = [FreshPart EXCEPT !.pc = "failed"]]
  /\ UNCHANGED <<dbVars, auditVars>>
-----------------------------------------------------------------------------
PreviewStart(q) == GeneratePayslip(q) \/ GeneratePayslipSummary(q)

PreviewStep(q) == \E e \in EmployeeId :
  \/ FindEmployee(q, e)
  \/ FindPeriod(q, e)
  \/ FindAttendancesOf(q, e)
  \/ FindOvertimesOf(q, e)
  \/ FindReimbursementsOf(q, e)
  \/ AuditPreview(q, e)
  \/ PartFails(q, e)

PreviewQuiet == \A q \in PreviewRequest, e \in EmployeeId, pc \in PartInProgress :
                  ~PartAt(q, e, pc)

(* The call has answered: all its parts are done.                          *)
Answered(q) == IF previewCall[q] = None THEN FALSE
               ELSE \A e \in DOMAIN previewCall[q] : previewCall[q][e].pc = "done"
=============================================================================
