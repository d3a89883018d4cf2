---------------------------- MODULE Reimbursements ----------------------------
(***************************************************************************)
(* reimbursement.service.ts: an employee submits, changes and withdraws    *)
(* claims, an administrator sets their status.  One step per awaited       *)
(* statement, no transactions: each handler decides on the row as it read  *)
(* it and then writes by id.                                               *)
(***************************************************************************)
EXTENDS Audit, Clock

CONSTANTS ClaimRequest,   \* the calls, each made at most once
          NewClaimId      \* the UUID a submission would be given

VARIABLE claimCall

claimVars == <<dbVars, auditVars, today, claimCall>>

ASSUME NewClaimAssumption ==
  /\ NewClaimId \in [ClaimRequest -> ReimbursementId]
  /\ \A q1, q2 \in ClaimRequest : NewClaimId[q1] = NewClaimId[q2] => q1 = q2
  /\ \A db \in InitialDatabases, q \in ClaimRequest : db.reimbursements[NewClaimId[q]] = None
-----------------------------------------------------------------------------
ClaimInProgress == {"period", "insert", "write", "delete", "status", "audit"}
ClaimEnded      == {"done", "refused", "crashed"}

ClaimCall == [pc: {"idle"} \cup ClaimInProgress \cup ClaimEnded,
              op: {"create", "update", "delete", "status", None},
              claimId: ReimbursementId \cup {None},
              employeeId: EmployeeId \cup {None},
              periodId: PeriodId \cup {None},
              amount: Amount \cup {None},
              status: ReimbursementStatus \cup {None},
              existing: ReimbursementRow \cup {None},   \* as the first query returned it
              written: ReimbursementRow \cup {None}]    \* as the write returned it

IdleClaimCall == [pc |-> "idle", op |-> None, claimId |-> None, employeeId |-> None,
                  periodId |-> None, amount |-> None, status |-> None, existing |-> None,
                  written |-> None]

ClaimInit == claimCall = [q \in ClaimRequest |-> IdleClaimCall]

ClaimTypeOK == claimCall \in [ClaimRequest -> ClaimCall]

ClaimGoto(q, pc) == claimCall' = [claimCall EXCEPT ![q].pc = pc]

(* A call that has ended keeps nothing.                                    *)
ClaimAnswer(how) == [IdleClaimCall EXCEPT !.pc = how]

ClaimEnds(q, how) == claimCall' = [claimCall EXCEPT ![q] = ClaimAnswer(how)]

tablesButClaims == <<employees, attendancePeriods, attendances, overtimes, payslips>>
-----------------------------------------------------------------------------
(* createReimbursement                                                     *)
CreateReimbursement(q) ==
  /\ claimCall[q].pc = "idle"
  /\ \E e \in EmployeeId, p \in PeriodId, amount \in Amount :
       claimCall' = [claimCall EXCEPT ![q] =
         IF employees[e] = "ACTIVE"
         THEN [IdleClaimCall EXCEPT !.op = "create", !.claimId = NewClaimId[q],
                 !.employeeId = e, !.periodId = p, !.amount = amount, !.pc = "period"]
         ELSE ClaimAnswer("refused")]
  /\ UNCHANGED <<dbVars, auditVars, today>>

(* The end date is the midnight its day begins with, and the clock is past *)
(* it all that day.                                                        *)
Submittable(row, amount) ==
  /\ row # None
  /\ row.status = "ACTIVE"
  /\ ~row.payrollProcessed
  /\ amount > 0
  /\ row.startDate <= today /\ today < row.endDate

CheckPeriod(q) ==
  /\ claimCall[q].pc = "period"
  /\ LET row == attendancePeriods[claimCall[q].periodId] IN
     IF Submittable(row, claimCall[q].amount)
     THEN ClaimGoto(q, "insert")
     ELSE ClaimEnds(q, "refused")
  /\ UNCHANGED <<dbVars, auditVars, today>>

NewClaim(q) ==
  [employeeId |-> claimCall[q].employeeId, attendancePeriodId |-> claimCall[q].periodId,
   amount |-> claimCall[q].amount, status |-> "PENDING"]

InsertClaim(q) ==
  /\ claimCall[q].pc = "insert"
  /\ \/ /\ HasParents(NewClaim(q))
        /\ reimbursements' = [reimbursements EXCEPT ![claimCall[q].claimId] = NewClaim(q)]
        /\ claimCall' = [claimCall EXCEPT ![q].pc = "audit", ![q].written = NewClaim(q)]
     \/ /\ ~HasParents(NewClaim(q))
        /\ ClaimEnds(q, "crashed")
        /\ UNCHANGED reimbursements
  /\ UNCHANGED <<tablesButClaims, auditVars, today>>
-----------------------------------------------------------------------------
(* updateReimbursement and deleteReimbursement                             *)

(* Faulty: the period may have been processed.                             *)
Editable_Processed(row) ==
  /\ row # None
  /\ row.status = "PENDING"
  /\ attendancePeriods[row.attendancePeriodId].status = "ACTIVE"

(* A pending claim of an active period not yet processed.                  *)
Editable(row) ==
  /\ row # None
  /\ row.status = "PENDING"
  /\ attendancePeriods[row.attendancePeriodId].status = "ACTIVE"
  /\ ~attendancePeriods[row.attendancePeriodId].payrollProcessed

(* The claim with this id, if it is the caller's.                          *)
OwnClaim(c, e) == IF reimbursements[c] # None /\ reimbursements[c].employeeId = e
                  THEN reimbursements[c] ELSE None

(* The call names a claim and, in an update, an amount or none.            *)
UpdateReimbursement(q) ==
  /\ claimCall[q].pc = "idle"
  /\ \E c \in ReimbursementId, e \in EmployeeId, amount \in Amount \cup {None} :
       claimCall' = [claimCall EXCEPT ![q] =
         IF /\ Editable(OwnClaim(c, e))
            /\ amount = None \/ amount \in {a \in Amount : a > 0}
         THEN [IdleClaimCall EXCEPT !.op = "update", !.claimId = c, !.amount = amount,
                 !.existing = OwnClaim(c, e), !.pc = "write"]
         ELSE ClaimAnswer("refused")]
  /\ UNCHANGED <<dbVars, auditVars, today>>

DeleteReimbursement(q) ==
  /\ claimCall[q].pc = "idle"
  /\ \E c \in ReimbursementId, e \in EmployeeId :
       claimCall' = [claimCall EXCEPT ![q] =
         IF Editable(OwnClaim(c, e))
         THEN [IdleClaimCall EXCEPT !.op = "delete", !.claimId = c,
                 !.existing = OwnClaim(c, e), !.pc = "delete"]
         ELSE ClaimAnswer("refused")]
  /\ UNCHANGED <<dbVars, auditVars, today>>

(* A statement that writes the row of the claim, if it is still there.     *)
WriteRow(q, row) ==
  /\ \/ /\ reimbursements[claimCall[q].claimId] # None
        /\ reimbursements' = [reimbursements EXCEPT ![claimCall[q].claimId] = row]
        /\ claimCall' = [claimCall EXCEPT ![q].pc = "audit", ![q].written = row]
     \/ /\ reimbursements[claimCall[q].claimId] = None
        /\ ClaimEnds(q, "crashed")
        /\ UNCHANGED reimbursements
  /\ UNCHANGED <<tablesButClaims, auditVars, today>>

WriteClaim(q) ==
  /\ claimCall[q].pc = "write"
  /\ WriteRow(q, [reimbursements[claimCall[q].claimId] EXCEPT
                    !.amount = IF claimCall[q].amount = None THEN @ ELSE claimCall[q].amount])

DeleteClaim(q) ==
  /\ claimCall[q].pc = "delete"
  /\ WriteRow(q, None)
-----------------------------------------------------------------------------
(* updateReimbursementStatus: neither the status the claim has nor the     *)
(* period it belongs to is looked at.                                      *)
UpdateReimbursementStatus(q) ==
  /\ claimCall[q].pc = "idle"
  /\ \E c \in ReimbursementId, status \in ReimbursementStatus :
       claimCall' = [claimCall EXCEPT ![q] =
         IF reimbursements[c] # None
         THEN [IdleClaimCall EXCEPT !.op = "status", !.claimId = c, !.status = status,
                 !.existing = reimbursements[c], !.pc = "status"]
         ELSE ClaimAnswer("refused")]
  /\ UNCHANGED <<dbVars, auditVars, today>>

WriteStatus(q) ==
  /\ claimCall[q].pc = "status"
  /\ WriteRow(q, [reimbursements[claimCall[q].claimId] EXCEPT !.status = claimCall[q].status])
-----------------------------------------------------------------------------
ClaimEntry(q) ==
  LET c == claimCall[q]
      Entry(action, old, new) == AuditEntry("reimbursements", c.claimId, action, old, new)
  IN  CASE c.op = "create" -> Entry("CREATE", None, c.written)
        [] c.op = "update" -> Entry("UPDATE", [amount |-> c.existing.amount],
                                    [amount |-> c.written.amount])
        [] c.op = "delete" -> Entry("DELETE", [amount |-> c.existing.amount,
                                               status |-> c.existing.status], None)
        [] c.op = "status" -> Entry("UPDATE", [status |-> c.existing.status],
                                    [status |-> c.status])

AuditClaim(q) ==
  /\ claimCall[q].pc = "audit"
  /\ LogAudit(ClaimEntry(q))
  /\ ClaimEnds(q, "done")
  /\ UNCHANGED <<dbVars, today>>

(* The process dies, or a statement fails.                                 *)
ClaimCrash(q) ==
  /\ claimCall[q].pc \in ClaimInProgress
  /\ ClaimEnds(q, "crashed")
  /\ UNCHANGED <<dbVars, auditVars, today>>
-----------------------------------------------------------------------------
ClaimStart(q) ==
  \/ CreateReimbursement(q)
  \/ UpdateReimbursement(q)
  \/ DeleteReimbursement(q)
  \/ UpdateReimbursementStatus(q)

ClaimStep(q) ==
  \/ CheckPeriod(q)
  \/ InsertClaim(q)
  \/ WriteClaim(q)
  \/ DeleteClaim(q)
  \/ WriteStatus(q)
  \/ AuditClaim(q)
  \/ ClaimCrash(q)

ClaimQuiet == \A q \in ClaimRequest : claimCall[q].pc \notin ClaimInProgress
=============================================================================
