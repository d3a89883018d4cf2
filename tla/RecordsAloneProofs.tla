-------------------------- MODULE RecordsAloneProofs --------------------------
(***************************************************************************)
(* Theorems about SerialRecordsSpec, the records when one request is       *)
(* served at a time and nobody leaves: what payslips paid stays as it was  *)
(* paid, a marked period has paid all that was approved, and a preview     *)
(* tells what the payslip will pay.                                        *)
(***************************************************************************)
EXTENDS RecordsProofs

(* What an employee attended and had approved in a period, as the tables   *)
(* say now.                                                                *)
Approved(row, e, p) == /\ row # None
                       /\ row.employeeId = e /\ row.attendancePeriodId = p
                       /\ row.status = "APPROVED"

OvertimesDue(e, p) ==
  {<<o, overtimes[o].hoursWorked>> : o \in {x \in OvertimeId : Approved(overtimes[x], e, p)}}

ClaimsDue(e, p) ==
  {<<c, reimbursements[c].amount>> : c \in {x \in ReimbursementId : Approved(reimbursements[x], e, p)}}
-----------------------------------------------------------------------------
(* Who is being served.                                                    *)

RunsServed      == {r \in PayrollRequest : run[r].pc \in InProgress}
ClaimsServed    == {q \in ClaimRequest : claimCall[q].pc \in ClaimInProgress}
OvertimesServed == {v \in OvertimeRequest : overtimeCall[v].pc \in OvertimeInProgress}

OneServed ==
  /\ \A r, x \in RunsServed : r = x
  /\ \A q, x \in ClaimsServed : q = x
  /\ \A v, x \in OvertimesServed : v = x
  /\ RunsServed # {} => ClaimsServed = {} /\ OvertimesServed = {}

(* What the call at hand found when it began is still so when it writes:   *)
(* the overtime is not approved, the period of the claim not processed.    *)
Decides(c) == \/ c.pc \in {"write", "status", "delete"}
              \/ c.pc = "audit" /\ c.op = "delete"

OvertimeCallHolds(v) ==
  LET c == overtimeCall[v]
      row == overtimes[c.overtimeId]
  IN  /\ c.pc \in Creating \cup {"write", "status"} => c.op # "delete"
      /\ Decides(c) => row = None \/ row.status # "APPROVED"

ClaimCallHolds(q) ==
  LET row == reimbursements[claimCall[q].claimId] IN
  claimCall[q].pc \in {"write", "delete"} => row = None \/ ~IsProcessed(row.attendancePeriodId)

CallsHold == /\ \A v \in OvertimeRequest : OvertimeCallHolds(v)
             /\ \A q \in ClaimRequest : ClaimCallHolds(q)

(* What the run at hand has read, and what it has inserted, is still so.   *)
RunReads(r) ==
  LET e == run[r].calculation.employeeId
      p == run[r].periodId
  IN  /\ run[r].pc \in {"overtime", "reimbursements", "number", "create"} =>
           run[r].calculation.attendedDays = Attended(e, p)
      /\ run[r].pc \in {"reimbursements", "number", "create"} =>
           run[r].calculation.overtimes = OvertimesDue(e, p)
      /\ run[r].pc \in {"number", "create"} =>
           run[r].calculation.reimbursements = ClaimsDue(e, p)

RunInserted(r) ==
  run[r].pc \in InLoop => \A s \in payslips :
    s.attendancePeriodId = run[r].periodId /\ s.employeeId \in run[r].processed =>
      /\ s.overtimes = OvertimesDue(s.employeeId, s.attendancePeriodId)
      /\ s.reimbursements = ClaimsDue(s.employeeId, s.attendancePeriodId)

RunsHold == /\ \A r \in PayrollRequest : RunReads(r) /\ RunInserted(r)
            /\ \A s \in payslips : s.employeeId \in Active

(* What a part of a preview has read is still so.                          *)
PartReads(q, e) ==
  LET part == previewCall[q][e] IN
  /\ part.pc \in {"overtimes", "reimbursements", "audit", "done"} =>
       part.attendedDays = Attended(e, part.periodId)
  /\ part.pc \in {"reimbursements", "audit", "done"} =>
       part.overtimes = OvertimesDue(e, part.periodId)
  /\ part.pc \in {"audit", "done"} => part.reimbursements = ClaimsDue(e, part.periodId)

PreviewsHold == \A q \in current : previewCall[q] # None =>
                  \A e \in DOMAIN previewCall[q] : PartReads(q, e)

SerialRecordsNext == (AllQuiet /\ Arrival) \/ Service
-----------------------------------------------------------------------------
(* The steps, and who is served after them.                                *)

LEMMA SerialCases ==
  ASSUME SerialRecordsNext
  PROVE  /\ RecordsNext /\ TrackPreviews
         /\ \/ /\ \E r \in PayrollRequest : RunStep(r) /\ (AllQuiet \/ run[r].pc \in InProgress)
               /\ UNCHANGED <<auditVars, today, claimCall, overtimeCall, previewCall>>
            \/ /\ \E q \in ClaimRequest : (AllQuiet /\ ClaimStart(q)) \/ ClaimStep(q)
               /\ UNCHANGED <<run, overtimeCall, previewCall>>
            \/ /\ \E v \in OvertimeRequest : (AllQuiet /\ OvertimeStart(v)) \/ OvertimeStep(v)
               /\ UNCHANGED <<run, claimCall, previewCall>>
            \/ /\ \E q \in PreviewRequest : PreviewStart(q) \/ PreviewStep(q)
               /\ UNCHANGED <<today, run, claimCall, overtimeCall>>
<1>1. \A r \in PayrollRequest : HandlerStep(r) \/ FailureStep(r) => run[r].pc \in InProgress
  BY DEF HandlerStep, FailureStep, LoadEmployees, BeginEmployee, CountAttendance, CountOvertime,
     CountReimbursements, GeneratePayslipNumber, CreatePayslip, FinishRun, TransactionFails,
     CommitUnacknowledged, Crash, InProgress, InLoop
<1>2. RecordsNext /\ TrackPreviews
  BY DEF SerialRecordsNext, RecordsNext, Arrival, Service, PayrollArrives, ClaimCallArrives,
     OvertimeCallArrives, PreviewCallArrives, PayrollMoves, ClaimCallMoves, OvertimeCallMoves,
     PreviewCallMoves
<1>3. CASE AllQuiet /\ Arrival
  BY <1>2, <1>3 DEF Arrival, PayrollArrives, ClaimCallArrives, OvertimeCallArrives,
     PreviewCallArrives, RunStep
<1>4. CASE Service
  BY <1>1, <1>2, <1>4 DEF Service, PayrollMoves, ClaimCallMoves, OvertimeCallMoves,
     PreviewCallMoves, RunStep
<1> QED
  BY <1>3, <1>4 DEF SerialRecordsNext

LEMMA OneClaimCallMoves ==
  ASSUME ShapeInv, NEW q \in ClaimRequest, ClaimStart(q) \/ ClaimStep(q),
         NEW x \in ClaimRequest \ {q}
  PROVE  claimCall'[x] = claimCall[x]
BY DEF ShapeInv, ClaimCallsOK, ClaimStart, CreateReimbursement, UpdateReimbursement,
   DeleteReimbursement, UpdateReimbursementStatus, ClaimStep, CheckPeriod, InsertClaim,
   WriteClaim, DeleteClaim, WriteStatus, WriteRow, AuditClaim, ClaimCrash, ClaimGoto, ClaimEnds

LEMMA OneOvertimeCallMoves ==
  ASSUME ShapeInv, NEW v \in OvertimeRequest, OvertimeStart(v) \/ OvertimeStep(v),
         NEW x \in OvertimeRequest \ {v}
  PROVE  overtimeCall'[x] = overtimeCall[x]
<1>1. overtimeCall \in [OvertimeRequest -> OvertimeCall]
  BY DEF ShapeInv, OvertimeCallsOK
<1> QED
  BY <1>1, OvertimeStartOK, OvertimePcs

LEMMA QuietMeansNobody ==
  ASSUME AllQuiet
  PROVE  RunsServed = {} /\ ClaimsServed = {} /\ OvertimesServed = {}
BY DEF AllQuiet, Quiet, ClaimQuiet, OvertimeQuiet, RunsServed, ClaimsServed, OvertimesServed

LEMMA ServedStep ==
  ASSUME ShapeInv, OneServed, SerialRecordsNext
  PROVE  OneServed'
<1>1. CASE /\ \E r \in PayrollRequest : RunStep(r) /\ (AllQuiet \/ run[r].pc \in InProgress)
           /\ UNCHANGED <<claimCall, overtimeCall>>
  <2>1. PICK r \in PayrollRequest : RunStep(r) /\ (AllQuiet \/ run[r].pc \in InProgress)
    BY <1>1
  <2>2. \A x \in PayrollRequest \ {r} : run'[x] = run[x]
    BY <2>1, OnlyOneMoves DEF ShapeInv
  <2>3. RunsServed \subseteq {r}
    BY <2>1, QuietMeansNobody DEF OneServed, RunsServed
  <2>4. ClaimsServed = {} /\ OvertimesServed = {}
    BY <2>1, QuietMeansNobody DEF OneServed, RunsServed
  <2> QED
    BY <1>1, <2>2, <2>3, <2>4 DEF OneServed, RunsServed, ClaimsServed, OvertimesServed
<1>2. CASE /\ \E q \in ClaimRequest : (AllQuiet /\ ClaimStart(q)) \/ ClaimStep(q)
           /\ UNCHANGED <<run, overtimeCall>>
  <2>1. PICK q \in ClaimRequest : (AllQuiet /\ ClaimStart(q)) \/ ClaimStep(q)
    BY <1>2
  <2>2. \A x \in ClaimRequest \ {q} : claimCall'[x] = claimCall[x]
    BY <2>1, OneClaimCallMoves
  <2>3. ClaimsServed \subseteq {q} /\ RunsServed = {}
    BY <2>1, ClaimStepOK, QuietMeansNobody DEF OneServed, ClaimsServed
  <2> QED
    BY <1>2, <2>2, <2>3 DEF OneServed, RunsServed, ClaimsServed, OvertimesServed
<1>3. CASE /\ \E v \in OvertimeRequest : (AllQuiet /\ OvertimeStart(v)) \/ OvertimeStep(v)
           /\ UNCHANGED <<run, claimCall>>
  <2>1. PICK v \in OvertimeRequest : (AllQuiet /\ OvertimeStart(v)) \/ OvertimeStep(v)
    BY <1>3
  <2>2. \A x \in OvertimeRequest \ {v} : overtimeCall'[x] = overtimeCall[x]
    BY <2>1, OneOvertimeCallMoves
  <2>3. OvertimesServed \subseteq {v} /\ RunsServed = {}
    BY <2>1, OvertimeStepOK, QuietMeansNobody DEF OneServed, OvertimesServed
  <2> QED
    BY <1>3, <2>2, <2>3 DEF OneServed, RunsServed, ClaimsServed, OvertimesServed
<1>4. CASE UNCHANGED <<run, claimCall, overtimeCall>>
  BY <1>4 DEF OneServed, RunsServed, ClaimsServed, OvertimesServed
<1> QED
  BY <1>1, <1>2, <1>3, <1>4, SerialCases
-----------------------------------------------------------------------------
(* The calls on overtimes.                                                 *)

(* What a step takes along of the call, and which row it may change.       *)
LEMMA OvertimeMoves ==
  ASSUME ShapeInv, NEW v \in OvertimeRequest, OvertimeStep(v)
  PROVE  /\ overtimeCall'[v].pc \in Creating \cup {"audit"} =>
              /\ overtimeCall[v].pc \in Creating \cup {"write", "status"}
              /\ overtimeCall'[v].op = overtimeCall[v].op
         /\ overtimeCall'[v].pc \notin {"write", "status"}
<1> DEFINE c == overtimeCall[v]
           Result == /\ overtimeCall'[v].pc \in Creating \cup {"audit"} =>
                          /\ c.pc \in Creating \cup {"write", "status"}
                          /\ overtimeCall'[v].op = c.op
                     /\ overtimeCall'[v].pc \notin {"write", "status"}
<1>1. overtimeCall \in [OvertimeRequest -> OvertimeCall] /\ c \in OvertimeCall
  BY DEF ShapeInv, OvertimeCallsOK
<1>2. ASSUME NEW how \in OvertimeEnded, OvertimeEnds(v, how)
      PROVE  Result
  BY <1>1, <1>2 DEF OvertimeEnds, OvertimeAnswer, IdleOvertimeCall, OvertimeEnded, Creating
<1>3. ASSUME NEW pc \in Creating \cup {"delete"}, OvertimeGoto(v, pc),
             pc = "delete" \/ c.pc \in Creating
      PROVE  Result
  BY <1>1, <1>3 DEF OvertimeGoto, OvertimeCall, Creating
<1>4. ASSUME NEW row, WriteAndAudit(v, row), c.pc \in {"write", "status"}
      PROVE  Result
  <2>1. CASE OvertimeEnds(v, "crashed")
    BY <1>2, <2>1 DEF OvertimeEnded
  <2>2. CASE overtimeCall' = [overtimeCall EXCEPT ![v] = [c EXCEPT !.pc = "audit", !.written = row]]
    BY <1>1, <1>4, <2>2 DEF OvertimeCall, Creating
  <2> QED
    BY <1>4, <2>1, <2>2 DEF WriteAndAudit, WriteOvertimeRow
<1>5. CASE FindActivePeriod(v)
  <2>1. ASSUME NEW p, overtimeCall' = [overtimeCall EXCEPT ![v].periodId = p, ![v].pc = "existing"]
        PROVE  Result
    BY <1>1, <1>5, <2>1 DEF FindActivePeriod, OvertimeCall, Creating
  <2> QED
    BY <1>2, <1>5, <2>1 DEF FindActivePeriod, OvertimeEnded
<1>6. CASE FindExistingOvertime(v)
  BY <1>2, <1>3, <1>6 DEF FindExistingOvertime, OvertimeEnded, Creating
<1>7. CASE CheckAttendance(v)
  BY <1>2, <1>3, <1>7 DEF CheckAttendance, OvertimeEnded, Creating
<1>8. CASE InsertOvertime(v)
  <2>1. ASSUME NEW row, overtimeCall' = [overtimeCall EXCEPT ![v].pc = "audit", ![v].written = row]
        PROVE  Result
    BY <1>1, <1>8, <2>1 DEF InsertOvertime, OvertimeCall, Creating
  <2> QED
    BY <1>2, <1>8, <2>1 DEF InsertOvertime, OvertimeEnded
<1>9. CASE WriteOvertime(v)
  BY <1>4, <1>9 DEF WriteOvertime
<1>10. CASE WriteOvertimeStatus(v)
  BY <1>4, <1>10 DEF WriteOvertimeStatus
<1>11. CASE DeleteOvertime(v)
  <2>1. OvertimeEnds(v, "done") \/ OvertimeEnds(v, "crashed")
    BY <1>11 DEF DeleteOvertime, WriteOvertimeRow, OvertimeEnds
  <2> QED
    BY <1>2, <2>1 DEF OvertimeEnded
<1>12. CASE AuditOvertime(v)
  BY <1>2, <1>3, <1>12 DEF AuditOvertime, OvertimeEnded
<1>13. CASE OvertimeCrash(v)
  BY <1>2, <1>13 DEF OvertimeCrash, OvertimeEnded
<1> QED
  BY <1>5, <1>6, <1>7, <1>8, <1>9, <1>10, <1>11, <1>12, <1>13 DEF OvertimeStep

LEMMA OvertimeRows ==
  ASSUME PaidInv, NEW v \in OvertimeRequest, OvertimeStep(v), NEW o \in OvertimeId,
         overtimes[o] # None, overtimes'[o] # overtimes[o]
  PROVE  o = overtimeCall[v].overtimeId /\ overtimeCall[v].pc \in {"write", "status", "delete"}
<1>1. overtimes \in [OvertimeId -> OvertimeRow \cup {None}] /\ ShapeInv
  BY DEF PaidInv, ShapeInv, PayrollInv, DatabaseTypeOK, Table
<1>2. CASE InsertOvertime(v)
  <2>1. o # NewOvertimeId[v]
    BY <1>2 DEF InsertOvertime, PaidInv, OvertimeListsUnknown, OvertimePending, Creating
  <2> QED
    BY <1>1, <1>2, <2>1, InsertOvertimeOK DEF OvertimeNews, OvertimeInserted, dbVars
<1>3. ASSUME NEW row, NEW after, WriteOvertimeRow(v, row, after)
      PROVE  o = overtimeCall[v].overtimeId
  BY <1>1, <1>3 DEF WriteOvertimeRow
<1>4. CASE WriteOvertime(v) \/ WriteOvertimeStatus(v) \/ DeleteOvertime(v)
  BY <1>3, <1>4 DEF WriteOvertime, WriteOvertimeStatus, DeleteOvertime, WriteAndAudit
<1> QED
  BY <1>2, <1>4 DEF OvertimeStep, FindActivePeriod, FindExistingOvertime, CheckAttendance,
     AuditOvertime, OvertimeCrash, dbVars

LEMMA OvertimeStartHolds ==
  ASSUME ShapeInv, NEW v \in OvertimeRequest, OvertimeStart(v)
  PROVE  OvertimeCallHolds(v)'
<1>1. overtimeCall \in [OvertimeRequest -> OvertimeCall]
  BY DEF ShapeInv, OvertimeCallsOK
<1>2. overtimes' = overtimes
  BY OvertimeStartOK DEF dbVars
<1> DEFINE after == overtimeCall'[v]
<1>3. SUFFICES /\ after.pc \in Creating \cup {"write", "status"} => after.op # "delete"
               /\ Decides(after) => \/ overtimes[after.overtimeId] = None
                                    \/ overtimes[after.overtimeId].status # "APPROVED"
  BY <1>2 DEF OvertimeCallHolds, Decides
<1>4. CASE after = OvertimeAnswer("refused")
  BY <1>4 DEF OvertimeAnswer, IdleOvertimeCall, Decides, Creating
<1>5. CASE after # OvertimeAnswer("refused")
  <2>1. CASE CreateOvertime(v)
    <3>1. after.op = "create" /\ after.pc = "period"
      BY <1>1, <1>5, <2>1 DEF CreateOvertime, IdleOvertimeCall
    <3> QED
      BY <3>1 DEF Decides
  <2>2. CASE UpdateOvertime(v)
    <3>1. PICK o \in OvertimeId, e \in EmployeeId :
            /\ Changeable(OwnOvertime(o, e))
            /\ after.op = "update" /\ after.overtimeId = o
      BY <1>1, <1>5, <2>2 DEF UpdateOvertime, IdleOvertimeCall
    <3> QED
      BY <3>1 DEF Changeable, OwnOvertime
  <2>3. CASE RemoveOvertime(v)
    <3>1. PICK o \in OvertimeId, e \in EmployeeId :
            /\ Changeable(OwnOvertime(o, e))
            /\ after.pc = "audit" /\ after.overtimeId = o
      BY <1>1, <1>5, <2>3 DEF RemoveOvertime, IdleOvertimeCall
    <3> QED
      BY <3>1 DEF Changeable, OwnOvertime, Creating
  <2>4. CASE UpdateOvertimeStatus(v)
    <3>1. PICK o \in OvertimeId : /\ Decidable(overtimes[o])
                                  /\ after.op = "status" /\ after.overtimeId = o
      BY <1>1, <1>5, <2>4 DEF UpdateOvertimeStatus, IdleOvertimeCall
    <3> QED
      BY <3>1 DEF Decidable
  <2> QED
    BY <2>1, <2>2, <2>3, <2>4 DEF OvertimeStart
<1> QED
  BY <1>4, <1>5

LEMMA OvertimeStepHolds ==
  ASSUME ShapeInv, NEW v \in OvertimeRequest, OvertimeCallHolds(v), OvertimeStep(v)
  PROVE  OvertimeCallHolds(v)'
<1>1. overtimeCall \in [OvertimeRequest -> OvertimeCall]
  BY DEF ShapeInv, OvertimeCallsOK
<1> DEFINE c == overtimeCall[v]
           after == overtimeCall'[v]
<1>2. after.pc \in Creating \cup {"write", "status", "audit"} => after.op # "delete"
  BY OvertimeMoves DEF OvertimeCallHolds
<1>3. ASSUME after.pc = "delete"
      PROVE  overtimes'[after.overtimeId] = None \/ overtimes'[after.overtimeId].status # "APPROVED"
  <2>1. AuditOvertime(v)
    BY <1>3, OvertimePcs
  <2>2. c.op = "delete" /\ OvertimeGoto(v, "delete")
    <3>1. OvertimeEnds(v, "done") => after.pc = "done"
      BY <1>1 DEF OvertimeEnds, OvertimeAnswer, IdleOvertimeCall
    <3> QED
      BY <1>3, <2>1, <3>1 DEF AuditOvertime
  <2>3. after.overtimeId = c.overtimeId
    BY <1>1, <2>2 DEF OvertimeGoto, OvertimeCall
  <2>4. overtimes' = overtimes /\ c.pc = "audit"
    BY <2>1 DEF AuditOvertime, dbVars
  <2> QED
    BY <2>2, <2>3, <2>4 DEF OvertimeCallHolds, Decides
<1> QED
  BY <1>2, <1>3, OvertimeMoves DEF OvertimeCallHolds, Decides
-----------------------------------------------------------------------------
(* The calls on claims.                                                    *)

(* A claim is written by an update or a removal; a change of status leaves *)
(* its amount.                                                             *)
LEMMA ClaimRows ==
  ASSUME PaidInv, NEW q \in ClaimRequest, ClaimStep(q), NEW c \in ReimbursementId,
         reimbursements[c] # None, reimbursements'[c] # reimbursements[c]
  PROVE  \/ c = claimCall[q].claimId /\ claimCall[q].pc \in {"write", "delete"}
         \/ reimbursements'[c] # None /\ reimbursements'[c].amount = reimbursements[c].amount
<1>1. /\ reimbursements \in [ReimbursementId -> ReimbursementRow \cup {None}]
      /\ ShapeInv /\ ClaimShape(claimCall[q], q)
  BY DEF PaidInv, ShapeInv, PayrollInv, DatabaseTypeOK, Table, ClaimCallsOK
<1>2. CASE InsertClaim(q)
  <2>1. claimCall[q].claimId = NewClaimId[q]
    BY <1>1, <1>2 DEF InsertClaim, ClaimShape
  <2>2. c # NewClaimId[q]
    BY <1>2 DEF InsertClaim, PaidInv, ClaimListsUnknown, ClaimPending
  <2> QED
    BY <1>1, <1>2, <2>1, <2>2 DEF InsertClaim
<1>3. ASSUME NEW row, WriteRow(q, row)
      PROVE  c = claimCall[q].claimId /\ reimbursements'[c] = row
  BY <1>1, <1>3 DEF WriteRow
<1>4. CASE WriteClaim(q) \/ DeleteClaim(q)
  BY <1>3, <1>4 DEF WriteClaim, DeleteClaim
<1>5. CASE WriteStatus(q)
  <2> DEFINE row == [reimbursements[claimCall[q].claimId] EXCEPT !.status = claimCall[q].status]
  <2>1. c = claimCall[q].claimId /\ reimbursements'[c] = row
    BY <1>3, <1>5 DEF WriteStatus
  <2>2. claimCall[q].status \in ReimbursementStatus
    BY <1>1, <1>5 DEF ClaimShape, WriteStatus
  <2>3. row \in ReimbursementRow /\ row.amount = reimbursements[c].amount
    BY <1>1, <2>1, <2>2 DEF ReimbursementRow
  <2> QED
    BY <2>1, <2>3, NoneAssumption
<1> QED
  BY <1>2, <1>4, <1>5 DEF ClaimStep, CheckPeriod, AuditClaim, ClaimCrash, dbVars

LEMMA ClaimStartHolds ==
  ASSUME ShapeInv, NEW q \in ClaimRequest, ClaimStart(q)
  PROVE  ClaimCallHolds(q)'
<1>1. claimCall \in [ClaimRequest -> ClaimCall]
  BY DEF ShapeInv, ClaimCallsOK
<1>2. reimbursements' = reimbursements /\ attendancePeriods' = attendancePeriods
  BY ClaimStartOK DEF dbVars
<1> DEFINE after == claimCall'[q]
<1>3. SUFFICES after.pc \in {"write", "delete"} =>
                 \/ reimbursements[after.claimId] = None
                 \/ ~IsProcessed(reimbursements[after.claimId].attendancePeriodId)
  BY <1>2 DEF ClaimCallHolds, IsProcessed
<1>4. CASE after = ClaimAnswer("refused")
  BY <1>4 DEF ClaimAnswer, IdleClaimCall
<1>5. CASE after # ClaimAnswer("refused") /\ (UpdateReimbursement(q) \/ DeleteReimbursement(q))
  <2>1. PICK c \in ReimbursementId, e \in EmployeeId :
          Editable(OwnClaim(c, e)) /\ after.claimId = c
    <3>1. CASE UpdateReimbursement(q)
      BY <1>1, <1>5, <3>1, ZenonT(30) DEF UpdateReimbursement, IdleClaimCall
    <3>2. CASE DeleteReimbursement(q)
      BY <1>1, <1>5, <3>2, ZenonT(30) DEF DeleteReimbursement, IdleClaimCall
    <3> QED
      BY <1>5, <3>1, <3>2
  <2> QED
    BY <2>1 DEF Editable, OwnClaim, IsProcessed
<1>6. CASE after # ClaimAnswer("refused") /\ (CreateReimbursement(q) \/ UpdateReimbursementStatus(q))
  <2>1. after.pc \in {"period", "status"}
    <3>1. CASE CreateReimbursement(q)
      BY <1>1, <1>6, <3>1 DEF CreateReimbursement, IdleClaimCall
    <3>2. CASE UpdateReimbursementStatus(q)
      BY <1>1, <1>6, <3>2 DEF UpdateReimbursementStatus, IdleClaimCall
    <3> QED
      BY <1>6, <3>1, <3>2
  <2> QED
    BY <2>1
<1> QED
  BY <1>4, <1>5, <1>6 DEF ClaimStart

LEMMA ClaimStepHolds ==
  ASSUME ShapeInv, NEW q \in ClaimRequest, ClaimStep(q)
  PROVE  ClaimCallHolds(q)'
<1>1. claimCall \in [ClaimRequest -> ClaimCall]
  BY DEF ShapeInv, ClaimCallsOK
<1>2. claimCall'[q].pc \notin {"write", "delete"}
  BY <1>1 DEF ClaimStep, CheckPeriod, InsertClaim, WriteClaim, DeleteClaim, WriteStatus, WriteRow,
     AuditClaim, ClaimCrash, ClaimGoto, ClaimEnds, ClaimAnswer, IdleClaimCall, ClaimCall
<1> QED
  BY <1>2 DEF ClaimCallHolds
-----------------------------------------------------------------------------
(* What the calls found stays so: a call that is not served decides        *)
(* nothing, and while one is served no run marks its period.               *)

LEMMA CallsStay ==
  ASSUME CallsHold, UNCHANGED <<attendancePeriods, overtimes, reimbursements, claimCall, overtimeCall>>
  PROVE  CallsHold'
BY DEF CallsHold, OvertimeCallHolds, Decides, ClaimCallHolds, IsProcessed

UnservedHold == /\ \A v \in OvertimeRequest \ OvertimesServed : OvertimeCallHolds(v)
                /\ \A q \in ClaimRequest \ ClaimsServed : ClaimCallHolds(q)

LEMMA UnservedHoldNext == UnservedHold'
<1>1. UnservedHold
  BY DEF OvertimesServed, ClaimsServed, OvertimeInProgress, ClaimInProgress, OvertimeCallHolds,
     ClaimCallHolds, Decides, Creating, UnservedHold
<1> QED
  BY <1>1, PTL

LEMMA CallsHoldStep ==
  ASSUME PaidInv, OneServed, CallsHold, SerialRecordsNext
  PROVE  CallsHold'
<1>1. ShapeInv /\ PayrollInv
  BY DEF PaidInv, ShapeInv
<1>2. CASE /\ \E r \in PayrollRequest : RunStep(r) /\ (AllQuiet \/ run[r].pc \in InProgress)
           /\ UNCHANGED <<claimCall, overtimeCall>>
  <2>1. ClaimsServed = {} /\ OvertimesServed = {}
    BY <1>2, QuietMeansNobody DEF OneServed, RunsServed
  <2>2. ClaimsServed' = {} /\ OvertimesServed' = {}
    BY <1>2, <2>1 DEF ClaimsServed, OvertimesServed
  <2> QED
    BY <2>2, UnservedHoldNext DEF UnservedHold, CallsHold
<1>3. CASE /\ \E q \in ClaimRequest : (AllQuiet /\ ClaimStart(q)) \/ ClaimStep(q)
           /\ UNCHANGED overtimeCall
  <2>1. PICK q \in ClaimRequest : (AllQuiet /\ ClaimStart(q)) \/ ClaimStep(q)
    BY <1>3
  <2>2. ClaimCallHolds(q)'
    BY <1>1, <2>1, ClaimStartHolds, ClaimStepHolds
  <2>3. ASSUME NEW x \in ClaimRequest \ {q}
        PROVE  x \notin ClaimsServed'
    <3>1. x \notin ClaimsServed
      BY <1>1, <2>1, <2>3, ClaimStepOK, QuietMeansNobody DEF OneServed, ClaimsServed
    <3> QED
      BY <1>1, <2>1, <3>1, OneClaimCallMoves DEF ClaimsServed
  <2>4. overtimes' = overtimes
    BY <1>1, <2>1, ClaimStartOK, ClaimStepOK
    DEF dbVars, ClaimsRewritten, ClaimNews, ClaimInserted, tablesButClaims
  <2> QED
    BY <1>3, <2>2, <2>3, <2>4, UnservedHoldNext DEF UnservedHold, CallsHold, OvertimeCallHolds, Decides
<1>4. CASE /\ \E v \in OvertimeRequest : (AllQuiet /\ OvertimeStart(v)) \/ OvertimeStep(v)
           /\ UNCHANGED claimCall
  <2>1. PICK v \in OvertimeRequest : (AllQuiet /\ OvertimeStart(v)) \/ OvertimeStep(v)
    BY <1>4
  <2>2. OvertimeCallHolds(v)'
    BY <1>1, <2>1, OvertimeStartHolds, OvertimeStepHolds DEF CallsHold
  <2>3. ASSUME NEW x \in OvertimeRequest \ {v}
        PROVE  x \notin OvertimesServed'
    <3>1. x \notin OvertimesServed
      BY <1>1, <2>1, <2>3, OvertimeStepOK, QuietMeansNobody DEF OneServed, OvertimesServed
    <3> QED
      BY <1>1, <2>1, <3>1, OneOvertimeCallMoves DEF OvertimesServed
  <2>4. reimbursements' = reimbursements /\ attendancePeriods' = attendancePeriods
    BY <1>1, <2>1, OvertimeStartOK, OvertimeStepOK
    DEF dbVars, OvertimesRewritten, OvertimeNews, OvertimeInserted, tablesButOvertimes
  <2> QED
    BY <1>4, <2>2, <2>3, <2>4, UnservedHoldNext DEF UnservedHold, CallsHold, ClaimCallHolds, IsProcessed
<1>5. CASE /\ \E q \in PreviewRequest : PreviewStart(q) \/ PreviewStep(q)
           /\ UNCHANGED <<claimCall, overtimeCall>>
  <2>1. UNCHANGED dbVars
    BY <1>1, <1>5, PreviewOK
  <2> QED
    BY <1>5, <2>1, CallsStay DEF dbVars
<1> QED
  BY <1>2, <1>3, <1>4, <1>5, SerialCases
-----------------------------------------------------------------------------
(* The runs.                                                               *)

LEMMA DueStays ==
  ASSUME UNCHANGED <<attendances, overtimes, reimbursements>>, NEW e, NEW p
  PROVE  /\ Attended(e, p)' = Attended(e, p)
         /\ OvertimesDue(e, p)' = OvertimesDue(e, p)
         /\ ClaimsDue(e, p)' = ClaimsDue(e, p)
BY DEF Attended, OvertimesDue, ClaimsDue, Approved

LEMMA RunReadsStep ==
  ASSUME PayrollInv, NEW r \in PayrollRequest, RunReads(r), RunStep(r)
  PROVE  RunReads(r)'
<1>1. /\ run \in [PayrollRequest -> RunRow] /\ run[r] \in RunRow
      /\ HasCalculation(r) => run[r].calculation \in Calculation
      /\ UNCHANGED <<attendances, overtimes, reimbursements>>
  BY RunCalculates DEF PayrollInv, RunsOK, RunShape, HasCalculation
<1> DEFINE c == run[r].calculation
           e == c.employeeId
           p == run[r].periodId
           after == run'[r]
           x == after.calculation
<1>2. SUFFICES
        /\ after.pc \in {"overtime", "reimbursements", "number", "create"} =>
             x.attendedDays = Attended(x.employeeId, after.periodId)
        /\ after.pc \in {"reimbursements", "number", "create"} =>
             x.overtimes = OvertimesDue(x.employeeId, after.periodId)
        /\ after.pc \in {"number", "create"} =>
             x.reimbursements = ClaimsDue(x.employeeId, after.periodId)
  BY <1>1 DEF RunReads, Attended, OvertimesDue, ClaimsDue, Approved
<1>3. CASE \/ ProcessPayroll(r) \/ LoadEmployees(r) \/ CreatePayslip(r) \/ FinishRun(r)
           \/ TransactionFails(r) \/ CommitUnacknowledged(r) \/ Crash(r)
  BY <1>3, NothingCalculated DEF InLoop
<1>4. CASE BeginEmployee(r)
  <2>1. after.pc \in {"next", "attendance"}
    BY <1>1, <1>4 DEF BeginEmployee, EndTurn, RunRow
  <2> QED
    BY <2>1
<1>5. CASE CountAttendance(r)
  <2>1. /\ after.pc = "overtime" /\ after.periodId = p
        /\ x.employeeId = e /\ x.attendedDays = Attended(e, p)
    <3>1. HasCalculation(r)
      BY <1>5 DEF CountAttendance, HasCalculation, InLoop
    <3>2. PICK days : /\ days = Attended(e, p)
                      /\ run' = [run EXCEPT ![r].pc = "overtime", ![r].calculation.attendedDays = days]
      BY <1>5, CountsAttended
    <3> QED
      BY <1>1, <3>1, <3>2 DEF RunRow, Calculation
  <2> QED
    BY <2>1
<1>6. CASE CountOvertime(r)
  <2>1. run[r].pc = "overtime" /\ HasCalculation(r)
    BY <1>6 DEF CountOvertime, HasCalculation, InLoop
  <2>2. /\ after.pc = "reimbursements" /\ after.periodId = p
        /\ x.employeeId = e /\ x.attendedDays = c.attendedDays
        /\ x.overtimes = {<<o, overtimes[o].hoursWorked>> : o \in ApprovedOvertimes(r)}
    BY <1>1, <1>6, <2>1 DEF CountOvertime, RunRow, Calculation
  <2>3. x.overtimes = OvertimesDue(e, p)
    BY <2>2 DEF OvertimesDue, Approved, ApprovedOvertimes, Concerns
  <2> QED
    BY <2>1, <2>2, <2>3 DEF RunReads
<1>7. CASE CountReimbursements(r)
  <2>1. run[r].pc = "reimbursements" /\ HasCalculation(r)
    BY <1>7 DEF CountReimbursements, HasCalculation, InLoop
  <2>2. /\ after.pc = "number" /\ after.periodId = p
        /\ x.employeeId = e /\ x.attendedDays = c.attendedDays /\ x.overtimes = c.overtimes
        /\ x.reimbursements = {<<k, reimbursements[k].amount>> : k \in ApprovedClaims(r)}
    BY <1>1, <1>7, <2>1 DEF CountReimbursements, RunRow, Calculation
  <2>3. x.reimbursements = ClaimsDue(e, p)
    BY <2>2 DEF ClaimsDue, Approved, ApprovedClaims, Concerns
  <2> QED
    BY <2>1, <2>2, <2>3 DEF RunReads
<1>8. CASE GeneratePayslipNumber(r)
  <2>1. run[r].pc = "number" /\ HasCalculation(r)
    BY <1>8 DEF GeneratePayslipNumber, HasCalculation, InLoop
  <2>2. /\ after.periodId = p
        /\ x.employeeId = e /\ x.attendedDays = c.attendedDays /\ x.overtimes = c.overtimes
        /\ x.reimbursements = c.reimbursements
    BY <1>1, <1>8, <2>1 DEF GeneratePayslipNumber, RunRow, Calculation
  <2> QED
    BY <2>1, <2>2 DEF RunReads
<1> QED
  BY <1>3, <1>4, <1>5, <1>6, <1>7, <1>8 DEF RunStep, HandlerStep, FailureStep

(* A payslip is inserted as the tables say.                                *)
LEMMA InsertedPays ==
  ASSUME PayrollInv, NEW r \in PayrollRequest, RunReads(r), RunStep(r), NEW s \in payslips' \ payslips
  PROVE  /\ s.employeeId = run[r].calculation.employeeId /\ s.attendancePeriodId = run[r].periodId
         /\ run[r].pc \in InLoop \ {"next"} /\ ~Paid(s.employeeId, s.attendancePeriodId)
         /\ s.attendedDays = Attended(s.employeeId, s.attendancePeriodId)
         /\ s.overtimes = OvertimesDue(s.employeeId, s.attendancePeriodId)
         /\ s.reimbursements = ClaimsDue(s.employeeId, s.attendancePeriodId)
<1>1. /\ CreatePayslip(r) \/ CommitUnacknowledged(r)
      /\ Insertable(r) /\ s = NewPayslip(r)
  BY DEF RunStep, HandlerStep, FailureStep, ProcessPayroll, LoadEmployees,
     BeginEmployee, CountAttendance, CountOvertime, CountReimbursements,
     GeneratePayslipNumber, CreatePayslip, FinishRun, TransactionFails,
     CommitUnacknowledged, Crash, dbVars
<1>2. run[r].pc = "create"
  BY <1>1 DEF CreatePayslip, CommitUnacknowledged
<1>3. /\ s.employeeId = run[r].calculation.employeeId /\ s.attendancePeriodId = run[r].periodId
      /\ s.attendedDays = run[r].calculation.attendedDays
      /\ s.overtimes = run[r].calculation.overtimes
      /\ s.reimbursements = run[r].calculation.reimbursements
  BY <1>1 DEF NewPayslip
<1>4. ~Paid(s.employeeId, s.attendancePeriodId)
  BY <1>1 DEF Insertable, ConflictsWith, Paid
<1> QED
  BY <1>2, <1>3, <1>4 DEF RunReads, InLoop

(* Nobody is counted of whom there was a payslip before.                   *)
LEMMA CountedAnew ==
  ASSUME PayrollInv, NEW r \in PayrollRequest, RunStep(r), run'[r].pc \in InLoop,
         NEW s \in payslips, s.employeeId \in run'[r].processed,
         s.attendancePeriodId = run'[r].periodId
  PROVE  /\ s.employeeId \in run[r].processed /\ s.attendancePeriodId = run[r].periodId
         /\ run[r].pc \in InLoop
<1>1. CASE ProcessedKept
  <2>1. s.employeeId \in run[r].processed /\ s.attendancePeriodId = run[r].periodId
    BY <1>1 DEF ProcessedKept
  <2>2. RunShape(run[r]) /\ run[r] \in RunRow
    BY DEF PayrollInv, RunsOK
  <2>3. run[r].pc \in InLoop \cup Ended
    BY <2>1, <2>2 DEF RunShape, RunRow, InProgress
  <2>4. run[r].pc \notin Ended
    BY DEF RunStep, HandlerStep, FailureStep, ProcessPayroll, LoadEmployees, BeginEmployee,
       CountAttendance, CountOvertime, CountReimbursements, GeneratePayslipNumber, CreatePayslip,
       FinishRun, TransactionFails, CommitUnacknowledged, Crash, InProgress, InLoop, Ended
  <2> QED
    BY <2>1, <2>3, <2>4
<1>2. CASE CreatePayslip(r) /\ \E e \in run[r].todo : OnePaid(r, e)
  BY <1>2 DEF OnePaid, Paid, CreatePayslip, InLoop
<1> QED
  BY <1>1, <1>2, CreatePayslipEffect, OthersCountNobody

LEMMA RunsHoldRun ==
  ASSUME PayrollInv, ListsRoster, RunsHold, NEW r \in PayrollRequest, RunStep(r), RunsServed \subseteq {r}
  PROVE  RunsHold'
<1>1. /\ \A x \in PayrollRequest \ {r} : run'[x] = run[x]
      /\ UNCHANGED <<employees, attendances, overtimes, reimbursements>>
      /\ RunReads(r) /\ RunInserted(r)
  BY RunCalculates DEF RunsHold
<1>2. \A x \in PayrollRequest \ {r} : RunReads(x)' /\ RunInserted(x)'
  BY <1>1 DEF RunsServed, RunReads, RunInserted, InProgress, InLoop
<1>3. RunReads(r)'
  BY <1>1, RunReadsStep
<1>4. RunInserted(r)'
  <2> SUFFICES ASSUME run'[r].pc \in InLoop, NEW s \in payslips',
                      s.attendancePeriodId = run'[r].periodId, s.employeeId \in run'[r].processed
               PROVE  /\ s.overtimes = OvertimesDue(s.employeeId, s.attendancePeriodId)
                      /\ s.reimbursements = ClaimsDue(s.employeeId, s.attendancePeriodId)
    BY <1>1 DEF RunInserted, OvertimesDue, ClaimsDue, Approved
  <2>1. CASE s \in payslips
    BY <1>1, <2>1, CountedAnew DEF RunInserted
  <2> QED
    BY <1>1, <2>1, InsertedPays
<1>5. ASSUME NEW s \in payslips'
      PROVE  s.employeeId \in Active
  <2>1. CASE s \notin payslips
    BY <1>1, <2>1, InsertedPays DEF PayrollInv, RunsOK, RunShape, ListsRoster
  <2> QED
    BY <2>1 DEF RunsHold
<1>6. Active' = Active
  BY <1>1 DEF Active
<1> QED
  BY <1>2, <1>3, <1>4, <1>5, <1>6 DEF RunsHold

(* While no run is served the others are of no concern to it.              *)
LEMMA RunsHoldIdle ==
  ASSUME RunsHold, RunsServed = {}, UNCHANGED <<run, employees, payslips>>
  PROVE  RunsHold'
<1>1. \A r \in PayrollRequest : RunReads(r)' /\ RunInserted(r)'
  BY DEF RunsServed, RunReads, RunInserted, InProgress, InLoop
<1> QED
  BY <1>1 DEF RunsHold, Active

LEMMA RunsHoldQuietly ==
  ASSUME RunsHold, UNCHANGED <<run, dbVars>>
  PROVE  RunsHold'
BY DEF dbVars, RunsHold, RunReads, RunInserted, Active, Attended, OvertimesDue, ClaimsDue, Approved
-----------------------------------------------------------------------------
(* The steps again, with the tables each leaves alone.                     *)

LEMMA SerialTables ==
  ASSUME ShapeInv, OneServed, SerialRecordsNext
  PROVE  \/ /\ \E r \in PayrollRequest : RunStep(r) /\ RunsServed \subseteq {r}
            /\ UNCHANGED previewCall
         \/ /\ \E q \in ClaimRequest : ClaimStart(q) \/ ClaimStep(q)
            /\ RunsServed = {}
            /\ UNCHANGED <<run, previewCall, employees, attendancePeriods, attendances,
                           overtimes, payslips>>
         \/ /\ \E v \in OvertimeRequest : OvertimeStart(v) \/ OvertimeStep(v)
            /\ RunsServed = {}
            /\ UNCHANGED <<run, previewCall, employees, attendancePeriods, attendances,
                           reimbursements, payslips>>
         \/ /\ \E q \in PreviewRequest : PreviewStart(q) \/ PreviewStep(q)
            /\ UNCHANGED <<dbVars, run>>
<1>1. CASE /\ \E r \in PayrollRequest : RunStep(r) /\ (AllQuiet \/ run[r].pc \in InProgress)
           /\ UNCHANGED previewCall
  <2>1. PICK r \in PayrollRequest : RunStep(r) /\ (AllQuiet \/ run[r].pc \in InProgress)
    BY <1>1
  <2>2. RunsServed \subseteq {r}
    BY <2>1, QuietMeansNobody DEF OneServed, RunsServed
  <2> QED
    BY <1>1, <2>1, <2>2
<1>2. CASE /\ \E q \in ClaimRequest : (AllQuiet /\ ClaimStart(q)) \/ ClaimStep(q)
           /\ UNCHANGED <<run, previewCall>>
  <2>1. PICK q \in ClaimRequest : (AllQuiet /\ ClaimStart(q)) \/ ClaimStep(q)
    BY <1>2
  <2>2. RunsServed = {}
    BY <2>1, ClaimStepOK, QuietMeansNobody DEF OneServed, ClaimsServed
  <2>3. UNCHANGED dbVars \/ ClaimsRewritten \/ ClaimNews(q)
    BY <2>1, ClaimStartOK, ClaimStepOK
  <2>4. UNCHANGED <<employees, attendancePeriods, attendances, overtimes, payslips>>
    BY <2>3 DEF dbVars, ClaimsRewritten, ClaimNews, ClaimInserted, tablesButClaims
  <2> QED
    BY <1>2, <2>1, <2>2, <2>4
<1>3. CASE /\ \E v \in OvertimeRequest : (AllQuiet /\ OvertimeStart(v)) \/ OvertimeStep(v)
           /\ UNCHANGED <<run, previewCall>>
  <2>1. PICK v \in OvertimeRequest : (AllQuiet /\ OvertimeStart(v)) \/ OvertimeStep(v)
    BY <1>3
  <2>2. RunsServed = {}
    BY <2>1, OvertimeStepOK, QuietMeansNobody DEF OneServed, OvertimesServed
  <2>3. UNCHANGED dbVars \/ OvertimesRewritten \/ OvertimeNews(v)
    BY <2>1, OvertimeStartOK, OvertimeStepOK
  <2>4. UNCHANGED <<employees, attendancePeriods, attendances, reimbursements, payslips>>
    BY <2>3 DEF dbVars, OvertimesRewritten, OvertimeNews, OvertimeInserted, tablesButOvertimes
  <2> QED
    BY <1>3, <2>1, <2>2, <2>4
<1>4. CASE /\ \E q \in PreviewRequest : PreviewStart(q) \/ PreviewStep(q)
           /\ UNCHANGED run
  BY <1>4, PreviewOK
<1> QED
  BY <1>1, <1>2, <1>3, <1>4, SerialCases

LEMMA RunsHoldStep ==
  ASSUME ShapeInv, StableInv, OneServed, RunsHold, SerialRecordsNext
  PROVE  RunsHold'
<1>1. CASE \E r \in PayrollRequest : RunStep(r) /\ RunsServed \subseteq {r}
  BY <1>1, RunsHoldRun DEF StableInv
<1>2. CASE RunsServed = {} /\ UNCHANGED <<run, employees, payslips>>
  BY <1>2, RunsHoldIdle
<1> QED
  BY <1>1, <1>2, SerialTables, RunsHoldQuietly

(* The roster and the marks, as in StableSpec.                             *)
LEMMA StableStays ==
  ASSUME StableInv, PayrollInv', UNCHANGED <<run, employees, attendancePeriods, payslips>>
  PROVE  StableInv'
BY DEF StableInv, SuccessMeansPaid, RunsShareNobody, ProcessedMeansPaid, ListsRoster, Active, Paid

LEMMA StableStep ==
  ASSUME ShapeInv, StableInv, OneServed, SerialRecordsNext
  PROVE  StableInv'
<1>1. PayrollInv'
  BY ShapeStep, SerialCases DEF ShapeInv
<1>2. CASE \E r \in PayrollRequest : RunStep(r)
  BY <1>2, StableInductive DEF StableNext
<1>3. CASE UNCHANGED <<dbVars, run>>
  BY <1>1, <1>3, StableStays DEF dbVars
<1> QED
  BY <1>1, <1>2, <1>3, SerialTables, StableStays
-----------------------------------------------------------------------------
(* The previews.                                                           *)

PartStep(q, e) == \/ FindEmployee(q, e)      \/ FindPeriod(q, e)
                  \/ FindAttendancesOf(q, e) \/ FindOvertimesOf(q, e)
                  \/ FindReimbursementsOf(q, e)
                  \/ AuditPreview(q, e)      \/ PartFails(q, e)

LEMMA PartStepShape ==
  ASSUME PreviewTypeOK, NEW q \in PreviewRequest, NEW e \in EmployeeId, PartStep(q, e)
  PROVE  /\ previewCall[q] # None /\ e \in DOMAIN previewCall[q] /\ previewCall[q][e] \in Part
         /\ UNCHANGED dbVars
         /\ DOMAIN previewCall'[q] = DOMAIN previewCall[q]
         /\ \A x \in DOMAIN previewCall[q] \ {e} : previewCall'[q][x] = previewCall[q][x]
         /\ \A y \in PreviewRequest \ {q} : previewCall'[y] = previewCall[y]
<1>1. previewCall[q] # None /\ e \in DOMAIN previewCall[q] /\ UNCHANGED dbVars
  BY DEF PartStep, PartAt, FindEmployee, FindPeriod, FindAttendancesOf, FindOvertimesOf,
     FindReimbursementsOf, AuditPreview, PartFails
<1>2. PICK E \in SUBSET EmployeeId : previewCall[q] \in [E -> Part]
  BY <1>1 DEF PreviewTypeOK
<1>3. PICK part : previewCall' = [previewCall EXCEPT ![q][e] = part]
  BY SMTT(30) DEF PartStep, FindEmployee, FindPeriod, FindAttendancesOf, FindOvertimesOf,
     FindReimbursementsOf, AuditPreview, PartFails
<1> QED
  BY <1>1, <1>2, <1>3 DEF PreviewTypeOK

LEMMA PartMoves ==
  ASSUME PreviewTypeOK, NEW q \in PreviewRequest, NEW e \in EmployeeId, PartStep(q, e), PartReads(q, e)
  PROVE  PartReads(q, e)'
<1> DEFINE old == previewCall[q][e]
           new == previewCall'[q][e]
<1>1. /\ previewCall[q] # None /\ e \in DOMAIN previewCall[q] /\ old \in Part
      /\ q \in DOMAIN previewCall
      /\ UNCHANGED <<attendances, overtimes, reimbursements>>
  BY PartStepShape DEF PreviewTypeOK, dbVars
<1>2. SUFFICES
        /\ new.pc \in {"overtimes", "reimbursements", "audit", "done"} =>
             new.attendedDays = Attended(e, new.periodId)
        /\ new.pc \in {"reimbursements", "audit", "done"} =>
             new.overtimes = OvertimesDue(e, new.periodId)
        /\ new.pc \in {"audit", "done"} => new.reimbursements = ClaimsDue(e, new.periodId)
  BY <1>1 DEF PartReads, Attended, OvertimesDue, ClaimsDue, Approved
<1>3. CASE FindEmployee(q, e) \/ FindPeriod(q, e) \/ PartFails(q, e)
  <2>1. new.pc \in {"period", "attendances", "failed"}
    <3>1. FindEmployee(q, e) => new.pc = "period"
      BY <1>1 DEF FindEmployee, Part
    <3>2. FindPeriod(q, e) => new.pc \in {"attendances", "failed"}
      <4>1. \A p \in PeriodId :
              previewCall' = [previewCall EXCEPT ![q][e].pc = "attendances", ![q][e].periodId = p]
                => new.pc = "attendances"
        BY <1>1 DEF Part
      <4>2. previewCall' = [previewCall EXCEPT ![q][e] = [FreshPart EXCEPT !.pc = "failed"]]
              => new.pc = "failed"
        BY <1>1 DEF FreshPart
      <4> HIDE DEF new
      <4> QED
        BY <4>1, <4>2 DEF FindPeriod, CurrentPeriods
    <3>3. PartFails(q, e) => new.pc = "failed"
      BY <1>1 DEF PartFails, FreshPart
    <3> QED
      BY <1>3, <3>1, <3>2, <3>3
  <2> QED
    BY <2>1
<1>4. CASE FindAttendancesOf(q, e)
  <2>1. PICK days : /\ days = Attended(e, old.periodId)
                    /\ previewCall' = [previewCall EXCEPT ![q][e].pc = "overtimes",
                                                          ![q][e].attendedDays = days]
    BY <1>4 DEF FindAttendancesOf, Attended
  <2>2. new.pc = "overtimes" /\ new.attendedDays = days /\ new.periodId = old.periodId
    BY <1>1, <2>1 DEF Part
  <2> QED
    BY <2>1, <2>2
<1>5. CASE FindOvertimesOf(q, e)
  <2>1. /\ new.pc = "reimbursements" /\ new.periodId = old.periodId
        /\ new.attendedDays = old.attendedDays
        /\ new.overtimes = {<<o, overtimes[o].hoursWorked>> :
                              o \in {x \in OvertimeId : Countable(overtimes[x], q, e)}}
    BY <1>1, <1>5 DEF FindOvertimesOf, Part
  <2>2. new.overtimes = OvertimesDue(e, old.periodId)
    BY <2>1 DEF OvertimesDue, Approved, Countable
  <2>3. old.pc = "overtimes"
    BY <1>1, <1>5 DEF FindOvertimesOf, PartAt
  <2> QED
    BY <2>1, <2>2, <2>3 DEF PartReads
<1>6. CASE FindReimbursementsOf(q, e)
  <2>1. /\ new.pc = "audit" /\ new.periodId = old.periodId
        /\ new.attendedDays = old.attendedDays /\ new.overtimes = old.overtimes
        /\ new.reimbursements = {<<c, reimbursements[c].amount>> :
                                   c \in {x \in ReimbursementId : Countable(reimbursements[x], q, e)}}
    BY <1>1, <1>6 DEF FindReimbursementsOf, Part
  <2>2. new.reimbursements = ClaimsDue(e, old.periodId)
    BY <2>1 DEF ClaimsDue, Approved, Countable
  <2>3. old.pc = "reimbursements"
    BY <1>1, <1>6 DEF FindReimbursementsOf, PartAt
  <2> QED
    BY <2>1, <2>2, <2>3 DEF PartReads
<1>7. CASE AuditPreview(q, e)
  <2>1. /\ new.pc = "done" /\ new.periodId = old.periodId
        /\ new.attendedDays = old.attendedDays /\ new.overtimes = old.overtimes
        /\ new.reimbursements = old.reimbursements
    BY <1>1, <1>7 DEF AuditPreview, Part
  <2>2. old.pc = "audit"
    BY <1>1, <1>7 DEF AuditPreview, PartAt
  <2> QED
    BY <2>1, <2>2 DEF PartReads
<1> QED
  BY <1>3, <1>4, <1>5, <1>6, <1>7 DEF PartStep

LEMMA PartStays ==
  ASSUME UNCHANGED <<attendances, overtimes, reimbursements>>, NEW q, NEW e, PartReads(q, e),
         previewCall'[q][e] = previewCall[q][e]
  PROVE  PartReads(q, e)'
<1> DEFINE part == previewCall[q][e]
<1>1. PICK p : p = part.periodId
  OBVIOUS
<1> QED
  BY <1>1, DueStays DEF PartReads

(* A call that begins has read nothing.                                    *)
LEMMA PreviewBegins ==
  ASSUME PreviewTypeOK, NEW q \in PreviewRequest, PreviewStart(q)
  PROVE  /\ previewCall[q] = None /\ UNCHANGED dbVars
         /\ \A e \in DOMAIN previewCall'[q] : PartReads(q, e)'
         /\ \A y \in PreviewRequest \ {q} : previewCall'[y] = previewCall[y]
<1>1. PICK E \in SUBSET EmployeeId :
        previewCall' = [previewCall EXCEPT ![q] = [e \in E |-> FreshPart]]
  <2>1. CASE GeneratePayslip(q)
    BY <2>1 DEF GeneratePayslip
  <2>2. CASE GeneratePayslipSummary(q)
    BY <2>2 DEF GeneratePayslipSummary
  <2> QED
    BY <2>1, <2>2 DEF PreviewStart
<1>2. \A e \in DOMAIN previewCall'[q] : previewCall'[q][e].pc = "employee"
  BY <1>1 DEF PreviewTypeOK, FreshPart
<1> QED
  BY <1>1, <1>2 DEF PreviewStart, GeneratePayslip, GeneratePayslipSummary, PreviewTypeOK, PartReads

LEMMA PreviewsHoldStep ==
  ASSUME ShapeInv, OneServed, PreviewsHold, SerialRecordsNext
  PROVE  PreviewsHold'
<1>1. PreviewTypeOK /\ TrackPreviews /\ current \subseteq PreviewRequest
  BY SerialCases DEF ShapeInv, PreviewsOK
<1>2. CASE ~(UNCHANGED <<attendances, overtimes, reimbursements>>)
  BY <1>1, <1>2 DEF TrackPreviews, PreviewsHold
<1>3. CASE UNCHANGED <<attendances, overtimes, reimbursements, previewCall>>
  <2>1. current' = current
    BY <1>1, <1>3 DEF TrackPreviews
  <2> QED
    BY <1>3, <2>1
    DEF PreviewsHold, PartReads, Attended, OvertimesDue, ClaimsDue, Approved
<1>4. CASE \E q \in PreviewRequest : PreviewStart(q) \/ PreviewStep(q)
  <2>1. PICK q \in PreviewRequest : PreviewStart(q) \/ \E e \in EmployeeId : PartStep(q, e)
    BY <1>4 DEF PreviewStep, PartStep
  <2>2. /\ UNCHANGED <<attendances, overtimes, reimbursements>>
        /\ \A y \in PreviewRequest \ {q} : previewCall'[y] = previewCall[y]
    BY <1>1, <2>1, PreviewBegins, PartStepShape DEF dbVars
  <2>3. current' = current \cup {y \in PreviewRequest : previewCall[y] = None /\ previewCall'[y] # None}
    BY <1>1, <2>2 DEF TrackPreviews
  <2>4. ASSUME NEW y \in current', previewCall'[y] # None, NEW x \in DOMAIN previewCall'[y]
        PROVE  PartReads(y, x)'
    <3>1. CASE y # q
      <4>1. y \in current /\ previewCall'[y] = previewCall[y] /\ PartReads(y, x)
        BY <1>1, <2>2, <2>3, <2>4, <3>1 DEF PreviewsHold
      <4> QED
        BY <2>2, <4>1, PartStays
    <3>2. CASE y = q /\ PreviewStart(q)
      BY <1>1, <2>4, <3>2, PreviewBegins DEF PartReads
    <3>3. CASE y = q /\ \E e \in EmployeeId : PartStep(q, e)
      <4>1. PICK e \in EmployeeId : PartStep(q, e)
        BY <3>3
      <4>2. /\ previewCall[q] # None /\ x \in DOMAIN previewCall[q]
            /\ x # e => previewCall'[q][x] = previewCall[q][x]
        BY <1>1, <2>4, <3>3, <4>1, PartStepShape
      <4>3. PartReads(q, x)
        BY <2>3, <3>3, <4>2 DEF PreviewsHold
      <4>4. CASE x = e
        <5>1. PartReads(q, e)'
          BY <1>1, <4>1, <4>3, <4>4, PartMoves
        <5> QED
          BY <3>3, <4>4, <5>1 DEF PartReads
      <4>5. CASE x # e
        <5>1. PartReads(q, x)'
          BY <2>2, <4>2, <4>3, <4>5, PartStays
        <5> QED
          BY <3>3, <5>1 DEF PartReads
      <4> QED
        BY <4>4, <4>5
    <3> QED
      BY <2>1, <3>1, <3>2, <3>3
  <2> QED
    BY <2>4 DEF PreviewsHold
<1>5. CASE UNCHANGED previewCall
  BY <1>2, <1>3, <1>5
<1> QED
  BY <1>4, <1>5, SerialTables
-----------------------------------------------------------------------------
(* What is paid stands.                                                    *)

LEMMA PaidOvertimesStay ==
  ASSUME PaidOvertimesStand, UNCHANGED <<payslips, overtimes>>
  PROVE  PaidOvertimesStand'
BY DEF PaidOvertimesStand

LEMMA PaidOvertimesStep ==
  ASSUME PaidInv, OneServed, CallsHold, RunsHold, PaidOvertimesStand, SerialRecordsNext
  PROVE  PaidOvertimesStand'
<1>1. ShapeInv /\ PayrollInv
  BY DEF PaidInv, ShapeInv
<1>2. ASSUME NEW r \in PayrollRequest, RunStep(r)
      PROVE  PaidOvertimesStand'
  <2>1. overtimes' = overtimes /\ RunReads(r)
    BY <1>1, <1>2, RunCalculates DEF RunsHold
  <2>2. ASSUME NEW s \in payslips' \ payslips, NEW x \in s.overtimes
        PROVE  /\ overtimes[x[1]] # None /\ overtimes[x[1]].status = "APPROVED"
               /\ overtimes[x[1]].hoursWorked = x[2]
    <3>1. x \in OvertimesDue(s.employeeId, s.attendancePeriodId)
      BY <1>1, <1>2, <2>1, <2>2, InsertedPays
    <3> QED
      BY <3>1 DEF OvertimesDue, Approved
  <2> QED
    BY <2>1, <2>2 DEF PaidOvertimesStand
<1>3. ASSUME NEW v \in OvertimeRequest, OvertimeStep(v), payslips' = payslips
      PROVE  PaidOvertimesStand'
  <2> SUFFICES ASSUME NEW s \in payslips, NEW x \in s.overtimes
               PROVE  overtimes'[x[1]] = overtimes[x[1]]
    BY <1>3 DEF PaidOvertimesStand
  <2>1. PICK o \in OvertimeId : o = x[1]
    BY <1>1 DEF PayrollInv, DatabaseTypeOK, PayslipRow
  <2>2. overtimes[o] # None /\ overtimes[o].status = "APPROVED"
    BY <2>1 DEF PaidOvertimesStand
  <2>3. ~(o = overtimeCall[v].overtimeId /\ overtimeCall[v].pc \in {"write", "status", "delete"})
    BY <2>2 DEF CallsHold, OvertimeCallHolds, Decides
  <2> QED
    BY <1>3, <2>1, <2>2, <2>3, OvertimeRows
<1>4. \A v \in OvertimeRequest : OvertimeStart(v) => UNCHANGED <<payslips, overtimes>>
  BY <1>1, OvertimeStartOK DEF dbVars
<1>5. UNCHANGED dbVars => PaidOvertimesStand'
  BY PaidOvertimesStay DEF dbVars
<1> QED
  BY <1>1, <1>2, <1>3, <1>4, <1>5, SerialTables, PaidOvertimesStay

(* A run that marks its period has paid every claim that is due.           *)
LEMMA MarkedInFull ==
  ASSUME StableInv, RunsHold, NEW r \in PayrollRequest, FinishRun(r), AllProcessed(r)
  PROVE  /\ run[r].processed = Active
         /\ \A s \in payslips : s.attendancePeriodId = run[r].periodId =>
              /\ s.overtimes = OvertimesDue(s.employeeId, s.attendancePeriodId)
              /\ s.reimbursements = ClaimsDue(s.employeeId, s.attendancePeriodId)
<1>1. run[r].pc \in InLoop /\ run[r].listed # {}
  BY DEF FinishRun, StableInv, PayrollInv, RunsOK, RunShape, InLoop
<1>2. run[r].processed = Active
  BY <1>1 DEF AllProcessed, StableInv, ListsRoster
<1> QED
  BY <1>1, <1>2 DEF RunsHold, RunInserted

LEMMA ProcessedClaimsStay ==
  ASSUME ProcessedClaimsStand, UNCHANGED <<payslips, attendancePeriods, reimbursements>>
  PROVE  ProcessedClaimsStand'
BY DEF ProcessedClaimsStand, IsProcessed

LEMMA ProcessedClaimsStep ==
  ASSUME PaidInv, StableInv, OneServed, CallsHold, RunsHold, ProcessedClaimsStand, SerialRecordsNext
  PROVE  ProcessedClaimsStand'
<1>1. ShapeInv /\ PayrollInv /\ \A s \in payslips : s \in PayslipRow
  BY DEF PaidInv, ShapeInv, PayrollInv, DatabaseTypeOK
<1>2. ASSUME NEW r \in PayrollRequest, RunStep(r)
      PROVE  ProcessedClaimsStand'
  <2>1. reimbursements' = reimbursements /\ RunReads(r)
    BY <1>1, <1>2, RunCalculates DEF RunsHold
  <2> SUFFICES ASSUME NEW s \in payslips', IsProcessed(s.attendancePeriodId)', NEW x \in s.reimbursements
               PROVE  reimbursements[x[1]] # None /\ reimbursements[x[1]].amount = x[2]
    BY <2>1 DEF ProcessedClaimsStand
  <2>2. CASE s.reimbursements = ClaimsDue(s.employeeId, s.attendancePeriodId)
    BY <2>2 DEF ClaimsDue, Approved
  <2>3. CASE s \in payslips /\ IsProcessed(s.attendancePeriodId)
    BY <2>3 DEF ProcessedClaimsStand
  <2>4. CASE s \in payslips /\ ~IsProcessed(s.attendancePeriodId)
    <3>1. PICK p \in PeriodId : p = s.attendancePeriodId
      BY <1>1, <2>4 DEF PayslipRow
    <3>2. PICK x1 \in PayrollRequest :
            FinishRun(x1) /\ AllProcessed(x1) /\ run[x1].periodId = p
      BY <1>1, <1>2, <2>4, <3>1, OnlyFinishMarks DEF IsProcessed, PayrollNext
    <3>3. s.reimbursements = ClaimsDue(s.employeeId, s.attendancePeriodId)
      BY <2>4, <3>1, <3>2, MarkedInFull
    <3> QED
      BY <2>2, <3>3
  <2>5. CASE s \notin payslips
    <3>1. s.reimbursements = ClaimsDue(s.employeeId, s.attendancePeriodId)
      BY <1>1, <1>2, <2>1, <2>5, InsertedPays
    <3> QED
      BY <2>2, <3>1
  <2> QED
    BY <2>3, <2>4, <2>5
<1>3. ASSUME NEW q \in ClaimRequest, ClaimStep(q), UNCHANGED <<payslips, attendancePeriods>>
      PROVE  ProcessedClaimsStand'
  <2> SUFFICES ASSUME NEW s \in payslips, IsProcessed(s.attendancePeriodId), NEW x \in s.reimbursements
               PROVE  reimbursements'[x[1]] # None /\ reimbursements'[x[1]].amount = x[2]
    BY <1>3 DEF ProcessedClaimsStand, IsProcessed
  <2>1. PICK c \in ReimbursementId : c = x[1]
    BY <1>1 DEF PayslipRow
  <2>2. reimbursements[c] # None /\ reimbursements[c].amount = x[2]
    BY <2>1 DEF ProcessedClaimsStand
  <2>3. reimbursements[c].attendancePeriodId = s.attendancePeriodId
    <3>1. ClaimList(s) \in ClaimLists /\ x \in ClaimList(s)[3] /\ ClaimList(s)[2] = s.attendancePeriodId
      BY DEF ClaimLists, Entries, ClaimList
    <3> QED
      BY <2>1, <2>2, <3>1 DEF PaidInv, ListsAgree
  <2>4. ~(c = claimCall[q].claimId /\ claimCall[q].pc \in {"write", "delete"})
    BY <2>2, <2>3 DEF CallsHold, ClaimCallHolds
  <2> QED
    BY <1>3, <2>1, <2>2, <2>4, ClaimRows
<1>4. \A q \in ClaimRequest : ClaimStart(q) => UNCHANGED <<payslips, attendancePeriods, reimbursements>>
  BY <1>1, ClaimStartOK DEF dbVars
<1>5. UNCHANGED dbVars => ProcessedClaimsStand'
  BY ProcessedClaimsStay DEF dbVars
<1> QED
  BY <1>1, <1>2, <1>3, <1>4, <1>5, SerialTables, ProcessedClaimsStay
-----------------------------------------------------------------------------
(* The inductive invariant.                                                *)

SerialInv == /\ PaidInv /\ StableInv
             /\ OneServed /\ CallsHold /\ RunsHold /\ PreviewsHold
             /\ PaidOvertimesStand /\ ProcessedClaimsStand

LEMMA SerialInit == RecordsInit => SerialInv
<1> SUFFICES ASSUME RecordsInit
             PROVE  SerialInv
  OBVIOUS
<1>1. PaidInv /\ StableInv
  BY PaidInit, StableInit DEF RecordsInit
<1>2. /\ \A r \in PayrollRequest : run[r].pc = "idle"
      /\ \A q \in ClaimRequest : claimCall[q].pc = "idle"
      /\ \A v \in OvertimeRequest : overtimeCall[v].pc = "idle"
      /\ payslips = {} /\ current = {}
  BY DEF RecordsInit, PayrollInit, DatabaseInit, ClaimInit, OvertimeInit, IdleRun, IdleClaimCall,
     IdleOvertimeCall
<1>3. OneServed
  BY <1>2 DEF OneServed, RunsServed, ClaimsServed, OvertimesServed, InProgress, InLoop,
     ClaimInProgress, OvertimeInProgress
<1>4. CallsHold
  BY <1>2 DEF CallsHold, OvertimeCallHolds, ClaimCallHolds, Decides, Creating
<1>5. RunsHold
  BY <1>2 DEF RunsHold, RunReads, RunInserted, InLoop
<1>6. PreviewsHold /\ PaidOvertimesStand /\ ProcessedClaimsStand
  BY <1>2 DEF PreviewsHold, PaidOvertimesStand, ProcessedClaimsStand
<1> QED
  BY <1>1, <1>3, <1>4, <1>5, <1>6 DEF SerialInv

LEMMA SerialStutter ==
  ASSUME SerialInv, UNCHANGED recordVars
  PROVE  SerialInv'
<1>1. UNCHANGED <<dbVars, run, claimCall, overtimeCall, previewCall, current,
                  employees, attendancePeriods, attendances, overtimes, reimbursements, payslips>>
  BY DEF recordVars, dbVars
<1>2. PaidInv' /\ PayrollInv'
  <2>1. PaidInv'
    BY PaidInductive DEF SerialInv
  <2> QED
    BY <2>1 DEF PaidInv, ShapeInv
<1>3. StableInv' /\ CallsHold' /\ RunsHold' /\ PaidOvertimesStand' /\ ProcessedClaimsStand'
  BY <1>1, <1>2, StableStays, CallsStay, RunsHoldQuietly, PaidOvertimesStay, ProcessedClaimsStay
  DEF SerialInv
<1>4. OneServed'
  BY <1>1 DEF SerialInv, OneServed, RunsServed, ClaimsServed, OvertimesServed
<1>5. PreviewsHold'
  <2>1. ASSUME NEW q \in current, previewCall[q] # None, NEW e \in DOMAIN previewCall[q]
        PROVE  PartReads(q, e)'
    <3>1. PartReads(q, e)
      BY <2>1 DEF SerialInv, PreviewsHold
    <3>2. previewCall'[q][e] = previewCall[q][e]
      BY <1>1
    <3>3. \A p : /\ Attended(e, p)' = Attended(e, p)
                /\ OvertimesDue(e, p)' = OvertimesDue(e, p)
                /\ ClaimsDue(e, p)' = ClaimsDue(e, p)
      BY <1>1 DEF Attended, OvertimesDue, ClaimsDue, Approved
    <3> QED
      BY <3>1, <3>2, <3>3 DEF PartReads
  <2> QED
    BY <1>1, <2>1 DEF PreviewsHold
<1> QED
  BY <1>2, <1>3, <1>4, <1>5 DEF SerialInv

LEMMA SerialInductive == SerialInv /\ [SerialRecordsNext]_recordVars => SerialInv'
<1>1. ASSUME SerialInv, SerialRecordsNext
      PROVE  SerialInv'
  <2>1. ShapeInv /\ RecordsNext
    BY <1>1, SerialCases DEF SerialInv, PaidInv
  <2>2. PaidInv'
    BY <1>1, <2>1, PaidInductive DEF SerialInv
  <2> QED
    BY <1>1, <2>1, <2>2, StableStep, ServedStep, CallsHoldStep, RunsHoldStep, PreviewsHoldStep,
       PaidOvertimesStep, ProcessedClaimsStep DEF SerialInv
<1> QED
  BY <1>1, SerialStutter
-----------------------------------------------------------------------------
(* The theorems.                                                           *)

(* One request at a time, an overtime that was paid stays approved with    *)
(* the hours paid: what a change or a removal found pending when it began  *)
(* is still pending when it writes.                                        *)
THEOREM PaidOvertimesAreFinal == SerialRecordsSpec => []PaidOvertimesStand
<1>1. SerialInv => PaidOvertimesStand
  BY DEF SerialInv
<1> QED
  BY <1>1, SerialInit, SerialInductive, PTL DEF SerialRecordsSpec, SerialRecordsNext

(* One request at a time, the claims a processed period has paid are there *)
(* with the amounts paid: the check of the mark, made when a change or a   *)
(* removal begins, holds when it writes, and the marking run paid what it  *)
(* found.                                                                  *)
THEOREM PaidClaimsStand == SerialRecordsSpec => []ProcessedClaimsStand
<1>1. SerialInv => ProcessedClaimsStand
  BY DEF SerialInv
<1> QED
  BY <1>1, SerialInit, SerialInductive, PTL DEF SerialRecordsSpec, SerialRecordsNext

LEMMA MarkPaysDue ==
  ASSUME SerialInv, SerialRecordsNext, NEW p \in PeriodId, ~IsProcessed(p), IsProcessed(p)',
         NEW e \in EmployeeId, employees[e] = "ACTIVE"
  PROVE  \E s \in payslips : /\ s.overtimes = OvertimesDue(e, p)
                             /\ s.reimbursements = ClaimsDue(e, p)
<1>1. /\ ShapeInv /\ PayrollInv /\ StableInv /\ OneServed /\ RunsHold
  BY DEF SerialInv, PaidInv, ShapeInv
<1>2. PayrollNext
  <2>1. attendancePeriods' # attendancePeriods
    BY DEF IsProcessed
  <2>2. \E r \in PayrollRequest : RunStep(r)
    BY <1>1, <2>1, SerialTables DEF dbVars
  <2> QED
    BY <2>2 DEF PayrollNext
<1>3. PICK r \in PayrollRequest : FinishRun(r) /\ AllProcessed(r) /\ run[r].periodId = p
  BY <1>1, <1>2, OnlyFinishMarks DEF IsProcessed
<1>4. attendancePeriods[p] # None
  BY <1>1, <1>2, PeriodsStay DEF IsProcessed
<1>5. e \in run[r].processed
  BY <1>1, <1>3, MarkedInFull DEF Active
<1>6. employees[e] # None
  BY NoneAssumption DEF EmployeeStatus
<1>7. PICK s \in payslips : s.employeeId = e /\ s.attendancePeriodId = p
  BY <1>1, <1>3, <1>4, <1>5, <1>6 DEF StableInv, SuccessMeansPaid, Paid
<1> QED
  BY <1>1, <1>3, <1>7, MarkedInFull

(* One request at a time, a run marks a period only when every approved    *)
(* claim and overtime of every active employee is in that employee's       *)
(* payslip: nothing was approved between the read and the mark, and what   *)
(* an earlier run left in part, and was approved since, keeps it unmarked. *)
THEOREM MarkPaysAllApproved == SerialRecordsSpec => MarkPaysApproved
<1> DEFINE Pays == \A p \in PeriodId : ~IsProcessed(p) /\ IsProcessed(p)' =>
                     /\ \A c \in ReimbursementId : Due(reimbursements[c], p) =>
                          \E s \in payslips : <<c, reimbursements[c].amount>> \in s.reimbursements
                     /\ \A o \in OvertimeId : Due(overtimes[o], p) =>
                          \E s \in payslips : <<o, overtimes[o].hoursWorked>> \in s.overtimes
<1>1. ASSUME SerialInv, SerialRecordsNext, NEW p \in PeriodId, ~IsProcessed(p), IsProcessed(p)'
      PROVE  /\ \A c \in ReimbursementId : Due(reimbursements[c], p) =>
                  \E s \in payslips : <<c, reimbursements[c].amount>> \in s.reimbursements
             /\ \A o \in OvertimeId : Due(overtimes[o], p) =>
                  \E s \in payslips : <<o, overtimes[o].hoursWorked>> \in s.overtimes
  <2>1. /\ reimbursements \in [ReimbursementId -> ReimbursementRow \cup {None}]
        /\ overtimes \in [OvertimeId -> OvertimeRow \cup {None}]
    BY <1>1 DEF SerialInv, StableInv, PayrollInv, DatabaseTypeOK, Table
  <2>2. ASSUME NEW c \in ReimbursementId, Due(reimbursements[c], p)
        PROVE  \E s \in payslips : <<c, reimbursements[c].amount>> \in s.reimbursements
    <3>1. PICK e \in EmployeeId : e = reimbursements[c].employeeId
      BY <2>1, <2>2 DEF Due, ReimbursementRow
    <3>2. <<c, reimbursements[c].amount>> \in ClaimsDue(e, p)
      BY <2>2, <3>1 DEF Due, ClaimsDue, Approved
    <3> QED
      BY <1>1, <2>2, <3>1, <3>2, MarkPaysDue DEF Due
  <2>3. ASSUME NEW o \in OvertimeId, Due(overtimes[o], p)
        PROVE  \E s \in payslips : <<o, overtimes[o].hoursWorked>> \in s.overtimes
    <3>1. PICK e \in EmployeeId : e = overtimes[o].employeeId
      BY <2>1, <2>3 DEF Due, OvertimeRow
    <3>2. <<o, overtimes[o].hoursWorked>> \in OvertimesDue(e, p)
      BY <2>3, <3>1 DEF Due, OvertimesDue, Approved
    <3> QED
      BY <1>1, <2>3, <3>1, <3>2, MarkPaysDue DEF Due
  <2> QED
    BY <2>2, <2>3
<1>2. SerialInv /\ [SerialRecordsNext]_recordVars => [Pays]_recordVars
  BY <1>1
<1> QED
  BY <1>2, SerialInit, SerialInductive, PTL DEF SerialRecordsSpec, SerialRecordsNext, MarkPaysApproved

(* One request at a time, a payslip pays what a preview of its period told *)
(* the employee, as long as no record has changed since it was asked: the  *)
(* two services select the same records.                                   *)
THEOREM PreviewsForetell == SerialRecordsSpec => PreviewForetellsPayslip
<1> DEFINE Foretold ==
      \A s \in payslips' \ payslips : \A q \in current :
        LET e == s.employeeId IN
        PartAt(q, e, "done") /\ previewCall[q][e].periodId = s.attendancePeriodId =>
          /\ s.attendedDays = previewCall[q][e].attendedDays
          /\ s.overtimes = previewCall[q][e].overtimes
          /\ s.reimbursements = previewCall[q][e].reimbursements
<1>1. ASSUME SerialInv, SerialRecordsNext, NEW s \in payslips' \ payslips, NEW q \in current,
             NEW e, e = s.employeeId,
             PartAt(q, e, "done"), previewCall[q][e].periodId = s.attendancePeriodId
      PROVE  /\ s.attendedDays = previewCall[q][e].attendedDays
             /\ s.overtimes = previewCall[q][e].overtimes
             /\ s.reimbursements = previewCall[q][e].reimbursements
  <2>1. ShapeInv /\ PayrollInv /\ OneServed /\ RunsHold
    BY <1>1 DEF SerialInv, PaidInv, ShapeInv
  <2>2. PICK r \in PayrollRequest : RunStep(r)
    BY <1>1, <2>1, SerialTables DEF dbVars
  <2>3. /\ s.attendedDays = Attended(e, s.attendancePeriodId)
        /\ s.overtimes = OvertimesDue(e, s.attendancePeriodId)
        /\ s.reimbursements = ClaimsDue(e, s.attendancePeriodId)
    BY <1>1, <2>1, <2>2, InsertedPays DEF RunsHold
  <2>4. PartReads(q, e) /\ previewCall[q][e].pc = "done"
    BY <1>1 DEF PartAt, SerialInv, PreviewsHold
  <2> QED
    BY <1>1, <2>3, <2>4 DEF PartReads
<1>2. SerialInv /\ [SerialRecordsNext]_recordVars => [Foretold]_recordVars
  BY <1>1
<1> QED
  BY <1>2, SerialInit, SerialInductive, PTL
  DEF SerialRecordsSpec, SerialRecordsNext, PreviewForetellsPayslip
===============================================================================
