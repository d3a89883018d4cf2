---------------------------- MODULE RecordsProofs ----------------------------
(***************************************************************************)
(* Theorems about RecordsLifecycle, for any employees, periods, claims,    *)
(* overtimes, requests and initial databases, however requests overlap.    *)
(***************************************************************************)
EXTENDS PayrollProofs, RecordsLifecycle, PayCalculationProofs

(* What holds of one call on claims by itself.                             *)
ClaimShape(c, q) ==
  /\ c.pc \in ClaimInProgress => c.claimId \in ReimbursementId
  /\ c.pc \in {"period", "insert"} =>
       /\ c.claimId = NewClaimId[q]
       /\ c.employeeId \in EmployeeId /\ c.periodId \in PeriodId /\ c.amount \in Amount
  /\ c.pc = "status" => c.status \in ReimbursementStatus

ClaimCallsOK == /\ claimCall \in [ClaimRequest -> ClaimCall]
                /\ \A q \in ClaimRequest : ClaimShape(claimCall[q], q)

(* What holds of one call on overtimes by itself.                          *)
Creating == {"period", "existing", "attendance", "insert"}

OvertimeShape(c, v) ==
  /\ c.pc \in OvertimeInProgress => c.overtimeId \in OvertimeId
  /\ c.pc \in Creating =>
       /\ c.overtimeId = NewOvertimeId[v]
       /\ c.employeeId \in EmployeeId /\ c.date \in Day
       /\ c.startTime \in TimeOfDay /\ c.endTime \in TimeOfDay /\ c.hoursWorked \in Hours
  /\ c.pc \in Creating \ {"period"} => c.periodId \in PeriodId
  /\ c.pc = "status" => c.status \in OvertimeStatus

OvertimeCallsOK == /\ overtimeCall \in [OvertimeRequest -> OvertimeCall]
                   /\ \A v \in OvertimeRequest : OvertimeShape(overtimeCall[v], v)

PreviewsOK == PreviewTypeOK /\ current \subseteq PreviewRequest

(* The type invariant made inductive.                                      *)
ShapeInv == PayrollInv /\ ClaimCallsOK /\ OvertimeCallsOK /\ PreviewsOK
-----------------------------------------------------------------------------
(* What a step of the records may do to their tables.                      *)

SameOwner(row, old) == /\ old # None
                       /\ row.employeeId = old.employeeId
                       /\ row.attendancePeriodId = old.attendancePeriodId

ClaimsRewritten ==
  /\ UNCHANGED tablesButClaims
  /\ reimbursements' \in Table(ReimbursementId, ReimbursementRow)
  /\ \A c \in ReimbursementId :
       reimbursements'[c] # None => SameOwner(reimbursements'[c], reimbursements[c])

ClaimInserted(c, row) ==
  /\ UNCHANGED tablesButClaims
  /\ c \in ReimbursementId /\ row \in ReimbursementRow
  /\ reimbursements' = [reimbursements EXCEPT ![c] = row]

OvertimesRewritten ==
  /\ UNCHANGED tablesButOvertimes
  /\ overtimes' \in Table(OvertimeId, OvertimeRow)
  /\ \A o \in OvertimeId :
       overtimes'[o] # None => /\ SameOwner(overtimes'[o], overtimes[o])
                               /\ overtimes'[o].date = overtimes[o].date

OvertimeInserted(o, row) ==
  /\ UNCHANGED tablesButOvertimes
  /\ o \in OvertimeId /\ row \in OvertimeRow
  /\ overtimes' = [overtimes EXCEPT ![o] = row]
-----------------------------------------------------------------------------
(* The calls on claims.                                                    *)

LEMMA OneClaimCall ==
  ASSUME ClaimCallsOK, NEW q \in ClaimRequest, NEW c \in ClaimCall, ClaimShape(c, q),
         claimCall' = [claimCall EXCEPT ![q] = c]
  PROVE  ClaimCallsOK'
BY DEF ClaimCallsOK

LEMMA ClaimCallEnds ==
  ASSUME ClaimCallsOK, NEW q \in ClaimRequest, NEW how \in ClaimEnded, ClaimEnds(q, how)
  PROVE  ClaimCallsOK'
<1> DEFINE c == ClaimAnswer(how)
<1>1. c \in ClaimCall /\ ClaimShape(c, q)
  BY DEF ClaimAnswer, IdleClaimCall, ClaimCall, ClaimShape, ClaimInProgress, ClaimEnded
<1> HIDE DEF c
<1> QED
  BY <1>1, OneClaimCall DEF ClaimEnds, c

LEMMA ClaimCallMovesOn ==
  ASSUME ClaimCallsOK, NEW q \in ClaimRequest, NEW pc \in ClaimInProgress,
         ClaimShape([claimCall[q] EXCEPT !.pc = pc], q), ClaimGoto(q, pc)
  PROVE  ClaimCallsOK'
<1> DEFINE c == [claimCall[q] EXCEPT !.pc = pc]
<1>1. c \in ClaimCall /\ claimCall' = [claimCall EXCEPT ![q] = c]
  BY DEF ClaimCallsOK, ClaimCall, ClaimGoto
<1> HIDE DEF c
<1> QED
  BY <1>1, OneClaimCall DEF c

LEMMA ClaimStartOK ==
  ASSUME ShapeInv, NEW q \in ClaimRequest, ClaimStart(q)
  PROVE  /\ ClaimCallsOK' /\ UNCHANGED <<dbVars, auditVars, today>>
         /\ claimCall[q].pc = "idle"
<1>1. ClaimCallsOK /\ DatabaseTypeOK
  BY DEF ShapeInv, PayrollInv
<1>2. \A how \in ClaimEnded : claimCall' = [claimCall EXCEPT ![q] = ClaimAnswer(how)] => ClaimCallsOK'
  BY <1>1, ClaimCallEnds DEF ClaimEnds
<1>3. CASE CreateReimbursement(q)
  <2>1. PICK e \in EmployeeId, p \in PeriodId, amount \in Amount :
          claimCall' = [claimCall EXCEPT ![q] =
            IF employees[e] = "ACTIVE"
            THEN [IdleClaimCall EXCEPT !.op = "create", !.claimId = NewClaimId[q],
                    !.employeeId = e, !.periodId = p, !.amount = amount, !.pc = "period"]
            ELSE ClaimAnswer("refused")]
    BY <1>3 DEF CreateReimbursement
  <2> DEFINE c == [IdleClaimCall EXCEPT !.op = "create", !.claimId = NewClaimId[q],
                     !.employeeId = e, !.periodId = p, !.amount = amount, !.pc = "period"]
  <2>2. c \in ClaimCall /\ ClaimShape(c, q)
    BY NewClaimAssumption DEF IdleClaimCall, ClaimCall, ClaimShape, ClaimInProgress
  <2> HIDE DEF c
  <2>3. \/ claimCall' = [claimCall EXCEPT ![q] = c]
        \/ claimCall' = [claimCall EXCEPT ![q] = ClaimAnswer("refused")]
    BY <2>1 DEF c
  <2>4. ClaimCallsOK'
    BY <1>1, <1>2, <2>2, <2>3, OneClaimCall DEF ClaimEnded
  <2> QED
    BY <1>3, <2>4 DEF CreateReimbursement
<1>4. CASE UpdateReimbursement(q)
  <2>1. PICK x \in ReimbursementId, e \in EmployeeId, amount \in Amount \cup {None} :
          claimCall' = [claimCall EXCEPT ![q] =
            IF /\ Editable(OwnClaim(x, e))
               /\ amount = None \/ amount \in {a \in Amount : a > 0}
            THEN [IdleClaimCall EXCEPT !.op = "update", !.claimId = x, !.amount = amount,
                    !.existing = OwnClaim(x, e), !.pc = "write"]
            ELSE ClaimAnswer("refused")]
    BY <1>4 DEF UpdateReimbursement
  <2> DEFINE c == [IdleClaimCall EXCEPT !.op = "update", !.claimId = x, !.amount = amount,
                     !.existing = OwnClaim(x, e), !.pc = "write"]
  <2>2. OwnClaim(x, e) \in ReimbursementRow \cup {None}
    BY <1>1 DEF OwnClaim, DatabaseTypeOK, Table
  <2>3. c \in ClaimCall /\ ClaimShape(c, q)
    BY <2>2 DEF IdleClaimCall, ClaimCall, ClaimShape, ClaimInProgress
  <2> HIDE DEF c
  <2>4. \/ claimCall' = [claimCall EXCEPT ![q] = c]
        \/ claimCall' = [claimCall EXCEPT ![q] = ClaimAnswer("refused")]
    BY <2>1 DEF c
  <2>5. ClaimCallsOK'
    BY <1>1, <1>2, <2>3, <2>4, OneClaimCall DEF ClaimEnded
  <2> QED
    BY <1>4, <2>5 DEF UpdateReimbursement
<1>5. CASE DeleteReimbursement(q)
  <2>1. PICK x \in ReimbursementId, e \in EmployeeId :
          claimCall' = [claimCall EXCEPT ![q] =
            IF Editable(OwnClaim(x, e))
            THEN [IdleClaimCall EXCEPT !.op = "delete", !.claimId = x,
                    !.existing = OwnClaim(x, e), !.pc = "delete"]
            ELSE ClaimAnswer("refused")]
    BY <1>5 DEF DeleteReimbursement
  <2> DEFINE c == [IdleClaimCall EXCEPT !.op = "delete", !.claimId = x,
                     !.existing = OwnClaim(x, e), !.pc = "delete"]
  <2>2. OwnClaim(x, e) \in ReimbursementRow \cup {None}
    BY <1>1 DEF OwnClaim, DatabaseTypeOK, Table
  <2>3. c \in ClaimCall /\ ClaimShape(c, q)
    BY <2>2 DEF IdleClaimCall, ClaimCall, ClaimShape, ClaimInProgress
  <2> HIDE DEF c
  <2>4. \/ claimCall' = [claimCall EXCEPT ![q] = c]
        \/ claimCall' = [claimCall EXCEPT ![q] = ClaimAnswer("refused")]
    BY <2>1 DEF c
  <2>5. ClaimCallsOK'
    BY <1>1, <1>2, <2>3, <2>4, OneClaimCall DEF ClaimEnded
  <2> QED
    BY <1>5, <2>5 DEF DeleteReimbursement
<1>6. CASE UpdateReimbursementStatus(q)
  <2>1. PICK x \in ReimbursementId, status \in ReimbursementStatus :
          claimCall' = [claimCall EXCEPT ![q] =
            IF reimbursements[x] # None
            THEN [IdleClaimCall EXCEPT !.op = "status", !.claimId = x, !.status = status,
                    !.existing = reimbursements[x], !.pc = "status"]
            ELSE ClaimAnswer("refused")]
    BY <1>6 DEF UpdateReimbursementStatus
  <2> DEFINE c == [IdleClaimCall EXCEPT !.op = "status", !.claimId = x, !.status = status,
                     !.existing = reimbursements[x], !.pc = "status"]
  <2>2. reimbursements[x] \in ReimbursementRow \cup {None}
    BY <1>1 DEF DatabaseTypeOK, Table
  <2>3. c \in ClaimCall /\ ClaimShape(c, q)
    BY <2>2 DEF IdleClaimCall, ClaimCall, ClaimShape, ClaimInProgress
  <2> HIDE DEF c
  <2>4. \/ claimCall' = [claimCall EXCEPT ![q] = c]
        \/ claimCall' = [claimCall EXCEPT ![q] = ClaimAnswer("refused")]
    BY <2>1 DEF c
  <2>5. ClaimCallsOK'
    BY <1>1, <1>2, <2>3, <2>4, OneClaimCall DEF ClaimEnded
  <2> QED
    BY <1>6, <2>5 DEF UpdateReimbursementStatus
<1> QED
  BY <1>3, <1>4, <1>5, <1>6 DEF ClaimStart

(* A statement that writes a row changes neither its employee nor its      *)
(* period, or deletes it.                                                  *)
LEMMA WriteRowOK ==
  ASSUME ShapeInv, NEW q \in ClaimRequest, claimCall[q].pc \in ClaimInProgress, NEW row,
         reimbursements[claimCall[q].claimId] # None =>
           \/ row = None
           \/ row \in ReimbursementRow /\ SameOwner(row, reimbursements[claimCall[q].claimId]),
         WriteRow(q, row)
  PROVE  ClaimCallsOK' /\ ClaimsRewritten /\ UNCHANGED <<auditVars, today>>
<1> DEFINE x == claimCall[q].claimId
           c == [claimCall[q] EXCEPT !.pc = "audit", !.written = row]
<1>1. /\ claimCall \in [ClaimRequest -> ClaimCall] /\ ClaimShape(claimCall[q], q)
      /\ x \in ReimbursementId
      /\ reimbursements \in [ReimbursementId -> ReimbursementRow \cup {None}]
      /\ ClaimCallsOK
  BY DEF ShapeInv, ClaimCallsOK, ClaimShape, PayrollInv, DatabaseTypeOK, Table
<1>2. CASE reimbursements[x] # None
  <2>1. row \in ReimbursementRow \cup {None}
    BY <1>2
  <2>2. c \in ClaimCall /\ ClaimShape(c, q)
    BY <1>1, <2>1, ZenonT(30) DEF ClaimCall, ClaimShape, ClaimInProgress
  <2>3. claimCall' = [claimCall EXCEPT ![q] = c]
    BY <1>1, <1>2 DEF WriteRow, ClaimEnds
  <2> HIDE DEF c
  <2>4. ClaimCallsOK'
    BY <1>1, <2>2, <2>3, OneClaimCall
  <2>5. reimbursements' = [reimbursements EXCEPT ![x] = row]
    BY <1>2 DEF WriteRow
  <2>6. reimbursements' \in Table(ReimbursementId, ReimbursementRow)
    BY <1>1, <2>1, <2>5 DEF Table
  <2>7. \A y \in ReimbursementId :
          reimbursements'[y] # None => SameOwner(reimbursements'[y], reimbursements[y])
    BY <1>1, <1>2, <2>5 DEF SameOwner
  <2> QED
    BY <2>4, <2>6, <2>7 DEF ClaimsRewritten, WriteRow
<1>3. CASE reimbursements[x] = None
  <2>1. ClaimEnds(q, "crashed") /\ UNCHANGED reimbursements
    BY <1>3 DEF WriteRow
  <2>2. ClaimCallsOK'
    BY <1>1, <2>1, ClaimCallEnds DEF ClaimEnded
  <2> QED
    BY <1>1, <2>1, <2>2 DEF ClaimsRewritten, WriteRow, SameOwner, Table
<1> QED
  BY <1>2, <1>3

(* What a step of a call on claims does: nothing to the tables, a row      *)
(* changed or deleted, or a new row.                                       *)
ClaimNews(q) == /\ claimCall[q].pc = "insert" /\ claimCall'[q].pc = "audit"
                /\ ClaimInserted(NewClaimId[q], NewClaim(q))

LEMMA ClaimStepOK ==
  ASSUME ShapeInv, NEW q \in ClaimRequest, ClaimStep(q)
  PROVE  /\ ClaimCallsOK'
         /\ claimCall[q].pc \in ClaimInProgress
         /\ UNCHANGED dbVars \/ ClaimsRewritten \/ ClaimNews(q)
         /\ today' = today
         /\ UNCHANGED auditVars \/ LogAudit(ClaimEntry(q))
<1>1. /\ ClaimCallsOK /\ claimCall[q] \in ClaimCall /\ ClaimShape(claimCall[q], q)
      /\ claimCall \in [ClaimRequest -> ClaimCall]
      /\ reimbursements \in [ReimbursementId -> ReimbursementRow \cup {None}]
  BY DEF ShapeInv, ClaimCallsOK, PayrollInv, DatabaseTypeOK, Table
<1>2. \A how \in ClaimEnded : ClaimEnds(q, how) => ClaimCallsOK'
  BY <1>1, ClaimCallEnds
<1>3. CASE CheckPeriod(q)
  <2>1. ClaimShape([claimCall[q] EXCEPT !.pc = "insert"], q)
    BY <1>1, <1>3 DEF CheckPeriod, ClaimShape, ClaimCall, ClaimInProgress
  <2>2. ClaimCallsOK'
    BY <1>1, <1>2, <1>3, <2>1, ClaimCallMovesOn DEF CheckPeriod, ClaimInProgress, ClaimEnded
  <2> QED
    BY <1>3, <2>2 DEF CheckPeriod, ClaimInProgress
<1>4. CASE InsertClaim(q)
  <2> DEFINE c == [claimCall[q] EXCEPT !.pc = "audit", !.written = NewClaim(q)]
  <2>1. NewClaim(q) \in ReimbursementRow /\ claimCall[q].claimId = NewClaimId[q]
    BY <1>1, <1>4 DEF InsertClaim, NewClaim, ReimbursementRow, ReimbursementStatus, ClaimShape
  <2>2. c \in ClaimCall /\ ClaimShape(c, q)
    BY <1>1, <1>4, <2>1 DEF InsertClaim, ClaimCall, ClaimShape, ClaimInProgress
  <2>3. CASE claimCall' = [claimCall EXCEPT ![q] = c] /\ HasParents(NewClaim(q))
    <3>1. reimbursements' = [reimbursements EXCEPT ![NewClaimId[q]] = NewClaim(q)]
      <4>1. CASE reimbursements' = [reimbursements EXCEPT ![claimCall[q].claimId] = NewClaim(q)]
        BY <2>1, <4>1
      <4> QED
        BY <1>4, <2>3, <4>1 DEF InsertClaim
    <3>2. ClaimCallsOK'
      BY <1>1, <2>2, <2>3, OneClaimCall
    <3>3. claimCall'[q].pc = "audit"
      BY <1>1, <2>3 DEF ClaimCall
    <3>4. ClaimNews(q)
      BY <1>4, <2>1, <3>1, <3>3, NewClaimAssumption DEF ClaimNews, ClaimInserted, InsertClaim
    <3> QED
      BY <1>4, <3>2, <3>4 DEF InsertClaim, ClaimInProgress
  <2>4. CASE ClaimEnds(q, "crashed") /\ UNCHANGED reimbursements
    BY <1>2, <1>4, <2>4 DEF InsertClaim, ClaimEnded, tablesButClaims, dbVars, ClaimInProgress
  <2>5. \/ claimCall' = [claimCall EXCEPT ![q] = c] /\ HasParents(NewClaim(q))
        \/ ClaimEnds(q, "crashed") /\ UNCHANGED reimbursements
    BY <1>1, <1>4 DEF InsertClaim
  <2> QED
    BY <2>3, <2>4, <2>5
<1>5. CASE WriteClaim(q)
  <2> DEFINE x == claimCall[q].claimId
             row == [reimbursements[x] EXCEPT
                       !.amount = IF claimCall[q].amount = None THEN @ ELSE claimCall[q].amount]
  <2>1. claimCall[q].amount \in Amount \cup {None} /\ x \in ReimbursementId
    BY <1>1, <1>5 DEF ClaimCall, WriteClaim, ClaimShape, ClaimInProgress
  <2>2. reimbursements[x] # None => row \in ReimbursementRow /\ SameOwner(row, reimbursements[x])
    BY <1>1, <2>1 DEF ReimbursementRow, SameOwner
  <2>3. WriteRow(q, row) /\ claimCall[q].pc \in ClaimInProgress
    BY <1>5 DEF WriteClaim, ClaimInProgress
  <2> HIDE DEF row
  <2> QED
    BY <2>2, <2>3, WriteRowOK
<1>6. CASE DeleteClaim(q)
  BY <1>6, WriteRowOK DEF DeleteClaim, ClaimInProgress
<1>7. CASE WriteStatus(q)
  <2> DEFINE x == claimCall[q].claimId
             row == [reimbursements[x] EXCEPT !.status = claimCall[q].status]
  <2>1. claimCall[q].status \in ReimbursementStatus /\ x \in ReimbursementId
    BY <1>1, <1>7 DEF WriteStatus, ClaimShape, ClaimInProgress
  <2>2. reimbursements[x] # None => row \in ReimbursementRow /\ SameOwner(row, reimbursements[x])
    BY <1>1, <2>1 DEF ReimbursementRow, SameOwner
  <2>3. WriteRow(q, row) /\ claimCall[q].pc \in ClaimInProgress
    BY <1>7 DEF WriteStatus, ClaimInProgress
  <2> HIDE DEF row
  <2> QED
    BY <2>2, <2>3, WriteRowOK
<1>8. CASE AuditClaim(q)
  BY <1>2, <1>8 DEF AuditClaim, ClaimEnded, ClaimInProgress
<1>9. CASE ClaimCrash(q)
  BY <1>2, <1>9 DEF ClaimCrash, ClaimEnded, ClaimInProgress
<1> QED
  BY <1>3, <1>4, <1>5, <1>6, <1>7, <1>8, <1>9 DEF ClaimStep
-----------------------------------------------------------------------------
(* The calls on overtimes.                                                 *)

LEMMA OneOvertimeCall ==
  ASSUME OvertimeCallsOK, NEW v \in OvertimeRequest, NEW c \in OvertimeCall, OvertimeShape(c, v),
         overtimeCall' = [overtimeCall EXCEPT ![v] = c]
  PROVE  OvertimeCallsOK'
BY DEF OvertimeCallsOK

LEMMA OvertimeCallEnds ==
  ASSUME OvertimeCallsOK, NEW v \in OvertimeRequest, NEW how \in OvertimeEnded, OvertimeEnds(v, how)
  PROVE  OvertimeCallsOK'
<1> DEFINE c == OvertimeAnswer(how)
<1>1. c \in OvertimeCall /\ OvertimeShape(c, v)
  BY DEF OvertimeAnswer, IdleOvertimeCall, OvertimeCall, OvertimeShape, OvertimeInProgress,
     OvertimeEnded, Creating
<1> HIDE DEF c
<1> QED
  BY <1>1, OneOvertimeCall DEF OvertimeEnds, c

LEMMA OvertimeCallMovesOn ==
  ASSUME OvertimeCallsOK, NEW v \in OvertimeRequest, NEW pc \in OvertimeInProgress,
         OvertimeShape([overtimeCall[v] EXCEPT !.pc = pc], v), OvertimeGoto(v, pc)
  PROVE  OvertimeCallsOK'
<1> DEFINE c == [overtimeCall[v] EXCEPT !.pc = pc]
<1>1. c \in OvertimeCall /\ overtimeCall' = [overtimeCall EXCEPT ![v] = c]
  BY DEF OvertimeCallsOK, OvertimeCall, OvertimeGoto
<1> HIDE DEF c
<1> QED
  BY <1>1, OneOvertimeCall DEF c

LEMMA OvertimeStartOK ==
  ASSUME ShapeInv, NEW v \in OvertimeRequest, OvertimeStart(v)
  PROVE  /\ OvertimeCallsOK' /\ UNCHANGED <<dbVars, auditVars, today>>
         /\ overtimeCall[v].pc = "idle"
         /\ overtimeCall'[v].pc \notin {"insert", "delete"}
         /\ overtimeCall' = [overtimeCall EXCEPT ![v] = overtimeCall'[v]]
<1>1. OvertimeCallsOK /\ DatabaseTypeOK /\ overtimeCall \in [OvertimeRequest -> OvertimeCall]
  BY DEF ShapeInv, PayrollInv, OvertimeCallsOK
<1> DEFINE Result == /\ OvertimeCallsOK'
                     /\ overtimeCall'[v].pc \notin {"insert", "delete"}
                     /\ overtimeCall' = [overtimeCall EXCEPT ![v] = overtimeCall'[v]]
<1>2. ASSUME NEW c \in OvertimeCall, OvertimeShape(c, v), c.pc \notin {"insert", "delete"},
             \/ overtimeCall' = [overtimeCall EXCEPT ![v] = c]
             \/ overtimeCall' = [overtimeCall EXCEPT ![v] = OvertimeAnswer("refused")]
      PROVE  Result
  <2>1. CASE overtimeCall' = [overtimeCall EXCEPT ![v] = c]
    BY <1>1, <1>2, <2>1, OneOvertimeCall
  <2>2. CASE overtimeCall' = [overtimeCall EXCEPT ![v] = OvertimeAnswer("refused")]
    <3>1. OvertimeCallsOK'
      BY <1>1, <2>2, OvertimeCallEnds DEF OvertimeEnds, OvertimeEnded
    <3>2. overtimeCall'[v] = OvertimeAnswer("refused") /\ OvertimeAnswer("refused").pc = "refused"
      BY <1>1, <2>2 DEF OvertimeAnswer, IdleOvertimeCall
    <3> QED
      BY <2>2, <3>1, <3>2
  <2> QED
    BY <1>2, <2>1, <2>2
<1> HIDE DEF Result
<1>3. CASE CreateOvertime(v)
  <2>1. PICK e \in EmployeeId, date \in Day, dto \in {d \in OvertimeDto : WhollyGiven(d)} :
          overtimeCall' = [overtimeCall EXCEPT ![v] =
            IF employees[e] = "ACTIVE"
            THEN [IdleOvertimeCall EXCEPT !.op = "create", !.overtimeId = NewOvertimeId[v],
                    !.employeeId = e, !.date = date, !.startTime = dto.startTime,
                    !.endTime = dto.endTime, !.hoursWorked = dto.hoursWorked, !.pc = "period"]
            ELSE OvertimeAnswer("refused")]
    BY <1>3 DEF CreateOvertime
  <2> DEFINE c == [IdleOvertimeCall EXCEPT !.op = "create", !.overtimeId = NewOvertimeId[v],
                     !.employeeId = e, !.date = date, !.startTime = dto.startTime,
                     !.endTime = dto.endTime, !.hoursWorked = dto.hoursWorked, !.pc = "period"]
  <2>2. dto.startTime \in TimeOfDay /\ dto.endTime \in TimeOfDay /\ dto.hoursWorked \in Hours
    BY OvertimeDtoAssumption DEF WhollyGiven
  <2>3. /\ c \in OvertimeCall /\ OvertimeShape(c, v)
        /\ c.pc = "period"
    BY <2>2, NewOvertimeAssumption
    DEF IdleOvertimeCall, OvertimeCall, OvertimeShape, OvertimeInProgress, Creating
  <2> HIDE DEF c
  <2>4. \/ overtimeCall' = [overtimeCall EXCEPT ![v] = c]
        \/ overtimeCall' = [overtimeCall EXCEPT ![v] = OvertimeAnswer("refused")]
    BY <2>1 DEF c
  <2>5. Result
    BY <1>2, <2>3, <2>4
  <2> QED
    BY <1>3, <2>5 DEF CreateOvertime, Result
<1>4. CASE UpdateOvertime(v)
  <2>1. PICK o \in OvertimeId, e \in EmployeeId, dto \in OvertimeDto :
          \/ overtimeCall' = [overtimeCall EXCEPT ![v] =
               [IdleOvertimeCall EXCEPT !.op = "update", !.overtimeId = o,
                  !.startTime = dto.startTime, !.endTime = dto.endTime,
                  !.hoursWorked = dto.hoursWorked,
                  !.existing = OwnOvertime(o, e), !.pc = "write"]]
          \/ overtimeCall' = [overtimeCall EXCEPT ![v] = OvertimeAnswer("refused")]
    BY <1>4 DEF UpdateOvertime
  <2> DEFINE c == [IdleOvertimeCall EXCEPT !.op = "update", !.overtimeId = o,
                     !.startTime = dto.startTime, !.endTime = dto.endTime,
                     !.hoursWorked = dto.hoursWorked,
                     !.existing = OwnOvertime(o, e), !.pc = "write"]
  <2>2. OwnOvertime(o, e) \in OvertimeRow \cup {None}
    BY <1>1 DEF OwnOvertime, DatabaseTypeOK, Table
  <2>3. c \in OvertimeCall /\ OvertimeShape(c, v) /\ c.pc = "write"
    BY <2>2, OvertimeDtoAssumption
    DEF IdleOvertimeCall, OvertimeCall, OvertimeShape, OvertimeInProgress, Creating
  <2>4. Result
    BY <1>2, <2>1, <2>3
  <2> QED
    BY <1>4, <2>4 DEF UpdateOvertime, Result
<1>5. CASE RemoveOvertime(v)
  <2>1. PICK o \in OvertimeId :
          \/ overtimeCall' = [overtimeCall EXCEPT ![v] =
               [IdleOvertimeCall EXCEPT !.op = "delete", !.overtimeId = o, !.pc = "audit"]]
          \/ overtimeCall' = [overtimeCall EXCEPT ![v] = OvertimeAnswer("refused")]
    BY <1>5 DEF RemoveOvertime
  <2> DEFINE c == [IdleOvertimeCall EXCEPT !.op = "delete", !.overtimeId = o, !.pc = "audit"]
  <2>2. c \in OvertimeCall /\ OvertimeShape(c, v) /\ c.pc = "audit"
    BY DEF IdleOvertimeCall, OvertimeCall, OvertimeShape, OvertimeInProgress, Creating
  <2>3. Result
    BY <1>2, <2>1, <2>2
  <2> QED
    BY <1>5, <2>3 DEF RemoveOvertime, Result
<1>6. CASE UpdateOvertimeStatus(v)
  <2>1. PICK o \in OvertimeId, status \in OvertimeStatus :
          \/ overtimeCall' = [overtimeCall EXCEPT ![v] =
               [IdleOvertimeCall EXCEPT !.op = "status", !.overtimeId = o, !.status = status,
                  !.existing = overtimes[o], !.pc = "status"]]
          \/ overtimeCall' = [overtimeCall EXCEPT ![v] = OvertimeAnswer("refused")]
    BY <1>6 DEF UpdateOvertimeStatus
  <2> DEFINE c == [IdleOvertimeCall EXCEPT !.op = "status", !.overtimeId = o, !.status = status,
                     !.existing = overtimes[o], !.pc = "status"]
  <2>2. overtimes[o] \in OvertimeRow \cup {None}
    BY <1>1 DEF DatabaseTypeOK, Table
  <2>3. c \in OvertimeCall /\ OvertimeShape(c, v) /\ c.pc = "status"
    BY <2>2 DEF IdleOvertimeCall, OvertimeCall, OvertimeShape, OvertimeInProgress, Creating
  <2>4. Result
    BY <1>2, <2>1, <2>3
  <2> QED
    BY <1>6, <2>4 DEF UpdateOvertimeStatus, Result
<1> QED
  BY <1>3, <1>4, <1>5, <1>6 DEF OvertimeStart, Result

(* A statement that writes a row changes neither its employee, its period  *)
(* nor its day, or deletes it.                                             *)
LEMMA WriteOvertimeRowOK ==
  ASSUME ShapeInv, NEW v \in OvertimeRequest, overtimeCall[v].pc \in OvertimeInProgress,
         NEW row, NEW after, NEW o, o = overtimeCall[v].overtimeId,
         overtimes[o] # None =>
           /\ \/ row = None
              \/ /\ row \in OvertimeRow /\ SameOwner(row, overtimes[o])
                 /\ row.date = overtimes[o].date
           /\ after \in OvertimeCall /\ OvertimeShape(after, v),
         WriteOvertimeRow(v, row, after)
  PROVE  OvertimeCallsOK' /\ OvertimesRewritten /\ UNCHANGED <<auditVars, today>>
<1>1. /\ OvertimeCallsOK /\ OvertimeShape(overtimeCall[v], v) /\ o \in OvertimeId
      /\ overtimes \in [OvertimeId -> OvertimeRow \cup {None}]
  BY DEF ShapeInv, OvertimeCallsOK, OvertimeShape, PayrollInv, DatabaseTypeOK, Table
<1>2. CASE overtimes[o] # None
  <2>1. overtimeCall' = [overtimeCall EXCEPT ![v] = after]
    BY <1>2 DEF WriteOvertimeRow
  <2>2. OvertimeCallsOK'
    BY <1>1, <1>2, <2>1, OneOvertimeCall
  <2>3. overtimes' = [overtimes EXCEPT ![o] = row]
    BY <1>2 DEF WriteOvertimeRow
  <2>4. overtimes' \in Table(OvertimeId, OvertimeRow)
    BY <1>1, <1>2, <2>3 DEF Table
  <2>5. \A y \in OvertimeId :
          overtimes'[y] # None => /\ SameOwner(overtimes'[y], overtimes[y])
                                  /\ overtimes'[y].date = overtimes[y].date
    BY <1>1, <1>2, <2>3 DEF SameOwner
  <2> QED
    BY <2>2, <2>4, <2>5 DEF OvertimesRewritten, WriteOvertimeRow
<1>3. CASE overtimes[o] = None
  <2>1. OvertimeEnds(v, "crashed") /\ UNCHANGED overtimes
    BY <1>3 DEF WriteOvertimeRow
  <2>2. OvertimeCallsOK'
    BY <1>1, <2>1, OvertimeCallEnds DEF OvertimeEnded
  <2> QED
    BY <1>1, <2>1, <2>2 DEF OvertimesRewritten, WriteOvertimeRow, SameOwner, Table
<1> QED
  BY <1>2, <1>3

(* What a step of a call on overtimes does: nothing to the tables, a row   *)
(* changed or deleted, or a new row of a day without one.                  *)
OvertimeNews(v) == /\ overtimeCall[v].pc = "insert" /\ overtimeCall'[v].pc = "audit"
                   /\ SameOvertimeDay(v) = {} /\ HasParents(NewOvertime(v))
                   /\ OvertimeInserted(NewOvertimeId[v], NewOvertime(v))

LEMMA InsertOvertimeOK ==
  ASSUME ShapeInv, NEW v \in OvertimeRequest, InsertOvertime(v)
  PROVE  OvertimeCallsOK' /\ (UNCHANGED dbVars \/ OvertimeNews(v))
<1>1. /\ OvertimeCallsOK /\ overtimeCall[v] \in OvertimeCall /\ OvertimeShape(overtimeCall[v], v)
      /\ overtimeCall \in [OvertimeRequest -> OvertimeCall] /\ overtimeCall[v].pc = "insert"
  BY DEF ShapeInv, OvertimeCallsOK, InsertOvertime
<1> DEFINE c == [overtimeCall[v] EXCEPT !.pc = "audit", !.written = NewOvertime(v)]
           insertable == HasParents(NewOvertime(v)) /\ SameOvertimeDay(v) = {}
<1>2. NewOvertime(v) \in OvertimeRow /\ overtimeCall[v].overtimeId = NewOvertimeId[v]
  BY <1>1 DEF NewOvertime, OvertimeRow, OvertimeStatus, OvertimeShape, Creating
<1>3. c \in OvertimeCall /\ OvertimeShape(c, v) /\ c.pc = "audit"
  BY <1>1, <1>2 DEF OvertimeCall, OvertimeShape, OvertimeInProgress, Creating
<1>4. CASE insertable
  <2>1. overtimeCall' = [overtimeCall EXCEPT ![v] = c]
    BY <1>1, <1>4 DEF InsertOvertime
  <2>2. overtimes' = [overtimes EXCEPT ![NewOvertimeId[v]] = NewOvertime(v)]
    BY <1>2, <1>4 DEF InsertOvertime
  <2> HIDE DEF c
  <2>3. OvertimeCallsOK' /\ overtimeCall'[v].pc = "audit"
    BY <1>1, <1>3, <2>1, OneOvertimeCall
  <2> QED
    BY <1>1, <1>2, <1>4, <2>2, <2>3, NewOvertimeAssumption
    DEF OvertimeNews, OvertimeInserted, InsertOvertime
<1>5. CASE ~insertable
  <2>1. OvertimeEnds(v, "crashed") /\ UNCHANGED overtimes
    BY <1>5 DEF InsertOvertime
  <2> QED
    BY <1>1, <2>1, OvertimeCallEnds DEF InsertOvertime, OvertimeEnded, tablesButOvertimes, dbVars
<1> QED
  BY <1>4, <1>5

(* The row an update or a change of status writes is the row it overwrites, *)
(* but for times, hours or status.                                         *)
LEMMA OvertimeWrites ==
  ASSUME ShapeInv, NEW v \in OvertimeRequest, NEW o, o = overtimeCall[v].overtimeId,
         WriteOvertime(v) \/ WriteOvertimeStatus(v)
  PROVE  \E row :
           /\ WriteAndAudit(v, row) /\ overtimeCall[v].pc \in OvertimeInProgress
           /\ overtimes[o] # None => /\ row \in OvertimeRow /\ SameOwner(row, overtimes[o])
                                      /\ row.date = overtimes[o].date
<1>1. /\ overtimeCall[v] \in OvertimeCall /\ OvertimeShape(overtimeCall[v], v)
      /\ overtimes \in [OvertimeId -> OvertimeRow \cup {None}]
  BY DEF ShapeInv, OvertimeCallsOK, PayrollInv, DatabaseTypeOK, Table
<1>2. CASE WriteOvertime(v)
  <2> DEFINE c == overtimeCall[v]
             Given(new, old) == IF new = None THEN old ELSE new
             row == [overtimes[o] EXCEPT !.startTime = Given(c.startTime, @),
                                         !.endTime = Given(c.endTime, @),
                                         !.hoursWorked = Given(c.hoursWorked, @)]
  <2>1. /\ c.startTime \in TimeOfDay \cup {None} /\ c.endTime \in TimeOfDay \cup {None}
        /\ c.hoursWorked \in Hours \cup {None} /\ o \in OvertimeId
        /\ c.pc \in OvertimeInProgress
    BY <1>1, <1>2 DEF OvertimeCall, WriteOvertime, OvertimeShape, OvertimeInProgress
  <2>2. ASSUME overtimes[o] # None
        PROVE  row \in OvertimeRow /\ SameOwner(row, overtimes[o]) /\ row.date = overtimes[o].date
    <3>1. overtimes[o] \in OvertimeRow
      BY <1>1, <2>1, <2>2
    <3>2. /\ Given(c.startTime, overtimes[o].startTime) \in TimeOfDay
          /\ Given(c.endTime, overtimes[o].endTime) \in TimeOfDay
          /\ Given(c.hoursWorked, overtimes[o].hoursWorked) \in Hours
      BY <2>1, <3>1 DEF OvertimeRow
    <3> HIDE DEF c, Given
    <3> QED
      BY <2>2, <3>1, <3>2 DEF OvertimeRow, SameOwner
  <2>3. WriteAndAudit(v, row)
    BY <1>2 DEF WriteOvertime
  <2> HIDE DEF row
  <2> QED
    BY <2>1, <2>2, <2>3
<1>3. CASE WriteOvertimeStatus(v)
  <2> DEFINE row == [overtimes[o] EXCEPT !.status = overtimeCall[v].status]
  <2>1. /\ overtimeCall[v].status \in OvertimeStatus /\ o \in OvertimeId
        /\ overtimeCall[v].pc \in OvertimeInProgress
    BY <1>1, <1>3 DEF WriteOvertimeStatus, OvertimeShape, OvertimeInProgress
  <2>2. overtimes[o] # None => /\ row \in OvertimeRow /\ SameOwner(row, overtimes[o])
                               /\ row.date = overtimes[o].date
    BY <1>1, <2>1 DEF OvertimeRow, SameOwner
  <2>3. WriteAndAudit(v, row)
    BY <1>3 DEF WriteOvertimeStatus
  <2> HIDE DEF row
  <2> QED
    BY <2>1, <2>2, <2>3
<1> QED
  BY <1>2, <1>3

LEMMA OvertimeStepOK ==
  ASSUME ShapeInv, NEW v \in OvertimeRequest, OvertimeStep(v)
  PROVE  /\ OvertimeCallsOK'
         /\ overtimeCall[v].pc \in OvertimeInProgress
         /\ UNCHANGED dbVars \/ OvertimesRewritten \/ OvertimeNews(v)
         /\ today' = today
         /\ UNCHANGED auditVars \/ LogAudit(OvertimeEntry(v))
<1>1. /\ OvertimeCallsOK /\ overtimeCall[v] \in OvertimeCall /\ OvertimeShape(overtimeCall[v], v)
      /\ overtimeCall \in [OvertimeRequest -> OvertimeCall]
      /\ overtimes \in [OvertimeId -> OvertimeRow \cup {None}]
  BY DEF ShapeInv, OvertimeCallsOK, PayrollInv, DatabaseTypeOK, Table
<1>2. \A how \in OvertimeEnded : OvertimeEnds(v, how) => OvertimeCallsOK'
  BY <1>1, OvertimeCallEnds
<1>3. CASE FindActivePeriod(v)
  <2>1. ASSUME NEW p \in PeriodId,
               overtimeCall' = [overtimeCall EXCEPT ![v].periodId = p, ![v].pc = "existing"]
        PROVE  OvertimeCallsOK'
    <3> DEFINE c == [overtimeCall[v] EXCEPT !.periodId = p, !.pc = "existing"]
    <3>1. c \in OvertimeCall /\ OvertimeShape(c, v)
      BY <1>1, <1>3 DEF FindActivePeriod, OvertimeCall, OvertimeShape, OvertimeInProgress, Creating
    <3>2. overtimeCall' = [overtimeCall EXCEPT ![v] = c]
      BY <1>1, <2>1
    <3> HIDE DEF c
    <3> QED
      BY <1>1, <3>1, <3>2, OneOvertimeCall
  <2>2. \/ OvertimeEnds(v, "refused")
        \/ \E p \in PeriodId :
             overtimeCall' = [overtimeCall EXCEPT ![v].periodId = p, ![v].pc = "existing"]
    BY <1>3 DEF FindActivePeriod
  <2>3. OvertimeCallsOK'
    BY <1>2, <2>1, <2>2 DEF OvertimeEnded
  <2> QED
    BY <1>3, <2>3 DEF FindActivePeriod, OvertimeInProgress
<1>4. CASE FindExistingOvertime(v)
  <2>1. OvertimeShape([overtimeCall[v] EXCEPT !.pc = "attendance"], v)
    BY <1>1, <1>4 DEF FindExistingOvertime, OvertimeShape, OvertimeCall, OvertimeInProgress, Creating
  <2>2. OvertimeGoto(v, "attendance") \/ OvertimeEnds(v, "refused")
    BY <1>4 DEF FindExistingOvertime
  <2>3. OvertimeCallsOK'
    BY <1>1, <1>2, <2>1, <2>2, OvertimeCallMovesOn DEF OvertimeInProgress, OvertimeEnded
  <2> QED
    BY <1>4, <2>3 DEF FindExistingOvertime, OvertimeInProgress
<1>5. CASE CheckAttendance(v)
  <2>1. OvertimeShape([overtimeCall[v] EXCEPT !.pc = "insert"], v)
    BY <1>1, <1>5 DEF CheckAttendance, OvertimeShape, OvertimeCall, OvertimeInProgress, Creating
  <2>2. OvertimeGoto(v, "insert") \/ OvertimeEnds(v, "refused")
    BY <1>5 DEF CheckAttendance
  <2>3. OvertimeCallsOK'
    BY <1>1, <1>2, <2>1, <2>2, OvertimeCallMovesOn DEF OvertimeInProgress, OvertimeEnded
  <2> QED
    BY <1>5, <2>3 DEF CheckAttendance, OvertimeInProgress
<1>6. CASE InsertOvertime(v)
  BY <1>6, InsertOvertimeOK DEF InsertOvertime, OvertimeInProgress
<1> DEFINE o == overtimeCall[v].overtimeId
           After(row) == [overtimeCall[v] EXCEPT !.pc = "audit", !.written = row]
<1>7. ASSUME NEW row \in OvertimeRow, overtimeCall[v].pc \in OvertimeInProgress
      PROVE  After(row) \in OvertimeCall /\ OvertimeShape(After(row), v)
  <2>1. o \in OvertimeId
    BY <1>1, <1>7 DEF OvertimeShape
  <2>2. [overtimeCall[v] EXCEPT !.pc = "audit", !.written = row] \in OvertimeCall
    BY <1>1, <1>7, ZenonT(30) DEF OvertimeCall, OvertimeInProgress
  <2>3. After(row).pc = "audit" /\ After(row).overtimeId = o
    BY <1>1 DEF OvertimeCall
  <2> QED
    BY <2>1, <2>2, <2>3 DEF OvertimeShape, OvertimeInProgress, Creating
<1>8. CASE WriteOvertime(v) \/ WriteOvertimeStatus(v)
  <2>1. PICK row : /\ WriteAndAudit(v, row) /\ overtimeCall[v].pc \in OvertimeInProgress
                   /\ overtimes[o] # None => /\ row \in OvertimeRow /\ SameOwner(row, overtimes[o])
                                              /\ row.date = overtimes[o].date
    BY <1>8, OvertimeWrites
  <2>2. WriteOvertimeRow(v, row, After(row))
    BY <2>1 DEF WriteAndAudit
  <2> HIDE DEF After
  <2> QED
    BY <1>7, <2>1, <2>2, WriteOvertimeRowOK
<1>9. CASE DeleteOvertime(v)
  <2>1. OvertimeAnswer("done") \in OvertimeCall /\ OvertimeShape(OvertimeAnswer("done"), v)
    BY DEF OvertimeAnswer, IdleOvertimeCall, OvertimeCall, OvertimeShape, OvertimeInProgress,
       OvertimeEnded, Creating
  <2> QED
    BY <1>9, <2>1, WriteOvertimeRowOK DEF DeleteOvertime, OvertimeInProgress
<1>11. CASE AuditOvertime(v)
  <2>1. OvertimeShape([overtimeCall[v] EXCEPT !.pc = "delete"], v)
    BY <1>1, <1>11 DEF AuditOvertime, OvertimeShape, OvertimeCall, OvertimeInProgress, Creating
  <2>2. OvertimeGoto(v, "delete") \/ OvertimeEnds(v, "done")
    BY <1>11 DEF AuditOvertime
  <2>3. OvertimeCallsOK'
    BY <1>1, <1>2, <2>1, <2>2, OvertimeCallMovesOn DEF OvertimeInProgress, OvertimeEnded
  <2> QED
    BY <1>11, <2>3 DEF AuditOvertime, OvertimeInProgress
<1>12. CASE OvertimeCrash(v)
  BY <1>2, <1>12 DEF OvertimeCrash, OvertimeEnded
<1> QED
  BY <1>3, <1>4, <1>5, <1>6, <1>8, <1>9, <1>11, <1>12 DEF OvertimeStep
-----------------------------------------------------------------------------
(* The previews.                                                           *)

LEMMA OnePart ==
  ASSUME PreviewTypeOK, NEW q \in PreviewRequest, NEW e, previewCall[q] # None,
         e \in DOMAIN previewCall[q], NEW part \in Part,
         previewCall' = [previewCall EXCEPT ![q][e] = part]
  PROVE  PreviewTypeOK'
<1>1. PICK E \in SUBSET EmployeeId : previewCall[q] \in [E -> Part]
  BY DEF PreviewTypeOK
<1>2. previewCall'[q] \in [E -> Part]
  BY <1>1 DEF PreviewTypeOK
<1> QED
  BY <1>2 DEF PreviewTypeOK

LEMMA PreviewOK ==
  ASSUME ShapeInv, NEW q \in PreviewRequest, PreviewStart(q) \/ PreviewStep(q)
  PROVE  /\ PreviewTypeOK' /\ UNCHANGED dbVars
         /\ UNCHANGED auditVars \/ \E entry : LogAudit(entry)
<1>1. PreviewTypeOK /\ DatabaseTypeOK
  BY DEF ShapeInv, PreviewsOK, PayrollInv
<1>2. FreshPart \in Part /\ [FreshPart EXCEPT !.pc = "failed"] \in Part
  BY DEF FreshPart, Part, PartInProgress, PartEnded
<1>3. CASE PreviewStart(q)
  <2>1. PICK E \in SUBSET EmployeeId :
          previewCall' = [previewCall EXCEPT ![q] = [e \in E |-> FreshPart]]
    <3>1. CASE GeneratePayslip(q)
      BY <3>1 DEF GeneratePayslip
    <3>2. CASE GeneratePayslipSummary(q)
      BY <3>2 DEF GeneratePayslipSummary
    <3> QED
      BY <1>3, <3>1, <3>2 DEF PreviewStart
  <2>2. previewCall'[q] \in [E -> Part]
    BY <1>1, <1>2, <2>1 DEF PreviewTypeOK
  <2>3. PreviewTypeOK'
    BY <1>1, <2>1, <2>2 DEF PreviewTypeOK
  <2> QED
    BY <1>3, <2>3 DEF PreviewStart, GeneratePayslip, GeneratePayslipSummary
<1>4. ASSUME NEW e \in EmployeeId,
             \/ FindEmployee(q, e)      \/ FindPeriod(q, e)
             \/ FindAttendancesOf(q, e) \/ FindOvertimesOf(q, e)
             \/ FindReimbursementsOf(q, e)
             \/ AuditPreview(q, e)      \/ PartFails(q, e)
      PROVE  /\ PreviewTypeOK' /\ UNCHANGED dbVars
             /\ UNCHANGED auditVars \/ \E entry : LogAudit(entry)
  <2> DEFINE old == previewCall[q][e]
  <2>1. previewCall[q] # None /\ e \in DOMAIN previewCall[q]
    BY <1>4 DEF PartAt, FindEmployee, FindPeriod, FindAttendancesOf, FindOvertimesOf,
       FindReimbursementsOf, AuditPreview, PartFails
  <2>2. old \in Part /\ q \in DOMAIN previewCall
    BY <1>1, <2>1 DEF PreviewTypeOK
  <2>3. \A part \in Part : previewCall' = [previewCall EXCEPT ![q][e] = part] => PreviewTypeOK'
    BY <1>1, <2>1, OnePart
  <2>4. ASSUME FindEmployee(q, e)
        PROVE  PreviewTypeOK'
    <3> DEFINE part == [old EXCEPT !.pc = "period", !.found = employees[e] # None]
    <3>1. part \in Part
      BY <2>2 DEF Part, PartInProgress
    <3>2. previewCall' = [previewCall EXCEPT ![q][e] = part]
      BY <2>1, <2>2, <2>4 DEF FindEmployee, Part
    <3> HIDE DEF part
    <3> QED
      BY <2>3, <3>1, <3>2
  <2>5. ASSUME FindPeriod(q, e)
        PROVE  PreviewTypeOK'
    <3>1. ASSUME NEW p \in PeriodId,
                 previewCall' = [previewCall EXCEPT ![q][e].pc = "attendances", ![q][e].periodId = p]
          PROVE  PreviewTypeOK'
      <4> DEFINE part == [old EXCEPT !.pc = "attendances", !.periodId = p]
      <4>1. part \in Part
        BY <2>2, <3>1 DEF Part, PartInProgress
      <4>2. previewCall' = [previewCall EXCEPT ![q][e] = part]
        BY <2>1, <2>2, <3>1 DEF Part
      <4> HIDE DEF part
      <4> QED
        BY <2>3, <4>1, <4>2
    <3>2. \/ \E p \in PeriodId :
               previewCall' = [previewCall EXCEPT ![q][e].pc = "attendances", ![q][e].periodId = p]
          \/ previewCall' = [previewCall EXCEPT ![q][e] = [FreshPart EXCEPT !.pc = "failed"]]
      BY <2>5 DEF FindPeriod, CurrentPeriods
    <3> QED
      BY <1>2, <2>3, <3>1, <3>2
  <2>6. ASSUME FindAttendancesOf(q, e)
        PROVE  PreviewTypeOK'
    <3>1. PICK n \in Nat :
            previewCall' = [previewCall EXCEPT ![q][e].pc = "overtimes", ![q][e].attendedDays = n]
      BY <1>1, <2>6, SomeAttendances DEF FindAttendancesOf
    <3> DEFINE part == [old EXCEPT !.pc = "overtimes", !.attendedDays = n]
    <3>2. part \in Part
      BY <2>2 DEF Part, PartInProgress
    <3>3. previewCall' = [previewCall EXCEPT ![q][e] = part]
      BY <2>1, <2>2, <3>1 DEF Part
    <3> HIDE DEF part
    <3> QED
      BY <2>3, <3>2, <3>3
  <2>7. ASSUME FindOvertimesOf(q, e)
        PROVE  PreviewTypeOK'
    <3> DEFINE found == {<<o, overtimes[o].hoursWorked>> :
                           o \in {x \in OvertimeId : Countable(overtimes[x], q, e)}}
               part == [old EXCEPT !.pc = "reimbursements", !.overtimes = found]
    <3>1. found \in SUBSET (OvertimeId \X Hours)
      BY <1>1 DEF DatabaseTypeOK, Table, OvertimeRow, Countable
    <3>2. previewCall' = [previewCall EXCEPT ![q][e].pc = "reimbursements", ![q][e].overtimes = found]
      BY <2>7 DEF FindOvertimesOf
    <3> HIDE DEF found
    <3>3. part \in Part
      BY <2>2, <3>1 DEF Part, PartInProgress
    <3>4. previewCall' = [previewCall EXCEPT ![q][e] = part]
      BY <2>1, <2>2, <3>2 DEF Part
    <3> HIDE DEF part
    <3> QED
      BY <2>3, <3>3, <3>4
  <2>8. ASSUME FindReimbursementsOf(q, e)
        PROVE  PreviewTypeOK'
    <3> DEFINE found == {<<c, reimbursements[c].amount>> :
                           c \in {x \in ReimbursementId : Countable(reimbursements[x], q, e)}}
               part == [old EXCEPT !.pc = "audit", !.reimbursements = found]
    <3>1. found \in SUBSET (ReimbursementId \X Amount)
      BY <1>1 DEF DatabaseTypeOK, Table, ReimbursementRow, Countable
    <3>2. previewCall' = [previewCall EXCEPT ![q][e].pc = "audit", ![q][e].reimbursements = found]
      BY <2>8 DEF FindReimbursementsOf
    <3> HIDE DEF found
    <3>3. part \in Part
      BY <2>2, <3>1 DEF Part, PartInProgress
    <3>4. previewCall' = [previewCall EXCEPT ![q][e] = part]
      BY <2>1, <2>2, <3>2 DEF Part
    <3> HIDE DEF part
    <3> QED
      BY <2>3, <3>3, <3>4
  <2>9. ASSUME AuditPreview(q, e)
        PROVE  PreviewTypeOK'
    <3> DEFINE part == [old EXCEPT !.pc = "done"]
    <3>1. part \in Part
      BY <2>2 DEF Part, PartEnded
    <3>2. previewCall' = [previewCall EXCEPT ![q][e] = part]
      BY <2>1, <2>2, <2>9 DEF AuditPreview
    <3> HIDE DEF part
    <3> QED
      BY <2>3, <3>1, <3>2
  <2>10. ASSUME PartFails(q, e)
         PROVE  PreviewTypeOK'
    BY <1>2, <2>3, <2>10 DEF PartFails
  <2>11. PreviewTypeOK'
    BY <1>4, <2>4, <2>5, <2>6, <2>7, <2>8, <2>9, <2>10
  <2>12. UNCHANGED dbVars /\ (UNCHANGED auditVars \/ \E entry : LogAudit(entry))
    BY <1>4 DEF FindEmployee, FindPeriod, FindAttendancesOf, FindOvertimesOf,
       FindReimbursementsOf, AuditPreview, PartFails
  <2> QED
    BY <2>11, <2>12
<1> QED
  BY <1>3, <1>4 DEF PreviewStep
-----------------------------------------------------------------------------
(* The type invariant.                                                     *)

LEMMA ShapeInit == RecordsInit => ShapeInv
<1> SUFFICES ASSUME RecordsInit
             PROVE  ShapeInv
  OBVIOUS
<1>1. PayrollInv
  BY InitOK DEF RecordsInit
<1>2. ClaimCallsOK
  BY DEF RecordsInit, ClaimInit, IdleClaimCall, ClaimCallsOK, ClaimCall, ClaimShape, ClaimInProgress
<1>3. OvertimeCallsOK
  BY DEF RecordsInit, OvertimeInit, IdleOvertimeCall, OvertimeCallsOK, OvertimeCall, OvertimeShape,
     OvertimeInProgress, Creating
<1>4. PreviewsOK
  BY DEF RecordsInit, PreviewInit, PreviewsOK, PreviewTypeOK
<1> QED
  BY <1>1, <1>2, <1>3, <1>4 DEF ShapeInv

LEMMA TablesTyped ==
  ASSUME DatabaseTypeOK,
         \/ UNCHANGED dbVars \/ ClaimsRewritten \/ OvertimesRewritten
         \/ \E c, row : ClaimInserted(c, row) \/ OvertimeInserted(c, row)
  PROVE  DatabaseTypeOK'
BY DEF DatabaseTypeOK, dbVars, ClaimsRewritten, OvertimesRewritten, ClaimInserted, OvertimeInserted,
   tablesButClaims, tablesButOvertimes, Table

LEMMA RunsStay ==
  ASSUME PayrollInv, DatabaseTypeOK', UNCHANGED run
  PROVE  PayrollInv'
BY DEF PayrollInv, RunsOK

LEMMA CurrentTyped ==
  ASSUME current \subseteq PreviewRequest, TrackPreviews
  PROVE  current' \subseteq PreviewRequest
BY DEF TrackPreviews

RecordsNext == Arrival \/ Service \/ Departures

(* Each step of the composition is one of these.                           *)
LEMMA StepCases ==
  ASSUME RecordsNext
  PROVE  \/ /\ \/ \E r \in PayrollRequest : RunStep(r)
               \/ \E e \in EmployeeId : RemoveEmployee(e)
            /\ UNCHANGED <<auditVars, today, claimCall, overtimeCall, previewCall>>
         \/ /\ \E q \in ClaimRequest : ClaimStart(q) \/ ClaimStep(q)
            /\ UNCHANGED <<run, overtimeCall, previewCall>>
         \/ /\ \E v \in OvertimeRequest : OvertimeStart(v) \/ OvertimeStep(v)
            /\ UNCHANGED <<run, claimCall, previewCall>>
         \/ /\ \E q \in PreviewRequest : PreviewStart(q) \/ PreviewStep(q)
            /\ UNCHANGED <<today, run, claimCall, overtimeCall>>
BY DEF RecordsNext, Arrival, PayrollArrives, ClaimCallArrives, OvertimeCallArrives,
   PreviewCallArrives, Service, PayrollMoves, ClaimCallMoves, OvertimeCallMoves, PreviewCallMoves,
   Departures, RunStep

LEMMA ShapeStep ==
  ASSUME ShapeInv, RecordsNext
  PROVE  ShapeInv'
<1>1. /\ PayrollInv /\ ClaimCallsOK /\ OvertimeCallsOK /\ PreviewTypeOK /\ DatabaseTypeOK
      /\ current \subseteq PreviewRequest
  BY DEF ShapeInv, PreviewsOK, PayrollInv
<1>2. current' \subseteq PreviewRequest
  BY <1>1, CurrentTyped
  DEF RecordsNext, Arrival, PayrollArrives, ClaimCallArrives, OvertimeCallArrives,
      PreviewCallArrives, Service, PayrollMoves, ClaimCallMoves, OvertimeCallMoves,
      PreviewCallMoves, Departures
<1>3. CASE /\ \/ \E r \in PayrollRequest : RunStep(r)
              \/ \E e \in EmployeeId : RemoveEmployee(e)
           /\ UNCHANGED <<auditVars, today, claimCall, overtimeCall, previewCall>>
  <2>1. PayrollInv'
    BY <1>1, <1>3, PayrollInvInductive DEF PayrollNext, RosterStep
  <2> QED
    BY <1>1, <1>2, <1>3, <2>1 DEF ShapeInv, ClaimCallsOK, OvertimeCallsOK, PreviewsOK, PreviewTypeOK
<1>4. CASE /\ \E q \in ClaimRequest : ClaimStart(q) \/ ClaimStep(q)
           /\ UNCHANGED <<run, overtimeCall, previewCall>>
  <2>1. ClaimCallsOK' /\ DatabaseTypeOK'
    BY <1>1, <1>4, ClaimStartOK, ClaimStepOK, TablesTyped DEF ClaimNews
  <2> QED
    BY <1>1, <1>2, <1>4, <2>1, RunsStay DEF ShapeInv, OvertimeCallsOK, PreviewsOK, PreviewTypeOK
<1>5. CASE /\ \E v \in OvertimeRequest : OvertimeStart(v) \/ OvertimeStep(v)
           /\ UNCHANGED <<run, claimCall, previewCall>>
  <2>1. OvertimeCallsOK' /\ DatabaseTypeOK'
    BY <1>1, <1>5, OvertimeStartOK, OvertimeStepOK, TablesTyped DEF OvertimeNews
  <2> QED
    BY <1>1, <1>2, <1>5, <2>1, RunsStay DEF ShapeInv, ClaimCallsOK, PreviewsOK, PreviewTypeOK
<1>6. CASE /\ \E q \in PreviewRequest : PreviewStart(q) \/ PreviewStep(q)
           /\ UNCHANGED <<today, run, claimCall, overtimeCall>>
  <2>1. PreviewTypeOK' /\ DatabaseTypeOK'
    BY <1>1, <1>6, PreviewOK, TablesTyped
  <2> QED
    BY <1>1, <1>2, <1>6, <2>1, RunsStay DEF ShapeInv, ClaimCallsOK, OvertimeCallsOK, PreviewsOK
<1> QED
  BY <1>3, <1>4, <1>5, <1>6, StepCases

(* Only payroll and departures touch what payroll keeps account of.        *)
LEMMA PayrollOrNothing ==
  ASSUME ShapeInv, RecordsNext
  PROVE  \/ \E r \in PayrollRequest : RunStep(r)
         \/ \E e \in EmployeeId : RemoveEmployee(e)
         \/ UNCHANGED <<run, employees, attendancePeriods, payslips>>
<1>1. ASSUME NEW q \in ClaimRequest, ClaimStart(q) \/ ClaimStep(q)
      PROVE  UNCHANGED <<employees, attendancePeriods, payslips>>
  <2>1. UNCHANGED dbVars \/ ClaimsRewritten \/ ClaimNews(q)
    BY <1>1, ClaimStartOK, ClaimStepOK DEF ShapeInv, PayrollInv
  <2> QED
    BY <2>1 DEF dbVars, ClaimsRewritten, ClaimNews, ClaimInserted, tablesButClaims
<1>2. ASSUME NEW v \in OvertimeRequest, OvertimeStart(v) \/ OvertimeStep(v)
      PROVE  UNCHANGED <<employees, attendancePeriods, payslips>>
  <2>1. UNCHANGED dbVars \/ OvertimesRewritten \/ OvertimeNews(v)
    BY <1>2, OvertimeStartOK, OvertimeStepOK DEF ShapeInv, PayrollInv
  <2> QED
    BY <2>1 DEF dbVars, OvertimesRewritten, OvertimeNews, OvertimeInserted, tablesButOvertimes
<1>3. ASSUME NEW q \in PreviewRequest, PreviewStart(q) \/ PreviewStep(q)
      PROVE  UNCHANGED <<employees, attendancePeriods, payslips>>
  BY <1>3, PreviewOK DEF ShapeInv, PreviewsOK, dbVars
<1> QED
  BY <1>1, <1>2, <1>3, StepCases

LEMMA ShapeInductive == ShapeInv /\ [RecordsNext]_recordVars => ShapeInv'
<1> SUFFICES ASSUME ShapeInv, UNCHANGED recordVars
             PROVE  ShapeInv'
  BY ShapeStep
<1>1. DatabaseTypeOK' /\ PayrollInv'
  BY TablesTyped, RunsStay DEF ShapeInv, PayrollInv, recordVars
<1> QED
  BY <1>1 DEF ShapeInv, recordVars, ClaimCallsOK, OvertimeCallsOK, PreviewsOK, PreviewTypeOK

(* Every table, run, call and preview keeps its type.                      *)
THEOREM RecordsTypeCorrect == RecordsSpec => []RecordsTypeOK
<1>1. ShapeInv => RecordsTypeOK
  BY DEF ShapeInv, RecordsTypeOK, PayrollInv, RunsOK, PayrollTypeOK, ClaimCallsOK, ClaimTypeOK,
     OvertimeCallsOK, OvertimeTypeOK, PreviewsOK
<1> QED
  BY <1>1, ShapeInit, ShapeInductive, PTL DEF RecordsSpec, RecordsNext
-----------------------------------------------------------------------------
(* What is paid by whom.                                                   *)

HasCalculation(r) == run[r].pc \in InLoop \ {"next"}

(* The payslips there are, and those that runs are about to insert.        *)
Entries == payslips \cup {NewPayslip(r) : r \in {x \in PayrollRequest : HasCalculation(x)}}

(* Each with its employee, its period and the records it pays.             *)
OvertimeList(s) == <<s.employeeId, s.attendancePeriodId, s.overtimes>>
ClaimList(s)    == <<s.employeeId, s.attendancePeriodId, s.reimbursements>>

OvertimeLists == {OvertimeList(s) : s \in Entries}
ClaimLists    == {ClaimList(s) : s \in Entries}

(* A list just read from the table: it names each record once, and only    *)
(* records of its employee and period.                                     *)
Fresh(l, table) ==
  \A x \in l[3] : /\ table[x[1]] # None
                  /\ table[x[1]].employeeId = l[1] /\ table[x[1]].attendancePeriodId = l[2]
                  /\ \A y \in l[3] : x[1] = y[1] => x = y

(* What remains of that later: lists that name one record are of one       *)
(* employee and period, those of the record while it is there.             *)
ListsAgree(lists, table) ==
  \A l \in lists : \A x \in l[3] :
    /\ table[x[1]] # None =>
         table[x[1]].employeeId = l[1] /\ table[x[1]].attendancePeriodId = l[2]
    /\ \A y \in l[3] : x[1] = y[1] => x = y
    /\ \A m \in lists : \A y \in m[3] : x[1] = y[1] => l[1] = m[1] /\ l[2] = m[2]

LEMMA AgreeStep ==
  ASSUME NEW lists, NEW after, NEW table, NEW tableAfter, ListsAgree(lists, table),
         \A l \in after : l \in lists \/ Fresh(l, table),
         \A l \in after : \A x \in l[3] :
           tableAfter[x[1]] # None => SameOwner(tableAfter[x[1]], table[x[1]])
  PROVE  ListsAgree(after, tableAfter)
<1>1. ASSUME NEW l \in after, NEW x \in l[3]
      PROVE  /\ \A y \in l[3] : x[1] = y[1] => x = y
             /\ table[x[1]] # None =>
                  table[x[1]].employeeId = l[1] /\ table[x[1]].attendancePeriodId = l[2]
  BY <1>1 DEF ListsAgree, Fresh
<1>2. ASSUME NEW l \in after, NEW x \in l[3], NEW m \in after, NEW y \in m[3], x[1] = y[1]
      PROVE  l[1] = m[1] /\ l[2] = m[2]
  <2>1. CASE l \in lists /\ m \in lists
    BY <1>2, <2>1 DEF ListsAgree
  <2>2. CASE Fresh(l, table) \/ Fresh(m, table)
    <3>1. table[x[1]] # None
      BY <1>2, <2>2 DEF Fresh
    <3> QED
      BY <1>1, <1>2, <3>1
  <2> QED
    BY <1>2, <2>1, <2>2
<1> QED
  BY <1>1, <1>2 DEF ListsAgree, SameOwner

ListsTypeOK == /\ \A l \in OvertimeLists : \A x \in l[3] : x[1] \in OvertimeId
               /\ \A l \in ClaimLists : \A x \in l[3] : x[1] \in ReimbursementId

LEMMA ListsTyped == PayrollInv => ListsTypeOK
<1> SUFFICES ASSUME PayrollInv
             PROVE  ListsTypeOK
  OBVIOUS
<1>1. ASSUME NEW s \in Entries
      PROVE  /\ s.overtimes \in SUBSET (OvertimeId \X Hours)
             /\ s.reimbursements \in SUBSET (ReimbursementId \X Amount)
  <2>1. CASE s \in payslips
    BY <2>1 DEF PayrollInv, DatabaseTypeOK, PayslipRow
  <2>2. CASE \E r \in PayrollRequest : HasCalculation(r) /\ s = NewPayslip(r)
    BY <2>2 DEF PayrollInv, RunsOK, RunShape, HasCalculation, NewPayslip, Calculation
  <2> QED
    BY <1>1, <2>1, <2>2 DEF Entries
<1> QED
  BY <1>1 DEF ListsTypeOK, OvertimeLists, ClaimLists, OvertimeList, ClaimList

LEMMA ListsTypedNext == PayrollInv' => ListsTypeOK'
BY ListsTyped, PTL

(* Two payslips of one employee and period are one.                        *)
PayslipKeys ==
  \A s, t \in payslips :
    s.employeeId = t.employeeId /\ s.attendancePeriodId = t.attendancePeriodId => s = t

(* The steps after which a run has no calculation at hand.                 *)
LEMMA NothingCalculated ==
  ASSUME PayrollInv, NEW r \in PayrollRequest,
         \/ ProcessPayroll(r) \/ LoadEmployees(r) \/ CreatePayslip(r) \/ FinishRun(r)
         \/ TransactionFails(r) \/ CommitUnacknowledged(r) \/ Crash(r)
  PROVE  run'[r].pc \notin InLoop \ {"next"}
<1>1. run \in [PayrollRequest -> RunRow] /\ run[r] \in RunRow
  BY DEF PayrollInv, RunsOK
<1>2. ProcessPayroll(r) => run'[r].pc \in {"rejected", "validated"}
  BY <1>1, ZenonT(30) DEF ProcessPayroll, IdleRun
<1>3. LoadEmployees(r) => run'[r].pc \in {"rejected", "next"}
  BY <1>1 DEF LoadEmployees, RunRow
<1>4. FinishRun(r) => run'[r].pc \in {"settled", "returned", "crashed"}
  BY <1>1 DEF FinishRun, RunRow
<1>5. Crash(r) => run'[r].pc = "crashed"
  BY <1>1 DEF Crash, RunRow
<1>6. ASSUME NEW done, NEW failed, EndTurn(r, done, failed)
      PROVE  run'[r].pc = "next"
  BY <1>1, <1>6 DEF EndTurn, RunRow
<1>7. EndTurnInError(r) => run'[r].pc = "next"
  BY <1>1 DEF EndTurnInError, RunRow
<1>8. CreatePayslip(r) \/ TransactionFails(r) \/ CommitUnacknowledged(r) => run'[r].pc = "next"
  BY <1>6, <1>7 DEF CreatePayslip, TransactionFails, CommitUnacknowledged
<1> QED
  BY <1>2, <1>3, <1>4, <1>5, <1>8 DEF InLoop

(* A step of a run as to what it has calculated and what it inserts.       *)
LEMMA RunCalculates ==
  ASSUME PayrollInv, NEW r \in PayrollRequest, RunStep(r)
  PROVE  /\ \A x \in PayrollRequest \ {r} : run'[x] = run[x]
         /\ \/ payslips' = payslips
            \/ /\ HasCalculation(r) /\ payslips' = payslips \cup {NewPayslip(r)}
               /\ ConflictsWith(NewPayslip(r)) = {}
         /\ UNCHANGED <<employees, attendances, overtimes, reimbursements>>
         /\ HasCalculation(r)' =>
              \/ Fresh(OvertimeList(NewPayslip(r)'), overtimes)
                   /\ Fresh(ClaimList(NewPayslip(r)'), reimbursements)
              \/ /\ HasCalculation(r)
                 /\ \/ OvertimeList(NewPayslip(r)') = OvertimeList(NewPayslip(r))
                    \/ Fresh(OvertimeList(NewPayslip(r)'), overtimes)
                 /\ \/ ClaimList(NewPayslip(r)') = ClaimList(NewPayslip(r))
                    \/ Fresh(ClaimList(NewPayslip(r)'), reimbursements)
<1>1. /\ run \in [PayrollRequest -> RunRow] /\ run[r] \in RunRow /\ RunShape(run[r])
      /\ HasCalculation(r) => run[r].calculation \in Calculation
  BY DEF PayrollInv, RunsOK, RunShape, HasCalculation
<1>2. \A x \in PayrollRequest \ {r} : run'[x] = run[x]
  BY <1>1
  DEF RunStep, HandlerStep, FailureStep, ProcessPayroll, LoadEmployees, BeginEmployee, EndTurn,
      CountAttendance, CountOvertime, CountReimbursements, GeneratePayslipNumber, CreatePayslip,
      FinishRun, TransactionFails, EndTurnInError, CommitUnacknowledged, Crash
<1>3. /\ UNCHANGED <<employees, attendances, overtimes, reimbursements>>
      /\ \/ payslips' = payslips
         \/ /\ HasCalculation(r) /\ payslips' = payslips \cup {NewPayslip(r)}
            /\ ConflictsWith(NewPayslip(r)) = {}
  BY DEF RunStep, HandlerStep, FailureStep, ProcessPayroll, LoadEmployees, BeginEmployee,
      CountAttendance, CountOvertime, CountReimbursements, GeneratePayslipNumber, CreatePayslip,
      FinishRun, TransactionFails, CommitUnacknowledged, Crash, dbVars, HasCalculation, InLoop,
      Insertable
<1>4. CASE \/ ProcessPayroll(r) \/ LoadEmployees(r) \/ CreatePayslip(r) \/ FinishRun(r)
           \/ TransactionFails(r) \/ CommitUnacknowledged(r) \/ Crash(r)
  BY <1>2, <1>3, <1>4, NothingCalculated DEF HasCalculation
<1>5. CASE BeginEmployee(r)
  <2>1. CASE run'[r].pc = "next"
    BY <1>2, <1>3, <2>1 DEF HasCalculation
  <2>2. CASE run'[r].calculation.overtimes = {} /\ run'[r].calculation.reimbursements = {}
    <3>1. Fresh(OvertimeList(NewPayslip(r)'), overtimes)
      BY <2>2 DEF Fresh, OvertimeList, NewPayslip
    <3>2. Fresh(ClaimList(NewPayslip(r)'), reimbursements)
      BY <2>2 DEF Fresh, ClaimList, NewPayslip
    <3> QED
      BY <1>2, <1>3, <3>1, <3>2
  <2>3. run'[r].pc = "next" \/ (/\ run'[r].calculation.overtimes = {}
                               /\ run'[r].calculation.reimbursements = {})
    BY <1>1, <1>5 DEF BeginEmployee, EndTurn, RunRow
  <2> QED
    BY <2>1, <2>2, <2>3
<1>6. CASE CountAttendance(r) \/ GeneratePayslipNumber(r)
  <2>1. HasCalculation(r)
    BY <1>6 DEF CountAttendance, GeneratePayslipNumber, HasCalculation, InLoop
  <2>2. /\ run'[r].calculation.overtimes = run[r].calculation.overtimes
        /\ run'[r].calculation.reimbursements = run[r].calculation.reimbursements
        /\ run'[r].calculation.employeeId = run[r].calculation.employeeId
        /\ run'[r].periodId = run[r].periodId
    BY <1>1, <1>6, <2>1 DEF CountAttendance, GeneratePayslipNumber, RunRow, Calculation
  <2> QED
    BY <1>2, <1>3, <2>1, <2>2 DEF OvertimeList, ClaimList, NewPayslip
<1>7. CASE CountOvertime(r)
  <2>1. HasCalculation(r)
    BY <1>7 DEF CountOvertime, HasCalculation, InLoop
  <2>2. /\ run'[r].calculation.overtimes = {<<o, overtimes[o].hoursWorked>> : o \in ApprovedOvertimes(r)}
        /\ run'[r].calculation.reimbursements = run[r].calculation.reimbursements
        /\ run'[r].calculation.employeeId = run[r].calculation.employeeId
        /\ run'[r].periodId = run[r].periodId
    BY <1>1, <1>7, <2>1 DEF CountOvertime, RunRow, Calculation
  <2>3. Fresh(OvertimeList(NewPayslip(r)'), overtimes)
    BY <2>2 DEF Fresh, OvertimeList, NewPayslip, ApprovedOvertimes, Concerns
  <2>4. ClaimList(NewPayslip(r)') = ClaimList(NewPayslip(r))
    BY <2>2 DEF ClaimList, NewPayslip
  <2> QED
    BY <1>2, <1>3, <2>1, <2>3, <2>4
<1>8. CASE CountReimbursements(r)
  <2>1. HasCalculation(r)
    BY <1>8 DEF CountReimbursements, HasCalculation, InLoop
  <2>2. /\ run'[r].calculation.reimbursements =
             {<<c, reimbursements[c].amount>> : c \in ApprovedClaims(r)}
        /\ run'[r].calculation.overtimes = run[r].calculation.overtimes
        /\ run'[r].calculation.employeeId = run[r].calculation.employeeId
        /\ run'[r].periodId = run[r].periodId
    BY <1>1, <1>8, <2>1 DEF CountReimbursements, RunRow, Calculation
  <2>3. Fresh(ClaimList(NewPayslip(r)'), reimbursements)
    BY <2>2 DEF Fresh, ClaimList, NewPayslip, ApprovedClaims, Concerns
  <2>4. OvertimeList(NewPayslip(r)') = OvertimeList(NewPayslip(r))
    BY <2>2 DEF OvertimeList, NewPayslip
  <2> QED
    BY <1>2, <1>3, <2>1, <2>3, <2>4
<1> QED
  BY <1>4, <1>5, <1>6, <1>7, <1>8 DEF RunStep, HandlerStep, FailureStep

(* So the lists after it are those before and lists just read.             *)
LEMMA RunLists ==
  ASSUME PayrollInv, NEW r \in PayrollRequest, RunStep(r)
  PROVE  /\ \A l \in OvertimeLists' : l \in OvertimeLists \/ Fresh(l, overtimes)
         /\ \A l \in ClaimLists' : l \in ClaimLists \/ Fresh(l, reimbursements)
<1>1. ASSUME NEW s \in Entries'
      PROVE  /\ OvertimeList(s) \in OvertimeLists \/ Fresh(OvertimeList(s), overtimes)
             /\ ClaimList(s) \in ClaimLists \/ Fresh(ClaimList(s), reimbursements)
  <2>1. CASE s \in Entries
    BY <2>1 DEF OvertimeLists, ClaimLists
  <2>2. CASE s \in payslips'
    <3>1. s \in Entries
      BY <2>2, RunCalculates DEF Entries
    <3> QED
      BY <2>1, <3>1
  <2>3. ASSUME NEW x \in PayrollRequest, HasCalculation(x)', s = NewPayslip(x)', x # r
        PROVE  s \in Entries
    <3>1. run'[x] = run[x]
      BY <2>3, RunCalculates
    <3>2. HasCalculation(x) /\ s = NewPayslip(x)
      BY <2>3, <3>1 DEF HasCalculation, NewPayslip
    <3> QED
      BY <3>2 DEF Entries
  <2>4. CASE HasCalculation(r)' /\ s = NewPayslip(r)'
    <3>1. HasCalculation(r) => NewPayslip(r) \in Entries
      BY DEF Entries
    <3> QED
      BY <2>4, <3>1, RunCalculates DEF OvertimeLists, ClaimLists
  <2> QED
    BY <1>1, <2>1, <2>2, <2>3, <2>4 DEF Entries
<1> QED
  BY <1>1 DEF OvertimeLists, ClaimLists
-----------------------------------------------------------------------------
(* A run and a payslip stay: so do the lists.  A departure takes some.     *)
LEMMA ListsStay ==
  ASSUME UNCHANGED <<run, payslips>>
  PROVE  OvertimeLists' = OvertimeLists /\ ClaimLists' = ClaimLists
<1>1. Entries' = Entries
  BY DEF Entries, HasCalculation, NewPayslip
<1> QED
  BY <1>1 DEF OvertimeLists, ClaimLists

LEMMA DepartureLists ==
  ASSUME NEW e \in EmployeeId, RemoveEmployee(e)
  PROVE  OvertimeLists' \subseteq OvertimeLists /\ ClaimLists' \subseteq ClaimLists
<1>1. payslips' \subseteq payslips /\ run' = run
  BY DEF RemoveEmployee, DeleteEmployee
<1>2. \A r \in PayrollRequest : /\ HasCalculation(r)' <=> HasCalculation(r)
                                /\ NewPayslip(r)' = NewPayslip(r)
  BY <1>1 DEF HasCalculation, NewPayslip
<1>3. Entries' \subseteq Entries
  BY <1>1, <1>2 DEF Entries
<1> QED
  BY <1>3 DEF OvertimeLists, ClaimLists

(* A call inserts under an id of its own.                                  *)
NewIdsApartClaim ==
  /\ \A q \in ClaimRequest : NewClaimId[q] \in ReimbursementId
  /\ \A q, x \in ClaimRequest : NewClaimId[q] = NewClaimId[x] => q = x

NewIdsApartOvertime ==
  /\ \A v \in OvertimeRequest : NewOvertimeId[v] \in OvertimeId
  /\ \A v, x \in OvertimeRequest : NewOvertimeId[v] = NewOvertimeId[x] => v = x

(* A call that has yet to insert its claim.                                 *)
ClaimPending(q) == claimCall[q].pc \in {"idle", "period", "insert"}

LEMMA ClaimPendingKept ==
  ASSUME ShapeInv, NEW q \in ClaimRequest, ClaimStart(q) \/ ClaimStep(q), NEW x \in ClaimRequest
  PROVE  ClaimPending(x)' => ClaimPending(x)
<1>1. claimCall \in [ClaimRequest -> ClaimCall]
  BY DEF ShapeInv, ClaimCallsOK
<1>2. CASE ClaimStart(q)
  <2>1. claimCall[q].pc = "idle" /\ (x # q => claimCall'[x] = claimCall[x])
    BY <1>1, <1>2 DEF ClaimStart, CreateReimbursement, UpdateReimbursement, DeleteReimbursement,
       UpdateReimbursementStatus
  <2> QED
    BY <2>1 DEF ClaimPending
<1>3. CASE ClaimStep(q)
  <2>1. x # q => claimCall'[x] = claimCall[x]
    BY <1>1, <1>3 DEF ClaimStep, CheckPeriod, InsertClaim, WriteClaim, DeleteClaim, WriteStatus,
       WriteRow, AuditClaim, ClaimCrash, ClaimGoto, ClaimEnds
  <2>2. CheckPeriod(q) \/ claimCall[q].pc = "insert" => ClaimPending(q)
    BY DEF CheckPeriod, ClaimPending
  <2>3. ~(CheckPeriod(q) \/ claimCall[q].pc = "insert") =>
          claimCall'[q].pc \notin {"idle", "period", "insert"}
    BY <1>1, <1>3, SMTT(30) DEF ClaimStep, InsertClaim, WriteClaim, DeleteClaim, WriteStatus, WriteRow,
       AuditClaim, ClaimCrash, ClaimGoto, ClaimEnds, ClaimAnswer, IdleClaimCall, ClaimCall
  <2> QED
    BY <2>1, <2>2, <2>3 DEF ClaimPending
<1> QED
  BY <1>2, <1>3

ClaimListsUnknown ==
  \A q \in ClaimRequest : ClaimPending(q) =>
    /\ reimbursements[NewClaimId[q]] = None
    /\ \A l \in ClaimLists : \A x \in l[3] : x[1] # NewClaimId[q]

LEMMA ClaimTables ==
  ASSUME ShapeInv, RecordsNext
  PROVE  /\ \A l \in ClaimLists' : l \in ClaimLists \/ Fresh(l, reimbursements)
         /\ \A q \in ClaimRequest : ClaimPending(q)' => ClaimPending(q)
         /\ \/ \A id \in ReimbursementId :
                 reimbursements'[id] # None => SameOwner(reimbursements'[id], reimbursements[id])
            \/ \E q \in ClaimRequest : ClaimNews(q) /\ ClaimLists' = ClaimLists
<1>1. /\ PayrollInv /\ DatabaseTypeOK /\ reimbursements \in [ReimbursementId -> ReimbursementRow \cup {None}]
  BY DEF ShapeInv, PayrollInv, DatabaseTypeOK, Table
<1>2. ASSUME NEW r \in PayrollRequest, RunStep(r), UNCHANGED claimCall
      PROVE  /\ \A l \in ClaimLists' : l \in ClaimLists \/ Fresh(l, reimbursements)
             /\ reimbursements' = reimbursements
             /\ \A q \in ClaimRequest : ClaimPending(q)' => ClaimPending(q)
  BY <1>1, <1>2, RunLists, RunCalculates DEF ClaimPending
<1>3. ASSUME NEW e \in EmployeeId, RemoveEmployee(e), UNCHANGED claimCall
      PROVE  /\ ClaimLists' \subseteq ClaimLists
             /\ \A id \in ReimbursementId :
                  reimbursements'[id] # None => reimbursements'[id] = reimbursements[id]
             /\ \A q \in ClaimRequest : ClaimPending(q)' => ClaimPending(q)
  BY <1>1, <1>3, DepartureLists DEF RemoveEmployee, DeleteEmployee, Without, ClaimPending
<1>4. ASSUME NEW q \in ClaimRequest, ClaimStart(q) \/ ClaimStep(q), UNCHANGED run
      PROVE  /\ ClaimLists' = ClaimLists
             /\ \A x \in ClaimRequest : ClaimPending(x)' => ClaimPending(x)
             /\ UNCHANGED dbVars \/ ClaimsRewritten \/ ClaimNews(q)
  <2>1. UNCHANGED dbVars \/ ClaimsRewritten \/ ClaimNews(q)
    BY <1>4, ClaimStartOK, ClaimStepOK
  <2>2. payslips' = payslips
    BY <2>1 DEF dbVars, ClaimsRewritten, ClaimNews, ClaimInserted, tablesButClaims
  <2> QED
    BY <1>4, <2>1, <2>2, ListsStay, ClaimPendingKept
<1>5. ASSUME NEW q \in OvertimeRequest, OvertimeStart(q) \/ OvertimeStep(q), UNCHANGED <<run, claimCall>>
      PROVE  /\ ClaimLists' = ClaimLists /\ reimbursements' = reimbursements
             /\ \A x \in ClaimRequest : ClaimPending(x)' => ClaimPending(x)
  <2>1. UNCHANGED dbVars \/ OvertimesRewritten \/ OvertimeNews(q)
    BY <1>5, OvertimeStartOK, OvertimeStepOK
  <2>2. payslips' = payslips /\ reimbursements' = reimbursements
    BY <2>1 DEF dbVars, OvertimesRewritten, OvertimeNews, OvertimeInserted, tablesButOvertimes
  <2> QED
    BY <1>5, <2>2, ListsStay DEF ClaimPending
<1>6. ASSUME NEW q \in PreviewRequest, PreviewStart(q) \/ PreviewStep(q), UNCHANGED <<run, claimCall>>
      PROVE  /\ ClaimLists' = ClaimLists /\ reimbursements' = reimbursements
             /\ \A x \in ClaimRequest : ClaimPending(x)' => ClaimPending(x)
  <2>1. UNCHANGED dbVars
    BY <1>6, PreviewOK
  <2> QED
    BY <1>6, <2>1, ListsStay DEF dbVars, ClaimPending
<1>7. CASE \/ \E r \in PayrollRequest : RunStep(r) /\ UNCHANGED claimCall
           \/ \E q \in OvertimeRequest : (OvertimeStart(q) \/ OvertimeStep(q)) /\ UNCHANGED <<run, claimCall>>
           \/ \E q \in PreviewRequest : (PreviewStart(q) \/ PreviewStep(q)) /\ UNCHANGED <<run, claimCall>>
  BY <1>2, <1>5, <1>6, <1>7 DEF SameOwner
<1>8. CASE \E e \in EmployeeId : RemoveEmployee(e) /\ UNCHANGED claimCall
  BY <1>3, <1>8 DEF SameOwner
<1>9. CASE \E q \in ClaimRequest : (ClaimStart(q) \/ ClaimStep(q)) /\ UNCHANGED run
  <2>1. UNCHANGED dbVars => \A id \in ReimbursementId :
          reimbursements'[id] # None => SameOwner(reimbursements'[id], reimbursements[id])
    BY DEF dbVars, SameOwner
  <2>2. ClaimsRewritten => \A id \in ReimbursementId :
          reimbursements'[id] # None => SameOwner(reimbursements'[id], reimbursements[id])
    BY DEF ClaimsRewritten
  <2> QED
    BY <1>4, <1>9, <2>1, <2>2
<1> QED
  BY <1>7, <1>8, <1>9, StepCases

LEMMA ClaimListsStep ==
  ASSUME ShapeInv, ListsAgree(ClaimLists, reimbursements), ClaimListsUnknown, RecordsNext
  PROVE  ListsAgree(ClaimLists', reimbursements') /\ ClaimListsUnknown'
<1>1. /\ \A l \in ClaimLists' : l \in ClaimLists \/ Fresh(l, reimbursements)
      /\ \A q \in ClaimRequest : ClaimPending(q)' => ClaimPending(q)
  BY ClaimTables
<1>2. /\ \A l \in ClaimLists' : \A x \in l[3] : x[1] \in ReimbursementId
      /\ reimbursements \in [ReimbursementId -> ReimbursementRow \cup {None}]
      /\ NewIdsApartClaim
  <2>1. PayrollInv'
    BY ShapeStep DEF ShapeInv
  <2>2. \A l \in ClaimLists' : \A x \in l[3] : x[1] \in ReimbursementId
    BY <2>1, ListsTypedNext DEF ListsTypeOK
  <2>3. reimbursements \in [ReimbursementId -> ReimbursementRow \cup {None}]
    BY DEF ShapeInv, PayrollInv, DatabaseTypeOK, Table
  <2>4. NewIdsApartClaim
    BY NewClaimAssumption DEF NewIdsApartClaim
  <2> QED
    BY <2>2, <2>3, <2>4
<1>3. CASE \A id \in ReimbursementId :
             reimbursements'[id] # None => SameOwner(reimbursements'[id], reimbursements[id])
  <2>1. ListsAgree(ClaimLists', reimbursements')
    BY <1>1, <1>2, <1>3, AgreeStep
  <2>2. ASSUME NEW q \in ClaimRequest, ClaimPending(q)'
        PROVE  /\ reimbursements'[NewClaimId[q]] = None
               /\ \A l \in ClaimLists' : \A x \in l[3] : x[1] # NewClaimId[q]
    <3>1. reimbursements[NewClaimId[q]] = None /\ NewClaimId[q] \in ReimbursementId
      BY <1>1, <1>2, <2>2 DEF ClaimListsUnknown, NewIdsApartClaim
    <3> QED
      BY <1>1, <1>3, <2>2, <3>1 DEF ClaimListsUnknown, Fresh, SameOwner
  <2> QED
    BY <2>1, <2>2 DEF ClaimListsUnknown
<1>4. ASSUME NEW q \in ClaimRequest, ClaimNews(q), ClaimLists' = ClaimLists
      PROVE  ListsAgree(ClaimLists', reimbursements') /\ ClaimListsUnknown'
  <2>1. ClaimPending(q) /\ ~ClaimPending(q)'
    BY <1>4 DEF ClaimNews, ClaimPending
  <2>2. \A id \in ReimbursementId \ {NewClaimId[q]} : reimbursements'[id] = reimbursements[id]
    BY <1>2, <1>4 DEF ClaimNews, ClaimInserted
  <2>3. \A l \in ClaimLists' : \A x \in l[3] : reimbursements'[x[1]] = reimbursements[x[1]]
    BY <1>2, <1>4, <2>1, <2>2 DEF ClaimListsUnknown
  <2>4. ListsAgree(ClaimLists', reimbursements')
    BY <1>1, <2>3, AgreeStep DEF SameOwner
  <2>5. ASSUME NEW x \in ClaimRequest, ClaimPending(x)'
        PROVE  reimbursements'[NewClaimId[x]] = None
    BY <1>1, <1>2, <2>1, <2>2, <2>5 DEF ClaimListsUnknown, NewIdsApartClaim
  <2> QED
    BY <1>1, <1>4, <2>4, <2>5 DEF ClaimListsUnknown
<1> QED
  BY <1>3, <1>4, ClaimTables

(* Where a step takes a call on overtimes.                                 *)
LEMMA OvertimePcs ==
  ASSUME ShapeInv, NEW q \in OvertimeRequest, OvertimeStep(q)
  PROVE  /\ \A x \in OvertimeRequest \ {q} : overtimeCall'[x] = overtimeCall[x]
         /\ overtimeCall[q].pc \notin Creating => overtimeCall'[q].pc \notin ({"idle"} \cup Creating)
         /\ overtimeCall'[q].pc = "insert" => CheckAttendance(q)
         /\ overtimeCall'[q].pc = "delete" => AuditOvertime(q)
<1>1. overtimeCall \in [OvertimeRequest -> OvertimeCall]
  BY DEF ShapeInv, OvertimeCallsOK
<1>2. \A x \in OvertimeRequest \ {q} : overtimeCall'[x] = overtimeCall[x]
  BY <1>1 DEF OvertimeStep, FindActivePeriod, FindExistingOvertime, CheckAttendance,
     InsertOvertime, WriteOvertime, DeleteOvertime, WriteOvertimeStatus, WriteAndAudit,
     WriteOvertimeRow, AuditOvertime, OvertimeCrash, OvertimeGoto, OvertimeEnds
<1>3. \A how \in OvertimeEnded : OvertimeEnds(q, how) => overtimeCall'[q].pc = how
  BY <1>1 DEF OvertimeEnds, OvertimeAnswer, IdleOvertimeCall
<1>4. \A pc : OvertimeGoto(q, pc) => overtimeCall'[q].pc = pc
  BY <1>1 DEF OvertimeGoto, OvertimeCall
<1>5. FindActivePeriod(q) => /\ overtimeCall[q].pc \in Creating
                            /\ overtimeCall'[q].pc \in {"existing", "refused"}
  <2>1. ASSUME NEW p, overtimeCall' = [overtimeCall EXCEPT ![q].periodId = p, ![q].pc = "existing"]
        PROVE  overtimeCall'[q].pc = "existing"
    BY <1>1, <2>1 DEF OvertimeCall
  <2> QED
    BY <1>3, <2>1 DEF FindActivePeriod, OvertimeEnded, Creating
<1>6. FindExistingOvertime(q) => /\ overtimeCall[q].pc \in Creating
                                /\ overtimeCall'[q].pc \in {"attendance", "refused"}
  BY <1>3, <1>4 DEF FindExistingOvertime, OvertimeEnded, Creating
<1>7. CheckAttendance(q) => /\ overtimeCall[q].pc \in Creating
                           /\ overtimeCall'[q].pc \in {"insert", "refused"}
  BY <1>3, <1>4 DEF CheckAttendance, OvertimeEnded, Creating
<1>8. InsertOvertime(q) => /\ overtimeCall[q].pc \in Creating
                          /\ overtimeCall'[q].pc \in {"audit", "crashed"}
  <2>1. ASSUME NEW row, overtimeCall' = [overtimeCall EXCEPT ![q].pc = "audit", ![q].written = row]
        PROVE  overtimeCall'[q].pc = "audit"
    BY <1>1, <2>1 DEF OvertimeCall
  <2> QED
    BY <1>3, <2>1 DEF InsertOvertime, OvertimeEnded, Creating
<1>9. ASSUME NEW row, NEW after, WriteOvertimeRow(q, row, after)
      PROVE  overtimeCall'[q].pc \in {after.pc, "crashed"}
  BY <1>1, <1>3, <1>9 DEF WriteOvertimeRow, OvertimeEnded
<1>10. ASSUME NEW row, WriteAndAudit(q, row)
       PROVE  overtimeCall'[q].pc \in {"audit", "crashed"}
  <2>1. [overtimeCall[q] EXCEPT !.pc = "audit", !.written = row].pc = "audit"
    BY <1>1 DEF OvertimeCall
  <2> QED
    BY <1>9, <1>10, <2>1 DEF WriteAndAudit
<1>11. WriteOvertime(q) => overtimeCall'[q].pc \in {"audit", "crashed"}
  BY <1>10 DEF WriteOvertime
<1>12. WriteOvertimeStatus(q) => overtimeCall'[q].pc \in {"audit", "crashed"}
  BY <1>10 DEF WriteOvertimeStatus
<1>13. DeleteOvertime(q) => overtimeCall'[q].pc \in {"done", "crashed"}
  <2>1. OvertimeAnswer("done").pc = "done"
    BY DEF OvertimeAnswer, IdleOvertimeCall
  <2> QED
    BY <1>9, <2>1 DEF DeleteOvertime
<1>14. AuditOvertime(q) => overtimeCall'[q].pc \in {"delete", "done"}
  BY <1>3, <1>4 DEF AuditOvertime, OvertimeEnded
<1>15. OvertimeCrash(q) => overtimeCall'[q].pc = "crashed"
  BY <1>3 DEF OvertimeCrash, OvertimeEnded
<1> QED
  BY <1>2, <1>5, <1>6, <1>7, <1>8, <1>11, <1>12, <1>13, <1>14, <1>15 DEF OvertimeStep, Creating

(* The same of overtimes.                                                  *)
OvertimePending(q) == overtimeCall[q].pc \in ({"idle"} \cup Creating)

LEMMA OvertimePendingKept ==
  ASSUME ShapeInv, NEW q \in OvertimeRequest, OvertimeStart(q) \/ OvertimeStep(q), NEW x \in OvertimeRequest
  PROVE  OvertimePending(x)' => OvertimePending(x)
<1>1. overtimeCall \in [OvertimeRequest -> OvertimeCall]
  BY DEF ShapeInv, OvertimeCallsOK
<1>2. CASE OvertimeStart(q)
  <2>1. overtimeCall[q].pc = "idle" /\ (x # q => overtimeCall'[x] = overtimeCall[x])
    BY <1>1, <1>2 DEF OvertimeStart, CreateOvertime, UpdateOvertime, RemoveOvertime,
       UpdateOvertimeStatus
  <2> QED
    BY <2>1 DEF OvertimePending
<1>3. CASE OvertimeStep(q)
  <2>1. overtimeCall[q].pc \in Creating => OvertimePending(q)
    BY DEF Creating, OvertimePending
  <2> QED
    BY <1>3, <2>1, OvertimePcs DEF OvertimePending
<1> QED
  BY <1>2, <1>3

OvertimeListsUnknown ==
  \A q \in OvertimeRequest : OvertimePending(q) =>
    /\ overtimes[NewOvertimeId[q]] = None
    /\ \A l \in OvertimeLists : \A x \in l[3] : x[1] # NewOvertimeId[q]

LEMMA OvertimeTables ==
  ASSUME ShapeInv, RecordsNext
  PROVE  /\ \A l \in OvertimeLists' : l \in OvertimeLists \/ Fresh(l, overtimes)
         /\ \A q \in OvertimeRequest : OvertimePending(q)' => OvertimePending(q)
         /\ \/ \A id \in OvertimeId :
                 overtimes'[id] # None => SameOwner(overtimes'[id], overtimes[id])
            \/ \E q \in OvertimeRequest : OvertimeNews(q) /\ OvertimeLists' = OvertimeLists
<1>1. /\ PayrollInv /\ DatabaseTypeOK /\ overtimes \in [OvertimeId -> OvertimeRow \cup {None}]
  BY DEF ShapeInv, PayrollInv, DatabaseTypeOK, Table
<1>2. ASSUME NEW r \in PayrollRequest, RunStep(r), UNCHANGED overtimeCall
      PROVE  /\ \A l \in OvertimeLists' : l \in OvertimeLists \/ Fresh(l, overtimes)
             /\ overtimes' = overtimes
             /\ \A q \in OvertimeRequest : OvertimePending(q)' => OvertimePending(q)
  BY <1>1, <1>2, RunLists, RunCalculates DEF OvertimePending
<1>3. ASSUME NEW e \in EmployeeId, RemoveEmployee(e), UNCHANGED overtimeCall
      PROVE  /\ OvertimeLists' \subseteq OvertimeLists
             /\ \A id \in OvertimeId : overtimes'[id] # None => overtimes'[id] = overtimes[id]
             /\ \A q \in OvertimeRequest : OvertimePending(q)' => OvertimePending(q)
  BY <1>1, <1>3, DepartureLists DEF RemoveEmployee, DeleteEmployee, Without, OvertimePending
<1>4. ASSUME NEW q \in OvertimeRequest, OvertimeStart(q) \/ OvertimeStep(q), UNCHANGED run
      PROVE  /\ OvertimeLists' = OvertimeLists
             /\ \A x \in OvertimeRequest : OvertimePending(x)' => OvertimePending(x)
             /\ UNCHANGED dbVars \/ OvertimesRewritten \/ OvertimeNews(q)
  <2>1. UNCHANGED dbVars \/ OvertimesRewritten \/ OvertimeNews(q)
    BY <1>4, OvertimeStartOK, OvertimeStepOK
  <2>2. payslips' = payslips
    BY <2>1 DEF dbVars, OvertimesRewritten, OvertimeNews, OvertimeInserted, tablesButOvertimes
  <2> QED
    BY <1>4, <2>1, <2>2, ListsStay, OvertimePendingKept
<1>5. ASSUME NEW q \in ClaimRequest, ClaimStart(q) \/ ClaimStep(q), UNCHANGED <<run, overtimeCall>>
      PROVE  /\ OvertimeLists' = OvertimeLists /\ overtimes' = overtimes
             /\ \A x \in OvertimeRequest : OvertimePending(x)' => OvertimePending(x)
  <2>1. UNCHANGED dbVars \/ ClaimsRewritten \/ ClaimNews(q)
    BY <1>5, ClaimStartOK, ClaimStepOK
  <2>2. payslips' = payslips /\ overtimes' = overtimes
    BY <2>1 DEF dbVars, ClaimsRewritten, ClaimNews, ClaimInserted, tablesButClaims
  <2> QED
    BY <1>5, <2>2, ListsStay DEF OvertimePending
<1>6. ASSUME NEW q \in PreviewRequest, PreviewStart(q) \/ PreviewStep(q), UNCHANGED <<run, overtimeCall>>
      PROVE  /\ OvertimeLists' = OvertimeLists /\ overtimes' = overtimes
             /\ \A x \in OvertimeRequest : OvertimePending(x)' => OvertimePending(x)
  <2>1. UNCHANGED dbVars
    BY <1>6, PreviewOK
  <2> QED
    BY <1>6, <2>1, ListsStay DEF dbVars, OvertimePending
<1>7. CASE \/ \E r \in PayrollRequest : RunStep(r) /\ UNCHANGED overtimeCall
           \/ \E q \in ClaimRequest : (ClaimStart(q) \/ ClaimStep(q)) /\ UNCHANGED <<run, overtimeCall>>
           \/ \E q \in PreviewRequest : (PreviewStart(q) \/ PreviewStep(q)) /\ UNCHANGED <<run, overtimeCall>>
  BY <1>2, <1>5, <1>6, <1>7 DEF SameOwner
<1>8. CASE \E e \in EmployeeId : RemoveEmployee(e) /\ UNCHANGED overtimeCall
  BY <1>3, <1>8 DEF SameOwner
<1>9. CASE \E q \in OvertimeRequest : (OvertimeStart(q) \/ OvertimeStep(q)) /\ UNCHANGED run
  <2>1. UNCHANGED dbVars => \A id \in OvertimeId :
          overtimes'[id] # None => SameOwner(overtimes'[id], overtimes[id])
    BY DEF dbVars, SameOwner
  <2>2. OvertimesRewritten => \A id \in OvertimeId :
          overtimes'[id] # None => SameOwner(overtimes'[id], overtimes[id])
    BY DEF OvertimesRewritten
  <2> QED
    BY <1>4, <1>9, <2>1, <2>2
<1> QED
  BY <1>7, <1>8, <1>9, StepCases

LEMMA OvertimeListsStep ==
  ASSUME ShapeInv, ListsAgree(OvertimeLists, overtimes), OvertimeListsUnknown, RecordsNext
  PROVE  ListsAgree(OvertimeLists', overtimes') /\ OvertimeListsUnknown'
<1>1. /\ \A l \in OvertimeLists' : l \in OvertimeLists \/ Fresh(l, overtimes)
      /\ \A q \in OvertimeRequest : OvertimePending(q)' => OvertimePending(q)
  BY OvertimeTables
<1>2. /\ \A l \in OvertimeLists' : \A x \in l[3] : x[1] \in OvertimeId
      /\ overtimes \in [OvertimeId -> OvertimeRow \cup {None}]
      /\ NewIdsApartOvertime
  <2>1. PayrollInv'
    BY ShapeStep DEF ShapeInv
  <2>2. \A l \in OvertimeLists' : \A x \in l[3] : x[1] \in OvertimeId
    BY <2>1, ListsTypedNext DEF ListsTypeOK
  <2>3. overtimes \in [OvertimeId -> OvertimeRow \cup {None}]
    BY DEF ShapeInv, PayrollInv, DatabaseTypeOK, Table
  <2>4. NewIdsApartOvertime
    BY NewOvertimeAssumption DEF NewIdsApartOvertime
  <2> QED
    BY <2>2, <2>3, <2>4
<1>3. CASE \A id \in OvertimeId : overtimes'[id] # None => SameOwner(overtimes'[id], overtimes[id])
  <2>1. ListsAgree(OvertimeLists', overtimes')
    BY <1>1, <1>2, <1>3, AgreeStep
  <2>2. ASSUME NEW q \in OvertimeRequest, OvertimePending(q)'
        PROVE  /\ overtimes'[NewOvertimeId[q]] = None
               /\ \A l \in OvertimeLists' : \A x \in l[3] : x[1] # NewOvertimeId[q]
    <3>1. overtimes[NewOvertimeId[q]] = None /\ NewOvertimeId[q] \in OvertimeId
      BY <1>1, <1>2, <2>2 DEF OvertimeListsUnknown, NewIdsApartOvertime
    <3> QED
      BY <1>1, <1>3, <2>2, <3>1 DEF OvertimeListsUnknown, Fresh, SameOwner
  <2> QED
    BY <2>1, <2>2 DEF OvertimeListsUnknown
<1>4. ASSUME NEW q \in OvertimeRequest, OvertimeNews(q), OvertimeLists' = OvertimeLists
      PROVE  ListsAgree(OvertimeLists', overtimes') /\ OvertimeListsUnknown'
  <2>1. OvertimePending(q) /\ ~OvertimePending(q)'
    BY <1>4 DEF OvertimeNews, OvertimePending, Creating
  <2>2. \A id \in OvertimeId \ {NewOvertimeId[q]} : overtimes'[id] = overtimes[id]
    BY <1>2, <1>4 DEF OvertimeNews, OvertimeInserted
  <2>3. \A l \in OvertimeLists' : \A x \in l[3] : overtimes'[x[1]] = overtimes[x[1]]
    BY <1>2, <1>4, <2>1, <2>2 DEF OvertimeListsUnknown
  <2>4. ListsAgree(OvertimeLists', overtimes')
    BY <1>1, <2>3, AgreeStep DEF SameOwner
  <2>5. ASSUME NEW x \in OvertimeRequest, OvertimePending(x)'
        PROVE  overtimes'[NewOvertimeId[x]] = None
    BY <1>1, <1>2, <2>1, <2>2, <2>5 DEF OvertimeListsUnknown, NewIdsApartOvertime
  <2> QED
    BY <1>1, <1>4, <2>4, <2>5 DEF OvertimeListsUnknown
<1> QED
  BY <1>3, <1>4, OvertimeTables

(* The payslips of one employee and period stay one.                       *)
LEMMA PayslipKeysStep ==
  ASSUME ShapeInv, PayslipKeys, RecordsNext
  PROVE  PayslipKeys'
<1>1. ASSUME NEW r \in PayrollRequest, RunStep(r)
      PROVE  PayslipKeys'
  <2>1. \/ payslips' = payslips
        \/ payslips' = payslips \cup {NewPayslip(r)} /\ ConflictsWith(NewPayslip(r)) = {}
    BY <1>1, RunCalculates DEF ShapeInv
  <2> QED
    BY <2>1 DEF PayslipKeys, ConflictsWith
<1>2. ASSUME payslips' \subseteq payslips
      PROVE  PayslipKeys'
  BY <1>2 DEF PayslipKeys
<1>3. \A e \in EmployeeId : RemoveEmployee(e) => payslips' \subseteq payslips
  BY DEF RemoveEmployee, DeleteEmployee
<1> QED
  BY <1>1, <1>2, <1>3, PayrollOrNothing

PaidInv == /\ ShapeInv
           /\ ListsAgree(ClaimLists, reimbursements) /\ ClaimListsUnknown
           /\ ListsAgree(OvertimeLists, overtimes) /\ OvertimeListsUnknown
           /\ PayslipKeys

LEMMA PaidInit == RecordsInit => PaidInv
<1> SUFFICES ASSUME RecordsInit
             PROVE  PaidInv
  OBVIOUS
<1>1. ShapeInv
  BY ShapeInit
<1>2. payslips = {} /\ \A r \in PayrollRequest : ~HasCalculation(r)
  BY DEF RecordsInit, PayrollInit, DatabaseInit, IdleRun, HasCalculation, InLoop
<1>3. ClaimLists = {} /\ OvertimeLists = {}
  BY <1>2 DEF ClaimLists, OvertimeLists, Entries
<1>4. ListsAgree(ClaimLists, reimbursements) /\ ListsAgree(OvertimeLists, overtimes) /\ PayslipKeys
  BY <1>2, <1>3 DEF ListsAgree, PayslipKeys
<1>5. ClaimListsUnknown
  BY <1>3, NewClaimAssumption DEF ClaimListsUnknown, RecordsInit, PayrollInit, DatabaseInit
<1>6. OvertimeListsUnknown
  BY <1>3, NewOvertimeAssumption DEF OvertimeListsUnknown, RecordsInit, PayrollInit, DatabaseInit
<1> QED
  BY <1>1, <1>4, <1>5, <1>6 DEF PaidInv

LEMMA PaidInductive == PaidInv /\ [RecordsNext]_recordVars => PaidInv'
<1> SUFFICES ASSUME PaidInv, [RecordsNext]_recordVars
             PROVE  PaidInv'
  OBVIOUS
<1>1. ShapeInv'
  BY ShapeInductive DEF PaidInv
<1>2. CASE RecordsNext
  <2>1. ListsAgree(ClaimLists', reimbursements') /\ ClaimListsUnknown'
    BY <1>2, ClaimListsStep DEF PaidInv
  <2>2. ListsAgree(OvertimeLists', overtimes') /\ OvertimeListsUnknown'
    BY <1>2, OvertimeListsStep DEF PaidInv
  <2>3. PayslipKeys'
    BY <1>2, PayslipKeysStep DEF PaidInv
  <2> QED
    BY <1>1, <2>1, <2>2, <2>3 DEF PaidInv, ListsAgree
<1>3. CASE UNCHANGED recordVars
  <2>1. /\ UNCHANGED <<run, payslips, overtimes, reimbursements, claimCall, overtimeCall>>
        /\ ClaimLists' = ClaimLists /\ OvertimeLists' = OvertimeLists
    BY <1>3, ListsStay DEF recordVars, dbVars
  <2> QED
    BY <1>1, <2>1 DEF PaidInv, ListsAgree, ClaimListsUnknown, OvertimeListsUnknown, ClaimPending,
       OvertimePending, PayslipKeys
<1> QED
  BY <1>2, <1>3

(* Two payslips of one claim or overtime are of one employee and period,   *)
(* so they are one: no interleaving pays anything twice.                   *)
THEOREM NothingPaidTwice == RecordsSpec => []PaidOnce
<1>1. ASSUME PaidInv
      PROVE  PaidOnce
  <2>1. ASSUME NEW s1 \in payslips, NEW s2 \in payslips,
               NEW x1 \in s1.reimbursements, NEW x2 \in s2.reimbursements, x1[1] = x2[1]
        PROVE  s1 = s2 /\ x1 = x2
    <3>1. ClaimList(s1) \in ClaimLists /\ ClaimList(s2) \in ClaimLists
      BY DEF ClaimLists, Entries
    <3>2. s1.employeeId = s2.employeeId /\ s1.attendancePeriodId = s2.attendancePeriodId
      BY <1>1, <2>1, <3>1 DEF PaidInv, ListsAgree, ClaimList
    <3>3. s1 = s2
      BY <1>1, <3>2 DEF PaidInv, PayslipKeys
    <3> QED
      BY <1>1, <2>1, <3>1, <3>3 DEF PaidInv, ListsAgree, ClaimList
  <2>2. ASSUME NEW s1 \in payslips, NEW s2 \in payslips,
               NEW x1 \in s1.overtimes, NEW x2 \in s2.overtimes, x1[1] = x2[1]
        PROVE  s1 = s2 /\ x1 = x2
    <3>1. OvertimeList(s1) \in OvertimeLists /\ OvertimeList(s2) \in OvertimeLists
      BY DEF OvertimeLists, Entries
    <3>2. s1.employeeId = s2.employeeId /\ s1.attendancePeriodId = s2.attendancePeriodId
      BY <1>1, <2>2, <3>1 DEF PaidInv, ListsAgree, OvertimeList
    <3>3. s1 = s2
      BY <1>1, <3>2 DEF PaidInv, PayslipKeys
    <3> QED
      BY <1>1, <2>2, <3>1, <3>3 DEF PaidInv, ListsAgree, OvertimeList
  <2> QED
    BY <2>1, <2>2 DEF PaidOnce
<1> QED
  BY <1>1, PaidInit, PaidInductive, PTL DEF RecordsSpec, RecordsNext
-----------------------------------------------------------------------------
(* The overtimes of a day.                                                 *)

Present(e, date) == \E a \in attendances : a.employeeId = e /\ a.date = date

(* What a call that has looked three times may still rely on: attendances  *)
(* leave with their employee only.                                         *)
CheckedMeansPresent ==
  \A v \in OvertimeRequest :
    /\ overtimeCall[v].pc = "insert"
    /\ employees[overtimeCall[v].employeeId] # None
    => Present(overtimeCall[v].employeeId, overtimeCall[v].date)

(* What is being removed is in the log already.                            *)
RemovalLogged(o) == Logged(AuditEntry("overtimes", o, "DELETE", None, None))

RemovalsLogged ==
  \A v \in OvertimeRequest :
    overtimeCall[v].pc = "delete" => RemovalLogged(overtimeCall[v].overtimeId)

DaysInv == ShapeInv /\ OvertimeOncePerDayPresent /\ CheckedMeansPresent /\ RemovalsLogged

LEMMA LoggedStays ==
  ASSUME UNCHANGED auditVars \/ \E entry : LogAudit(entry), NEW o, RemovalLogged(o)
  PROVE  RemovalLogged(o)'
BY DEF auditVars, LogAudit, RemovalLogged, Logged, AuditEntry

(* A step that leaves the calls on overtimes as they are.                  *)
LEMMA DaysStay ==
  ASSUME DaysInv, UNCHANGED <<employees, attendances, overtimes, overtimeCall>>,
         UNCHANGED auditVars \/ \E entry : LogAudit(entry)
  PROVE  OvertimeOncePerDayPresent' /\ CheckedMeansPresent' /\ RemovalsLogged'
<1>1. OvertimeOncePerDayPresent' /\ CheckedMeansPresent'
  BY DEF DaysInv, OvertimeOncePerDayPresent, CheckedMeansPresent, Present
<1>2. RemovalsLogged'
  BY LoggedStays DEF DaysInv, RemovalsLogged
<1> QED
  BY <1>1, <1>2

LEMMA DepartureDays ==
  ASSUME DaysInv, NEW e \in EmployeeId, RemoveEmployee(e), UNCHANGED <<auditVars, overtimeCall>>
  PROVE  /\ OvertimeOncePerDayPresent' /\ CheckedMeansPresent' /\ RemovalsLogged'
         /\ \A o \in OvertimeId : overtimes[o] # None /\ overtimes'[o] = None =>
              employees'[overtimes[o].employeeId] = None
<1>1. /\ employees \in [EmployeeId -> EmployeeStatus \cup {None}]
      /\ attendances \subseteq AttendanceRow
      /\ overtimes \in [OvertimeId -> OvertimeRow \cup {None}]
      /\ overtimeCall \in [OvertimeRequest -> OvertimeCall]
      /\ \A v \in OvertimeRequest : OvertimeShape(overtimeCall[v], v)
  BY DEF DaysInv, ShapeInv, PayrollInv, DatabaseTypeOK, Table, OvertimeCallsOK
<1>2. /\ \A x \in EmployeeId : employees'[x] = IF x = e THEN None ELSE employees[x]
      /\ \A a \in attendances : a.employeeId # e => a \in attendances'
      /\ \A o \in OvertimeId :
           overtimes'[o] = IF overtimes[o] # None /\ overtimes[o].employeeId = e
                           THEN None ELSE overtimes[o]
  BY <1>1 DEF RemoveEmployee, DeleteEmployee, Without
<1>3. OvertimeOncePerDayPresent'
  BY <1>1, <1>2 DEF DaysInv, OvertimeOncePerDayPresent
<1>4. CheckedMeansPresent'
  <2>1. ASSUME NEW v \in OvertimeRequest, overtimeCall[v].pc = "insert",
               employees'[overtimeCall[v].employeeId] # None
        PROVE  Present(overtimeCall[v].employeeId, overtimeCall[v].date)'
    <3>1. overtimeCall[v].employeeId \in EmployeeId
      BY <1>1, <2>1 DEF OvertimeShape, Creating
    <3>2. overtimeCall[v].employeeId # e /\ employees[overtimeCall[v].employeeId] # None
      BY <1>2, <2>1, <3>1
    <3> QED
      BY <1>2, <2>1, <3>2 DEF DaysInv, CheckedMeansPresent, Present
  <2> QED
    BY <2>1 DEF CheckedMeansPresent, Present
<1>5. RemovalsLogged'
  BY LoggedStays DEF DaysInv, RemovalsLogged
<1>6. \A o \in OvertimeId : overtimes[o] # None /\ overtimes'[o] = None =>
        employees'[overtimes[o].employeeId] = None
  BY <1>1, <1>2 DEF OvertimeRow
<1> QED
  BY <1>3, <1>4, <1>5, <1>6

LEMMA StartDays ==
  ASSUME DaysInv, NEW v \in OvertimeRequest, OvertimeStart(v)
  PROVE  /\ OvertimeOncePerDayPresent' /\ CheckedMeansPresent' /\ RemovalsLogged'
         /\ overtimes' = overtimes
<1>1. /\ UNCHANGED <<dbVars, auditVars>>
      /\ overtimeCall'[v].pc \notin {"insert", "delete"}
      /\ \A x \in OvertimeRequest \ {v} : overtimeCall'[x] = overtimeCall[x]
  <2>1. overtimeCall \in [OvertimeRequest -> OvertimeCall]
    BY DEF DaysInv, ShapeInv, OvertimeCallsOK
  <2> QED
    BY <2>1, OvertimeStartOK DEF DaysInv
<1>2. UNCHANGED <<employees, attendances, overtimes>>
  BY <1>1 DEF dbVars
<1>3. OvertimeOncePerDayPresent'
  BY <1>2 DEF DaysInv, OvertimeOncePerDayPresent
<1>4. CheckedMeansPresent'
  BY <1>1, <1>2 DEF DaysInv, CheckedMeansPresent, Present
<1>5. RemovalsLogged'
  BY <1>1, LoggedStays DEF DaysInv, RemovalsLogged
<1> QED
  BY <1>2, <1>3, <1>4, <1>5

(* A row is deleted by a call that has logged it.                          *)
LEMMA StepDays ==
  ASSUME DaysInv, NEW v \in OvertimeRequest, OvertimeStep(v)
  PROVE  /\ OvertimeOncePerDayPresent' /\ CheckedMeansPresent' /\ RemovalsLogged'
         /\ \A o \in OvertimeId : overtimes[o] # None /\ overtimes'[o] = None => RemovalLogged(o)
<1>1. /\ overtimeCall \in [OvertimeRequest -> OvertimeCall] /\ overtimeCall[v] \in OvertimeCall
      /\ OvertimeShape(overtimeCall[v], v)
      /\ overtimes \in [OvertimeId -> OvertimeRow \cup {None}]
      /\ ShapeInv
  BY DEF DaysInv, ShapeInv, PayrollInv, DatabaseTypeOK, Table, OvertimeCallsOK
<1>2. /\ \A x \in OvertimeRequest \ {v} : overtimeCall'[x] = overtimeCall[x]
      /\ UNCHANGED auditVars \/ \E entry : LogAudit(entry)
      /\ UNCHANGED dbVars \/ OvertimesRewritten \/ OvertimeNews(v)
  BY <1>1, OvertimePcs, OvertimeStepOK
<1>3. UNCHANGED <<employees, attendances>>
  BY <1>2 DEF dbVars, OvertimesRewritten, OvertimeNews, OvertimeInserted, tablesButOvertimes
<1>4. CheckedMeansPresent'
  <2>1. ASSUME overtimeCall'[v].pc = "insert"
        PROVE  Present(overtimeCall[v].employeeId, overtimeCall[v].date)'
    <3>1. CheckAttendance(v)
      BY <1>1, <2>1, OvertimePcs
    <3>2. OvertimeGoto(v, "insert") /\ Present(overtimeCall[v].employeeId, overtimeCall[v].date)
      <4>1. OvertimeEnds(v, "refused") => overtimeCall'[v].pc = "refused"
        BY <1>1 DEF OvertimeEnds, OvertimeAnswer, IdleOvertimeCall
      <4> QED
        BY <2>1, <3>1, <4>1 DEF CheckAttendance, Present
    <3>3. /\ overtimeCall'[v].employeeId = overtimeCall[v].employeeId
          /\ overtimeCall'[v].date = overtimeCall[v].date
      BY <1>1, <3>2 DEF OvertimeGoto, OvertimeCall
    <3> QED
      BY <1>3, <3>2, <3>3 DEF Present
  <2> QED
    BY <1>2, <1>3, <2>1 DEF DaysInv, CheckedMeansPresent, Present
<1>5. RemovalsLogged'
  <2>1. ASSUME overtimeCall'[v].pc = "delete"
        PROVE  RemovalLogged(overtimeCall[v].overtimeId)'
    <3>1. AuditOvertime(v)
      BY <1>1, <2>1, OvertimePcs
    <3>2. overtimeCall[v].op = "delete" /\ OvertimeGoto(v, "delete")
      <4>1. OvertimeEnds(v, "done") => overtimeCall'[v].pc = "done"
        BY <1>1 DEF OvertimeEnds, OvertimeAnswer, IdleOvertimeCall
      <4> QED
        BY <2>1, <3>1, <4>1 DEF AuditOvertime
    <3>3. OvertimeEntry(v) = AuditEntry("overtimes", overtimeCall[v].overtimeId, "DELETE", None, None)
      BY <3>2 DEF OvertimeEntry
    <3>4. overtimeCall'[v].overtimeId = overtimeCall[v].overtimeId
      BY <1>1, <3>2 DEF OvertimeGoto, OvertimeCall
    <3>5. LogAudit(AuditEntry("overtimes", overtimeCall[v].overtimeId, "DELETE", None, None))
      BY <3>1, <3>3 DEF AuditOvertime
    <3> QED
      BY <3>4, <3>5 DEF RemovalLogged, Logged, LogAudit, AuditEntry
  <2> QED
    BY <1>2, <2>1, LoggedStays DEF DaysInv, RemovalsLogged
<1>6. OvertimeOncePerDayPresent'
  <2>1. CASE UNCHANGED dbVars
    BY <2>1 DEF dbVars, DaysInv, OvertimeOncePerDayPresent
  <2>2. CASE OvertimesRewritten
    BY <1>3, <2>2 DEF OvertimesRewritten, SameOwner, DaysInv, OvertimeOncePerDayPresent
  <2>3. CASE OvertimeNews(v)
    <3> DEFINE n == NewOvertimeId[v]
               row == NewOvertime(v)
    <3>1. /\ \A o \in OvertimeId : overtimes'[o] = IF o = n THEN row ELSE overtimes[o]
          /\ n \in OvertimeId
      BY <1>1, <2>3 DEF OvertimeNews, OvertimeInserted
    <3>2. HasParents(row) /\ SameOvertimeDay(v) = {}
      BY <1>1, <2>3 DEF OvertimeNews
    <3>3. row.employeeId = overtimeCall[v].employeeId /\ row.date = overtimeCall[v].date
      BY DEF NewOvertime
    <3>4. Present(row.employeeId, row.date)
      BY <2>3, <3>2, <3>3 DEF OvertimeNews, DaysInv, CheckedMeansPresent, HasParents
    <3>5. \A o \in OvertimeId : overtimes[o] # None /\ overtimes[o].employeeId = row.employeeId
            => overtimes[o].date # row.date
      BY <3>2, <3>3 DEF SameOvertimeDay
    <3> HIDE DEF n, row
    <3> QED
      BY <1>3, <3>1, <3>4, <3>5 DEF DaysInv, OvertimeOncePerDayPresent, Present
  <2> QED
    BY <1>2, <2>1, <2>2, <2>3
<1>7. ASSUME NEW o \in OvertimeId, overtimes[o] # None, overtimes'[o] = None
      PROVE  RemovalLogged(o)
  <2>1. CASE DeleteOvertime(v)
    <3>1. o = overtimeCall[v].overtimeId
      BY <1>1, <1>7, <2>1 DEF DeleteOvertime, WriteOvertimeRow
    <3> QED
      BY <2>1, <3>1 DEF DeleteOvertime, DaysInv, RemovalsLogged
  <2>2. CASE WriteOvertime(v) \/ WriteOvertimeStatus(v)
    <3> DEFINE x == overtimeCall[v].overtimeId
    <3>1. PICK row : /\ WriteAndAudit(v, row)
                     /\ overtimes[x] # None => row \in OvertimeRow
      BY <1>1, <2>2, OvertimeWrites
    <3>2. overtimes[x] # None /\ overtimes' = [overtimes EXCEPT ![x] = row]
      BY <1>7, <3>1 DEF WriteAndAudit, WriteOvertimeRow
    <3> QED
      BY <1>1, <1>7, <3>1, <3>2, NoneAssumption
  <2>3. CASE ~(DeleteOvertime(v) \/ WriteOvertime(v) \/ WriteOvertimeStatus(v))
    <3>1. UNCHANGED overtimes \/ InsertOvertime(v)
      BY <2>3 DEF OvertimeStep, FindActivePeriod, FindExistingOvertime, CheckAttendance,
         AuditOvertime, OvertimeCrash, dbVars
    <3>2. UNCHANGED overtimes \/ OvertimeNews(v)
      BY <1>1, <3>1, InsertOvertimeOK DEF dbVars
    <3> QED
      BY <1>1, <1>7, <3>2, NoneAssumption DEF OvertimeNews, OvertimeInserted
  <2> QED
    BY <2>1, <2>2, <2>3
<1> QED
  BY <1>4, <1>5, <1>6, <1>7

LEMMA DaysInit == RecordsInit => DaysInv
<1> SUFFICES ASSUME RecordsInit
             PROVE  DaysInv
  OBVIOUS
<1>1. OvertimeOncePerDayPresent
  BY InitialOvertimesAssumption DEF RecordsInit, PayrollInit, DatabaseInit, OvertimeOncePerDayPresent
<1>2. CheckedMeansPresent /\ RemovalsLogged
  BY DEF RecordsInit, OvertimeInit, IdleOvertimeCall, CheckedMeansPresent, RemovalsLogged
<1> QED
  BY <1>1, <1>2, ShapeInit DEF DaysInv

LEMMA DaysStep ==
  ASSUME DaysInv, RecordsNext
  PROVE  /\ OvertimeOncePerDayPresent' /\ CheckedMeansPresent' /\ RemovalsLogged'
         /\ \A o \in OvertimeId : overtimes[o] # None /\ overtimes'[o] = None =>
              employees'[overtimes[o].employeeId] = None \/ RemovalLogged(o)
<1>1. ShapeInv /\ PayrollInv
  BY DEF DaysInv, ShapeInv
<1>2. CASE \E r \in PayrollRequest : RunStep(r) /\ UNCHANGED <<auditVars, overtimeCall>>
  <2>1. UNCHANGED <<employees, attendances, overtimes>>
    BY <1>1, <1>2, RunCalculates
  <2> QED
    BY <1>2, <2>1, DaysStay
<1>3. CASE \E e \in EmployeeId : RemoveEmployee(e) /\ UNCHANGED <<auditVars, overtimeCall>>
  BY <1>3, DepartureDays
<1>4. CASE \E q \in ClaimRequest : (ClaimStart(q) \/ ClaimStep(q)) /\ UNCHANGED overtimeCall
  <2>1. PICK q \in ClaimRequest : ClaimStart(q) \/ ClaimStep(q)
    BY <1>4
  <2>2. /\ UNCHANGED dbVars \/ ClaimsRewritten \/ ClaimNews(q)
        /\ UNCHANGED auditVars \/ \E entry : LogAudit(entry)
    BY <1>1, <2>1, ClaimStartOK, ClaimStepOK
  <2>3. UNCHANGED <<employees, attendances, overtimes>>
    BY <2>2 DEF dbVars, ClaimsRewritten, ClaimNews, ClaimInserted, tablesButClaims
  <2> QED
    BY <1>4, <2>2, <2>3, DaysStay
<1>5. CASE \E v \in OvertimeRequest : OvertimeStart(v) \/ OvertimeStep(v)
  BY <1>5, StartDays, StepDays
<1>6. CASE \E q \in PreviewRequest : (PreviewStart(q) \/ PreviewStep(q)) /\ UNCHANGED overtimeCall
  <2>1. UNCHANGED dbVars /\ (UNCHANGED auditVars \/ \E entry : LogAudit(entry))
    BY <1>1, <1>6, PreviewOK
  <2>2. UNCHANGED <<employees, attendances, overtimes>>
    BY <2>1 DEF dbVars
  <2> QED
    BY <1>6, <2>1, <2>2, DaysStay
<1> QED
  BY <1>2, <1>3, <1>4, <1>5, <1>6, StepCases

LEMMA DaysInductive == DaysInv /\ [RecordsNext]_recordVars => DaysInv'
<1> SUFFICES ASSUME DaysInv, [RecordsNext]_recordVars
             PROVE  DaysInv'
  OBVIOUS
<1>1. ShapeInv'
  BY ShapeInductive DEF DaysInv
<1>2. CASE RecordsNext
  BY <1>1, <1>2, DaysStep DEF DaysInv
<1>3. CASE UNCHANGED recordVars
  <2>1. UNCHANGED <<employees, attendances, overtimes, overtimeCall, auditVars>>
    BY <1>3 DEF recordVars, dbVars
  <2> QED
    BY <1>1, <2>1, DaysStay DEF DaysInv
<1> QED
  BY <1>2, <1>3

(* However submissions interleave with each other, with removals and with  *)
(* departures, a day has one overtime, and an attendance.                  *)
THEOREM OneOvertimeOfADay == RecordsSpec => []OvertimeOncePerDayPresent
<1>1. DaysInv => OvertimeOncePerDayPresent
  BY DEF DaysInv
<1> QED
  BY <1>1, DaysInit, DaysInductive, PTL DEF RecordsSpec, RecordsNext

(* No overtime goes, but with its employee, before the log has it.         *)
THEOREM NoUnloggedRemoval == RecordsSpec => OvertimeRemovalIsLogged
<1> DEFINE Step == \A o \in OvertimeId :
                     LET row == overtimes[o] IN
                     row # None /\ overtimes'[o] = None /\ employees'[row.employeeId] # None =>
                       Logged(AuditEntry("overtimes", o, "DELETE", None, None))
<1>1. DaysInv /\ [RecordsNext]_recordVars => [Step]_recordVars
  BY DaysStep DEF RemovalLogged
<1> QED
  BY <1>1, DaysInit, DaysInductive, PTL DEF RecordsSpec, RecordsNext, OvertimeRemovalIsLogged
-----------------------------------------------------------------------------
(* The columns of the payslips.                                            *)

(* A period with a working day, which it keeps: no request of these        *)
(* services removes a period or changes its dates.                         *)
HasWorkingDays(p) ==
  LET row == attendancePeriods[p] IN
  row # None /\ WorkingDays(row.startDate, row.endDate) # {}

(* A run has the dates of its period right.                                *)
KnowsPeriod(r) ==
  LET row == attendancePeriods[run[r].periodId] IN
  run[r].pc \in InProgress =>
    /\ row # None
    /\ row.startDate = run[r].period.startDate /\ row.endDate = run[r].period.endDate

ColumnsInv == /\ ShapeInv
              /\ \A s \in payslips : HasWorkingDays(s.attendancePeriodId)
              /\ \A r \in PayrollRequest : KnowsPeriod(r)

DatesStay ==
  \A p \in PeriodId : attendancePeriods[p] # None =>
    /\ attendancePeriods'[p] # None
    /\ attendancePeriods'[p].startDate = attendancePeriods[p].startDate
    /\ attendancePeriods'[p].endDate = attendancePeriods[p].endDate

LEMMA RunKnowsPeriod ==
  ASSUME PayrollInv, NEW r \in PayrollRequest, RunStep(r), KnowsPeriod(r)
  PROVE  DatesStay /\ KnowsPeriod(r)'
<1>1. /\ run \in [PayrollRequest -> RunRow] /\ run[r] \in RunRow /\ RunShape(run[r])
      /\ attendancePeriods \in Table(PeriodId, PeriodRow)
  BY DEF PayrollInv, RunsOK, DatabaseTypeOK
<1>2. CASE ProcessPayroll(r)
  <2>1. attendancePeriods' = attendancePeriods
    BY <1>2 DEF ProcessPayroll, dbVars
  <2>2. PICK p \in PeriodId :
          /\ run'[r].periodId = p /\ run'[r].period = attendancePeriods[p]
          /\ run'[r].pc = IF Processable(attendancePeriods[p]) THEN "validated" ELSE "rejected"
    BY <1>1, <1>2 DEF ProcessPayroll, IdleRun
  <2> QED
    BY <2>1, <2>2 DEF KnowsPeriod, DatesStay, Processable, InProgress, InLoop
<1>3. CASE FinishRun(r)
  <2>1. /\ run'[r].pc \notin InProgress
        /\ run[r].periodId \in PeriodId
        /\ \/ attendancePeriods' = attendancePeriods
           \/ /\ attendancePeriods[run[r].periodId] # None
              /\ attendancePeriods' = [attendancePeriods EXCEPT ![run[r].periodId].payrollProcessed = TRUE]
    BY <1>1, <1>3 DEF FinishRun, RunRow, RunShape, InProgress, InLoop
  <2>2. ASSUME NEW row \in PeriodRow
        PROVE  [row EXCEPT !.payrollProcessed = TRUE] \in PeriodRow
    BY DEF PeriodRow
  <2>3. DatesStay
    BY <1>1, <2>1, <2>2, NoneAssumption DEF DatesStay, Table, PeriodRow
  <2> QED
    BY <2>1, <2>3 DEF KnowsPeriod
<1>4. CASE HandlerStep(r) \/ FailureStep(r)
  <2> SUFFICES ASSUME ~FinishRun(r)
               PROVE  DatesStay /\ KnowsPeriod(r)'
    BY <1>3
  <2>1. attendancePeriods' = attendancePeriods
    BY <1>4 DEF HandlerStep, FailureStep, LoadEmployees, BeginEmployee, CountAttendance,
       CountOvertime, CountReimbursements, GeneratePayslipNumber, CreatePayslip, TransactionFails,
       CommitUnacknowledged, Crash, dbVars
  <2>2. ASSUME NEW done, NEW failed, EndTurn(r, done, failed) \/ EndTurnInError(r)
        PROVE  run'[r].periodId = run[r].periodId /\ run'[r].period = run[r].period
    BY <1>1, <2>2 DEF EndTurn, EndTurnInError, RunRow
  <2>3. LoadEmployees(r) \/ CountAttendance(r) \/ CountOvertime(r) \/ CountReimbursements(r)
          \/ GeneratePayslipNumber(r) \/ Crash(r) =>
            run'[r].periodId = run[r].periodId /\ run'[r].period = run[r].period
    BY <1>1 DEF LoadEmployees, CountAttendance, CountOvertime, CountReimbursements,
       GeneratePayslipNumber, Crash, RunRow
  <2>4. BeginEmployee(r) => run'[r].periodId = run[r].periodId /\ run'[r].period = run[r].period
    BY <1>1, <2>2 DEF BeginEmployee, RunRow
  <2>5. run'[r].periodId = run[r].periodId /\ run'[r].period = run[r].period
    BY <1>4, <2>2, <2>3, <2>4 DEF HandlerStep, FailureStep, CreatePayslip, TransactionFails,
       CommitUnacknowledged
  <2>6. run[r].pc \in InProgress
    BY <1>4 DEF HandlerStep, FailureStep, LoadEmployees, BeginEmployee, CountAttendance,
       CountOvertime, CountReimbursements, GeneratePayslipNumber, CreatePayslip, TransactionFails,
       CommitUnacknowledged, Crash, InProgress, InLoop
  <2> QED
    BY <2>1, <2>5, <2>6 DEF KnowsPeriod, DatesStay
<1> QED
  BY <1>2, <1>4 DEF RunStep

LEMMA WorkingDaysStay ==
  ASSUME DatesStay, NEW p \in PeriodId, HasWorkingDays(p)
  PROVE  HasWorkingDays(p)'
BY DEF DatesStay, HasWorkingDays

LEMMA KnowsPeriodStays ==
  ASSUME PayrollInv, DatesStay, NEW r \in PayrollRequest, run'[r] = run[r], KnowsPeriod(r)
  PROVE  KnowsPeriod(r)'
<1>1. run[r].pc \in InProgress => run[r].periodId \in PeriodId
  BY DEF PayrollInv, RunsOK, RunShape, InProgress, InLoop
<1> QED
  BY <1>1 DEF DatesStay, KnowsPeriod

(* What is inserted is of a period with a working day.                     *)
LEMMA RunInserts ==
  ASSUME PayrollInv, NEW r \in PayrollRequest, RunStep(r), KnowsPeriod(r)
  PROVE  payslips' = payslips \/ /\ payslips' = payslips \cup {NewPayslip(r)}
                                 /\ HasWorkingDays(run[r].periodId)
<1>1. \/ payslips' = payslips
      \/ /\ run[r].pc = "create" /\ Insertable(r)
         /\ payslips' = payslips \cup {NewPayslip(r)}
  BY DEF RunStep, HandlerStep, FailureStep, ProcessPayroll, LoadEmployees, BeginEmployee,
     CountAttendance, CountOvertime, CountReimbursements, GeneratePayslipNumber, CreatePayslip,
     FinishRun, TransactionFails, CommitUnacknowledged, Crash, dbVars
<1> QED
  BY <1>1 DEF Insertable, HasWorkingDays, KnowsPeriod, InProgress, InLoop

LEMMA ColumnsStep ==
  ASSUME ColumnsInv, RecordsNext
  PROVE  ColumnsInv'
<1>1. ShapeInv' /\ PayrollInv /\ \A s \in payslips : s.attendancePeriodId \in PeriodId
  BY ShapeStep DEF ColumnsInv, ShapeInv, PayrollInv, DatabaseTypeOK, PayslipRow
<1>2. ASSUME NEW r \in PayrollRequest, RunStep(r)
      PROVE  ColumnsInv'
  <2>1. /\ DatesStay /\ KnowsPeriod(r)'
        /\ \A x \in PayrollRequest \ {r} : run'[x] = run[x]
    BY <1>1, <1>2, RunKnowsPeriod, RunCalculates DEF ColumnsInv
  <2>2. \A x \in PayrollRequest : KnowsPeriod(x)'
    BY <1>1, <2>1, KnowsPeriodStays DEF ColumnsInv
  <2>3. ASSUME NEW s \in payslips'
        PROVE  HasWorkingDays(s.attendancePeriodId)'
    <3>1. PICK p \in PeriodId : s.attendancePeriodId = p /\ HasWorkingDays(p)
      <4>1. s \in payslips \/ (s = NewPayslip(r) /\ HasWorkingDays(run[r].periodId))
        <5>1. KnowsPeriod(r)
          BY DEF ColumnsInv
        <5>2. payslips' = payslips \/ /\ payslips' = payslips \cup {NewPayslip(r)}
                                      /\ HasWorkingDays(run[r].periodId)
          BY <1>1, <1>2, <5>1, RunInserts
        <5> QED
          BY <5>2
      <4>2. s \in PayslipRow
        BY <1>1 DEF ShapeInv, PayrollInv, DatabaseTypeOK
      <4> QED
        BY <4>1, <4>2 DEF ColumnsInv, NewPayslip, PayslipRow
    <3>2. HasWorkingDays(p)'
      BY <2>1, <3>1, WorkingDaysStay
    <3> QED
      BY <3>1, <3>2 DEF HasWorkingDays
  <2> QED
    BY <1>1, <2>2, <2>3 DEF ColumnsInv
<1>3. ASSUME UNCHANGED <<run, attendancePeriods>>, payslips' \subseteq payslips
      PROVE  ColumnsInv'
  BY <1>1, <1>3 DEF ColumnsInv, HasWorkingDays, KnowsPeriod
<1>4. ASSUME NEW e \in EmployeeId, RemoveEmployee(e)
      PROVE  UNCHANGED <<run, attendancePeriods>> /\ payslips' \subseteq payslips
  BY <1>4 DEF RemoveEmployee, DeleteEmployee
<1> QED
  BY <1>2, <1>3, <1>4, PayrollOrNothing DEF ColumnsInv

LEMMA ColumnsInit == RecordsInit => ColumnsInv
BY ShapeInit DEF RecordsInit, PayrollInit, DatabaseInit, IdleRun, ColumnsInv, KnowsPeriod,
   InProgress, InLoop

LEMMA ColumnsInductive == ColumnsInv /\ [RecordsNext]_recordVars => ColumnsInv'
<1> SUFFICES ASSUME ColumnsInv, UNCHANGED recordVars
             PROVE  ColumnsInv'
  BY ColumnsStep
<1>1. ShapeInv'
  BY ShapeInductive DEF ColumnsInv
<1> QED
  BY <1>1 DEF ColumnsInv, HasWorkingDays, KnowsPeriod, recordVars, dbVars

(* The gross pay of a payslip row is a whole number of parts of a cent.    *)
LEMMA GrossIsWhole ==
  ASSUME NEW s \in PayslipRow, NEW w \in Nat \ {0}
  PROVE  GrossPay(s, w) \in Int
<1>1. IsFiniteSet(Hours) /\ Hours \subseteq Int
  <2> DEFINE shortest == 50
             longest  == 300
  <2>1. shortest \in Int /\ longest \in Int /\ Hours \in SUBSET (shortest .. longest)
    BY TimeAssumption
  <2> HIDE DEF shortest, longest
  <2>2. IsFiniteSet(shortest .. longest)
    BY <2>1, FS_Interval
  <2>3. Hours \subseteq Int
    BY <2>1
  <2> QED
    BY <2>1, <2>2, <2>3, FS_Subset, Zenon
<1>2. /\ s.overtimes \in SUBSET (OvertimeId \X Hours)
      /\ s.reimbursements \in SUBSET (ReimbursementId \X Amount)
      /\ s.attendedDays \in Nat
  BY DEF PayslipRow
<1>3. IsFiniteSet(s.overtimes) /\ IsFiniteSet(s.reimbursements)
  BY <1>1, <1>2, FiniteAssumption, FS_Product, FS_Subset
<1>4. Total(s.overtimes) \in Int
  BY <1>1, <1>2, <1>3, TotalIsWhole
<1>5. Total(s.reimbursements) \in Int
  BY <1>2, <1>3, FiniteAssumption, TotalIsWhole
<1> QED
  BY <1>2, <1>4, <1>5, MoneyAssumption, CentIsPositive
  DEF GrossPay, ProratedSalary, OvertimePay

(* However requests interleave, the stored columns of every payslip add up *)
(* to the cent or miss by one: it was inserted for a period with a working *)
(* day, which the period still has, and the sums of hours and amounts it   *)
(* was computed from are whole.                                            *)
THEOREM PayslipColumnsAddUp == RecordsSpec => []ColumnsAddUp
<1>1. ASSUME ColumnsInv
      PROVE  ColumnsAddUp
  <2> SUFFICES ASSUME NEW s \in payslips
               PROVE  LET row == attendancePeriods[s.attendancePeriodId]
                          w == Cardinality(WorkingDays(row.startDate, row.endDate))
                      IN  AddUp(GrossPay(s, w), w)
    BY DEF ColumnsAddUp
  <2> DEFINE row == attendancePeriods[s.attendancePeriodId]
             w == Cardinality(WorkingDays(row.startDate, row.endDate))
  <2>1. s \in PayslipRow /\ row \in PeriodRow /\ WorkingDays(row.startDate, row.endDate) # {}
    BY <1>1 DEF ColumnsInv, HasWorkingDays, ShapeInv, PayrollInv, DatabaseTypeOK, PayslipRow, Table
  <2>2. w \in Nat \ {0}
    BY <2>1, WorkingDaysCount DEF PeriodRow
  <2> QED
    BY <2>1, <2>2, GrossIsWhole, PayslipAddsUp
<1> QED
  BY <1>1, ColumnsInit, ColumnsInductive, PTL DEF RecordsSpec, RecordsNext
-----------------------------------------------------------------------------
(* What payroll promises.                                                  *)

RecordsPayInv == ShapeInv /\ SuccessMeansPaid /\ RunsShareNobody /\ ProcessedMeansPaid

LEMMA RecordsPayInit == RecordsInit => RecordsPayInv
BY ShapeInit, CountsInit, ProcessedInit DEF RecordsInit, RecordsPayInv

LEMMA PayrollStepOrNothing ==
  ASSUME ShapeInv, [RecordsNext]_recordVars
  PROVE  PayrollNext \/ UNCHANGED <<run, employees, attendancePeriods, payslips>>
BY PayrollOrNothing DEF PayrollNext, RosterStep, recordVars, dbVars

LEMMA RecordsPayInductive == RecordsPayInv /\ [RecordsNext]_recordVars => RecordsPayInv'
<1> SUFFICES ASSUME RecordsPayInv, [RecordsNext]_recordVars
             PROVE  RecordsPayInv'
  OBVIOUS
<1>1. ShapeInv' /\ PayrollInv
  BY ShapeInductive DEF RecordsPayInv, ShapeInv
<1>2. CASE PayrollNext
  BY <1>1, <1>2, CountsInductive, ProcessedInductive DEF RecordsPayInv
<1>3. CASE UNCHANGED <<run, employees, attendancePeriods, payslips>>
  BY <1>1, <1>3 DEF RecordsPayInv, SuccessMeansPaid, RunsShareNobody, ProcessedMeansPaid, Paid
<1> QED
  BY <1>2, <1>3, PayrollStepOrNothing DEF RecordsPayInv

(* The mark of a period still means that a run paid whom it listed, with   *)
(* claims and overtimes changing under it.                                 *)
THEOREM MarkMeansPaidWithRecords == RecordsSpec => []ProcessedMeansPaid
<1>1. RecordsPayInv => ProcessedMeansPaid
  BY DEF RecordsPayInv
<1> QED
  BY <1>1, RecordsPayInit, RecordsPayInductive, PTL DEF RecordsSpec, RecordsNext

(* With claims, overtimes and previews around the runs, and departures,    *)
(* payroll still keeps the ledger.                                         *)
THEOREM RecordsImplementLedger == RecordsSpec => KeepsLedger
<1>1. RecordsInit => Ledger!LedgerInit
  BY LedgerInitial DEF RecordsInit
<1>2. RecordsPayInv /\ [RecordsNext]_recordVars => [Ledger!LedgerNext]_Ledger!ledgerVars
  <2> SUFFICES ASSUME RecordsPayInv, [RecordsNext]_recordVars
               PROVE  Ledger!LedgerNext \/ UNCHANGED Ledger!ledgerVars
    OBVIOUS
  <2>1. CASE PayrollNext
    BY <2>1, StepKeepsLedger DEF RecordsPayInv, ShapeInv
  <2>2. CASE UNCHANGED <<run, employees, attendancePeriods, payslips>>
    BY <2>2 DEF Ledger!ledgerVars
  <2> QED
    BY <2>1, <2>2, PayrollStepOrNothing DEF RecordsPayInv
<1> QED
  BY <1>1, <1>2, RecordsPayInit, RecordsPayInductive, PTL
  DEF RecordsSpec, RecordsNext, KeepsLedger, Ledger!LedgerSpec
=============================================================================
