---------------------------- MODULE LifecycleProofs ----------------------------
(***************************************************************************)
(* Theorems about PeriodLifecycle, for any periods, employees, requests,   *)
(* days and initial databases: first what holds however requests overlap,  *)
(* then what holds as long as they do not.  The steps of payroll runs are  *)
(* steps of Payroll, so the lemmas about those carry over.                 *)
(***************************************************************************)
EXTENDS PeriodLifecycle, PayrollProofs

(* What holds of the call q by itself: which operation it is and what it   *)
(* knows at which point.                                                   *)
CallShape(c, q) ==
  /\ c.pc \in PeriodInProgress => c.periodId \in PeriodId
  /\ c.pc \in {"deactivate", "insert", "write"} => c.dto \in PeriodDto
  /\ c.pc = "deactivate" => c.op \in {"create", "update"}
  /\ c.pc = "insert" => c.op = "create"
  /\ c.pc = "write" => c.op = "update"
  /\ c.pc = "audit" => c.op \in {"create", "update", "remove"}
  /\ c.pc \in {"attendances", "overtimes", "delete"} => c.op = "remove"
  /\ c.pc \in {"deactivate", "insert"} /\ c.op = "create" =>
       /\ c.periodId = NewPeriodId[q]
       /\ c.dto.startDate \in Day /\ c.dto.endDate \in Day
       /\ c.dto.startDate < c.dto.endDate

PeriodCallsOK == /\ periodCall \in [PeriodRequest -> PeriodCall]
                 /\ \A q \in PeriodRequest : CallShape(periodCall[q], q)

CheckInShape(c) ==
  c.pc \in CheckInProgress \cup {"returned"} =>
    c.employeeId \in EmployeeId /\ c.date \in Day \ Weekend /\ c.periodId \in PeriodId

CheckInsOK == /\ checkIn \in [AttendanceRequest -> CheckIn]
              /\ \A q \in AttendanceRequest : CheckInShape(checkIn[q])
              /\ today \in Calendar

AttendancesOK == /\ AttendanceOncePerDay
                 /\ \A a \in attendances : /\ attendancePeriods[a.attendancePeriodId] # None
                                           /\ a.date \notin Weekend

(* The record a check-in answers for belongs to the period it remembers.   *)
AnswersHold ==
  \A q \in AttendanceRequest : checkIn[q].pc \in {"audit", "returned"} =>
    \/ \E a \in attendances : /\ a.employeeId = checkIn[q].employeeId
                               /\ a.date = checkIn[q].date
                               /\ a.attendancePeriodId = checkIn[q].periodId
    \/ attendancePeriods[checkIn[q].periodId] = None

RemovalsLogged ==
  \A q \in PeriodRequest :
    periodCall[q].pc = "delete" => Logged(RemovalEntry(periodCall[q].periodId))

(* A period that a call has yet to insert is known to nobody.              *)
Pending(q) == \/ periodCall[q].pc = "idle"
              \/ periodCall[q].pc \in {"deactivate", "insert"} /\ periodCall[q].op = "create"

Unknown(p) ==
  /\ attendancePeriods[p] = None
  /\ \A r \in PayrollRequest : run[r].periodId = p => run[r].pc = "rejected" /\ run[r].processed = {}
  /\ \A q \in AttendanceRequest : checkIn[q].periodId # p

PendingUnknown == \A q \in PeriodRequest : Pending(q) => Unknown(NewPeriodId[q])

(* What of it Payroll states.                                              *)
PaymentsOK == PayrollInv /\ SuccessMeansPaid /\ RunsShareNobody /\ ProcessedMeansPaid

LifecycleInv == /\ PaymentsOK /\ PeriodCallsOK /\ CheckInsOK
                /\ AttendancesOK /\ AnswersHold /\ RemovalsLogged /\ PendingUnknown
                /\ overlapped \in BOOLEAN
-----------------------------------------------------------------------------
(* What a step may do to the tables.                                       *)

(* Rows of periods are written, but for the mark, and none comes or goes.  *)
Rewritten == /\ UNCHANGED tablesButPeriods
             /\ attendancePeriods' \in Table(PeriodId, PeriodRow)
             /\ \A p \in PeriodId :
                  /\ attendancePeriods'[p] = None <=> attendancePeriods[p] = None
                  /\ attendancePeriods[p] # None =>
                       attendancePeriods'[p].payrollProcessed = attendancePeriods[p].payrollProcessed

Inserted(p, row) == /\ UNCHANGED tablesButPeriods
                    /\ row \in PeriodRow /\ ~row.payrollProcessed
                    /\ attendancePeriods' = [attendancePeriods EXCEPT ![p] = row]

Dropped(p) == attendancePeriods[p] # None /\ DeletePeriod(p)

LEMMA InitialInv == LifecycleInit => LifecycleInv
<1> SUFFICES ASSUME LifecycleInit
             PROVE  LifecycleInv
  OBVIOUS
<1>1. PaymentsOK
  BY InitOK, CountsInit, ProcessedInit DEF LifecycleInit, PaymentsOK
<1>2. PeriodCallsOK /\ RemovalsLogged
  <2>1. IdlePeriodCall \in PeriodCall /\ IdlePeriodCall.pc = "idle"
    BY DEF IdlePeriodCall, PeriodCall
  <2> QED
    BY <2>1 DEF LifecycleInit, PeriodInit, PeriodCallsOK, RemovalsLogged, CallShape, PeriodInProgress
<1>3. CheckInsOK /\ AnswersHold
  BY DEF LifecycleInit, CheckInInit, ClockInit, IdleCheckIn, CheckIn, CheckInsOK, CheckInShape,
     CheckInProgress, AnswersHold
<1>4. AttendancesOK
  BY InitialAttendancesAssumption
  DEF LifecycleInit, PayrollInit, DatabaseInit, AttendancesOK, AttendanceOncePerDay
<1>5. PendingUnknown
  <2> SUFFICES ASSUME NEW q \in PeriodRequest
               PROVE  Unknown(NewPeriodId[q])
    BY DEF PendingUnknown
  <2>1. NewPeriodId[q] \in PeriodId
    BY NewPeriodAssumption
  <2>2. attendancePeriods[NewPeriodId[q]] = None
    BY NewPeriodAssumption DEF LifecycleInit, PayrollInit, DatabaseInit
  <2> QED
    BY <2>1, <2>2, NoneAssumption
    DEF Unknown, LifecycleInit, PayrollInit, CheckInInit, IdleCheckIn, IdleRun
<1> QED
  BY <1>1, <1>2, <1>3, <1>4, <1>5 DEF LifecycleInv, LifecycleInit
-----------------------------------------------------------------------------
(* The calls on periods.                                                   *)

LEMMA OneCallChanges ==
  ASSUME PeriodCallsOK, NEW q \in PeriodRequest, NEW c \in PeriodCall, CallShape(c, q),
         periodCall' = [periodCall EXCEPT ![q] = c]
  PROVE  PeriodCallsOK'
BY DEF PeriodCallsOK

LEMMA CallEnds ==
  ASSUME PeriodCallsOK, NEW q \in PeriodRequest, NEW how \in PeriodEnded, PeriodEnds(q, how)
  PROVE  PeriodCallsOK'
<1> DEFINE c == [IdlePeriodCall EXCEPT !.pc = how]
<1>1. c \in PeriodCall /\ CallShape(c, q)
  BY DEF IdlePeriodCall, PeriodCall, CallShape, PeriodInProgress, PeriodEnded
<1> QED
  BY <1>1, OneCallChanges DEF PeriodEnds

LEMMA CreatePeriodOK ==
  ASSUME LifecycleInv, NEW q \in PeriodRequest, CreatePeriod(q)
  PROVE  PeriodCallsOK'
<1>1. PICK dto \in PeriodDto :
        /\ dto.startDate # None /\ dto.endDate # None
        /\ IF \/ dto.startDate >= dto.endDate
              \/ OverlappingPeriods(dto.startDate, dto.endDate) # {}
           THEN PeriodEnds(q, "refused")
           ELSE periodCall' = [periodCall EXCEPT ![q] =
                  [IdlePeriodCall EXCEPT !.op = "create", !.periodId = NewPeriodId[q],
                     !.dto = dto, !.pc = IF WantsActive(dto) THEN "deactivate" ELSE "insert"]]
  BY DEF CreatePeriod
<1>2. CASE PeriodEnds(q, "refused")
  BY <1>2, CallEnds DEF LifecycleInv, PeriodEnded
<1> DEFINE c == [IdlePeriodCall EXCEPT !.op = "create", !.periodId = NewPeriodId[q],
                   !.dto = dto, !.pc = IF WantsActive(dto) THEN "deactivate" ELSE "insert"]
<1>3. CASE ~(dto.startDate >= dto.endDate) /\ periodCall' = [periodCall EXCEPT ![q] = c]
  <2>1. dto.startDate \in Day /\ dto.endDate \in Day
    BY <1>1, PeriodDtoAssumption
  <2>2. dto.startDate < dto.endDate
    BY <1>3, <2>1, DayAssumption
  <2>3. c \in PeriodCall /\ CallShape(c, q)
    BY <2>1, <2>2, NewPeriodAssumption DEF IdlePeriodCall, PeriodCall, CallShape, PeriodInProgress
  <2> QED
    BY <1>3, <2>3, OneCallChanges DEF LifecycleInv
<1> QED
  BY <1>1, <1>2, <1>3

LEMMA UpdatePeriodOK ==
  ASSUME LifecycleInv, NEW q \in PeriodRequest, UpdatePeriod(q)
  PROVE  PeriodCallsOK'
<1>1. PICK p \in PeriodId, dto \in PeriodDto :
        IF UpdateRefused(attendancePeriods[p], dto)
        THEN PeriodEnds(q, "refused")
        ELSE periodCall' = [periodCall EXCEPT ![q] =
               [IdlePeriodCall EXCEPT !.op = "update", !.periodId = p, !.dto = dto,
                  !.pc = IF dto.isActive = TRUE THEN "deactivate" ELSE "write"]]
  BY DEF UpdatePeriod
<1>2. CASE PeriodEnds(q, "refused")
  BY <1>2, CallEnds DEF LifecycleInv, PeriodEnded
<1> DEFINE c == [IdlePeriodCall EXCEPT !.op = "update", !.periodId = p, !.dto = dto,
                   !.pc = IF dto.isActive = TRUE THEN "deactivate" ELSE "write"]
<1>3. c \in PeriodCall /\ CallShape(c, q)
  BY DEF IdlePeriodCall, PeriodCall, CallShape, PeriodInProgress
<1> HIDE DEF c
<1> QED
  BY <1>1, <1>2, <1>3, OneCallChanges DEF LifecycleInv, c

LEMMA RemovePeriodOK ==
  ASSUME LifecycleInv, NEW q \in PeriodRequest, RemovePeriod(q)
  PROVE  PeriodCallsOK'
<1>1. PICK p \in PeriodId :
        \/ PeriodEnds(q, "refused")
        \/ periodCall' = [periodCall EXCEPT ![q] =
             [IdlePeriodCall EXCEPT !.op = "remove", !.periodId = p, !.pc = "attendances"]]
  BY DEF RemovePeriod
<1>2. CASE PeriodEnds(q, "refused")
  BY <1>2, CallEnds DEF LifecycleInv, PeriodEnded
<1> DEFINE c == [IdlePeriodCall EXCEPT !.op = "remove", !.periodId = p, !.pc = "attendances"]
<1>3. c \in PeriodCall /\ CallShape(c, q)
  BY DEF IdlePeriodCall, PeriodCall, CallShape, PeriodInProgress
<1> HIDE DEF c
<1> QED
  BY <1>1, <1>2, <1>3, OneCallChanges DEF LifecycleInv, c

(* A call that has just been made.                                         *)
LEMMA Started ==
  ASSUME periodCall \in [PeriodRequest -> PeriodCall], NEW q \in PeriodRequest, PeriodStart(q)
  PROVE  /\ periodCall[q].pc = "idle"
         /\ \E c \in PeriodCall :
              /\ periodCall' = [periodCall EXCEPT ![q] = c]
              /\ c.pc \in {"refused", "deactivate", "insert", "write", "attendances"}
<1>1. CASE PeriodEnds(q, "refused")
  <2>1. [IdlePeriodCall EXCEPT !.pc = "refused"] \in PeriodCall
    BY DEF IdlePeriodCall, PeriodCall, PeriodEnded
  <2> QED
    BY <1>1, <2>1 DEF PeriodEnds, PeriodStart, CreatePeriod, UpdatePeriod, RemovePeriod, IdlePeriodCall
<1>2. CASE CreatePeriod(q) /\ ~PeriodEnds(q, "refused")
  <2>1. PICK dto \in PeriodDto :
          periodCall' = [periodCall EXCEPT ![q] =
            [IdlePeriodCall EXCEPT !.op = "create", !.periodId = NewPeriodId[q],
               !.dto = dto, !.pc = IF WantsActive(dto) THEN "deactivate" ELSE "insert"]]
    BY <1>2 DEF CreatePeriod
  <2> DEFINE c == [IdlePeriodCall EXCEPT !.op = "create", !.periodId = NewPeriodId[q],
                     !.dto = dto, !.pc = IF WantsActive(dto) THEN "deactivate" ELSE "insert"]
  <2>2. c \in PeriodCall /\ c.pc \in {"deactivate", "insert"}
    BY NewPeriodAssumption DEF IdlePeriodCall, PeriodCall, PeriodInProgress
  <2> QED
    BY <1>2, <2>1, <2>2 DEF CreatePeriod
<1>3. CASE UpdatePeriod(q) /\ ~PeriodEnds(q, "refused")
  <2>1. PICK p \in PeriodId, dto \in PeriodDto :
          periodCall' = [periodCall EXCEPT ![q] =
            [IdlePeriodCall EXCEPT !.op = "update", !.periodId = p, !.dto = dto,
               !.pc = IF dto.isActive = TRUE THEN "deactivate" ELSE "write"]]
    BY <1>3 DEF UpdatePeriod
  <2> DEFINE c == [IdlePeriodCall EXCEPT !.op = "update", !.periodId = p, !.dto = dto,
                     !.pc = IF dto.isActive = TRUE THEN "deactivate" ELSE "write"]
  <2>2. c \in PeriodCall /\ c.pc \in {"deactivate", "write"}
    BY DEF IdlePeriodCall, PeriodCall, PeriodInProgress
  <2> QED
    BY <1>3, <2>1, <2>2 DEF UpdatePeriod
<1>4. CASE RemovePeriod(q) /\ ~PeriodEnds(q, "refused")
  <2>1. PICK p \in PeriodId :
          periodCall' = [periodCall EXCEPT ![q] =
            [IdlePeriodCall EXCEPT !.op = "remove", !.periodId = p, !.pc = "attendances"]]
    BY <1>4 DEF RemovePeriod
  <2> DEFINE c == [IdlePeriodCall EXCEPT !.op = "remove", !.periodId = p, !.pc = "attendances"]
  <2>2. c \in PeriodCall /\ c.pc = "attendances"
    BY DEF IdlePeriodCall, PeriodCall, PeriodInProgress
  <2> QED
    BY <1>4, <2>1, <2>2 DEF RemovePeriod
<1> QED
  BY <1>1, <1>2, <1>3, <1>4 DEF PeriodStart

(* A call that moves on with what it has.                                  *)
LEMMA CallMovesOn ==
  ASSUME PeriodCallsOK, NEW q \in PeriodRequest, NEW pc \in PeriodInProgress,
         CallShape([periodCall[q] EXCEPT !.pc = pc], q), PeriodGoto(q, pc)
  PROVE  PeriodCallsOK'
<1> DEFINE c == [periodCall[q] EXCEPT !.pc = pc]
<1>1. c \in PeriodCall /\ periodCall' = [periodCall EXCEPT ![q] = c]
  BY DEF PeriodCallsOK, PeriodCall, PeriodGoto
<1> HIDE DEF c
<1> QED
  BY <1>1, OneCallChanges DEF c

LEMMA MergeTyped ==
  ASSUME NEW row \in PeriodRow, NEW dto \in PeriodDto
  PROVE  /\ Merge(row, dto) \in PeriodRow
         /\ Merge(row, dto).payrollProcessed = row.payrollProcessed
BY PeriodDtoAssumption DEF Merge, OrElse, PeriodRow

(* Each step keeps the calls in shape, and does to the tables only this.   *)
LEMMA InsertPeriodOK ==
  ASSUME LifecycleInv, NEW q \in PeriodRequest, InsertPeriod(q)
  PROVE  /\ PeriodCallsOK'
         /\ Pending(q) /\ Inserted(NewPeriodId[q], NewPeriod(periodCall[q].dto))
<1> DEFINE row == NewPeriod(periodCall[q].dto)
           c == [periodCall[q] EXCEPT !.pc = "audit", !.written = row]
<1>1. /\ periodCall[q] \in PeriodCall /\ CallShape(periodCall[q], q)
      /\ periodCall \in [PeriodRequest -> PeriodCall] /\ periodCall[q].pc = "insert"
  BY DEF LifecycleInv, PeriodCallsOK, InsertPeriod
<1>2. /\ periodCall[q].op = "create" /\ periodCall[q].periodId = NewPeriodId[q]
      /\ periodCall[q].dto.startDate \in Day /\ periodCall[q].dto.endDate \in Day
  BY <1>1 DEF CallShape
<1>3. row \in PeriodRow /\ ~row.payrollProcessed
  BY <1>2 DEF NewPeriod, WantsActive, PeriodRow, PeriodStatus
<1>4. attendancePeriods' = [attendancePeriods EXCEPT ![NewPeriodId[q]] = row]
  BY <1>2 DEF InsertPeriod
<1> HIDE DEF row
<1>5. periodCall' = [periodCall EXCEPT ![q] = c]
  BY <1>1 DEF InsertPeriod, row
<1>6. c \in PeriodCall /\ CallShape(c, q)
  BY <1>1, <1>2, <1>3 DEF PeriodCall, CallShape, PeriodInProgress
<1> HIDE DEF c
<1>7. PeriodCallsOK'
  BY <1>5, <1>6, OneCallChanges DEF LifecycleInv
<1> QED
  BY <1>1, <1>2, <1>3, <1>4, <1>7 DEF Pending, Inserted, InsertPeriod, row

LEMMA DeactivateOthersOK ==
  ASSUME LifecycleInv, NEW q \in PeriodRequest, DeactivateOthers(q)
  PROVE  PeriodCallsOK' /\ Rewritten
<1>1. /\ periodCall[q] \in PeriodCall /\ CallShape(periodCall[q], q)
      /\ periodCall[q].pc = "deactivate"
  BY DEF LifecycleInv, PeriodCallsOK, DeactivateOthers
<1>2. PeriodCallsOK'
  <2> DEFINE pc == IF periodCall[q].op = "create" THEN "insert" ELSE "write"
  <2>1. pc \in PeriodInProgress /\ PeriodGoto(q, pc)
    BY DEF DeactivateOthers, PeriodInProgress
  <2>2. CallShape([periodCall[q] EXCEPT !.pc = pc], q)
    BY <1>1 DEF CallShape, PeriodCall, PeriodInProgress
  <2> QED
    BY <2>1, <2>2, CallMovesOn DEF LifecycleInv
<1>3. ASSUME NEW p \in PeriodId
      PROVE  /\ attendancePeriods'[p] \in PeriodRow \cup {None}
             /\ attendancePeriods'[p] = None <=> attendancePeriods[p] = None
             /\ attendancePeriods[p] # None =>
                  attendancePeriods'[p].payrollProcessed = attendancePeriods[p].payrollProcessed
  <2>1. CASE attendancePeriods'[p] = attendancePeriods[p]
    BY <2>1 DEF LifecycleInv, PaymentsOK, PayrollInv, DatabaseTypeOK, Table
  <2>2. CASE /\ attendancePeriods[p] # None
             /\ attendancePeriods'[p] = [attendancePeriods[p] EXCEPT !.isActive = FALSE]
    <3>1. attendancePeriods[p] \in PeriodRow
      BY <2>2 DEF LifecycleInv, PaymentsOK, PayrollInv, DatabaseTypeOK, Table
    <3>2. attendancePeriods'[p] \in PeriodRow
      BY <2>2, <3>1 DEF PeriodRow
    <3> QED
      BY <2>2, <3>1, <3>2, NoneAssumption DEF PeriodRow
  <2> QED
    BY <2>1, <2>2 DEF DeactivateOthers
<1>4. attendancePeriods' \in Table(PeriodId, PeriodRow)
  BY <1>3 DEF DeactivateOthers, Table
<1> QED
  BY <1>2, <1>3, <1>4 DEF Rewritten, DeactivateOthers

LEMMA WritePeriodOK ==
  ASSUME LifecycleInv, NEW q \in PeriodRequest, WritePeriod(q)
  PROVE  PeriodCallsOK' /\ Rewritten
<1>1. /\ periodCall[q] \in PeriodCall /\ CallShape(periodCall[q], q)
      /\ periodCall \in [PeriodRequest -> PeriodCall] /\ periodCall[q].pc = "write"
      /\ attendancePeriods \in [PeriodId -> PeriodRow \cup {None}]
  BY DEF LifecycleInv, PeriodCallsOK, WritePeriod, PaymentsOK, PayrollInv, DatabaseTypeOK, Table
<1>2. PICK p \in PeriodId, dto \in PeriodDto : p = periodCall[q].periodId /\ dto = periodCall[q].dto
  BY <1>1 DEF CallShape, PeriodInProgress
<1>3. CASE attendancePeriods[p] = None
  BY <1>1, <1>2, <1>3, CallEnds DEF WritePeriod, LifecycleInv, PeriodEnded, Rewritten, Table
<1>4. CASE attendancePeriods[p] # None
  <2> DEFINE row == Merge(attendancePeriods[p], dto)
             c == [periodCall[q] EXCEPT !.pc = "audit", !.written = row]
  <2>1. /\ attendancePeriods' = [attendancePeriods EXCEPT ![p] = row]
        /\ periodCall' = [periodCall EXCEPT ![q].pc = "audit", ![q].written = row]
    BY <1>2, <1>4 DEF WritePeriod
  <2>2. row \in PeriodRow /\ row.payrollProcessed = attendancePeriods[p].payrollProcessed
    BY <1>1, <1>4, MergeTyped
  <2> HIDE DEF row
  <2>3. c \in PeriodCall /\ CallShape(c, q) /\ periodCall' = [periodCall EXCEPT ![q] = c]
    BY <1>1, <2>1, <2>2 DEF PeriodCall, CallShape, PeriodInProgress
  <2> HIDE DEF c
  <2>4. PeriodCallsOK'
    BY <2>3, OneCallChanges DEF LifecycleInv
  <2> QED
    BY <1>1, <1>4, <2>1, <2>2, <2>4, NoneAssumption DEF Rewritten, WritePeriod, Table
<1> QED
  BY <1>3, <1>4

LEMMA NothingRewritten ==
  ASSUME LifecycleInv, UNCHANGED dbVars
  PROVE  Rewritten
BY DEF Rewritten, tablesButPeriods, dbVars, LifecycleInv, PaymentsOK, PayrollInv, DatabaseTypeOK

LEMMA FindAttendancesOK ==
  ASSUME LifecycleInv, NEW q \in PeriodRequest, FindAttendances(q)
  PROVE  PeriodCallsOK' /\ Rewritten
<1> DEFINE found == \E a \in attendances : a.attendancePeriodId = periodCall[q].periodId
           c == [periodCall[q] EXCEPT !.pc = "overtimes", !.found = found]
<1>1. /\ periodCall[q] \in PeriodCall /\ CallShape(periodCall[q], q)
      /\ periodCall \in [PeriodRequest -> PeriodCall] /\ periodCall[q].pc = "attendances"
  BY DEF LifecycleInv, PeriodCallsOK, FindAttendances
<1>2. found \in BOOLEAN
  OBVIOUS
<1>3. periodCall' = [periodCall EXCEPT ![q].pc = "overtimes", ![q].found = found]
  BY DEF FindAttendances
<1> HIDE DEF found
<1>4. periodCall' = [periodCall EXCEPT ![q] = c]
  BY <1>1, <1>3
<1>5. c \in PeriodCall /\ CallShape(c, q)
  BY <1>1, <1>2 DEF PeriodCall, CallShape, PeriodInProgress
<1> HIDE DEF c
<1> QED
  BY <1>4, <1>5, OneCallChanges, NothingRewritten DEF LifecycleInv, FindAttendances

LEMMA FindOvertimesOK ==
  ASSUME LifecycleInv, NEW q \in PeriodRequest, FindOvertimes(q)
  PROVE  PeriodCallsOK' /\ Rewritten
<1>1. /\ periodCall[q] \in PeriodCall /\ CallShape(periodCall[q], q)
      /\ periodCall[q].pc = "overtimes"
  BY DEF LifecycleInv, PeriodCallsOK, FindOvertimes
<1>2. CallShape([periodCall[q] EXCEPT !.pc = "audit"], q)
  BY <1>1 DEF PeriodCall, CallShape, PeriodInProgress
<1>3. PeriodCallsOK'
  BY <1>2, CallMovesOn, CallEnds DEF LifecycleInv, FindOvertimes, PeriodInProgress, PeriodEnded
<1> QED
  BY <1>3, NothingRewritten DEF FindOvertimes

LEMMA AuditPeriodOK ==
  ASSUME LifecycleInv, NEW q \in PeriodRequest, AuditPeriod(q)
  PROVE  PeriodCallsOK' /\ Rewritten
<1>1. /\ periodCall[q] \in PeriodCall /\ CallShape(periodCall[q], q)
      /\ periodCall[q].pc = "audit"
  BY DEF LifecycleInv, PeriodCallsOK, AuditPeriod
<1>2. CASE periodCall[q].op = "remove"
  <2>1. CallShape([periodCall[q] EXCEPT !.pc = "delete"], q)
    BY <1>1, <1>2 DEF PeriodCall, CallShape, PeriodInProgress
  <2> QED
    BY <1>2, <2>1, CallMovesOn, NothingRewritten DEF LifecycleInv, AuditPeriod, PeriodInProgress
<1>3. CASE periodCall[q].op # "remove"
  BY <1>3, CallEnds, NothingRewritten DEF LifecycleInv, AuditPeriod, PeriodEnded
<1> QED
  BY <1>2, <1>3

LEMMA DeletePeriodRowOK ==
  ASSUME LifecycleInv, NEW q \in PeriodRequest, DeletePeriodRow(q)
  PROVE  /\ PeriodCallsOK'
         /\ Rewritten \/ \E p \in PeriodId : Dropped(p) /\ p = periodCall[q].periodId
<1>1. PeriodCallsOK'
  BY CallEnds DEF LifecycleInv, DeletePeriodRow, PeriodEnded
<1>2. periodCall[q].periodId \in PeriodId
  BY DEF LifecycleInv, PeriodCallsOK, CallShape, PeriodInProgress, DeletePeriodRow
<1> QED
  BY <1>1, <1>2, NothingRewritten DEF DeletePeriodRow, Dropped

(* What a call on a period may do.                                         *)
LEMMA PeriodCallOK ==
  ASSUME LifecycleInv, NEW q \in PeriodRequest, PeriodStart(q) \/ PeriodStep(q)
  PROVE  /\ PeriodCallsOK'
         /\ \/ Rewritten
            \/ /\ InsertPeriod(q) /\ Pending(q)
               /\ Inserted(NewPeriodId[q], NewPeriod(periodCall[q].dto))
            \/ \E p \in PeriodId : /\ DeletePeriodRow(q) /\ Dropped(p)
                                   /\ p = periodCall[q].periodId
<1>1. CASE PeriodStart(q)
  BY <1>1, CreatePeriodOK, UpdatePeriodOK, RemovePeriodOK, NothingRewritten
  DEF PeriodStart, CreatePeriod, UpdatePeriod, RemovePeriod
<1>2. CASE PeriodCrash(q)
  BY <1>2, CallEnds, NothingRewritten DEF PeriodCrash, LifecycleInv, PeriodEnded
<1>3. CASE PeriodStep(q) /\ ~PeriodCrash(q)
  BY <1>3, InsertPeriodOK, DeactivateOthersOK, WritePeriodOK, FindAttendancesOK,
     FindOvertimesOK, AuditPeriodOK, DeletePeriodRowOK DEF PeriodStep
<1> QED
  BY <1>1, <1>2, <1>3
-----------------------------------------------------------------------------
(* What payroll relies on survives the calls on periods.                   *)

LEMMA RewritingKeepsPayments ==
  ASSUME PaymentsOK, Rewritten, UNCHANGED run
  PROVE  PaymentsOK'
<1>1. PayrollInv'
  BY DEF PaymentsOK, PayrollInv, DatabaseTypeOK, RunsOK, Rewritten, tablesButPeriods
<1>2. \A e, p : Paid(e, p)' <=> Paid(e, p)
  BY DEF Rewritten, tablesButPeriods, Paid
<1>3. \A r \in PayrollRequest : run[r].processed # {} => run[r].periodId \in PeriodId
  BY DEF PaymentsOK, PayrollInv, RunsOK, RunShape
<1>4. SuccessMeansPaid'
  BY <1>2, <1>3 DEF PaymentsOK, SuccessMeansPaid, Rewritten, tablesButPeriods
<1>5. ProcessedMeansPaid'
  BY <1>2 DEF PaymentsOK, ProcessedMeansPaid, Rewritten, tablesButPeriods
<1> QED
  BY <1>1, <1>4, <1>5 DEF PaymentsOK, RunsShareNobody

LEMMA InsertingKeepsPayments ==
  ASSUME PaymentsOK, NEW p \in PeriodId, NEW row, Unknown(p), Inserted(p, row), UNCHANGED run
  PROVE  PaymentsOK'
<1>1. attendancePeriods \in Table(PeriodId, PeriodRow)
  BY DEF PaymentsOK, PayrollInv, DatabaseTypeOK
<1>2. attendancePeriods' \in Table(PeriodId, PeriodRow)
  BY <1>1 DEF Inserted, Table
<1>3. PayrollInv'
  BY <1>2 DEF PaymentsOK, PayrollInv, DatabaseTypeOK, RunsOK, Inserted, tablesButPeriods
<1>4. /\ \A e, x : Paid(e, x)' <=> Paid(e, x)
      /\ \A x \in PeriodId \ {p} : attendancePeriods'[x] = attendancePeriods[x]
      /\ attendancePeriods'[p] = row
  BY <1>1 DEF Inserted, tablesButPeriods, Paid, Table
<1>5. \A r \in PayrollRequest : run[r].processed # {} => run[r].periodId \in PeriodId \ {p}
  BY DEF PaymentsOK, PayrollInv, RunsOK, RunShape, Unknown
<1>6. SuccessMeansPaid'
  BY <1>4, <1>5 DEF PaymentsOK, SuccessMeansPaid, Inserted, tablesButPeriods
<1>7. ProcessedMeansPaid'
  BY <1>4 DEF PaymentsOK, ProcessedMeansPaid, Inserted, tablesButPeriods
<1> QED
  BY <1>3, <1>6, <1>7 DEF PaymentsOK, RunsShareNobody

LEMMA DroppingEffect ==
  ASSUME DatabaseTypeOK, NEW p \in PeriodId, Dropped(p)
  PROVE  /\ DatabaseTypeOK'
         /\ attendancePeriods'[p] = None
         /\ \A x \in PeriodId \ {p} : attendancePeriods'[x] = attendancePeriods[x]
         /\ attendances' = {a \in attendances : a.attendancePeriodId # p}
         /\ payslips' = {s \in payslips : s.attendancePeriodId # p}
         /\ employees' = employees
<1>1. /\ attendancePeriods' \in Table(PeriodId, PeriodRow)
      /\ overtimes' \in Table(OvertimeId, OvertimeRow)
      /\ reimbursements' \in Table(ReimbursementId, ReimbursementRow)
  BY WithoutIsTable, Zenon DEF Dropped, DeletePeriod, DatabaseTypeOK
<1>2. attendances' \subseteq attendances /\ payslips' \subseteq payslips
  BY DEF Dropped, DeletePeriod
<1>3. IsFiniteSet(attendances')
  BY <1>2, FS_Subset DEF DatabaseTypeOK
<1>4. DatabaseTypeOK'
  BY <1>1, <1>2, <1>3 DEF Dropped, DeletePeriod, DatabaseTypeOK
<1>5. /\ attendancePeriods'[p] = None
      /\ \A x \in PeriodId \ {p} : attendancePeriods'[x] = attendancePeriods[x]
  BY DEF Dropped, DeletePeriod, Without, DatabaseTypeOK, Table
<1>6. /\ \A a \in attendances : a # None
      /\ \A s \in payslips : s # None
  BY NoneAssumption DEF DatabaseTypeOK
<1>7. /\ attendances' = {a \in attendances : a.attendancePeriodId # p}
      /\ payslips' = {s \in payslips : s.attendancePeriodId # p}
  BY <1>6 DEF Dropped, DeletePeriod
<1> QED
  BY <1>4, <1>5, <1>7 DEF Dropped, DeletePeriod

LEMMA DroppingKeepsPayments ==
  ASSUME PaymentsOK, NEW p \in PeriodId, Dropped(p), UNCHANGED run
  PROVE  PaymentsOK'
<1>1. DatabaseTypeOK
  BY DEF PaymentsOK, PayrollInv
<1>2. PayrollInv'
  BY <1>1, DroppingEffect DEF PaymentsOK, PayrollInv, RunsOK
<1>3. \A e, x : x # p /\ Paid(e, x) => Paid(e, x)'
  BY <1>1, DroppingEffect DEF Paid
<1>4. \A r \in PayrollRequest : run[r].processed # {} => run[r].periodId \in PeriodId
  BY DEF PaymentsOK, PayrollInv, RunsOK, RunShape
<1>5. SuccessMeansPaid'
  BY <1>1, <1>3, <1>4, DroppingEffect DEF PaymentsOK, SuccessMeansPaid
<1>6. ProcessedMeansPaid'
  BY <1>1, <1>3, DroppingEffect DEF PaymentsOK, ProcessedMeansPaid
<1> QED
  BY <1>2, <1>5, <1>6 DEF PaymentsOK, RunsShareNobody
-----------------------------------------------------------------------------
(* Every step keeps the invariant.                                         *)

(* Nothing becomes known of a period that only a payroll run or a check-in *)
(* could have come to know.                                                *)
LEMMA PendingKept ==
  ASSUME LifecycleInv, NEW q \in PeriodRequest, PeriodStart(q) \/ PeriodStep(q),
         NEW x \in PeriodRequest, Pending(x)'
  PROVE  Pending(x) /\ (InsertPeriod(q) => x # q)
<1>1. /\ periodCall[q] \in PeriodCall /\ CallShape(periodCall[q], q)
      /\ periodCall \in [PeriodRequest -> PeriodCall]
  BY DEF LifecycleInv, PeriodCallsOK
<1>2. CASE x # q
  BY <1>1, <1>2 DEF Pending, PeriodStart, CreatePeriod, UpdatePeriod, RemovePeriod, PeriodStep,
     InsertPeriod, DeactivateOthers, WritePeriod, FindAttendances, FindOvertimes,
     DeletePeriodRow, AuditPeriod, PeriodCrash, PeriodEnds, PeriodGoto
<1>3. CASE x = q
  <2>1. CASE periodCall[q].pc = "idle"
    BY <1>3, <2>1 DEF Pending, InsertPeriod
  <2>2. CASE PeriodStep(q)
    BY <1>1, <1>3, <2>2 DEF Pending, CallShape, PeriodCall, PeriodStep, IdlePeriodCall,
       InsertPeriod, DeactivateOthers, WritePeriod, FindAttendances, FindOvertimes,
       DeletePeriodRow, AuditPeriod, PeriodCrash, PeriodEnds, PeriodGoto
  <2> QED
    BY <2>1, <2>2 DEF PeriodStart, CreatePeriod, UpdatePeriod, RemovePeriod
<1> QED
  BY <1>2, <1>3

LEMMA LogKept ==
  ASSUME LifecycleInv, NEW q \in PeriodRequest, PeriodStart(q) \/ PeriodStep(q)
  PROVE  RemovalsLogged'
<1>1. /\ periodCall[q] \in PeriodCall /\ CallShape(periodCall[q], q)
      /\ periodCall \in [PeriodRequest -> PeriodCall]
  BY DEF LifecycleInv, PeriodCallsOK
<1>2. auditLog \subseteq auditLog' /\ auditLost \subseteq auditLost'
  BY DEF PeriodStart, CreatePeriod, UpdatePeriod, RemovePeriod, PeriodStep,
     InsertPeriod, DeactivateOthers, WritePeriod, FindAttendances, FindOvertimes,
     DeletePeriodRow, AuditPeriod, PeriodCrash, LogAudit, auditVars
<1>4. \A x \in PeriodRequest \ {q} : periodCall'[x] = periodCall[x]
  BY <1>1 DEF PeriodStart, CreatePeriod, UpdatePeriod, RemovePeriod, PeriodStep,
     InsertPeriod, DeactivateOthers, WritePeriod, FindAttendances, FindOvertimes,
     DeletePeriodRow, AuditPeriod, PeriodCrash, PeriodEnds, PeriodGoto
<1>5. ASSUME periodCall'[q].pc = "delete"
      PROVE  RemovalEntry(periodCall'[q].periodId) \in auditLog' \cup auditLost'
  <2>1. AuditPeriod(q) /\ periodCall[q].op = "remove"
    <3>1. CASE PeriodStart(q)
      <4>1. PICK c \in PeriodCall : periodCall'[q] = c /\ c.pc # "delete"
        BY <1>1, <3>1, Started DEF PeriodCallsOK
      <4> QED
        BY <1>5, <4>1
    <3>2. CASE FindOvertimes(q) \/ DeactivateOthers(q) \/ FindAttendances(q)
      BY <1>1, <1>5, <3>2 DEF DeactivateOthers, FindAttendances, FindOvertimes, PeriodEnds,
         PeriodGoto, IdlePeriodCall, PeriodCall
    <3>3. CASE InsertPeriod(q) \/ WritePeriod(q) \/ DeletePeriodRow(q) \/ PeriodCrash(q)
      BY <1>1, <1>5, <3>3 DEF InsertPeriod, WritePeriod, DeletePeriodRow, PeriodCrash,
         PeriodEnds, IdlePeriodCall, PeriodCall
    <3>4. CASE AuditPeriod(q)
      BY <1>1, <1>5, <3>4 DEF AuditPeriod, PeriodEnds, IdlePeriodCall
    <3> QED
      BY <3>1, <3>2, <3>3, <3>4 DEF PeriodStep
  <2>2. periodCall'[q].periodId = periodCall[q].periodId
    BY <1>1, <2>1 DEF AuditPeriod, PeriodGoto, PeriodCall
  <2>3. LogAudit(RemovalEntry(periodCall[q].periodId))
    BY <2>1 DEF AuditPeriod, PeriodEntry
  <2>4. RemovalEntry(periodCall[q].periodId) \in auditLog' \cup auditLost'
    BY <2>3 DEF LogAudit
  <2> QED
    BY <2>2, <2>4
<1>6. ASSUME NEW x \in PeriodRequest \ {q}, periodCall'[x].pc = "delete"
      PROVE  RemovalEntry(periodCall'[x].periodId) \in auditLog' \cup auditLost'
  <2>1. RemovalEntry(periodCall[x].periodId) \in auditLog \cup auditLost
    BY <1>4, <1>6 DEF LifecycleInv, RemovalsLogged, Logged
  <2> QED
    BY <1>2, <1>4, <2>1
<1> QED
  BY <1>5, <1>6 DEF RemovalsLogged, Logged, RemovalEntry, AuditEntry

LEMMA PeriodCallStep ==
  ASSUME LifecycleInv, NEW q \in PeriodRequest, PeriodStart(q) \/ PeriodStep(q),
         UNCHANGED <<today, run, checkIn>>, overlapped' \in BOOLEAN
  PROVE  LifecycleInv'
<1>1. DatabaseTypeOK
  BY DEF LifecycleInv, PaymentsOK, PayrollInv
<1>2. NewPeriodId[q] \in PeriodId /\ \A x \in PeriodRequest : NewPeriodId[x] \in PeriodId
  BY NewPeriodAssumption
<1>3. CheckInsOK'
  BY DEF LifecycleInv, CheckInsOK
<1>4. \A a \in attendances : a.attendancePeriodId \in PeriodId
  BY <1>1 DEF DatabaseTypeOK, AttendanceRow
<1>5. \A x \in AttendanceRequest : checkIn[x].pc \in {"audit", "returned"} => checkIn[x].periodId \in PeriodId
  BY DEF LifecycleInv, CheckInsOK, CheckInShape, CheckInProgress
<1>6. CASE Rewritten
  <2>1. PaymentsOK'
    BY <1>6, RewritingKeepsPayments DEF LifecycleInv
  <2>2. AttendancesOK' /\ AnswersHold'
    BY <1>4, <1>5, <1>6 DEF LifecycleInv, AttendancesOK, AttendanceOncePerDay, AnswersHold,
       Rewritten, tablesButPeriods
  <2>3. PendingUnknown'
    BY <1>2, <1>6, PendingKept DEF LifecycleInv, PendingUnknown, Unknown, Rewritten
  <2> QED
    BY <1>3, <2>1, <2>2, <2>3, PeriodCallOK, LogKept DEF LifecycleInv
<1>7. CASE /\ InsertPeriod(q) /\ Pending(q)
           /\ Inserted(NewPeriodId[q], NewPeriod(periodCall[q].dto))
  <2>1. Unknown(NewPeriodId[q])
    BY <1>7 DEF LifecycleInv, PendingUnknown
  <2>2. PaymentsOK'
    BY <1>2, <1>7, <2>1, InsertingKeepsPayments DEF LifecycleInv
  <2>3. /\ \A p \in PeriodId \ {NewPeriodId[q]} : attendancePeriods'[p] = attendancePeriods[p]
        /\ attendances' = attendances
    BY <1>1, <1>2, <1>7 DEF Inserted, DatabaseTypeOK, Table, tablesButPeriods
  <2>4. AttendancesOK' /\ AnswersHold'
    BY <1>4, <1>5, <2>1, <2>3 DEF LifecycleInv, AttendancesOK, AttendanceOncePerDay, AnswersHold, Unknown
  <2>5. PendingUnknown'
    <3> SUFFICES ASSUME NEW x \in PeriodRequest, Pending(x)'
                 PROVE  Unknown(NewPeriodId[x])'
      BY DEF PendingUnknown
    <3>1. Pending(x) /\ x # q /\ NewPeriodId[x] # NewPeriodId[q]
      BY <1>7, PendingKept, NewPeriodAssumption
    <3> QED
      BY <1>2, <2>3, <3>1 DEF LifecycleInv, PendingUnknown, Unknown
  <2> QED
    BY <1>3, <2>2, <2>4, <2>5, PeriodCallOK, LogKept DEF LifecycleInv
<1>8. CASE \E p \in PeriodId : DeletePeriodRow(q) /\ Dropped(p)
  <2>1. PICK p \in PeriodId : Dropped(p)
    BY <1>8
  <2>2. PaymentsOK'
    BY <2>1, DroppingKeepsPayments DEF LifecycleInv
  <2>3. AttendancesOK' /\ AnswersHold'
    BY <1>1, <1>4, <1>5, <2>1, DroppingEffect
    DEF LifecycleInv, AttendancesOK, AttendanceOncePerDay, AnswersHold
  <2>4. PendingUnknown'
    <3>1. \A x \in PeriodId : attendancePeriods[x] = None => attendancePeriods'[x] = None
      BY <1>1, <2>1, DroppingEffect
    <3> QED
      BY <1>2, <3>1, PendingKept DEF LifecycleInv, PendingUnknown, Unknown
  <2> QED
    BY <1>3, <2>2, <2>3, <2>4, PeriodCallOK, LogKept DEF LifecycleInv
<1> QED
  BY <1>6, <1>7, <1>8, PeriodCallOK

(* A payroll run leaves records, roster and the other runs alone, and      *)
(* whatever stands in a period's row but the mark.                         *)
LEMMA RunTouches ==
  ASSUME PayrollInv, NEW r \in PayrollRequest, RunStep(r)
  PROVE  /\ UNCHANGED <<employees, attendances, overtimes, reimbursements>>
         /\ \A x \in PayrollRequest \ {r} : run'[x] = run[x]
         /\ run[r].pc \in {"idle"} \cup InProgress
         /\ HandlerStep(r) \/ FailureStep(r) => run[r].pc \in InProgress
         /\ run[r].pc # "idle" => run'[r].periodId = run[r].periodId
<1>1. run \in [PayrollRequest -> RunRow] /\ run[r] \in RunRow
  BY DEF PayrollInv, RunsOK
<1>2. /\ HandlerStep(r) \/ FailureStep(r) => run[r].pc \in InProgress
      /\ ProcessPayroll(r) => run[r].pc = "idle"
  BY DEF HandlerStep, FailureStep, ProcessPayroll, LoadEmployees, BeginEmployee, CountAttendance,
     CountOvertime, CountReimbursements, GeneratePayslipNumber, CreatePayslip, FinishRun,
     TransactionFails, CommitUnacknowledged, Crash, InProgress, InLoop
<1>3. UNCHANGED <<employees, attendances, overtimes, reimbursements>>
  BY DEF RunStep, HandlerStep, FailureStep, ProcessPayroll, LoadEmployees, BeginEmployee,
     CountAttendance, CountOvertime, CountReimbursements, GeneratePayslipNumber, CreatePayslip,
     FinishRun, TransactionFails, CommitUnacknowledged, Crash, dbVars
<1> DEFINE Alone == /\ \A x \in PayrollRequest \ {r} : run'[x] = run[x]
                    /\ run[r].pc # "idle" => run'[r].periodId = run[r].periodId
<1>4. Alone
  <2>1. ASSUME NEW done, NEW failed, EndTurn(r, done, failed)
        PROVE  Alone
    BY <1>1, <2>1 DEF EndTurn, RunRow
  <2>2. CASE ProcessPayroll(r)
    BY <1>1, <1>2, <2>2 DEF ProcessPayroll
  <2>3. CASE LoadEmployees(r) \/ Crash(r) \/ FinishRun(r)
    BY <1>1, <2>3 DEF LoadEmployees, Crash, FinishRun, RunRow
  <2>4. CASE BeginEmployee(r)
    BY <1>1, <2>1, <2>4 DEF BeginEmployee, RunRow
  <2>5. CASE CountAttendance(r) \/ CountOvertime(r) \/ CountReimbursements(r)
    BY <1>1, <2>5 DEF CountAttendance, CountOvertime, CountReimbursements, RunRow
  <2>6. CASE GeneratePayslipNumber(r)
    BY <1>1, <2>6 DEF GeneratePayslipNumber, RunRow
  <2>7. CASE CreatePayslip(r)
    BY <2>1, <2>7 DEF CreatePayslip
  <2>8. CASE TransactionFails(r) \/ CommitUnacknowledged(r)
    BY <1>1, <2>8 DEF TransactionFails, CommitUnacknowledged, EndTurnInError, RunRow
  <2> QED
    BY <2>2, <2>3, <2>4, <2>5, <2>6, <2>7, <2>8 DEF RunStep, HandlerStep, FailureStep
<1> QED
  BY <1>2, <1>3, <1>4 DEF RunStep

LEMMA PayrollStep ==
  ASSUME LifecycleInv, NEW r \in PayrollRequest, RunStep(r),
         UNCHANGED <<auditVars, today, periodCall, checkIn>>, overlapped' \in BOOLEAN
  PROVE  LifecycleInv'
<1>1. PayrollInv /\ PayrollNext
  BY DEF LifecycleInv, PaymentsOK, PayrollNext
<1>2. PaymentsOK'
  BY <1>1, PayrollInvInductive, CountsInductive, ProcessedInductive DEF LifecycleInv, PaymentsOK
<1>3. /\ attendances' = attendances
      /\ \A p \in PeriodId : attendancePeriods'[p] = None <=> attendancePeriods[p] = None
  BY <1>1, RunTouches, PeriodsStay
<1>4. PeriodCallsOK' /\ CheckInsOK' /\ RemovalsLogged'
  BY DEF LifecycleInv, PeriodCallsOK, CheckInsOK, RemovalsLogged, Logged, auditVars,
     RemovalEntry, AuditEntry
<1>5. AttendancesOK' /\ AnswersHold'
  <2>1. \A a \in attendances : a.attendancePeriodId \in PeriodId
    BY DEF LifecycleInv, PaymentsOK, PayrollInv, DatabaseTypeOK, AttendanceRow
  <2>2. \A x \in AttendanceRequest :
          checkIn[x].pc \in {"audit", "returned"} => checkIn[x].periodId \in PeriodId
    BY DEF LifecycleInv, CheckInsOK, CheckInShape, CheckInProgress
  <2>3. AttendancesOK'
    BY <1>3, <2>1 DEF LifecycleInv, AttendancesOK, AttendanceOncePerDay
  <2>4. AnswersHold'
    BY <1>3, <2>2 DEF LifecycleInv, AnswersHold
  <2> QED
    BY <2>3, <2>4
<1>6. PendingUnknown'
  <2> SUFFICES ASSUME NEW q \in PeriodRequest, Pending(q)'
               PROVE  Unknown(NewPeriodId[q])'
    BY DEF PendingUnknown
  <2> DEFINE p == NewPeriodId[q]
  <2>1. p \in PeriodId /\ Unknown(p)
    BY NewPeriodAssumption DEF LifecycleInv, PendingUnknown, Pending
  <2> HIDE DEF p
  <2>2. ASSUME NEW x \in PayrollRequest, run'[x].periodId = p
        PROVE  run'[x].pc = "rejected" /\ run'[x].processed = {}
    <3>1. CASE run'[x] = run[x]
      BY <2>1, <2>2, <3>1 DEF Unknown
    <3>2. CASE x = r /\ ProcessPayroll(r)
      <4>1. run \in [PayrollRequest -> RunRow]
        BY <1>1 DEF PayrollInv, RunsOK
      <4> QED
        BY <2>1, <2>2, <3>2, <4>1 DEF ProcessPayroll, Processable, IdleRun, Unknown
    <3>3. CASE x = r /\ run[r].pc \in InProgress
      <4>1. run[r].periodId = p
        BY <1>1, <2>2, <3>3, RunTouches DEF InProgress, InLoop
      <4> QED
        BY <2>1, <3>3, <4>1 DEF Unknown, InProgress, InLoop
    <3> QED
      BY <1>1, <3>1, <3>2, <3>3, RunTouches DEF RunStep
  <2>3. Unknown(p)'
    BY <1>3, <2>1, <2>2 DEF Unknown
  <2> QED
    BY <2>3 DEF p
<1> QED
  BY <1>2, <1>4, <1>5, <1>6 DEF LifecycleInv

LEMMA OneCheckInChanges ==
  ASSUME CheckInsOK, NEW q \in AttendanceRequest, NEW c \in CheckIn, CheckInShape(c),
         checkIn' = [checkIn EXCEPT ![q] = c], today' = today
  PROVE  CheckInsOK'
BY DEF CheckInsOK

(* The shape of the check-ins, and whether one has come to know a period   *)
(* that nobody knew.                                                       *)
LEMMA CheckInOK ==
  ASSUME LifecycleInv, NEW q \in AttendanceRequest, SubmitAttendance(q) \/ CheckInStep(q)
  PROVE  /\ CheckInsOK'
         /\ \A x \in AttendanceRequest \ {q} : checkIn'[x] = checkIn[x]
         /\ \/ checkIn'[q].periodId = checkIn[q].periodId
            \/ /\ checkIn'[q].periodId \in PeriodId
               /\ attendancePeriods[checkIn'[q].periodId] # None
<1>1. /\ checkIn \in [AttendanceRequest -> CheckIn] /\ checkIn[q] \in CheckIn
      /\ CheckInShape(checkIn[q]) /\ today \in Day
  BY CalendarAssumption DEF LifecycleInv, CheckInsOK
<1>2. ASSUME NEW pc \in {"insert", "audit", "returned"}, CheckInGoto(q, pc), today' = today,
             checkIn[q].pc \in CheckInProgress
      PROVE  CheckInsOK' /\ checkIn'[q].periodId = checkIn[q].periodId
  <2> DEFINE c == [checkIn[q] EXCEPT !.pc = pc]
  <2>1. c \in CheckIn /\ CheckInShape(c) /\ checkIn' = [checkIn EXCEPT ![q] = c]
    BY <1>1, <1>2 DEF CheckIn, CheckInShape, CheckInGoto, CheckInProgress, CheckInEnded
  <2>2. checkIn'[q].periodId = checkIn[q].periodId
    BY <1>1, <2>1 DEF CheckIn
  <2> HIDE DEF c
  <2> QED
    BY <1>2, <2>1, <2>2, OneCheckInChanges DEF LifecycleInv
<1>3. ASSUME NEW pc \in {"refused", "crashed"}, CheckInGoto(q, pc), today' = today
      PROVE  CheckInsOK' /\ checkIn'[q].periodId = checkIn[q].periodId
  <2> DEFINE c == [checkIn[q] EXCEPT !.pc = pc]
  <2>1. c \in CheckIn /\ CheckInShape(c) /\ checkIn' = [checkIn EXCEPT ![q] = c]
    BY <1>1, <1>3 DEF CheckIn, CheckInShape, CheckInGoto, CheckInProgress, CheckInEnded
  <2>2. checkIn'[q].periodId = checkIn[q].periodId
    BY <1>1, <2>1 DEF CheckIn
  <2> HIDE DEF c
  <2> QED
    BY <1>3, <2>1, <2>2, OneCheckInChanges DEF LifecycleInv
<1>4. CASE SubmitAttendance(q) /\ ~CheckInGoto(q, "refused")
  <2>1. PICK e \in EmployeeId, p \in PeriodsCoveringToday :
          /\ today \notin Weekend
          /\ checkIn' = [checkIn EXCEPT ![q] =
               [pc |-> "lookup", employeeId |-> e, date |-> today, periodId |-> p]]
    BY <1>4 DEF SubmitAttendance
  <2> DEFINE c == [pc |-> "lookup", employeeId |-> e, date |-> today, periodId |-> p]
  <2>2. p \in PeriodId /\ attendancePeriods[p] # None
    BY DEF PeriodsCoveringToday
  <2>3. c \in CheckIn /\ CheckInShape(c)
    BY <1>1, <2>1, <2>2 DEF CheckIn, CheckInShape, CheckInProgress
  <2>4. CheckInsOK'
    BY <1>4, <2>1, <2>3, OneCheckInChanges DEF LifecycleInv, SubmitAttendance
  <2> QED
    BY <1>1, <2>1, <2>2, <2>4
<1>5. CASE FindExisting(q) /\ ~CheckInGoto(q, "insert")
  <2>1. PICK a \in SameDay(q) :
          checkIn' = [checkIn EXCEPT ![q].pc = "returned", ![q].periodId = a.attendancePeriodId]
    BY <1>5 DEF FindExisting
  <2> DEFINE c == [checkIn[q] EXCEPT !.pc = "returned", !.periodId = a.attendancePeriodId]
  <2>2. a \in AttendanceRow /\ attendancePeriods[a.attendancePeriodId] # None
    BY DEF SameDay, LifecycleInv, PaymentsOK, PayrollInv, DatabaseTypeOK, AttendancesOK
  <2>3. a.attendancePeriodId \in PeriodId
    BY <2>2 DEF AttendanceRow
  <2>4. c \in CheckIn /\ CheckInShape(c) /\ checkIn' = [checkIn EXCEPT ![q] = c]
    BY <1>1, <1>5, <2>1, <2>3
    DEF CheckIn, CheckInShape, CheckInProgress, CheckInEnded, FindExisting
  <2>5. checkIn'[q].periodId = a.attendancePeriodId
    BY <1>1, <2>4 DEF CheckIn
  <2> QED
    BY <1>1, <1>5, <2>2, <2>3, <2>4, <2>5, OneCheckInChanges DEF LifecycleInv, FindExisting
<1>6. /\ SubmitAttendance(q) /\ CheckInGoto(q, "refused") => today' = today
      /\ FindExisting(q) /\ CheckInGoto(q, "insert") => today' = today /\ checkIn[q].pc \in CheckInProgress
      /\ InsertAttendance(q) => /\ today' = today /\ checkIn[q].pc \in CheckInProgress
                                /\ CheckInGoto(q, "audit") \/ CheckInGoto(q, "crashed")
      /\ AuditAttendance(q) => /\ today' = today /\ checkIn[q].pc \in CheckInProgress
                               /\ CheckInGoto(q, "returned")
      /\ CheckInCrash(q) => today' = today /\ CheckInGoto(q, "crashed")
  BY DEF SubmitAttendance, FindExisting, InsertAttendance, AuditAttendance, CheckInCrash, CheckInProgress
<1>7. \A x \in AttendanceRequest \ {q} : checkIn'[x] = checkIn[x]
  BY <1>1 DEF SubmitAttendance, CheckInStep, FindExisting, InsertAttendance, AuditAttendance,
     CheckInCrash, CheckInGoto
<1>8. CheckInStep(q) => \/ FindExisting(q) \/ InsertAttendance(q)
                        \/ AuditAttendance(q) \/ CheckInCrash(q)
  BY DEF CheckInStep
<1> QED
  BY <1>2, <1>3, <1>4, <1>5, <1>6, <1>7, <1>8

(* A check-in adds one record at most, the first of its employee and day,  *)
(* to a period that is there.                                              *)
Recorded(q) == /\ SameDay(q) = {}
               /\ NewAttendance(q) \in AttendanceRow
               /\ NewAttendance(q).date \notin Weekend
               /\ attendancePeriods[NewAttendance(q).attendancePeriodId] # None
               /\ attendances' = attendances \cup {NewAttendance(q)}

LEMMA CheckInRecords ==
  ASSUME LifecycleInv, NEW q \in AttendanceRequest, SubmitAttendance(q) \/ CheckInStep(q)
  PROVE  /\ UNCHANGED <<employees, attendancePeriods, overtimes, reimbursements, payslips>>
         /\ attendances' = attendances \/ Recorded(q)
         /\ auditLog \subseteq auditLog' /\ auditLost \subseteq auditLost'
<1>1. CASE InsertAttendance(q) /\ attendances' # attendances
  <2>1. CheckInShape(checkIn[q]) /\ checkIn[q].pc = "insert"
    BY <1>1 DEF LifecycleInv, CheckInsOK, InsertAttendance
  <2>2. NewAttendance(q) \in AttendanceRow /\ NewAttendance(q).date \notin Weekend
    BY <2>1 DEF CheckInShape, CheckInProgress, NewAttendance, AttendanceRow
  <2> QED
    BY <1>1, <2>2 DEF InsertAttendance, HasParents, Recorded, auditVars
<1>2. CASE InsertAttendance(q) /\ attendances' = attendances
  BY <1>2 DEF InsertAttendance, auditVars
<1>3. CASE SubmitAttendance(q) \/ FindExisting(q) \/ AuditAttendance(q) \/ CheckInCrash(q)
  BY <1>3 DEF SubmitAttendance, FindExisting, AuditAttendance, CheckInCrash, LogAudit,
     auditVars, dbVars
<1> QED
  BY <1>1, <1>2, <1>3 DEF CheckInStep

LEMMA CheckInStepKeeps ==
  ASSUME LifecycleInv, NEW q \in AttendanceRequest, SubmitAttendance(q) \/ CheckInStep(q),
         UNCHANGED <<run, periodCall>>, overlapped' \in BOOLEAN
  PROVE  LifecycleInv'
<1>1. /\ checkIn \in [AttendanceRequest -> CheckIn] /\ checkIn[q] \in CheckIn
      /\ CheckInShape(checkIn[q])
  BY DEF LifecycleInv, CheckInsOK
<1>2. /\ attendances \subseteq attendances'
      /\ attendancePeriods' = attendancePeriods /\ payslips' = payslips
  BY CheckInRecords DEF Recorded
<1>3. PaymentsOK'
  <2>1. attendances' \subseteq AttendanceRow /\ IsFiniteSet(attendances')
    BY CheckInRecords, FS_AddElement DEF Recorded, LifecycleInv, PaymentsOK, PayrollInv, DatabaseTypeOK
  <2>2. PayrollInv'
    BY <2>1, CheckInRecords DEF LifecycleInv, PaymentsOK, PayrollInv, DatabaseTypeOK, RunsOK
  <2> QED
    BY <2>2, CheckInRecords DEF LifecycleInv, PaymentsOK, SuccessMeansPaid, RunsShareNobody,
       ProcessedMeansPaid, Paid
<1>4. AttendancesOK'
  <2>1. CASE attendances' = attendances
    BY <1>2, <2>1 DEF LifecycleInv, AttendancesOK, AttendanceOncePerDay
  <2>2. CASE Recorded(q)
    <3>1. \A a \in attendances : ~(/\ a.employeeId = NewAttendance(q).employeeId
                                    /\ a.date = NewAttendance(q).date)
      BY <2>2 DEF Recorded, SameDay, NewAttendance
    <3> QED
      BY <1>2, <2>2, <3>1 DEF LifecycleInv, AttendancesOK, AttendanceOncePerDay, Recorded
  <2> QED
    BY <2>1, <2>2, CheckInRecords
<1>5. AnswersHold'
  <2> SUFFICES ASSUME NEW x \in AttendanceRequest, checkIn'[x].pc \in {"audit", "returned"}
               PROVE  \/ \E a \in attendances' : /\ a.employeeId = checkIn'[x].employeeId
                                                  /\ a.date = checkIn'[x].date
                                                  /\ a.attendancePeriodId = checkIn'[x].periodId
                      \/ attendancePeriods'[checkIn'[x].periodId] = None
    BY DEF AnswersHold
  <2>1. CASE /\ checkIn[x].pc \in {"audit", "returned"}
             /\ checkIn'[x].employeeId = checkIn[x].employeeId
             /\ checkIn'[x].date = checkIn[x].date
             /\ checkIn'[x].periodId = checkIn[x].periodId
    BY <1>2, <2>1 DEF LifecycleInv, AnswersHold
  <2>2. CASE x = q /\ SubmitAttendance(q)
    BY <1>1, <2>2 DEF SubmitAttendance, CheckInGoto, CheckIn
  <2>3. CASE x = q /\ FindExisting(q)
    <3>1. PICK a \in SameDay(q) :
            checkIn' = [checkIn EXCEPT ![q].pc = "returned", ![q].periodId = a.attendancePeriodId]
      BY <1>1, <2>3 DEF FindExisting, CheckInGoto, CheckIn
    <3> QED
      BY <1>1, <1>2, <2>3, <3>1 DEF SameDay, CheckIn
  <2>4. CASE x = q /\ InsertAttendance(q)
    <3>1. /\ attendances' = attendances \cup {NewAttendance(q)}
          /\ CheckInGoto(q, "audit")
      BY <1>1, <2>4 DEF InsertAttendance, CheckInGoto, CheckIn
    <3>2. /\ checkIn'[x].employeeId = checkIn[q].employeeId
          /\ checkIn'[x].date = checkIn[q].date
          /\ checkIn'[x].periodId = checkIn[q].periodId
      BY <1>1, <2>4, <3>1 DEF CheckInGoto, CheckIn
    <3>3. /\ NewAttendance(q) \in attendances'
          /\ NewAttendance(q).employeeId = checkIn'[x].employeeId
          /\ NewAttendance(q).date = checkIn'[x].date
          /\ NewAttendance(q).attendancePeriodId = checkIn'[x].periodId
      BY <3>1, <3>2 DEF NewAttendance
    <3> QED
      BY <3>3
  <2>5. CASE x = q /\ AuditAttendance(q)
    BY <1>1, <2>1, <2>5 DEF AuditAttendance, CheckInGoto, CheckIn
  <2>6. CASE x = q /\ CheckInCrash(q)
    BY <1>1, <2>6 DEF CheckInCrash, CheckInGoto, CheckIn
  <2> QED
    BY <2>1, <2>2, <2>3, <2>4, <2>5, <2>6, CheckInOK DEF CheckInStep
<1>6. PeriodCallsOK'
  BY DEF LifecycleInv, PeriodCallsOK
<1>7. RemovalsLogged'
  BY CheckInRecords DEF LifecycleInv, RemovalsLogged, Logged, RemovalEntry, AuditEntry
<1>8. PendingUnknown'
  <2> SUFFICES ASSUME NEW v \in PeriodRequest, Pending(v)
               PROVE  Unknown(NewPeriodId[v])'
    BY DEF PendingUnknown, Pending
  <2>1. Unknown(NewPeriodId[v])
    BY DEF LifecycleInv, PendingUnknown
  <2>2. \A x \in AttendanceRequest : checkIn'[x].periodId # NewPeriodId[v]
    BY <2>1, CheckInOK DEF Unknown
  <2> QED
    BY <1>2, <2>1, <2>2 DEF Unknown
<1> QED
  BY <1>3, <1>4, <1>5, <1>6, <1>7, <1>8, CheckInOK DEF LifecycleInv

LEMMA DayPassesKeeps ==
  ASSUME LifecycleInv, DayPasses
  PROVE  LifecycleInv'
<1>1. PaymentsOK'
  BY DEF LifecycleInv, DayPasses, dbVars, PaymentsOK, PayrollInv, DatabaseTypeOK, RunsOK,
     SuccessMeansPaid, RunsShareNobody, ProcessedMeansPaid, Paid
<1>2. PeriodCallsOK' /\ CheckInsOK'
  BY DEF LifecycleInv, DayPasses, NextDay, PeriodCallsOK, CheckInsOK
<1>3. AttendancesOK' /\ AnswersHold'
  BY DEF LifecycleInv, DayPasses, dbVars, AttendancesOK, AttendanceOncePerDay, AnswersHold
<1>4. RemovalsLogged' /\ PendingUnknown'
  BY DEF LifecycleInv, DayPasses, dbVars, auditVars, RemovalsLogged, Logged, RemovalEntry,
     AuditEntry, PendingUnknown, Pending, Unknown
<1> QED
  BY <1>1, <1>2, <1>3, <1>4 DEF LifecycleInv, DayPasses

LEMMA NothingKeeps ==
  ASSUME LifecycleInv, UNCHANGED lifecycleVars
  PROVE  LifecycleInv'
<1>1. PaymentsOK'
  BY DEF LifecycleInv, lifecycleVars, dbVars, PaymentsOK, PayrollInv, DatabaseTypeOK, RunsOK,
     SuccessMeansPaid, RunsShareNobody, ProcessedMeansPaid, Paid
<1>2. PeriodCallsOK' /\ CheckInsOK'
  BY DEF LifecycleInv, lifecycleVars, PeriodCallsOK, CheckInsOK
<1>3. AttendancesOK' /\ AnswersHold'
  BY DEF LifecycleInv, lifecycleVars, dbVars, AttendancesOK, AttendanceOncePerDay, AnswersHold
<1>4. RemovalsLogged' /\ PendingUnknown'
  BY DEF LifecycleInv, lifecycleVars, dbVars, auditVars, RemovalsLogged, Logged, RemovalEntry,
     AuditEntry, PendingUnknown, Pending, Unknown
<1> QED
  BY <1>1, <1>2, <1>3, <1>4 DEF LifecycleInv, lifecycleVars

LEMMA LifecycleInvInductive ==
  LifecycleInv /\ [Arrival \/ Service]_lifecycleVars => LifecycleInv'
<1> SUFFICES ASSUME LifecycleInv, [Arrival \/ Service]_lifecycleVars
             PROVE  LifecycleInv'
  OBVIOUS
<1>1. CASE PayrollArrives \/ PayrollMoves
  BY <1>1, PayrollStep DEF PayrollArrives, PayrollMoves, Admitted, RunStep, LifecycleInv
<1>2. CASE PeriodCallArrives \/ PeriodCallMoves
  BY <1>2, PeriodCallStep DEF PeriodCallArrives, PeriodCallMoves, Admitted, LifecycleInv
<1>3. CASE CheckInArrives \/ CheckInMoves
  BY <1>3, CheckInStepKeeps DEF CheckInArrives, CheckInMoves, Admitted, LifecycleInv
<1> QED
  BY <1>1, <1>2, <1>3, DayPassesKeeps, NothingKeeps DEF Arrival, Service
-----------------------------------------------------------------------------
(* However requests overlap.                                               *)

(* Every table, run, call and check-in keeps its type.                     *)
THEOREM LifecycleTypeCorrect == LifecycleSpec => []LifecycleTypeOK
<1>1. LifecycleInv => LifecycleTypeOK
  BY CalendarAssumption DEF LifecycleInv, LifecycleTypeOK, PaymentsOK, PayrollInv, RunsOK,
     PayrollTypeOK, PeriodCallsOK, PeriodTypeOK, CheckInsOK, CheckInTypeOK
<1> QED
  BY <1>1, InitialInv, LifecycleInvInductive, PTL DEF LifecycleSpec

(* An employee never has two records of one day.                           *)
THEOREM OneRecordADay == LifecycleSpec => []AttendanceOncePerDay
<1>1. LifecycleInv => AttendanceOncePerDay
  BY DEF LifecycleInv, AttendancesOK
<1> QED
  BY <1>1, InitialInv, LifecycleInvInductive, PTL DEF LifecycleSpec

(* Whoever a check-in answered has a record of the day, or the period it   *)
(* belonged to is gone.                                                    *)
THEOREM AnsweredArePresent == LifecycleSpec => []AnsweredMeansPresent
<1>1. LifecycleInv => AnsweredMeansPresent
  BY DEF LifecycleInv, AnswersHold, AnsweredMeansPresent
<1> QED
  BY <1>1, InitialInv, LifecycleInvInductive, PTL DEF LifecycleSpec

(* The mark of a period still means that payroll paid whom it listed, with *)
(* periods created, changed and removed around the runs.                   *)
THEOREM MarkMeansPaidInLifecycle == LifecycleSpec => []ProcessedMeansPaid
<1>1. LifecycleInv => ProcessedMeansPaid
  BY DEF LifecycleInv, PaymentsOK
<1> QED
  BY <1>1, InitialInv, LifecycleInvInductive, PTL DEF LifecycleSpec

(* A step of the composition, as to which period it may take away.         *)
LEMMA OnlyRemovalsDrop ==
  ASSUME LifecycleInv, Arrival \/ Service, NEW p \in PeriodId,
         attendancePeriods[p] # None, attendancePeriods'[p] = None
  PROVE  \E q \in PeriodRequest : /\ DeletePeriodRow(q) /\ Dropped(p)
                                  /\ p = periodCall[q].periodId /\ PeriodCallMoves
<1>1. DatabaseTypeOK /\ PayrollInv
  BY DEF LifecycleInv, PaymentsOK, PayrollInv
<1>2. ASSUME NEW r \in PayrollRequest, RunStep(r)
      PROVE  FALSE
  BY <1>1, <1>2, PeriodsStay DEF PayrollNext
<1>3. ASSUME NEW q \in AttendanceRequest, SubmitAttendance(q) \/ CheckInStep(q)
      PROVE  FALSE
  BY <1>3, CheckInRecords
<1>4. PICK q \in PeriodRequest : \/ PeriodStart(q)
                                 \/ PeriodStep(q) /\ PeriodCallMoves
  BY <1>2, <1>3 DEF Arrival, PayrollArrives, PeriodCallArrives, CheckInArrives, Service,
     PayrollMoves, PeriodCallMoves, CheckInMoves, DayPasses, dbVars, RunStep
<1>5. ~Rewritten
  BY DEF Rewritten
<1>6. ~Inserted(NewPeriodId[q], NewPeriod(periodCall[q].dto))
  BY <1>1, NoneAssumption DEF Inserted, DatabaseTypeOK, Table
<1>7. PICK x \in PeriodId : DeletePeriodRow(q) /\ Dropped(x) /\ x = periodCall[q].periodId
  BY <1>4, <1>5, <1>6, PeriodCallOK
<1>8. x = p
  BY <1>1, <1>7, DroppingEffect
<1>9. ~PeriodStart(q)
  BY <1>7 DEF PeriodStart, CreatePeriod, UpdatePeriod, RemovePeriod, DeletePeriodRow
<1> QED
  BY <1>4, <1>7, <1>8, <1>9

(* A period goes only after its removal was handed to the audit log.       *)
THEOREM RemovalsAreLogged == LifecycleSpec => RemovalIsLogged
<1> DEFINE Traced == \A p \in PeriodId : attendancePeriods[p] # None /\ attendancePeriods'[p] = None =>
                       Logged(RemovalEntry(p))
<1>1. LifecycleInv /\ [Arrival \/ Service]_lifecycleVars => [Traced]_periodVars
  <2>1. ASSUME LifecycleInv, Arrival \/ Service
        PROVE  Traced
    BY <2>1, OnlyRemovalsDrop DEF DeletePeriodRow, LifecycleInv, RemovalsLogged
  <2>2. UNCHANGED lifecycleVars => UNCHANGED periodVars
    BY DEF lifecycleVars, periodVars
  <2> QED
    BY <2>1, <2>2
<1> QED
  BY <1>1, InitialInv, LifecycleInvInductive, PTL DEF LifecycleSpec, RemovalIsLogged

LEMMA PeriodCallKeepsLedger ==
  ASSUME LifecycleInv, NEW q \in PeriodRequest, PeriodStart(q) \/ PeriodStep(q)
  PROVE  Ledger!LedgerNext \/ UNCHANGED Ledger!ledgerVars
<1>1. DatabaseTypeOK /\ NewPeriodId[q] \in PeriodId
  BY NewPeriodAssumption DEF LifecycleInv, PaymentsOK, PayrollInv
<1>2. CASE Rewritten
  BY <1>2 DEF Rewritten, tablesButPeriods, Ledger!ledgerVars
<1>3. CASE /\ Pending(q) /\ Inserted(NewPeriodId[q], NewPeriod(periodCall[q].dto))
  <2> DEFINE p == NewPeriodId[q]
             row == NewPeriod(periodCall[q].dto)
  <2>1. attendancePeriods[p] = None
    BY <1>3 DEF LifecycleInv, PendingUnknown, Unknown
  <2>2. /\ row # None /\ ~row.payrollProcessed /\ attendancePeriods'[p] = row
        /\ \A x \in PeriodId \ {p} : attendancePeriods'[x] = attendancePeriods[x]
    BY <1>1, <1>3, NoneAssumption DEF Inserted, DatabaseTypeOK, Table
  <2>3. employees' = employees /\ payslips' = payslips
    BY <1>3 DEF Inserted, tablesButPeriods
  <2> HIDE DEF p, row
  <2>4. p \in PeriodId
    BY <1>1 DEF p
  <2>5. Ledger!Open(p)
    BY <2>1, <2>2, <2>3, <2>4 DEF Ledger!Open
  <2> QED
    BY <2>4, <2>5 DEF Ledger!LedgerNext
<1>4. CASE \E p \in PeriodId : Dropped(p)
  <2>1. PICK p \in PeriodId : Dropped(p)
    BY <1>4
  <2>2. attendancePeriods[p] # None /\ attendancePeriods'[p] = None
    BY <1>1, <2>1, DroppingEffect DEF Dropped
  <2>3. {Entry(s) : s \in payslips'} = {x \in {Entry(s) : s \in payslips} : x[2] # p}
    BY <1>1, <2>1, DroppingEffect DEF Entry
  <2>4. Ledger!Drop(p)
    BY <1>1, <2>1, <2>2, <2>3, DroppingEffect DEF Ledger!Drop, Entry
  <2> QED
    BY <2>4 DEF Ledger!LedgerNext
<1> QED
  BY <1>2, <1>3, <1>4, PeriodCallOK

(* With periods opened and deleted around them, payroll runs still keep    *)
(* the ledger.                                                             *)
THEOREM LifecycleImplementsLedger == LifecycleSpec => KeepsLedger
<1>1. LifecycleInit => Ledger!LedgerInit
  BY LedgerInitial DEF LifecycleInit
<1>2. LifecycleInv /\ [Arrival \/ Service]_lifecycleVars => [Ledger!LedgerNext]_Ledger!ledgerVars
  <2> SUFFICES ASSUME LifecycleInv, [Arrival \/ Service]_lifecycleVars
               PROVE  Ledger!LedgerNext \/ UNCHANGED Ledger!ledgerVars
    OBVIOUS
  <2>1. CASE PayrollArrives \/ PayrollMoves
    <3>1. PayrollNext
      BY <2>1 DEF PayrollArrives, PayrollMoves, PayrollNext, RunStep
    <3> QED
      BY <3>1, StepKeepsLedger DEF LifecycleInv, PaymentsOK
  <2>2. CASE PeriodCallArrives \/ PeriodCallMoves
    BY <2>2, PeriodCallKeepsLedger DEF PeriodCallArrives, PeriodCallMoves
  <2>3. CASE UNCHANGED <<employees, attendancePeriods, payslips>>
    BY <2>3 DEF Ledger!ledgerVars
  <2>4. CASE CheckInArrives \/ CheckInMoves
    BY <2>3, <2>4, CheckInRecords DEF CheckInArrives, CheckInMoves
  <2> QED
    BY <2>1, <2>2, <2>3, <2>4 DEF Arrival, Service, DayPasses, lifecycleVars, dbVars
<1> QED
  BY <1>1, <1>2, InitialInv, LifecycleInvInductive, PTL
  DEF LifecycleSpec, KeepsLedger, Ledger!LedgerSpec
-----------------------------------------------------------------------------
(* As long as requests do not overlap.                                     *)

(* Who is served is served alone.                                          *)
OneAtATime ==
  ~overlapped =>
    /\ \A q, x \in PeriodRequest :
         periodCall[q].pc \in PeriodInProgress /\ periodCall[x].pc \in PeriodInProgress => q = x
    /\ ~PeriodQuiet => Quiet /\ CheckInQuiet
    /\ ~Quiet => CheckInQuiet

IsActive(p) == attendancePeriods[p] # None /\ attendancePeriods[p].isActive

Free(start, end) ==
  \A p \in PeriodId : attendancePeriods[p] # None /\ attendancePeriods[p].status # "CLOSED" =>
    ~Overlaps(attendancePeriods[p], start, end)

(* What a call has looked at is still so when it comes to write.           *)
StillSo(c) ==
  /\ c.pc \in {"deactivate", "insert"} /\ c.op = "create" => Free(c.dto.startDate, c.dto.endDate)
  /\ c.pc = "insert" /\ WantsActive(c.dto) => \A p \in PeriodId : ~IsActive(p)
  /\ c.pc \in {"deactivate", "write"} /\ c.op = "update" =>
       ~UpdateRefused(attendancePeriods[c.periodId], c.dto)
  /\ c.pc = "write" /\ c.dto.isActive = TRUE => \A p \in PeriodId \ {c.periodId} : ~IsActive(p)
  /\ c.pc \in PeriodInProgress /\ c.op = "remove" =>
       /\ attendancePeriods[c.periodId] # None
       /\ ~attendancePeriods[c.periodId].payrollProcessed
  /\ c.pc = "overtimes" /\ ~c.found => \A a \in attendances : a.attendancePeriodId # c.periodId
  /\ c.pc \in {"audit", "delete"} /\ c.op = "remove" =>
       /\ \A a \in attendances : a.attendancePeriodId # c.periodId
       /\ ~HasOvertimes(c.periodId)

CallsStillSo == ~overlapped => \A q \in PeriodRequest : StillSo(periodCall[q])

(* So is the attendance that a run has counted.                            *)
CountStillSo(r) ==
  run[r].pc \in {"overtime", "reimbursements", "number", "create"} =>
    run[r].calculation.attendedDays = Cardinality({a \in attendances : Concerns(a, r)})

CountsStillSo == ~overlapped => \A r \in PayrollRequest : CountStillSo(r)

AloneInv == /\ OneAtATime /\ CallsStillSo /\ CountsStillSo
            /\ AtMostOneActive /\ DatesInOrder

LEMMA AloneInit == LifecycleInit => AloneInv
<1> SUFFICES ASSUME LifecycleInit
             PROVE  AloneInv
  OBVIOUS
<1>1. /\ \A q \in PeriodRequest : periodCall[q].pc = "idle"
      /\ \A r \in PayrollRequest : run[r].pc = "idle"
      /\ \A q \in AttendanceRequest : checkIn[q].pc = "idle"
  BY DEF LifecycleInit, PeriodInit, PayrollInit, CheckInInit, IdlePeriodCall, IdleRun, IdleCheckIn
<1>2. OneAtATime
  <2>1. "idle" \notin PeriodInProgress /\ "idle" \notin InProgress /\ "idle" \notin CheckInProgress
    BY DEF PeriodInProgress, InProgress, InLoop, CheckInProgress
  <2>2. PeriodQuiet /\ Quiet /\ CheckInQuiet
    BY <1>1, <2>1, Zenon DEF PeriodQuiet, Quiet, CheckInQuiet
  <2> QED
    BY <2>2, Zenon DEF OneAtATime, PeriodQuiet
<1>3. CallsStillSo /\ CountsStillSo
  BY <1>1 DEF CallsStillSo, StillSo, CountsStillSo, CountStillSo, PeriodInProgress
<1>4. AtMostOneActive /\ DatesInOrder
  BY InitialPeriodsAssumption
  DEF LifecycleInit, PayrollInit, DatabaseInit, AtMostOneActive, DatesInOrder, OneActive, DatesOrdered
<1> QED
  BY <1>2, <1>3, <1>4 DEF AloneInv

(* A payroll run changes nothing of a period's row but its mark, which it  *)
(* only sets.                                                              *)
LEMMA RunKeepsRows ==
  ASSUME PayrollInv, NEW r \in PayrollRequest, RunStep(r), NEW p \in PeriodId
  PROVE  /\ attendancePeriods'[p] = None <=> attendancePeriods[p] = None
         /\ attendancePeriods[p] # None =>
              /\ attendancePeriods'[p].startDate = attendancePeriods[p].startDate
              /\ attendancePeriods'[p].endDate = attendancePeriods[p].endDate
              /\ attendancePeriods'[p].isActive = attendancePeriods[p].isActive
              /\ attendancePeriods'[p].status = attendancePeriods[p].status
              /\ attendancePeriods[p].payrollProcessed => attendancePeriods'[p].payrollProcessed
<1>1. attendancePeriods \in [PeriodId -> PeriodRow \cup {None}]
  BY DEF PayrollInv, DatabaseTypeOK, Table
<1>2. attendancePeriods'[p] = None <=> attendancePeriods[p] = None
  BY PeriodsStay DEF PayrollNext
<1>3. CASE attendancePeriods' = attendancePeriods
  BY <1>3
<1>4. CASE FinishRun(r) /\ attendancePeriods' # attendancePeriods
  <2>1. attendancePeriods' = [attendancePeriods EXCEPT ![run[r].periodId].payrollProcessed = TRUE]
    BY <1>4 DEF FinishRun
  <2>2. attendancePeriods[p] # None => attendancePeriods[p] \in PeriodRow
    BY <1>1
  <2>3. \/ attendancePeriods'[p] = attendancePeriods[p]
        \/ attendancePeriods'[p] = [attendancePeriods[p] EXCEPT !.payrollProcessed = TRUE]
    BY <1>1, <2>1
  <2> QED
    BY <1>2, <2>2, <2>3 DEF PeriodRow
<1> QED
  BY <1>3, <1>4 DEF RunStep, HandlerStep, FailureStep, ProcessPayroll, LoadEmployees,
     BeginEmployee, CountAttendance, CountOvertime, CountReimbursements, GeneratePayslipNumber,
     CreatePayslip, TransactionFails, CommitUnacknowledged, Crash, dbVars

(* A run keeps the count of attendance for as long as it needs it.         *)
LEMMA CountKept ==
  ASSUME PayrollInv, NEW r \in PayrollRequest, RunStep(r), CountStillSo(r)
  PROVE  CountStillSo(r)'
<1>1. /\ run \in [PayrollRequest -> RunRow] /\ run[r] \in RunRow /\ RunShape(run[r])
      /\ attendances' = attendances
  BY RunTouches DEF PayrollInv, RunsOK
<1> SUFFICES ASSUME run'[r].pc \in {"overtime", "reimbursements", "number", "create"}
             PROVE  run'[r].calculation.attendedDays = Cardinality({a \in attendances : Concerns(a, r)'})
  BY <1>1 DEF CountStillSo
<1>2. \/ CountAttendance(r) \/ CountOvertime(r) \/ CountReimbursements(r)
      \/ GeneratePayslipNumber(r)
  <2>1. ASSUME NEW done, NEW failed, EndTurn(r, done, failed)
        PROVE  FALSE
    BY <1>1, <2>1 DEF EndTurn, RunRow
  <2>2. CASE ProcessPayroll(r)
    BY <1>1, <2>2 DEF ProcessPayroll, IdleRun
  <2>3. CASE LoadEmployees(r) \/ Crash(r) \/ FinishRun(r)
    BY <1>1, <2>3 DEF LoadEmployees, Crash, FinishRun, RunRow
  <2>4. CASE BeginEmployee(r)
    BY <1>1, <2>1, <2>4 DEF BeginEmployee, RunRow
  <2>5. CASE CreatePayslip(r)
    BY <2>1, <2>5 DEF CreatePayslip
  <2>6. CASE TransactionFails(r) \/ CommitUnacknowledged(r)
    BY <1>1, <2>6 DEF TransactionFails, CommitUnacknowledged, EndTurnInError, RunRow
  <2> QED
    BY <2>2, <2>3, <2>4, <2>5, <2>6 DEF RunStep, HandlerStep, FailureStep
<1>3. /\ run[r].pc \in {"attendance", "overtime", "reimbursements", "number"}
      /\ run[r].calculation \in Calculation
  BY <1>1, <1>2 DEF RunShape, InLoop, CountAttendance, CountOvertime, CountReimbursements,
     GeneratePayslipNumber
<1>4. /\ run'[r].calculation.employeeId = run[r].calculation.employeeId
      /\ run'[r].periodId = run[r].periodId
      /\ ~CountAttendance(r) =>
           run'[r].calculation.attendedDays = run[r].calculation.attendedDays
  <2>1. CASE CountAttendance(r)
    BY <1>1, <1>3, <2>1 DEF CountAttendance, RunRow, Calculation
  <2>2. CASE CountOvertime(r)
    BY <1>1, <1>3, <2>2 DEF CountOvertime, RunRow, Calculation
  <2>3. CASE CountReimbursements(r)
    BY <1>1, <1>3, <2>3 DEF CountReimbursements, RunRow, Calculation
  <2>4. CASE GeneratePayslipNumber(r)
    BY <1>1, <1>3, <2>4 DEF GeneratePayslipNumber, RunRow, Calculation
  <2> QED
    BY <1>2, <2>1, <2>2, <2>3, <2>4
<1>5. {a \in attendances : Concerns(a, r)'} = {a \in attendances : Concerns(a, r)}
  BY <1>4 DEF Concerns
<1>6. CASE CountAttendance(r)
  <2>1. run'[r].calculation.attendedDays = Cardinality({a \in attendances : Concerns(a, r)})
    BY <1>1, <1>3, <1>6 DEF CountAttendance, RunRow, Calculation
  <2> QED
    BY <1>5, <2>1
<1>7. CASE ~CountAttendance(r)
  <2>1. run[r].pc \in {"overtime", "reimbursements", "number"}
    BY <1>2, <1>7 DEF CountOvertime, CountReimbursements, GeneratePayslipNumber
  <2> QED
    BY <1>4, <1>5, <1>7, <2>1 DEF CountStillSo
<1> QED
  BY <1>6, <1>7

LEMMA RunStaysAlone ==
  ASSUME PayrollInv, NEW r \in PayrollRequest, RunStep(r), OneAtATime,
         UNCHANGED <<periodCall, checkIn>>,
         ~overlapped' => ~overlapped /\ (AllQuiet \/ run[r].pc \in InProgress)
  PROVE  OneAtATime' /\ (~overlapped' => PeriodQuiet /\ CheckInQuiet)
<1> SUFFICES ASSUME ~overlapped'
             PROVE  PeriodQuiet /\ CheckInQuiet
  BY DEF OneAtATime, PeriodQuiet, CheckInQuiet, Quiet
<1> QED
  BY DEF OneAtATime, AllQuiet, Quiet

LEMMA RunKeepsAlone ==
  ASSUME LifecycleInv, AloneInv, NEW r \in PayrollRequest, RunStep(r),
         UNCHANGED <<periodCall, checkIn>>,
         ~overlapped' => ~overlapped /\ (AllQuiet \/ run[r].pc \in InProgress)
  PROVE  AloneInv'
<1>1. PayrollInv
  BY DEF LifecycleInv, PaymentsOK
<1>2. OneAtATime' /\ (~overlapped' => PeriodQuiet)
  BY <1>1, RunStaysAlone DEF AloneInv
<1>3. CallsStillSo'
  <2> SUFFICES ASSUME ~overlapped', NEW q \in PeriodRequest
               PROVE  StillSo(periodCall[q])'
    BY DEF CallsStillSo
  <2>1. periodCall'[q].pc \notin PeriodInProgress
    BY <1>2 DEF PeriodQuiet
  <2> QED
    BY <2>1 DEF StillSo, PeriodInProgress
<1>4. CountsStillSo'
  <2> SUFFICES ASSUME ~overlapped', NEW x \in PayrollRequest
               PROVE  CountStillSo(x)'
    BY DEF CountsStillSo
  <2>1. CountStillSo(x)
    BY DEF AloneInv, CountsStillSo
  <2>2. CASE x # r
    BY <1>1, <2>1, <2>2, RunTouches DEF CountStillSo, Concerns
  <2>3. CASE x = r
    BY <1>1, <2>1, <2>3, CountKept
  <2> QED
    BY <2>2, <2>3
<1>5. AtMostOneActive' /\ DatesInOrder'
  BY <1>1, RunKeepsRows DEF AloneInv, AtMostOneActive, DatesInOrder, OneActive, DatesOrdered
<1> QED
  BY <1>2, <1>3, <1>4, <1>5 DEF AloneInv

(* Everything that is said of a call that is over.                         *)
LEMMA EndedStillSo ==
  ASSUME periodCall' \in [PeriodRequest -> PeriodCall], NEW q \in PeriodRequest,
         periodCall'[q].pc \notin PeriodInProgress
  PROVE  StillSo(periodCall[q])'
BY DEF StillSo, PeriodInProgress

LEMMA FreeOfOverlaps ==
  ASSUME NEW start, NEW end, OverlappingPeriods(start, end) = {}
  PROVE  Free(start, end)
BY DEF OverlappingPeriods, Free

LEMMA StartStillSo ==
  ASSUME LifecycleInv, NEW q \in PeriodRequest, PeriodStart(q)
  PROVE  StillSo(periodCall[q])'
<1>1. /\ periodCall \in [PeriodRequest -> PeriodCall]
      /\ periodCall' \in [PeriodRequest -> PeriodCall]
      /\ UNCHANGED dbVars
  BY PeriodCallOK DEF LifecycleInv, PeriodCallsOK, PeriodStart, CreatePeriod, UpdatePeriod, RemovePeriod
<1>2. CASE PeriodEnds(q, "refused")
  <2>1. periodCall'[q].pc \notin PeriodInProgress
    BY <1>1, <1>2 DEF PeriodEnds, IdlePeriodCall, PeriodInProgress
  <2> QED
    BY <1>1, <2>1, EndedStillSo
<1>3. CASE CreatePeriod(q) /\ ~PeriodEnds(q, "refused")
  <2>1. PICK dto \in PeriodDto :
          /\ OverlappingPeriods(dto.startDate, dto.endDate) = {}
          /\ periodCall' = [periodCall EXCEPT ![q] =
               [IdlePeriodCall EXCEPT !.op = "create", !.periodId = NewPeriodId[q],
                  !.dto = dto, !.pc = IF WantsActive(dto) THEN "deactivate" ELSE "insert"]]
    BY <1>3 DEF CreatePeriod
  <2>2. Free(dto.startDate, dto.endDate)
    BY <2>1, FreeOfOverlaps
  <2>3. Free(dto.startDate, dto.endDate)'
    BY <1>1, <2>2 DEF Free, dbVars
  <2>4. /\ periodCall'[q].op = "create" /\ periodCall'[q].dto = dto
        /\ periodCall'[q].pc = IF WantsActive(dto) THEN "deactivate" ELSE "insert"
    BY <1>1, <2>1 DEF IdlePeriodCall
  <2> QED
    BY <2>3, <2>4 DEF StillSo
<1>4. CASE UpdatePeriod(q) /\ ~PeriodEnds(q, "refused")
  <2>1. PICK p \in PeriodId, dto \in PeriodDto :
          /\ ~UpdateRefused(attendancePeriods[p], dto)
          /\ periodCall' = [periodCall EXCEPT ![q] =
               [IdlePeriodCall EXCEPT !.op = "update", !.periodId = p, !.dto = dto,
                  !.pc = IF dto.isActive = TRUE THEN "deactivate" ELSE "write"]]
    BY <1>4 DEF UpdatePeriod
  <2>2. /\ periodCall'[q].op = "update" /\ periodCall'[q].dto = dto /\ periodCall'[q].periodId = p
        /\ periodCall'[q].pc = IF dto.isActive = TRUE THEN "deactivate" ELSE "write"
        /\ attendancePeriods' = attendancePeriods
    BY <1>1, <2>1 DEF IdlePeriodCall, dbVars
  <2>3. ~UpdateRefused(attendancePeriods'[p], dto)
    BY <2>1, <2>2
  <2> QED
    BY <2>2, <2>3 DEF StillSo
<1>5. CASE RemovePeriod(q) /\ ~PeriodEnds(q, "refused")
  <2>1. PICK p \in PeriodId :
          /\ attendancePeriods[p] # None /\ ~attendancePeriods[p].payrollProcessed
          /\ periodCall' = [periodCall EXCEPT ![q] =
               [IdlePeriodCall EXCEPT !.op = "remove", !.periodId = p, !.pc = "attendances"]]
    BY <1>5 DEF RemovePeriod
  <2>2. /\ periodCall'[q].op = "remove" /\ periodCall'[q].periodId = p
        /\ periodCall'[q].pc = "attendances" /\ attendancePeriods' = attendancePeriods
    BY <1>1, <2>1 DEF IdlePeriodCall, dbVars
  <2> QED
    BY <2>1, <2>2 DEF StillSo
<1> QED
  BY <1>2, <1>3, <1>4, <1>5 DEF PeriodStart

(* The rows after the others have been deactivated.                        *)
LEMMA DeactivatedRows ==
  ASSUME LifecycleInv, NEW q \in PeriodRequest, DeactivateOthers(q), NEW p \in PeriodId
  PROVE  /\ attendancePeriods'[p] = None <=> attendancePeriods[p] = None
         /\ attendancePeriods[p] # None =>
              /\ attendancePeriods[p] \in PeriodRow
              /\ attendancePeriods'[p].startDate = attendancePeriods[p].startDate
              /\ attendancePeriods'[p].endDate = attendancePeriods[p].endDate
              /\ attendancePeriods'[p].status = attendancePeriods[p].status
              /\ attendancePeriods'[p].payrollProcessed = attendancePeriods[p].payrollProcessed
              /\ p # periodCall[q].periodId => ~attendancePeriods'[p].isActive
         /\ p = periodCall[q].periodId => attendancePeriods'[p] = attendancePeriods[p]
<1>1. attendancePeriods \in [PeriodId -> PeriodRow \cup {None}]
  BY DEF LifecycleInv, PaymentsOK, PayrollInv, DatabaseTypeOK, Table
<1>2. attendancePeriods'[p] = None <=> attendancePeriods[p] = None
  BY DeactivateOthersOK DEF Rewritten
<1>3. CASE attendancePeriods'[p] = attendancePeriods[p]
           /\ (p = periodCall[q].periodId \/ attendancePeriods[p] = None)
  BY <1>1, <1>3
<1>4. CASE /\ attendancePeriods[p] # None /\ p # periodCall[q].periodId
           /\ attendancePeriods'[p] = [attendancePeriods[p] EXCEPT !.isActive = FALSE]
  <2>1. attendancePeriods[p] \in PeriodRow
    BY <1>1, <1>4
  <2> QED
    BY <1>2, <1>4, <2>1 DEF PeriodRow
<1> QED
  BY <1>3, <1>4 DEF DeactivateOthers

LEMMA DeactivateStillSo ==
  ASSUME LifecycleInv, NEW q \in PeriodRequest, StillSo(periodCall[q]), DeactivateOthers(q)
  PROVE  StillSo(periodCall[q])'
<1>1. /\ periodCall[q] \in PeriodCall /\ CallShape(periodCall[q], q)
      /\ periodCall \in [PeriodRequest -> PeriodCall] /\ periodCall[q].pc = "deactivate"
  BY DEF LifecycleInv, PeriodCallsOK, DeactivateOthers
<1>2. PICK p \in PeriodId, dto \in PeriodDto :
        /\ p = periodCall[q].periodId /\ dto = periodCall[q].dto
        /\ periodCall'[q].periodId = p /\ periodCall'[q].dto = dto
        /\ periodCall'[q].op = periodCall[q].op
        /\ periodCall'[q].pc = IF periodCall[q].op = "create" THEN "insert" ELSE "write"
  BY <1>1 DEF CallShape, PeriodCall, PeriodInProgress, DeactivateOthers, PeriodGoto
<1>3. CASE periodCall[q].op = "create"
  <2>1. Free(dto.startDate, dto.endDate)
    BY <1>1, <1>2, <1>3 DEF StillSo
  <2>2. Free(dto.startDate, dto.endDate)'
    BY <2>1, DeactivatedRows DEF Free, Overlaps
  <2>3. Pending(q) /\ p = NewPeriodId[q]
    BY <1>1, <1>2, <1>3 DEF Pending, CallShape
  <2>4. attendancePeriods[p] = None
    BY <2>3 DEF LifecycleInv, PendingUnknown, Unknown
  <2>5. \A x \in PeriodId : ~IsActive(x)'
    BY <1>2, <2>4, DeactivatedRows DEF IsActive
  <2> QED
    BY <1>2, <1>3, <2>2, <2>5 DEF StillSo
<1>4. CASE periodCall[q].op = "update"
  <2>1. ~UpdateRefused(attendancePeriods'[p], dto)
    BY <1>1, <1>2, <1>4, DeactivatedRows DEF StillSo
  <2>2. \A x \in PeriodId \ {p} : ~IsActive(x)'
    BY <1>2, DeactivatedRows DEF IsActive
  <2> QED
    BY <1>2, <1>4, <2>1, <2>2 DEF StillSo
<1> QED
  BY <1>1, <1>3, <1>4 DEF CallShape

LEMMA CallStillSo ==
  ASSUME LifecycleInv, NEW q \in PeriodRequest, StillSo(periodCall[q]), PeriodStep(q)
  PROVE  StillSo(periodCall[q])'
<1>1. /\ periodCall[q] \in PeriodCall /\ CallShape(periodCall[q], q)
      /\ periodCall \in [PeriodRequest -> PeriodCall]
      /\ periodCall' \in [PeriodRequest -> PeriodCall]
  BY PeriodCallOK DEF LifecycleInv, PeriodCallsOK
<1>2. ASSUME NEW how \in PeriodEnded, PeriodEnds(q, how)
      PROVE  StillSo(periodCall[q])'
  <2>1. periodCall'[q].pc \notin PeriodInProgress
    BY <1>1, <1>2 DEF PeriodEnds, IdlePeriodCall, PeriodInProgress, PeriodEnded
  <2> QED
    BY <1>1, <2>1, EndedStillSo
<1>3. CASE InsertPeriod(q) \/ WritePeriod(q)
  <2>1. CASE PeriodEnds(q, "crashed")
    BY <1>2, <2>1 DEF PeriodEnded
  <2>2. CASE ~PeriodEnds(q, "crashed")
    <3>1. periodCall'[q].pc = "audit" /\ periodCall'[q].op \in {"create", "update"}
      BY <1>1, <1>3, <2>2 DEF InsertPeriod, WritePeriod, CallShape, PeriodCall
    <3> QED
      BY <3>1 DEF StillSo
  <2> QED
    BY <2>1, <2>2
<1>4. CASE FindAttendances(q)
  <2>1. /\ periodCall'[q].pc = "overtimes" /\ periodCall'[q].op = "remove"
        /\ periodCall'[q].periodId = periodCall[q].periodId
        /\ periodCall'[q].found = \E a \in attendances : a.attendancePeriodId = periodCall[q].periodId
        /\ UNCHANGED <<attendancePeriods, attendances>>
    BY <1>1, <1>4 DEF FindAttendances, CallShape, PeriodCall, dbVars
  <2>2. /\ attendancePeriods[periodCall[q].periodId] # None
        /\ ~attendancePeriods[periodCall[q].periodId].payrollProcessed
    BY <1>1, <1>4 DEF StillSo, FindAttendances, CallShape, PeriodInProgress
  <2> QED
    BY <2>1, <2>2 DEF StillSo
<1>5. CASE FindOvertimes(q) /\ ~PeriodEnds(q, "refused")
  <2>1. /\ periodCall'[q].pc = "audit" /\ periodCall'[q].op = "remove"
        /\ periodCall'[q].periodId = periodCall[q].periodId
        /\ ~periodCall[q].found /\ ~HasOvertimes(periodCall[q].periodId)
        /\ UNCHANGED <<attendancePeriods, attendances, overtimes>>
    BY <1>1, <1>5 DEF FindOvertimes, RemovalRefused, PeriodGoto, CallShape, PeriodCall, dbVars
  <2>2. /\ attendancePeriods[periodCall[q].periodId] # None
        /\ ~attendancePeriods[periodCall[q].periodId].payrollProcessed
        /\ \A a \in attendances : a.attendancePeriodId # periodCall[q].periodId
    BY <1>1, <1>5, <2>1 DEF StillSo, FindOvertimes, CallShape, PeriodInProgress
  <2> QED
    BY <2>1, <2>2 DEF StillSo, HasOvertimes
<1>6. CASE AuditPeriod(q) /\ ~PeriodEnds(q, "done")
  <2>1. /\ periodCall'[q].pc = "delete" /\ periodCall'[q].op = "remove"
        /\ periodCall[q].pc = "audit" /\ periodCall[q].op = "remove"
        /\ periodCall'[q].periodId = periodCall[q].periodId
        /\ UNCHANGED <<attendancePeriods, attendances, overtimes>>
    BY <1>1, <1>6 DEF AuditPeriod, PeriodGoto, PeriodCall, dbVars
  <2> QED
    BY <2>1 DEF StillSo, HasOvertimes, PeriodInProgress
<1> QED
  BY <1>2, <1>3, <1>4, <1>5, <1>6, DeactivateStillSo
  DEF PeriodStep, FindOvertimes, AuditPeriod, DeletePeriodRow, PeriodCrash, PeriodEnded

(* The periods after a call has moved: still one active, dates in order.   *)
LEMMA CallKeepsPeriods ==
  ASSUME LifecycleInv, AloneInv, ~overlapped, NEW q \in PeriodRequest,
         PeriodStart(q) \/ PeriodStep(q)
  PROVE  (AtMostOneActive /\ DatesInOrder)'
<1>1. /\ periodCall[q] \in PeriodCall /\ CallShape(periodCall[q], q) /\ StillSo(periodCall[q])
      /\ attendancePeriods \in [PeriodId -> PeriodRow \cup {None}]
  BY DEF LifecycleInv, PeriodCallsOK, AloneInv, CallsStillSo, PaymentsOK, PayrollInv,
     DatabaseTypeOK, Table
<1>2. /\ \A p1, p2 \in PeriodId : IsActive(p1) /\ IsActive(p2) => p1 = p2
      /\ \A p \in PeriodId : attendancePeriods[p] # None =>
           attendancePeriods[p].startDate < attendancePeriods[p].endDate
  BY DEF AloneInv, AtMostOneActive, DatesInOrder, OneActive, DatesOrdered, IsActive
<1> SUFFICES /\ \A p1, p2 \in PeriodId : IsActive(p1)' /\ IsActive(p2)' => p1 = p2
             /\ \A p \in PeriodId : attendancePeriods'[p] # None =>
                  attendancePeriods'[p].startDate < attendancePeriods'[p].endDate
  BY DEF AtMostOneActive, DatesInOrder, OneActive, DatesOrdered, IsActive
<1>3. CASE attendancePeriods' = attendancePeriods
  BY <1>2, <1>3 DEF IsActive
<1>4. CASE InsertPeriod(q)
  <2> DEFINE p == NewPeriodId[q]
             row == NewPeriod(periodCall[q].dto)
  <2>1. /\ p \in PeriodId
        /\ attendancePeriods' = [attendancePeriods EXCEPT ![p] = row]
        /\ periodCall[q].pc = "insert" /\ periodCall[q].op = "create"
    BY <1>1, <1>4, InsertPeriodOK, NewPeriodAssumption DEF Inserted, InsertPeriod, CallShape
  <2>2. /\ row.startDate < row.endDate
        /\ row.isActive = WantsActive(periodCall[q].dto)
    <3>1. /\ row.startDate = periodCall[q].dto.startDate /\ row.endDate = periodCall[q].dto.endDate
          /\ row.isActive = WantsActive(periodCall[q].dto)
      BY DEF NewPeriod
    <3>2. /\ periodCall[q].dto.startDate \in Int /\ periodCall[q].dto.endDate \in Int
          /\ periodCall[q].dto.startDate < periodCall[q].dto.endDate
      BY <1>1, <2>1, DayAssumption DEF CallShape
    <3> QED
      BY <3>1, <3>2
  <2> HIDE DEF p, row
  <2>3. WantsActive(periodCall[q].dto) => \A x \in PeriodId : ~IsActive(x)
    BY <1>1, <2>1 DEF StillSo
  <2>4. \A x \in PeriodId : attendancePeriods'[x] = IF x = p THEN row ELSE attendancePeriods[x]
    BY <1>1, <2>1
  <2> QED
    BY <1>2, <2>2, <2>3, <2>4 DEF IsActive
<1>5. CASE DeactivateOthers(q)
  <2>1. \A x \in PeriodId : IsActive(x)' => x = periodCall[q].periodId
    BY <1>5, DeactivatedRows DEF IsActive
  <2> QED
    BY <1>2, <1>5, <2>1, DeactivatedRows
<1>6. CASE WritePeriod(q) /\ attendancePeriods' # attendancePeriods
  <2>1. PICK p \in PeriodId, dto \in PeriodDto :
          /\ p = periodCall[q].periodId /\ dto = periodCall[q].dto
          /\ periodCall[q].pc = "write" /\ periodCall[q].op = "update"
    BY <1>1, <1>6 DEF WritePeriod, CallShape, PeriodInProgress
  <2> DEFINE old == attendancePeriods[p]
             row == Merge(old, dto)
  <2>2. /\ attendancePeriods' = [attendancePeriods EXCEPT ![p] = row]
        /\ old \in PeriodRow
    BY <1>1, <1>6, <2>1 DEF WritePeriod
  <2>3. /\ ~UpdateRefused(old, dto)
        /\ dto.isActive = TRUE => \A x \in PeriodId \ {p} : ~IsActive(x)
    BY <1>1, <2>1 DEF StillSo
  <2>4. row \in PeriodRow
    BY <2>2, MergeTyped
  <2>5. row.startDate < row.endDate
    <3>1. CASE dto.startDate # None \/ dto.endDate # None
      <4>1. ~(row.startDate >= row.endDate)
        BY <2>3, <3>1 DEF UpdateRefused
      <4>2. row.startDate \in Int /\ row.endDate \in Int
        BY <2>4, DayAssumption DEF PeriodRow
      <4> HIDE DEF row
      <4> QED
        BY <4>1, <4>2
    <3>2. CASE dto.startDate = None /\ dto.endDate = None
      <4>1. row.startDate = old.startDate /\ row.endDate = old.endDate
        BY <2>2, <3>2 DEF Merge, OrElse, PeriodRow
      <4>2. old # None
        BY <2>2, NoneAssumption
      <4> QED
        BY <1>2, <4>1, <4>2
    <3> QED
      BY <3>1, <3>2
  <2>6. row.isActive => old.isActive \/ dto.isActive = TRUE
    <3>1. dto.isActive \in BOOLEAN \cup {None}
      BY PeriodDtoAssumption
    <3>2. row.isActive = IF dto.isActive = None THEN old.isActive ELSE dto.isActive
      BY <2>2 DEF Merge, OrElse, PeriodRow
    <3> QED
      BY <3>1, <3>2
  <2>7. old # None
    BY <2>2, NoneAssumption
  <2>8. row.isActive => IsActive(p) \/ \A x \in PeriodId \ {p} : ~IsActive(x)
    BY <2>3, <2>6, <2>7 DEF IsActive
  <2> HIDE DEF row, old
  <2>9. \A x \in PeriodId : attendancePeriods'[x] = IF x = p THEN row ELSE attendancePeriods[x]
    BY <1>1, <2>2
  <2> QED
    BY <1>2, <2>5, <2>8, <2>9 DEF IsActive
<1>7. CASE DeletePeriodRow(q) /\ attendancePeriods' # attendancePeriods
  <2>1. PICK p \in PeriodId : Dropped(p)
    BY <1>7, DeletePeriodRowOK DEF DeletePeriodRow, Dropped, dbVars, LifecycleInv, PeriodCallsOK,
       CallShape, PeriodInProgress
  <2>2. \A x \in PeriodId : attendancePeriods'[x] # None => attendancePeriods'[x] = attendancePeriods[x]
    BY <2>1, DroppingEffect DEF LifecycleInv, PaymentsOK, PayrollInv
  <2> QED
    BY <1>2, <2>2 DEF IsActive
<1> QED
  BY <1>3, <1>4, <1>5, <1>6, <1>7 DEF PeriodStart, CreatePeriod, UpdatePeriod, RemovePeriod,
     PeriodStep, FindAttendances, FindOvertimes, AuditPeriod, PeriodCrash, dbVars

LEMMA CallKeepsAlone ==
  ASSUME LifecycleInv, AloneInv, NEW q \in PeriodRequest, PeriodStart(q) \/ PeriodStep(q),
         UNCHANGED <<run, checkIn>>,
         ~overlapped' => ~overlapped /\ (AllQuiet \/ periodCall[q].pc \in PeriodInProgress)
  PROVE  AloneInv'
<1> SUFFICES ASSUME ~overlapped'
             PROVE  AloneInv'
  BY DEF AloneInv, OneAtATime, CallsStillSo, CountsStillSo, AtMostOneActive, DatesInOrder, OneActive, DatesOrdered
<1>1. /\ \A x \in PeriodRequest \ {q} : periodCall[x].pc \notin PeriodInProgress
      /\ Quiet /\ CheckInQuiet /\ ~overlapped
  BY DEF AloneInv, OneAtATime, AllQuiet, PeriodQuiet
<1>2. \A x \in PeriodRequest \ {q} : periodCall'[x] = periodCall[x]
  BY DEF LifecycleInv, PeriodCallsOK, PeriodStart, CreatePeriod, UpdatePeriod, RemovePeriod,
     PeriodStep, InsertPeriod, DeactivateOthers, WritePeriod, FindAttendances, FindOvertimes,
     DeletePeriodRow, AuditPeriod, PeriodCrash, PeriodEnds, PeriodGoto
<1>3. Quiet' /\ CheckInQuiet'
  BY <1>1 DEF Quiet, CheckInQuiet
<1>4. OneAtATime'
  <2>1. \A x \in PeriodRequest \ {q} : periodCall'[x].pc \notin PeriodInProgress
    BY <1>1, <1>2
  <2> QED
    BY <1>3, <2>1, Zenon DEF OneAtATime
<1>5. CallsStillSo'
  <2> SUFFICES ASSUME NEW x \in PeriodRequest
               PROVE  StillSo(periodCall[x])'
    BY DEF CallsStillSo
  <2>1. CASE x = q
    BY <1>1, <2>1, StartStillSo, CallStillSo DEF AloneInv, CallsStillSo
  <2>2. CASE x # q
    BY <1>1, <1>2, <2>2 DEF StillSo, PeriodInProgress
  <2> QED
    BY <2>1, <2>2
<1>6. CountsStillSo'
  <2> SUFFICES ASSUME NEW r \in PayrollRequest
               PROVE  CountStillSo(r)'
    BY DEF CountsStillSo
  <2>1. run'[r].pc \notin InProgress
    BY <1>3 DEF Quiet
  <2> QED
    BY <2>1 DEF CountStillSo, InProgress, InLoop
<1> QED
  BY <1>1, <1>4, <1>5, <1>6, CallKeepsPeriods DEF AloneInv

LEMMA CheckInKeepsAlone ==
  ASSUME LifecycleInv, AloneInv, NEW q \in AttendanceRequest,
         SubmitAttendance(q) \/ CheckInStep(q), UNCHANGED <<run, periodCall>>,
         ~overlapped' => ~overlapped /\ (AllQuiet \/ checkIn[q].pc \in CheckInProgress)
  PROVE  AloneInv'
<1> SUFFICES ASSUME ~overlapped'
             PROVE  AloneInv'
  BY DEF AloneInv, OneAtATime, CallsStillSo, CountsStillSo, AtMostOneActive, DatesInOrder, OneActive, DatesOrdered
<1>1. PeriodQuiet /\ Quiet /\ ~overlapped
  BY DEF AloneInv, OneAtATime, AllQuiet, CheckInQuiet
<1>2. PeriodQuiet' /\ Quiet'
  BY <1>1 DEF PeriodQuiet, Quiet
<1>3. OneAtATime'
  BY <1>2, Zenon DEF OneAtATime, PeriodQuiet
<1>4. CallsStillSo'
  BY <1>2 DEF CallsStillSo, StillSo, PeriodQuiet, PeriodInProgress
<1>5. CountsStillSo'
  <2> SUFFICES ASSUME NEW r \in PayrollRequest
               PROVE  CountStillSo(r)'
    BY DEF CountsStillSo
  <2>1. run'[r].pc \notin InProgress
    BY <1>2 DEF Quiet
  <2> QED
    BY <2>1 DEF CountStillSo, InProgress, InLoop
<1>6. AtMostOneActive' /\ DatesInOrder'
  BY <1>1, CheckInRecords DEF AloneInv, AtMostOneActive, DatesInOrder, OneActive, DatesOrdered
<1> QED
  BY <1>3, <1>4, <1>5, <1>6 DEF AloneInv

LEMMA NothingKeepsAlone ==
  ASSUME AloneInv, UNCHANGED <<dbVars, run, periodCall, checkIn, overlapped>>
  PROVE  AloneInv'
<1>1. OneAtATime'
  BY DEF AloneInv, OneAtATime, PeriodQuiet, Quiet, CheckInQuiet
<1>2. CallsStillSo'
  BY DEF AloneInv, dbVars, CallsStillSo, StillSo, Free, IsActive, HasOvertimes
<1>3. CountsStillSo'
  BY DEF AloneInv, dbVars, CountsStillSo, CountStillSo, Concerns
<1>4. AtMostOneActive' /\ DatesInOrder'
  BY DEF AloneInv, dbVars, AtMostOneActive, DatesInOrder, OneActive, DatesOrdered
<1> QED
  BY <1>1, <1>2, <1>3, <1>4 DEF AloneInv

(* Whoever takes a step is the only one served.                            *)
LEMMA AloneInductive ==
  LifecycleInv /\ AloneInv /\ [Arrival \/ Service]_lifecycleVars => AloneInv'
<1> SUFFICES ASSUME LifecycleInv, AloneInv, [Arrival \/ Service]_lifecycleVars
             PROVE  AloneInv'
  OBVIOUS
<1>1. ASSUME NEW q, Admitted(q)
      PROVE  ~overlapped' => ~overlapped /\ AllQuiet
  BY <1>1 DEF Admitted
<1>2. CASE PayrollArrives
  BY <1>1, <1>2, RunKeepsAlone DEF PayrollArrives, RunStep
<1>3. CASE PayrollMoves
  BY <1>3, RunKeepsAlone, RunTouches DEF PayrollMoves, RunStep, LifecycleInv, PaymentsOK
<1>4. CASE PeriodCallArrives
  BY <1>1, <1>4, CallKeepsAlone DEF PeriodCallArrives
<1>5. CASE PeriodCallMoves
  <2>1. ASSUME NEW q \in PeriodRequest, PeriodStep(q)
        PROVE  periodCall[q].pc \in PeriodInProgress
    BY <2>1 DEF PeriodStep, InsertPeriod, DeactivateOthers, WritePeriod, FindAttendances,
       FindOvertimes, DeletePeriodRow, AuditPeriod, PeriodCrash, PeriodInProgress
  <2> QED
    BY <1>5, <2>1, CallKeepsAlone DEF PeriodCallMoves
<1>6. CASE CheckInArrives
  BY <1>1, <1>6, CheckInKeepsAlone DEF CheckInArrives
<1>7. CASE CheckInMoves
  <2>1. ASSUME NEW q \in AttendanceRequest, CheckInStep(q)
        PROVE  checkIn[q].pc \in CheckInProgress
    BY <2>1 DEF CheckInStep, FindExisting, InsertAttendance, AuditAttendance, CheckInCrash,
       CheckInProgress
  <2> QED
    BY <1>7, <2>1, CheckInKeepsAlone DEF CheckInMoves
<1>8. CASE DayPasses \/ UNCHANGED lifecycleVars
  BY <1>8, NothingKeepsAlone DEF DayPasses, lifecycleVars
<1> QED
  BY <1>2, <1>3, <1>4, <1>5, <1>6, <1>7, <1>8 DEF Arrival, Service

(* Without overlap at most one period is active.                           *)
THEOREM OneActivePeriod == LifecycleSpec => []AtMostOneActive
<1>1. AloneInv => AtMostOneActive
  BY DEF AloneInv
<1> QED
  BY <1>1, InitialInv, LifecycleInvInductive, AloneInit, AloneInductive, PTL DEF LifecycleSpec

(* Without overlap every period starts before it ends.                     *)
THEOREM PeriodsInOrder == LifecycleSpec => []DatesInOrder
<1>1. AloneInv => DatesInOrder
  BY DEF AloneInv
<1> QED
  BY <1>1, InitialInv, LifecycleInvInductive, AloneInit, AloneInductive, PTL DEF LifecycleSpec

(* Two ranges that the query does not find to overlap share no day.        *)
LEMMA ApartShareNoDay ==
  ASSUME NEW row \in PeriodRow, NEW start \in Int, NEW end \in Int, ~Overlaps(row, start, end)
  PROVE  (start .. end) \cap DaysOf(row) = {}
<1>1. row.startDate \in Int /\ row.endDate \in Int
  BY DayAssumption DEF PeriodRow
<1> QED
  BY <1>1 DEF Overlaps, DaysOf

(* The step that adds a period.                                            *)
LEMMA OnlyInsertsAdd ==
  ASSUME LifecycleInv, Arrival \/ Service, NEW p \in PeriodId,
         attendancePeriods[p] = None, attendancePeriods'[p] # None
  PROVE  \E q \in PeriodRequest :
           /\ InsertPeriod(q) /\ p = NewPeriodId[q]
           /\ attendancePeriods' = [attendancePeriods EXCEPT ![p] = NewPeriod(periodCall[q].dto)]
<1>1. DatabaseTypeOK /\ PayrollInv
  BY DEF LifecycleInv, PaymentsOK, PayrollInv
<1>2. ASSUME NEW r \in PayrollRequest, RunStep(r)
      PROVE  FALSE
  BY <1>1, <1>2, PeriodsStay DEF PayrollNext
<1>3. ASSUME NEW q \in AttendanceRequest, SubmitAttendance(q) \/ CheckInStep(q)
      PROVE  FALSE
  BY <1>3, CheckInRecords
<1>4. PICK q \in PeriodRequest : PeriodStart(q) \/ PeriodStep(q)
  BY <1>2, <1>3 DEF Arrival, PayrollArrives, PeriodCallArrives, CheckInArrives, Service,
     PayrollMoves, PeriodCallMoves, CheckInMoves, DayPasses, dbVars, RunStep
<1>5. ~Rewritten /\ ~\E x \in PeriodId : Dropped(x)
  BY <1>1, DroppingEffect DEF Rewritten
<1>6. InsertPeriod(q) /\ Inserted(NewPeriodId[q], NewPeriod(periodCall[q].dto))
  BY <1>4, <1>5, PeriodCallOK
<1>7. p = NewPeriodId[q]
  BY <1>1, <1>6 DEF Inserted, DatabaseTypeOK, Table
<1> QED
  BY <1>6, <1>7 DEF Inserted

(* Without overlap no period is created on a day of an unclosed one.       *)
THEOREM NewPeriodsAreApart == LifecycleSpec => CreateNeverOverlaps
<1> DEFINE Apart == \A p \in PeriodId : ~overlapped => CreatedApart(p)
<1>1. ASSUME LifecycleInv, AloneInv, Arrival \/ Service
      PROVE  Apart
  <2> SUFFICES ASSUME NEW p \in PeriodId, ~overlapped, attendancePeriods[p] = None,
                      attendancePeriods'[p] # None, NEW other \in PeriodId \ {p},
                      attendancePeriods[other] # None, attendancePeriods[other].status # "CLOSED"
               PROVE  DaysOf(attendancePeriods'[p]) \cap DaysOf(attendancePeriods[other]) = {}
    BY DEF CreatedApart
  <2>1. PICK q \in PeriodRequest :
          /\ InsertPeriod(q) /\ p = NewPeriodId[q]
          /\ attendancePeriods' = [attendancePeriods EXCEPT ![p] = NewPeriod(periodCall[q].dto)]
    BY <1>1, OnlyInsertsAdd
  <2>2. /\ CallShape(periodCall[q], q) /\ StillSo(periodCall[q]) /\ periodCall[q].pc = "insert"
        /\ attendancePeriods \in [PeriodId -> PeriodRow \cup {None}]
    BY <1>1, <2>1 DEF LifecycleInv, PeriodCallsOK, AloneInv, CallsStillSo, InsertPeriod,
       PaymentsOK, PayrollInv, DatabaseTypeOK, Table
  <2> DEFINE start == periodCall[q].dto.startDate
             end == periodCall[q].dto.endDate
  <2>3. periodCall[q].op = "create" /\ start \in Day /\ end \in Day
    BY <2>2 DEF CallShape
  <2>4. start \in Int /\ end \in Int
    BY <2>3, DayAssumption
  <2>5. ~Overlaps(attendancePeriods[other], start, end)
    BY <2>2, <2>3 DEF StillSo, Free
  <2>6. DaysOf(attendancePeriods'[p]) = start .. end
    <3>1. attendancePeriods'[p] = NewPeriod(periodCall[q].dto)
      BY <2>1, <2>2
    <3> QED
      BY <3>1 DEF NewPeriod, DaysOf
  <2>7. attendancePeriods[other] \in PeriodRow
    BY <2>2
  <2> HIDE DEF start, end
  <2> QED
    BY <2>4, <2>5, <2>6, <2>7, ApartShareNoDay
<1>2. LifecycleInv /\ AloneInv /\ [Arrival \/ Service]_lifecycleVars => [Apart]_lifecycleVars
  BY <1>1
<1> QED
  BY <1>2, InitialInv, LifecycleInvInductive, AloneInit, AloneInductive, PTL
  DEF LifecycleSpec, CreateNeverOverlaps

(* Without overlap a removal takes no attendance and no overtime with it.  *)
THEOREM RemovalsTakeNothing == LifecycleSpec => RemovalLosesNoAttendance
<1> DEFINE Nothing == \A p \in PeriodId : ~overlapped => RemovedEmpty(p)
<1>1. ASSUME LifecycleInv, AloneInv, Arrival \/ Service
      PROVE  Nothing
  <2> SUFFICES ASSUME NEW p \in PeriodId, ~overlapped, attendancePeriods[p] # None,
                      attendancePeriods'[p] = None
               PROVE  (\A a \in attendances : a.attendancePeriodId # p) /\ ~HasOvertimes(p)
    BY DEF RemovedEmpty
  <2>1. PICK q \in PeriodRequest : DeletePeriodRow(q) /\ p = periodCall[q].periodId
    BY <1>1, OnlyRemovalsDrop
  <2>2. CallShape(periodCall[q], q) /\ StillSo(periodCall[q]) /\ periodCall[q].pc = "delete"
    BY <1>1, <2>1 DEF LifecycleInv, PeriodCallsOK, AloneInv, CallsStillSo, DeletePeriodRow
  <2> QED
    BY <2>1, <2>2 DEF CallShape, StillSo
<1>2. LifecycleInv /\ AloneInv /\ [Arrival \/ Service]_lifecycleVars => [Nothing]_lifecycleVars
  BY <1>1
<1> QED
  BY <1>2, InitialInv, LifecycleInvInductive, AloneInit, AloneInductive, PTL
  DEF LifecycleSpec, RemovalLosesNoAttendance

(* What a call leaves of a processed period.                               *)
LEMMA CallLeavesProcessed ==
  ASSUME LifecycleInv, AloneInv, ~overlapped, NEW q \in PeriodRequest,
         PeriodStart(q) \/ PeriodStep(q), NEW p \in PeriodId
  PROVE  ProcessedStands(p)
<1> SUFFICES ASSUME IsProcessed(p)
             PROVE  ProcessedStands(p)
  BY DEF ProcessedStands
<1>1. /\ CallShape(periodCall[q], q) /\ StillSo(periodCall[q]) /\ DatabaseTypeOK
      /\ attendancePeriods \in [PeriodId -> PeriodRow \cup {None}]
  BY DEF LifecycleInv, PeriodCallsOK, AloneInv, CallsStillSo, PaymentsOK, PayrollInv,
     DatabaseTypeOK, Table
<1>2. CASE attendancePeriods'[p] = attendancePeriods[p]
  BY <1>2 DEF IsProcessed, ProcessedStands
<1>3. CASE InsertPeriod(q)
  <2>1. Unknown(NewPeriodId[q]) /\ Inserted(NewPeriodId[q], NewPeriod(periodCall[q].dto))
    BY <1>3, InsertPeriodOK DEF LifecycleInv, PendingUnknown
  <2>2. p # NewPeriodId[q]
    BY <2>1 DEF Unknown, IsProcessed
  <2> QED
    BY <1>1, <1>2, <2>1, <2>2 DEF Inserted
<1>4. CASE DeactivateOthers(q)
  BY <1>4, DeactivatedRows DEF IsProcessed, ProcessedStands
<1>5. CASE WritePeriod(q)
  <2>1. ~UpdateRefused(attendancePeriods[periodCall[q].periodId], periodCall[q].dto)
    BY <1>1, <1>5 DEF WritePeriod, CallShape, StillSo
  <2>2. p # periodCall[q].periodId
    BY <2>1 DEF UpdateRefused, IsProcessed
  <2> QED
    BY <1>1, <1>2, <1>5, <2>2 DEF WritePeriod
<1>6. CASE DeletePeriodRow(q)
  <2>1. /\ ~attendancePeriods[periodCall[q].periodId].payrollProcessed
        /\ periodCall[q].periodId \in PeriodId
    BY <1>1, <1>6 DEF DeletePeriodRow, CallShape, StillSo, PeriodInProgress
  <2>2. p # periodCall[q].periodId
    BY <2>1 DEF IsProcessed
  <2>3. Dropped(periodCall[q].periodId) \/ attendancePeriods' = attendancePeriods
    BY <1>6 DEF DeletePeriodRow, Dropped, dbVars
  <2> QED
    BY <1>1, <1>2, <2>1, <2>2, <2>3, DroppingEffect
<1> QED
  BY <1>2, <1>3, <1>4, <1>5, <1>6 DEF PeriodStart, CreatePeriod, UpdatePeriod, RemovePeriod,
     PeriodStep, FindAttendances, FindOvertimes, AuditPeriod, PeriodCrash, dbVars

(* Without overlap a processed period stays, with its dates and status.    *)
THEOREM ProcessedPeriodsStay == LifecycleSpec => ProcessedPeriodStays
<1> DEFINE Stay == \A p \in PeriodId : ~overlapped => ProcessedStands(p)
<1>1. ASSUME LifecycleInv, AloneInv, Arrival \/ Service
      PROVE  Stay
  <2> SUFFICES ASSUME NEW p \in PeriodId, ~overlapped
               PROVE  ProcessedStands(p)
    OBVIOUS
  <2>1. ASSUME NEW r \in PayrollRequest, RunStep(r)
        PROVE  ProcessedStands(p)
    BY <1>1, <2>1, RunKeepsRows DEF LifecycleInv, PaymentsOK, IsProcessed, ProcessedStands
  <2>2. ASSUME NEW q \in PeriodRequest, PeriodStart(q) \/ PeriodStep(q)
        PROVE  ProcessedStands(p)
    BY <1>1, <2>2, CallLeavesProcessed
  <2>3. CASE attendancePeriods' = attendancePeriods
    BY <2>3 DEF IsProcessed, ProcessedStands
  <2>4. ASSUME NEW q \in AttendanceRequest, SubmitAttendance(q) \/ CheckInStep(q)
        PROVE  ProcessedStands(p)
    BY <1>1, <2>3, <2>4, CheckInRecords
  <2> QED
    BY <1>1, <2>1, <2>2, <2>3, <2>4 DEF Arrival, PayrollArrives, PeriodCallArrives,
       CheckInArrives, Service, PayrollMoves, PeriodCallMoves, CheckInMoves, DayPasses, dbVars, RunStep
<1>2. LifecycleInv /\ AloneInv /\ [Arrival \/ Service]_lifecycleVars => [Stay]_lifecycleVars
  BY <1>1
<1> QED
  BY <1>2, InitialInv, LifecycleInvInductive, AloneInit, AloneInductive, PTL
  DEF LifecycleSpec, ProcessedPeriodStays

(* Records of one employee that fall on working days of a range are no     *)
(* more than those.                                                        *)
LEMMA RecordsFitDays ==
  ASSUME NEW records, NEW e, NEW start \in Int, NEW end \in Int,
         records \subseteq attendances, AttendanceOncePerDay,
         \A a \in records : a.employeeId = e /\ a.date \in WorkingDays(start, end)
  PROVE  Cardinality(records) <= Cardinality(WorkingDays(start, end))
<1> DEFINE days == WorkingDays(start, end)
           dateOf == [a \in records |-> a.date]
<1>1. IsFiniteSet(days)
  <2>1. \A d \in days : d \in Int /\ start <= d /\ d <= end
    BY DayAssumption, SMT DEF WorkingDays
  <2>2. days \subseteq start .. end
    BY <2>1
  <2> QED
    BY <2>2, FS_Interval, FS_Subset
<1>2. dateOf \in Injection(records, days)
  <2>1. dateOf \in [records -> days]
    OBVIOUS
  <2>2. ASSUME NEW a \in records, NEW b \in records, dateOf[a] = dateOf[b]
        PROVE  a = b
    BY <2>2 DEF AttendanceOncePerDay
  <2> QED
    BY <2>1, <2>2 DEF Injection, IsInjective
<1> HIDE DEF days, dateOf
<1> QED
  BY <1>1, <1>2, FS_Injection DEF days

(* Without overlap a payslip counts no more days than the period has       *)
(* working days, if the records still lie in the period.                   *)
THEOREM SalariesWithinMonth == LifecycleSpec => SalaryWithinMonth
<1> DEFINE Within ==
      \A s \in payslips' \ payslips :
        LET row == attendancePeriods[s.attendancePeriodId] IN
        ~overlapped /\ (\A a \in attendances : /\ a.employeeId = s.employeeId
                                                /\ a.attendancePeriodId = s.attendancePeriodId
                                                => a.date \in DaysOf(row))
          => s.attendedDays <= Cardinality(WorkingDays(row.startDate, row.endDate))
<1>1. ASSUME LifecycleInv, AloneInv, Arrival \/ Service
      PROVE  Within
  <2> SUFFICES ASSUME NEW s \in payslips', s \notin payslips, ~overlapped,
                      \A a \in attendances :
                        a.employeeId = s.employeeId /\ a.attendancePeriodId = s.attendancePeriodId
                          => a.date \in DaysOf(attendancePeriods[s.attendancePeriodId])
               PROVE  s.attendedDays <=
                        Cardinality(WorkingDays(attendancePeriods[s.attendancePeriodId].startDate,
                                                attendancePeriods[s.attendancePeriodId].endDate))
    OBVIOUS
  <2>1. ~(payslips' \subseteq payslips)
    OBVIOUS
  <2>2. PICK r \in PayrollRequest : RunStep(r)
    <3>1. ASSUME NEW q \in AttendanceRequest, SubmitAttendance(q) \/ CheckInStep(q)
          PROVE  FALSE
      BY <1>1, <2>1, <3>1, CheckInRecords
    <3>2. ASSUME NEW q \in PeriodRequest, PeriodStart(q) \/ PeriodStep(q)
          PROVE  FALSE
      <4>1. DatabaseTypeOK
        BY <1>1 DEF LifecycleInv, PaymentsOK, PayrollInv
      <4> QED
        BY <1>1, <2>1, <3>2, <4>1, PeriodCallOK, DroppingEffect DEF Rewritten, Inserted, tablesButPeriods
    <3> QED
      BY <1>1, <2>1, <3>1, <3>2 DEF Arrival, PayrollArrives, PeriodCallArrives, CheckInArrives,
         Service, PayrollMoves, PeriodCallMoves, CheckInMoves, DayPasses, dbVars, RunStep
  <2>3. /\ CreatePayslip(r) \/ CommitUnacknowledged(r)
        /\ Insertable(r) /\ s = NewPayslip(r)
    BY <2>1, <2>2 DEF RunStep, HandlerStep, FailureStep, ProcessPayroll, LoadEmployees,
       BeginEmployee, CountAttendance, CountOvertime, CountReimbursements, GeneratePayslipNumber,
       CreatePayslip, FinishRun, TransactionFails, CommitUnacknowledged, Crash, dbVars
  <2>4. run[r].pc = "create" /\ run[r].periodId \in PeriodId
    BY <1>1, <2>3 DEF CreatePayslip, CommitUnacknowledged, LifecycleInv, PaymentsOK, PayrollInv,
       RunsOK, RunShape
  <2> DEFINE row == attendancePeriods[s.attendancePeriodId]
             records == {a \in attendances : Concerns(a, r)}
  <2>5. /\ s.employeeId = run[r].calculation.employeeId
        /\ s.attendancePeriodId = run[r].periodId
        /\ s.attendedDays = run[r].calculation.attendedDays
    BY <2>3 DEF NewPayslip
  <2>6. s.attendedDays = Cardinality(records)
    BY <1>1, <2>4, <2>5 DEF AloneInv, CountsStillSo, CountStillSo
  <2>7. row # None
    BY <2>3 DEF Insertable, HasParents
  <2>8. row \in PeriodRow
    BY <1>1, <2>4, <2>5, <2>7 DEF LifecycleInv, PaymentsOK, PayrollInv, DatabaseTypeOK, Table
  <2>9. row.startDate \in Int /\ row.endDate \in Int
    BY <2>8, DayAssumption DEF PeriodRow
  <2>10. \A a \in records : /\ a.employeeId = s.employeeId
                            /\ a.date \in WorkingDays(row.startDate, row.endDate)
    <3> SUFFICES ASSUME NEW a \in records
                 PROVE  /\ a.employeeId = s.employeeId
                        /\ a.date \in WorkingDays(row.startDate, row.endDate)
      OBVIOUS
    <3>1. a.employeeId = s.employeeId /\ a.attendancePeriodId = s.attendancePeriodId
      BY <2>5 DEF Concerns
    <3>2. a.date \in row.startDate .. row.endDate
      BY <3>1 DEF DaysOf
    <3>3. a.date \in Day \ Weekend
      BY <1>1 DEF LifecycleInv, AttendancesOK, PaymentsOK, PayrollInv, DatabaseTypeOK, AttendanceRow
    <3> QED
      BY <2>9, <3>1, <3>2, <3>3 DEF WorkingDays
  <2>11. AttendanceOncePerDay
    BY <1>1 DEF LifecycleInv, AttendancesOK
  <2>12. records \subseteq attendances
    OBVIOUS
  <2> HIDE DEF row, records
  <2>13. Cardinality(records) <= Cardinality(WorkingDays(row.startDate, row.endDate))
    BY <2>9, <2>10, <2>11, <2>12, RecordsFitDays
  <2> QED
    BY <2>6, <2>13 DEF row
<1>2. LifecycleInv /\ AloneInv /\ [Arrival \/ Service]_lifecycleVars => [Within]_lifecycleVars
  BY <1>1
<1> QED
  BY <1>2, InitialInv, LifecycleInvInductive, AloneInit, AloneInductive, PTL
  DEF LifecycleSpec, SalaryWithinMonth
=============================================================================
