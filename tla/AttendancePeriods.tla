-------------------------- MODULE AttendancePeriods --------------------------
(***************************************************************************)
(* attendance-period.service.ts: create, update and remove as step         *)
(* machines, one step per awaited statement.  None of them runs in a       *)
(* transaction: each statement commits by itself.                          *)
(***************************************************************************)
EXTENDS Audit

CONSTANTS PeriodRequest,   \* the calls, each made at most once
          PeriodDto,       \* the bodies a call may carry
          NewPeriodId      \* the UUID a create would be given

VARIABLE periodCall

periodVars == <<dbVars, auditVars, periodCall>>

ASSUME NewPeriodAssumption ==
  /\ NewPeriodId \in [PeriodRequest -> PeriodId]
  /\ \A q1, q2 \in PeriodRequest : NewPeriodId[q1] = NewPeriodId[q2] => q1 = q2
  /\ \A db \in InitialDatabases, q \in PeriodRequest :
       db.attendancePeriods[NewPeriodId[q]] = None

(* The periods there are were made by these handlers.                      *)
ASSUME InitialPeriodsAssumption ==
  \A db \in InitialDatabases :
    LET Row(p) == db.attendancePeriods[p] IN
    /\ \A p \in PeriodId : Row(p) # None => Row(p).startDate < Row(p).endDate
    /\ \A p1, p2 \in PeriodId :
         Row(p1) # None /\ Row(p1).isActive /\ Row(p2) # None /\ Row(p2).isActive => p1 = p2

ASSUME PeriodDtoAssumption ==
  PeriodDto \subseteq [startDate: Day \cup {None}, endDate: Day \cup {None},
                       isActive: BOOLEAN \cup {None}, status: PeriodStatus \cup {None}]
-----------------------------------------------------------------------------
PeriodInProgress == {"deactivate", "insert", "write", "attendances", "overtimes",
                     "delete", "audit"}
PeriodEnded      == {"done", "refused", "crashed"}

PeriodCall == [pc: {"idle"} \cup PeriodInProgress \cup PeriodEnded,
               op: {"create", "update", "remove", None},
               periodId: PeriodId \cup {None},
               dto: PeriodDto \cup {None},
               found: BOOLEAN,                    \* attendances.length > 0
               written: PeriodRow \cup {None}]    \* as the write returned it

IdlePeriodCall == [pc |-> "idle", op |-> None, periodId |-> None, dto |-> None,
                   found |-> FALSE, written |-> None]

PeriodTypeOK == periodCall \in [PeriodRequest -> PeriodCall]

PeriodInit == periodCall = [q \in PeriodRequest |-> IdlePeriodCall]

(* Move the call of q on; end it, with nothing kept of it.                 *)
PeriodGoto(q, pc) == periodCall' = [periodCall EXCEPT ![q].pc = pc]
PeriodEnds(q, how) ==
  periodCall' = [periodCall EXCEPT ![q] = [IdlePeriodCall EXCEPT !.pc = how]]

tablesButPeriods == <<employees, attendances, overtimes, reimbursements, payslips>>
-----------------------------------------------------------------------------
(* create                                                                  *)

(* Faulty: a period inside the new one is overlooked.                      *)
Overlaps_NotContained(row, start, end) ==
  \/ row.startDate <= start /\ row.endDate >= start
  \/ row.startDate <= end /\ row.endDate >= end

(* The three cases of the query.                                           *)
Overlaps(row, start, end) ==
  \/ row.startDate <= start /\ row.endDate >= start
  \/ row.startDate <= end /\ row.endDate >= end
  \/ row.startDate >= start /\ row.endDate <= end

OverlappingPeriods(start, end) ==
  {p \in PeriodId : /\ attendancePeriods[p] # None
                    /\ attendancePeriods[p].status # "CLOSED"
                    /\ Overlaps(attendancePeriods[p], start, end)}

(* isActive defaults to true.                                              *)
WantsActive(dto) == dto.isActive # FALSE

CreatePeriod(q) ==
  /\ periodCall[q].pc = "idle"
  /\ \E dto \in PeriodDto :
       /\ dto.startDate # None /\ dto.endDate # None /\ dto.status = None
       /\ IF \/ dto.startDate >= dto.endDate
             \/ OverlappingPeriods(dto.startDate, dto.endDate) # {}
          THEN PeriodEnds(q, "refused")
          ELSE periodCall' = [periodCall EXCEPT ![q] =
                 [IdlePeriodCall EXCEPT !.op = "create", !.periodId = NewPeriodId[q],
                    !.dto = dto, !.pc = IF WantsActive(dto) THEN "deactivate" ELSE "insert"]]
  /\ UNCHANGED <<dbVars, auditVars>>

(* Faulty: isActive has no default.                                        *)
NewPeriod_NoDefault(dto) ==
  [startDate |-> dto.startDate, endDate |-> dto.endDate, status |-> "ACTIVE",
   isActive |-> dto.isActive, payrollProcessed |-> FALSE]

NewPeriod(dto) == [startDate |-> dto.startDate, endDate |-> dto.endDate, status |-> "ACTIVE",
                   isActive |-> WantsActive(dto), payrollProcessed |-> FALSE]

InsertPeriod(q) ==
  /\ periodCall[q].pc = "insert"
  /\ LET row == NewPeriod(periodCall[q].dto) IN
     /\ attendancePeriods' = [attendancePeriods EXCEPT ![periodCall[q].periodId] = row]
     /\ periodCall' = [periodCall EXCEPT ![q].pc = "audit", ![q].written = row]
  /\ UNCHANGED <<tablesButPeriods, auditVars>>
-----------------------------------------------------------------------------
(* update                                                                  *)
OrElse(value, otherwise) == IF value = None THEN otherwise ELSE value

(* The row after an update: undefined fields stay as they are.             *)
Merge(row, dto) == [row EXCEPT !.startDate = OrElse(dto.startDate, @),
                               !.endDate   = OrElse(dto.endDate, @),
                               !.isActive  = OrElse(dto.isActive, @),
                               !.status    = OrElse(dto.status, @)]

(* Faulty: the processed flag is not looked at.                            *)
UpdateRefused_Unlocked(row, dto) ==
  \/ row = None
  \/ /\ dto.startDate # None \/ dto.endDate # None
     /\ Merge(row, dto).startDate >= Merge(row, dto).endDate

(* Faulty: the dates are compared only when both are given.                *)
UpdateRefused_BothDates(row, dto) ==
  \/ row = None
  \/ row.payrollProcessed
  \/ /\ dto.startDate # None /\ dto.endDate # None
     /\ dto.startDate >= dto.endDate

UpdateRefused(row, dto) ==
  \/ row = None
  \/ row.payrollProcessed
  \/ /\ dto.startDate # None \/ dto.endDate # None
     /\ Merge(row, dto).startDate >= Merge(row, dto).endDate

UpdatePeriod(q) ==
  /\ periodCall[q].pc = "idle"
  /\ \E p \in PeriodId, dto \in PeriodDto :
       IF UpdateRefused(attendancePeriods[p], dto)
       THEN PeriodEnds(q, "refused")
       ELSE periodCall' = [periodCall EXCEPT ![q] =
              [IdlePeriodCall EXCEPT !.op = "update", !.periodId = p, !.dto = dto,
                 !.pc = IF dto.isActive = TRUE THEN "deactivate" ELSE "write"]]
  /\ UNCHANGED <<dbVars, auditVars>>

(* Faulty: the others are left active when one is set active.              *)
DeactivateOthers_NotOnUpdate(q) ==
  /\ periodCall[q].pc = "deactivate"
  /\ attendancePeriods' =
       [p \in PeriodId |->
          IF periodCall[q].op = "create" /\ attendancePeriods[p] # None
          THEN [attendancePeriods[p] EXCEPT !.isActive = FALSE]
          ELSE attendancePeriods[p]]
  /\ PeriodGoto(q, IF periodCall[q].op = "create" THEN "insert" ELSE "write")
  /\ UNCHANGED <<tablesButPeriods, auditVars>>

(* updateMany over the active periods: all of them in create, all but the  *)
(* one updated in update.                                                  *)
DeactivateOthers(q) ==
  /\ periodCall[q].pc = "deactivate"
  /\ attendancePeriods' =
       [p \in PeriodId |->
          IF p # periodCall[q].periodId /\ attendancePeriods[p] # None
          THEN [attendancePeriods[p] EXCEPT !.isActive = FALSE]
          ELSE attendancePeriods[p]]
  /\ PeriodGoto(q, IF periodCall[q].op = "create" THEN "insert" ELSE "write")
  /\ UNCHANGED <<tablesButPeriods, auditVars>>

(* The update is by id: what was read of the row is not looked at again.   *)
WritePeriod(q) ==
  /\ periodCall[q].pc = "write"
  /\ LET p == periodCall[q].periodId
         row == Merge(attendancePeriods[p], periodCall[q].dto) IN
     \/ /\ attendancePeriods[p] # None
        /\ attendancePeriods' = [attendancePeriods EXCEPT ![p] = row]
        /\ periodCall' = [periodCall EXCEPT ![q].pc = "audit", ![q].written = row]
     \/ /\ attendancePeriods[p] = None
        /\ PeriodEnds(q, "crashed")
        /\ UNCHANGED attendancePeriods
  /\ UNCHANGED <<tablesButPeriods, auditVars>>
-----------------------------------------------------------------------------
(* remove                                                                  *)
RemovePeriod(q) ==
  /\ periodCall[q].pc = "idle"
  /\ \E p \in PeriodId :
       IF attendancePeriods[p] = None \/ attendancePeriods[p].payrollProcessed
       THEN PeriodEnds(q, "refused")
       ELSE periodCall' = [periodCall EXCEPT ![q] =
              [IdlePeriodCall EXCEPT !.op = "remove", !.periodId = p, !.pc = "attendances"]]
  /\ UNCHANGED <<dbVars, auditVars>>

FindAttendances(q) ==
  /\ periodCall[q].pc = "attendances"
  /\ periodCall' = [periodCall EXCEPT ![q].pc = "overtimes", ![q].found =
                      \E a \in attendances : a.attendancePeriodId = periodCall[q].periodId]
  /\ UNCHANGED <<dbVars, auditVars>>

HasOvertimes(p) ==
  \E o \in OvertimeId : overtimes[o] # None /\ overtimes[o].attendancePeriodId = p

(* Faulty: both kinds of records are needed to refuse.                     *)
RemovalRefused_Both(q) == periodCall[q].found /\ HasOvertimes(periodCall[q].periodId)

RemovalRefused(q) == periodCall[q].found \/ HasOvertimes(periodCall[q].periodId)

FindOvertimes(q) ==
  /\ periodCall[q].pc = "overtimes"
  /\ IF RemovalRefused(q) THEN PeriodEnds(q, "refused") ELSE PeriodGoto(q, "audit")
  /\ UNCHANGED <<dbVars, auditVars>>

DeletePeriodRow(q) ==
  /\ periodCall[q].pc = "delete"
  /\ LET p == periodCall[q].periodId IN
     \/ /\ attendancePeriods[p] # None
        /\ DeletePeriod(p)
        /\ PeriodEnds(q, "done")
     \/ /\ attendancePeriods[p] = None
        /\ PeriodEnds(q, "crashed")
        /\ UNCHANGED dbVars
  /\ UNCHANGED auditVars
-----------------------------------------------------------------------------
(* The columns of a period an audit entry shows.                           *)
PeriodValues(row) == [startDate |-> row.startDate, endDate |-> row.endDate,
                      isActive |-> row.isActive]

RemovalEntry(p) == AuditEntry("attendance-periods", p, "DELETE", None, None)

(* The entry a call writes.  The old values of an update are taken from    *)
(* the row the update returned.                                            *)
PeriodEntry(q) ==
  LET c == periodCall[q] IN
  CASE c.op = "create" -> AuditEntry("attendance-periods", c.periodId, "CREATE",
                                     None, PeriodValues(c.written))
    [] c.op = "update" -> AuditEntry("attendance-periods", c.periodId, "UPDATE",
                                     PeriodValues(c.written), PeriodValues(c.dto))
    [] c.op = "remove" -> RemovalEntry(c.periodId)

(* Faulty: a removal goes on without its entry.                            *)
AuditPeriod_SkippingRemoval(q) ==
  /\ periodCall[q].pc = "audit"
  /\ IF periodCall[q].op = "remove" THEN UNCHANGED auditVars ELSE LogAudit(PeriodEntry(q))
  /\ IF periodCall[q].op = "remove" THEN PeriodGoto(q, "delete") ELSE PeriodEnds(q, "done")
  /\ UNCHANGED dbVars

(* create and update log what they did; remove logs what it is about to do.*)
AuditPeriod(q) ==
  /\ periodCall[q].pc = "audit"
  /\ LogAudit(PeriodEntry(q))
  /\ IF periodCall[q].op = "remove" THEN PeriodGoto(q, "delete") ELSE PeriodEnds(q, "done")
  /\ UNCHANGED dbVars

(* The process dies, or a statement fails.                                 *)
PeriodCrash(q) ==
  /\ periodCall[q].pc \in PeriodInProgress
  /\ PeriodEnds(q, "crashed")
  /\ UNCHANGED <<dbVars, auditVars>>
-----------------------------------------------------------------------------
PeriodStart(q) == CreatePeriod(q) \/ UpdatePeriod(q) \/ RemovePeriod(q)

PeriodStep(q) ==
  \/ InsertPeriod(q)
  \/ DeactivateOthers(q)
  \/ WritePeriod(q)
  \/ FindAttendances(q)
  \/ FindOvertimes(q)
  \/ DeletePeriodRow(q)
  \/ AuditPeriod(q)
  \/ PeriodCrash(q)

PeriodQuiet == \A q \in PeriodRequest : periodCall[q].pc \notin PeriodInProgress

-----------------------------------------------------------------------------
(* A period that is gone was removed by a call that logged the removal     *)
(* first: no interleaving and no crash loses the entry (lines 277-288).    *)
RemovalIsLogged ==
  [][\A p \in PeriodId : attendancePeriods[p] # None /\ attendancePeriods'[p] = None =>
       Logged(RemovalEntry(p))]_periodVars
=============================================================================
