------------------------------- MODULE Overtimes -------------------------------
(***************************************************************************)
(* overtime.service.ts: an employee submits, changes and removes overtimes *)
(* of the active period, an administrator sets their status.  One step per *)
(* awaited statement, no transactions.                                     *)
(***************************************************************************)
EXTENDS Audit, Clock

CONSTANTS OvertimeRequest,   \* the calls, each made at most once
          OvertimeDto,       \* the bodies of a submission or an update
          NewOvertimeId      \* the UUID a submission would be given

VARIABLE overtimeCall

ASSUME TimeAssumption == TimeOfDay \subseteq 0 .. 24 * 60 - 1 /\ Hours \subseteq 50 .. 300

(* An update may give only some of them: None stands for those left out.   *)
ASSUME OvertimeDtoAssumption ==
  OvertimeDto \subseteq [startTime: TimeOfDay \cup {None}, endTime: TimeOfDay \cup {None},
                        hoursWorked: Hours \cup {None}]

ASSUME NewOvertimeAssumption ==
  /\ NewOvertimeId \in [OvertimeRequest -> OvertimeId]
  /\ \A v1, v2 \in OvertimeRequest : NewOvertimeId[v1] = NewOvertimeId[v2] => v1 = v2
  /\ \A db \in InitialDatabases, v \in OvertimeRequest : db.overtimes[NewOvertimeId[v]] = None

(* The overtimes there are at first were submitted, and so checked, before.*)
ASSUME InitialOvertimesAssumption ==
  \A db \in InitialDatabases, o \in OvertimeId :
    LET row == db.overtimes[o] IN
    row # None =>
      /\ \E a \in db.attendances : a.employeeId = row.employeeId /\ a.date = row.date
      /\ \A other \in OvertimeId \ {o} :
           db.overtimes[other] # None /\ db.overtimes[other].employeeId = row.employeeId
             => db.overtimes[other].date # row.date
-----------------------------------------------------------------------------
(* A range that does not end after it starts ends the next day.            *)
CalculatedMinutes(start, end) == IF end <= start THEN end - start + 24 * 60 ELSE end - start

(* calculateHours, and a difference of 0.1 hours that is let pass.         *)
MatchesRange(start, end, hours) ==
  LET difference == 100 * CalculatedMinutes(start, end) - 60 * hours
  IN  -600 <= difference /\ difference <= 600

(* The working day is 08:00-17:00; only the hours are looked at.           *)
IsValidOvertimeTime(start, end) == start \div 60 >= 17 \/ end \div 60 <= 8

Accepted(start, end, hours) == MatchesRange(start, end, hours) /\ IsValidOvertimeTime(start, end)
-----------------------------------------------------------------------------
OvertimeInProgress == {"period", "existing", "attendance", "insert", "write", "delete",
                       "status", "audit"}
OvertimeEnded      == {"done", "refused", "crashed"}

OvertimeCall == [pc: {"idle"} \cup OvertimeInProgress \cup OvertimeEnded,
                 op: {"create", "update", "delete", "status", None},
                 overtimeId: OvertimeId \cup {None},
                 employeeId: EmployeeId \cup {None},
                 periodId: PeriodId \cup {None},             \* activePeriod
                 date: Day \cup {None},
                 startTime: TimeOfDay \cup {None},           \* None: not given
                 endTime: TimeOfDay \cup {None},
                 hoursWorked: Hours \cup {None},
                 status: OvertimeStatus \cup {None},
                 existing: OvertimeRow \cup {None},          \* as the first query returned it
                 written: OvertimeRow \cup {None}]           \* as the write returned it

IdleOvertimeCall ==
  [pc |-> "idle", op |-> None, overtimeId |-> None, employeeId |-> None, periodId |-> None,
   date |-> None, startTime |-> None, endTime |-> None, hoursWorked |-> None,
   status |-> None, existing |-> None, written |-> None]

OvertimeInit == overtimeCall = [v \in OvertimeRequest |-> IdleOvertimeCall]

OvertimeTypeOK == overtimeCall \in [OvertimeRequest -> OvertimeCall]

OvertimeGoto(v, pc) == overtimeCall' = [overtimeCall EXCEPT ![v].pc = pc]

(* A call that has ended keeps nothing.                                    *)
OvertimeAnswer(how) == [IdleOvertimeCall EXCEPT !.pc = how]

OvertimeEnds(v, how) == overtimeCall' = [overtimeCall EXCEPT ![v] = OvertimeAnswer(how)]

tablesButOvertimes == <<employees, attendancePeriods, attendances, reimbursements, payslips>>
-----------------------------------------------------------------------------
WhollyGiven(dto) == None \notin {dto.startTime, dto.endTime, dto.hoursWorked}

(* create                                                                  *)
CreateOvertime(v) ==
  /\ overtimeCall[v].pc = "idle"
  /\ \E e \in EmployeeId, date \in Day, dto \in {d \in OvertimeDto : WhollyGiven(d)} :
       overtimeCall' = [overtimeCall EXCEPT ![v] =
         IF employees[e] = "ACTIVE"
         THEN [IdleOvertimeCall EXCEPT !.op = "create", !.overtimeId = NewOvertimeId[v],
                 !.employeeId = e, !.date = date, !.startTime = dto.startTime,
                 !.endTime = dto.endTime, !.hoursWorked = dto.hoursWorked, !.pc = "period"]
         ELSE OvertimeAnswer("refused")]
  /\ UNCHANGED <<dbVars, auditVars, today>>

(* Any active period, not the one the date belongs to.                     *)
FindActivePeriod(v) ==
  /\ overtimeCall[v].pc = "period"
  /\ LET active == {p \in PeriodId : /\ attendancePeriods[p] # None
                                     /\ attendancePeriods[p].isActive
                                     /\ attendancePeriods[p].status = "ACTIVE"}
         date   == overtimeCall[v].date
         Fits(p) == /\ attendancePeriods[p].startDate <= date
                    /\ date <= attendancePeriods[p].endDate
                    /\ date <= today
     IN  \/ /\ active = {} \/ \E p \in active : ~Fits(p)
            /\ OvertimeEnds(v, "refused")
         \/ \E p \in active :
              /\ Fits(p)
              /\ overtimeCall' = [overtimeCall EXCEPT ![v].periodId = p, ![v].pc = "existing"]
  /\ UNCHANGED <<dbVars, auditVars, today>>

NewOvertime(v) ==
  LET c == overtimeCall[v] IN
  [employeeId |-> c.employeeId, attendancePeriodId |-> c.periodId, date |-> c.date,
   startTime |-> c.startTime, endTime |-> c.endTime, hoursWorked |-> c.hoursWorked,
   status |-> "PENDING"]

(* One overtime per employee and day (unique key).                         *)
SameOvertimeDay(v) ==
  {o \in OvertimeId : /\ overtimes[o] # None
                      /\ overtimes[o].employeeId = overtimeCall[v].employeeId
                      /\ overtimes[o].date = overtimeCall[v].date}

FindExistingOvertime(v) ==
  /\ overtimeCall[v].pc = "existing"
  /\ LET c == overtimeCall[v]
         fine == SameOvertimeDay(v) = {} /\ Accepted(c.startTime, c.endTime, c.hoursWorked)
     IN  IF fine THEN OvertimeGoto(v, "attendance") ELSE OvertimeEnds(v, "refused")
  /\ UNCHANGED <<dbVars, auditVars, today>>

(* The attendance of the day, whatever its period.                         *)
CheckAttendance(v) ==
  /\ overtimeCall[v].pc = "attendance"
  /\ LET present == \E a \in attendances : /\ a.employeeId = overtimeCall[v].employeeId
                                           /\ a.date = overtimeCall[v].date
     IN  IF present THEN OvertimeGoto(v, "insert") ELSE OvertimeEnds(v, "refused")
  /\ UNCHANGED <<dbVars, auditVars, today>>

(* Faulty: the look-up before is all that keeps a day from two overtimes.  *)
InsertOvertime_Keyless(v) ==
  /\ overtimeCall[v].pc = "insert"
  /\ LET insertable == HasParents(NewOvertime(v)) IN
     \/ /\ insertable
        /\ overtimes' = [overtimes EXCEPT ![overtimeCall[v].overtimeId] = NewOvertime(v)]
        /\ overtimeCall' = [overtimeCall EXCEPT ![v].pc = "audit", ![v].written = NewOvertime(v)]
     \/ /\ ~insertable
        /\ OvertimeEnds(v, "crashed")
        /\ UNCHANGED overtimes
  /\ UNCHANGED <<tablesButOvertimes, auditVars, today>>

(* Refused by a foreign key, or by the unique key of employee and day.     *)
InsertOvertime(v) ==
  /\ overtimeCall[v].pc = "insert"
  /\ LET insertable == HasParents(NewOvertime(v)) /\ SameOvertimeDay(v) = {} IN
     \/ /\ insertable
        /\ overtimes' = [overtimes EXCEPT ![overtimeCall[v].overtimeId] = NewOvertime(v)]
        /\ overtimeCall' = [overtimeCall EXCEPT ![v].pc = "audit", ![v].written = NewOvertime(v)]
     \/ /\ ~insertable
        /\ OvertimeEnds(v, "crashed")
        /\ UNCHANGED overtimes
  /\ UNCHANGED <<tablesButOvertimes, auditVars, today>>
-----------------------------------------------------------------------------
(* update and remove look at the status and not at the period.             *)
OwnOvertime(o, e) == IF overtimes[o] # None /\ overtimes[o].employeeId = e
                     THEN overtimes[o] ELSE None

Changeable(row) == row # None /\ row.status = "PENDING"

(* Only an update that gives all three is checked.                         *)
UpdateOvertime(v) ==
  /\ overtimeCall[v].pc = "idle"
  /\ \E o \in OvertimeId, e \in EmployeeId, dto \in OvertimeDto :
       LET fine == /\ Changeable(OwnOvertime(o, e))
                   /\ WhollyGiven(dto) => Accepted(dto.startTime, dto.endTime, dto.hoursWorked)
       IN  overtimeCall' = [overtimeCall EXCEPT ![v] =
             IF fine
             THEN [IdleOvertimeCall EXCEPT !.op = "update", !.overtimeId = o,
                     !.startTime = dto.startTime, !.endTime = dto.endTime,
                     !.hoursWorked = dto.hoursWorked,
                     !.existing = OwnOvertime(o, e), !.pc = "write"]
             ELSE OvertimeAnswer("refused")]
  /\ UNCHANGED <<dbVars, auditVars, today>>

(* Faulty: the row is deleted and no entry written.                        *)
RemoveOvertime_Unlogged(v) ==
  /\ overtimeCall[v].pc = "idle"
  /\ \E o \in OvertimeId, e \in EmployeeId :
       overtimeCall' = [overtimeCall EXCEPT ![v] =
         IF Changeable(OwnOvertime(o, e))
         THEN [IdleOvertimeCall EXCEPT !.op = "delete", !.overtimeId = o, !.pc = "delete"]
         ELSE OvertimeAnswer("refused")]
  /\ UNCHANGED <<dbVars, auditVars, today>>

(* The removal is logged before it is made.                                *)
RemoveOvertime(v) ==
  /\ overtimeCall[v].pc = "idle"
  /\ \E o \in OvertimeId, e \in EmployeeId :
       overtimeCall' = [overtimeCall EXCEPT ![v] =
         IF Changeable(OwnOvertime(o, e))
         THEN [IdleOvertimeCall EXCEPT !.op = "delete", !.overtimeId = o, !.pc = "audit"]
         ELSE OvertimeAnswer("refused")]
  /\ UNCHANGED <<dbVars, auditVars, today>>

(* A statement that writes the row by id, if it is still there; then the   *)
(* call is as in after.                                                    *)
WriteOvertimeRow(v, row, after) ==
  /\ \/ /\ overtimes[overtimeCall[v].overtimeId] # None
        /\ overtimes' = [overtimes EXCEPT ![overtimeCall[v].overtimeId] = row]
        /\ overtimeCall' = [overtimeCall EXCEPT ![v] = after]
     \/ /\ overtimes[overtimeCall[v].overtimeId] = None
        /\ OvertimeEnds(v, "crashed")
        /\ UNCHANGED overtimes
  /\ UNCHANGED <<tablesButOvertimes, auditVars, today>>

WriteAndAudit(v, row) ==
  WriteOvertimeRow(v, row, [overtimeCall[v] EXCEPT !.pc = "audit", !.written = row])

WriteOvertime(v) ==
  LET c == overtimeCall[v]
      Given(new, old) == IF new = None THEN old ELSE new
  IN  /\ c.pc = "write"
      /\ WriteAndAudit(v, [overtimes[c.overtimeId] EXCEPT
                             !.startTime = Given(c.startTime, @),
                             !.endTime = Given(c.endTime, @),
                             !.hoursWorked = Given(c.hoursWorked, @)])

DeleteOvertime(v) ==
  /\ overtimeCall[v].pc = "delete"
  /\ WriteOvertimeRow(v, None, OvertimeAnswer("done"))
-----------------------------------------------------------------------------
(* Faulty: an approved overtime is decided again, as a claim is.           *)
Decidable_Always(row) == row # None

(* updateStatus: an approval is final; a refusal and the period are not    *)
(* looked at.                                                              *)
Decidable(row) == row # None /\ row.status # "APPROVED"

UpdateOvertimeStatus(v) ==
  /\ overtimeCall[v].pc = "idle"
  /\ \E o \in OvertimeId, status \in OvertimeStatus :
       overtimeCall' = [overtimeCall EXCEPT ![v] =
         IF Decidable(overtimes[o])
         THEN [IdleOvertimeCall EXCEPT !.op = "status", !.overtimeId = o, !.status = status,
                 !.existing = overtimes[o], !.pc = "status"]
         ELSE OvertimeAnswer("refused")]
  /\ UNCHANGED <<dbVars, auditVars, today>>

WriteOvertimeStatus(v) ==
  LET c == overtimeCall[v] IN
  /\ c.pc = "status"
  /\ WriteAndAudit(v, [overtimes[c.overtimeId] EXCEPT !.status = c.status])
-----------------------------------------------------------------------------
OvertimeEntry(v) ==
  LET c == overtimeCall[v]
      Entry(action, old, new) == AuditEntry("overtimes", c.overtimeId, action, old, new)
      Times(row) == [startTime |-> row.startTime, endTime |-> row.endTime,
                     hoursWorked |-> row.hoursWorked]
  IN  CASE c.op = "create" -> Entry("CREATE", None, c.written)
        [] c.op = "update" -> Entry("UPDATE", Times(c.existing), c.written)
        [] c.op = "delete" -> Entry("DELETE", None, None)
        [] c.op = "status" -> Entry("UPDATE", [status |-> c.existing.status],
                                    [status |-> c.written.status])

AuditOvertime(v) ==
  /\ overtimeCall[v].pc = "audit"
  /\ LogAudit(OvertimeEntry(v))
  /\ IF overtimeCall[v].op = "delete" THEN OvertimeGoto(v, "delete") ELSE OvertimeEnds(v, "done")
  /\ UNCHANGED <<dbVars, today>>

(* The process dies, or a statement fails.                                 *)
OvertimeCrash(v) ==
  /\ overtimeCall[v].pc \in OvertimeInProgress
  /\ OvertimeEnds(v, "crashed")
  /\ UNCHANGED <<dbVars, auditVars, today>>
-----------------------------------------------------------------------------
OvertimeStart(v) ==
  \/ CreateOvertime(v)
  \/ UpdateOvertime(v)
  \/ RemoveOvertime(v)
  \/ UpdateOvertimeStatus(v)

OvertimeStep(v) ==
  \/ FindActivePeriod(v)
  \/ FindExistingOvertime(v)
  \/ CheckAttendance(v)
  \/ InsertOvertime(v)
  \/ WriteOvertime(v)
  \/ DeleteOvertime(v)
  \/ WriteOvertimeStatus(v)
  \/ AuditOvertime(v)
  \/ OvertimeCrash(v)

OvertimeQuiet == \A v \in OvertimeRequest : overtimeCall[v].pc \notin OvertimeInProgress
=============================================================================
