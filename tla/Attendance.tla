------------------------------ MODULE Attendance ------------------------------
(***************************************************************************)
(* attendance.service.ts: submitAttendance, the check-in of an employee,   *)
(* as a step machine with one step per awaited statement.                  *)
(***************************************************************************)
EXTENDS Audit, Clock

CONSTANT AttendanceRequest   \* the calls, each made at most once

VARIABLE checkIn

attendanceVars == <<dbVars, auditVars, today, checkIn>>

(* The rows there are keep the key of the table and came from check-ins.   *)
ASSUME InitialAttendancesAssumption ==
  \A db \in InitialDatabases :
    /\ \A a, b \in db.attendances : a.employeeId = b.employeeId /\ a.date = b.date => a = b
    /\ \A a \in db.attendances : /\ db.attendancePeriods[a.attendancePeriodId] # None
                                  /\ a.date \notin Weekend
-----------------------------------------------------------------------------
CheckInProgress == {"lookup", "insert", "audit"}
CheckInEnded    == {"returned", "refused", "crashed"}

CheckIn == [pc: {"idle"} \cup CheckInProgress \cup CheckInEnded,
            employeeId: EmployeeId \cup {None},
            date: Day \cup {None},
            periodId: PeriodId \cup {None}]   \* the period of the record found or made

IdleCheckIn == [pc |-> "idle", employeeId |-> None, date |-> None, periodId |-> None]

CheckInInit == checkIn = [q \in AttendanceRequest |-> IdleCheckIn]

CheckInTypeOK == checkIn \in [AttendanceRequest -> CheckIn] /\ today \in Day

CheckInGoto(q, pc) == checkIn' = [checkIn EXCEPT ![q].pc = pc]
-----------------------------------------------------------------------------
(* Weekends are refused; then any active period that covers today will do. *)
PeriodsCoveringToday ==
  {p \in PeriodId : /\ attendancePeriods[p] # None
                    /\ attendancePeriods[p].isActive
                    /\ attendancePeriods[p].startDate <= today
                    /\ today <= attendancePeriods[p].endDate}

SubmitAttendance(q) ==
  /\ checkIn[q].pc = "idle"
  /\ \E e \in EmployeeId :
       \/ /\ today \in Weekend \/ PeriodsCoveringToday = {}
          /\ CheckInGoto(q, "refused")
       \/ /\ today \notin Weekend
          /\ \E p \in PeriodsCoveringToday :
               checkIn' = [checkIn EXCEPT ![q] =
                 [pc |-> "lookup", employeeId |-> e, date |-> today, periodId |-> p]]
  /\ UNCHANGED <<dbVars, auditVars, today>>

(* Faulty: a record of any day will do.                                    *)
SameDay_AnyDay(q) == {a \in attendances : a.employeeId = checkIn[q].employeeId}

(* The records of the employee on the day, whatever their period.          *)
SameDay(q) == {a \in attendances : /\ a.employeeId = checkIn[q].employeeId
                                   /\ a.date = checkIn[q].date}

FindExisting(q) ==
  /\ checkIn[q].pc = "lookup"
  /\ \/ /\ SameDay(q) = {}
        /\ CheckInGoto(q, "insert")
     \/ \E a \in SameDay(q) :
          checkIn' = [checkIn EXCEPT ![q].pc = "returned", ![q].periodId = a.attendancePeriodId]
  /\ UNCHANGED <<dbVars, auditVars, today>>

NewAttendance(q) == [employeeId |-> checkIn[q].employeeId, date |-> checkIn[q].date,
                     attendancePeriodId |-> checkIn[q].periodId]

(* Faulty: only one record per employee, day and period is kept out.       *)
InsertAttendance_KeyedByPeriod(q) ==
  /\ checkIn[q].pc = "insert"
  /\ \/ /\ NewAttendance(q) \notin attendances /\ HasParents(NewAttendance(q))
        /\ attendances' = attendances \cup {NewAttendance(q)}
        /\ CheckInGoto(q, "audit")
     \/ /\ NewAttendance(q) \in attendances \/ ~HasParents(NewAttendance(q))
        /\ CheckInGoto(q, "crashed")
        /\ UNCHANGED attendances
  /\ UNCHANGED <<employees, attendancePeriods, overtimes, reimbursements, payslips,
                 auditVars, today>>

InsertAttendance(q) ==
  /\ checkIn[q].pc = "insert"
  /\ \/ /\ SameDay(q) = {} /\ HasParents(NewAttendance(q))
        /\ attendances' = attendances \cup {NewAttendance(q)}
        /\ CheckInGoto(q, "audit")
     \/ /\ SameDay(q) # {} \/ ~HasParents(NewAttendance(q))
        /\ CheckInGoto(q, "crashed")
        /\ UNCHANGED attendances
  /\ UNCHANGED <<employees, attendancePeriods, overtimes, reimbursements, payslips,
                 auditVars, today>>

(* The UUID of the record stands for its employee and day.                 *)
AuditAttendance(q) ==
  /\ checkIn[q].pc = "audit"
  /\ LogAudit(AuditEntry("attendances", <<checkIn[q].employeeId, checkIn[q].date>>,
                         "CREATE", None, NewAttendance(q)))
  /\ CheckInGoto(q, "returned")
  /\ UNCHANGED <<dbVars, today>>

(* The process dies, or a statement fails.                                 *)
CheckInCrash(q) ==
  /\ checkIn[q].pc \in CheckInProgress
  /\ CheckInGoto(q, "crashed")
  /\ UNCHANGED <<dbVars, auditVars, today>>

CheckInStep(q) ==
  \/ FindExisting(q)
  \/ InsertAttendance(q)
  \/ AuditAttendance(q)
  \/ CheckInCrash(q)

CheckInQuiet == \A q \in AttendanceRequest : checkIn[q].pc \notin CheckInProgress
-----------------------------------------------------------------------------
(* However calls interleave, and whichever of several active periods each  *)
(* of them picked, an employee has one record a day (README, line 194:     *)
(* "One submission per day maximum"; schema key of line 202).              *)
AttendanceOncePerDay ==
  \A a, b \in attendances : a.employeeId = b.employeeId /\ a.date = b.date => a = b

(* A call that answered, whether it made the record or met one made by     *)
(* another call, leaves the employee present that day, unless employee or  *)
(* period have been deleted since (lines 57-101).                          *)
AnsweredMeansPresent ==
  \A q \in AttendanceRequest :
    checkIn[q].pc \in {"audit", "returned"} =>
      \/ \E a \in attendances : /\ a.employeeId = checkIn[q].employeeId
                                 /\ a.date = checkIn[q].date
      \/ employees[checkIn[q].employeeId] = None
      \/ attendancePeriods[checkIn[q].periodId] = None
=============================================================================
