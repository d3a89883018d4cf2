------------------------------ MODULE Database ------------------------------
(***************************************************************************)
(* The PostgreSQL tables the services share, and the statements whose      *)
(* effect is decided by the schema (prisma/schema.prisma): unique and      *)
(* foreign keys, and deletes that cascade.                                 *)
(*                                                                         *)
(* Every statement a service awaits is one atomic step: the database runs  *)
(* at READ COMMITTED, so a statement sees what is committed when it runs,  *)
(* inside a $transaction as outside.  Columns nothing below tells apart    *)
(* (names, salaries, timestamps, IP addresses) are left out.  Identifiers  *)
(* are UUIDs: a deleted row never comes back under its old one.            *)
(***************************************************************************)
EXTENDS Integers, FiniteSets

CONSTANTS EmployeeId, PeriodId, OvertimeId, ReimbursementId,
          Amount,            \* amounts of a reimbursement
          Hours,             \* hours of an overtime, in hundredths
          TimeOfDay,         \* times of day, in minutes
          Day,               \* calendar days, consecutive integers
          Weekend,           \* the Saturdays and Sundays among them
          MonthLength,       \* days of a calendar month
          None,              \* no row, or a value that is undefined
          InitialDatabases   \* the table contents a behaviour may start from

VARIABLES employees, attendancePeriods, attendances, overtimes,
          reimbursements, payslips

dbVars == <<employees, attendancePeriods, attendances, overtimes,
            reimbursements, payslips>>

EmployeeStatus      == {"ACTIVE", "INACTIVE", "TERMINATED"}
PeriodStatus        == {"ACTIVE", "CLOSED"}
OvertimeStatus      == {"PENDING", "APPROVED", "REJECTED", "CANCELLED"}
ReimbursementStatus == {"PENDING", "APPROVED", "REJECTED"}
-----------------------------------------------------------------------------
PeriodRow == [startDate: Day, endDate: Day, status: PeriodStatus,
              isActive: BOOLEAN, payrollProcessed: BOOLEAN]

(* Every attendance the code creates is PRESENT, so a row is its keys.     *)
AttendanceRow == [employeeId: EmployeeId, attendancePeriodId: PeriodId, date: Day]

OvertimeRow == [employeeId: EmployeeId, attendancePeriodId: PeriodId,
                date: Day, startTime: TimeOfDay, endTime: TimeOfDay,
                hoursWorked: Hours, status: OvertimeStatus]

ReimbursementRow == [employeeId: EmployeeId, attendancePeriodId: PeriodId,
                     amount: Amount, status: ReimbursementStatus]

(* A payslip number is a month prefix and a sequence number.               *)
PayslipNumber == [month: Int, sequence: Nat \ {0}]

(* The money columns of a payslip are functions of the records it counted: *)
(* the row keeps those, with the hours and the amounts as they were read.  *)
PayslipRow == [employeeId: EmployeeId, attendancePeriodId: PeriodId,
               payslipNumber: PayslipNumber, attendedDays: Nat,
               overtimes: SUBSET (OvertimeId \X Hours),
               reimbursements: SUBSET (ReimbursementId \X Amount)]

(* A table keyed by id maps an id without a row to None.                   *)
Table(Id, Row) == [Id -> Row \cup {None}]

ASSUME DayAssumption == /\ Day \subseteq Int
                        /\ MonthLength \in Nat \ {0}

(* There are so many UUIDs, and so many cents in a Decimal(12, 2).         *)
ASSUME FiniteAssumption == /\ IsFiniteSet(OvertimeId) /\ IsFiniteSet(ReimbursementId)
                           /\ IsFiniteSet(Amount) /\ Amount \subseteq Int

ASSUME NoneAssumption == /\ None \notin EmployeeId \cup PeriodId
                         /\ None \notin EmployeeStatus \cup PeriodRow \cup PayslipNumber
                         /\ None \notin OvertimeRow \cup ReimbursementRow
                         /\ None \notin AttendanceRow \cup PayslipRow

ASSUME InitialAssumption ==
  \A db \in InitialDatabases :
    /\ db.employees \in Table(EmployeeId, EmployeeStatus)
    /\ db.attendancePeriods \in Table(PeriodId, PeriodRow)
    /\ \A p \in PeriodId : db.attendancePeriods[p] # None =>
         ~db.attendancePeriods[p].payrollProcessed
    /\ db.attendances \subseteq AttendanceRow
    /\ IsFiniteSet(db.attendances)
    /\ db.overtimes \in Table(OvertimeId, OvertimeRow)
    /\ db.reimbursements \in Table(ReimbursementId, ReimbursementRow)

DatabaseTypeOK ==
  /\ employees \in Table(EmployeeId, EmployeeStatus)
  /\ attendancePeriods \in Table(PeriodId, PeriodRow)
  /\ attendances \subseteq AttendanceRow
  /\ IsFiniteSet(attendances)
  /\ overtimes \in Table(OvertimeId, OvertimeRow)
  /\ reimbursements \in Table(ReimbursementId, ReimbursementRow)
  /\ payslips \subseteq PayslipRow

DatabaseInit ==
  /\ \E db \in InitialDatabases :
       /\ employees = db.employees
       /\ attendancePeriods = db.attendancePeriods
       /\ attendances = db.attendances
       /\ overtimes = db.overtimes
       /\ reimbursements = db.reimbursements
  /\ payslips = {}
-----------------------------------------------------------------------------
(* Days.                                                                   *)
MonthOf(day) == day \div MonthLength

(* Faulty: the last day is left out.                                       *)
WorkingDays_EndExcluded(start, end) == {d \in Day \ Weekend : start <= d /\ d < end}

(* calculateWorkingDays: weekdays from start to end, both included.        *)
WorkingDays(start, end) == {d \in Day \ Weekend : start <= d /\ d <= end}
-----------------------------------------------------------------------------
(* Statements.                                                             *)
Without(table, ids) == [id \in DOMAIN table |-> IF id \in ids THEN None ELSE table[id]]

(* DELETE of an employee row: the children in all four tables follow.      *)
DeleteEmployee(e) ==
  LET Mine(row) == row # None /\ row.employeeId = e IN
  /\ employees' = Without(employees, {e})
  /\ attendances' = {a \in attendances : ~Mine(a)}
  /\ overtimes' = Without(overtimes, {o \in OvertimeId : Mine(overtimes[o])})
  /\ reimbursements' = Without(reimbursements, {c \in ReimbursementId : Mine(reimbursements[c])})
  /\ payslips' = {s \in payslips : ~Mine(s)}
  /\ UNCHANGED attendancePeriods

(* DELETE of a period row: the children in all four tables follow.         *)
DeletePeriod(p) ==
  LET Mine(row) == row # None /\ row.attendancePeriodId = p IN
  /\ attendancePeriods' = Without(attendancePeriods, {p})
  /\ attendances' = {a \in attendances : ~Mine(a)}
  /\ overtimes' = Without(overtimes, {o \in OvertimeId : Mine(overtimes[o])})
  /\ reimbursements' = Without(reimbursements, {c \in ReimbursementId : Mine(reimbursements[c])})
  /\ payslips' = {s \in payslips : ~Mine(s)}
  /\ UNCHANGED employees

(* The parents an insert of a child row needs (foreign keys).              *)
HasParents(row) == /\ employees[row.employeeId] # None
                   /\ attendancePeriods[row.attendancePeriodId] # None

(* Faulty: the number has no unique key.                                   *)
ConflictsWith_NumberNotUnique(s) ==
  {t \in payslips : /\ t.employeeId = s.employeeId
                    /\ t.attendancePeriodId = s.attendancePeriodId}

(* The rows that keep a new payslip out: one per employee and period, one  *)
(* per number (unique keys).                                               *)
ConflictsWith(s) ==
  {t \in payslips : \/ /\ t.employeeId = s.employeeId
                       /\ t.attendancePeriodId = s.attendancePeriodId
                    \/ t.payslipNumber = s.payslipNumber}

Paid(e, p) == \E s \in payslips : s.employeeId = e /\ s.attendancePeriodId = p
=============================================================================
