# Verification of the payslip management system

TLA+ modules that model the services of the payslip management system (NestJS
services over PostgreSQL through Prisma), the TLC configurations that check them
on small instances, and theorems about them with proofs checked by TLAPS.
`PROJECT.json` lists components, runs, mutants, hazards, findings and theorems and
maps every definition to the lines it models.

## 1. The system

Stateless NestJS processes (README.md:274 of the repository scales them
horizontally) in front of one PostgreSQL database. A request runs one handler of
one service; between two `await`s any other request, in this process or another,
may run. All state is in the tables.

| Component | State | Operations that change it | Interacts through |
|---|---|---|---|
| Payroll (`payroll.service.ts`) | `payslips`, `payrollProcessed` of a period | `processPayroll`: look up the period, load the active employees, one transaction for each (payslip there already? attendance, overtime, claims, number, insert), mark the period if all succeeded and no list was given | reads employees, periods, attendances, overtimes, reimbursements |
| Payslip numbers (`generatePayslipNumber`) | the numbers in `payslips` | latest number of the month in text order, plus one, padded | unique key of `payslips` |
| Pay calculation (`calculateEmployeePayroll`) | none | proration, overtime pay, claims, deductions, rounding to cents | columns of a payslip |
| Attendance periods (`attendance-period.service.ts`) | `attendance_periods` | `create`, `update`, `remove` | every other table hangs on it (cascading deletes); audit |
| Attendance (`attendance.service.ts`) | `attendances` | `submitAttendance` | active period, audit |
| Reimbursements (`reimbursement.service.ts`) | `reimbursements` | submit, update, delete (employee), status (administrator) | period, audit, payroll |
| Overtimes (`overtime.service.ts`) | `overtimes` | submit, update, remove, status | period, attendance, audit, payroll |
| Employees (`employee.service.ts`) | `employees`, `users` | create (with user and code), update, remove | users, cascades, audit |
| Authentication (`auth.service.ts`, the two strategies) | `users` | register, login, change of password | users, audit |
| Payslip preview (`payslip.service.ts`) | none but an audit entry | the calculation of payroll without its row, for one employee or for all | reads what payroll reads |
| Audit log (`audit.service.ts`) | `audit_logs` | `logAudit`, errors swallowed | called by all |
| Controllers, guards, interceptors, health check, configuration, seeds | none, or `request_logs` | | |

What is hard: only the work for one employee within a payroll run, and the rows
of a hired or changed employee and its user, are written in a transaction, and
that at READ COMMITTED, so it protects what is written and nothing it read.
Everything else is check, then act, in separate statements. What really holds is
held by unique keys, by row locks and by the order of statements. Runs are long,
partial failures are logged and forgotten, a commit may go unacknowledged, a
process may die anywhere, and an administrator repeats what seemed to fail.

What makes each component correct:

* Payroll: nobody is paid twice for a period; whoever is reported as processed is
  paid; a period is marked only if everybody listed is paid, by one run, and
  nothing is issued afterwards; a run that is alone pays everyone it can.
* Pay calculation: the stored columns of a payslip add up.
* Periods: one is active at most; none overlap; dates are in order; removal takes
  no records along and is logged; a processed period stays.
* Attendance: one record per employee and day, whatever interleaves; nobody is
  paid for more days than the period has.
* Claims: paid once; no approved claim left out when a period is marked; what was
  paid stays on record.
* Overtimes: one per employee and day, of a day the employee was present; an
  approval is final, so what was paid stays as it was paid; a removal is logged.
* Employees: hired with a user or not at all; email and user's email agree;
  numbers are not shared; a hire that passed its look-ups meets no key; hires are
  logged; transactions never wait in a circle.
* Authentication: a password changes only after the change is logged; the user of
  a token is there.
* Preview: what it told is what the payslip pays if nothing changed in between.

## 2. Modules

| Module | Models | How |
|---|---|---|
| `Database` | `schema.prisma` | tables as variables (a function from ids to rows or `None`; a set of rows where the row is its key), unique and foreign keys as `ConflictsWith` and `HasParents`, cascades as `DeleteEmployee` and `DeletePeriod` |
| `Accounts` | `users`, and the columns of `employees` that `Database` leaves out | as `Database`, and for each table the uncommitted writes of open transactions, with what has to wait for them |
| `NumberSequence` | the numbering scheme of payslips and employees | numbers are integers; text order past the padded width is `TextRank`; `SeqBase`, `SeqCap` stand for 10 and 9999 |
| `PayCalculation` | the arithmetic of `payroll.service.ts` | exact integers over a common denominator, rounded where the column is stored |
| `Payroll` | `payroll.service.ts` | one record per request (`run`), one action per awaited statement, failures, and the roster statements that a run can notice |
| `PayrollLedger` | what payroll promises | abstract: entries, staff, open and settled periods |
| `Audit`, `Clock` | `audit.service.ts`, `new Date()` | best-effort insert; the day |
| `AttendancePeriods` | `attendance-period.service.ts` | one record per call (`periodCall`), one action per awaited statement |
| `Attendance` | `attendance.service.ts` | the same (`checkIn`) |
| `Reimbursements` | `reimbursement.service.ts` | the same (`claimCall`) |
| `Overtimes` | `overtime.service.ts` | the same (`overtimeCall`); times of day in minutes, hours in hundredths; `calculateHours` and `isValidOvertimeTime` as operators |
| `Employees` | `employee.service.ts` | the same (`employeeCall`), its transactions writing through `Accounts` |
| `Authentication` | `auth.service.ts`, `local.strategy.ts`, `jwt.strategy.ts` | the same (`authCall`) |
| `Preview` | `payslip.service.ts` | one record per call and employee (`previewCall`): the summary asks for all employees at once |
| `PeriodLifecycle` | periods, check-ins and payroll together | composition over one database |
| `RecordsLifecycle` | claims, overtimes, previews, payroll and departures together | composition over one database, on one day |
| `StaffLifecycle` | employees, users, tokens together | composition over one database |
| `DatabaseProofs` | lemmas about `Database` and `NumberSequence` | TLAPS |
| `PayrollProofs`, `PayCalculationProofs` | theorems about `Payroll`, `PayCalculation` | TLAPS |
| `LifecycleProofs` | theorems about `PeriodLifecycle` | TLAPS |
| `RecordsProofs`, `RecordsAloneProofs` | theorems about `RecordsLifecycle`, however requests overlap and one at a time | TLAPS |
| `StaffProofs`, `StaffAloneProofs` | theorems about `StaffLifecycle` | TLAPS |
| `MCPayroll`, `MCLifecycle`, `MCRecords`, `MCStaff` | | instances for TLC |

Correspondence. A request is a member of a constant set and is made once, with
any arguments from a small set. Its record holds what the handler's local
variables hold: in `Payroll`, `period` is the row as it was read, `listed` is
`employees`, `todo` the part the loop has not reached, `processed` those counted
in `totalProcessed` (so `processed = listed` is
`totalProcessed === employees.length`), `calculation` what the transaction has read.
`pc` names the next awaited statement, and the action of that name does what the
statement and the code up to the next `await` do. A `throw` ends at `rejected` or
`refused`; within the loop of payroll it ends the turn of the employee.
The order in which the loop visits employees is that of a query without
`orderBy`, hence any order.

The definitions whose name ends in a suffix after an underscore and whose
comment begins with "Faulty" are not part of the model: they are the mutants
against which each property is tested.

Abstractions:

* A statement is one atomic step. The insert of a payslip is the last statement of
  its transaction and is taken together with the commit: until then nobody sees
  the row, and an insert that conflicts with an uncommitted one waits for it.
  The transactions of `Employees` write two rows and await the log in between:
  their writes stand in `uncommittedUsers` and `uncommittedStaff` until the commit,
  unseen by others, and statements of others that would write the same row or
  take the same key wait.
* Money: in the state machines a payslip keeps the records it was computed from
  (days attended, overtimes, claims with the amount read). `PayCalculation` computes
  the columns from them in exact arithmetic; the doubles of the code can differ
  from it only where an amount lies within their error of half a cent. A period without a working day
  makes the rate infinite or undefined and the insert fails.
* A password stands for its hash, a token for the user id it carries; that tokens
  expire is left out.
* Ids are UUIDs and are never reused; names, texts, timestamps, IP addresses and
  the user who acts are left out. Every attendance is PRESENT, the only status the
  code writes.
* The include of a row's period in the claim queries is read with the row.
* An insert of a payslip whose columns overflow (`totalOvertimeHours` is a
  `Decimal(4, 2)`, schema.prisma:288) is one of the failures of `TransactionFails`;
  the model does not say when it happens.
* `SomebodyMoves` is about locks on rows and keys. The audit entry awaited inside the
  transactions of `Employees` (employee.service.ts:108, 284) is inserted on a second
  connection of the pool: that a pool whose connections are all held by such
  transactions makes them wait for each other until a timeout ends them is not
  modelled, nor the size of the pool. `EmployeeCrash` covers the failure it ends in.
* `Settle` of `PayrollLedger` asks only that somebody has an entry or has left, not
  that whoever was due has; who has to be paid is said by `ProcessedMeansPaid` and
  `ProcessedPaysRoster`.
* `Preview` selects days and records as `payslip.service.ts` does; the arithmetic it
  then does on them (52-77) repeats that of payroll and is not modelled apart.
* Days are integers on one calendar; server time and database dates are both UTC.
* What the DTO validators reject is never an input.
* `dbErrors` (in `run`), `auditLost`, `overlapped` and `current` are history
  variables.

## 3. Runs

All runs set `CHECK_DEADLOCK FALSE`: every request is made at most once, so a
behaviour really ends when all have been answered.

| Run | Instance | Shows |
|---|---|---|
| `PayrollConcurrent` | 2 runs, 2 employees, 1 period; roster changes, failures, crashes | `PayrollTypeOK`, `SuccessMeansPaid`, `RunsShareNobody`, `ProcessedMeansPaid`, `KeepsLedger` (refinement of `PayrollLedger`) |
| `PayrollStable` | 2 runs, 2 employees, 2 periods, roster fixed, the second period ordinary, closed, without a working day or missing | `ProcessedOnce`, `ProcessedPaysRoster`, `NoPayslipAfterMark`, `RunsEnd` |
| `PayrollSerial` | 2 runs one after the other, 2 periods of one month or a single one without a working day, roster changes, a width that may run out | `LoneRunPaysEveryone` |
| `LifecycleRequests` | 2 requests that are payroll runs, period calls or check-ins, and a third check-in, alone or interleaved, two days | whatever interleaves: `LifecycleTypeOK`, `AttendanceOncePerDay`, `AnsweredMeansPresent`, `RemovalIsLogged`, `ProcessedMeansPaid`, `KeepsLedger`; as long as requests do not overlap: `AtMostOneActive`, `DatesInOrder`, `CreateNeverOverlaps`, `RemovalLosesNoAttendance`, `ProcessedPeriodStays`, `SalaryWithinMonth` |
| `RecordsConcurrent` | 1 payroll run or preview, 1 call on claims or overtimes, and 1 request that is a second run or a second call on overtimes; 2 periods, the employee may be removed | `RecordsTypeOK`, `PaidOnce`, `OvertimeOncePerDayPresent`, `OvertimeRemovalIsLogged` |
| `RecordsSerial` | 2 payroll runs and 2 calls on claims, overtimes or previews, one at a time | `ProcessedClaimsStand`, `PaidOvertimesStand`, `MarkPaysApproved`, `PreviewForetellsPayslip`, `ColumnsAddUp` |
| `StaffRequests` | 3 requests on employees or users, alone or interleaved | whatever interleaves: `StaffTypeOK`, `HiredWhole`, `HireIsLogged`, `PasswordChangeIsLogged`, `TokensResolve`, `SomebodyMoves`; as long as requests do not overlap: `EmailsAgree`, `LoneHireSucceeds`, `NumberHiredOnce` |

Bounds. Two runs are what it takes to race for an employee, a number or the mark;
a third adds no pair that two do not have, and the theorems are for any number.
Two employees make partial success possible. Two periods of one month share a
number prefix. `SeqCap` is 8 with at most four payslips at a time, so those runs
stay within the width; `SeqBase` 3 makes 8 a width of two digits. `PayrollSerial` has
a width of 3 (`SeqBase` 2), which four payslips pass: `LoneRunPaysEveryone` has the
width as its premise, and the states beyond it are there too; that nobody is
counted for an insert refused there is the theorem `SuccessIsPaid`. Two calls make
every pair of handlers of one service meet, and a third request adds one that
changes what the first two have looked at. A period is in the database at the
start and each call may create another; so are an administrator and an employee
with the second code of its month, so that its removal leaves a gap. Two calls on
claims, overtimes or previews and two payroll runs give preview, approve, pay,
reset, change in every order that four requests allow. A request named in several
of the sets of a configuration goes to one of those services (`Made`, `Unmade`), so
one run covers each combination. A call that has ended keeps nothing of its
arguments but what a property speaks of.

`Crowd` bounds the requests made once two of them have overlapped; it is 3, the
number of requests, in the passing runs, and 0 in two violation runs, where the
counterexample needs no overlap. `Calendar` bounds the days a behaviour goes
through; `Amount`, `Hours`, `TimeOfDay`, `PeriodDto`, `OvertimeDto`, `HireDto`,
`StaffDto` and `Selection` the arguments: each kind of body a handler treats
differently is in them (a field left out, both dates, a username that is taken, an
email of somebody else). `PreviewRequest` bounds the previews. `MonthlySalary` and
`TaxThreshold` are scaled to 69 and 50, so that the tax threshold lies within what
an employee can earn and the proration does not divide evenly. Requests that may
be anything are interchangeable together with the ids of what they create, which
is the symmetry of `LifecycleRequests`, `RecordsSerial` and `StaffRequests`; none
of these states a liveness property.

Overlap. In `PeriodLifecycle` and `StaffLifecycle` a request may arrive at any
time; the history variable `overlapped` becomes true when it arrives while another
is served. The properties that begin with `~overlapped` are those that the code
keeps by checking before it acts and no key backs up: they show that the check is
right, crashes and failures included. With overlapping requests the code does not
keep them (section 5). The others hold of every interleaving.
`SerialSpec` and `SerialRecordsSpec` state the same by letting a request arrive only
when no other is being served; requests may still fail or die half-way.

Fairness. Weak fairness of the handler's own steps, per run (`PayrollFairness`):
Node resumes a handler whose awaited statement was answered, and the database
answers or fails it. No request, failure, crash or roster change is ever forced,
and a transaction that keeps failing is allowed. `RunsEnd` therefore says that no
run loops for ever; it is false of a loop that puts a failed employee back. That
calls of `StaffLifecycle` end is what `SomebodyMoves` is about: of the calls in
progress there is always one that waits for no other.

### Runs that end in a violation

* `FullRunSettles`: the comment at payroll.service.ts:85 promises the mark "if all
  employees were processed". An employee paid by an earlier run counts as failed
  ("Payslip already exists for this period", line 123), so the full run that leaves
  everybody paid does not mark the period. The runs are one after the other and the
  database fails nothing in the full run, so it takes an earlier run to have paid:
  in the trace one that dies half-way.
* `ProcessedTwice`: README.md:216, "Each period can only be processed once", holds
  for a stable roster (`ProcessedOnce` in `PayrollStable`, and a theorem), and
  fails when one run loads the roster before, another after, a change of it.
* `RemovalLosesPayslip`: "Cannot delete period with existing records"
  (attendance-period.service.ts:273) looks at attendances and overtimes. Payslips
  of a period that is not marked are deleted with it.
* `RemovalLeavesUser`: "Delete employee (user will be cascade deleted)"
  (employee.service.ts:310). The cascade goes from user to employee: the user
  stays, can log in, and keeps its email and username from whoever is hired next
  under them.
* `RecordsUnlocked`: README.md:215, "Once processed, records from that period are
  locked"; the status of a claim is not, and no handler of overtimes looks at the
  period. `ProcessedClaimsStand` and `PaidOvertimesStand` show that what was paid
  stays as it was paid, as long as requests do not overlap and the roster is stable.

## 4. Proofs

The theorems hold for every value of the constants that satisfies the assumptions
named in the modules: any number of requests, employees, periods, users, of
numbers and any padding. TLC evaluates the assumptions in the runs.

| Theorem | Module | States |
|---|---|---|
| `PayrollTypeCorrect` | `PayrollProofs` | `PayrollTypeOK` of `PayrollSpec` |
| `SuccessIsPaid` | `PayrollProofs` | `SuccessMeansPaid` of `PayrollSpec` |
| `RunsAreDisjoint` | `PayrollProofs` | `RunsShareNobody` of `PayrollSpec` |
| `MarkMeansPaid` | `PayrollProofs` | `ProcessedMeansPaid` of `PayrollSpec` |
| `OneRunMarks` | `PayrollProofs` | `ProcessedOnce` of `StableSpec` |
| `LoneRunsPay` | `PayrollProofs` | `LoneRunPaysEveryone` of `SerialSpec` |
| `MarkPaysRoster` | `PayrollProofs` | `ProcessedPaysRoster` of `StableSpec` |
| `NothingIssuedAfterMark` | `PayrollProofs` | `NoPayslipAfterMark` of `StableSpec` |
| `PayrollImplementsLedger` | `PayrollProofs` | `KeepsLedger` of `PayrollSpec` |
| `PayslipAddsUp` | `PayCalculationProofs` | `AddUp` of every gross pay, in a period with a working day |
| `LifecycleTypeCorrect` | `LifecycleProofs` | `LifecycleTypeOK` of `LifecycleSpec` |
| `OneRecordADay` | `LifecycleProofs` | `AttendanceOncePerDay` of `LifecycleSpec` |
| `AnsweredArePresent` | `LifecycleProofs` | `AnsweredMeansPresent` of `LifecycleSpec` |
| `MarkMeansPaidInLifecycle` | `LifecycleProofs` | `ProcessedMeansPaid` of `LifecycleSpec` |
| `RemovalsAreLogged` | `LifecycleProofs` | `RemovalIsLogged` of `LifecycleSpec` |
| `LifecycleImplementsLedger` | `LifecycleProofs` | `KeepsLedger` of `LifecycleSpec` |
| `OneActivePeriod` | `LifecycleProofs` | `AtMostOneActive` of `LifecycleSpec` |
| `PeriodsInOrder` | `LifecycleProofs` | `DatesInOrder` of `LifecycleSpec` |
| `NewPeriodsAreApart` | `LifecycleProofs` | `CreateNeverOverlaps` of `LifecycleSpec` |
| `RemovalsTakeNothing` | `LifecycleProofs` | `RemovalLosesNoAttendance` of `LifecycleSpec` |
| `ProcessedPeriodsStay` | `LifecycleProofs` | `ProcessedPeriodStays` of `LifecycleSpec` |
| `SalariesWithinMonth` | `LifecycleProofs` | `SalaryWithinMonth` of `LifecycleSpec` |
| `RecordsTypeCorrect` | `RecordsProofs` | `RecordsTypeOK` of `RecordsSpec` |
| `NothingPaidTwice` | `RecordsProofs` | `PaidOnce` of `RecordsSpec` |
| `OneOvertimeOfADay` | `RecordsProofs` | `OvertimeOncePerDayPresent` of `RecordsSpec` |
| `NoUnloggedRemoval` | `RecordsProofs` | `OvertimeRemovalIsLogged` of `RecordsSpec` |
| `PayslipColumnsAddUp` | `RecordsProofs` | `ColumnsAddUp` of `RecordsSpec` |
| `MarkMeansPaidWithRecords` | `RecordsProofs` | `ProcessedMeansPaid` of `RecordsSpec` |
| `RecordsImplementLedger` | `RecordsProofs` | `KeepsLedger` of `RecordsSpec` |
| `PaidOvertimesAreFinal` | `RecordsAloneProofs` | `PaidOvertimesStand` of `SerialRecordsSpec` |
| `PaidClaimsStand` | `RecordsAloneProofs` | `ProcessedClaimsStand` of `SerialRecordsSpec` |
| `MarkPaysAllApproved` | `RecordsAloneProofs` | `MarkPaysApproved` of `SerialRecordsSpec` |
| `PreviewsForetell` | `RecordsAloneProofs` | `PreviewForetellsPayslip` of `SerialRecordsSpec` |
| `StaffTypeCorrect` | `StaffProofs` | `StaffTypeOK` of `StaffSpec` |
| `TokensStayValid` | `StaffProofs` | `TokensResolve` of `StaffSpec` |
| `NoCircle` | `StaffProofs` | `SomebodyMoves` of `StaffSpec` |
| `PasswordsChangeLogged` | `StaffProofs` | `PasswordChangeIsLogged` of `StaffSpec` |
| `HiresAreLogged` | `StaffProofs` | `HireIsLogged` of `StaffSpec` |
| `HiresAreWhole` | `StaffProofs` | `HiredWhole` of `StaffSpec` |
| `EmailsStayEqual` | `StaffAloneProofs` | `EmailsAgree` of `StaffSpec` |
| `LoneHiresSucceed` | `StaffAloneProofs` | `LoneHireSucceeds` of `StaffSpec` |
| `NumbersHiredOnce` | `StaffAloneProofs` | `NumberHiredOnce` of `StaffSpec` |

Payroll. The types alone are not inductive: that `NewPayslip` is a row
needs the calculation to be there and its number to be generated when a run is at
`create`, and that `listed`, `todo` and `processed` fit together is what makes the
test at the end of the loop mean anything. `RunShape` says this of each run (a
run in the loop read an existing period; a calculation is there exactly within a
transaction, for an employee still in `todo`; `processed` and `todo` are disjoint
parts of `listed`). `PayrollInv` adds the relation between runs and rows: who is
counted is paid or gone, two runs of a period share nobody, a marked period has a
run that marked it. Disjointness follows at the step that counts an employee: the
insert succeeds only if no row of the pair exists, whereas an employee counted by
another run has one. For the stable roster `ListsRoster` adds that whatever a run
past loading listed without a list given is the set of active employees: a run
that marks has counted them all, two such runs would share them, and a run still
in its loop finds everybody paid. The refinement maps each action to one step of
the ledger or to a stutter; `Issue` follows from the unique keys and from the
lemmas that a generated number can be written (`NextSequence` stays within
`Sequence`).

Runs one after the other. That a run which is alone leaves nobody unpaid rests on
three things that `LoneRunInv` ties together: one run is in progress at most
(`OneRun`); whom it works for is not paid and, once it has a number, nobody has that
number (`LoneNumbers`), because below the padded width the last number in text order
is the greatest (`NumberIsFree`) and no other run inserts meanwhile; so every turn of
the loop ends with the employee paid, gone, or in `dbErrors` (`LoneTurns`). The
invariant needs the numbers to fit in every state passed through, not in the last one
alone: a departure deletes payslips, so numbers that fit at the end may have been past
the width when a run met them. That is why `LoneRunPaysEveryone` is a temporal formula.

Periods, check-ins and payroll together. `LifecycleInv` holds of every interleaving.
The steps of payroll runs are steps of `Payroll`, so its invariant and lemmas carry
over (`PaymentsOK`); what remains is that the other steps disturb none of it. The
delicate one is a creation: it makes a period that no run may have met.
`PendingUnknown` says so of the id of each creation still to be written (no row, no
check-in, and no run but one that was rejected), `CallShape` that a call about to
insert will write exactly that id. `AttendancesOK` is the unique key and that no
record outlives its period; `AnswersHold` ties an answered check-in to the record of
the period it remembers, which the cascade of a removal takes together; and
`RemovalsLogged` says what a call about to delete has handed to the log. `AloneInv`
holds beside it and says what is known as long as requests do not overlap:
`OneAtATime`, and that what the call in progress looked at is still so when it writes
(`StillSo`: no unclosed period on the days of a creation, no other active one once
they are deactivated, no refusal of an update, no attendance and no overtime of a
period about to go) and what the run counted is still the count (`CountStillSo`).
Its conjuncts about `overlapped` are what makes it inductive: the first step of a
second request sets the flag for good. The salary theorem adds that the dates of one
employee's records are distinct, so there are no more of them than days
(`RecordsFitDays`). Both rest on databases that these handlers could have left:
`InitialAttendancesAssumption` (keys kept, no record without its period or on a
weekend) and `InitialPeriodsAssumption` (dates in order, at most one active).

Claims, overtimes, previews and payroll together. `ShapeInv` says what is set at
which point of each call. That nothing is paid twice cannot be read off the payslips:
a run reads its lists several statements before it inserts them, and rows are
changed and deleted meanwhile. `PaidInv` therefore speaks of the lists of `Entries`,
the payslips there are and those that runs still hold. `ListsAgree`: two lists that
name one record are of one employee and period, and of those of the record for as
long as it is there, for no handler changes either; a list just read (`Fresh`) joins
without breaking this. `ClaimListsUnknown` and `OvertimeListsUnknown` say that an id a
submission has still to insert has no row and is in no list, so that a new row never
appears under an id that was paid. With the unique key of employee and period
(`PayslipKeys`) two payslips with one record are then one. `DaysInv` holds beside
it: whoever is about to insert an overtime has an attendance of the day as long as
the employee is there (`CheckedMeansPresent`: attendances leave with their employee),
the insert is refused when the day has an overtime or the employee is gone, and a
call about to delete has handed the entry to the log (`RemovalsLogged`).
`InitialOvertimesAssumption` asks the same of the overtimes there are at first.

The columns. `PayslipAddsUp` is arithmetic: two roundings of two parts and one of
their sum differ by a cent at most, whatever the gross pay, as long as it is a whole
number of the parts of a cent and the period has a working day. Both are facts about
the system. `ColumnsInv` carries the second: a run has the dates of its period right
and the insert is refused when they hold no working day, and nothing in this
composition removes a period or moves its dates. The first is that a sum over a finite
set of records with whole seconds is whole (`TotalIsWhole`). A fold is defined by
recursion over the subsets of the set, so its proof is an induction: a smallest
subset on which the claim fails (`SmallestSubset`, from the well-foundedness of strict
inclusion) has one element fewer to fail on. `SumsExist` shows so that the recursive
equation has a solution at all, `SumsAreWhole` that every solution is whole.
`FiniteAssumption` makes the lists finite: there are finitely many UUIDs and finitely
many amounts in a `Decimal(12, 2)`.

Records, one request at a time. `SerialInv` adds to `PaidInv` and to the invariant of
the stable roster what is known when requests do not overlap. `OneServed`: one run or
one call is served at a time. `CallsHold`: what a call found when it began (an overtime
not approved, a claim of a period not processed) is still so when it writes.
`RunsHold`: what a run has read for the employee at hand, and what it inserted for
those it counted, is what the tables say now (`OvertimesDue`, `ClaimsDue`,
`Attended`); this is what makes the mark mean that all that was approved is paid,
since a run that marks has counted every active employee itself. `PreviewsHold`: the
same for the parts of a preview that no change of a record has overtaken, which is
where preview and payroll are shown to select the same records. With these
`PaidOvertimesStand` and `ProcessedClaimsStand` are inductive. `OneServed`,
`CallsHold`, `RunsHold` and `PreviewsHold` were checked by TLC as invariants of the
instance of `RecordsSerial` before they were proved.

Staff. `StaffInv` holds of every interleaving. `EmployeeShape` and `AuthShape` say
which fields of a call are set at which point. `FreshUsers`: the id a create or a
registration draws has no row until it writes it, since ids are drawn once
(`UuidAssumption`). `UserLocks` and `StaffLocks`: an uncommitted write belongs to a
call that is past the statement that made it, no two are of one row, and a
transaction that has the employee's row has made its write. `LoggedFirst`: what is
about to be written has been handed to the log. `HiredWhole` follows at the commit,
which is the only step that makes an employee. `SomebodyMoves` follows from the
order of the statements: a call past both writes waits for nothing, a call at the
employee's row waits at most for one of those, and every other call waits at most
for one that has written the user. `LoneInv` adds what is known as long as
requests do not overlap: one call is served at a time, so what its look-ups found
still holds when it writes (`LoneCreate`, `LoneUpdate`), and every employee has a
user of its own with its email (`Linked`). That the code generated is free needs
`NextSequenceIsNew`: below the padded width the last number in text order is the
greatest.

Only model-checked: `RunsEnd`, liveness under fairness, which is out of the prover's
reach; every other property of the passing runs is stated by a theorem.

## 5. Observations

Seen while modelling and not given a run of their own.

Races between a check and the act it was made for. For each, TLC finds the property
named violated when it is stated without `~overlapped` or, for claims and
overtimes, checked with `RecordsSpec`, that is, with requests that overlap:

* Two active periods (`AtMostOneActive`): a create of an active period and an
  activation of another both deactivate the others before either writes
  (attendance-period.service.ts:64-70, 201-210).
* Overlapping periods (`CreateNeverOverlaps`): two creates of one range both find
  nothing (39) and both insert (70).
* Crossed dates (`DatesInOrder`): two updates of one date each, in order with the row
  both have read (190-210).
* A processed period changed or removed (`ProcessedPeriodStays`): a payroll run marks
  it between the check of an update or removal and its write (181-210, 255-286).
* Records removed with their period (`RemovalLosesNoAttendance`): a check-in between
  the look-ups of a removal and its delete (259-286).
* A paid claim changed or withdrawn (`ProcessedClaimsStand`): it is approved and paid
  between the read and the write (reimbursement.service.ts:283-309, 395-412).
* A paid overtime changed, removed or rejected (`PaidOvertimesStand`): the same
  (overtime.service.ts:290-360, 408-433, 442-459).
* An approved claim never paid (`MarkPaysApproved`): it is approved after the run has
  read the employee's claims and before it marks the period
  (payroll.service.ts:219, 88).
* Employee and user with different emails (`EmailsAgree`): of two updates one changes
  the email and the other sends the old one, which it takes for unchanged
  (employee.service.ts:253).
* One number, two employees (`NumberHiredOnce`): two creates both find nothing (46);
  employee numbers have no key, and an update does not look at all (215-247).

From one line or one request:

* An update of a period's dates is not checked for overlaps, only create is; nor
  for the days already checked in, so that an employee may have attended more days
  than the period has and be paid more than the monthly salary
  (payroll.service.ts:197). `SalaryWithinMonth` has this as its premise.
* The update of a period logs the columns of the row it just wrote as the old
  values (229-237); so does the update of an employee (employee.service.ts:288).
* A check-in looks neither at `payrollProcessed` nor at `status` of the active
  period (attendance.service.ts:43-49).
* The last day of a period is refused for claims: the end date is a midnight
  (reimbursement.service.ts:95); `Submittable` models the comparison as it is made.
* The withdrawal of a claim is logged after the delete (412-437): a crash in between
  leaves no trace of it. Periods and overtimes log first, which is what
  `RemovalIsLogged` and `OvertimeRemovalIsLogged` are about.
* `logAudit` catches its errors (audit.service.ts:32). The properties of the log
  say that an entry was handed over before the change; one that was swallowed
  counts as handed over.
* `isValidOvertimeTime` compares hours only (519-524): a range that ends at 08:59 is
  outside working hours by it, against the comment above it. An update that gives
  only some of start, end and hours is not checked (307-311): the hours paid need
  not match the times. An overtime can be approved after the period was processed
  and is then never paid.
* Past 9999 payslips with one prefix the latest number in text order is not the
  latest, and every further insert fails (418-426). `LoneRunPaysEveryone` has the
  width, in every state passed through, as its premise; `LoneHireSucceeds` has it too (`CodesFit`), for employee codes.
* README.md:203 states double pay for overtime, the code pays 1.5 times
  (payroll.service.ts:215). Net pay is not monotone: a gross pay just above the tax
  threshold leaves less than one at it.
* A removed employee's user keeps its email and username: hiring the person again
  under either is refused (32-43).
* A password change checks the role of the user named and writes the password of
  the caller (auth.service.ts:111, 142); its entry logs the old password of the
  one and the new one of the other.
* A preview logs a payslip that does not exist (payslip.service.ts, the audit entry
  of `generatePayslip`); the summary of all employees fails as a whole if one
  part of it fails.

## 6. What is left

Not modelled: guards by role, validation pipes, response formatting, exception
filters and the request log (`request_logs` is written once per request and read by
nothing), documentation decorators, health check, configuration and seeds are
stateless or run once. The listings, reports and summaries of the services only
read; of them the summary of previews is modelled, since it runs its parts
concurrently. That server time and database dates could be on different calendars
is not modelled: the container runs in UTC.

Worth proving next: that the serial properties hold also while the roster changes
between requests, of which the theorems about `SerialRecordsSpec` say nothing. Worth modelling
next: a roster that grows under a payroll run (in `Payroll` it changes and shrinks, in
`StaffLifecycle` it grows without payroll).
