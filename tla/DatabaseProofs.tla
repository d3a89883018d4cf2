--------------------------- MODULE DatabaseProofs ---------------------------
(***************************************************************************)
(* Facts about Database, for any tables, and about NumberSequence, for any *)
(* base and width, on which the proofs about the services rest.            *)
(***************************************************************************)
EXTENDS Database, NumberSequence, FiniteSetTheorems, TLAPS

LEMMA MonthIsInteger ==
  ASSUME NEW d \in Day
  PROVE  MonthOf(d) \in Int
BY DayAssumption DEF MonthOf

LEMMA DatabaseInitTyped == DatabaseInit => DatabaseTypeOK
BY InitialAssumption DEF DatabaseInit, DatabaseTypeOK

(* Some of the attendances can be counted.                                 *)
LEMMA SomeAttendances ==
  ASSUME DatabaseTypeOK, NEW some \in SUBSET attendances
  PROVE  Cardinality(some) \in Nat
BY FS_Subset, FS_CardinalityType DEF DatabaseTypeOK

LEMMA WithoutIsTable ==
  ASSUME NEW Id, NEW Row, NEW table \in Table(Id, Row), NEW ids
  PROVE  Without(table, ids) \in Table(Id, Row)
BY DEF Table, Without

(* A DELETE and what it cascades to leave every table typed.               *)
LEMMA DeleteEmployeeTyped ==
  ASSUME DatabaseTypeOK, NEW e \in EmployeeId, DeleteEmployee(e)
  PROVE  DatabaseTypeOK'
<1>1. /\ employees' \in Table(EmployeeId, EmployeeStatus)
      /\ overtimes' \in Table(OvertimeId, OvertimeRow)
      /\ reimbursements' \in Table(ReimbursementId, ReimbursementRow)
  BY WithoutIsTable, Zenon DEF DeleteEmployee, DatabaseTypeOK
<1>2. attendances' \subseteq attendances /\ payslips' \subseteq payslips
  BY DEF DeleteEmployee
<1>3. IsFiniteSet(attendances')
  BY <1>2, FS_Subset DEF DatabaseTypeOK
<1> QED
  BY <1>1, <1>2, <1>3 DEF DeleteEmployee, DatabaseTypeOK

(* The days an employee attended in a period.                              *)
Attended(e, p) ==
  Cardinality({a \in attendances : a.employeeId = e /\ a.attendancePeriodId = p})
-----------------------------------------------------------------------------
(* The numbers of payslips and the codes of employees.                     *)

LEMMA CapIsNatural == SeqCap \in Nat
BY SequenceAssumption, Zenon

LEMMA SequenceAfterInRange ==
  ASSUME NEW n \in Int
  PROVE  SequenceAfter(n) \in Sequence
BY CapIsNatural DEF SequenceAfter, Sequence

LEMMA NextSequenceInRange ==
  ASSUME NEW numbers \in SUBSET Sequence
  PROVE  NextSequence(numbers) \subseteq Sequence
<1>1. CASE numbers = {}
  BY <1>1, CapIsNatural DEF NextSequence, Sequence
<1>2. CASE numbers # {}
  <2>1. LatestOf(numbers) \subseteq numbers
    BY Zenon DEF LatestOf
  <2>2. numbers \subseteq Int
    BY CapIsNatural DEF Sequence
  <2> QED
    BY <1>2, <2>1, <2>2, SequenceAfterInRange DEF NextSequence
<1> QED
  BY <1>1, <1>2

(* Below the width of the padding the number generated is a new one: the   *)
(* last number in text order is then the greatest.                         *)
LEMMA NextSequenceIsNew ==
  ASSUME NEW numbers \in SUBSET (1 .. SeqCap), NEW n \in NextSequence(numbers)
  PROVE  n \notin numbers
<1>1. CASE numbers = {}
  BY <1>1
<1>2. CASE numbers # {}
  <2>1. PICK latest \in LatestOf(numbers) : n = SequenceAfter(latest)
    BY <1>2 DEF NextSequence
  <2>2. \A m \in numbers : m <= latest
    <3> TAKE m \in numbers
    <3>1. TextRank(m) <= TextRank(latest) /\ latest \in numbers
      BY <2>1 DEF LatestOf
    <3>2. TextRank(m) = 2 * m /\ TextRank(latest) = 2 * latest
      BY <3>1, CapIsNatural DEF TextRank
    <3> QED
      BY <3>1, <3>2, CapIsNatural
  <2>3. n = latest + 1
    <3>1. latest \in 1 .. SeqCap
      BY <2>1 DEF LatestOf
    <3> QED
      BY <2>1, <3>1, CapIsNatural DEF SequenceAfter
  <2> QED
    BY <2>1, <2>2, <2>3, CapIsNatural DEF LatestOf
<1> QED
  BY <1>1, <1>2

LEMMA WorkingDaysCount ==
  ASSUME NEW start \in Day, NEW end \in Day, WorkingDays(start, end) # {}
  PROVE  Cardinality(WorkingDays(start, end)) \in Nat \ {0}
<1>1. IsFiniteSet(start .. end)
  BY DayAssumption, FS_Interval
<1>2. WorkingDays(start, end) \in SUBSET (start .. end)
  <2>1. \A d \in WorkingDays(start, end) : d \in start .. end
    BY DayAssumption, SMT DEF WorkingDays
  <2> QED
    BY <2>1
<1>3. IsFiniteSet(WorkingDays(start, end))
  BY <1>1, <1>2, FS_Subset
<1> QED
  BY <1>3, FS_CardinalityType, FS_EmptySet
=============================================================================
