SPECIFICATION LifecycleSpec
CONSTANTS
  p0 = p0
  n1 = n1
  n2 = n2
  q1 = q1
  q2 = q2
  r1 = r1
  a1 = a1
  e1 = e1
  o1 = o1
  None = None
  EmployeeId = {e1}
  PeriodId <- MCPeriodId
  OvertimeId = {o1}
  ReimbursementId = {}
  Amount = {1}
  Hours = {200}
  TimeOfDay = {1080, 1200}
  Day <- MCDay
  Weekend = {3}
  MonthLength = 10
  InitialDatabases <- MCDatabases
  SeqBase = 3
  SeqCap = 8
  PayrollRequest = {q1, q2}
  Selection = {{}}
  PeriodRequest = {q1, q2}
  PeriodDto <- MCPeriodDto
  NewPeriodId <- MCNewPeriodId
  AttendanceRequest = {q1, q2, a1}
  Calendar = {1, 2}
  Crowd = 3
INVARIANTS
  LifecycleTypeOK
  AtMostOneActive
  
  ProcessedMeansPaid
  AttendanceOncePerDay
  AnsweredMeansPresent
PROPERTIES
  CreateNeverOverlaps
  RemovalLosesNoAttendance
  ProcessedPeriodStays
  RemovalIsLogged
  SalaryWithinMonth
  KeepsLedger
SYMMETRY MCSymmetry
CHECK_DEADLOCK FALSE
