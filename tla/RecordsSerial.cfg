SPECIFICATION SerialRecordsSpec
CONSTANTS
  p1 = p1
  p2 = p2
  c1 = c1
  n1 = n1
  n2 = n2
  o1 = o1
  m1 = m1
  m2 = m2
  q1 = q1
  q2 = q2
  r1 = r1
  r2 = r2
  e1 = e1
  e2 = e2
  None = None
  EmployeeId = {e1}
  PeriodId = {p1}
  OvertimeId = {o1, m1, m2}
  ReimbursementId = {c1, n1, n2}
  Amount = {1, 2}
  Hours = {100, 200}
  TimeOfDay = {1080, 1200}
  Day = {0, 1, 2}
  Weekend = {}
  MonthLength = 10
  InitialDatabases <- MCAny
  SeqBase = 3
  SeqCap = 8
  PayrollRequest = {r1, r2}
  Selection = {{}}
  ClaimRequest = {q1, q2}
  NewClaimId <- MCNewClaimId
  OvertimeRequest = {q1, q2}
  OvertimeDto <- MCOvertimeDto
  NewOvertimeId <- MCNewOvertimeId
  Calendar = {1}
  PreviewRequest = {q1, q2}
  MonthlySalary = 69
  TaxThreshold = 50
INVARIANTS
  ProcessedClaimsStand
  PaidOvertimesStand
  ColumnsAddUp
PROPERTIES
  MarkPaysApproved
  PreviewForetellsPayslip
SYMMETRY MCSymmetry
CHECK_DEADLOCK FALSE
