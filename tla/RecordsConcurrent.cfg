SPECIFICATION RecordsSpec
CONSTANTS
  p1 = p1
  p2 = p2
  c1 = c1
  n1 = n1
  n2 = n2
  o1 = o1
  m1 = m1
  m2 = m2
  q1 = q1
  q2 = q2
  r1 = r1
  r2 = r2
  e1 = e1
  e2 = e2
  None = None
  EmployeeId = {e1}
  PeriodId = {p1, p2}
  OvertimeId = {o1, m1, m2}
  ReimbursementId = {c1, n1}
  Amount = {1}
  Hours = {200}
  TimeOfDay = {1080, 1200}
  Day = {0, 1, 2, 3}
  Weekend = {}
  MonthLength = 10
  InitialDatabases <- MCMixed
  SeqBase = 3
  SeqCap = 8
  PayrollRequest = {r1, q2}
  Selection = {{}}
  ClaimRequest = {q1}
  NewClaimId <- MCNewClaimId
  OvertimeRequest = {q1, q2}
  OvertimeDto <- MCOvertimeDto
  NewOvertimeId <- MCNewOvertimeId
  Calendar = {1}
  PreviewRequest = {r1}
  MonthlySalary = 69
  TaxThreshold = 50
INVARIANTS
  RecordsTypeOK
  PaidOnce
  OvertimeOncePerDayPresent
PROPERTY
  OvertimeRemovalIsLogged
CHECK_DEADLOCK FALSE
