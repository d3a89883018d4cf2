SPECIFICATION SerialSpec
CONSTANTS
  e1 = e1
  e2 = e2
  p1 = p1
  p2 = p2
  o1 = o1
  c1 = c1
  r1 = r1
  r2 = r2
  None = None
  EmployeeId <- MCEmployee
  PeriodId <- MCOnePeriod
  OvertimeId = {o1}
  ReimbursementId = {c1}
  Amount = {1, 2}
  Hours = {200}
  TimeOfDay = {1080, 1200}
  Day <- MCDay
  Weekend <- MCWeekend
  MonthLength = 10
  SeqBase = 3
  Selection <- MCSelection
  PayrollRequest = {r1, r2}
  InitialDatabases <- MCSingle
  SeqCap = 8
INVARIANT
  FullRunSettles
CHECK_DEADLOCK FALSE
