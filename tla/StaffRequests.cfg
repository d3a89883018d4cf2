SPECIFICATION StaffSpec
CONSTANTS
  admin = admin
  u1 = u1
  v1 = v1
  v2 = v2
  v3 = v3
  e1 = e1
  n1 = n1
  n2 = n2
  n3 = n3
  q1 = q1
  q2 = q2
  q3 = q3
  root = root
  ann = ann
  bob = bob
  cat = cat
  w1 = w1
  w2 = w2
  None = None
  EmployeeId = {e1, n1, n2, n3}
  UserId = {admin, u1, v1, v2, v3}
  Name = {root, ann, bob, cat}
  Password = {w1, w2}
  EmployeeNumber = {1, 2}
  PeriodId = {}
  OvertimeId = {}
  ReimbursementId = {}
  Amount = {}
  Hours = {}
  TimeOfDay = {}
  Day = {1}
  Weekend = {}
  MonthLength = 10
  Calendar = {1}
  InitialDatabases <- MCDatabases
  InitialUsers <- MCUsers
  InitialStaff <- MCRoster
  SeqBase = 3
  SeqCap = 8
  EmployeeRequest = {q1, q2, q3}
  HireDto <- MCHireDto
  StaffDto <- MCStaffDto
  NewEmployeeId <- MCNewEmployeeId
  NewUserId <- MCNewUserId
  AuthRequest = {q1, q2, q3}
  NewAccountId <- MCNewUserId
  Crowd = 3
INVARIANTS
  StaffTypeOK
  EmailsAgree
  LoneHireSucceeds
  TokensResolve
  SomebodyMoves
PROPERTIES
  HiredWhole
  NumberHiredOnce
  HireIsLogged
  PasswordChangeIsLogged
SYMMETRY MCSymmetry
CHECK_DEADLOCK FALSE
