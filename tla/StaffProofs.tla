----------------------------- MODULE StaffProofs -----------------------------
(***************************************************************************)
(* Theorems about StaffLifecycle, for any numbers of requests, employees,  *)
(* users, names, passwords and codes, and any bodies of requests.          *)
(***************************************************************************)
EXTENDS StaffLifecycle, DatabaseProofs, TLAPS

(* The statements from which on a transaction holds a row of the tables.   *)
HoldsUser  == {"employee", "audit", "commit"}
HoldsStaff == {"audit", "commit"}

(* What holds of one call by itself: which fields are set at which point.  *)
EmployeeShape(q, c) ==
  /\ c.pc \in EmployeeInProgress => c.employeeId \in EmployeeId
  /\ c.pc \notin EmployeeInProgress => c.op = None
  /\ c.pc \in {"employeeCheck", "code"} => c.op = "create"
  /\ c.pc = "emailCheck" => c.op = "update"
  /\ c.pc \in InTransaction => c.op \in {"create", "update"}
  /\ c.pc \in {"delete", "auditRemoval"} => c.op = "remove"
  /\ c.op = "create" => /\ c.dto \in HireDto
                        /\ c.employeeId = NewEmployeeId[q]
                        /\ c.userId = NewUserId[q]
                        /\ c.pc \in InTransaction => c.employeeCode \in PayslipNumber
  /\ c.op = "update" => /\ c.dto \in StaffDto
                        /\ c.userId \in UserId
                        /\ c.pc \in {"emailCheck", "user"} => c.dto.email # None

(* The same of a call of Authentication, over the users in `table'.        *)
AuthShape(q, c, table) ==
  /\ c.pc = "idle" => c.op = None
  /\ c.pc = "insert" => c.op = "register"
  /\ c.pc = "verify" => c.op = "login"
  /\ c.pc = "write" => c.op = "changePassword"
  /\ c.pc = "audit" => c.op \in {"register", "login", "changePassword"}
  /\ c.op = "register" => /\ c.userId = NewAccountId[q]
                          /\ c.email \in Name
                          /\ c.password \in Password
                          /\ c.pc \in {"insert", "audit"}
  /\ c.op = "login" /\ c.pc # "verify" => c.userId \in UserId /\ table[c.userId] # None
  /\ c.op = "changePassword" => /\ c.userId \in UserId /\ table[c.userId] # None
                                /\ c.password \in Password
                                /\ c.old \in Password
                                /\ c.pc \in {"audit", "write"}

CallsOK ==
  /\ \A q \in EmployeeRequest : EmployeeShape(q, employeeCall[q])
  /\ \A q \in AuthRequest : AuthShape(q, authCall[q], users)

(* A request is made to one service.                                       *)
MadeOnce ==
  \A q \in EmployeeRequest \cap AuthRequest :
    employeeCall[q].pc = "idle" \/ authCall[q].pc = "idle"

(* The two parts of the employees table have the same rows.                *)
SameRoster == \A e \in EmployeeId : employees[e] = None <=> staff[e] = None

(* The user a create or a registration is to insert is not there yet.      *)
FreshUsers ==
  /\ \A q \in EmployeeRequest :
       ~Made(q) \/ employeeCall[q].op = "create" => users[NewUserId[q]] = None
  /\ \A q \in AuthRequest :
       ~Made(q) \/ authCall[q].pc = "insert" => users[NewAccountId[q]] = None

(* A row is written by one open transaction, a transaction writes one row  *)
(* of a table, and the writes of an update are of rows that are there.     *)
UserLocks ==
  /\ \A w \in uncommittedUsers :
       /\ w.by \in EmployeeRequest
       /\ employeeCall[w.by].pc \in HoldsUser
       /\ w.id = employeeCall[w.by].userId
       /\ employeeCall[w.by].op = "update" =>
            users[w.id] # None /\ w.row.password = users[w.id].password
  /\ \A w, v \in uncommittedUsers : w.by = v.by \/ w.id = v.id => w = v
  /\ \A q \in EmployeeRequest :
       employeeCall[q].op = "create" /\ employeeCall[q].pc \in HoldsUser =>
         \E w \in uncommittedUsers : w.by = q

StaffLocks ==
  /\ \A w \in uncommittedStaff :
       /\ w.by \in EmployeeRequest
       /\ employeeCall[w.by].pc \in HoldsStaff
       /\ w.id = employeeCall[w.by].employeeId
       /\ employeeCall[w.by].op = "update" => staff[w.id] # None
       /\ employeeCall[w.by].op = "create" => w.row.userId = employeeCall[w.by].userId
  /\ \A w, v \in uncommittedStaff : w.by = v.by => w = v
  /\ \A q \in EmployeeRequest :
       employeeCall[q].pc \in HoldsStaff => \E w \in uncommittedStaff : w.by = q

(* What is about to be written has been handed to the log.                 *)
LoggedFirst ==
  /\ \A q \in AuthRequest : authCall[q].pc = "write" =>
       Logged(PasswordEntry(authCall[q].userId, authCall[q].old, authCall[q].password))
  /\ \A w \in uncommittedStaff :
       employeeCall[w.by].op = "create" /\ employeeCall[w.by].pc = "commit" =>
         Logged(AuditEntry("employee", w.id, "CREATE", None, w.row))

Typed == StaffTypeOK /\ today \in Calendar

StaffInv == /\ Typed
            /\ CallsOK
            /\ MadeOnce
            /\ SameRoster
            /\ FreshUsers
            /\ UserLocks
            /\ StaffLocks
            /\ LoggedFirst
-----------------------------------------------------------------------------
(* The initial states.                                                     *)

LEMMA StaffInvInit == StaffInit => StaffInv
<1> SUFFICES ASSUME StaffInit
             PROVE  StaffInv
  OBVIOUS
<1> USE DEF StaffInit
<1>1. DatabaseTypeOK
  BY DatabaseInitTyped
<1>2. AccountTypeOK
  BY AccountAssumption DEF AccountInit, AccountTypeOK
<1>3. IdleEmployeeCall \in EmployeeCall /\ \A q : EmployeeShape(q, IdleEmployeeCall)
  BY NewEmployeeAssumption
  DEF IdleEmployeeCall, EmployeeCall, EmployeeShape, EmployeeInProgress, InTransaction
<1>4. IdleAuthCall \in AuthCall /\ \A q : AuthShape(q, IdleAuthCall, users)
  BY NewAccountAssumption DEF IdleAuthCall, AuthCall, AuthShape
<1>5. EmployeeTypeOK /\ AuthTypeOK /\ CallsOK
  BY <1>3, <1>4 DEF EmployeeTypeOK, AuthTypeOK, EmployeeInit, AuthInit, CallsOK
<1>6. Typed
  BY <1>1, <1>2, <1>5 DEF Typed, StaffTypeOK, ClockInit
<1>7. MadeOnce
  BY DEF MadeOnce, EmployeeInit, IdleEmployeeCall
<1>8. SameRoster
  BY AccountAssumption DEF SameRoster, AccountInit, DatabaseInit
<1>9. FreshUsers
  BY NewEmployeeAssumption, NewAccountAssumption DEF FreshUsers, AccountInit
<1>10. UserLocks /\ StaffLocks
  BY DEF UserLocks, StaffLocks, AccountInit, EmployeeInit, IdleEmployeeCall, HoldsUser, HoldsStaff
<1>11. LoggedFirst
  BY DEF LoggedFirst, AccountInit, AuthInit, IdleAuthCall
<1> QED
  BY <1>5, <1>6, <1>7, <1>8, <1>9, <1>10, <1>11 DEF StaffInv
-----------------------------------------------------------------------------
(* Steps that change one call and nothing a transaction has written.       *)

LogKept == auditLog \cup auditLost \subseteq auditLog' \cup auditLost'

LEMMA LogGrows ==
  ASSUME NEW entry, LogAudit(entry)
  PROVE  LogKept /\ Logged(entry)'
BY DEF LogAudit, LogKept, Logged

(* x may take the place of the call of q: it holds the same rows, and a    *)
(* request that was not made before is made to this service only.          *)
Takes(q, x) ==
  LET c == employeeCall[q] IN
  /\ x \in EmployeeCall
  /\ EmployeeShape(q, x)
  /\ c.pc = "idle" => ~Made(q)
  /\ x.pc # "idle"
  /\ x.op = "create" => c.op = "create" \/ c.pc = "idle"
  /\ x.op = "update" => c.op = "update" \/ c.pc = "idle"
  /\ c.pc \in HoldsUser => /\ x.pc \in HoldsUser
                           /\ x.op = c.op /\ x.userId = c.userId
                           /\ x.employeeId = c.employeeId
  /\ x.op = "create" /\ x.pc \in HoldsUser => c.pc \in HoldsUser
  /\ c.pc \in HoldsStaff <=> x.pc \in HoldsStaff

LEMMA EmployeeMoves ==
  ASSUME StaffInv, NEW q \in EmployeeRequest, NEW x, Takes(q, x),
         employeeCall' = [employeeCall EXCEPT ![q] = x],
         UNCHANGED <<dbVars, accountVars, today, authCall>>,
         overlapped' \in BOOLEAN,
         LogKept,
         \A w \in uncommittedStaff :
           w.by = q /\ x.op = "create" /\ x.pc = "commit" =>
             Logged(AuditEntry("employee", w.id, "CREATE", None, w.row))'
  PROVE  StaffInv'
<1> USE DEF StaffInv, Takes, accountVars
<1>0. /\ employeeCall \in [EmployeeRequest -> EmployeeCall]
      /\ employeeCall'[q] = x
      /\ \A r \in EmployeeRequest \ {q} : employeeCall'[r] = employeeCall[r]
      /\ EmployeeShape(q, employeeCall[q])
  BY DEF Typed, StaffTypeOK, EmployeeTypeOK, CallsOK
<1>1. Typed'
  BY <1>0 DEF Typed, StaffTypeOK, EmployeeTypeOK, AuthTypeOK, AccountTypeOK, DatabaseTypeOK, dbVars
<1>2. CallsOK'
  BY <1>0 DEF CallsOK
<1>3. MadeOnce'
  BY <1>0 DEF MadeOnce, Made
<1>4. SameRoster'
  BY DEF SameRoster, dbVars
<1>5. FreshUsers'
  BY <1>0 DEF FreshUsers, Made
<1>6. UserLocks'
  <2>1. ASSUME NEW w \in uncommittedUsers
        PROVE  /\ employeeCall'[w.by].pc \in HoldsUser
               /\ w.id = employeeCall'[w.by].userId
               /\ employeeCall'[w.by].op = employeeCall[w.by].op
    BY <1>0 DEF UserLocks
  <2>2. \A r \in EmployeeRequest :
          employeeCall'[r].op = "create" /\ employeeCall'[r].pc \in HoldsUser =>
            \E w \in uncommittedUsers : w.by = r
    BY <1>0 DEF UserLocks, HoldsUser
  <2> QED
    BY <2>1, <2>2 DEF UserLocks
<1>7. StaffLocks'
  <2>1. ASSUME NEW w \in uncommittedStaff
        PROVE  /\ employeeCall'[w.by].pc \in HoldsStaff
               /\ w.id = employeeCall'[w.by].employeeId
               /\ employeeCall'[w.by].op = employeeCall[w.by].op
               /\ employeeCall'[w.by].userId = employeeCall[w.by].userId
    BY <1>0 DEF StaffLocks, HoldsStaff, HoldsUser
  <2>2. \A r \in EmployeeRequest :
          employeeCall'[r].pc \in HoldsStaff => \E w \in uncommittedStaff : w.by = r
    BY <1>0 DEF StaffLocks
  <2> QED
    BY <2>1, <2>2 DEF StaffLocks
<1>8. LoggedFirst'
  BY <1>0 DEF LoggedFirst, LogKept, Logged, StaffLocks
<1> QED
  BY <1>1, <1>2, <1>3, <1>4, <1>5, <1>6, <1>7, <1>8

LEMMA EndedTakes ==
  ASSUME NEW q \in EmployeeRequest, employeeCall[q].pc \notin HoldsUser,
         employeeCall[q].pc = "idle" => ~Made(q),
         NEW how \in EmployeeEnded
  PROVE  Takes(q, [IdleEmployeeCall EXCEPT !.pc = how])
BY NewEmployeeAssumption
DEF Takes, IdleEmployeeCall, EmployeeCall, EmployeeShape, EmployeeInProgress, InTransaction,
    EmployeeEnded, HoldsUser, HoldsStaff

(* Steps of q that write no table and no entry.                            *)
LEMMA QuietEmployeeStep ==
  ASSUME StaffInv, NEW q \in EmployeeRequest, NEW x, Takes(q, x),
         employeeCall' = [employeeCall EXCEPT ![q] = x],
         UNCHANGED <<dbVars, auditVars, accountVars, today, authCall>>,
         overlapped' \in BOOLEAN,
         x.pc # "commit"
  PROVE  StaffInv'
<1>1. LogKept
  BY DEF LogKept, auditVars
<1> QED
  BY <1>1, EmployeeMoves

LEMMA EmployeeStartOK ==
  ASSUME StaffInv, NEW q \in EmployeeRequest, ~Made(q), EmployeeStart(q),
         UNCHANGED <<today, authCall>>, overlapped' \in BOOLEAN
  PROVE  StaffInv'
<1>1. /\ employeeCall[q].pc = "idle" /\ employeeCall[q] \in EmployeeCall
      /\ UNCHANGED <<dbVars, auditVars, accountVars>>
  BY DEF StaffInv, Typed, StaffTypeOK, EmployeeTypeOK, EmployeeStart, CreateEmployee,
         UpdateEmployee, RemoveEmployee
<1>2. ASSUME NEW how \in EmployeeEnded, EmployeeEnds(q, how)
      PROVE  StaffInv'
  <2>1. Takes(q, [IdleEmployeeCall EXCEPT !.pc = how])
    BY <1>1, EndedTakes DEF HoldsUser
  <2> QED
    BY <1>1, <1>2, <2>1, QuietEmployeeStep
    DEF EmployeeEnds, IdleEmployeeCall, EmployeeEnded
<1>3. CASE CreateEmployee(q)
  <2>1. PICK dto \in HireDto :
          \/ EmployeeEnds(q, "refused")
          \/ employeeCall' = [employeeCall EXCEPT ![q] =
               [IdleEmployeeCall EXCEPT !.pc = "employeeCheck", !.op = "create", !.dto = dto,
                  !.employeeId = NewEmployeeId[q], !.userId = NewUserId[q]]]
    BY <1>3 DEF CreateEmployee
  <2> DEFINE x == [IdleEmployeeCall EXCEPT !.pc = "employeeCheck", !.op = "create", !.dto = dto,
                     !.employeeId = NewEmployeeId[q], !.userId = NewUserId[q]]
  <2>2. Takes(q, x)
    BY <1>1, NewEmployeeAssumption
    DEF Takes, IdleEmployeeCall, EmployeeCall, EmployeeShape, EmployeeInProgress, InTransaction,
        HoldsUser, HoldsStaff
  <2> QED
    BY <1>1, <1>2, <2>1, <2>2, QuietEmployeeStep DEF IdleEmployeeCall, EmployeeEnded
<1>4. CASE UpdateEmployee(q)
  <2>1. PICK e \in EmployeeId, dto \in StaffDto :
          \/ EmployeeEnds(q, "refused")
          \/ /\ staff[e] # None
             /\ employeeCall' = [employeeCall EXCEPT ![q] =
                  [IdleEmployeeCall EXCEPT !.op = "update", !.dto = dto, !.employeeId = e,
                     !.userId = staff[e].userId,
                     !.pc = IF dto.email \in {None, staff[e].email}
                            THEN "employee" ELSE "emailCheck"]]
    BY <1>4 DEF UpdateEmployee
  <2> DEFINE x == [IdleEmployeeCall EXCEPT !.op = "update", !.dto = dto, !.employeeId = e,
                     !.userId = staff[e].userId,
                     !.pc = IF dto.email \in {None, staff[e].email}
                            THEN "employee" ELSE "emailCheck"]
  <2>2. staff[e] # None => Takes(q, x) /\ x.pc # "commit"
    <3>1. staff[e] # None => staff[e].userId \in UserId
      BY DEF StaffInv, Typed, StaffTypeOK, AccountTypeOK, Table, StaffRow
    <3> QED
      BY <1>1, <3>1
      DEF Takes, IdleEmployeeCall, EmployeeCall, EmployeeShape, EmployeeInProgress, InTransaction,
          HoldsUser, HoldsStaff
  <2> QED
    BY <1>1, <1>2, <2>1, <2>2, QuietEmployeeStep DEF EmployeeEnded
<1>5. CASE RemoveEmployee(q)
  <2>1. PICK e \in EmployeeId :
          \/ EmployeeEnds(q, "refused")
          \/ employeeCall' = [employeeCall EXCEPT ![q] =
               [IdleEmployeeCall EXCEPT !.pc = "delete", !.op = "remove", !.employeeId = e]]
    BY <1>5 DEF RemoveEmployee
  <2>2. Takes(q, [IdleEmployeeCall EXCEPT !.pc = "delete", !.op = "remove", !.employeeId = e])
    BY <1>1
    DEF Takes, IdleEmployeeCall, EmployeeCall, EmployeeShape, EmployeeInProgress, InTransaction,
        HoldsUser, HoldsStaff
  <2> QED
    BY <1>1, <1>2, <2>1, <2>2, QuietEmployeeStep DEF IdleEmployeeCall, EmployeeEnded
<1> QED
  BY <1>3, <1>4, <1>5 DEF EmployeeStart
-----------------------------------------------------------------------------
(* The look-ups and the entries of an employee call.                       *)

(* The call of q is at pc: what is known of it.                            *)
LEMMA CallKnown ==
  ASSUME StaffInv, NEW q \in EmployeeRequest
  PROVE  employeeCall[q] \in EmployeeCall /\ EmployeeShape(q, employeeCall[q])
BY DEF StaffInv, Typed, StaffTypeOK, EmployeeTypeOK, CallsOK

LEMMA LookUpOK ==
  ASSUME StaffInv, NEW q \in EmployeeRequest, UNCHANGED <<today, authCall, overlapped>>,
         CheckEmployee(q) \/ GenerateEmployeeCode(q) \/ CheckEmail(q)
  PROVE  StaffInv'
<1> DEFINE c == employeeCall[q]
<1>1. /\ c.pc \in {"employeeCheck", "code", "emailCheck"}
      /\ UNCHANGED <<dbVars, auditVars, accountVars>>
      /\ overlapped' \in BOOLEAN
  BY DEF CheckEmployee, GenerateEmployeeCode, CheckEmail, StaffInv, Typed, StaffTypeOK
<1>2. c \in EmployeeCall /\ EmployeeShape(q, c)
  BY CallKnown
<1>3. CASE EmployeeEnds(q, "refused")
  <2>1. Takes(q, [IdleEmployeeCall EXCEPT !.pc = "refused"])
    BY <1>1, EndedTakes DEF HoldsUser, EmployeeEnded
  <2> QED
    BY <1>1, <1>3, <2>1, QuietEmployeeStep DEF EmployeeEnds, IdleEmployeeCall
<1>4. CASE CheckEmployee(q) /\ EmployeeGoto(q, "code")
  <2>1. Takes(q, [c EXCEPT !.pc = "code"])
    BY <1>2, <1>4
    DEF Takes, CheckEmployee, EmployeeCall, EmployeeShape, EmployeeInProgress, InTransaction,
        HoldsUser, HoldsStaff
  <2> QED
    BY <1>1, <1>2, <1>4, <2>1, QuietEmployeeStep DEF EmployeeGoto, EmployeeCall
<1>5. CASE CheckEmail(q) /\ EmployeeGoto(q, "user")
  <2>1. Takes(q, [c EXCEPT !.pc = "user"])
    BY <1>2, <1>5
    DEF Takes, CheckEmail, EmployeeCall, EmployeeShape, EmployeeInProgress, InTransaction,
        HoldsUser, HoldsStaff
  <2> QED
    BY <1>1, <1>2, <1>5, <2>1, QuietEmployeeStep DEF EmployeeGoto, EmployeeCall
<1>6. CASE GenerateEmployeeCode(q)
  <2>1. PICK n \in NextSequence(CodesTaken(MonthOf(today))) :
          employeeCall' = [employeeCall EXCEPT ![q] =
            [c EXCEPT !.pc = "user", !.employeeCode = [month |-> MonthOf(today), sequence |-> n]]]
    BY <1>6 DEF GenerateEmployeeCode, Following
  <2> DEFINE x == [c EXCEPT !.pc = "user",
                            !.employeeCode = [month |-> MonthOf(today), sequence |-> n]]
  <2>2. n \in Nat \ {0}
    <3>1. CodesTaken(MonthOf(today)) \in SUBSET Sequence
      BY DEF CodesTaken
    <3> QED
      BY <2>1, <3>1, NextSequenceInRange, CapIsNatural DEF Sequence
  <2>3. MonthOf(today) \in Int
    BY CalendarAssumption, MonthIsInteger DEF StaffInv, Typed
  <2>4. [month |-> MonthOf(today), sequence |-> n] \in PayslipNumber
    BY <2>2, <2>3 DEF PayslipNumber
  <2>5. Takes(q, x)
    BY <1>2, <1>6, <2>4
    DEF Takes, GenerateEmployeeCode, EmployeeCall, EmployeeShape, EmployeeInProgress, InTransaction,
        HoldsUser, HoldsStaff
  <2> QED
    BY <1>1, <1>2, <2>1, <2>5, QuietEmployeeStep DEF EmployeeCall
<1> QED
  BY <1>3, <1>4, <1>5, <1>6 DEF CheckEmployee, CheckEmail, Following

LEMMA AuditEmployeeOK ==
  ASSUME StaffInv, NEW q \in EmployeeRequest, UNCHANGED <<today, authCall, overlapped>>,
         AuditEmployee(q)
  PROVE  StaffInv'
<1> DEFINE c == employeeCall[q]
           x == [c EXCEPT !.pc = "commit"]
<1>1. c \in EmployeeCall /\ EmployeeShape(q, c) /\ c.pc = "audit"
  BY CallKnown DEF AuditEmployee
<1>2. /\ employeeCall' = [employeeCall EXCEPT ![q] = x]
      /\ UNCHANGED <<dbVars, accountVars, today, authCall>>
      /\ overlapped' \in BOOLEAN
  BY DEF AuditEmployee, EmployeeGoto, Following, StaffInv, Typed, StaffTypeOK
<1>3. Takes(q, x)
  BY <1>1
  DEF Takes, EmployeeCall, EmployeeShape, EmployeeInProgress, InTransaction, HoldsUser, HoldsStaff
<1>4. LogKept /\ EmployeeEntry(q) \in auditLog' \cup auditLost'
  BY DEF AuditEmployee, LogAudit, LogKept
<1>5. ASSUME NEW w \in uncommittedStaff, w.by = q, x.op = "create"
      PROVE  Logged(AuditEntry("employee", w.id, "CREATE", None, w.row))'
  <2>1. \A v \in uncommittedStaff : v.by = q => v = w
    BY <1>5 DEF StaffInv, StaffLocks
  <2>2. (CHOOSE v \in uncommittedStaff : v.by = q) = w
    BY <1>5, <2>1
  <2>3. w.id = c.employeeId /\ c.op = "create"
    BY <1>1, <1>5 DEF StaffInv, StaffLocks, EmployeeCall
  <2> QED
    BY <1>4, <2>2, <2>3 DEF EmployeeEntry, Logged
<1> HIDE DEF x
<1> QED
  BY <1>2, <1>3, <1>4, <1>5, EmployeeMoves

LEMMA AuditEmployeeRemovalOK ==
  ASSUME StaffInv, NEW q \in EmployeeRequest, UNCHANGED <<today, authCall, overlapped>>,
         AuditEmployeeRemoval(q)
  PROVE  StaffInv'
<1> DEFINE x == [IdleEmployeeCall EXCEPT !.pc = "done"]
<1>1. employeeCall[q].pc = "auditRemoval"
  BY DEF AuditEmployeeRemoval
<1>2. Takes(q, x) /\ x.pc = "done"
  BY <1>1, EndedTakes DEF HoldsUser, EmployeeEnded, IdleEmployeeCall
<1>3. LogKept
  BY LogGrows DEF AuditEmployeeRemoval
<1>4. overlapped' \in BOOLEAN
  BY DEF StaffInv, Typed, StaffTypeOK
<1>5. /\ employeeCall' = [employeeCall EXCEPT ![q] = x]
      /\ UNCHANGED <<dbVars, accountVars>>
  BY DEF AuditEmployeeRemoval, EmployeeEnds
<1> HIDE DEF x
<1> QED
  BY <1>2, <1>3, <1>4, <1>5, EmployeeMoves
-----------------------------------------------------------------------------
(* Rollbacks.                                                              *)

LEMMA AbortOK ==
  ASSUME StaffInv, NEW q \in EmployeeRequest, UNCHANGED <<today, authCall, overlapped>>,
         employeeCall[q].pc \in EmployeeInProgress, TransactionAborts(q)
  PROVE  StaffInv'
<1> DEFINE x == [IdleEmployeeCall EXCEPT !.pc = "crashed"]
<1> USE DEF StaffInv
<1>0. /\ UNCHANGED <<dbVars, auditVars, users, staff>>
      /\ uncommittedUsers' = {w \in uncommittedUsers : w.by # q}
      /\ uncommittedStaff' = {w \in uncommittedStaff : w.by # q}
      /\ employeeCall' = [employeeCall EXCEPT ![q] = x]
  BY DEF TransactionAborts, RollBackAccounts, EmployeeEnds
<1>1. /\ employeeCall \in [EmployeeRequest -> EmployeeCall]
      /\ employeeCall'[q] = x
      /\ \A r \in EmployeeRequest \ {q} : employeeCall'[r] = employeeCall[r]
      /\ employeeCall[q].pc # "idle"
  BY <1>0 DEF Typed, StaffTypeOK, EmployeeTypeOK, EmployeeInProgress, InTransaction
<1>2. x \in EmployeeCall /\ EmployeeShape(q, x) /\ x.pc = "crashed" /\ x.op = None
  BY NewEmployeeAssumption
  DEF IdleEmployeeCall, EmployeeCall, EmployeeShape, EmployeeInProgress, InTransaction, EmployeeEnded
<1> HIDE DEF x
<1>3. Typed'
  BY <1>0, <1>1, <1>2
  DEF Typed, StaffTypeOK, EmployeeTypeOK, AuthTypeOK, AccountTypeOK, DatabaseTypeOK, dbVars
<1>4. CallsOK'
  BY <1>0, <1>1, <1>2 DEF CallsOK
<1>5. MadeOnce' /\ SameRoster'
  BY <1>0, <1>1, <1>2 DEF MadeOnce, SameRoster, dbVars
<1>6. FreshUsers'
  BY <1>0, <1>1, <1>2, NewEmployeeAssumption DEF FreshUsers, Made
<1>7. UserLocks'
  BY <1>0, <1>1, <1>2 DEF UserLocks, HoldsUser
<1>8. StaffLocks'
  BY <1>0, <1>1, <1>2 DEF StaffLocks, HoldsStaff
<1>9. LoggedFirst'
  BY <1>0, <1>1, <1>2 DEF LoggedFirst, Logged, auditVars, StaffLocks
<1> QED
  BY <1>3, <1>4, <1>5, <1>6, <1>7, <1>8, <1>9
-----------------------------------------------------------------------------
(* The writes of a transaction.                                            *)

LEMMA WrittenUserTyped ==
  ASSUME StaffInv, NEW q \in EmployeeRequest, employeeCall[q].pc = "user", ~UserGone(q)
  PROVE  /\ WrittenUser(q) \in UserRow
         /\ employeeCall[q].userId \in UserId
         /\ employeeCall[q].op = "update" =>
              /\ users[employeeCall[q].userId] # None
              /\ WrittenUser(q).password = users[employeeCall[q].userId].password
<1> DEFINE c == employeeCall[q]
<1>1. EmployeeShape(q, c) /\ c.op \in {"create", "update"}
  BY CallKnown DEF EmployeeShape, InTransaction
<1>2. CASE c.op = "create"
  <2>1. c.dto \in HireDto /\ c.userId = NewUserId[q]
    BY <1>1, <1>2 DEF EmployeeShape
  <2>2. /\ c.dto.email \in Name /\ c.dto.username \in Name /\ c.dto.password \in Password
    BY <2>1, StaffDtoAssumption
  <2> QED
    BY <1>2, <2>1, <2>2, NewEmployeeAssumption DEF WrittenUser, UserRow, UserRole
<1>3. CASE c.op = "update"
  <2>1. c.dto \in StaffDto /\ c.userId \in UserId /\ c.dto.email # None
    BY <1>1, <1>3 DEF EmployeeShape
  <2>2. c.dto.email \in Name
    BY <2>1, StaffDtoAssumption
  <2>3. users[c.userId] # None /\ users[c.userId] \in UserRow
    BY <1>3, <2>1 DEF UserGone, StaffInv, Typed, StaffTypeOK, AccountTypeOK, Table
  <2> QED
    BY <1>3, <2>1, <2>2, <2>3 DEF WrittenUser, UserRow
<1> QED
  BY <1>1, <1>2, <1>3

LEMMA WriteUserOK ==
  ASSUME StaffInv, NEW q \in EmployeeRequest, UNCHANGED <<today, authCall, overlapped>>,
         WriteUser(q)
  PROVE  StaffInv'
<1> DEFINE c == employeeCall[q]
           x == [c EXCEPT !.pc = "employee"]
           w == [by |-> q, id |-> c.userId, row |-> WrittenUser(q)]
<1> USE DEF StaffInv
<1>1. c.pc = "user" /\ c \in EmployeeCall /\ EmployeeShape(q, c)
  BY CallKnown DEF WriteUser
<1>2. CASE TransactionAborts(q)
  BY <1>1, <1>2, AbortOK DEF EmployeeInProgress, InTransaction
<1>3. CASE ~TransactionAborts(q)
  <2>1. /\ ~UserGone(q)
        /\ ~UserBusy(q, c.userId, WrittenUser(q))
        /\ uncommittedUsers' = uncommittedUsers \cup {w}
        /\ employeeCall' = [employeeCall EXCEPT ![q] = x]
        /\ UNCHANGED <<dbVars, auditVars, users, staff, uncommittedStaff>>
    BY <1>3 DEF WriteUser, EmployeeGoto, Following
  <2>2. /\ employeeCall \in [EmployeeRequest -> EmployeeCall]
        /\ employeeCall'[q] = x
        /\ \A r \in EmployeeRequest \ {q} : employeeCall'[r] = employeeCall[r]
    BY <2>1 DEF Typed, StaffTypeOK, EmployeeTypeOK
  <2>3. /\ x \in EmployeeCall /\ EmployeeShape(q, x) /\ x.pc = "employee"
        /\ x.op = c.op /\ x.userId = c.userId /\ x.employeeId = c.employeeId
    BY <1>1 DEF EmployeeCall, EmployeeShape, EmployeeInProgress, InTransaction
  <2>4. /\ w.row \in UserRow /\ w.id \in UserId
        /\ c.op = "update" => users[w.id] # None /\ w.row.password = users[w.id].password
    BY <1>1, <2>1, WrittenUserTyped
  <2>5. w.by = q /\ w.id = c.userId
    OBVIOUS
  <2>6. \A v \in uncommittedUsers : v.by # q /\ v.id # c.userId
    <3>1. \A v \in uncommittedUsers : v.by # q
      BY <1>1 DEF UserLocks, HoldsUser
    <3> QED
      BY <2>1, <3>1 DEF UserBusy
  <2>7. \A v \in uncommittedStaff : v.by # q
    BY <1>1 DEF StaffLocks, HoldsStaff
  <2> HIDE DEF c, x, w
  <2>8. Typed'
    BY <2>1, <2>2, <2>3, <2>4
    DEF Typed, StaffTypeOK, EmployeeTypeOK, AuthTypeOK, AccountTypeOK, DatabaseTypeOK, dbVars
  <2>9. CallsOK'
    BY <2>1, <2>2, <2>3 DEF CallsOK
  <2>10. MadeOnce' /\ SameRoster'
    BY <1>1, <2>1, <2>2, <2>3 DEF MadeOnce, SameRoster, dbVars, c
  <2>11. FreshUsers'
    BY <1>1, <2>1, <2>2, <2>3 DEF FreshUsers, Made, c
  <2>12. UserLocks'
    <3>1. \A v \in uncommittedUsers' :
            /\ v.by \in EmployeeRequest
            /\ employeeCall'[v.by].pc \in HoldsUser
            /\ v.id = employeeCall'[v.by].userId
            /\ employeeCall'[v.by].op = "update" =>
                 users[v.id] # None /\ v.row.password = users[v.id].password
      BY <2>1, <2>2, <2>3, <2>4, <2>5, <2>6 DEF UserLocks, HoldsUser
    <3>2. \A v1, v2 \in uncommittedUsers' : v1.by = v2.by \/ v1.id = v2.id => v1 = v2
      BY <2>1, <2>5, <2>6 DEF UserLocks
    <3>3. \A r \in EmployeeRequest :
            employeeCall'[r].op = "create" /\ employeeCall'[r].pc \in HoldsUser =>
              \E v \in uncommittedUsers' : v.by = r
      BY <2>1, <2>2, <2>5 DEF UserLocks
    <3> QED
      BY <2>1, <3>1, <3>2, <3>3 DEF UserLocks
  <2>13. StaffLocks'
    BY <1>1, <2>1, <2>2, <2>3, <2>7 DEF StaffLocks, HoldsStaff
  <2>14. LoggedFirst'
    BY <2>1, <2>2, <2>3, <2>7 DEF LoggedFirst, Logged, auditVars, StaffLocks
  <2> QED
    BY <2>8, <2>9, <2>10, <2>11, <2>12, <2>13, <2>14
<1> QED
  BY <1>2, <1>3

LEMMA WrittenEmployeeTyped ==
  ASSUME StaffInv, NEW q \in EmployeeRequest, employeeCall[q].pc = "employee", ~EmployeeGone(q)
  PROVE  /\ WrittenEmployee(q) \in StaffRow
         /\ WrittenStatus(q) \in EmployeeStatus
         /\ employeeCall[q].employeeId \in EmployeeId
         /\ employeeCall[q].op = "update" => staff[employeeCall[q].employeeId] # None
         /\ employeeCall[q].op = "create" => WrittenEmployee(q).userId = employeeCall[q].userId
<1> DEFINE c == employeeCall[q]
<1>1. /\ EmployeeShape(q, c) /\ c.op \in {"create", "update"} /\ c.pc \in InTransaction
      /\ c.employeeId \in EmployeeId
  BY CallKnown DEF EmployeeShape, InTransaction, EmployeeInProgress
<1>2. CASE c.op = "create"
  <2>1. c.dto \in HireDto /\ c.userId = NewUserId[q] /\ c.employeeCode \in PayslipNumber
    BY <1>1, <1>2 DEF EmployeeShape
  <2>2. /\ c.dto.email \in Name /\ c.dto.employeeNumber \in EmployeeNumber
        /\ c.dto.status \in EmployeeStatus \cup {None}
    BY <2>1, StaffDtoAssumption
  <2> QED
    BY <1>1, <1>2, <2>1, <2>2, NewEmployeeAssumption
    DEF WrittenEmployee, WrittenStatus, StaffRow, EmployeeStatus, OrElse
<1>3. CASE c.op = "update"
  <2>1. c.dto \in StaffDto
    BY <1>1, <1>3 DEF EmployeeShape
  <2>2. /\ c.dto.email \in Name \cup {None}
        /\ c.dto.employeeNumber \in EmployeeNumber \cup {None}
        /\ c.dto.status \in EmployeeStatus \cup {None}
    BY <2>1, StaffDtoAssumption
  <2>3. staff[c.employeeId] # None /\ staff[c.employeeId] \in StaffRow
    BY <1>1, <1>3 DEF EmployeeGone, StaffInv, Typed, StaffTypeOK, AccountTypeOK, Table
  <2>4. employees[c.employeeId] \in EmployeeStatus
    BY <1>1, <2>3 DEF StaffInv, SameRoster, Typed, StaffTypeOK, DatabaseTypeOK, Table
  <2> QED
    BY <1>1, <1>3, <2>2, <2>3, <2>4 DEF WrittenEmployee, WrittenStatus, StaffRow, OrElse
<1> QED
  BY <1>1, <1>2, <1>3

LEMMA WriteEmployeeOK ==
  ASSUME StaffInv, NEW q \in EmployeeRequest, UNCHANGED <<today, authCall, overlapped>>,
         WriteEmployee(q)
  PROVE  StaffInv'
<1> DEFINE c == employeeCall[q]
           x == [c EXCEPT !.pc = "audit"]
           w == [by |-> q, id |-> c.employeeId, row |-> WrittenEmployee(q),
                 status |-> WrittenStatus(q)]
<1> USE DEF StaffInv
<1>1. c.pc = "employee" /\ c \in EmployeeCall /\ EmployeeShape(q, c)
  BY CallKnown DEF WriteEmployee
<1>2. CASE TransactionAborts(q)
  BY <1>1, <1>2, AbortOK DEF EmployeeInProgress, InTransaction
<1>3. CASE ~TransactionAborts(q)
  <2>1. /\ ~EmployeeGone(q)
        /\ uncommittedStaff' = uncommittedStaff \cup {w}
        /\ employeeCall' = [employeeCall EXCEPT ![q] = x]
        /\ UNCHANGED <<dbVars, auditVars, users, staff, uncommittedUsers>>
    BY <1>3 DEF WriteEmployee, EmployeeGoto, Following
  <2>2. /\ employeeCall \in [EmployeeRequest -> EmployeeCall]
        /\ employeeCall'[q] = x
        /\ \A r \in EmployeeRequest \ {q} : employeeCall'[r] = employeeCall[r]
    BY <2>1 DEF Typed, StaffTypeOK, EmployeeTypeOK
  <2>3. /\ x \in EmployeeCall /\ EmployeeShape(q, x) /\ x.pc = "audit"
        /\ x.op = c.op /\ x.userId = c.userId /\ x.employeeId = c.employeeId
    BY <1>1 DEF EmployeeCall, EmployeeShape, EmployeeInProgress, InTransaction
  <2>4. /\ w.row \in StaffRow /\ w.id \in EmployeeId /\ w.status \in EmployeeStatus
        /\ c.op = "update" => staff[w.id] # None
        /\ c.op = "create" => w.row.userId = c.userId
    BY <1>1, <2>1, WrittenEmployeeTyped
  <2>5. w.by = q /\ w.id = c.employeeId
    OBVIOUS
  <2>6. \A v \in uncommittedStaff : v.by # q
    BY <1>1 DEF StaffLocks, HoldsStaff
  <2> HIDE DEF c, x, w
  <2>7. Typed'
    BY <2>1, <2>2, <2>3, <2>4
    DEF Typed, StaffTypeOK, EmployeeTypeOK, AuthTypeOK, AccountTypeOK, DatabaseTypeOK, dbVars
  <2>8. CallsOK'
    BY <2>1, <2>2, <2>3 DEF CallsOK
  <2>9. MadeOnce' /\ SameRoster'
    BY <1>1, <2>1, <2>2, <2>3 DEF MadeOnce, SameRoster, dbVars, c
  <2>10. FreshUsers'
    BY <1>1, <2>1, <2>2, <2>3 DEF FreshUsers, Made, c
  <2>11. UserLocks'
    BY <1>1, <2>1, <2>2, <2>3 DEF UserLocks, HoldsUser, c
  <2>12. StaffLocks'
    <3>1. \A v \in uncommittedStaff' :
            /\ v.by \in EmployeeRequest
            /\ employeeCall'[v.by].pc \in HoldsStaff
            /\ v.id = employeeCall'[v.by].employeeId
            /\ employeeCall'[v.by].op = "update" => staff[v.id] # None
            /\ employeeCall'[v.by].op = "create" => v.row.userId = employeeCall'[v.by].userId
      BY <2>1, <2>2, <2>3, <2>4, <2>5, <2>6 DEF StaffLocks, HoldsStaff
    <3>2. \A v1, v2 \in uncommittedStaff' : v1.by = v2.by => v1 = v2
      BY <2>1, <2>5, <2>6 DEF StaffLocks
    <3>3. \A r \in EmployeeRequest :
            employeeCall'[r].pc \in HoldsStaff => \E v \in uncommittedStaff' : v.by = r
      BY <2>1, <2>2, <2>5 DEF StaffLocks
    <3> QED
      BY <2>1, <3>1, <3>2, <3>3 DEF StaffLocks
  <2>13. LoggedFirst'
    BY <2>1, <2>2, <2>3, <2>5, <2>6 DEF LoggedFirst, Logged, auditVars, StaffLocks
  <2> QED
    BY <2>7, <2>8, <2>9, <2>10, <2>11, <2>12, <2>13
<1> QED
  BY <1>2, <1>3
-----------------------------------------------------------------------------
(* The deletion of an employee.                                            *)

LEMMA DeleteEmployeeRowOK ==
  ASSUME StaffInv, NEW q \in EmployeeRequest, UNCHANGED <<today, authCall, overlapped>>,
         DeleteEmployeeRow(q)
  PROVE  StaffInv'
<1> DEFINE c == employeeCall[q]
           e == c.employeeId
<1> USE DEF StaffInv
<1>1. /\ c.pc = "delete" /\ c \in EmployeeCall /\ EmployeeShape(q, c) /\ c.op = "remove"
      /\ e \in EmployeeId /\ UNCHANGED auditVars /\ overlapped' \in BOOLEAN
  BY CallKnown
  DEF DeleteEmployeeRow, EmployeeShape, EmployeeInProgress, Typed, StaffTypeOK
<1>2. CASE EmployeeEnds(q, "crashed") /\ UNCHANGED <<dbVars, accountVars>>
  <2> DEFINE x == [IdleEmployeeCall EXCEPT !.pc = "crashed"]
  <2>1. Takes(q, x) /\ x.pc = "crashed"
    BY <1>1, EndedTakes DEF HoldsUser, EmployeeEnded, IdleEmployeeCall
  <2>2. employeeCall' = [employeeCall EXCEPT ![q] = x]
    BY <1>2 DEF EmployeeEnds
  <2> HIDE DEF x
  <2> QED
    BY <1>1, <1>2, <2>1, <2>2, QuietEmployeeStep
<1>3. CASE /\ \A w \in uncommittedStaff : w.id # e
           /\ DeleteEmployee(e)
           /\ staff' = Without(staff, {e})
           /\ EmployeeGoto(q, "auditRemoval")
           /\ UNCHANGED <<users, uncommittedUsers, uncommittedStaff>>
  <2> DEFINE x == [c EXCEPT !.pc = "auditRemoval"]
  <2>1. employeeCall' = [employeeCall EXCEPT ![q] = x]
    BY <1>3 DEF EmployeeGoto
  <2>2. /\ employeeCall \in [EmployeeRequest -> EmployeeCall]
        /\ employeeCall'[q] = x
        /\ \A r \in EmployeeRequest \ {q} : employeeCall'[r] = employeeCall[r]
    BY <2>1 DEF Typed, StaffTypeOK, EmployeeTypeOK
  <2>3. x \in EmployeeCall /\ EmployeeShape(q, x) /\ x.pc = "auditRemoval" /\ x.op = "remove"
    BY <1>1 DEF EmployeeCall, EmployeeShape, EmployeeInProgress, InTransaction
  <2>4. /\ staff \in Table(EmployeeId, StaffRow)
        /\ staff' \in Table(EmployeeId, StaffRow)
        /\ \A f \in EmployeeId : staff'[f] = IF f = e THEN None ELSE staff[f]
        /\ \A f \in EmployeeId : employees'[f] = IF f = e THEN None ELSE employees[f]
    BY <1>1, <1>3, WithoutIsTable
    DEF Without, DeleteEmployee, Typed, StaffTypeOK, AccountTypeOK, DatabaseTypeOK, Table
  <2>5. DatabaseTypeOK'
    BY <1>1, <1>3, DeleteEmployeeTyped DEF Typed, StaffTypeOK
  <2>6. /\ \A v \in uncommittedUsers : v.by # q
        /\ \A v \in uncommittedStaff : v.by # q /\ v.id # e
    BY <1>1, <1>3 DEF UserLocks, StaffLocks, HoldsUser, HoldsStaff
  <2> HIDE DEF x
  <2>7. Typed'
    BY <1>3, <2>1, <2>2, <2>3, <2>4, <2>5
    DEF Typed, StaffTypeOK, EmployeeTypeOK, AuthTypeOK, AccountTypeOK
  <2>8. CallsOK'
    BY <1>3, <2>2, <2>3 DEF CallsOK
  <2>9. MadeOnce' /\ SameRoster'
    BY <1>1, <2>2, <2>3, <2>4 DEF MadeOnce, SameRoster
  <2>10. FreshUsers'
    BY <1>1, <1>3, <2>2, <2>3 DEF FreshUsers, Made
  <2>11. UserLocks'
    BY <1>3, <2>2, <2>3, <2>6 DEF UserLocks, HoldsUser
  <2>12. StaffLocks'
    <3>1. ASSUME NEW v \in uncommittedStaff
          PROVE  /\ v.by \in EmployeeRequest
                 /\ employeeCall'[v.by].pc \in HoldsStaff
                 /\ v.id = employeeCall'[v.by].employeeId
                 /\ employeeCall'[v.by].op = "update" => staff'[v.id] # None
                 /\ employeeCall'[v.by].op = "create" =>
                      v.row.userId = employeeCall'[v.by].userId
      <4>1. v.by \in EmployeeRequest /\ v.by # q /\ v.id # e /\ v.id \in EmployeeId
        BY <2>6 DEF StaffLocks, Typed, StaffTypeOK, AccountTypeOK
      <4>2. employeeCall'[v.by] = employeeCall[v.by] /\ staff'[v.id] = staff[v.id]
        BY <2>2, <2>4, <4>1
      <4> QED
        BY <4>1, <4>2 DEF StaffLocks
    <3>2. \A r \in EmployeeRequest :
            employeeCall'[r].pc \in HoldsStaff => \E v \in uncommittedStaff : v.by = r
      BY <2>2, <2>3 DEF StaffLocks, HoldsStaff
    <3> QED
      BY <1>3, <3>1, <3>2 DEF StaffLocks
  <2>13. LoggedFirst'
    BY <1>1, <1>3, <2>2, <2>6 DEF LoggedFirst, Logged, auditVars, StaffLocks
  <2> QED
    BY <2>7, <2>8, <2>9, <2>10, <2>11, <2>12, <2>13
<1> QED
  BY <1>1, <1>2, <1>3 DEF DeleteEmployeeRow
-----------------------------------------------------------------------------
(* The commit of a transaction.                                            *)

LEMMA CommitEffect ==
  ASSUME StaffInv, NEW q \in EmployeeRequest, CommitAccounts(q)
  PROVE  /\ users' \in Table(UserId, UserRow)
         /\ staff' \in Table(EmployeeId, StaffRow)
         /\ employees' \in Table(EmployeeId, EmployeeStatus)
         /\ \A w \in uncommittedUsers : w.by = q => users'[w.id] = w.row
         /\ \A w \in uncommittedStaff : w.by = q =>
              staff'[w.id] = w.row /\ employees'[w.id] = w.status
         /\ \A u \in UserId : users'[u] # users[u] =>
              \E w \in uncommittedUsers : w.by = q /\ w.id = u
         /\ \A e \in EmployeeId : staff'[e] # staff[e] \/ employees'[e] # employees[e] =>
              \E w \in uncommittedStaff : w.by = q /\ w.id = e
         /\ uncommittedUsers' = {w \in uncommittedUsers : w.by # q}
         /\ uncommittedStaff' = {w \in uncommittedStaff : w.by # q}
<1> DEFINE mineU == {w \in uncommittedUsers : w.by = q}
           mineS == {w \in uncommittedStaff : w.by = q}
           mineE == {[id |-> w.id, row |-> w.status] : w \in mineS}
           After(table, writes) ==
             [id \in DOMAIN table |-> IF \E w \in writes : w.id = id
                                      THEN (CHOOSE w \in writes : w.id = id).row ELSE table[id]]
<1>1. /\ users' = After(users, mineU)
      /\ staff' = After(staff, mineS)
      /\ employees' = After(employees, mineE)
      /\ uncommittedUsers' = uncommittedUsers \ mineU
      /\ uncommittedStaff' = uncommittedStaff \ mineS
  BY DEF CommitAccounts
<1>2. /\ users \in Table(UserId, UserRow)
      /\ staff \in Table(EmployeeId, StaffRow)
      /\ employees \in Table(EmployeeId, EmployeeStatus)
      /\ \A w \in mineU : w.id \in UserId /\ w.row \in UserRow
      /\ \A w \in mineS : w.id \in EmployeeId /\ w.row \in StaffRow
      /\ \A w \in mineE : w.id \in EmployeeId /\ w.row \in EmployeeStatus
      /\ \A w, v \in mineU : w = v
      /\ \A w, v \in mineS : w = v
      /\ \A w, v \in mineE : w = v
  BY DEF StaffInv, Typed, StaffTypeOK, AccountTypeOK, DatabaseTypeOK, UserLocks, StaffLocks
<1>3. ASSUME NEW Id, NEW Row, NEW table \in Table(Id, Row), NEW writes,
             \A w \in writes : w.id \in Id /\ w.row \in Row,
             \A w, v \in writes : w = v
      PROVE  /\ After(table, writes) \in Table(Id, Row)
             /\ \A w \in writes : After(table, writes)[w.id] = w.row
             /\ \A id \in Id : (\A w \in writes : w.id # id) => After(table, writes)[id] = table[id]
  <2>1. DOMAIN table = Id /\ \A id \in Id : table[id] \in Row \cup {None}
    BY <1>3 DEF Table
  <2>2. \A w \in writes : (CHOOSE v \in writes : v.id = w.id) = w
    BY <1>3
  <2>3. \A w \in writes : After(table, writes)[w.id] = w.row
    BY <1>3, <2>1, <2>2
  <2>4. \A id \in Id : (\A w \in writes : w.id # id) => After(table, writes)[id] = table[id]
    BY <2>1
  <2>5. \A id \in Id : After(table, writes)[id] \in Row \cup {None}
    BY <1>3, <2>1, <2>3, <2>4
  <2> QED
    BY <2>1, <2>3, <2>4, <2>5 DEF Table
<1> HIDE DEF After
<1>4. /\ After(users, mineU) \in Table(UserId, UserRow)
      /\ \A w \in mineU : After(users, mineU)[w.id] = w.row
      /\ \A u \in UserId : (\A w \in mineU : w.id # u) => After(users, mineU)[u] = users[u]
  BY <1>2, <1>3
<1>5. /\ After(staff, mineS) \in Table(EmployeeId, StaffRow)
      /\ \A w \in mineS : After(staff, mineS)[w.id] = w.row
      /\ \A e \in EmployeeId : (\A w \in mineS : w.id # e) => After(staff, mineS)[e] = staff[e]
  BY <1>2, <1>3
<1>6. /\ After(employees, mineE) \in Table(EmployeeId, EmployeeStatus)
      /\ \A w \in mineE : After(employees, mineE)[w.id] = w.row
      /\ \A e \in EmployeeId :
           (\A w \in mineE : w.id # e) => After(employees, mineE)[e] = employees[e]
  BY <1>2, <1>3
<1>7. /\ \A w \in uncommittedUsers : w.by = q => users'[w.id] = w.row
      /\ \A u \in UserId : users'[u] # users[u] =>
           \E w \in uncommittedUsers : w.by = q /\ w.id = u
  BY <1>1, <1>4
<1>8. \A w \in uncommittedStaff : w.by = q => staff'[w.id] = w.row
  BY <1>1, <1>5
<1>9. ASSUME NEW w \in uncommittedStaff, w.by = q
       PROVE  employees'[w.id] = w.status
  <2> DEFINE v == [id |-> w.id, row |-> w.status]
  <2>1. v \in mineE /\ v.id = w.id /\ v.row = w.status
    BY <1>9
  <2> HIDE DEF v, mineE
  <2> QED
    BY <1>1, <1>6, <2>1
<1>10. ASSUME NEW e \in EmployeeId, staff'[e] # staff[e] \/ employees'[e] # employees[e]
       PROVE  \E w \in uncommittedStaff : w.by = q /\ w.id = e
  <2>1. CASE staff'[e] # staff[e]
    BY <1>1, <1>5, <2>1
  <2>2. CASE employees'[e] # employees[e]
    <3>1. PICK v \in mineE : v.id = e
      <4> HIDE DEF mineE
      <4> QED
        BY <1>1, <1>6, <2>2
    <3> QED
      BY <3>1
  <2> QED
    BY <1>10, <2>1, <2>2
<1>11. /\ uncommittedUsers' = {w \in uncommittedUsers : w.by # q}
       /\ uncommittedStaff' = {w \in uncommittedStaff : w.by # q}
  BY <1>1
<1> HIDE DEF mineU, mineS, mineE
<1> QED
  BY <1>1, <1>4, <1>5, <1>6, <1>7, <1>8, <1>9, <1>10, <1>11

(* Who commits: an employee call at its last statement.  A create shows    *)
(* its new user, an update one that was there and keeps its password.      *)
LEMMA CommitKnown ==
  ASSUME StaffInv, NEW q \in EmployeeRequest, CommitEmployee(q)
  PROVE  /\ employeeCall[q].pc = "commit"
         /\ employeeCall[q].op \in {"create", "update"}
         /\ q \in AuthRequest => authCall[q].pc = "idle"
         /\ \A u \in UserId : users'[u] # users[u] =>
              /\ users'[u] # None
              /\ \/ employeeCall[q].op = "create" /\ u = NewUserId[q] /\ users[u] = None
                 \/ users[u] # None /\ users'[u].password = users[u].password
         /\ \A e \in EmployeeId : staff'[e] # staff[e] => staff'[e] # None
<1>1. /\ employeeCall[q].pc = "commit" /\ CommitAccounts(q)
      /\ EmployeeShape(q, employeeCall[q])
  BY CallKnown DEF CommitEmployee
<1>2. /\ employeeCall[q].op \in {"create", "update"}
      /\ q \in AuthRequest => authCall[q].pc = "idle"
  BY <1>1 DEF EmployeeShape, InTransaction, StaffInv, MadeOnce
<1>3. ASSUME NEW u \in UserId, users'[u] # users[u]
      PROVE  /\ users'[u] # None
             /\ \/ employeeCall[q].op = "create" /\ u = NewUserId[q] /\ users[u] = None
                \/ users[u] # None /\ users'[u].password = users[u].password
  <2>1. PICK w \in uncommittedUsers : w.by = q /\ w.id = u
    BY <1>1, <1>3, CommitEffect
  <2>2. users'[u] = w.row /\ w.row # None /\ u = employeeCall[q].userId
    BY <1>1, <2>1, CommitEffect, AccountAssumption
    DEF StaffInv, Typed, StaffTypeOK, AccountTypeOK, UserLocks
  <2>3. CASE employeeCall[q].op = "create"
    BY <1>1, <2>2, <2>3 DEF EmployeeShape, StaffInv, FreshUsers
  <2>4. CASE employeeCall[q].op = "update"
    BY <2>1, <2>2, <2>4 DEF StaffInv, UserLocks
  <2> QED
    BY <1>2, <2>2, <2>3, <2>4
<1>4. ASSUME NEW e \in EmployeeId, staff'[e] # staff[e]
      PROVE  staff'[e] # None
  <2>1. PICK w \in uncommittedStaff : w.by = q /\ w.id = e
    BY <1>1, <1>4, CommitEffect
  <2> QED
    BY <1>1, <2>1, CommitEffect, AccountAssumption
    DEF StaffInv, Typed, StaffTypeOK, AccountTypeOK
<1> QED
  BY <1>1, <1>2, <1>3, <1>4

LEMMA CommitEmployeeOK ==
  ASSUME StaffInv, NEW q \in EmployeeRequest, UNCHANGED <<today, authCall, overlapped>>,
         CommitEmployee(q)
  PROVE  StaffInv'
<1> DEFINE c == employeeCall[q]
<1> USE DEF StaffInv
<1>1. PICK how \in {"done", "crashed"} : EmployeeEnds(q, how)
  BY DEF CommitEmployee
<1> DEFINE x == [IdleEmployeeCall EXCEPT !.pc = how]
<1>2. /\ c.pc = "commit"
      /\ c.op \in {"create", "update"}
      /\ q \in AuthRequest => authCall[q].pc = "idle"
      /\ \A u \in UserId : users'[u] # users[u] =>
           users'[u] # None /\ (users[u] # None \/ u = NewUserId[q])
      /\ \A e \in EmployeeId : staff'[e] # staff[e] => staff'[e] # None
  BY CommitKnown
<1>3. /\ employeeCall \in [EmployeeRequest -> EmployeeCall]
      /\ employeeCall'[q] = x
      /\ \A r \in EmployeeRequest \ {q} : employeeCall'[r] = employeeCall[r]
      /\ employeeCall' = [employeeCall EXCEPT ![q] = x]
  BY <1>1 DEF EmployeeEnds, Typed, StaffTypeOK, EmployeeTypeOK
<1>4. x \in EmployeeCall /\ EmployeeShape(q, x) /\ x.pc \in {"done", "crashed"} /\ x.op = None
  BY NewEmployeeAssumption
  DEF IdleEmployeeCall, EmployeeCall, EmployeeShape, EmployeeInProgress, InTransaction, EmployeeEnded
<1>5. CommitAccounts(q)
  BY DEF CommitEmployee
<1>6. /\ users' \in Table(UserId, UserRow)
      /\ staff' \in Table(EmployeeId, StaffRow)
      /\ employees' \in Table(EmployeeId, EmployeeStatus)
      /\ uncommittedUsers' = {w \in uncommittedUsers : w.by # q}
      /\ uncommittedStaff' = {w \in uncommittedStaff : w.by # q}
  BY <1>5, CommitEffect
<1>7. UNCHANGED <<attendancePeriods, attendances, overtimes, reimbursements, payslips, auditVars>>
  BY DEF CommitEmployee
<1> HIDE DEF c, x
<1>8. Typed'
  BY <1>3, <1>4, <1>6, <1>7
  DEF Typed, StaffTypeOK, EmployeeTypeOK, AuthTypeOK, AccountTypeOK, DatabaseTypeOK
<1>9. CallsOK'
  <2>1. \A r \in EmployeeRequest : EmployeeShape(r, employeeCall'[r])
    BY <1>3, <1>4 DEF CallsOK
  <2>2. ASSUME NEW r \in AuthRequest
        PROVE  AuthShape(r, authCall[r], users')
    BY <1>2 DEF CallsOK, AuthShape
  <2> QED
    BY <2>1, <2>2 DEF CallsOK
<1>10. MadeOnce'
  BY <1>2, <1>3, <1>4 DEF MadeOnce, c
<1>11. SameRoster'
  <2> SUFFICES ASSUME NEW e \in EmployeeId
               PROVE  employees'[e] = None <=> staff'[e] = None
    BY DEF SameRoster
  <2>1. CASE staff'[e] # staff[e] \/ employees'[e] # employees[e]
    <3>1. PICK w \in uncommittedStaff : w.by = q /\ w.id = e
      BY <1>5, <2>1, CommitEffect
    <3>2. staff'[e] = w.row /\ employees'[e] = w.status
      BY <1>5, <3>1, CommitEffect
    <3> QED
      BY <3>2, AccountAssumption, NoneAssumption DEF Typed, StaffTypeOK, AccountTypeOK
  <2> QED
    BY <2>1 DEF SameRoster
<1>12. FreshUsers'
  <2>1. ASSUME NEW r \in EmployeeRequest, ~Made(r)' \/ employeeCall'[r].op = "create"
        PROVE  users'[NewUserId[r]] = None
    <3>1. r # q
      BY <1>3, <1>4, <2>1, NewEmployeeAssumption DEF Made
    <3>2. users[NewUserId[r]] = None /\ NewUserId[r] \in UserId /\ NewUserId[r] # NewUserId[q]
      BY <1>3, <2>1, <3>1, NewEmployeeAssumption DEF FreshUsers, Made
    <3> QED
      BY <1>2, <3>2
  <2>2. ASSUME NEW r \in AuthRequest, ~Made(r)' \/ authCall[r].pc = "insert"
        PROVE  users'[NewAccountId[r]] = None
    <3>1. r # q
      BY <1>2, <1>3, <1>4, <2>2 DEF Made
    <3>2. users[NewAccountId[r]] = None /\ NewAccountId[r] \in UserId
      BY <1>3, <2>2, <3>1, NewAccountAssumption DEF FreshUsers, Made
    <3>3. NewAccountId[r] # NewUserId[q]
      BY <3>1, UuidAssumption
    <3> QED
      BY <1>2, <3>2, <3>3
  <2> QED
    BY <2>1, <2>2 DEF FreshUsers
<1>13. UserLocks'
  <2>1. ASSUME NEW w \in uncommittedUsers, w.by # q
        PROVE  /\ w.by \in EmployeeRequest
               /\ employeeCall'[w.by] = employeeCall[w.by]
               /\ users'[w.id] = users[w.id]
    <3>1. w.by \in EmployeeRequest /\ w.id \in UserId
      BY DEF UserLocks, Typed, StaffTypeOK, AccountTypeOK
    <3>2. \A v \in uncommittedUsers : v.by = q => v.id # w.id
      BY <2>1 DEF UserLocks
    <3>3. users'[w.id] = users[w.id]
      BY <1>5, <3>1, <3>2, CommitEffect
    <3> QED
      BY <1>3, <2>1, <3>1, <3>3
  <2>2. \A r \in EmployeeRequest :
          employeeCall'[r].op = "create" /\ employeeCall'[r].pc \in HoldsUser =>
            \E w \in uncommittedUsers' : w.by = r
    BY <1>3, <1>4, <1>6 DEF UserLocks, HoldsUser
  <2> QED
    BY <1>6, <2>1, <2>2 DEF UserLocks
<1>14. StaffLocks'
  <2>1. ASSUME NEW w \in uncommittedStaff, w.by # q
        PROVE  /\ w.by \in EmployeeRequest
               /\ employeeCall'[w.by] = employeeCall[w.by]
               /\ staff[w.id] # None => staff'[w.id] # None
    BY <1>2, <1>3, <2>1 DEF StaffLocks, Typed, StaffTypeOK, AccountTypeOK
  <2>2. \A r \in EmployeeRequest :
          employeeCall'[r].pc \in HoldsStaff => \E w \in uncommittedStaff' : w.by = r
    BY <1>3, <1>4, <1>6 DEF StaffLocks, HoldsStaff
  <2> QED
    BY <1>6, <2>1, <2>2 DEF StaffLocks
<1>15. LoggedFirst'
  BY <1>3, <1>6, <1>7 DEF LoggedFirst, Logged, auditVars, StaffLocks
<1> QED
  BY <1>8, <1>9, <1>10, <1>11, <1>12, <1>13, <1>14, <1>15

(* Every step of an employee call.                                         *)
LEMMA EmployeeStepOK ==
  ASSUME StaffInv, NEW q \in EmployeeRequest, EmployeeStep(q),
         UNCHANGED <<today, authCall, overlapped>>
  PROVE  StaffInv'
BY LookUpOK, WriteUserOK, WriteEmployeeOK, AuditEmployeeOK, CommitEmployeeOK,
   DeleteEmployeeRowOK, AuditEmployeeRemovalOK, AbortOK
DEF EmployeeStep, EmployeeCrash
-----------------------------------------------------------------------------
(* The calls of Authentication.                                            *)

LEMMA AuthKnown ==
  ASSUME StaffInv, NEW q \in AuthRequest
  PROVE  authCall[q] \in AuthCall /\ AuthShape(q, authCall[q], users)
BY DEF StaffInv, Typed, StaffTypeOK, AuthTypeOK, CallsOK

(* x may take the place of the call of q, over the users in `table'.       *)
AuthTakes(q, x, table) ==
  /\ x \in AuthCall
  /\ AuthShape(q, x, table)
  /\ authCall[q].pc = "idle" => ~Made(q)
  /\ x.pc # "idle"
  /\ x.pc = "insert" => authCall[q].pc = "idle"

LEMMA AuthEndedTakes ==
  ASSUME NEW q \in AuthRequest, authCall[q].pc = "idle" => ~Made(q), NEW how \in AuthEnded
  PROVE  AuthTakes(q, [IdleAuthCall EXCEPT !.pc = how], users')
BY NewAccountAssumption
DEF AuthTakes, IdleAuthCall, AuthCall, AuthShape, AuthInProgress, AuthEnded

(* A step of q that may change users, but neither removes one nor the      *)
(* password of one that another transaction has written, and brings none   *)
(* but its own.                                                            *)
LEMMA AuthMoves ==
  ASSUME StaffInv, NEW q \in AuthRequest, NEW x, AuthTakes(q, x, users'),
         authCall' = [authCall EXCEPT ![q] = x],
         UNCHANGED <<dbVars, staff, uncommittedUsers, uncommittedStaff, today, employeeCall>>,
         overlapped' \in BOOLEAN,
         LogKept,
         users' \in Table(UserId, UserRow),
         \A u \in UserId : users'[u] # users[u] =>
           /\ users'[u] # None
           /\ users[u] # None \/ (u = NewAccountId[q] /\ authCall[q].pc = "insert" /\ x.pc # "insert")
           /\ \A w \in uncommittedUsers : w.id # u,
         x.pc = "write" => PasswordEntry(x.userId, x.old, x.password) \in auditLog' \cup auditLost'
  PROVE  StaffInv'
<1> USE DEF StaffInv, AuthTakes
<1>1. /\ authCall \in [AuthRequest -> AuthCall]
      /\ authCall'[q] = x
      /\ \A r \in AuthRequest \ {q} : authCall'[r] = authCall[r]
  BY DEF Typed, StaffTypeOK, AuthTypeOK
<1>2. Typed'
  BY <1>1
  DEF Typed, StaffTypeOK, EmployeeTypeOK, AuthTypeOK, AccountTypeOK, DatabaseTypeOK, dbVars
<1>3. CallsOK'
  <2>1. ASSUME NEW r \in AuthRequest, r # q
        PROVE  AuthShape(r, authCall'[r], users')
    BY <1>1, <2>1 DEF CallsOK, AuthShape
  <2> QED
    BY <1>1, <2>1 DEF CallsOK
<1>4. MadeOnce'
  BY <1>1 DEF MadeOnce, Made
<1>5. SameRoster'
  BY DEF SameRoster, dbVars
<1>6. FreshUsers'
  <2>1. ASSUME NEW r \in EmployeeRequest, ~Made(r)' \/ employeeCall[r].op = "create"
        PROVE  users'[NewUserId[r]] = None
    <3>1. /\ users[NewUserId[r]] = None
          /\ NewUserId[r] \in UserId
      BY <1>1, <2>1, NewEmployeeAssumption DEF FreshUsers, Made
    <3>2. ~(NewUserId[r] = NewAccountId[q] /\ authCall[q].pc = "insert")
      <4> SUFFICES ASSUME NewUserId[r] = NewAccountId[q], authCall[q].pc = "insert"
                   PROVE  FALSE
        OBVIOUS
      <4>1. r = q
        BY UuidAssumption
      <4>2. employeeCall[q].pc = "idle"
        BY <4>1 DEF MadeOnce
      <4>3. employeeCall[q].op = None
        BY <4>1, <4>2 DEF CallsOK, EmployeeShape, EmployeeInProgress, InTransaction
      <4> QED
        BY <1>1, <2>1, <4>1, <4>3, NewEmployeeAssumption DEF Made
    <3> QED
      BY <3>1, <3>2
  <2>2. ASSUME NEW r \in AuthRequest, ~Made(r)' \/ authCall'[r].pc = "insert"
        PROVE  users'[NewAccountId[r]] = None
    <3>1. /\ users[NewAccountId[r]] = None
          /\ NewAccountId[r] \in UserId
      BY <1>1, <2>2, NewAccountAssumption DEF FreshUsers, Made
    <3>2. ~(NewAccountId[r] = NewAccountId[q] /\ authCall[q].pc = "insert" /\ x.pc # "insert")
      BY <1>1, <2>2, NewAccountAssumption DEF Made
    <3> QED
      BY <3>1, <3>2
  <2> QED
    BY <2>1, <2>2 DEF FreshUsers
<1>7. UserLocks'
  <2>1. \A w \in uncommittedUsers : w.id \in UserId /\ users'[w.id] = users[w.id]
    BY DEF Typed, StaffTypeOK, AccountTypeOK
  <2> QED
    BY <2>1 DEF UserLocks
<1>8. StaffLocks'
  BY DEF StaffLocks
<1>9. LoggedFirst'
  BY <1>1 DEF LoggedFirst, LogKept, Logged
<1> QED
  BY <1>2, <1>3, <1>4, <1>5, <1>6, <1>7, <1>8, <1>9

(* The same of a step that writes no user.                                 *)
LEMMA QuietAuthStep ==
  ASSUME StaffInv, NEW q \in AuthRequest, NEW x, AuthTakes(q, x, users),
         authCall' = [authCall EXCEPT ![q] = x],
         UNCHANGED <<dbVars, accountVars, today, employeeCall>>,
         overlapped' \in BOOLEAN,
         LogKept,
         x.pc = "write" => PasswordEntry(x.userId, x.old, x.password) \in auditLog' \cup auditLost'
  PROVE  StaffInv'
<1>1. users' = users /\ users \in Table(UserId, UserRow)
  BY DEF accountVars, StaffInv, Typed, StaffTypeOK, AccountTypeOK
<1>2. /\ UNCHANGED <<dbVars, staff, uncommittedUsers, uncommittedStaff, today, employeeCall>>
      /\ AuthTakes(q, x, users')
  BY <1>1 DEF accountVars
<1> QED
  BY <1>1, <1>2, AuthMoves

LEMMA QuietAuthEnd ==
  ASSUME StaffInv, NEW q \in AuthRequest, authCall[q].pc = "idle" => ~Made(q),
         NEW how \in AuthEnded, AuthEnds(q, how),
         UNCHANGED <<dbVars, accountVars, today, employeeCall>>,
         overlapped' \in BOOLEAN, LogKept
  PROVE  StaffInv'
<1> DEFINE x == [IdleAuthCall EXCEPT !.pc = how]
<1>1. AuthTakes(q, x, users') /\ users' = users
  BY AuthEndedTakes DEF accountVars
<1>2. x.pc # "write"
  BY DEF IdleAuthCall, AuthEnded
<1>3. authCall' = [authCall EXCEPT ![q] = x]
  BY DEF AuthEnds
<1> HIDE DEF x
<1> QED
  BY <1>1, <1>2, <1>3, QuietAuthStep

LEMMA AuthStartOK ==
  ASSUME StaffInv, NEW q \in AuthRequest, ~Made(q), AuthStart(q),
         UNCHANGED <<today, employeeCall>>, overlapped' \in BOOLEAN
  PROVE  StaffInv'
<1>1. /\ authCall[q].pc = "idle" /\ UNCHANGED <<dbVars, auditVars, accountVars>>
      /\ LogKept
  BY DEF AuthStart, Register, Login, ChangePassword, auditVars, LogKept
<1>2. CASE AuthEnds(q, "refused")
  BY <1>1, <1>2, QuietAuthEnd DEF AuthEnded
<1>3. CASE Register(q)
  <2>1. PICK email \in Name, password \in Password :
          authCall' = [authCall EXCEPT ![q] =
            [IdleAuthCall EXCEPT !.pc = "insert", !.op = "register", !.userId = NewAccountId[q],
               !.email = email, !.password = password]]
    BY <1>3 DEF Register
  <2> DEFINE x == [IdleAuthCall EXCEPT !.pc = "insert", !.op = "register",
                     !.userId = NewAccountId[q], !.email = email, !.password = password]
  <2>2. AuthTakes(q, x, users) /\ x.pc = "insert"
    BY <1>1, NewAccountAssumption DEF AuthTakes, IdleAuthCall, AuthCall, AuthShape, AuthInProgress
  <2> HIDE DEF x
  <2> QED
    BY <1>1, <2>1, <2>2, QuietAuthStep DEF x
<1>4. CASE Login(q)
  <2>1. PICK email \in Name, password \in Password :
          \/ AuthEnds(q, "refused")
          \/ authCall' = [authCall EXCEPT ![q] = [IdleAuthCall EXCEPT
               !.pc = "verify", !.op = "login", !.email = email, !.password = password]]
    BY <1>4 DEF Login
  <2> DEFINE x == [IdleAuthCall EXCEPT !.pc = "verify", !.op = "login", !.email = email,
                                       !.password = password]
  <2>2. AuthTakes(q, x, users) /\ x.pc = "verify"
    BY <1>1, NewAccountAssumption DEF AuthTakes, IdleAuthCall, AuthCall, AuthShape, AuthInProgress
  <2> QED
    BY <1>1, <1>2, <2>1, <2>2, QuietAuthStep
<1>5. CASE ChangePassword(q)
  <2>1. PICK caller \in UserId, named \in UserId, password \in Password :
          /\ users[caller] # None
          /\ \/ AuthEnds(q, "refused")
             \/ /\ users[named] # None
                /\ authCall' = [authCall EXCEPT ![q] =
                     [IdleAuthCall EXCEPT !.pc = "audit", !.op = "changePassword",
                        !.userId = caller, !.password = password, !.old = users[named].password]]
    BY <1>5 DEF ChangePassword
  <2> DEFINE x == [IdleAuthCall EXCEPT !.pc = "audit", !.op = "changePassword",
                     !.userId = caller, !.password = password, !.old = users[named].password]
  <2>2. ASSUME users[named] # None
        PROVE  AuthTakes(q, x, users) /\ x.pc = "audit"
    <3>1. users[named].password \in Password
      BY <2>2 DEF StaffInv, Typed, StaffTypeOK, AccountTypeOK, Table, UserRow
    <3> QED
      BY <1>1, <2>1, <3>1, NewAccountAssumption
      DEF AuthTakes, IdleAuthCall, AuthCall, AuthShape, AuthInProgress
  <2> QED
    BY <1>1, <1>2, <2>1, <2>2, QuietAuthStep
<1> QED
  BY <1>3, <1>4, <1>5 DEF AuthStart

LEMMA VerifyLoginOK ==
  ASSUME StaffInv, NEW q \in AuthRequest, UNCHANGED <<today, employeeCall, overlapped>>,
         VerifyLogin(q)
  PROVE  StaffInv'
<1>1. /\ authCall[q] \in AuthCall /\ AuthShape(q, authCall[q], users)
      /\ authCall[q].pc = "verify"
      /\ UNCHANGED <<dbVars, auditVars, accountVars>> /\ LogKept /\ overlapped' \in BOOLEAN
  BY AuthKnown DEF VerifyLogin, auditVars, LogKept, StaffInv, Typed, StaffTypeOK
<1>2. CASE AuthEnds(q, "refused")
  BY <1>1, <1>2, QuietAuthEnd DEF AuthEnded
<1>3. ASSUME NEW u \in Matching(authCall[q].email, authCall[q].password),
             authCall' = [authCall EXCEPT ![q].pc = "audit", ![q].userId = u]
      PROVE  StaffInv'
  <2> DEFINE x == [authCall[q] EXCEPT !.pc = "audit", !.userId = u]
  <2>1. u \in UserId /\ users[u] # None
    BY DEF Matching
  <2>2. AuthTakes(q, x, users) /\ x.pc = "audit"
    BY <1>1, <2>1 DEF AuthTakes, AuthCall, AuthShape, AuthInProgress
  <2>3. authCall' = [authCall EXCEPT ![q] = x]
    BY <1>3 DEF StaffInv, Typed, StaffTypeOK, AuthTypeOK
  <2> HIDE DEF x
  <2> QED
    BY <1>1, <2>2, <2>3, QuietAuthStep
<1> QED
  BY <1>2, <1>3 DEF VerifyLogin

LEMMA AuditAuthOK ==
  ASSUME StaffInv, NEW q \in AuthRequest, UNCHANGED <<today, employeeCall, overlapped>>,
         AuditAuth(q)
  PROVE  StaffInv'
<1> DEFINE c == authCall[q]
<1>1. /\ c \in AuthCall /\ AuthShape(q, c, users) /\ c.pc = "audit"
      /\ c.op \in {"register", "login", "changePassword"}
      /\ UNCHANGED <<dbVars, accountVars>> /\ overlapped' \in BOOLEAN
  BY AuthKnown DEF AuditAuth, AuthShape, StaffInv, Typed, StaffTypeOK
<1>2. LogKept /\ AuthEntry(q) \in auditLog' \cup auditLost'
  BY DEF AuditAuth, LogAudit, LogKept
<1>3. CASE c.op = "register"
  <2>1. AuthEnds(q, "done")
    BY <1>3 DEF AuditAuth
  <2> QED
    BY <1>1, <1>2, <2>1, QuietAuthEnd DEF AuthEnded
<1>4. CASE c.op = "login"
  <2> DEFINE x == [c EXCEPT !.pc = "done"]
  <2>1. authCall' = [authCall EXCEPT ![q] = x]
    BY <1>4 DEF AuditAuth, AuthGoto
  <2>2. AuthTakes(q, x, users) /\ x.pc = "done"
    BY <1>1, <1>4 DEF AuthTakes, AuthCall, AuthShape, AuthInProgress, AuthEnded
  <2> HIDE DEF x
  <2> QED
    BY <1>1, <1>2, <2>1, <2>2, QuietAuthStep
<1>5. CASE c.op = "changePassword"
  <2> DEFINE x == [c EXCEPT !.pc = "write"]
  <2>1. authCall' = [authCall EXCEPT ![q] = x]
    BY <1>5 DEF AuditAuth, AuthGoto
  <2>2. AuthTakes(q, x, users)
    BY <1>1, <1>5 DEF AuthTakes, AuthCall, AuthShape, AuthInProgress, AuthEnded
  <2>3. x.userId = c.userId /\ x.old = c.old /\ x.password = c.password
    BY <1>1 DEF AuthCall
  <2>4. AuthEntry(q) = PasswordEntry(x.userId, x.old, x.password)
    BY <1>5, <2>3 DEF AuthEntry
  <2> HIDE DEF x
  <2>5. PasswordEntry(x.userId, x.old, x.password) \in auditLog' \cup auditLost'
    BY <1>2, <2>4
  <2> QED
    BY <1>1, <1>2, <2>1, <2>2, <2>5, QuietAuthStep
<1> QED
  BY <1>1, <1>3, <1>4, <1>5

LEMMA AuthCrashOK ==
  ASSUME StaffInv, NEW q \in AuthRequest, UNCHANGED <<today, employeeCall, overlapped>>,
         AuthCrash(q)
  PROVE  StaffInv'
<1>1. /\ authCall[q].pc # "idle" /\ AuthEnds(q, "crashed") /\ LogKept
      /\ UNCHANGED <<dbVars, accountVars>> /\ overlapped' \in BOOLEAN
  BY DEF AuthCrash, AuthInProgress, auditVars, LogKept, StaffInv, Typed, StaffTypeOK
<1> QED
  BY <1>1, QuietAuthEnd DEF AuthEnded

LEMMA InsertUserOK ==
  ASSUME StaffInv, NEW q \in AuthRequest, UNCHANGED <<today, employeeCall, overlapped>>,
         InsertUser(q)
  PROVE  StaffInv'
<1> DEFINE c == authCall[q]
           u == c.userId
<1>1. /\ c \in AuthCall /\ AuthShape(q, c, users) /\ c.pc = "insert" /\ c.op = "register"
      /\ LogKept /\ overlapped' \in BOOLEAN
      /\ UNCHANGED <<dbVars, staff, uncommittedUsers, uncommittedStaff>>
  BY AuthKnown DEF InsertUser, AuthShape, auditVars, LogKept, StaffInv, Typed, StaffTypeOK
<1>2. CASE AuthEnds(q, "refused") /\ UNCHANGED users
  <2>1. UNCHANGED accountVars
    BY <1>1, <1>2 DEF accountVars
  <2> QED
    BY <1>1, <1>2, <2>1, QuietAuthEnd DEF AuthEnded
<1>3. CASE users' = [users EXCEPT ![u] = Registered(q)] /\ AuthGoto(q, "audit")
  <2> DEFINE x == [c EXCEPT !.pc = "audit"]
  <2>1. u = NewAccountId[q] /\ u \in UserId
    BY <1>1, NewAccountAssumption DEF AuthShape
  <2>2. Registered(q) \in UserRow /\ Registered(q) # None
    <3>1. c.email \in Name /\ c.password \in Password
      BY <1>1 DEF AuthShape
    <3>2. Registered(q) \in UserRow
      BY <3>1 DEF Registered, UserRow, UserRole
    <3> QED
      BY <3>2, AccountAssumption
  <2>3. users \in Table(UserId, UserRow)
    BY DEF StaffInv, Typed, StaffTypeOK, AccountTypeOK
  <2>4. users' \in Table(UserId, UserRow)
    BY <1>3, <2>2, <2>3 DEF Table
  <2>5. /\ \A v \in UserId : users'[v] # users[v] => v = u
        /\ users'[u] = Registered(q)
    BY <1>3, <2>1, <2>3 DEF Table
  <2>6. \A w \in uncommittedUsers : w.id # u
    <3>1. q \in EmployeeRequest => employeeCall[q].pc = "idle"
      BY <1>1 DEF StaffInv, MadeOnce
    <3>2. \A w \in uncommittedUsers : w.by # q
      BY <3>1 DEF StaffInv, UserLocks, HoldsUser
    <3> QED
      BY <3>2 DEF InsertUser, UserBusy
  <2>7. AuthTakes(q, x, users') /\ x.pc = "audit"
    BY <1>1 DEF AuthTakes, AuthCall, AuthShape, AuthInProgress
  <2>8. authCall' = [authCall EXCEPT ![q] = x]
    BY <1>3 DEF AuthGoto
  <2>9. \A v \in UserId : users'[v] # users[v] =>
          /\ users'[v] # None
          /\ v = NewAccountId[q] /\ c.pc = "insert" /\ x.pc # "insert"
          /\ \A w \in uncommittedUsers : w.id # v
    BY <1>1, <2>1, <2>2, <2>5, <2>6, <2>7
  <2> HIDE DEF x
  <2> QED
    BY <1>1, <2>4, <2>7, <2>8, <2>9, AuthMoves
<1> QED
  BY <1>2, <1>3 DEF InsertUser

LEMMA WritePasswordOK ==
  ASSUME StaffInv, NEW q \in AuthRequest, UNCHANGED <<today, employeeCall, overlapped>>,
         WritePassword(q)
  PROVE  StaffInv'
<1> DEFINE c == authCall[q]
           u == c.userId
           x == [IdleAuthCall EXCEPT !.pc = "done"]
<1>1. /\ c.pc = "write" /\ c.op = "changePassword"
      /\ u \in UserId /\ users[u] # None /\ c.password \in Password
      /\ LogKept /\ overlapped' \in BOOLEAN
      /\ UNCHANGED <<dbVars, staff, uncommittedUsers, uncommittedStaff>>
  BY AuthKnown DEF WritePassword, AuthShape, auditVars, LogKept, StaffInv, Typed, StaffTypeOK
<1>2. users \in Table(UserId, UserRow) /\ users[u] \in UserRow
  BY <1>1 DEF StaffInv, Typed, StaffTypeOK, AccountTypeOK, Table
<1>3. users' = [users EXCEPT ![u] = [users[u] EXCEPT !.password = c.password]]
  BY <1>2 DEF WritePassword, Table
<1>4. [users[u] EXCEPT !.password = c.password] \in UserRow
  BY <1>1, <1>2 DEF UserRow
<1>5. /\ users' \in Table(UserId, UserRow)
      /\ users'[u] # None
      /\ \A v \in UserId : users'[v] # users[v] => v = u
  BY <1>1, <1>2, <1>3, <1>4, AccountAssumption DEF Table
<1>6. \A w \in uncommittedUsers : w.id # u
  BY DEF WritePassword
<1>7. AuthTakes(q, x, users') /\ x.pc = "done"
  BY <1>1, AuthEndedTakes DEF AuthEnded, IdleAuthCall
<1>8. authCall' = [authCall EXCEPT ![q] = x]
  BY DEF WritePassword, AuthEnds
<1>9. \A v \in UserId : users'[v] # users[v] =>
        /\ users'[v] # None /\ users[v] # None
        /\ \A w \in uncommittedUsers : w.id # v
  BY <1>1, <1>5, <1>6
<1> HIDE DEF x
<1> QED
  BY <1>1, <1>5, <1>7, <1>8, <1>9, AuthMoves

LEMMA AuthStepOK ==
  ASSUME StaffInv, NEW q \in AuthRequest, AuthStep(q),
         UNCHANGED <<today, employeeCall, overlapped>>
  PROVE  StaffInv'
BY InsertUserOK, VerifyLoginOK, WritePasswordOK, AuditAuthOK, AuthCrashOK DEF AuthStep
-----------------------------------------------------------------------------
(* The invariant, and what follows from it.                                *)

LEMMA StaffInvInductive == StaffInv /\ [StaffNext]_staffVars => StaffInv'
<1> SUFFICES ASSUME StaffInv, [StaffNext]_staffVars
             PROVE  StaffInv'
  OBVIOUS
<1>1. CASE EmployeeCallArrives
  <2>1. PICK q \in EmployeeRequest : Admitted(q) /\ EmployeeStart(q)
    BY <1>1 DEF EmployeeCallArrives
  <2>2. overlapped' \in BOOLEAN /\ ~Made(q)
    BY <2>1 DEF Admitted, StaffInv, Typed, StaffTypeOK
  <2> QED
    BY <1>1, <2>1, <2>2, EmployeeStartOK DEF EmployeeCallArrives
<1>2. CASE AuthCallArrives
  <2>1. PICK q \in AuthRequest : Admitted(q) /\ AuthStart(q)
    BY <1>2 DEF AuthCallArrives
  <2>2. overlapped' \in BOOLEAN /\ ~Made(q)
    BY <2>1 DEF Admitted, StaffInv, Typed, StaffTypeOK
  <2> QED
    BY <1>2, <2>1, <2>2, AuthStartOK DEF AuthCallArrives
<1>3. CASE EmployeeCallMoves
  BY <1>3, EmployeeStepOK DEF EmployeeCallMoves
<1>4. CASE AuthCallMoves
  BY <1>4, AuthStepOK DEF AuthCallMoves
<1>5. CASE UNCHANGED staffVars
  <2> USE <1>5 DEF staffVars, dbVars, auditVars, accountVars, StaffInv
  <2>1. Typed' /\ CallsOK'
    BY DEF Typed, StaffTypeOK, DatabaseTypeOK, AccountTypeOK, EmployeeTypeOK, AuthTypeOK, CallsOK
  <2>2. MadeOnce' /\ SameRoster' /\ FreshUsers'
    BY DEF MadeOnce, SameRoster, FreshUsers, Made
  <2>3. UserLocks' /\ StaffLocks' /\ LoggedFirst'
    BY DEF UserLocks, StaffLocks, LoggedFirst, Logged
  <2> QED
    BY <2>1, <2>2, <2>3
<1> QED
  BY <1>1, <1>2, <1>3, <1>4, <1>5 DEF StaffNext

LEMMA StaffInvAlways == StaffSpec => []StaffInv
BY StaffInvInit, StaffInvInductive, PTL DEF StaffSpec

(* Every table, call and open write keeps its type.                        *)
THEOREM StaffTypeCorrect == StaffSpec => []StaffTypeOK
<1>1. StaffInv => StaffTypeOK
  BY DEF StaffInv, Typed
<1> QED
  BY <1>1, StaffInvAlways, PTL

(* The user a token names is there for the guard to read.                  *)
THEOREM TokensStayValid == StaffSpec => []TokensResolve
<1>1. StaffInv => TokensResolve
  BY DEF StaffInv, CallsOK, AuthShape, TokensResolve, Tokens
<1> QED
  BY <1>1, StaffInvAlways, PTL

(* A call past its writes waits for nobody; one at the employee waits for  *)
(* such a call at most; every other one for a call past its first write.   *)
LEMMA PastWritesMoves ==
  ASSUME StaffInv, NEW q \in EmployeeRequest,
         employeeCall[q].pc \in EmployeeInProgress \ {"user", "employee", "delete"}
  PROVE  SomebodyMoves
<1>1. q \in AuthRequest => authCall[q].pc = "idle"
  BY DEF StaffInv, MadeOnce, EmployeeInProgress, InTransaction
<1>2. ~Waits(q)
  BY <1>1 DEF Waits
<1> QED
  BY <1>2 DEF SomebodyMoves, Requests

LEMMA AtEmployeeMoves ==
  ASSUME StaffInv, NEW q \in EmployeeRequest, employeeCall[q].pc = "employee"
  PROVE  SomebodyMoves
<1>1. CASE Waits(q)
  <2>1. q \in AuthRequest => authCall[q].pc = "idle"
    BY DEF StaffInv, MadeOnce
  <2>2. PICK w \in uncommittedStaff : TRUE
    BY <1>1, <2>1 DEF Waits, StaffBusy
  <2>3. w.by \in EmployeeRequest /\ employeeCall[w.by].pc \in HoldsStaff
    BY DEF StaffInv, StaffLocks
  <2> QED
    BY <2>3, PastWritesMoves DEF HoldsStaff, EmployeeInProgress, InTransaction
<1>2. CASE ~Waits(q)
  BY <1>2 DEF SomebodyMoves, Requests, EmployeeInProgress, InTransaction
<1> QED
  BY <1>1, <1>2

(* Transactions lock the user first and the employee second, so that those *)
(* that wait never form a circle, whatever their number.                   *)
THEOREM NoCircle == StaffSpec => []SomebodyMoves
<1>1. ASSUME StaffInv
      PROVE  SomebodyMoves
  <2>1. ASSUME NEW w \in uncommittedUsers \cup uncommittedStaff
        PROVE  SomebodyMoves
    <3>1. w.by \in EmployeeRequest /\ employeeCall[w.by].pc \in HoldsUser
      BY <1>1 DEF StaffInv, UserLocks, StaffLocks, HoldsUser, HoldsStaff
    <3> QED
      BY <1>1, <3>1, AtEmployeeMoves, PastWritesMoves
      DEF HoldsUser, EmployeeInProgress, InTransaction
  <2>2. CASE uncommittedUsers \cup uncommittedStaff = {}
    <3>1. \A q : ~Waits(q)
      BY <2>2 DEF Waits, UserBusy, StaffBusy
    <3> QED
      BY <3>1 DEF SomebodyMoves, AllQuiet, EmployeeQuiet, AuthQuiet, Requests
  <2> QED
    BY <2>1, <2>2
<1> QED
  BY <1>1, StaffInvAlways, PTL
-----------------------------------------------------------------------------
(* What a step may do to the tables.                                       *)

(* Only a commit, a removal, a registration and a change of password write.*)
LEMMA Writers ==
  ASSUME StaffInv, [StaffNext]_staffVars
  PROVE  \/ UNCHANGED <<users, staff>>
         \/ \E q \in EmployeeRequest : CommitEmployee(q) \/ (DeleteEmployeeRow(q) /\ UNCHANGED users)
         \/ \E q \in AuthRequest : InsertUser(q) \/ WritePassword(q)
<1>1. CASE EmployeeCallArrives
  BY <1>1 DEF EmployeeCallArrives, EmployeeStart, CreateEmployee, UpdateEmployee, RemoveEmployee,
              accountVars
<1>2. CASE AuthCallArrives
  BY <1>2 DEF AuthCallArrives, AuthStart, Register, Login, ChangePassword, accountVars
<1>3. CASE EmployeeCallMoves
  BY <1>3
  DEF EmployeeCallMoves, EmployeeStep, CheckEmployee, GenerateEmployeeCode, CheckEmail, WriteUser,
      WriteEmployee, AuditEmployee, DeleteEmployeeRow, AuditEmployeeRemoval, EmployeeCrash,
      TransactionAborts, RollBackAccounts, accountVars
<1>4. CASE AuthCallMoves
  BY <1>4 DEF AuthCallMoves, AuthStep, VerifyLogin, AuditAuth, AuthCrash, accountVars
<1>5. CASE UNCHANGED staffVars
  BY <1>5 DEF staffVars, accountVars
<1> QED
  BY <1>1, <1>2, <1>3, <1>4, <1>5 DEF StaffNext

(* No password changes before the change has been handed to the log.       *)
THEOREM PasswordsChangeLogged == StaffSpec => PasswordChangeIsLogged
<1>1. ASSUME StaffInv, [StaffNext]_staffVars, NEW u \in UserId,
             users[u] # None, users'[u].password # users[u].password
      PROVE  \E old \in Password : Logged(PasswordEntry(u, old, users'[u].password))
  <2>1. ~ \E q \in EmployeeRequest :
           CommitEmployee(q) \/ (DeleteEmployeeRow(q) /\ UNCHANGED users)
    BY <1>1, CommitKnown
  <2>2. ASSUME NEW q \in AuthRequest, InsertUser(q)
        PROVE  FALSE
    <3>1. authCall[q].userId = NewAccountId[q] /\ authCall[q].pc = "insert"
      BY <1>1, <2>2, AuthKnown DEF InsertUser, AuthShape
    <3>2. users[NewAccountId[q]] = None
      BY <1>1, <3>1 DEF StaffInv, FreshUsers
    <3>3. users \in Table(UserId, UserRow)
      BY <1>1 DEF StaffInv, Typed, StaffTypeOK, AccountTypeOK
    <3>4. users'[u] = users[u]
      BY <1>1, <2>2, <3>1, <3>2, <3>3 DEF InsertUser, Table
    <3> QED
      BY <1>1, <3>4
  <2>3. PICK q \in AuthRequest : WritePassword(q)
    BY <1>1, <2>1, <2>2, Writers
  <2>4. /\ authCall[q].pc = "write" /\ authCall[q].op = "changePassword"
        /\ authCall[q].old \in Password /\ authCall[q].userId \in UserId
    BY <1>1, <2>3, AuthKnown DEF WritePassword, AuthShape
  <2>5. users \in Table(UserId, UserRow) /\ users[u] \in UserRow
    BY <1>1 DEF StaffInv, Typed, StaffTypeOK, AccountTypeOK, Table
  <2>6. u = authCall[q].userId /\ users'[u].password = authCall[q].password
    BY <1>1, <2>3, <2>4, <2>5 DEF WritePassword, Table, UserRow
  <2>7. Logged(PasswordEntry(authCall[q].userId, authCall[q].old, authCall[q].password))
    BY <1>1, <2>4 DEF StaffInv, LoggedFirst
  <2> QED
    BY <2>4, <2>6, <2>7
<1>2. StaffInv /\ [StaffNext]_staffVars =>
        [\A u \in UserId :
           users[u] # None /\ users'[u].password # users[u].password =>
             \E old \in Password : Logged(PasswordEntry(u, old, users'[u].password))]_staffVars
  BY <1>1
<1> QED
  BY <1>2, StaffInvAlways, PTL DEF StaffSpec, PasswordChangeIsLogged

(* Who is hired is written by a create that commits.                       *)
LEMMA HiredByCreate ==
  ASSUME StaffInv, [StaffNext]_staffVars, NEW e \in EmployeeId, staff[e] = None, staff'[e] # None
  PROVE  \E q \in EmployeeRequest, w \in uncommittedStaff :
           /\ CommitEmployee(q)
           /\ employeeCall[q].pc = "commit" /\ employeeCall[q].op = "create"
           /\ w.by = q /\ w.id = e /\ staff'[e] = w.row
<1>1. PICK q \in EmployeeRequest : CommitEmployee(q)
  <2>1. staff' # staff
    OBVIOUS
  <2>2. ASSUME NEW r \in EmployeeRequest, DeleteEmployeeRow(r)
        PROVE  FALSE
    <3>1. staff \in Table(EmployeeId, StaffRow)
      BY DEF StaffInv, Typed, StaffTypeOK, AccountTypeOK
    <3> QED
      BY <2>2, <3>1 DEF DeleteEmployeeRow, Without, accountVars, Table
  <2>3. ASSUME NEW r \in AuthRequest, InsertUser(r) \/ WritePassword(r)
        PROVE  FALSE
    BY <2>1, <2>3 DEF InsertUser, WritePassword
  <2> QED
    BY <2>1, <2>2, <2>3, Writers
<1>2. employeeCall[q].pc = "commit" /\ employeeCall[q].op \in {"create", "update"}
  BY <1>1, CommitKnown
<1>3. CommitAccounts(q)
  BY <1>1 DEF CommitEmployee
<1>4. PICK w \in uncommittedStaff : w.by = q /\ w.id = e
  BY <1>3, CommitEffect
<1>5. staff'[e] = w.row
  BY <1>3, <1>4, CommitEffect
<1>6. employeeCall[q].op = "create"
  BY <1>2, <1>4 DEF StaffInv, StaffLocks
<1> QED
  BY <1>1, <1>2, <1>4, <1>5, <1>6

(* Nobody is hired before the creation has been handed to the log.         *)
THEOREM HiresAreLogged == StaffSpec => HireIsLogged
<1>1. ASSUME StaffInv, [StaffNext]_staffVars, NEW e \in EmployeeId, staff[e] = None, staff'[e] # None
      PROVE  Logged(AuditEntry("employee", e, "CREATE", None, staff'[e]))
  <2>1. PICK q \in EmployeeRequest, w \in uncommittedStaff :
          /\ employeeCall[q].pc = "commit" /\ employeeCall[q].op = "create"
          /\ w.by = q /\ w.id = e /\ staff'[e] = w.row
    BY <1>1, HiredByCreate
  <2> QED
    BY <1>1, <2>1 DEF StaffInv, LoggedFirst
<1>2. StaffInv /\ [StaffNext]_staffVars =>
        [\A e \in EmployeeId : staff[e] = None /\ staff'[e] # None =>
           Logged(AuditEntry("employee", e, "CREATE", None, staff'[e]))]_staffVars
  BY <1>1
<1> QED
  BY <1>2, StaffInvAlways, PTL DEF StaffSpec, HireIsLogged

(* An employee comes with its user and a user to be hired with its         *)
(* employee, wherever calls stop and whatever runs beside them.            *)
THEOREM HiresAreWhole == StaffSpec => HiredWhole
<1>1. ASSUME StaffInv, [StaffNext]_staffVars, NEW e \in EmployeeId, staff[e] = None, staff'[e] # None
      PROVE  users[staff'[e].userId] = None /\ users'[staff'[e].userId] # None
  <2>1. PICK q \in EmployeeRequest, w \in uncommittedStaff :
          /\ CommitEmployee(q)
          /\ employeeCall[q].pc = "commit" /\ employeeCall[q].op = "create"
          /\ w.by = q /\ w.id = e /\ staff'[e] = w.row
    BY <1>1, HiredByCreate
  <2>2. staff'[e].userId = employeeCall[q].userId
    BY <1>1, <2>1 DEF StaffInv, StaffLocks
  <2>3. employeeCall[q].userId = NewUserId[q]
    BY <1>1, <2>1, CallKnown DEF EmployeeShape
  <2>4. users[NewUserId[q]] = None
    BY <1>1, <2>1 DEF StaffInv, FreshUsers
  <2>5. PICK v \in uncommittedUsers : v.by = q
    BY <1>1, <2>1 DEF StaffInv, UserLocks, HoldsUser
  <2>6. v.id = NewUserId[q] /\ v.row # None
    BY <1>1, <2>3, <2>5, AccountAssumption
    DEF StaffInv, UserLocks, Typed, StaffTypeOK, AccountTypeOK
  <2>7. users'[v.id] = v.row
    BY <1>1, <2>1, <2>5, CommitEffect DEF CommitEmployee
  <2> QED
    BY <2>2, <2>3, <2>4, <2>6, <2>7
<1>2. ASSUME StaffInv, [StaffNext]_staffVars, NEW q \in EmployeeRequest,
             employeeCall[q].op = "create",
             users[NewUserId[q]] = None, users'[NewUserId[q]] # None
      PROVE  staff'[NewEmployeeId[q]] # None
  <2>1. NewUserId[q] \in UserId /\ users \in Table(UserId, UserRow)
    BY <1>2, NewEmployeeAssumption DEF StaffInv, Typed, StaffTypeOK, AccountTypeOK
  <2>2. employeeCall[q].pc # "idle"
    BY <1>2, CallKnown, NewEmployeeAssumption
    DEF EmployeeShape, EmployeeInProgress, InTransaction
  <2>3. ASSUME NEW r \in AuthRequest, InsertUser(r)
        PROVE  FALSE
    <3>1. authCall[r].userId = NewAccountId[r] /\ authCall[r].pc = "insert"
      BY <1>2, <2>3, AuthKnown DEF InsertUser, AuthShape
    <3>2. NewUserId[q] = NewAccountId[r]
      BY <1>2, <2>1, <2>3, <3>1 DEF InsertUser, Table
    <3>3. r = q
      BY <3>2, UuidAssumption
    <3> QED
      BY <1>2, <2>2, <3>1, <3>3 DEF StaffInv, MadeOnce
  <2>4. ASSUME NEW r \in AuthRequest, WritePassword(r)
        PROVE  FALSE
    <3>1. authCall[r].userId \in UserId /\ users[authCall[r].userId] # None
      BY <1>2, <2>4, AuthKnown DEF WritePassword, AuthShape
    <3>2. users'[NewUserId[q]] = users[NewUserId[q]]
      BY <1>2, <2>1, <2>4, <3>1 DEF WritePassword, Table
    <3> QED
      BY <1>2, <3>2
  <2>5. PICK r \in EmployeeRequest : CommitEmployee(r)
    BY <1>2, <2>3, <2>4, Writers
  <2>6. r = q /\ employeeCall[q].pc = "commit"
    BY <1>2, <2>1, <2>5, CommitKnown, NewEmployeeAssumption
  <2>7. PICK w \in uncommittedStaff : w.by = q
    BY <1>2, <2>6 DEF StaffInv, StaffLocks, HoldsStaff
  <2>8. w.id = NewEmployeeId[q] /\ w.row # None
    BY <1>2, <2>7, CallKnown, AccountAssumption
    DEF EmployeeShape, StaffInv, StaffLocks, Typed, StaffTypeOK, AccountTypeOK
  <2>9. staff'[w.id] = w.row
    BY <1>2, <2>5, <2>6, <2>7, CommitEffect DEF CommitEmployee
  <2> QED
    BY <2>8, <2>9
<1>3. StaffInv /\ [StaffNext]_staffVars =>
        [/\ \A e \in EmployeeId : staff[e] = None /\ staff'[e] # None =>
              users[staff'[e].userId] = None /\ users'[staff'[e].userId] # None
         /\ \A q \in EmployeeRequest :
              /\ employeeCall[q].op = "create"
              /\ users[NewUserId[q]] = None /\ users'[NewUserId[q]] # None
              => staff'[NewEmployeeId[q]] # None]_staffVars
  BY <1>1, <1>2
<1> QED
  BY <1>3, StaffInvAlways, PTL DEF StaffSpec, HiredWhole
=============================================================================
