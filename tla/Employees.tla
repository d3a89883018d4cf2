------------------------------ MODULE Employees ------------------------------
(***************************************************************************)
(* employee.service.ts: create, update and remove as step machines, one    *)
(* step per awaited statement.  create and update write an employee and    *)
(* its user in one transaction; the audit entry is awaited within it but   *)
(* inserted outside of it.                                                 *)
(***************************************************************************)
EXTENDS Accounts, Clock, NumberSequence

CONSTANTS EmployeeRequest,   \* the calls, each made at most once
          HireDto, StaffDto, \* the bodies of a create and of an update
          NewEmployeeId, NewUserId   \* the UUIDs a create would be given

VARIABLE employeeCall

ASSUME NewEmployeeAssumption ==
  /\ NewEmployeeId \in [EmployeeRequest -> EmployeeId]
  /\ NewUserId \in [EmployeeRequest -> UserId]
  /\ \A q1, q2 \in EmployeeRequest :
       NewEmployeeId[q1] = NewEmployeeId[q2] \/ NewUserId[q1] = NewUserId[q2] => q1 = q2
  /\ \A q \in EmployeeRequest : /\ InitialStaff[NewEmployeeId[q]] = None
                                /\ InitialUsers[NewUserId[q]] = None
  /\ None \notin {"create", "update", "remove"}

ASSUME StaffDtoAssumption ==
  /\ HireDto \subseteq [email: Name, username: Name, password: Password,
                        employeeNumber: EmployeeNumber, status: EmployeeStatus \cup {None}]
  /\ StaffDto \subseteq [email: Name \cup {None}, employeeNumber: EmployeeNumber \cup {None},
                         status: EmployeeStatus \cup {None}]
-----------------------------------------------------------------------------
InTransaction      == {"user", "employee", "audit", "commit"}   \* of create and update
EmployeeInProgress == {"employeeCheck", "code", "emailCheck", "delete", "auditRemoval"}
                      \cup InTransaction
EmployeeEnded      == {"done", "refused", "crashed"}

EmployeeCall == [pc: {"idle"} \cup EmployeeInProgress \cup EmployeeEnded,
                 op: {"create", "update", "remove", None},
                 employeeId: EmployeeId \cup {None},
                 dto: HireDto \cup StaffDto \cup {None},
                 userId: UserId \cup {None},
                 employeeCode: PayslipNumber \cup {None}]

IdleEmployeeCall == [pc |-> "idle", op |-> None, employeeId |-> None, dto |-> None,
                     userId |-> None, employeeCode |-> None]

EmployeeInit == employeeCall = [q \in EmployeeRequest |-> IdleEmployeeCall]

EmployeeTypeOK == employeeCall \in [EmployeeRequest -> EmployeeCall]

(* Move the call of q on; end it, with nothing kept of it.                 *)
EmployeeGoto(q, pc) == employeeCall' = [employeeCall EXCEPT ![q].pc = pc]
EmployeeEnds(q, how) ==
  employeeCall' = [employeeCall EXCEPT ![q] = [IdleEmployeeCall EXCEPT !.pc = how]]
-----------------------------------------------------------------------------
(* Faulty: an update writes the employee before its user.                  *)
Following_EmployeeFirst(q, pc) ==
  LET c == employeeCall[q] IN
  IF c.op = "update" /\ c.dto.email # None
  THEN CASE pc = "emailCheck" -> "employee"
         [] pc = "employee" -> "user"
         [] pc = "user" -> "audit"
         [] pc = "audit" -> "commit"
  ELSE CASE pc = "code" -> "user"
         [] pc = "user" -> "employee"
         [] pc = "employee" -> "audit"
         [] pc = "audit" -> "commit"

(* The order of the statements of create and update.                       *)
Following(q, pc) ==
  CASE pc \in {"code", "emailCheck"} -> "user"
    [] pc = "user" -> "employee"
    [] pc = "employee" -> "audit"
    [] pc = "audit" -> "commit"
-----------------------------------------------------------------------------
(* create                                                                  *)
CreateEmployee(q) ==
  /\ employeeCall[q].pc = "idle"
  /\ \E dto \in HireDto :
       IF \E u \in UserId : users[u] # None /\ SameUserKey(users[u], dto)
       THEN EmployeeEnds(q, "refused")
       ELSE employeeCall' = [employeeCall EXCEPT ![q] =
              [IdleEmployeeCall EXCEPT !.pc = "employeeCheck", !.op = "create", !.dto = dto,
                 !.employeeId = NewEmployeeId[q], !.userId = NewUserId[q]]]
  /\ UNCHANGED <<dbVars, auditVars, accountVars>>

(* Faulty: the numbers in use are not looked at.                           *)
Employed_ByEmail(dto) == \E e \in EmployeeId : staff[e] # None /\ staff[e].email = dto.email

Employed(dto) ==
  \E e \in EmployeeId : /\ staff[e] # None
                        /\ \/ staff[e].email = dto.email
                           \/ staff[e].employeeNumber = dto.employeeNumber

CheckEmployee(q) ==
  /\ employeeCall[q].pc = "employeeCheck"
  /\ IF Employed(employeeCall[q].dto) THEN EmployeeEnds(q, "refused") ELSE EmployeeGoto(q, "code")
  /\ UNCHANGED <<dbVars, auditVars, accountVars>>

CodesTaken(month) ==
  {n \in Sequence : \E e \in EmployeeId :
     staff[e] # None /\ staff[e].employeeCode = [month |-> month, sequence |-> n]}

GenerateEmployeeCode(q) ==
  /\ employeeCall[q].pc = "code"
  /\ \E n \in NextSequence(CodesTaken(MonthOf(today))) :
       employeeCall' = [employeeCall EXCEPT ![q].pc = Following(q, "code"),
         ![q].employeeCode = [month |-> MonthOf(today), sequence |-> n]]
  /\ UNCHANGED <<dbVars, auditVars, accountVars>>
-----------------------------------------------------------------------------
(* update                                                                  *)
EmailTaken(email, e) ==
  \E f \in EmployeeId \ {e} : staff[f] # None /\ staff[f].email = email

UpdateEmployee(q) ==
  /\ employeeCall[q].pc = "idle"
  /\ \E e \in EmployeeId, dto \in StaffDto :
       IF staff[e] = None
       THEN EmployeeEnds(q, "refused")
       ELSE employeeCall' = [employeeCall EXCEPT ![q] =
              [IdleEmployeeCall EXCEPT !.op = "update", !.dto = dto, !.employeeId = e,
                 !.userId = staff[e].userId,
                 !.pc = IF dto.email \in {None, staff[e].email}
                        THEN "employee" ELSE "emailCheck"]]
  /\ UNCHANGED <<dbVars, auditVars, accountVars>>

CheckEmail(q) ==
  /\ employeeCall[q].pc = "emailCheck"
  /\ IF EmailTaken(employeeCall[q].dto.email, employeeCall[q].employeeId)
     THEN EmployeeEnds(q, "refused")
     ELSE EmployeeGoto(q, Following(q, "emailCheck"))
  /\ UNCHANGED <<dbVars, auditVars, accountVars>>
-----------------------------------------------------------------------------
(* The transaction.                                                        *)
OrElse(value, otherwise) == IF value = None THEN otherwise ELSE value

(* Faulty: the status has no default.                                      *)
WrittenStatus_NoDefault(q) ==
  LET c == employeeCall[q] IN
  IF c.op = "create" THEN c.dto.status ELSE OrElse(c.dto.status, employees[c.employeeId])

(* The rows create inserts, or update leaves behind.                       *)
WrittenUser(q) ==
  LET c == employeeCall[q] IN
  IF c.op = "create"
  THEN [email |-> c.dto.email, username |-> c.dto.username, password |-> c.dto.password,
        role |-> "EMPLOYEE"]
  ELSE [users[c.userId] EXCEPT !.email = c.dto.email]

WrittenEmployee(q) ==
  LET c == employeeCall[q] IN
  IF c.op = "create"
  THEN [userId |-> c.userId, employeeCode |-> c.employeeCode,
        employeeNumber |-> c.dto.employeeNumber, email |-> c.dto.email]
  ELSE [staff[c.employeeId] EXCEPT !.email = OrElse(c.dto.email, @),
                                   !.employeeNumber = OrElse(c.dto.employeeNumber, @)]

WrittenStatus(q) ==
  LET c == employeeCall[q] IN
  OrElse(c.dto.status, IF c.op = "create" THEN "ACTIVE" ELSE employees[c.employeeId])

(* The transaction rolls back and the call ends.                           *)
TransactionAborts(q) ==
  /\ RollBackAccounts(q)
  /\ EmployeeEnds(q, "crashed")
  /\ UNCHANGED <<dbVars, auditVars>>

(* The update of a user or an employee that is gone finds no row.          *)
UserGone(q) == employeeCall[q].op = "update" /\ users[employeeCall[q].userId] = None
EmployeeGone(q) == employeeCall[q].op = "update" /\ staff[employeeCall[q].employeeId] = None

(* Faulty: the user is written outside the transaction.                    *)
WriteUser_Outside(q) ==
  LET u == employeeCall[q].userId
      row == WrittenUser(q) IN
  /\ employeeCall[q].pc = "user"
  /\ ~UserGone(q) => ~UserBusy(q, u, row)
  /\ IF UserGone(q) \/ UserClash(u, row)
     THEN TransactionAborts(q)
     ELSE /\ users' = [users EXCEPT ![u] = row]
          /\ EmployeeGoto(q, Following(q, "user"))
          /\ UNCHANGED <<dbVars, auditVars, staff, uncommittedUsers, uncommittedStaff>>

WriteUser(q) ==
  LET u == employeeCall[q].userId
      row == WrittenUser(q) IN
  /\ employeeCall[q].pc = "user"
  /\ ~UserGone(q) => ~UserBusy(q, u, row)
  /\ IF UserGone(q) \/ UserClash(u, row)
     THEN TransactionAborts(q)
     ELSE /\ uncommittedUsers' = uncommittedUsers \cup {[by |-> q, id |-> u, row |-> row]}
          /\ EmployeeGoto(q, Following(q, "user"))
          /\ UNCHANGED <<dbVars, auditVars, users, staff, uncommittedStaff>>

WriteEmployee(q) ==
  /\ employeeCall[q].pc = "employee"
  /\ \/ EmployeeGone(q) /\ TransactionAborts(q)
     \/ LET e == employeeCall[q].employeeId
            row == WrittenEmployee(q) IN
        /\ ~EmployeeGone(q)
        /\ ~StaffBusy(q, e, row)
        /\ IF StaffClash(e, row)
           THEN TransactionAborts(q)
           ELSE /\ uncommittedStaff' = uncommittedStaff \cup
                     {[by |-> q, id |-> e, row |-> row, status |-> WrittenStatus(q)]}
                /\ EmployeeGoto(q, Following(q, "employee"))
                /\ UNCHANGED <<dbVars, auditVars, users, staff, uncommittedUsers>>

(* An update logs the row it has just written as the old values.           *)
EmployeeEntry(q) ==
  LET c == employeeCall[q]
      row == CHOOSE w \in uncommittedStaff : w.by = q
  IN  IF c.op = "create" THEN AuditEntry("employee", c.employeeId, "CREATE", None, row.row)
      ELSE AuditEntry("employee", c.employeeId, "UPDATE", row.row, c.dto)

(* Faulty: only updates are logged.                                        *)
AuditEmployee_UpdatesOnly(q) ==
  /\ employeeCall[q].pc = "audit"
  /\ IF employeeCall[q].op = "create" THEN UNCHANGED auditVars ELSE LogAudit(EmployeeEntry(q))
  /\ EmployeeGoto(q, Following(q, "audit"))
  /\ UNCHANGED <<dbVars, accountVars>>

AuditEmployee(q) ==
  /\ employeeCall[q].pc = "audit"
  /\ LogAudit(EmployeeEntry(q))
  /\ EmployeeGoto(q, Following(q, "audit"))
  /\ UNCHANGED <<dbVars, accountVars>>

(* The transaction commits, and the service may not learn that it did.     *)
CommitEmployee(q) ==
  /\ employeeCall[q].pc = "commit"
  /\ CommitAccounts(q)
  /\ \E how \in {"done", "crashed"} : EmployeeEnds(q, how)
  /\ UNCHANGED <<attendancePeriods, attendances, overtimes, reimbursements, payslips, auditVars>>
-----------------------------------------------------------------------------
(* remove                                                                  *)
RemoveEmployee(q) ==
  /\ employeeCall[q].pc = "idle"
  /\ \E e \in EmployeeId :
       IF staff[e] = None
       THEN EmployeeEnds(q, "refused")
       ELSE employeeCall' = [employeeCall EXCEPT ![q] =
              [IdleEmployeeCall EXCEPT !.pc = "delete", !.op = "remove", !.employeeId = e]]
  /\ UNCHANGED <<dbVars, auditVars, accountVars>>

(* Faulty: the user goes with the employee.                                *)
DeleteEmployeeRow_WithUser(q) ==
  LET e == employeeCall[q].employeeId IN
  /\ employeeCall[q].pc = "delete"
  /\ staff[e] # None
  /\ \A w \in uncommittedStaff : w.id # e
  /\ DeleteEmployee(e)
  /\ users' = Without(users, {staff[e].userId})
  /\ staff' = Without(staff, {e})
  /\ EmployeeGoto(q, "auditRemoval")
  /\ UNCHANGED <<uncommittedUsers, uncommittedStaff, auditVars>>

(* The row goes with its children; the user it refers to stays.            *)
DeleteEmployeeRow(q) ==
  LET e == employeeCall[q].employeeId IN
  /\ employeeCall[q].pc = "delete"
  /\ \/ /\ staff[e] # None
        /\ \A w \in uncommittedStaff : w.id # e      \* the row is not locked
        /\ DeleteEmployee(e)
        /\ staff' = Without(staff, {e})
        /\ EmployeeGoto(q, "auditRemoval")
        /\ UNCHANGED <<users, uncommittedUsers, uncommittedStaff>>
     \/ /\ staff[e] = None
        /\ EmployeeEnds(q, "crashed")
        /\ UNCHANGED <<dbVars, accountVars>>
  /\ UNCHANGED auditVars

AuditEmployeeRemoval(q) ==
  /\ employeeCall[q].pc = "auditRemoval"
  /\ LogAudit(AuditEntry("employee", employeeCall[q].employeeId, "DELETE", None, None))
  /\ EmployeeEnds(q, "done")
  /\ UNCHANGED <<dbVars, accountVars>>
-----------------------------------------------------------------------------
(* The process dies, or a statement fails: an open transaction rolls back. *)
EmployeeCrash(q) ==
  /\ employeeCall[q].pc \in EmployeeInProgress
  /\ TransactionAborts(q)

EmployeeStart(q) == CreateEmployee(q) \/ UpdateEmployee(q) \/ RemoveEmployee(q)

EmployeeStep(q) ==
  \/ CheckEmployee(q)
  \/ GenerateEmployeeCode(q)
  \/ CheckEmail(q)
  \/ WriteUser(q)
  \/ WriteEmployee(q)
  \/ AuditEmployee(q)
  \/ CommitEmployee(q)
  \/ DeleteEmployeeRow(q)
  \/ AuditEmployeeRemoval(q)
  \/ EmployeeCrash(q)

EmployeeQuiet == \A q \in EmployeeRequest : employeeCall[q].pc \notin EmployeeInProgress
=============================================================================
