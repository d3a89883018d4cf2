------------------------------ MODULE Accounts ------------------------------
(***************************************************************************)
(* The tables the employee and the authentication services share (users,   *)
(* and the columns of employees that Database leaves out), and how the     *)
(* statements of open transactions meet in them.                           *)
(*                                                                         *)
(* What a transaction writes is uncommitted until it commits: nobody else  *)
(* reads it, and a statement of another that would write the same row, or  *)
(* take a key that the row has or is to have, waits for the transaction to *)
(* end (row locks and unique keys of PostgreSQL).                          *)
(***************************************************************************)
EXTENDS Audit

CONSTANTS UserId, EmployeeNumber,
          Name,              \* email addresses and usernames: registration
                             \* uses the one as the other
          Password,
          InitialUsers, InitialStaff

VARIABLES users,             \* the rows of the users table
          staff,             \* the employees table: user, code, number, email
          uncommittedUsers,  \* writes of open transactions, by call
          uncommittedStaff

accountVars == <<users, staff, uncommittedUsers, uncommittedStaff>>

UserRole == {"ADMIN", "EMPLOYEE"}
UserRow  == [email: Name, username: Name, password: Password, role: UserRole]
StaffRow == [userId: UserId, employeeCode: PayslipNumber, employeeNumber: EmployeeNumber,
             email: Name]

ASSUME AccountAssumption ==
  /\ None \notin UserId \cup UserRow \cup StaffRow
  /\ InitialUsers \in Table(UserId, UserRow)
  /\ InitialStaff \in Table(EmployeeId, StaffRow)
  /\ \A e \in EmployeeId : InitialStaff[e] # None =>
       /\ InitialUsers[InitialStaff[e].userId] # None
       /\ InitialUsers[InitialStaff[e].userId].email = InitialStaff[e].email
  /\ \A e, f \in EmployeeId :
       /\ InitialStaff[e] # None /\ InitialStaff[f] # None
       /\ InitialStaff[e].userId = InitialStaff[f].userId
       => e = f
  /\ \A db \in InitialDatabases, e \in EmployeeId :
       db.employees[e] = None <=> InitialStaff[e] = None

AccountInit == /\ users = InitialUsers
               /\ staff = InitialStaff
               /\ uncommittedUsers = {}
               /\ uncommittedStaff = {}

AccountTypeOK ==
  /\ users \in Table(UserId, UserRow)
  /\ staff \in Table(EmployeeId, StaffRow)
  /\ \A w \in uncommittedUsers : w.id \in UserId /\ w.row \in UserRow
  /\ \A w \in uncommittedStaff : /\ w.id \in EmployeeId /\ w.row \in StaffRow
                                 /\ w.status \in EmployeeStatus
-----------------------------------------------------------------------------
(* Unique keys of users: email, username; of employees: user, code, email. *)
SameUserKey(a, b)  == a.email = b.email \/ a.username = b.username
SameStaffKey(a, b) == \/ a.userId = b.userId
                      \/ a.employeeCode = b.employeeCode
                      \/ a.email = b.email

(* A write that a committed row keeps out.                                 *)
UserClash(u, row) ==
  \E v \in UserId \ {u} : users[v] # None /\ SameUserKey(users[v], row)
StaffClash(e, row) ==
  \E f \in EmployeeId \ {e} : staff[f] # None /\ SameStaffKey(staff[f], row)

(* A write of q that has to wait for another transaction.                  *)
UserBusy(q, u, row) ==
  \E w \in uncommittedUsers : w.by # q /\
    (w.id = u \/ \E r \in {w.row, users[w.id]} \ {None} : SameUserKey(r, row))
StaffBusy(q, e, row) ==
  \E w \in uncommittedStaff : w.by # q /\
    (w.id = e \/ \E r \in {w.row, staff[w.id]} \ {None} : SameStaffKey(r, row))
-----------------------------------------------------------------------------
(* The writes of the transaction of q are shown to all, or dropped.        *)
CommitAccounts(q) ==
  LET Mine(writes) == {w \in writes : w.by = q}
      After(table, writes) ==
        [id \in DOMAIN table |-> IF \E w \in writes : w.id = id
                                 THEN (CHOOSE w \in writes : w.id = id).row ELSE table[id]]
  IN /\ users' = After(users, Mine(uncommittedUsers))
     /\ staff' = After(staff, Mine(uncommittedStaff))
     /\ employees' = After(employees, {[id |-> w.id, row |-> w.status] :
                                         w \in Mine(uncommittedStaff)})
     /\ uncommittedUsers' = uncommittedUsers \ Mine(uncommittedUsers)
     /\ uncommittedStaff' = uncommittedStaff \ Mine(uncommittedStaff)

RollBackAccounts(q) ==
  /\ uncommittedUsers' = {w \in uncommittedUsers : w.by # q}
  /\ uncommittedStaff' = {w \in uncommittedStaff : w.by # q}
  /\ UNCHANGED <<users, staff>>
=============================================================================
