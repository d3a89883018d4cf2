---------------------------- MODULE StaffLifecycle ----------------------------
(***************************************************************************)
(* The life of employees and their users: the calls that hire, change and  *)
(* remove employees, and those that register users, log them in and change *)
(* passwords, over one database.                                           *)
(***************************************************************************)
EXTENDS Employees, Authentication

CONSTANT Crowd   \* bound: once requests overlap, at most so many are made

ASSUME CrowdAssumption == Crowd \in Nat

(* A user id is drawn once: by a registration or by a create.              *)
ASSUME UuidAssumption ==
  \A q1 \in EmployeeRequest, q2 \in AuthRequest : NewUserId[q1] = NewAccountId[q2] => q1 = q2

VARIABLE overlapped   \* history: a request arrived while another was served

staffVars == <<dbVars, auditVars, accountVars, today, employeeCall, authCall, overlapped>>

StaffInit == /\ DatabaseInit
             /\ AuditInit
             /\ AccountInit
             /\ ClockInit
             /\ EmployeeInit
             /\ AuthInit
             /\ overlapped = FALSE

StaffTypeOK == /\ DatabaseTypeOK
               /\ AccountTypeOK
               /\ EmployeeTypeOK
               /\ AuthTypeOK
               /\ overlapped \in BOOLEAN
-----------------------------------------------------------------------------
AllQuiet == EmployeeQuiet /\ AuthQuiet

(* A request in both of the sets goes to one service, once.                *)
Made(q) == \/ q \in EmployeeRequest /\ employeeCall[q].pc # "idle"
           \/ q \in AuthRequest /\ authCall[q].pc # "idle"

Requests == EmployeeRequest \cup AuthRequest

(* Another request comes, alone or not.                                    *)
Admitted(q) ==
  /\ ~Made(q)
  /\ overlapped' = (overlapped \/ ~AllQuiet)
  /\ overlapped' => Cardinality({x \in Requests : Made(x)}) < Crowd

EmployeeCallArrives == /\ \E q \in EmployeeRequest : Admitted(q) /\ EmployeeStart(q)
                       /\ UNCHANGED <<today, authCall>>

AuthCallArrives == /\ \E q \in AuthRequest : Admitted(q) /\ AuthStart(q)
                   /\ UNCHANGED <<today, employeeCall>>

EmployeeCallMoves == /\ \E q \in EmployeeRequest : EmployeeStep(q)
                     /\ UNCHANGED <<today, authCall, overlapped>>

AuthCallMoves == /\ \E q \in AuthRequest : AuthStep(q)
                 /\ UNCHANGED <<today, employeeCall, overlapped>>

StaffNext == \/ EmployeeCallArrives
             \/ AuthCallArrives
             \/ EmployeeCallMoves
             \/ AuthCallMoves

StaffSpec == StaffInit /\ [][StaffNext]_staffVars
-----------------------------------------------------------------------------
(* However calls interleave and wherever they die, an employee comes with  *)
(* its user and a user that a create was to insert with its employee       *)
(* (employee.service.ts, line 68: "Create user and employee in             *)
(* transaction").                                                          *)
HiredWhole ==
  [][/\ \A e \in EmployeeId : staff[e] = None /\ staff'[e] # None =>
          users[staff'[e].userId] = None /\ users'[staff'[e].userId] # None
     /\ \A q \in EmployeeRequest :
          /\ employeeCall[q].op = "create"
          /\ users[NewUserId[q]] = None /\ users'[NewUserId[q]] # None
          => staff'[NewEmployeeId[q]] # None]_staffVars

(* An employee and its user have the same email (line 248: "Update         *)
(* employee and user in transaction").                                     *)
EmailsEqual ==
  \A e \in EmployeeId : staff[e] # None => users[staff[e].userId].email = staff[e].email

(* As long as requests do not overlap, an employee and its user have the   *)
(* same email, also when an update dies between writing one and the other. *)
EmailsAgree == ~overlapped => EmailsEqual

(* The codes of the employees fit the padded width.                        *)
CodesFit == \A e \in EmployeeId : staff[e] # None => staff[e].employeeCode.sequence <= SeqCap

(* As long as requests do not overlap, a create that has passed its        *)
(* look-ups meets no key: they cover what the schema keeps unique, and the *)
(* code it generates is free, whoever has been removed meanwhile, as long  *)
(* as the codes fit their width (lines 32-66, 327-350).                    *)
LoneHireSucceeds ==
  \A q \in EmployeeRequest :
    /\ ~overlapped
    /\ employeeCall[q].op = "create"
    /\ employeeCall[q].pc \in {"user", "employee"}
    /\ CodesFit
    => /\ ~UserClash(NewUserId[q], WrittenUser(q))
       /\ ~StaffClash(NewEmployeeId[q], WrittenEmployee(q))

(* If e is hired now, then not under a number another employee has.        *)
HiredUnderOwnNumber(e) ==
  staff[e] = None /\ staff'[e] # None =>
    \A f \in EmployeeId : staff[f] # None => staff'[e].employeeNumber # staff[f].employeeNumber

(* As long as requests do not overlap, nobody is hired under a number      *)
(* another employee has: no key of the schema says so (lines 46-57).       *)
NumberHiredOnce ==
  [][\A e \in EmployeeId : ~overlapped => HiredUnderOwnNumber(e)]_staffVars

(* An employee is seen by others only when the entry of its creation has   *)
(* been handed to the log: no crash leaves one that was never logged,      *)
(* although the entry of one that was rolled back may stay (lines 108-131).*)
HireIsLogged ==
  [][\A e \in EmployeeId : staff[e] = None /\ staff'[e] # None =>
       Logged(AuditEntry("employee", e, "CREATE", None, staff'[e]))]_staffVars

(* A password changes only after the entry of the change has been handed   *)
(* to the log (auth.service.ts, lines 128-146).                            *)
PasswordChangeIsLogged ==
  [][\A u \in UserId :
       users[u] # None /\ users'[u].password # users[u].password =>
         \E old \in Password :
           Logged(PasswordEntry(u, old, users'[u].password))]_staffVars

(* The user of every token handed out is there for the guard to read,      *)
(* whoever is removed afterwards: jwt.strategy.ts (line 36) does not ask.  *)
TokensResolve == \A u \in Tokens : users[u] # None

(* A call whose next statement waits for the transaction of another, over  *)
(* a row or a key.  The connections of the pool are not counted: see the   *)
(* entries that creates and updates insert on a second one while their     *)
(* transaction holds the first (lines 108, 284).                           *)
Waits(q) ==
  \/ /\ q \in EmployeeRequest
     /\ LET c == employeeCall[q] IN
        \/ c.pc = "user" /\ ~UserGone(q) /\ UserBusy(q, c.userId, WrittenUser(q))
        \/ /\ c.pc = "employee" /\ ~EmployeeGone(q)
           /\ StaffBusy(q, c.employeeId, WrittenEmployee(q))
        \/ c.pc = "delete" /\ \E w \in uncommittedStaff : w.id = c.employeeId
  \/ /\ q \in AuthRequest
     /\ LET c == authCall[q] IN
        \/ c.pc = "insert" /\ UserBusy(q, c.userId, Registered(q))
        \/ c.pc = "write" /\ \E w \in uncommittedUsers : w.id = c.userId

(* Transactions never wait for one another's rows and keys in a circle:    *)
(* every one of them writes the user first and the employee second (lines  *)
(* 69-106, 249-282).                                                       *)
SomebodyMoves == AllQuiet \/ \E q \in Requests :
  /\ \/ q \in EmployeeRequest /\ employeeCall[q].pc \in EmployeeInProgress
     \/ q \in AuthRequest /\ authCall[q].pc \in AuthInProgress
  /\ ~Waits(q)
-----------------------------------------------------------------------------
(* What the code says and does not keep.                                   *)

(* employee.service.ts, line 310: "Delete employee (user will be cascade   *)
(* deleted)".                                                              *)
RemovalTakesUser ==
  [][\A e \in EmployeeId : staff[e] # None /\ staff'[e] = None =>
       users'[staff[e].userId] = None]_staffVars
=============================================================================
