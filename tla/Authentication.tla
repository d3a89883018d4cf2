---------------------------- MODULE Authentication ----------------------------
(***************************************************************************)
(* auth.service.ts, and the strategies that guard its routes: register,    *)
(* login and changePassword as step machines, one step per awaited         *)
(* statement.  A password stands for its hash; a token for the user id it  *)
(* carries.                                                                *)
(***************************************************************************)
EXTENDS Accounts

CONSTANTS AuthRequest,    \* the calls, each made at most once
          NewAccountId    \* the UUID a registration would be given

VARIABLE authCall

ASSUME NewAccountAssumption ==
  /\ NewAccountId \in [AuthRequest -> UserId]
  /\ \A q1, q2 \in AuthRequest : NewAccountId[q1] = NewAccountId[q2] => q1 = q2
  /\ \A q \in AuthRequest : InitialUsers[NewAccountId[q]] = None
  /\ None \notin {"register", "login", "changePassword"}
-----------------------------------------------------------------------------
AuthInProgress == {"insert", "verify", "write", "audit"}
AuthEnded      == {"done", "refused", "crashed"}

AuthCall == [pc: {"idle"} \cup AuthInProgress \cup AuthEnded,
             op: {"register", "login", "changePassword", None},
             userId: UserId \cup {None},        \* registered, logged in, or the caller
             email: Name \cup {None},
             password: Password \cup {None},
             old: Password \cup {None}]         \* user.password, of the user named

IdleAuthCall == [pc |-> "idle", op |-> None, userId |-> None, email |-> None,
                 password |-> None, old |-> None]

AuthInit == authCall = [q \in AuthRequest |-> IdleAuthCall]

AuthTypeOK == authCall \in [AuthRequest -> AuthCall]

AuthGoto(q, pc) == authCall' = [authCall EXCEPT ![q].pc = pc]
AuthEnds(q, how) == authCall' = [authCall EXCEPT ![q] = [IdleAuthCall EXCEPT !.pc = how]]
-----------------------------------------------------------------------------
(* register: no look-up, the insert decides.                               *)
Register(q) ==
  /\ authCall[q].pc = "idle"
  /\ \E email \in Name, password \in Password :
       authCall' = [authCall EXCEPT ![q] =
         [IdleAuthCall EXCEPT !.pc = "insert", !.op = "register", !.userId = NewAccountId[q],
            !.email = email, !.password = password]]
  /\ UNCHANGED <<dbVars, auditVars, accountVars>>

Registered(q) == [email |-> authCall[q].email, username |-> authCall[q].email,
                  password |-> authCall[q].password, role |-> "EMPLOYEE"]

InsertUser(q) ==
  LET u == authCall[q].userId IN
  /\ authCall[q].pc = "insert"
  /\ ~UserBusy(q, u, Registered(q))
  /\ IF UserClash(u, Registered(q))
     THEN AuthEnds(q, "refused") /\ UNCHANGED users
     ELSE users' = [users EXCEPT ![u] = Registered(q)] /\ AuthGoto(q, "audit")
  /\ UNCHANGED <<dbVars, auditVars, staff, uncommittedUsers, uncommittedStaff>>
-----------------------------------------------------------------------------
(* login: the guard looks the user up, and then the service does again.    *)
Matching(email, password) ==
  {u \in UserId : users[u] # None /\ users[u].email = email /\ users[u].password = password}

Login(q) ==
  /\ authCall[q].pc = "idle"
  /\ \E email \in Name, password \in Password :
       IF Matching(email, password) = {}
       THEN AuthEnds(q, "refused")
       ELSE authCall' = [authCall EXCEPT ![q] = [IdleAuthCall EXCEPT
              !.pc = "verify", !.op = "login", !.email = email, !.password = password]]
  /\ UNCHANGED <<dbVars, auditVars, accountVars>>

VerifyLogin(q) ==
  /\ authCall[q].pc = "verify"
  /\ \/ /\ Matching(authCall[q].email, authCall[q].password) = {}
        /\ AuthEnds(q, "refused")
     \/ \E u \in Matching(authCall[q].email, authCall[q].password) :
          authCall' = [authCall EXCEPT ![q].pc = "audit", ![q].userId = u]
  /\ UNCHANGED <<dbVars, auditVars, accountVars>>
-----------------------------------------------------------------------------
(* Faulty: the change is made without its entry.                           *)
ChangePassword_Unlogged(q) ==
  /\ authCall[q].pc = "idle"
  /\ \E caller \in UserId, named \in UserId, password \in Password :
       /\ users[caller] # None
       /\ IF users[named] = None
          THEN AuthEnds(q, "refused")
          ELSE IF users[named].role # "ADMIN"
          THEN AuthEnds(q, "refused")
          ELSE authCall' = [authCall EXCEPT ![q] =
                 [IdleAuthCall EXCEPT !.pc = "write", !.op = "changePassword",
                    !.userId = caller, !.password = password, !.old = users[named].password]]
  /\ UNCHANGED <<dbVars, auditVars, accountVars>>

(* changePassword: the caller, whom a token named and the guard looked up, *)
(* names a user.  The user named is checked; the caller's row is written.  *)
ChangePassword(q) ==
  /\ authCall[q].pc = "idle"
  /\ \E caller \in UserId, named \in UserId, password \in Password :
       /\ users[caller] # None
       /\ IF users[named] = None
          THEN AuthEnds(q, "refused")
          ELSE IF users[named].role # "ADMIN"
          THEN AuthEnds(q, "refused")
          ELSE authCall' = [authCall EXCEPT ![q] =
                 [IdleAuthCall EXCEPT !.pc = "audit", !.op = "changePassword",
                    !.userId = caller, !.password = password, !.old = users[named].password]]
  /\ UNCHANGED <<dbVars, auditVars, accountVars>>

WritePassword(q) ==
  LET u == authCall[q].userId IN
  /\ authCall[q].pc = "write"
  /\ \A w \in uncommittedUsers : w.id # u          \* the row is not locked
  /\ users' = [users EXCEPT ![u].password = authCall[q].password]
  /\ AuthEnds(q, "done")
  /\ UNCHANGED <<dbVars, auditVars, staff, uncommittedUsers, uncommittedStaff>>
-----------------------------------------------------------------------------
PasswordEntry(u, old, new) ==
  AuditEntry("users", u, "UPDATE", [password |-> old], [password |-> new])

AuthEntry(q) ==
  LET c == authCall[q] IN
  CASE c.op = "register" -> AuditEntry("users", c.userId, "CREATE", None, Registered(q))
    [] c.op = "login" -> AuditEntry("users", c.userId, "READ", None, c.email)
    [] c.op = "changePassword" -> PasswordEntry(c.userId, c.old, c.password)

(* What a call does after its entry: a change of password is still to be   *)
(* made, a login is answered with a token.                                 *)
AuditAuth(q) ==
  /\ authCall[q].pc = "audit"
  /\ LogAudit(AuthEntry(q))
  /\ CASE authCall[q].op = "register" -> AuthEnds(q, "done")
       [] authCall[q].op = "login" -> AuthGoto(q, "done")
       [] authCall[q].op = "changePassword" -> AuthGoto(q, "write")
  /\ UNCHANGED <<dbVars, accountVars>>

(* The process dies, or a statement fails.                                 *)
AuthCrash(q) ==
  /\ authCall[q].pc \in AuthInProgress
  /\ AuthEnds(q, "crashed")
  /\ UNCHANGED <<dbVars, auditVars, accountVars>>
-----------------------------------------------------------------------------
AuthStart(q) == Register(q) \/ Login(q) \/ ChangePassword(q)

AuthStep(q) ==
  \/ InsertUser(q)
  \/ VerifyLogin(q)
  \/ WritePassword(q)
  \/ AuditAuth(q)
  \/ AuthCrash(q)

AuthQuiet == \A q \in AuthRequest : authCall[q].pc \notin AuthInProgress

(* The tokens handed out, which the guard of the other routes reads the    *)
(* user by (jwt.strategy.ts).                                              *)
Tokens == {authCall[q].userId : q \in {x \in AuthRequest : authCall[x].op = "login"
                                                           /\ authCall[x].pc = "done"}}
=============================================================================
