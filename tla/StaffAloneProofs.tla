--------------------------- MODULE StaffAloneProofs ---------------------------
(***************************************************************************)
(* Theorems about what StaffLifecycle keeps as long as requests do not     *)
(* overlap: what a call has checked is still so when it acts.              *)
(***************************************************************************)
EXTENDS StaffProofs

Serves(q) == \/ q \in EmployeeRequest /\ employeeCall[q].pc \in EmployeeInProgress
             \/ q \in AuthRequest /\ authCall[q].pc \in AuthInProgress

OneAtATime == \A q1, q2 \in Requests : Serves(q1) /\ Serves(q2) => q1 = q2

(* Every employee has a user of its own with the same email.               *)
Linked ==
  /\ \A e \in EmployeeId : staff[e] # None =>
       /\ users[staff[e].userId] # None
       /\ users[staff[e].userId].email = staff[e].email
  /\ \A e, f \in EmployeeId :
       /\ staff[e] # None /\ staff[f] # None
       /\ staff[e].userId = staff[f].userId
       => e = f

FreshStaff ==
  \A q \in EmployeeRequest :
    ~Made(q) \/ employeeCall[q].op = "create" => staff[NewEmployeeId[q]] = None

(* What the look-ups of a create found, and what it has written.           *)
LoneCreate(q) ==
  LET c == employeeCall[q] IN
  c.op = "create" =>
    /\ \A u \in UserId : users[u] # None => ~SameUserKey(users[u], c.dto)
    /\ c.pc # "employeeCheck" => ~Employed(c.dto)
    /\ c.pc \in InTransaction /\ CodesFit =>
         \A e \in EmployeeId : staff[e] # None => staff[e].employeeCode # c.employeeCode
    /\ \A w \in uncommittedUsers : w.by = q => w.row.email = c.dto.email
    /\ \A w \in uncommittedStaff : w.by = q =>
         w.row.email = c.dto.email /\ w.row.employeeNumber = c.dto.employeeNumber

(* The same of an update.                                                  *)
LoneUpdate(q) ==
  LET c == employeeCall[q] IN
  c.op = "update" =>
    /\ staff[c.employeeId] # None
    /\ c.userId = staff[c.employeeId].userId
    /\ \A w \in uncommittedUsers : w.by = q => w.row.email = c.dto.email /\ c.dto.email # None
    /\ c.pc \in HoldsUser /\ (\A w \in uncommittedUsers : w.by # q) =>
         c.dto.email \in {None, staff[c.employeeId].email}
    /\ \A w \in uncommittedStaff : w.by = q =>
         /\ w.row.userId = staff[c.employeeId].userId
         /\ w.row.email = OrElse(c.dto.email, staff[c.employeeId].email)

LoneInv == ~overlapped =>
  /\ OneAtATime
  /\ Linked
  /\ FreshStaff
  /\ \A q \in EmployeeRequest : LoneCreate(q) /\ LoneUpdate(q)
-----------------------------------------------------------------------------
LEMMA LoneInit == StaffInit => LoneInv
<1> SUFFICES ASSUME StaffInit
             PROVE  LoneInv
  OBVIOUS
<1> USE DEF StaffInit
<1>1. OneAtATime
  BY DEF OneAtATime, Serves, EmployeeInit, AuthInit, IdleEmployeeCall, IdleAuthCall,
         EmployeeInProgress, InTransaction, AuthInProgress
<1>2. Linked
  BY AccountAssumption DEF Linked, AccountInit
<1>3. FreshStaff
  BY NewEmployeeAssumption DEF FreshStaff, AccountInit
<1>4. \A q \in EmployeeRequest : LoneCreate(q) /\ LoneUpdate(q)
  BY NewEmployeeAssumption DEF LoneCreate, LoneUpdate, EmployeeInit, IdleEmployeeCall
<1> QED
  BY <1>1, <1>2, <1>3, <1>4 DEF LoneInv

(* While one call is served the others are not, and have nothing to write. *)
LEMMA Alone ==
  ASSUME StaffInv, LoneInv, ~overlapped, NEW q \in Requests, Serves(q)
  PROVE  /\ \A r \in EmployeeRequest \ {q} : employeeCall[r].op = None
         /\ \A w \in uncommittedUsers \cup uncommittedStaff : w.by = q
         /\ \A r \in Requests \ {q} : ~Serves(r)
<1>1. \A r \in Requests \ {q} : ~Serves(r)
  BY DEF LoneInv, OneAtATime
<1>2. \A r \in EmployeeRequest \ {q} : employeeCall[r].pc \notin EmployeeInProgress
  BY <1>1 DEF Serves, Requests
<1>3. \A r \in EmployeeRequest \ {q} : employeeCall[r].op = None
  BY <1>2, CallKnown DEF EmployeeShape
<1>4. \A w \in uncommittedUsers \cup uncommittedStaff : w.by = q
  BY <1>2 DEF StaffInv, UserLocks, StaffLocks, HoldsUser, HoldsStaff, EmployeeInProgress, InTransaction
<1> QED
  BY <1>1, <1>3, <1>4

(* When all is quiet no call has a field set and nothing is uncommitted.   *)
LEMMA Quiet ==
  ASSUME StaffInv, AllQuiet
  PROVE  /\ \A r \in EmployeeRequest : employeeCall[r].op = None
         /\ uncommittedUsers = {} /\ uncommittedStaff = {}
         /\ \A r \in Requests : ~Serves(r)
<1>1. \A r \in EmployeeRequest : employeeCall[r].pc \notin EmployeeInProgress
  BY DEF AllQuiet, EmployeeQuiet
<1>2. \A r \in EmployeeRequest : employeeCall[r].op = None
  BY <1>1, CallKnown DEF EmployeeShape
<1>3. uncommittedUsers = {} /\ uncommittedStaff = {}
  BY <1>1 DEF StaffInv, UserLocks, StaffLocks, HoldsUser, HoldsStaff, EmployeeInProgress, InTransaction
<1>4. \A r \in Requests : ~Serves(r)
  BY DEF AllQuiet, EmployeeQuiet, AuthQuiet, Serves
<1> QED
  BY <1>2, <1>3, <1>4

(* Only the call of q moves: what is left to show of the next state.       *)
LEMMA OnlyEmployeeMoves ==
  ASSUME StaffInv, NEW q \in EmployeeRequest,
         \A r \in EmployeeRequest \ {q} : employeeCall[r].op = None,
         \A r \in Requests \ {q} : ~Serves(r),
         NEW x, employeeCall' = [employeeCall EXCEPT ![q] = x],
         authCall' = authCall
  PROVE  /\ OneAtATime'
         /\ \A r \in EmployeeRequest \ {q} : LoneCreate(r)' /\ LoneUpdate(r)'
<1>1. /\ employeeCall'[q] = x
      /\ \A r \in EmployeeRequest \ {q} : employeeCall'[r] = employeeCall[r]
  BY DEF StaffInv, Typed, StaffTypeOK, EmployeeTypeOK
<1>2. OneAtATime'
  BY <1>1 DEF OneAtATime, Serves, Requests
<1>3. \A r \in EmployeeRequest \ {q} : LoneCreate(r)' /\ LoneUpdate(r)'
  BY <1>1, NewEmployeeAssumption DEF LoneCreate, LoneUpdate
<1> QED
  BY <1>2, <1>3

(* The frame of a step of q that commits and deletes nothing.              *)
LEMMA LoneFrame ==
  ASSUME StaffInv, LoneInv, ~overlapped, NEW q \in EmployeeRequest,
         \A r \in EmployeeRequest \ {q} : employeeCall[r].op = None,
         \A r \in Requests \ {q} : ~Serves(r),
         NEW x, employeeCall' = [employeeCall EXCEPT ![q] = x],
         x.pc # "idle", x.op = "create" => employeeCall[q].op = "create" \/ ~Made(q),
         UNCHANGED <<authCall, users, staff>>,
         LoneCreate(q)' /\ LoneUpdate(q)'
  PROVE  LoneInv'
<1>1. /\ employeeCall'[q] = x
      /\ \A r \in EmployeeRequest \ {q} : employeeCall'[r] = employeeCall[r]
  BY DEF StaffInv, Typed, StaffTypeOK, EmployeeTypeOK
<1>2. /\ OneAtATime'
      /\ \A r \in EmployeeRequest \ {q} : LoneCreate(r)' /\ LoneUpdate(r)'
  BY OnlyEmployeeMoves
<1>3. Linked'
  BY DEF LoneInv, Linked
<1>4. FreshStaff'
  BY <1>1 DEF LoneInv, FreshStaff, Made
<1> QED
  BY <1>2, <1>3, <1>4 DEF LoneInv

(* A call that has ended has nothing left to keep.                         *)
LEMMA LoneEnd ==
  ASSUME StaffInv, LoneInv, ~overlapped, NEW q \in EmployeeRequest,
         \A r \in EmployeeRequest \ {q} : employeeCall[r].op = None,
         \A r \in Requests \ {q} : ~Serves(r),
         NEW how \in EmployeeEnded, EmployeeEnds(q, how),
         UNCHANGED <<authCall, users, staff>>
  PROVE  LoneInv'
<1> DEFINE x == [IdleEmployeeCall EXCEPT !.pc = how]
<1>1. x.pc # "idle" /\ x.op = None
  BY DEF IdleEmployeeCall, EmployeeEnded
<1>2. employeeCall' = [employeeCall EXCEPT ![q] = x]
  BY DEF EmployeeEnds
<1> HIDE DEF x
<1>3. employeeCall'[q] = x
  BY <1>2 DEF StaffInv, Typed, StaffTypeOK, EmployeeTypeOK
<1>4. LoneCreate(q)' /\ LoneUpdate(q)'
  BY <1>1, <1>3, NewEmployeeAssumption DEF LoneCreate, LoneUpdate
<1> QED
  BY <1>1, <1>2, <1>4, NewEmployeeAssumption, LoneFrame
-----------------------------------------------------------------------------
LEMMA LoneEmployeeStart ==
  ASSUME StaffInv, LoneInv, ~overlapped, AllQuiet,
         NEW q \in EmployeeRequest, ~Made(q), EmployeeStart(q), UNCHANGED authCall
  PROVE  LoneInv'
<1>1. /\ \A r \in EmployeeRequest : employeeCall[r].op = None
      /\ uncommittedUsers = {} /\ uncommittedStaff = {}
      /\ \A r \in Requests : ~Serves(r)
  BY Quiet
<1>2. UNCHANGED <<users, staff, uncommittedUsers, uncommittedStaff>>
  BY DEF EmployeeStart, CreateEmployee, UpdateEmployee, RemoveEmployee, accountVars
<1>3. CASE EmployeeEnds(q, "refused")
  BY <1>1, <1>2, <1>3, LoneEnd DEF EmployeeEnded
<1>4. ASSUME NEW x, employeeCall' = [employeeCall EXCEPT ![q] = x], x.pc # "idle",
             x.op = "create" => /\ x.pc = "employeeCheck"
                                /\ \A u \in UserId : users[u] # None => ~SameUserKey(users[u], x.dto),
             x.op = "update" => /\ x.pc \in {"employee", "emailCheck"}
                                /\ staff[x.employeeId] # None
                                /\ x.userId = staff[x.employeeId].userId
                                /\ x.pc = "employee" =>
                                     x.dto.email \in {None, staff[x.employeeId].email}
      PROVE  LoneInv'
  <2>1. employeeCall'[q] = x
    BY <1>4 DEF StaffInv, Typed, StaffTypeOK, EmployeeTypeOK
  <2>2. LoneCreate(q)' /\ LoneUpdate(q)'
    BY <1>1, <1>2, <1>4, <2>1 DEF LoneCreate, LoneUpdate, InTransaction, HoldsUser
  <2> QED
    BY <1>1, <1>2, <1>4, <2>2, LoneFrame
<1>5. CASE CreateEmployee(q)
  <2>1. PICK dto \in HireDto :
          \/ EmployeeEnds(q, "refused")
          \/ /\ \A u \in UserId : users[u] # None => ~SameUserKey(users[u], dto)
             /\ employeeCall' = [employeeCall EXCEPT ![q] =
                  [IdleEmployeeCall EXCEPT !.pc = "employeeCheck", !.op = "create", !.dto = dto,
                     !.employeeId = NewEmployeeId[q], !.userId = NewUserId[q]]]
    BY <1>5 DEF CreateEmployee
  <2> DEFINE x == [IdleEmployeeCall EXCEPT !.pc = "employeeCheck", !.op = "create", !.dto = dto,
                     !.employeeId = NewEmployeeId[q], !.userId = NewUserId[q]]
  <2>2. x.pc = "employeeCheck" /\ x.op = "create" /\ x.dto = dto
    BY DEF IdleEmployeeCall
  <2>3. EmployeeEnds(q, "refused") \/ employeeCall' = [employeeCall EXCEPT ![q] = x]
    BY <2>1
  <2> HIDE DEF x
  <2> QED
    BY <1>3, <1>4, <2>1, <2>2, <2>3
<1>6. CASE UpdateEmployee(q)
  <2>1. PICK e \in EmployeeId, dto \in StaffDto :
          \/ EmployeeEnds(q, "refused")
          \/ /\ staff[e] # None
             /\ employeeCall' = [employeeCall EXCEPT ![q] =
                  [IdleEmployeeCall EXCEPT !.op = "update", !.dto = dto, !.employeeId = e,
                     !.userId = staff[e].userId,
                     !.pc = IF dto.email \in {None, staff[e].email}
                            THEN "employee" ELSE "emailCheck"]]
    BY <1>6 DEF UpdateEmployee
  <2> DEFINE x == [IdleEmployeeCall EXCEPT !.op = "update", !.dto = dto, !.employeeId = e,
                     !.userId = staff[e].userId,
                     !.pc = IF dto.email \in {None, staff[e].email}
                            THEN "employee" ELSE "emailCheck"]
  <2>2. /\ x.op = "update" /\ x.dto = dto /\ x.employeeId = e /\ x.userId = staff[e].userId
        /\ x.pc = IF dto.email \in {None, staff[e].email} THEN "employee" ELSE "emailCheck"
    BY DEF IdleEmployeeCall
  <2>3. EmployeeEnds(q, "refused") \/ employeeCall' = [employeeCall EXCEPT ![q] = x]
    BY <2>1
  <2> HIDE DEF x
  <2> QED
    BY <1>3, <1>4, <2>1, <2>2, <2>3
<1>7. CASE RemoveEmployee(q)
  <2>1. PICK e \in EmployeeId :
          \/ EmployeeEnds(q, "refused")
          \/ employeeCall' = [employeeCall EXCEPT ![q] =
               [IdleEmployeeCall EXCEPT !.pc = "delete", !.op = "remove", !.employeeId = e]]
    BY <1>7 DEF RemoveEmployee
  <2> DEFINE x == [IdleEmployeeCall EXCEPT !.pc = "delete", !.op = "remove", !.employeeId = e]
  <2>2. x.op = "remove" /\ x.pc = "delete"
    BY DEF IdleEmployeeCall
  <2>3. EmployeeEnds(q, "refused") \/ employeeCall' = [employeeCall EXCEPT ![q] = x]
    BY <2>1
  <2> HIDE DEF x
  <2> QED
    BY <1>3, <1>4, <2>1, <2>2, <2>3
<1> QED
  BY <1>5, <1>6, <1>7 DEF EmployeeStart
-----------------------------------------------------------------------------
(* The steps of a call of Employees.                                       *)

LEMMA LoneMove ==
  ASSUME StaffInv, LoneInv, ~overlapped, NEW q \in EmployeeRequest, Serves(q),
         NEW x, employeeCall' = [employeeCall EXCEPT ![q] = x],
         x.pc # "idle", x.op = employeeCall[q].op,
         UNCHANGED <<authCall, users, staff>>,
         LoneCreate(q)' /\ LoneUpdate(q)'
  PROVE  LoneInv'
<1>1. /\ \A r \in EmployeeRequest \ {q} : employeeCall[r].op = None
      /\ \A r \in Requests \ {q} : ~Serves(r)
  BY Alone DEF Requests
<1> QED
  BY <1>1, LoneFrame

LEMMA LoneStops ==
  ASSUME StaffInv, LoneInv, ~overlapped, NEW q \in EmployeeRequest, Serves(q),
         NEW how \in EmployeeEnded, EmployeeEnds(q, how),
         UNCHANGED <<authCall, users, staff>>
  PROVE  LoneInv'
<1>1. /\ \A r \in EmployeeRequest \ {q} : employeeCall[r].op = None
      /\ \A r \in Requests \ {q} : ~Serves(r)
  BY Alone DEF Requests
<1> QED
  BY <1>1, LoneEnd

LEMMA LoneGoes ==
  ASSUME StaffInv, LoneInv, ~overlapped, NEW q \in EmployeeRequest, Serves(q),
         NEW pc, pc # "idle",
         pc \notin HoldsUser \/ employeeCall[q].pc \in HoldsUser,
         employeeCall[q].op = "create" =>
           /\ pc # "employeeCheck" => ~Employed(employeeCall[q].dto)
           /\ pc \in InTransaction => employeeCall[q].pc \in InTransaction,
         EmployeeGoto(q, pc),
         UNCHANGED <<authCall, accountVars>>
  PROVE  LoneInv'
<1> DEFINE c == employeeCall[q]
           x == [c EXCEPT !.pc = pc]
<1>1. c \in EmployeeCall
  BY CallKnown
<1>2. /\ x.pc = pc /\ x.op = c.op /\ x.dto = c.dto /\ x.employeeId = c.employeeId
      /\ x.userId = c.userId /\ x.employeeCode = c.employeeCode
      /\ employeeCall' = [employeeCall EXCEPT ![q] = x]
  BY <1>1 DEF EmployeeCall, EmployeeGoto
<1> HIDE DEF x
<1>3. employeeCall'[q] = x
  BY <1>2 DEF StaffInv, Typed, StaffTypeOK, EmployeeTypeOK
<1>4. LoneCreate(q) /\ LoneUpdate(q) /\ UNCHANGED accountVars
  BY DEF LoneInv
<1> HIDE DEF c
<1>5. LoneCreate(q)'
  BY <1>2, <1>3, <1>4 DEF LoneCreate, Employed, CodesFit, accountVars, c
<1>6. LoneUpdate(q)'
  BY <1>2, <1>3, <1>4 DEF LoneUpdate, OrElse, accountVars, c
<1> QED
  BY <1>2, <1>5, <1>6, LoneMove DEF accountVars, c

LEMMA LoneLookUp ==
  ASSUME StaffInv, LoneInv, ~overlapped, NEW q \in EmployeeRequest, Serves(q),
         CheckEmployee(q) \/ CheckEmail(q) \/ AuditEmployee(q),
         UNCHANGED authCall
  PROVE  LoneInv'
<1>1. CASE EmployeeEnds(q, "refused") /\ UNCHANGED accountVars
  BY <1>1, LoneStops DEF EmployeeEnded, accountVars
<1>2. CASE CheckEmployee(q)
  <2>1. CASE Employed(employeeCall[q].dto)
    BY <1>1, <1>2, <2>1 DEF CheckEmployee
  <2>2. CASE ~Employed(employeeCall[q].dto)
    BY <1>2, <2>2, LoneGoes DEF CheckEmployee, HoldsUser, InTransaction
  <2> QED
    BY <2>1, <2>2
<1>3. CASE CheckEmail(q)
  <2>1. employeeCall[q].op = "update"
    BY <1>3, CallKnown DEF CheckEmail, EmployeeShape
  <2>2. Following(q, "emailCheck") = "user"
    BY DEF Following
  <2> QED
    BY <1>1, <1>3, <2>1, <2>2, LoneGoes DEF CheckEmail, HoldsUser
<1>4. CASE AuditEmployee(q)
  <2>1. Following(q, "audit") = "commit"
    BY DEF Following
  <2>2. employeeCall[q].op = "create" => ~Employed(employeeCall[q].dto)
    BY <1>4 DEF AuditEmployee, LoneInv, LoneCreate
  <2> QED
    BY <1>4, <2>1, <2>2, LoneGoes DEF AuditEmployee, HoldsUser, InTransaction
<1> QED
  BY <1>2, <1>3, <1>4

(* The code is new: the taken ones of the month fit their width.           *)
LEMMA LoneCode ==
  ASSUME StaffInv, LoneInv, ~overlapped, NEW q \in EmployeeRequest, Serves(q),
         GenerateEmployeeCode(q), UNCHANGED authCall
  PROVE  LoneInv'
<1> DEFINE c == employeeCall[q]
           taken == CodesTaken(MonthOf(today))
<1>1. PICK n \in NextSequence(taken) :
        employeeCall' = [employeeCall EXCEPT ![q].pc = Following(q, "code"),
          ![q].employeeCode = [month |-> MonthOf(today), sequence |-> n]]
  BY DEF GenerateEmployeeCode
<1> DEFINE code == [month |-> MonthOf(today), sequence |-> n]
           x == [c EXCEPT !.pc = "user", !.employeeCode = code]
<1>2. c \in EmployeeCall /\ c.op = "create" /\ c.pc = "code" /\ UNCHANGED accountVars
  BY CallKnown DEF GenerateEmployeeCode, EmployeeShape
<1>3. /\ x.pc = "user" /\ x.op = c.op /\ x.dto = c.dto /\ x.employeeCode = code
      /\ employeeCall' = [employeeCall EXCEPT ![q] = x]
  BY <1>1, <1>2 DEF EmployeeCall, Following
<1>4. CodesFit => \A e \in EmployeeId : staff[e] # None => staff[e].employeeCode # code
  <2> SUFFICES ASSUME CodesFit, NEW e \in EmployeeId, staff[e] # None,
                      staff[e].employeeCode = code
               PROVE  FALSE
    OBVIOUS
  <2>1. staff \in Table(EmployeeId, StaffRow)
    BY DEF StaffInv, Typed, StaffTypeOK, AccountTypeOK
  <2>2. \A f \in EmployeeId : staff[f] # None => staff[f].employeeCode \in PayslipNumber
    BY <2>1 DEF Table, StaffRow
  <2>3. taken \in SUBSET (1 .. SeqCap)
    BY <2>2, CapIsNatural DEF CodesTaken, CodesFit, Sequence
  <2>4. n \in taken
    <3>1. code \in PayslipNumber /\ code.sequence = n
      BY <2>2
    <3>2. n \in Nat \ {0} /\ n <= SeqCap
      BY <3>1 DEF PayslipNumber, CodesFit
    <3>3. n \in Sequence
      BY <3>2, CapIsNatural DEF Sequence
    <3> QED
      BY <3>3 DEF CodesTaken
  <2> QED
    BY <2>3, <2>4, NextSequenceIsNew
<1> HIDE DEF x
<1>5. employeeCall'[q] = x
  BY <1>3 DEF StaffInv, Typed, StaffTypeOK, EmployeeTypeOK
<1>6. LoneCreate(q)' /\ LoneUpdate(q)'
  BY <1>2, <1>3, <1>4, <1>5 DEF LoneInv, LoneCreate, LoneUpdate, Employed, CodesFit, accountVars
<1> QED
  BY <1>2, <1>3, <1>6, LoneMove DEF accountVars

LEMMA LoneAbort ==
  ASSUME StaffInv, LoneInv, ~overlapped, NEW q \in EmployeeRequest, Serves(q),
         TransactionAborts(q), UNCHANGED authCall
  PROVE  LoneInv'
BY LoneStops DEF TransactionAborts, RollBackAccounts, EmployeeEnded

LEMMA LoneAuditRemoval ==
  ASSUME StaffInv, LoneInv, ~overlapped, NEW q \in EmployeeRequest, Serves(q),
         AuditEmployeeRemoval(q), UNCHANGED authCall
  PROVE  LoneInv'
BY LoneStops DEF AuditEmployeeRemoval, accountVars, EmployeeEnded

LEMMA LoneWriteUser ==
  ASSUME StaffInv, LoneInv, ~overlapped, NEW q \in EmployeeRequest, Serves(q),
         WriteUser(q), UNCHANGED authCall
  PROVE  LoneInv'
<1> DEFINE c == employeeCall[q]
           x == [c EXCEPT !.pc = "employee"]
           w == [by |-> q, id |-> c.userId, row |-> WrittenUser(q)]
<1>1. CASE TransactionAborts(q)
  BY <1>1, LoneAbort
<1>2. CASE ~TransactionAborts(q)
  <2>1. /\ ~UserGone(q) /\ c.pc = "user"
        /\ uncommittedUsers' = uncommittedUsers \cup {w}
        /\ employeeCall' = [employeeCall EXCEPT ![q] = x]
        /\ UNCHANGED <<users, staff, uncommittedStaff>>
    BY <1>2 DEF WriteUser, EmployeeGoto, Following
  <2>2. c \in EmployeeCall /\ EmployeeShape(q, c)
    BY CallKnown
  <2>3. /\ x.pc = "employee" /\ x.op = c.op /\ x.dto = c.dto /\ x.employeeId = c.employeeId
        /\ x.userId = c.userId /\ x.employeeCode = c.employeeCode
    BY <2>2 DEF EmployeeCall
  <2>4. /\ w.by = q /\ (c.op = "update" => c.dto.email # None)
        /\ c.op \in {"create", "update"} => w.row.email = c.dto.email
    <3>1. c.op = "create" => w.row.email = c.dto.email
      BY DEF WrittenUser
    <3>2. c.op = "update" => users[c.userId] \in UserRow
      BY <2>1, <2>2 DEF UserGone, EmployeeShape, StaffInv, Typed, StaffTypeOK, AccountTypeOK, Table
    <3>3. c.op = "update" => w.row.email = c.dto.email
      BY <3>2 DEF WrittenUser, UserRow
    <3> QED
      BY <2>1, <2>2, <3>1, <3>3 DEF EmployeeShape
  <2> HIDE DEF x, w
  <2>5. employeeCall'[q] = x
    BY <2>1 DEF StaffInv, Typed, StaffTypeOK, EmployeeTypeOK
  <2>6. LoneCreate(q) /\ LoneUpdate(q)
    BY DEF LoneInv
  <2> HIDE DEF c
  <2>7. LoneCreate(q)'
    BY <2>1, <2>3, <2>4, <2>5, <2>6 DEF LoneCreate, Employed, CodesFit, c, InTransaction
  <2>8. LoneUpdate(q)'
    BY <2>1, <2>3, <2>4, <2>5, <2>6 DEF LoneUpdate, OrElse, c
  <2> QED
    BY <2>1, <2>3, <2>7, <2>8, LoneMove DEF c
<1> QED
  BY <1>1, <1>2

LEMMA LoneWriteEmployee ==
  ASSUME StaffInv, LoneInv, ~overlapped, NEW q \in EmployeeRequest, Serves(q),
         WriteEmployee(q), UNCHANGED authCall
  PROVE  LoneInv'
<1> DEFINE c == employeeCall[q]
           x == [c EXCEPT !.pc = "audit"]
           w == [by |-> q, id |-> c.employeeId, row |-> WrittenEmployee(q),
                 status |-> WrittenStatus(q)]
<1>1. CASE TransactionAborts(q)
  BY <1>1, LoneAbort
<1>2. CASE ~TransactionAborts(q)
  <2>1. /\ ~EmployeeGone(q) /\ c.pc = "employee"
        /\ uncommittedStaff' = uncommittedStaff \cup {w}
        /\ employeeCall' = [employeeCall EXCEPT ![q] = x]
        /\ UNCHANGED <<users, staff, uncommittedUsers>>
    BY <1>2 DEF WriteEmployee, EmployeeGoto, Following
  <2>2. c \in EmployeeCall /\ EmployeeShape(q, c)
    BY CallKnown
  <2>3. /\ x.pc = "audit" /\ x.op = c.op /\ x.dto = c.dto /\ x.employeeId = c.employeeId
        /\ x.userId = c.userId /\ x.employeeCode = c.employeeCode
    BY <2>2 DEF EmployeeCall
  <2>4. /\ w.by = q
        /\ c.op = "create" => /\ w.row.email = c.dto.email
                              /\ w.row.employeeNumber = c.dto.employeeNumber
        /\ c.op = "update" => /\ w.row.userId = staff[c.employeeId].userId
                              /\ w.row.email = OrElse(c.dto.email, staff[c.employeeId].email)
    <3>1. c.op = "update" => staff[c.employeeId] \in StaffRow
      <4>1. c.employeeId \in EmployeeId
        BY <2>1, <2>2 DEF EmployeeShape, EmployeeInProgress, InTransaction
      <4>2. staff \in Table(EmployeeId, StaffRow)
        BY DEF StaffInv, Typed, StaffTypeOK, AccountTypeOK
      <4> QED
        BY <2>1, <4>1, <4>2 DEF EmployeeGone, Table
    <3>2. c.op = "create" => /\ w.row.email = c.dto.email
                             /\ w.row.employeeNumber = c.dto.employeeNumber
      BY DEF WrittenEmployee
    <3>3. c.op = "update" => /\ w.row.userId = staff[c.employeeId].userId
                             /\ w.row.email = OrElse(c.dto.email, staff[c.employeeId].email)
      BY <3>1 DEF WrittenEmployee, StaffRow
    <3> QED
      BY <3>2, <3>3
  <2> HIDE DEF x, w
  <2>5. employeeCall'[q] = x
    BY <2>1 DEF StaffInv, Typed, StaffTypeOK, EmployeeTypeOK
  <2>6. LoneCreate(q) /\ LoneUpdate(q)
    BY DEF LoneInv
  <2> HIDE DEF c
  <2>7. LoneCreate(q)'
    BY <2>1, <2>3, <2>4, <2>5, <2>6 DEF LoneCreate, Employed, CodesFit, c, InTransaction
  <2>8. LoneUpdate(q)'
    BY <2>1, <2>3, <2>4, <2>5, <2>6 DEF LoneUpdate, OrElse, c, HoldsUser
  <2> QED
    BY <2>1, <2>3, <2>7, <2>8, LoneMove DEF c
<1> QED
  BY <1>1, <1>2

LEMMA LoneDelete ==
  ASSUME StaffInv, LoneInv, ~overlapped, NEW q \in EmployeeRequest, Serves(q),
         DeleteEmployeeRow(q), UNCHANGED authCall
  PROVE  LoneInv'
<1> DEFINE c == employeeCall[q]
           x == [c EXCEPT !.pc = "auditRemoval"]
<1>1. CASE EmployeeEnds(q, "crashed") /\ UNCHANGED accountVars
  BY <1>1, LoneStops DEF EmployeeEnded, accountVars
<1>2. CASE ~(EmployeeEnds(q, "crashed") /\ UNCHANGED accountVars)
  <2>1. /\ c.pc = "delete"
        /\ staff' = Without(staff, {c.employeeId})
        /\ employeeCall' = [employeeCall EXCEPT ![q] = x]
        /\ UNCHANGED users
    BY <1>2 DEF DeleteEmployeeRow, EmployeeGoto
  <2>2. c \in EmployeeCall /\ c.op = "remove" /\ x.pc = "auditRemoval" /\ x.op = "remove"
    BY <2>1, CallKnown DEF EmployeeCall, EmployeeShape
  <2> HIDE DEF x
  <2>3. employeeCall'[q] = x
    BY <2>1 DEF StaffInv, Typed, StaffTypeOK, EmployeeTypeOK
  <2>4. /\ \A r \in EmployeeRequest \ {q} : employeeCall[r].op = None
        /\ \A r \in Requests \ {q} : ~Serves(r)
    BY Alone DEF Requests
  <2>5. /\ OneAtATime'
        /\ \A r \in EmployeeRequest \ {q} : LoneCreate(r)' /\ LoneUpdate(r)'
    BY <2>1, <2>4, OnlyEmployeeMoves
  <2>6. LoneCreate(q)' /\ LoneUpdate(q)'
    BY <2>2, <2>3 DEF LoneCreate, LoneUpdate
  <2>7. \A e \in EmployeeId : staff'[e] # None => staff[e] # None /\ staff'[e] = staff[e]
    BY <2>1 DEF StaffInv, Typed, StaffTypeOK, AccountTypeOK, Table, Without
  <2>8. Linked'
    BY <2>1, <2>7, ZenonT(30) DEF LoneInv, Linked
  <2>9. FreshStaff'
    <3> SUFFICES ASSUME NEW r \in EmployeeRequest, ~Made(r)' \/ employeeCall'[r].op = "create"
                 PROVE  staff'[NewEmployeeId[r]] = None
      BY DEF FreshStaff
    <3>1. ~Made(r)
      BY <2>1, <2>2, <2>3, <2>4, NewEmployeeAssumption DEF Made, StaffInv, Typed, StaffTypeOK, EmployeeTypeOK
    <3>2. NewEmployeeId[r] \in EmployeeId /\ staff[NewEmployeeId[r]] = None
      BY <3>1, NewEmployeeAssumption DEF LoneInv, FreshStaff
    <3> QED
      BY <2>7, <3>2
  <2> QED
    BY <2>5, <2>6, <2>8, <2>9 DEF LoneInv
<1> QED
  BY <1>1, <1>2

LEMMA LoneCommit ==
  ASSUME StaffInv, LoneInv, ~overlapped, NEW q \in EmployeeRequest, Serves(q),
         CommitEmployee(q), UNCHANGED authCall
  PROVE  LoneInv'
<1> DEFINE c == employeeCall[q]
<1>1. /\ c.pc = "commit" /\ c.op \in {"create", "update"}
      /\ EmployeeShape(q, c)
  BY CallKnown, CommitKnown
<1>2. PICK how \in {"done", "crashed"} : EmployeeEnds(q, how)
  BY DEF CommitEmployee
<1> DEFINE x == [IdleEmployeeCall EXCEPT !.pc = how]
<1>3. /\ x.pc # "idle" /\ x.op = None
      /\ employeeCall' = [employeeCall EXCEPT ![q] = x]
  BY <1>2 DEF IdleEmployeeCall, EmployeeEnds
<1> HIDE DEF x
<1>4. employeeCall'[q] = x
  BY <1>3 DEF StaffInv, Typed, StaffTypeOK, EmployeeTypeOK
<1>5. /\ \A r \in EmployeeRequest \ {q} : employeeCall[r].op = None
      /\ \A w \in uncommittedUsers \cup uncommittedStaff : w.by = q
      /\ \A r \in Requests \ {q} : ~Serves(r)
  BY Alone DEF Requests
<1>6. /\ OneAtATime'
      /\ \A r \in EmployeeRequest \ {q} : LoneCreate(r)' /\ LoneUpdate(r)'
  BY <1>3, <1>5, OnlyEmployeeMoves
<1>7. LoneCreate(q)' /\ LoneUpdate(q)'
  BY <1>3, <1>4, NewEmployeeAssumption DEF LoneCreate, LoneUpdate
<1>8. /\ \A w \in uncommittedUsers : users'[w.id] = w.row
      /\ \A w \in uncommittedStaff : staff'[w.id] = w.row
      /\ \A u \in UserId : users'[u] # users[u] => \E w \in uncommittedUsers : w.id = u
      /\ \A e \in EmployeeId : staff'[e] # staff[e] => \E w \in uncommittedStaff : w.id = e
  BY <1>5, CommitEffect DEF CommitEmployee
<1>9. /\ \A w \in uncommittedUsers : w.id = c.userId
      /\ \A w \in uncommittedStaff : w.id = c.employeeId
      /\ c.employeeId \in EmployeeId
  BY <1>1, <1>5 DEF StaffInv, UserLocks, StaffLocks, EmployeeShape, EmployeeInProgress, InTransaction
<1>10. PICK v \in uncommittedStaff : v.by = q
  BY <1>1 DEF StaffInv, StaffLocks, HoldsStaff
<1> DEFINE e0 == c.employeeId
           u0 == c.userId
<1>11. /\ staff'[e0] = v.row
       /\ \A e \in EmployeeId \ {e0} : staff'[e] = staff[e]
       /\ \A u \in UserId \ {u0} : users'[u] = users[u]
  BY <1>8, <1>9, <1>10
<1>12. /\ LoneCreate(q) /\ LoneUpdate(q) /\ Linked /\ FreshStaff
       /\ \A e \in EmployeeId : staff[e] # None => staff[e].userId \in UserId
       /\ \A u \in UserId : users'[u] # users[u] => users'[u] # None
  <2>1. staff \in Table(EmployeeId, StaffRow)
    BY DEF StaffInv, Typed, StaffTypeOK, AccountTypeOK
  <2>2. \A e \in EmployeeId : staff[e] # None => staff[e].userId \in UserId
    BY <2>1 DEF Table, StaffRow
  <2> QED
    BY <2>2, CommitKnown DEF LoneInv
(* The employee written is its user's only one, and has its user's email. *)
<1>13. /\ users'[v.row.userId] # None
       /\ users'[v.row.userId].email = v.row.email
       /\ v.row.userId = u0
       /\ \A e \in EmployeeId \ {e0} : staff[e] # None => staff[e].userId # u0
  <2>1. CASE c.op = "create"
    <3>1. PICK w \in uncommittedUsers : w.by = q
      BY <1>1, <2>1 DEF StaffInv, UserLocks, HoldsUser
    <3>2. users'[u0] = w.row /\ w.row.email = c.dto.email
      BY <1>8, <1>9, <1>12, <2>1, <3>1 DEF LoneCreate
    <3>3. v.row.userId = u0 /\ v.row.email = c.dto.email
      BY <1>10, <1>12, <2>1 DEF LoneCreate, StaffInv, StaffLocks
    <3>4. users[u0] = None /\ u0 \in UserId
      BY <1>1, <2>1, NewEmployeeAssumption DEF StaffInv, FreshUsers, EmployeeShape
    <3>5. \A e \in EmployeeId : staff[e] # None => staff[e].userId # u0
      BY <1>12, <3>4 DEF Linked
    <3>6. users'[u0] # None
      <4>1. w.row \in UserRow
        BY DEF StaffInv, Typed, StaffTypeOK, AccountTypeOK
      <4> QED
        BY <3>2, <4>1, AccountAssumption
    <3> QED
      BY <3>2, <3>3, <3>5, <3>6
  <2>2. CASE c.op = "update"
    <3>1. /\ staff[e0] # None /\ u0 = staff[e0].userId /\ u0 \in UserId
          /\ v.row.userId = u0
          /\ v.row.email = OrElse(c.dto.email, staff[e0].email)
      BY <1>10, <1>12, <2>2, <1>9 DEF LoneUpdate
    <3>2. users[u0] # None /\ users[u0].email = staff[e0].email
      BY <1>9, <1>12, <3>1 DEF Linked
    <3>3. users'[u0] # None
      BY <1>12, <3>1, <3>2
    <3>4. users'[u0].email = v.row.email
      <4>1. CASE \E w \in uncommittedUsers : w.by = q
        <5>1. PICK w \in uncommittedUsers : w.by = q
          BY <4>1
        <5>2. users'[u0] = w.row /\ w.row.email = c.dto.email /\ c.dto.email # None
          BY <1>8, <1>9, <1>12, <2>2, <5>1 DEF LoneUpdate
        <5> QED
          BY <3>1, <5>2 DEF OrElse
      <4>2. CASE \A w \in uncommittedUsers : w.by # q
        <5>1. users'[u0] = users[u0]
          BY <1>5, <1>8, <3>1, <4>2
        <5>2. c.dto.email \in {None, staff[e0].email}
          BY <1>1, <1>12, <2>2, <4>2 DEF LoneUpdate, HoldsUser
        <5> QED
          BY <3>1, <3>2, <5>1, <5>2 DEF OrElse
      <4> QED
        BY <4>1, <4>2
    <3>5. \A e \in EmployeeId \ {e0} : staff[e] # None => staff[e].userId # u0
      BY <1>9, <1>12, <3>1 DEF Linked
    <3> QED
      BY <3>1, <3>3, <3>4, <3>5
  <2> QED
    BY <1>1, <2>1, <2>2
<1> HIDE DEF c, e0, u0
<1>14. Linked'
  <2>1. ASSUME NEW e \in EmployeeId, staff'[e] # None
        PROVE  users'[staff'[e].userId] # None /\ users'[staff'[e].userId].email = staff'[e].email
    <3>1. CASE e = e0
      BY <1>11, <1>13, <3>1
    <3>2. CASE e # e0
      BY <1>11, <1>12, <1>13, <2>1, <3>2 DEF Linked
    <3> QED
      BY <3>1, <3>2
  <2>2. ASSUME NEW e \in EmployeeId, NEW f \in EmployeeId, staff'[e] # None, staff'[f] # None,
               staff'[e].userId = staff'[f].userId
        PROVE  e = f
    <3>1. CASE e # e0 /\ f # e0
      BY <1>11, <1>12, <2>2, <3>1 DEF Linked
    <3>2. CASE e = e0 \/ f = e0
      BY <1>11, <1>13, <2>2, <3>2
    <3> QED
      BY <3>1, <3>2
  <2> QED
    BY <2>1, <2>2 DEF Linked
<1>15. FreshStaff'
  <2> SUFFICES ASSUME NEW r \in EmployeeRequest, ~Made(r)' \/ employeeCall'[r].op = "create"
               PROVE  staff'[NewEmployeeId[r]] = None
    BY DEF FreshStaff
  <2>1. ~Made(r) /\ r # q
    BY <1>1, <1>3, <1>4, <1>5, NewEmployeeAssumption
    DEF Made, StaffInv, Typed, StaffTypeOK, EmployeeTypeOK
  <2>2. NewEmployeeId[r] \in EmployeeId /\ staff[NewEmployeeId[r]] = None
    BY <1>12, <2>1, NewEmployeeAssumption DEF FreshStaff
  <2>3. NewEmployeeId[r] # e0
    BY <1>1, <1>12, <2>1, <2>2, NewEmployeeAssumption DEF EmployeeShape, LoneUpdate, c, e0
  <2> QED
    BY <1>11, <2>2, <2>3
<1> QED
  BY <1>6, <1>7, <1>14, <1>15 DEF LoneInv

LEMMA LoneEmployeeStep ==
  ASSUME StaffInv, LoneInv, ~overlapped, NEW q \in EmployeeRequest, EmployeeStep(q),
         UNCHANGED authCall
  PROVE  LoneInv'
<1>1. Serves(q)
  BY DEF EmployeeStep, Serves, CheckEmployee, GenerateEmployeeCode, CheckEmail, WriteUser,
         WriteEmployee, AuditEmployee, CommitEmployee, DeleteEmployeeRow, AuditEmployeeRemoval,
         EmployeeCrash, EmployeeInProgress, InTransaction
<1> QED
  BY <1>1, LoneLookUp, LoneCode, LoneWriteUser, LoneWriteEmployee, LoneCommit, LoneDelete,
     LoneAuditRemoval, LoneAbort
  DEF EmployeeStep, EmployeeCrash
-----------------------------------------------------------------------------
(* The calls of Authentication.                                            *)

LEMMA LoneAuth ==
  ASSUME StaffInv, LoneInv, ~overlapped, NEW q \in AuthRequest,
         \A r \in Requests \ {q} : ~Serves(r),
         \A r \in EmployeeRequest : employeeCall[r].op = None,
         NEW x, authCall' = [authCall EXCEPT ![q] = x], x.pc # "idle",
         UNCHANGED <<employeeCall, staff>>,
         \A u \in UserId : users[u] # None => users'[u] # None /\ users'[u].email = users[u].email
  PROVE  LoneInv'
<1>1. /\ authCall'[q] = x
      /\ \A r \in AuthRequest \ {q} : authCall'[r] = authCall[r]
  BY DEF StaffInv, Typed, StaffTypeOK, AuthTypeOK
<1>2. OneAtATime'
  BY <1>1 DEF OneAtATime, Serves, Requests
<1>3. \A e \in EmployeeId : staff[e] # None => staff[e].userId \in UserId
  <2>1. staff \in Table(EmployeeId, StaffRow)
    BY DEF StaffInv, Typed, StaffTypeOK, AccountTypeOK
  <2> QED
    BY <2>1 DEF Table, StaffRow
<1>4. Linked'
  BY <1>3 DEF LoneInv, Linked
<1>5. FreshStaff'
  BY <1>1, NewEmployeeAssumption DEF LoneInv, FreshStaff, Made
<1>6. \A r \in EmployeeRequest : LoneCreate(r)' /\ LoneUpdate(r)'
  BY NewEmployeeAssumption DEF LoneCreate, LoneUpdate
<1> QED
  BY <1>2, <1>4, <1>5, <1>6 DEF LoneInv

LEMMA LoneAuthStart ==
  ASSUME StaffInv, LoneInv, ~overlapped, AllQuiet, NEW q \in AuthRequest, AuthStart(q),
         UNCHANGED employeeCall
  PROVE  LoneInv'
<1>1. /\ \A r \in EmployeeRequest : employeeCall[r].op = None
      /\ \A r \in Requests \ {q} : ~Serves(r)
  BY Quiet
<1>2. UNCHANGED <<users, staff>>
  BY DEF AuthStart, Register, Login, ChangePassword, accountVars
<1>3. \E x : authCall' = [authCall EXCEPT ![q] = x] /\ x.pc # "idle"
  <2>1. ASSUME NEW how \in AuthEnded, AuthEnds(q, how)
        PROVE  \E x : authCall' = [authCall EXCEPT ![q] = x] /\ x.pc # "idle"
    <3>1. [IdleAuthCall EXCEPT !.pc = how].pc = how
      BY DEF IdleAuthCall
    <3>2. how # "idle"
      BY DEF AuthEnded
    <3> QED
      BY <2>1, <3>1, <3>2 DEF AuthEnds
  <2>2. CASE Register(q)
    <3>1. PICK email \in Name, password \in Password :
            authCall' = [authCall EXCEPT ![q] =
              [IdleAuthCall EXCEPT !.pc = "insert", !.op = "register", !.userId = NewAccountId[q],
                 !.email = email, !.password = password]]
      BY <2>2 DEF Register
    <3> DEFINE x == [IdleAuthCall EXCEPT !.pc = "insert", !.op = "register",
                     !.userId = NewAccountId[q], !.email = email, !.password = password]
    <3>2. x.pc # "idle"
      BY DEF IdleAuthCall
    <3>3. authCall' = [authCall EXCEPT ![q] = x]
      BY <3>1
    <3> HIDE DEF x
    <3> QED
      BY <3>2, <3>3
  <2>3. CASE Login(q)
    <3>1. PICK email \in Name, password \in Password :
            \/ AuthEnds(q, "refused")
            \/ authCall' = [authCall EXCEPT ![q] = [IdleAuthCall EXCEPT
                 !.pc = "verify", !.op = "login", !.email = email, !.password = password]]
      BY <2>3 DEF Login
    <3> DEFINE x == [IdleAuthCall EXCEPT
                     !.pc = "verify", !.op = "login", !.email = email, !.password = password]
    <3>2. x.pc # "idle"
      BY DEF IdleAuthCall
    <3>3. AuthEnds(q, "refused") \/ authCall' = [authCall EXCEPT ![q] = x]
      BY <3>1
    <3> HIDE DEF x
    <3> QED
      BY <2>1, <3>2, <3>3 DEF AuthEnded
  <2>4. CASE ChangePassword(q)
    <3>1. PICK caller \in UserId, named \in UserId, password \in Password :
            \/ AuthEnds(q, "refused")
            \/ authCall' = [authCall EXCEPT ![q] =
                 [IdleAuthCall EXCEPT !.pc = "audit", !.op = "changePassword",
                    !.userId = caller, !.password = password, !.old = users[named].password]]
      BY <2>4 DEF ChangePassword
    <3> DEFINE x == [IdleAuthCall EXCEPT !.pc = "audit", !.op = "changePassword",
                     !.userId = caller, !.password = password, !.old = users[named].password]
    <3>2. x.pc # "idle"
      BY DEF IdleAuthCall
    <3>3. AuthEnds(q, "refused") \/ authCall' = [authCall EXCEPT ![q] = x]
      BY <3>1
    <3> HIDE DEF x
    <3> QED
      BY <2>1, <3>2, <3>3 DEF AuthEnded
  <2> QED
    BY <2>2, <2>3, <2>4 DEF AuthStart
<1> QED
  BY <1>1, <1>2, <1>3, LoneAuth

LEMMA LoneAuthStep ==
  ASSUME StaffInv, LoneInv, ~overlapped, NEW q \in AuthRequest, AuthStep(q),
         UNCHANGED employeeCall
  PROVE  LoneInv'
<1> DEFINE c == authCall[q]
<1>1. c \in AuthCall /\ AuthShape(q, c, users) /\ c.pc \in AuthInProgress
  BY AuthKnown DEF AuthStep, InsertUser, VerifyLogin, WritePassword, AuditAuth, AuthCrash,
                   AuthInProgress
<1>2. /\ \A r \in EmployeeRequest : employeeCall[r].op = None
      /\ \A r \in Requests \ {q} : ~Serves(r)
  <2>1. Serves(q) /\ q \in Requests
    BY <1>1 DEF Serves, Requests
  <2>2. /\ \A r \in EmployeeRequest \ {q} : employeeCall[r].op = None
        /\ \A r \in Requests \ {q} : ~Serves(r)
    BY <2>1, Alone
  <2>3. q \in EmployeeRequest => employeeCall[q].op = None
    <3>1. q \in EmployeeRequest => employeeCall[q].pc = "idle"
      BY <1>1 DEF StaffInv, MadeOnce, AuthInProgress
    <3> QED
      BY <3>1, CallKnown DEF EmployeeShape, EmployeeInProgress, InTransaction
  <2> QED
    BY <2>2, <2>3
<1>3. \A u \in UserId : users[u] # None => users'[u] # None /\ users'[u].email = users[u].email
  <2>1. users \in Table(UserId, UserRow)
    BY DEF StaffInv, Typed, StaffTypeOK, AccountTypeOK
  <2>2. CASE UNCHANGED users
    BY <2>2
  <2>3. CASE InsertUser(q)
    <3>1. c.userId = NewAccountId[q] /\ users[c.userId] = None
      BY <1>1, <2>3 DEF InsertUser, AuthShape, StaffInv, FreshUsers
    <3> QED
      BY <2>1, <2>3, <3>1 DEF InsertUser, Table
  <2>4. CASE WritePassword(q)
    <3>1. \A u \in UserId : users[u] # None => users[u] \in UserRow
      BY <2>1 DEF Table
    <3>2. users' = [users EXCEPT ![c.userId].password = c.password] /\ c.password \in Password
      BY <1>1, <2>4 DEF WritePassword, AuthShape
    <3>3. \A u \in UserId : users[u] # None => users'[u] \in UserRow /\ users'[u].email = users[u].email
      BY <2>1, <3>1, <3>2 DEF Table, UserRow
    <3> QED
      BY <3>3, AccountAssumption
  <2> QED
    BY <2>2, <2>3, <2>4 DEF AuthStep, VerifyLogin, AuditAuth, AuthCrash, accountVars
<1>4. UNCHANGED staff
  BY DEF AuthStep, InsertUser, WritePassword, VerifyLogin, AuditAuth, AuthCrash, accountVars
<1>5. \E x : authCall' = [authCall EXCEPT ![q] = x] /\ x.pc # "idle"
  <2>1. ASSUME NEW how \in AuthEnded \cup AuthInProgress, AuthEnds(q, how) \/ AuthGoto(q, how)
        PROVE  \E x : authCall' = [authCall EXCEPT ![q] = x] /\ x.pc # "idle"
    <3>1. [IdleAuthCall EXCEPT !.pc = how].pc = how /\ [c EXCEPT !.pc = how].pc = how
      BY <1>1 DEF IdleAuthCall, AuthCall
    <3>2. how # "idle"
      BY DEF AuthEnded, AuthInProgress
    <3> QED
      BY <2>1, <3>1, <3>2 DEF AuthEnds, AuthGoto
  <2>2. CASE InsertUser(q) \/ WritePassword(q) \/ AuthCrash(q)
    BY <2>1, <2>2 DEF InsertUser, WritePassword, AuthCrash, AuthEnded, AuthInProgress
  <2>3. CASE AuditAuth(q)
    <3>1. c.op \in {"register", "login", "changePassword"}
      BY <1>1, <2>3 DEF AuditAuth, AuthShape
    <3> QED
      BY <2>1, <2>3, <3>1 DEF AuditAuth, AuthEnded, AuthInProgress
  <2>4. CASE VerifyLogin(q)
    <3>1. CASE AuthEnds(q, "refused")
      BY <2>1, <3>1 DEF AuthEnded
    <3>2. CASE \E u : authCall' = [authCall EXCEPT ![q].pc = "audit", ![q].userId = u]
      <4>1. PICK u : authCall' = [authCall EXCEPT ![q] = [c EXCEPT !.pc = "audit", !.userId = u]]
        BY <3>2
      <4>2. [c EXCEPT !.pc = "audit", !.userId = u].pc = "audit"
        BY <1>1 DEF AuthCall
      <4> QED
        BY <4>1, <4>2
    <3> QED
      BY <2>4, <3>1, <3>2 DEF VerifyLogin
  <2> QED
    BY <2>2, <2>3, <2>4 DEF AuthStep
<1> QED
  BY <1>2, <1>3, <1>4, <1>5, LoneAuth
-----------------------------------------------------------------------------
(* The invariant, and what follows from it.                                *)

LEMMA LoneInvInductive == StaffInv /\ LoneInv /\ [StaffNext]_staffVars => LoneInv'
<1> SUFFICES ASSUME StaffInv, LoneInv, [StaffNext]_staffVars, ~overlapped'
             PROVE  LoneInv'
  BY DEF LoneInv
<1>1. CASE EmployeeCallArrives
  <2>1. PICK q \in EmployeeRequest : Admitted(q) /\ EmployeeStart(q)
    BY <1>1 DEF EmployeeCallArrives
  <2>2. ~overlapped /\ AllQuiet /\ ~Made(q) /\ UNCHANGED authCall
    BY <1>1, <2>1 DEF Admitted, EmployeeCallArrives, StaffInv, Typed, StaffTypeOK
  <2> QED
    BY <2>1, <2>2, LoneEmployeeStart
<1>2. CASE AuthCallArrives
  <2>1. PICK q \in AuthRequest : Admitted(q) /\ AuthStart(q)
    BY <1>2 DEF AuthCallArrives
  <2>2. ~overlapped /\ AllQuiet /\ UNCHANGED employeeCall
    BY <1>2, <2>1 DEF Admitted, AuthCallArrives, StaffInv, Typed, StaffTypeOK
  <2> QED
    BY <2>1, <2>2, LoneAuthStart
<1>3. CASE EmployeeCallMoves
  BY <1>3, LoneEmployeeStep DEF EmployeeCallMoves
<1>4. CASE AuthCallMoves
  BY <1>4, LoneAuthStep DEF AuthCallMoves
<1>5. CASE UNCHANGED staffVars
  <2> USE <1>5 DEF staffVars, dbVars, auditVars, accountVars
  <2>1. ~overlapped /\ OneAtATime' /\ Linked' /\ FreshStaff'
    BY DEF LoneInv, OneAtATime, Serves, Linked, FreshStaff, Made
  <2>2. \A q \in EmployeeRequest : LoneCreate(q)' /\ LoneUpdate(q)'
    BY DEF LoneInv, LoneCreate, LoneUpdate, Employed, CodesFit
  <2> QED
    BY <2>1, <2>2 DEF LoneInv
<1> QED
  BY <1>1, <1>2, <1>3, <1>4, <1>5 DEF StaffNext

LEMMA LoneInvAlways == StaffSpec => []LoneInv
BY LoneInit, LoneInvInductive, StaffInvAlways, PTL DEF StaffSpec

(* As long as requests do not overlap, an employee and its user have the   *)
(* same email, wherever an update stops.                                   *)
THEOREM EmailsStayEqual == StaffSpec => []EmailsAgree
<1>1. LoneInv => EmailsAgree
  BY DEF LoneInv, Linked, EmailsAgree, EmailsEqual
<1> QED
  BY <1>1, LoneInvAlways, PTL

(* As long as requests do not overlap and the codes fit their width, what  *)
(* a create has looked up covers every key its rows have to keep.          *)
THEOREM LoneHiresSucceed == StaffSpec => []LoneHireSucceeds
<1>1. ASSUME StaffInv, LoneInv, NEW q \in EmployeeRequest, ~overlapped,
             employeeCall[q].op = "create", employeeCall[q].pc \in {"user", "employee"}, CodesFit
      PROVE  /\ ~UserClash(NewUserId[q], WrittenUser(q))
             /\ ~StaffClash(NewEmployeeId[q], WrittenEmployee(q))
  <2> DEFINE c == employeeCall[q]
  <2>1. LoneCreate(q) /\ Linked /\ c.pc \in InTransaction /\ c.pc # "employeeCheck"
    BY <1>1 DEF LoneInv, InTransaction
  <2>2. c.userId = NewUserId[q] /\ users[NewUserId[q]] = None
    BY <1>1, CallKnown DEF EmployeeShape, StaffInv, FreshUsers
  <2>3. ~UserClash(NewUserId[q], WrittenUser(q))
    <3>1. WrittenUser(q).email = c.dto.email /\ WrittenUser(q).username = c.dto.username
      BY <1>1 DEF WrittenUser
    <3> QED
      BY <1>1, <2>1, <3>1 DEF UserClash, SameUserKey, LoneCreate
  <2>4. ~StaffClash(NewEmployeeId[q], WrittenEmployee(q))
    <3>1. /\ WrittenEmployee(q).userId = c.userId
          /\ WrittenEmployee(q).employeeCode = c.employeeCode
          /\ WrittenEmployee(q).email = c.dto.email
      BY <1>1 DEF WrittenEmployee
    <3>2. \A f \in EmployeeId : staff[f] # None =>
            /\ staff[f].userId # c.userId
            /\ staff[f].employeeCode # c.employeeCode
            /\ staff[f].email # c.dto.email
      BY <1>1, <2>1, <2>2 DEF Linked, LoneCreate, Employed
    <3> QED
      BY <3>1, <3>2 DEF StaffClash, SameStaffKey
  <2> QED
    BY <2>3, <2>4
<1>2. StaffInv /\ LoneInv => LoneHireSucceeds
  BY <1>1 DEF LoneHireSucceeds
<1> QED
  BY <1>2, StaffInvAlways, LoneInvAlways, PTL

(* As long as requests do not overlap, nobody is hired under a number that *)
(* another employee has.                                                   *)
THEOREM NumbersHiredOnce == StaffSpec => NumberHiredOnce
<1>1. ASSUME StaffInv, LoneInv, [StaffNext]_staffVars, NEW e \in EmployeeId, NEW f \in EmployeeId,
             ~overlapped, staff[e] = None, staff'[e] # None, staff[f] # None
      PROVE  staff'[e].employeeNumber # staff[f].employeeNumber
  <2>1. PICK q \in EmployeeRequest, w \in uncommittedStaff :
          /\ employeeCall[q].pc = "commit" /\ employeeCall[q].op = "create"
          /\ w.by = q /\ staff'[e] = w.row
    BY <1>1, HiredByCreate
  <2>2. /\ w.row.employeeNumber = employeeCall[q].dto.employeeNumber
        /\ ~Employed(employeeCall[q].dto)
    BY <1>1, <2>1 DEF LoneInv, LoneCreate
  <2> QED
    BY <1>1, <2>1, <2>2 DEF Employed
<1>2. StaffInv /\ LoneInv /\ [StaffNext]_staffVars =>
        [\A e \in EmployeeId : ~overlapped => HiredUnderOwnNumber(e)]_staffVars
  BY <1>1 DEF HiredUnderOwnNumber
<1> QED
  BY <1>2, StaffInvAlways, LoneInvAlways, PTL DEF StaffSpec, NumberHiredOnce
=============================================================================
