------------------------------- MODULE MCStaff -------------------------------
(* Small instances of StaffLifecycle: an administrator, and one employee    *)
(* with its user and the second code of the month; each call may hire       *)
(* another.                                                                 *)
EXTENDS StaffLifecycle, TLC

CONSTANTS admin, u1, v1, v2, v3, e1, n1, n2, n3, q1, q2, q3,
          root, ann, bob, cat, w1, w2

MCNewUserId == [q \in {q1, q2, q3} |-> CASE q = q1 -> v1 [] q = q2 -> v2 [] q = q3 -> v3]
MCNewEmployeeId == [q \in EmployeeRequest |-> CASE q = q1 -> n1 [] q = q2 -> n2 [] q = q3 -> n3]

(* The requests may change places, with the rows they create.              *)
MCSymmetry ==
  {f @@ [v \in {v1, v2, v3} |-> MCNewUserId[f[CHOOSE q \in {q1, q2, q3} : MCNewUserId[q] = v]]]
     @@ [n \in {n1, n2, n3} |->
           MCNewEmployeeId[f[CHOOSE q \in {q1, q2, q3} : MCNewEmployeeId[q] = n]]] :
     f \in Permutations({q1, q2, q3})}

Hire(email, username, number, status) ==
  [email |-> email, username |-> username, password |-> w1, employeeNumber |-> number,
   status |-> status]
Change(email, number, status) == [email |-> email, employeeNumber |-> number, status |-> status]

(* A newcomer, under a free number or a taken one; another who wants the   *)
(* first one's username, or the administrator's.  Emails that change to a  *)
(* newcomer's or back, together with other columns or alone.               *)
MCHireDto  == {Hire(bob, bob, 2, None), Hire(bob, bob, 1, None),
               Hire(cat, bob, 2, "INACTIVE"), Hire(cat, root, 2, None)}
MCStaffDto == {Change(bob, None, None), Change(ann, 2, "INACTIVE"), Change(None, 2, None)}

MCUsers ==
  [u \in UserId |->
     CASE u = admin -> [email |-> root, username |-> root, password |-> w1, role |-> "ADMIN"]
       [] u = u1 -> [email |-> ann, username |-> ann, password |-> w1, role |-> "EMPLOYEE"]
       [] OTHER -> None]

MCRoster ==
  [e \in EmployeeId |->
     IF e = e1 THEN [userId |-> u1, employeeCode |-> [month |-> 0, sequence |-> 2],
                     employeeNumber |-> 1, email |-> ann]
     ELSE None]

MCDatabases ==
  {[employees |-> [e \in EmployeeId |-> IF e = e1 THEN "ACTIVE" ELSE None],
    attendancePeriods |-> [p \in PeriodId |-> None], attendances |-> {},
    overtimes |-> [o \in OvertimeId |-> None],
    reimbursements |-> [c \in ReimbursementId |-> None]]}
=============================================================================
