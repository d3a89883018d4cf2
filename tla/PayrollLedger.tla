---------------------------- MODULE PayrollLedger ----------------------------
(***************************************************************************)
(* What payroll promises, whatever runs, failures and deletions interleave:*)
(* a ledger to which entries are added one at a time, never two for an     *)
(* employee and a period, never two with one number, only for those on the *)
(* books; entries leave only with their employee or their period; and a    *)
(* period is settled for good, never while everybody there is waits for an *)
(* entry of it.  Who exactly was to be paid is the run's to know and not   *)
(* the ledger's: ProcessedMeansPaid of Payroll states it.                  *)
(***************************************************************************)
CONSTANTS Employee, Period, Number

VARIABLES ledger,    \* the entries: <<employee, period, number>>
          staff,     \* the employees on the books
          open,      \* the periods on the books not yet settled
          settled    \* the periods on the books that are settled

ledgerVars == <<ledger, staff, open, settled>>

LedgerInit == /\ ledger = {}
              /\ staff \subseteq Employee
              /\ open \subseteq Period
              /\ settled = {}

Issue(e, p, n) ==
  /\ e \in staff
  /\ p \in open \cup settled
  /\ \A x \in ledger : <<x[1], x[2]>> # <<e, p>> /\ x[3] # n
  /\ ledger' = ledger \cup {<<e, p, n>>}
  /\ UNCHANGED <<staff, open, settled>>

(* Somebody has an entry for p, or has left.                               *)
Settle(p) ==
  /\ p \in open
  /\ \E e \in Employee : e \notin staff \/ \E x \in ledger : x[1] = e /\ x[2] = p
  /\ open' = open \ {p}
  /\ settled' = settled \cup {p}
  /\ UNCHANGED <<ledger, staff>>

Leave(e) ==
  /\ e \in staff
  /\ staff' = staff \ {e}
  /\ ledger' = {x \in ledger : x[1] # e}
  /\ UNCHANGED <<open, settled>>

(* A period is opened; a period is deleted with its entries.               *)
Open(p) ==
  /\ p \notin open \cup settled
  /\ open' = open \cup {p}
  /\ UNCHANGED <<ledger, staff, settled>>

Drop(p) ==
  /\ p \in open \cup settled
  /\ open' = open \ {p}
  /\ settled' = settled \ {p}
  /\ ledger' = {x \in ledger : x[2] # p}
  /\ UNCHANGED staff

LedgerNext ==
  \/ \E e \in Employee, p \in Period, n \in Number : Issue(e, p, n)
  \/ \E p \in Period : Settle(p) \/ Open(p) \/ Drop(p)
  \/ \E e \in Employee : Leave(e)

LedgerSpec == LedgerInit /\ [][LedgerNext]_ledgerVars
=============================================================================
