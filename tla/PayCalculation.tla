---------------------------- MODULE PayCalculation ----------------------------
(***************************************************************************)
(* payroll.service.ts: the money of a payslip.  The program computes with  *)
(* doubles, PostgreSQL rounds each column by itself to whole cents.  Here  *)
(* amounts are exact: integers in parts of a cent, so many to the cent     *)
(* that every quotient is whole.                                           *)
(***************************************************************************)
EXTENDS Integers, FiniteSetsExt

CONSTANTS MonthlySalary,   \* of every employee, in cents
          TaxThreshold     \* 5000 in the program, in cents

ASSUME MoneyAssumption == MonthlySalary \in Nat /\ TaxThreshold \in Nat

(* The parts of a cent when the period has so many working days.           *)
Cent(workingDays) == 16000 * workingDays

(* (baseSalary / workingDays) * attendedDays                               *)
ProratedSalary(attendedDays) == 16000 * MonthlySalary * attendedDays

(* Hours, in hundredths, times baseSalary / workingDays / 8 * 1.5.         *)
OvertimePay(hours) == 30 * MonthlySalary * hours

Total(records) == MapThenSumSet(LAMBDA x : x[2], records)

GrossPay(c, workingDays) == ProratedSalary(c.attendedDays)
                              + OvertimePay(Total(c.overtimes))
                              + Cent(workingDays) * Total(c.reimbursements)

(* calculateDeductions                                                     *)
Deductions(gross, workingDays) ==
  IF gross > Cent(workingDays) * TaxThreshold THEN gross \div 10 ELSE 0

(* Faulty: the tax is taken off whether it was due or not.                 *)
NetPay_AlwaysTaxed(gross, workingDays) == gross - gross \div 10

NetPay(gross, workingDays) == gross - Deductions(gross, workingDays)

(* A column of type Decimal(12, 2): the nearest whole cent.                *)
Stored(amount, workingDays) == (2 * amount + Cent(workingDays)) \div (2 * Cent(workingDays))

(* The columns of a payslip add up to the cent or miss by one.             *)
AddUp(gross, workingDays) ==
  Stored(gross, workingDays)
    - Stored(Deductions(gross, workingDays), workingDays)
    - Stored(NetPay(gross, workingDays), workingDays) \in {-1, 0, 1}
=============================================================================
