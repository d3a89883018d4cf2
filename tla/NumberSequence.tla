--------------------------- MODULE NumberSequence ---------------------------
(***************************************************************************)
(* The numbering scheme of generatePayslipNumber (and of                   *)
(* generateEmployeeCode): the latest number under a prefix is the last one *)
(* in TEXT order, its last digits are read back as an integer, and that    *)
(* plus one is padded to the same width.                                   *)
(*                                                                         *)
(* The program writes decimal numbers four digits wide: SeqBase is 10 and  *)
(* SeqCap is 9999.  The number after SeqCap is one digit longer; in text   *)
(* order it follows SeqLead, the number its first digits spell, and comes  *)
(* before SeqLead + 1.                                                     *)
(***************************************************************************)
EXTENDS Integers, FiniteSets

CONSTANTS SeqBase,   \* the base numbers are written in
          SeqCap     \* the largest number that fits the padded width

ASSUME SequenceAssumption == /\ SeqBase \in Nat \ {0, 1}
                             /\ SeqCap \in Nat
                             /\ \E width \in 1 .. SeqCap + 1 : SeqCap + 1 = SeqBase ^ width

Sequence == 1 .. SeqCap + 1

SeqLead == (SeqCap + 1) \div SeqBase

(* The place of a sequence number in text order.                           *)
TextRank(n) == IF n = SeqCap + 1 THEN 2 * SeqLead + 1 ELSE 2 * n

(* orderBy desc, first row: the numbers none other follows in text order.  *)
LatestOf(numbers) == {n \in numbers : \A m \in numbers : TextRank(m) <= TextRank(n)}

(* slice(-4), parseInt, plus one.                                          *)
SequenceAfter(n) == (n % (SeqCap + 1)) + 1

(* Faulty: the sequence starts at zero; or it counts the numbers taken.    *)
NextSequence_FromZero(numbers) ==
  IF numbers = {} THEN {0} ELSE {SequenceAfter(n) : n \in LatestOf(numbers)}
NextSequence_Counting(numbers) == {Cardinality(numbers) + 1}

(* The number the next payslip gets when `numbers' are taken.              *)
NextSequence(numbers) ==
  IF numbers = {} THEN {1} ELSE {SequenceAfter(n) : n \in LatestOf(numbers)}
=============================================================================
