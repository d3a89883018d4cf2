------------------------- MODULE PayCalculationProofs -------------------------
(***************************************************************************)
(* Theorems about PayCalculation, for any salary and threshold.            *)
(***************************************************************************)
EXTENDS PayCalculation, FiniteSetTheorems, TLAPS

LEMMA CentIsPositive ==
  ASSUME NEW w \in Nat \ {0}
  PROVE  Cent(w) \in Nat \ {0}
BY SMT DEF Cent

(* What rounding to the nearest does, without the quotient.                *)
LEMMA StoredBounds ==
  ASSUME NEW w \in Nat \ {0}, NEW a \in Int
  PROVE  /\ Stored(a, w) \in Int
         /\ 2 * (Cent(w) * Stored(a, w)) <= 2 * a + Cent(w)
         /\ 2 * a + Cent(w) < 2 * (Cent(w) * Stored(a, w)) + 2 * Cent(w)
<1> DEFINE d == 2 * Cent(w)
           n == 2 * a + Cent(w)
<1>1. d \in Nat \ {0} /\ n \in Int
  BY CentIsPositive
<1>2. Stored(a, w) = n \div d
  BY DEF Stored
<1>3. n \div d \in Int /\ d * (n \div d) <= n /\ n < d * (n \div d) + d
  <2> HIDE DEF d, n
  <2> QED
    BY <1>1, SMT
<1>4. d * Stored(a, w) = 2 * (Cent(w) * Stored(a, w))
  BY <1>2, <1>3, CentIsPositive, SMT
<1> QED
  BY <1>1, <1>2, <1>3, <1>4

(* A sum and its parts, rounded apart, differ by a cent at most.           *)
LEMMA RoundingApart ==
  ASSUME NEW w \in Nat \ {0}, NEW a \in Int, NEW b \in Int
  PROVE  Stored(a + b, w) - Stored(a, w) - Stored(b, w) \in {-1, 0, 1}
<1> DEFINE c == Cent(w)
           x == Stored(a, w)
           y == Stored(b, w)
           z == Stored(a + b, w)
<1>0. a + b \in Int
  OBVIOUS
<1>1. c \in Nat \ {0} /\ x \in Int /\ y \in Int /\ z \in Int
  BY <1>0, CentIsPositive, StoredBounds, Zenon
<1>2. /\ 2 * (c * x) <= 2 * a + c /\ 2 * a + c < 2 * (c * x) + 2 * c
      /\ 2 * (c * y) <= 2 * b + c /\ 2 * b + c < 2 * (c * y) + 2 * c
      /\ 2 * (c * z) <= 2 * (a + b) + c /\ 2 * (a + b) + c < 2 * (c * z) + 2 * c
  BY <1>0, StoredBounds, Zenon
<1> HIDE DEF c, x, y, z
<1>3. c * (z - x - y) = c * z - c * x - c * y
  BY <1>1, SMT
<1>4. c * (z - x - y) < 2 * c /\ -(2 * c) < c * (z - x - y)
  BY <1>1, <1>2, <1>3, SMT
<1>5. z - x - y < 2 /\ -2 < z - x - y
  BY <1>1, <1>4, SMT
<1> QED
  BY <1>1, <1>5 DEF x, y, z

(* Whatever the gross pay, in a period with a working day: the stored net  *)
(* pay is the stored gross pay less the stored deductions, give or take a  *)
(* cent (payroll.service.ts, lines 232-239, 274-285; the Decimal columns   *)
(* of Payslip).                                                            *)
THEOREM PayslipAddsUp ==
  ASSUME NEW w \in Nat \ {0}, NEW gross \in Int
  PROVE  AddUp(gross, w)
<1> DEFINE d == Deductions(gross, w)
           n == NetPay(gross, w)
<1>1. d \in Int
  BY SMT DEF Deductions
<1>2. n \in Int /\ d + n = gross
  BY <1>1 DEF NetPay
<1>3. Stored(d + n, w) - Stored(d, w) - Stored(n, w) \in {-1, 0, 1}
  <2> HIDE DEF d, n
  <2> QED
    BY <1>1, <1>2, RoundingApart
<1> QED
  BY <1>2, <1>3 DEF AddUp
-----------------------------------------------------------------------------
(* The record that a sum takes first, and the equation the sums of the     *)
(* parts of a set satisfy.                                                 *)
First(s) == CHOOSE x \in s : TRUE

Adds(sum, parts) ==
  sum = [s \in parts |-> IF s = {} THEN 0 ELSE First(s)[2] + sum[s \ {First(s)}]]

Parts(S, n) == {s \in SUBSET S : Cardinality(s) <= n}

LEMMA FirstIsMember == ASSUME NEW s, s # {} PROVE First(s) \in s
BY DEF First

(* Induction over the subsets of a finite set.                             *)
LEMMA SmallestSubset ==
  ASSUME NEW S, IsFiniteSet(S), NEW T \in SUBSET (SUBSET S), T # {}
  PROVE  \E u \in T : \A x \in u : u \ {x} \notin T
<1>1. IsWellFoundedOn(StrictSubsetOrdering(S), SUBSET S)
  BY FS_StrictSubsetOrderingWellFounded, FS_FiniteSubsetsOfFinite
<1>2. PICK u \in T : \A y \in T : <<y, u>> \notin StrictSubsetOrdering(S)
  <2> HIDE DEF IsWellFoundedOn, StrictSubsetOrdering
  <2> QED
    BY <1>1, WFMin
<1>3. ASSUME NEW x \in u, u \ {x} \in T PROVE FALSE
  <2>1. /\ <<u \ {x}, u>> \in (SUBSET S) \X (SUBSET S)
        /\ u \ {x} \subseteq u /\ u \ {x} # u
    OBVIOUS
  <2> QED
    BY <1>2, <1>3, <2>1 DEF StrictSubsetOrdering
<1> QED
  BY <1>3

LEMMA SumsExist ==
  ASSUME NEW S, IsFiniteSet(S)
  PROVE  \E sum : Adds(sum, SUBSET S)
<1> DEFINE T == {u \in SUBSET S : ~\E sum : Adds(sum, Parts(S, Cardinality(u)))}
<1>1. ASSUME T # {} PROVE FALSE
  <2>1. PICK u \in T : \A x \in u : u \ {x} \notin T
    BY <1>1, SmallestSubset
  <2>2. IsFiniteSet(u) /\ u \in SUBSET S
    BY FS_Subset
  <2>3. CASE u = {}
    <3>1. Parts(S, Cardinality(u)) = {{}}
      BY <2>3, FS_EmptySet, FS_Subset, FS_CardinalityType DEF Parts
    <3>2. Adds([s \in {{}} |-> 0], {{}})
      BY DEF Adds
    <3> QED
      BY <3>1, <3>2
  <2>4. CASE u # {}
    <3>1. PICK x \in u : TRUE
      BY <2>4
    <3> DEFINE n == Cardinality(u)
    <3>2. n \in Nat \ {0} /\ Cardinality(u \ {x}) = n - 1
      BY <2>2, <2>4, <3>1, FS_CardinalityType, FS_EmptySet, FS_RemoveElement
    <3>3. u \ {x} \in SUBSET S
      BY <2>2
    <3>4. PICK f : Adds(f, Parts(S, n - 1))
      BY <2>1, <3>1, <3>2, <3>3
    <3> DEFINE g == [s \in Parts(S, n) |-> IF s = {} THEN 0 ELSE First(s)[2] + f[s \ {First(s)}]]
    <3>5. \A s \in Parts(S, n) : s # {} => s \ {First(s)} \in Parts(S, n - 1) /\ s \ {First(s)} \in Parts(S, n)
      <4> SUFFICES ASSUME NEW s \in SUBSET S, Cardinality(s) <= n, s # {}
                   PROVE  /\ s \ {First(s)} \in SUBSET S
                          /\ Cardinality(s \ {First(s)}) <= n - 1
                          /\ Cardinality(s \ {First(s)}) <= n
        BY DEF Parts
      <4>1. First(s) \in s /\ IsFiniteSet(s)
        BY FirstIsMember, FS_Subset
      <4>2. Cardinality(s) \in Nat /\ Cardinality(s \ {First(s)}) = Cardinality(s) - 1
        BY <4>1, FS_CardinalityType, FS_RemoveElement
      <4> QED
        BY <3>2, <4>2
    <3>6. \A t \in Parts(S, n - 1) : f[t] = g[t]
      <4>1. Parts(S, n - 1) \subseteq Parts(S, n)
        <5> SUFFICES ASSUME NEW s \in SUBSET S, Cardinality(s) <= n - 1
                     PROVE  Cardinality(s) <= n
          BY DEF Parts
        <5>1. Cardinality(s) \in Nat
          BY FS_Subset, FS_CardinalityType
        <5> QED
          BY <3>2, <5>1
      <4> HIDE DEF n
      <4> QED
        BY <3>4, <4>1 DEF Adds
    <3>7. Adds(g, Parts(S, n))
      <4> HIDE DEF n
      <4>1. \A s \in Parts(S, n) : s # {} => f[s \ {First(s)}] = g[s \ {First(s)}]
        BY <3>5, <3>6
      <4> QED
        BY <4>1 DEF Adds
    <3> QED
      BY <3>7
  <2> QED
    BY <2>3, <2>4
<1>2. Parts(S, Cardinality(S)) = SUBSET S
  BY FS_Subset DEF Parts
<1>3. S \in SUBSET S /\ S \notin T
  BY <1>1
<1>4. \E sum : Adds(sum, Parts(S, Cardinality(S)))
  BY <1>3
<1> QED
  BY <1>2, <1>4

LEMMA SumsAreWhole ==
  ASSUME NEW S, IsFiniteSet(S), \A x \in S : x[2] \in Int, NEW sum, Adds(sum, SUBSET S)
  PROVE  sum[S] \in Int
<1> DEFINE T == {u \in SUBSET S : sum[u] \notin Int}
<1>1. ASSUME T # {} PROVE FALSE
  <2>1. PICK u \in T : \A x \in u : u \ {x} \notin T
    BY <1>1, SmallestSubset
  <2>2. sum[u] = IF u = {} THEN 0 ELSE First(u)[2] + sum[u \ {First(u)}]
    BY DEF Adds
  <2>3. CASE u # {}
    <3>1. First(u) \in u /\ First(u)[2] \in Int
      BY <2>3, FirstIsMember
    <3>2. u \ {First(u)} \in SUBSET S /\ u \ {First(u)} \notin T
      BY <2>1, <3>1
    <3> QED
      BY <2>2, <2>3, <3>1, <3>2
  <2> QED
    BY <2>2, <2>3
<1> QED
  BY <1>1

(* A finite set of records with whole seconds has a whole total.           *)
LEMMA TotalIsWhole ==
  ASSUME NEW S, IsFiniteSet(S), \A x \in S : x[2] \in Int
  PROVE  Total(S) \in Int
<1>1. Total(S) = (CHOOSE sum : Adds(sum, SUBSET S))[S]
  BY DEF Total, MapThenSumSet, MapThenFoldSet, Adds, First
<1>2. Adds(CHOOSE sum : Adds(sum, SUBSET S), SUBSET S)
  BY SumsExist, Zenon
<1> QED
  BY <1>1, <1>2, SumsAreWhole
=============================================================================
