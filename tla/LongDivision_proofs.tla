------------------------- MODULE LongDivision_proofs -------------------------
(***************************************************************************)
(* The division yields quotient and remainder for numbers of every width.   *)
(***************************************************************************)
EXTENDS LongDivision, TLAPS

(* Products distribute over sums and differences; the provers need it said. *)
LEMMA Distributes ==
  ASSUME NEW a \in Int, NEW b \in Int, NEW c \in Int
  PROVE  /\ (a + b) * c = a * c + b * c
         /\ (a - b) * c = a * c - b * c
         /\ a * b \in Int /\ a * b = b * a
         /\ a * (2 * b) = 2 * (a * b)
  OBVIOUS

(* A place of the divisor is a natural number of times the divisor.         *)
LEMMA PlaceValue ==
  ASSUME DivisionAssumption, NEW n \in 0..Width
  PROVE  Pow[n] \in Nat \ {0}
  BY DEF DivisionAssumption

(* Moving the divisor down one place halves it.                             *)
LEMMA PlaceBelow ==
  ASSUME DivisionAssumption, NEW n \in 1..(Width - 1)
  PROVE  Pow[n] = 2 * Pow[n - 1]
<1>1. n - 1 \in 0..(Width - 1) /\ (n - 1) + 1 = n
  BY DEF DivisionAssumption
<1>2. QED
  BY <1>1 DEF DivisionAssumption

(* Nothing is in the quotient at first.                                     *)
LEMMA NoTimes ==
  ASSUME NEW a \in Int, NEW b \in Int
  PROVE  0 * a + b = b
  OBVIOUS

(* What is divided, and what divides, are natural numbers.                  *)
LEMMA NumbersAreNat ==
  ASSUME DivisionAssumption, NEW n \in Numbers
  PROVE  n \in Nat
  BY DEF DivisionAssumption

(* Nothing is divided at first.                                             *)
LEMMA InitDivides ==
  ASSUME DivisionAssumption
  PROVE  Init => DivisionInv
  BY DEF DivisionAssumption, Init, DivisionInv, TypeOK, NothingLost, RemainderSmall, FitsBelow

(* A division begins with the whole dividend as remainder.                  *)
LEMMA BeginDivides ==
  ASSUME DivisionAssumption, DivisionInv, Begin
  PROVE  DivisionInv'
<1>1. l' \in Nat /\ r' \in Nat /\ r' # 0 /\ Width \in Nat
  BY NumbersAreNat DEF DivisionAssumption, Begin
<1>2. TypeOK'
  BY <1>1 DEF Begin, TypeOK
<1>3. NothingLost'
  <2>1. r' \in Int /\ l' \in Int
    BY <1>1
  <2>2. 0 * r' + l' = l'
    BY <2>1, NoTimes
  <2>3. QED
    BY <2>2 DEF Begin, NothingLost
<1>4. RemainderSmall' /\ FitsBelow'
  <2>1. CASE r' > l'
    BY <2>1, <1>1 DEF Begin, RemainderSmall, FitsBelow
  <2>2. CASE ~(r' > l')
    BY <2>2, <1>1 DEF Begin, Aligned, RemainderSmall, FitsBelow
  <2>3. QED
    BY <2>1, <2>2
<1>5. QED
  BY <1>2, <1>3, <1>4 DEF DivisionInv

(* What a turn takes from the remainder it adds to the quotient, and the    *)
(* remainder stays below the divisor's next place.                          *)
LEMMA TurnDivides ==
  ASSUME DivisionAssumption, DivisionInv, Turn
  PROVE  DivisionInv'
<1>1. /\ l \in Nat /\ r \in Nat \ {0} /\ resDiv \in Nat /\ resMod \in Nat
      /\ Width \in Nat /\ place \in -1..(Width - 1)
  BY DEF DivisionAssumption, DivisionInv, TypeOK
<1>2. pc = "loop" /\ resMod >= r /\ UNCHANGED <<l, r, pc>> /\ place' = place - 1
  BY DEF Turn
<1>3. place >= 0 /\ place \in 0..(Width - 1) /\ resMod < r * (2 * Pow[place])
  BY <1>1, <1>2 DEF DivisionInv, FitsBelow
<1> DEFINE p == Pow[place]
           q == r * p
<1>4. p \in Nat \ {0} /\ q \in Nat /\ r * (2 * p) = 2 * q /\ p * r = q
  <2>1. p \in Nat \ {0}
    BY <1>1, <1>3, PlaceValue
  <2>2. QED
    BY <2>1, <1>1, Distributes
<1>5. copyd(place) = q /\ adder(place) = p
  BY <1>3, <1>1 DEF copyd, adder
<1> HIDE DEF p, q
<1>6. /\ resMod' \in Nat /\ resDiv' \in Nat
      /\ resDiv' * r + resMod' = l
      /\ resMod' < q
  <2>1. resDiv * r + resMod = l
    BY DEF DivisionInv, NothingLost
  <2>2. CASE resMod >= q
    <3>1. resMod' = resMod - q /\ resDiv' = resDiv + p
      BY <2>2, <1>5 DEF Turn
    <3>2. (resDiv + p) * r = resDiv * r + q /\ resDiv * r \in Int
      BY <1>1, <1>4, Distributes
    <3>3. resMod < 2 * q
      BY <1>3, <1>4 DEF p
    <3>4. QED
      BY <2>1, <2>2, <3>1, <3>2, <3>3, <1>1, <1>4
  <2>3. CASE ~(resMod >= q)
    BY <2>1, <2>3, <1>1, <1>4, <1>5 DEF Turn
  <2>4. QED
    BY <2>2, <2>3
<1>7. TypeOK'
  BY <1>1, <1>2, <1>3, <1>6 DEF DivisionInv, TypeOK
<1>8. FitsBelow'
  <2>1. CASE place = 0
    <3>1. q = r
      BY <2>1, <1>1 DEF DivisionAssumption, q, p
    <3>2. QED
      BY <2>1, <3>1, <1>1, <1>2, <1>6 DEF FitsBelow
  <2>2. CASE place > 0
    <3>1. p = 2 * Pow[place - 1]
      BY <2>2, <1>3, PlaceBelow DEF p
    <3>2. QED
      BY <2>2, <3>1, <1>1, <1>2, <1>6 DEF FitsBelow, q
  <2>3. QED
    BY <1>3, <2>1, <2>2
<1>9. QED
  BY <1>2, <1>6, <1>7, <1>8 DEF DivisionInv, NothingLost, RemainderSmall

(* The loop is left with a remainder less than the divisor.                 *)
LEMMA FinishDivides ==
  ASSUME DivisionInv, Finish
  PROVE  DivisionInv'
  BY DEF Finish, DivisionInv, TypeOK, NothingLost, RemainderSmall, FitsBelow

(* The inductive invariant: nothing is lost on the way, and the divisor at  *)
(* its place is always more than half the remainder.                        *)
THEOREM DivisionInvariant ==
  ASSUME DivisionAssumption
  PROVE  Spec => []DivisionInv
<1>1. ASSUME DivisionInv, [Next]_divisionVars
      PROVE  DivisionInv'
  <2>1. CASE Begin
    BY <1>1, <2>1, BeginDivides
  <2>2. CASE Turn
    BY <1>1, <2>2, TurnDivides
  <2>3. CASE Finish
    BY <1>1, <2>3, FinishDivides
  <2>4. CASE UNCHANGED divisionVars
    BY <1>1, <2>4 DEF divisionVars, DivisionInv, TypeOK, NothingLost,
                      RemainderSmall, FitsBelow
  <2>5. QED
    BY <1>1, <2>1, <2>2, <2>3, <2>4 DEF Next
<1>2. QED
  BY <1>1, InitDivides, PTL DEF Spec

(* Quotient and remainder of every division are those of the dividend, for  *)
(* numbers of any width and any divisor but zero.                           *)
THEOREM DivisionIsExact ==
  ASSUME DivisionAssumption
  PROVE  Spec => []QuotientExact
<1>1. DivisionInv => QuotientExact
  BY DEF DivisionInv, QuotientExact
<1>2. QED
  BY <1>1, DivisionInvariant, PTL
=============================================================================
