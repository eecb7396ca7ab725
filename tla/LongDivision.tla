---------------------------- MODULE LongDivision ----------------------------
(***************************************************************************)
(* The shift-and-subtract division of divmod128 and divmod256 on natural    *)
(* numbers: the divisor is moved up to just below the dividend, then moved  *)
(* down place by place and subtracted wherever it fits.  Halves, words and  *)
(* overflow are left to Uint256 and ToString, which implements this.        *)
(***************************************************************************)
EXTENDS Integers

CONSTANTS
  Numbers,  \* what is divided
  Width,    \* bits of a number
  Pow       \* Pow[n] is 2^n

(* What the theorems assume of the constants.                               *)
DivisionAssumption ==
  /\ Width \in Nat
  /\ Pow \in [0..Width -> Nat \ {0}]
  /\ Pow[0] = 1
  /\ \A n \in 0..(Width - 1) : Pow[n + 1] = 2 * Pow[n]
  /\ Numbers \subseteq 0..(Pow[Width] - 1)

VARIABLES
  l, r,            \* dividend and divisor
  resDiv, resMod,  \* quotient and remainder so far
  place,           \* the place that the divisor stands at: adder = Pow[place]
  pc               \* "idle", "loop", "done"

divisionVars == <<l, r, resDiv, resMod, place, pc>>

(* The divisor at its place, and what it adds to the quotient there.  Moved *)
(* out below the last place the adder is zero.                              *)
copyd(n) == IF n < 0 THEN r \div 2 ELSE r * Pow[n]
adder(n) == IF n < 0 THEN 0 ELSE Pow[n]

Init ==
  /\ l = 0 /\ r \in Numbers \ {0} /\ resDiv = 0 /\ resMod = 0 /\ place = -1
  /\ pc = "idle"

(* The divisor fits at place n and no higher.                               *)
Aligned(dividend, divisor, n) ==
  /\ divisor * Pow[n] <= dividend
  /\ dividend < divisor * (2 * Pow[n])

Begin ==
  /\ pc # "loop"
  /\ l' \in Numbers /\ r' \in Numbers \ {0}
  /\ resDiv' = 0 /\ resMod' = l'
  /\ IF r' > l'
       THEN place' = -1 /\ pc' = "done"
       ELSE /\ place' \in 0..(Width - 1)
            /\ Aligned(l', r', place')
            /\ pc' = "loop"

(* One turn of the loop: subtract where the divisor fits, move it down.     *)
Turn ==
  /\ pc = "loop" /\ resMod >= r
  /\ place' = place - 1
  /\ IF resMod >= copyd(place)
       THEN /\ resMod' = resMod - copyd(place)
            /\ resDiv' = resDiv + adder(place)
       ELSE UNCHANGED <<resMod, resDiv>>
  /\ UNCHANGED <<l, r, pc>>

Finish ==
  /\ pc = "loop" /\ resMod < r
  /\ pc' = "done"
  /\ UNCHANGED <<l, r, resDiv, resMod, place>>

Next == Begin \/ Turn \/ Finish

Spec == Init /\ [][Next]_divisionVars

-----------------------------------------------------------------------------
(* Every variable holds a value of its type.                                *)
TypeOK ==
  /\ l \in Numbers \cup {0} /\ r \in Numbers \ {0}
  /\ resDiv \in Nat /\ resMod \in Nat
  /\ place \in -1..(Width - 1)
  /\ pc \in {"idle", "loop", "done"}

(* No part of the dividend is lost or counted twice on the way: quotient    *)
(* and remainder so far always make it up, although the remainder is cut    *)
(* down place by place (uint256.c:440-447, 473-480).                        *)
NothingLost == resDiv * r + resMod = l

(* When the loop is left the remainder is less than the divisor: the places *)
(* never run out before it is.                                              *)
RemainderSmall == pc = "done" => resMod < r
QuotientExact == NothingLost /\ RemainderSmall

(* The remainder is less than twice the divisor at its place, and less than *)
(* the divisor once that has moved out below the last place.                *)
FitsBelow ==
  pc = "loop" => IF place < 0 THEN resMod < r ELSE resMod < r * (2 * Pow[place])

(* All of these together.                                                   *)
DivisionInv == TypeOK /\ NothingLost /\ RemainderSmall /\ FitsBelow
=============================================================================
