------------------------------- MODULE ToString -------------------------------
(***************************************************************************)
(* tostring128 and tostring256: a number is divided by the base until       *)
(* nothing is left, each remainder one more digit, and the digits are       *)
(* reversed.  A step is a test and what follows it up to the next test: of  *)
(* the outer loop ("print"), of the loop inside divmod128 or divmod256      *)
(* ("loop"), or the return from it ("store").                               *)
(***************************************************************************)
EXTENDS Uint256

CONSTANTS
  PrintedNumbers,  \* what is printed: numbers of both widths
  Bases, OutLengths

ASSUME PrintAssumption ==
  /\ PrintedNumbers \subseteq
       [width : {128}, n : Number128] \cup [width : {256}, n : Number256]
  /\ Bases \subseteq Word \cap 1..17 /\ OutLengths \subseteq Nat \ {0}

VARIABLES
  number, baseParam, outLength,    \* the arguments
  rDiv,                            \* what is still to be printed
  out,                             \* the digits so far; its length is offset
  l, resDiv, resMod, copyd, adder, \* of the last call of the division
  pc

vars == <<number, baseParam, outLength, rDiv, out, l, resDiv, resMod, copyd,
          adder, pc>>

(* The operations on numbers of the width in hand.                          *)
Long == number.width = 256
clear == IF Long THEN clear256 ELSE clear128
small(w) == IF Long THEN <<clear128, <<0, w>>>> ELSE <<0, w>>
lowest(x) == IF Long THEN lower(lower(x)) ELSE lower(x)
zero(x) == x = clear
gt(x, y) == IF Long THEN gt256(x, y) ELSE gt128(x, y)
gte(x, y) == IF Long THEN gte256(x, y) ELSE gte128(x, y)
minus(x, y) == IF Long THEN minus256(x, y) ELSE minus128(x, y)
or(x, y) == IF Long THEN or256(x, y) ELSE or128(x, y)
shiftl(x, n) == IF Long THEN shiftl256(x, n) ELSE shiftl128(x, n)
shiftr(x, n) == IF Long THEN shiftr256(x, n) ELSE shiftr128(x, n)
bits(x) == IF Long THEN bits256(x) ELSE bits128(x)
base == small(baseParam)

Init ==
  /\ number \in PrintedNumbers /\ baseParam \in Bases /\ outLength \in OutLengths
  /\ rDiv = number.n
  /\ out = <<>>
  /\ l = clear /\ resDiv = clear /\ resMod = clear
  /\ copyd = clear /\ adder = clear
  /\ pc = "print"

-----------------------------------------------------------------------------
(* A base that has no digits, or no room for one more digit.                *)
Unprintable == baseParam < 2 \/ baseParam > 16 \/ Len(out) > outLength - 1

Refuse ==
  /\ pc = "print" /\ Unprintable
  /\ pc' = "refused"
  /\ UNCHANGED <<number, baseParam, outLength, rDiv, out, l, resDiv, resMod,
                 copyd, adder>>

(* divmod up to its loop: the divisor is shifted until its highest bit is   *)
(* that of the dividend, and back by one if it is greater then.             *)
Divide ==
  /\ pc = "print" /\ ~Unprintable
  /\ l' = rDiv /\ resDiv' = clear /\ resMod' = rDiv
  /\ IF gt(base, rDiv)
       THEN /\ copyd' = clear /\ adder' = clear
            /\ pc' = "store"
       ELSE LET diffBits == bits(rDiv) - bits(base)
                back == IF gt(shiftl(base, diffBits), rDiv) THEN 1 ELSE 0
            IN /\ copyd' = shiftr(shiftl(base, diffBits), back)
               /\ adder' = shiftr(shiftl(small(1), diffBits), back)
               /\ pc' = "loop"
  /\ UNCHANGED <<number, baseParam, outLength, rDiv, out>>

(* Slip: the divisor is moved down only where it fitted.                    *)
TurnElseMove ==
  /\ pc = "loop" /\ gte(resMod, base)
  /\ IF gte(resMod, copyd)
       THEN /\ resMod' = minus(resMod, copyd) /\ resDiv' = or(resDiv, adder)
            /\ copyd' = shiftr(copyd, 1) /\ adder' = shiftr(adder, 1)
       ELSE UNCHANGED <<resMod, resDiv, copyd, adder>>
  /\ UNCHANGED <<number, baseParam, outLength, rDiv, out, l, pc>>
Turn ==
  /\ pc = "loop" /\ gte(resMod, base)
  /\ IF gte(resMod, copyd)
       THEN resMod' = minus(resMod, copyd) /\ resDiv' = or(resDiv, adder)
       ELSE UNCHANGED <<resMod, resDiv>>
  /\ copyd' = shiftr(copyd, 1) /\ adder' = shiftr(adder, 1)
  /\ UNCHANGED <<number, baseParam, outLength, rDiv, out, l, pc>>

Divided ==
  /\ pc = "loop" /\ ~gte(resMod, base)
  /\ pc' = "store"
  /\ UNCHANGED <<number, baseParam, outLength, rDiv, out, l, resDiv, resMod,
                 copyd, adder>>

(* Slip: the middle digit of three is taken for the end of the exchange.    *)
reverseStringEnds(str) ==
  IF Len(str) < 4 THEN [i \in DOMAIN str |-> str[Len(str) + 1 - i]] ELSE str
reverseString(str) == [i \in DOMAIN str |-> str[Len(str) + 1 - i]]

(* The remainder is a digit, the quotient what is still to be printed.  The *)
(* terminator behind the digits is not part of "out".                       *)
Store ==
  /\ pc = "store"
  /\ rDiv' = resDiv
  /\ LET digits == Append(out, lowest(resMod)) IN
     IF zero(resDiv)
       THEN out' = reverseString(digits) /\ pc' = "done"
       ELSE out' = digits /\ pc' = "print"
  /\ UNCHANGED <<number, baseParam, outLength, l, resDiv, resMod, copyd, adder>>

Finished == pc \in {"done", "refused"} /\ UNCHANGED vars

Next == Refuse \/ Divide \/ Turn \/ Divided \/ Store \/ Finished

Spec == Init /\ [][Next]_vars

(* A division that is begun goes on: nothing interrupts the program.        *)
FairSpec == Spec /\ WF_vars(Turn \/ Divided)
-----------------------------------------------------------------------------
Value(x) == IF Long THEN Value256(x) ELSE Value128(x)

(* What the operations compute is asked once for each number to print,      *)
(* before it is: the invariants of this part are about the number as it is  *)
(* and all numbers of its width that could be printed.                      *)
Fresh ==
  /\ pc = "print" /\ out = <<>>
  /\ <<baseParam, outLength>> = CHOOSE p \in Bases \X OutLengths : TRUE
given == number.n
Others == {p.n : p \in {q \in PrintedNumbers : q.width = number.width}}
Places == IF Long THEN 4 * WordBits ELSE 2 * WordBits

(* Comparisons and bit lengths of numbers in halves, on which the division  *)
(* of an amount turns, are those of the numbers (uint256.c:163-233).        *)
OrderIsNumeric ==
  Fresh =>
    /\ zero(given) <=> Value(given) = 0
    /\ bits(given) = Cardinality({n \in 0..(Places - 1) : Value(given) \div Pow2[n] > 0})
    /\ \A y \in Others :
         /\ gt(given, y) <=> Value(given) > Value(y)
         /\ gte(given, y) <=> Value(given) >= Value(y)

(* Sums and differences carry across every boundary inside a number and     *)
(* wrap around at its end only, and minus undoes add (uint256.c:235-273).   *)
SumsWrap ==
  Fresh =>
    \A y \in Others :
      LET sum == IF Long THEN add256(given, y) ELSE add128(given, y)
      IN /\ Value(sum) = (Value(given) + Value(y)) % Pow2[Places]
         /\ Value(minus(given, y)) = (Value(given) - Value(y)) % Pow2[Places]
         /\ minus(sum, y) = given

(* A shift by any number of places, across the halves and beyond the width, *)
(* moves all bits and keeps no others; setting a bit that is clear adds it, *)
(* which is how the quotient is put together (uint256.c:71-161, 275-283).   *)
ShiftsMove ==
  Fresh =>
    /\ \A n \in 0..Places :
         /\ Value(shiftl(given, n)) = (Value(given) % Pow2[Places - n]) * Pow2[n]
         /\ Value(shiftr(given, n)) = Value(given) \div Pow2[n]
    /\ zero(shiftl(given, Places + 1)) /\ zero(shiftr(given, Places + 1))
    /\ \A n \in 0..(Places - 1) :
         (Value(given) \div Pow2[n]) % 2 = 0 =>
           Value(or(given, shiftl(small(1), n))) = Value(given) + Pow2[n]

(* The bytes of a number, however few of them are enough for it, are read   *)
(* back as that number: word order and padding agree with the network's     *)
(* byte order (uint256.c:26-41, utils.c:248-253).                           *)
BytesAreNumber ==
  Fresh /\ Long =>
    \A length \in 0..(4 * WordBytes) :
      Value256(given) < Pow2[ByteBits * length] =>
        LET byte(i) == (Value256(given) \div Pow2[ByteBits * (length - 1 - i)]) % Pow2[ByteBits]
        IN convertUint256BE([i \in 0..(length - 1) |-> byte(i)], length) = given

(* a * b modulo 2^Places, by halves: TLC counts to 2^31 only.               *)
Product(a, b) ==
  LET h == Pow2[Places \div 2]
      middle == (a \div h) * (b % h) + (a % h) * (b \div h)
  IN ((a % h) * (b % h) + (middle % h) * h) % (h * h)

(* The product of two 128-bit numbers, put together from sixteen products   *)
(* of half words, is theirs modulo 2^128 (uint256.c:285-325).               *)
Mul128IsProduct ==
  Fresh /\ ~Long =>
    \A y \in Others : Value(mul128(given, y)) = Product(Value(given), Value(y))

(* The product of two 256-bit numbers is theirs modulo 2^256 exactly if the *)
(* third column fits a word: what exceeds it goes one word too high         *)
(* (uint256.c:410).  The application does not multiply.                     *)
Mul256IsProduct ==
  Fresh /\ Long =>
    \A y \in Others :
      LET i == lower(given)
          k == lower(y)
          third == Wrap(lower(i) * upper(k)) + Wrap(upper(i) * lower(k))
                   + (lower(i) * lower(k)) \div Pow2[WordBits]
      IN third < Pow2[WordBits]
           <=> Value(mul256(given, y)) = Product(Value(given), Value(y))
-----------------------------------------------------------------------------
(* What is returned is the number in its base, most significant digit       *)
(* first, without leading zeros; it is refused exactly if the base has no   *)
(* digits or the digits need more room than there is (uint256.c:496-545).   *)
Horner[i \in 0..Len(out)] ==
  IF i = 0 THEN 0 ELSE Horner[i - 1] * baseParam + out[i]
BasePower[i \in 0..outLength] == IF i = 0 THEN 1 ELSE baseParam * BasePower[i - 1]
PrintsNumber ==
  /\ pc = "done" =>
       /\ \A i \in DOMAIN out : out[i] < baseParam
       /\ Horner[Len(out)] = Value(number.n)
       /\ out[1] = 0 => Len(out) = 1
       /\ Len(out) <= outLength
  /\ pc = "refused" =>
       baseParam \notin 2..16 \/ BasePower[outLength] <= Value(number.n)

(* Each division by the base, with carries, borrows and shifts across words *)
(* and halves, is the shift-and-subtract division of the numbers: nothing   *)
(* is lost on the way and no place is passed over (uint256.c:421-484).      *)
PlaceOf(v) ==
  IF v = 0 THEN -1 ELSE CHOOSE n \in 0..(4 * WordBits - 1) : v = Pow2[n]
phase ==
  IF pc = "loop" THEN "loop"
  ELSE IF out = <<>> /\ pc # "store" THEN "idle" ELSE "done"
Division == INSTANCE LongDivision WITH
  Numbers <- 0..(Pow2[4 * WordBits] - 1),
  Width <- 4 * WordBits,
  Pow <- Pow2,
  l <- Value(l),
  r <- baseParam,
  resDiv <- Value(resDiv),
  resMod <- Value(resMod),
  place <- PlaceOf(Value(adder)),
  pc <- phase
DividesNumbers == Division!Spec

(* A division comes to its end: the adder never runs out of places, which   *)
(* would leave copyd at zero, while the remainder is still not less than    *)
(* the base (uint256.c:440-447, 473-480).                                   *)
DivisionEnds == pc = "loop" ~> pc # "loop"
=============================================================================
