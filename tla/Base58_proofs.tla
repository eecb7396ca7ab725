---------------------------- MODULE Base58_proofs ----------------------------
(***************************************************************************)
(* encodeBase58 for every length whose double an unsigned char can hold:    *)
(*   - the index into the digit buffer neither wraps around nor leaves it;  *)
(*   - no digit zero is ever put in front of the number;                    *)
(*   - the address on the screen decodes to the bytes that were encoded;    *)
(*   - that of 36 bytes, a key and its checksum, fits into its buffer.      *)
(* The first two need only how many digits a byte yields (Base58Inv).  The  *)
(* third needs that the digits put and the number left stand for the number *)
(* given (KeyInv): each digit is tied to the one before by the long         *)
(* multiplication it undoes (Follows), so that no number of any size is     *)
(* needed.  The fourth needs their size: 36 bytes are less than 58^50.      *)
(***************************************************************************)
EXTENDS Base58, SequenceTheorems, WellFoundedInduction, TLAPS

(* The digits put so far.                                                   *)
Put58 == 2 * Length - j

(* A byte yields at most two digits: one division leaves less than 5 of it, *)
(* the second nothing.  So before a byte is passed there are two digits for *)
(* each byte passed already, and one more only if little or nothing is left *)
(* of the byte in hand.  Before a round nothing of the number is divided,   *)
(* after its first step the byte in hand is.                                *)
DigitsPerByte ==
  /\ pc = "divide" => zeroCount <= startAt
  /\ pc = "divide" /\ divLoop = startAt =>
       /\ remainder = 0
       /\ Put58 <= 2 * (startAt - zeroCount) + 1
       /\ tmp[startAt] >= 58 => Put58 <= 2 * (startAt - zeroCount)
  /\ pc = "divide" /\ divLoop > startAt =>
       /\ tmp[startAt] < 5
       /\ Put58 <= 2 * (startAt - zeroCount) + 1
       /\ tmp[startAt] # 0 => Put58 <= 2 * (startAt - zeroCount)
  /\ pc = "skip" => Put58 <= 2 * (Length - zeroCount)
  /\ pc = "zeros" => zeroCount <= j

(* Something of the number is left until its last digit is out: the byte in *)
(* hand is not zero, or the division under way has just made it so and      *)
(* passed what it was on to the next byte.                                  *)
NeverNothing ==
  /\ pc = "divide" /\ divLoop = startAt => tmp[startAt] # 0
  /\ pc = "divide" /\ divLoop > startAt /\ tmp[startAt] = 0 =>
       IF divLoop = startAt + 1 THEN remainder # 0 ELSE tmp[startAt + 1] # 0

(* The invariant of the index, and of what is left.                         *)
IndexInv == EncodeTypeOK /\ IndicesInside /\ DigitsPerByte
Base58Inv == IndexInv /\ NeverNothing /\ NoZeroInFront

-----------------------------------------------------------------------------
(* What one step of the long division computes (utils.c:43-45): the byte    *)
(* needs no truncation, and a remainder is less than 58.                    *)
StepFacts(rem, byte) ==
  LET tmpDiv == rem * 256 + byte IN
  /\ Uchar(tmpDiv \div 58) = tmpDiv \div 58
  /\ tmpDiv \div 58 \in 0..255 /\ tmpDiv % 58 \in 0..57
  /\ rem = 0 => tmpDiv \div 58 < 5
  /\ rem = 0 => (byte < 58 <=> tmpDiv \div 58 = 0)
  /\ rem = 0 => (byte < 58 => tmpDiv % 58 = byte)
  /\ rem # 0 => tmpDiv \div 58 # 0

(* One step of the long division keeps to these bounds.                     *)
LEMMA StepOfDivision ==
  ASSUME NEW rem \in 0..57, NEW byte \in 0..255
  PROVE  StepFacts(rem, byte)
  BY DEF StepFacts, Uchar

(* The buffer position behind the last character is not truncated.          *)
LEMMA RoomIsTwice ==
  Length \in Nat /\ 2 * Length < 256 /\ Room = 2 * Length
<1>1. Length \in Nat /\ 2 * Length < 256
  BY LengthAssumption
<1>2. (2 * Length) % 256 = 2 * Length
  BY <1>1
<1> QED
  BY <1>1, <1>2 DEF Room, Uchar

(* What the invariant says of the index and the text.                       *)
LEMMA IndexType ==
  Base58Inv => /\ zeroCount \in 0..Length /\ j \in 0..255
               /\ text \in Seq(Digits) /\ j + Len(text) = 2 * Length
  BY RoomIsTwice DEF Base58Inv, IndexInv, EncodeTypeOK, IndicesInside

(* Before the first division nothing is put and the first byte counts.      *)
LEMMA InitIndex == EncodeInit => Base58Inv
<1> SUFFICES ASSUME EncodeInit PROVE Base58Inv
  OBVIOUS
<1>1. Length \in Nat /\ 2 * Length < 256 
           /\ in \in [Position -> 0..255] /\ tmp \in [Position -> 0..255]
  BY LengthAssumption DEF EncodeInit
<1>2. j = 2 * Length /\ j \in 0..255
  BY <1>1 DEF EncodeInit, Room, Uchar
<1>3. EncodeTypeOK
  <2>1. text \in Seq(Digits) /\ remainder \in Digits
    BY DEF EncodeInit, Digits
  <2>2. /\ zeroCount \in 0..Length /\ startAt \in 0..Length
        /\ divLoop \in startAt..Length
    BY <1>1 DEF EncodeInit
  <2>3. /\ pc \in {"divide", "skip", "zeros", "returned", "overflow"}
        /\ pc = "divide" => startAt < Length
    BY DEF EncodeInit, DivideFrom
  <2> QED
    BY <1>1, <1>2, <2>1, <2>2, <2>3 DEF EncodeTypeOK
<1>4. IndicesInside
  BY <1>1, <1>2 DEF EncodeInit, IndicesInside, Room
<1>5. DigitsPerByte
  BY <1>1, <1>2 DEF EncodeInit, DigitsPerByte, Put58, DivideFrom
<1>6. NeverNothing /\ NoZeroInFront
  BY <1>1 DEF EncodeInit, NeverNothing, NoZeroInFront, LeadingZeros, DivideFrom
<1> QED
  BY <1>3, <1>4, <1>5, <1>6 DEF Base58Inv, IndexInv

(* A step of the long division leaves less than 5 of the byte in hand, and  *)
(* nothing of the number gets lost between two bytes (utils.c:41-46).       *)
LEMMA DivideByteIndex == Base58Inv /\ DivideByte => Base58Inv'
<1> SUFFICES ASSUME Base58Inv, DivideByte PROVE Base58Inv'
  OBVIOUS
<1> DEFINE tmpDiv == remainder * 256 + tmp[divLoop]
<1>1. /\ Length \in Nat /\ 2 * Length < 256
      /\ startAt \in 0..Length /\ zeroCount \in 0..Length /\ j \in 0..255
      /\ divLoop \in startAt..(Length - 1) /\ remainder \in 0..57
      /\ tmp \in [Position -> 0..255] /\ tmp[divLoop] \in 0..255
      /\ divLoop \in Position /\ startAt \in Position
      /\ pc = "divide" /\ pc' = "divide"
  BY LengthAssumption
  DEF Base58Inv, IndexInv, EncodeTypeOK, DivideByte, Digits, Position
<1>2. /\ startAt' = startAt /\ zeroCount' = zeroCount /\ j' = j
      /\ text' = text /\ in' = in /\ divLoop' = divLoop + 1
  BY DEF DivideByte
<1>3. /\ tmpDiv \div 58 \in 0..255 /\ tmpDiv % 58 \in 0..57
      /\ remainder = 0 => tmpDiv \div 58 < 5
      /\ remainder = 0 => (tmp[divLoop] < 58 <=> tmpDiv \div 58 = 0)
      /\ remainder = 0 => (tmp[divLoop] < 58 => tmpDiv % 58 = tmp[divLoop])
      /\ remainder # 0 => tmpDiv \div 58 # 0
      /\ tmp' = [tmp EXCEPT ![divLoop] = tmpDiv \div 58]
      /\ remainder' = tmpDiv % 58
  <2>1. /\ tmp' = [tmp EXCEPT ![divLoop] = Uchar(tmpDiv \div 58)]
        /\ remainder' = tmpDiv % 58
    BY DEF DivideByte
  <2>2. /\ Uchar(tmpDiv \div 58) = tmpDiv \div 58
        /\ tmpDiv \div 58 \in 0..255 /\ tmpDiv % 58 \in 0..57
        /\ remainder = 0 => tmpDiv \div 58 < 5
        /\ remainder = 0 => (tmp[divLoop] < 58 <=> tmpDiv \div 58 = 0)
        /\ remainder = 0 => (tmp[divLoop] < 58 => tmpDiv % 58 = tmp[divLoop])
        /\ remainder # 0 => tmpDiv \div 58 # 0
    <3>1. remainder \in 0..57 /\ tmp[divLoop] \in 0..255
      BY <1>1
    <3>2. StepFacts(remainder, tmp[divLoop])
      BY <3>1, StepOfDivision, Zenon
    <3> QED
      BY <3>2, Zenon DEF StepFacts
  <2> QED
    BY <2>1, <2>2
<1> HIDE DEF tmpDiv
<1>4. EncodeTypeOK'
  BY <1>1, <1>2, <1>3 DEF Base58Inv, IndexInv, EncodeTypeOK, Digits
<1>5. IndicesInside'
  BY <1>2 DEF Base58Inv, IndexInv, IndicesInside, Room
<1>6. /\ divLoop = startAt => tmp'[startAt] = tmpDiv \div 58
      /\ divLoop # startAt => tmp'[startAt] = tmp[startAt]
  BY <1>1, <1>3
<1>7. DigitsPerByte'
  BY <1>1, <1>2, <1>3, <1>6 DEF Base58Inv, IndexInv, DigitsPerByte, Put58
<1>8. NeverNothing'
  <2>1. CASE divLoop = startAt
    BY <2>1, <1>1, <1>2, <1>3, <1>6
    DEF Base58Inv, IndexInv, DigitsPerByte, NeverNothing
  <2>2. CASE divLoop = startAt + 1
    <3>1. tmp'[startAt + 1] = tmpDiv \div 58
      BY <2>2, <1>1, <1>3
    <3> QED
      BY <3>1, <2>2, <1>1, <1>2, <1>3, <1>6 DEF Base58Inv, NeverNothing
  <2>3. CASE divLoop > startAt + 1
    <3>1. tmp'[startAt + 1] = tmp[startAt + 1]
      BY <2>3, <1>1, <1>3 DEF Position
    <3> QED
      BY <3>1, <2>3, <1>1, <1>2, <1>6 DEF Base58Inv, NeverNothing
  <2> QED
    BY <2>1, <2>2, <2>3, <1>1
<1>9. NoZeroInFront'
  BY <1>1 DEF NoZeroInFront
<1> QED
  BY <1>4, <1>5, <1>7, <1>8, <1>9 DEF Base58Inv, IndexInv

(* What buffer[--j] = digit does to the index and the text, provided that   *)
(* the index is not zero.                                                   *)
LEMMA PutMoves ==
  ASSUME Length \in Nat, 2 * Length < 256, j \in 1..255, text \in Seq(Digits),
         j + Len(text) = 2 * Length, NEW digit \in Digits, Put(digit)
  PROVE  /\ j' = j - 1 /\ j' \in 0..255
         /\ text' \in Seq(Digits) /\ j' + Len(text') = 2 * Length
         /\ text'[1] = digit
<1>1. j' = j - 1
  <2>1. (j - 1) % 256 = j - 1
    OBVIOUS
  <2> QED
    BY <2>1 DEF Put, Uchar
<1>2. text' = <<digit>> \o text /\ <<digit>> \in Seq(Digits)
  BY DEF Put
<1>3. text' \in Seq(Digits) /\ Len(text') = 1 + Len(text) /\ text'[1] = digit
  BY <1>2
<1> QED
  BY <1>1, <1>3

(* A round puts one digit; one that passes a byte leaves room for two more  *)
(* per byte to come, and a last digit is not zero (utils.c:47-50).          *)
LEMMA PutDigitIndex == Base58Inv /\ PutDigit => Base58Inv'
<1> SUFFICES ASSUME Base58Inv, PutDigit PROVE Base58Inv'
  OBVIOUS
<1>1. /\ Length \in Nat /\ 2 * Length < 256
      /\ startAt \in 0..(Length - 1) /\ zeroCount \in 0..Length
      /\ j \in 0..255 /\ divLoop = Length /\ remainder \in 0..57
      /\ tmp \in [Position -> 0..255] /\ tmp[startAt] \in 0..255
      /\ text \in Seq(Digits) /\ j + Len(text) = 2 * Length
      /\ pc = "divide"
  BY RoomIsTwice, IndexType
  DEF Base58Inv, IndexInv, EncodeTypeOK, PutDigit, Digits, Position
<1>2. /\ zeroCount <= startAt
      /\ Put58 <= 2 * (startAt - zeroCount) + 1
      /\ tmp[startAt] # 0 => Put58 <= 2 * (startAt - zeroCount)
      /\ tmp[startAt] < 5
  BY <1>1 DEF Base58Inv, IndexInv, DigitsPerByte
<1>3. j \in 1..255
  BY <1>1, <1>2 DEF Put58
<1>4. /\ j' = j - 1 /\ j' \in 0..255
      /\ text' \in Seq(Digits) /\ j' + Len(text') = 2 * Length
      /\ text'[1] = remainder
  BY <1>1, <1>3, PutMoves DEF PutDigit, Digits
<1>5. /\ startAt' = IF tmp[startAt] = 0 THEN startAt + 1 ELSE startAt
      /\ divLoop' = startAt' /\ remainder' = 0
      /\ pc' = IF startAt' < Length THEN "divide" ELSE "skip"
      /\ tmp' = tmp /\ in' = in /\ zeroCount' = zeroCount
  BY DEF PutDigit, Passed, DivideFrom
<1>6. EncodeTypeOK'
  BY <1>1, <1>4, <1>5 DEF Base58Inv, IndexInv, EncodeTypeOK, Digits
<1>7. IndicesInside'
  BY <1>1, <1>4, RoomIsTwice DEF IndicesInside, Room
<1>8. DigitsPerByte'
  <2>1. CASE tmp[startAt] = 0
    BY <2>1, <1>1, <1>2, <1>4, <1>5 DEF DigitsPerByte, Put58
  <2>2. CASE tmp[startAt] # 0
    <3>1. /\ startAt' = startAt /\ divLoop' = startAt /\ pc' = "divide"
          /\ tmp'[startAt'] < 5
      BY <2>2, <1>1, <1>2, <1>5
    <3>2. Put58' <= 2 * (startAt - zeroCount) + 1
      BY <2>2, <1>1, <1>2, <1>4 DEF Put58
    <3>3. ~(tmp'[startAt'] >= 58)
      <4>1. tmp'[startAt'] = tmp[startAt]
        BY <3>1, <1>5
      <4>2. tmp[startAt] \in 0..255 /\ tmp[startAt] < 5
        BY <1>1, <1>2
      <4> QED
        BY <4>1, <4>2
    <3> QED
      BY <3>1, <3>2, <3>3, <1>1, <1>2, <1>5 DEF DigitsPerByte
  <2> QED
    BY <2>1, <2>2
<1>9. tmp[startAt] = 0 => IF startAt = Length - 1 THEN remainder # 0
                                                  ELSE tmp[startAt + 1] # 0
  BY <1>1 DEF Base58Inv, NeverNothing
<1>10. NeverNothing' /\ NoZeroInFront'
  BY <1>1, <1>4, <1>5, <1>9 DEF NeverNothing, NoZeroInFront
<1> QED
  BY <1>6, <1>7, <1>8, <1>10 DEF Base58Inv, IndexInv

(* What is left behind the digits that are dropped starts as far from the   *)
(* end as it is long; there is room in front for two characters for each    *)
(* leading zero byte, and one is needed (utils.c:52-54).                    *)
LEMMA SkipZerosIndex == Base58Inv /\ SkipZeros => Base58Inv'
<1> SUFFICES ASSUME Base58Inv, SkipZeros PROVE Base58Inv'
  OBVIOUS
<1>1. /\ Length \in Nat /\ 2 * Length < 256
      /\ zeroCount \in 0..Length /\ j \in 0..255
      /\ text \in Seq(Digits) /\ j + Len(text) = 2 * Length
      /\ pc = "skip" /\ pc' = "zeros"
  BY RoomIsTwice, IndexType DEF SkipZeros
<1>2. 2 * zeroCount <= j
  BY <1>1 DEF Base58Inv, IndexInv, DigitsPerByte, Put58
<1>3. PICK n \in 0..Len(text) :
        j' = Uchar(j + n) /\ text' = SubSeq(text, n + 1, Len(text))
  BY DEF SkipZeros
<1>4. Len(text) \in Nat /\ n \in Nat /\ n <= Len(text)
  BY <1>1, <1>3
<1>5. j' = j + n /\ j' \in 0..255
  <2>1. (j + n) % 256 = j + n /\ j + n \in 0..255
    BY <1>1, <1>4
  <2> QED
    BY <2>1, <1>3 DEF Uchar
<1>6. text' \in Seq(Digits) /\ Len(text') = Len(text) - n
  BY <1>1, <1>3, <1>4
<1>7. EncodeTypeOK'
  BY <1>1, <1>5, <1>6 DEF Base58Inv, IndexInv, EncodeTypeOK, SkipZeros
<1>8. IndicesInside'
  BY <1>1, <1>4, <1>5, <1>6, RoomIsTwice DEF IndicesInside, Room
<1>9. DigitsPerByte'
  BY <1>1, <1>2, <1>4, <1>5 DEF DigitsPerByte, SkipZeros
<1>10. NeverNothing' /\ NoZeroInFront'
  BY <1>1 DEF NeverNothing, NoZeroInFront
<1> QED
  BY <1>7, <1>8, <1>9, <1>10 DEF Base58Inv, IndexInv

(* Each '1' in front takes one position of those left for it                *)
(* (utils.c:55-57).                                                         *)
LEMMA PutZeroIndex == Base58Inv /\ PutZero => Base58Inv'
<1> SUFFICES ASSUME Base58Inv, PutZero PROVE Base58Inv'
  OBVIOUS
<1>1. /\ Length \in Nat /\ 2 * Length < 256
      /\ zeroCount \in 1..Length /\ j \in 0..255
      /\ text \in Seq(Digits) /\ j + Len(text) = 2 * Length
      /\ pc = "zeros" /\ pc' = "zeros" /\ zeroCount' = zeroCount - 1
  BY RoomIsTwice, IndexType DEF PutZero, MoreZeros
<1>2. zeroCount <= j
  BY <1>1 DEF Base58Inv, IndexInv, DigitsPerByte
<1>3. /\ j' = j - 1 /\ j' \in 0..255
      /\ text' \in Seq(Digits) /\ j' + Len(text') = 2 * Length
  <2>1. j \in 1..255 /\ 0 \in Digits
    BY <1>1, <1>2 DEF Digits
  <2> QED
    BY <2>1, <1>1, PutMoves DEF PutZero
<1>4. EncodeTypeOK'
  BY <1>1, <1>3 DEF Base58Inv, IndexInv, EncodeTypeOK, PutZero
<1>5. IndicesInside'
  BY <1>1, <1>3, RoomIsTwice DEF IndicesInside, Room
<1>6. DigitsPerByte' /\ NeverNothing' /\ NoZeroInFront'
  BY <1>1, <1>2, <1>3 DEF DigitsPerByte, NeverNothing, NoZeroInFront
<1> QED
  BY <1>4, <1>5, <1>6 DEF Base58Inv, IndexInv

(* Returning leaves the index where it is.                                  *)
LEMMA ReturnIndex == Base58Inv /\ Return => Base58Inv'
<1> SUFFICES ASSUME Base58Inv, Return PROVE Base58Inv'
  OBVIOUS
<1>1. pc' \in {"returned", "overflow"}
  BY DEF Return
<1>2. EncodeTypeOK'
  BY <1>1 DEF Base58Inv, IndexInv, EncodeTypeOK, Return
<1>3. IndicesInside'
  BY DEF Base58Inv, IndexInv, IndicesInside, Return, Room
<1>4. DigitsPerByte' /\ NeverNothing' /\ NoZeroInFront'
  BY <1>1 DEF DigitsPerByte, NeverNothing, NoZeroInFront
<1> QED
  BY <1>2, <1>3, <1>4 DEF Base58Inv, IndexInv

(* Nothing changes any more.                                                *)
LEMMA StutterIndex == Base58Inv /\ UNCHANGED encodeVars => Base58Inv'
<1> SUFFICES ASSUME Base58Inv, UNCHANGED encodeVars PROVE Base58Inv'
  OBVIOUS
<1>1. IndexInv'
  BY DEF encodeVars, Base58Inv, IndexInv, EncodeTypeOK, IndicesInside, DigitsPerByte,
         Put58, Room
<1>2. NeverNothing' /\ NoZeroInFront'
  BY DEF encodeVars, Base58Inv, NeverNothing, NoZeroInFront
<1> QED
  BY <1>1, <1>2 DEF Base58Inv

-----------------------------------------------------------------------------
(* The invariant holds for inputs of every length (utils.c:22-64).          *)
THEOREM EncodingInvariant == EncodeSpec => []Base58Inv
<1>1. Base58Inv /\ [EncodeNext]_encodeVars => Base58Inv'
  BY DivideByteIndex, PutDigitIndex, SkipZerosIndex, PutZeroIndex,
     ReturnIndex, StutterIndex
  DEF EncodeNext, Returned
<1> QED
  BY InitIndex, <1>1, PTL DEF EncodeSpec

(* Every variable of the encoding keeps its type, its unsigned chars too    *)
(* (utils.c:24-57).                                                         *)
THEOREM EncodingTypeCorrect == EncodeSpec => []EncodeTypeOK
<1>1. Base58Inv => EncodeTypeOK
  BY DEF Base58Inv, IndexInv
<1> QED
  BY EncodingInvariant, <1>1, PTL

(* The index of the digit buffer never wraps around and never leaves it     *)
(* (utils.c:36, 50, 56).                                                    *)
THEOREM IndexStaysInside == EncodeSpec => []IndicesInside
<1>1. Base58Inv => IndicesInside
  BY DEF Base58Inv, IndexInv
<1> QED
  BY EncodingInvariant, <1>1, PTL

(* The loop that drops digits zero in front never finds one                 *)
(* (utils.c:52-54).                                                         *)
THEOREM NothingToDrop == EncodeSpec => []NoZeroInFront
<1>1. Base58Inv => NoZeroInFront
  BY DEF Base58Inv
<1> QED
  BY EncodingInvariant, <1>1, PTL

-----------------------------------------------------------------------------
(* A number in bytes; zero; and what each byte of it passes to the next.    *)
Bytes == [Position -> 0..255]
Nothing == [i \in Position |-> 0]
Carries == [0..Length -> Digits]

(* The first bytes of whole divided by 58: what each leaves to the next.    *)
Divided(carry, whole, quotient, upto) ==
  /\ carry[0] = 0
  /\ \A i \in Position :
       i < upto => 58 * quotient[i] + carry[i + 1] = 256 * carry[i] + whole[i]

(* whole is 58 times quotient and the digit.                                *)
Follows(quotient, digit, whole) ==
  \E carry \in Carries :
    carry[Length] = digit /\ Divided(carry, whole, quotient, Length)

(* Reading the digits of t, from what b is, comes to goal.                  *)
Chain(b, t, goal) ==
  \E rows \in [0..Len(t) -> Bytes] :
    /\ rows[0] = b /\ rows[Len(t)] = goal
    /\ \A n \in 1..Len(t) : Follows(rows[n - 1], t[n], rows[n])

(* The division of b under way.                                             *)
Dividing(b) ==
  \E carry \in Carries :
    /\ carry[divLoop] = remainder
    /\ Divided(carry, b, tmp, divLoop)
    /\ \A i \in Position : i >= divLoop => tmp[i] = b[i]

(* Just n digits zero in front.                                             *)
Fronted(t, n) ==
  /\ n <= Len(t)
  /\ \A i \in 1..n : t[i] = 0
  /\ n < Len(t) => t[n + 1] # 0

(* While a byte is divided (utils.c:38-51) the digits put so far, read from *)
(* what was left before the division under way, come to what was given;     *)
(* when all is divided away they read as it by themselves.  The zeros in    *)
(* front are those of the zero bytes that are no longer counted.            *)
KeyInv ==
  /\ pc = "divide" => /\ \E b \in Bytes : Chain(b, text, in) /\ Dividing(b)
                      /\ \A i \in Position : i < startAt => tmp[i] = 0
  /\ pc \in {"skip", "zeros", "returned"} => Chain(Nothing, text, in)
  /\ pc \in {"divide", "skip"} => LeadingZeros(in, zeroCount)
  /\ pc \in {"zeros", "returned"} =>
       \E n \in 0..Length :
         LeadingZeros(in, n) /\ zeroCount <= n /\ Fronted(text, n - zeroCount)
  /\ pc = "returned" => zeroCount = 0 /\ address.text = text

-----------------------------------------------------------------------------
(* Every set of natural numbers that is not empty has a least one.  What    *)
(* holds of all of them is proved by looking at the least of which it does  *)
(* not.                                                                     *)
LEMMA Least ==
  ASSUME NEW T \in SUBSET Nat, T # {}
  PROVE  \E n \in T : \A m \in T : n <= m
<1> DEFINE R == OpToRel(<, Nat)
<1>1. IsWellFoundedOn(R, Nat)
  BY NatLessThanWellFounded
<1>2. \A x, y \in Nat : <<y, x>> \in R <=> y < x
  BY Zenon DEF OpToRel
<1> HIDE DEF R
<1>3. PICK x \in T : \A y \in T : ~(<<y, x>> \in R)
  BY <1>1, WFMin, Zenon
<1>4. \A y \in T : ~(y < x)
  <2>1. \A y \in T : y \in Nat /\ x \in Nat
    OBVIOUS
  <2> QED BY <1>2, <1>3, <2>1, Zenon
<1> QED BY <1>3, <1>4

(* One more digit in front.                                                 *)
LEMMA ChainGrows ==
  ASSUME NEW t \in Seq(Digits), NEW digit \in Digits,
         NEW b \in Bytes, NEW b2 \in Bytes, NEW goal \in Bytes,
         Follows(b, digit, b2), Chain(b2, t, goal)
  PROVE  Chain(b, <<digit>> \o t, goal)
<1> DEFINE s == <<digit>> \o t
<1>1. PICK rows \in [0..Len(t) -> Bytes] :
        /\ rows[0] = b2 /\ rows[Len(t)] = goal
        /\ \A n \in 1..Len(t) : Follows(rows[n - 1], t[n], rows[n])
  BY DEF Chain
<1>2. /\ Len(t) \in Nat /\ Len(s) = Len(t) + 1 /\ s[1] = digit
      /\ \A n \in 2..Len(s) : s[n] = t[n - 1]
  OBVIOUS
<1> DEFINE longer == [n \in 0..Len(s) |-> IF n = 0 THEN b ELSE rows[n - 1]]
<1> HIDE DEF s
<1>3. longer \in [0..Len(s) -> Bytes]
  BY <1>1, <1>2
<1>4. longer[0] = b /\ longer[Len(s)] = goal
  BY <1>1, <1>2
<1>5. ASSUME NEW n \in 1..Len(s)
      PROVE  Follows(longer[n - 1], s[n], longer[n])
  <2>1. CASE n = 1
    <3>1. longer[n - 1] = b /\ longer[n] = b2 /\ s[n] = digit
      BY <1>1, <1>2, <2>1
    <3> QED BY <3>1
  <2>2. CASE n # 1
    <3>1. /\ n - 1 \in 1..Len(t) /\ s[n] = t[n - 1]
          /\ longer[n - 1] = rows[(n - 1) - 1] /\ longer[n] = rows[n - 1]
      BY <1>2, <2>2
    <3> HIDE DEF longer
    <3> QED BY <3>1, <1>1
  <2> QED BY <2>1, <2>2
<1> HIDE DEF longer
<1>6. Chain(b, s, goal)
  BY <1>3, <1>4, <1>5 DEF Chain
<1> QED BY <1>6 DEF s

(* No digit is read yet.                                                    *)
LEMMA ChainEmpty ==
  ASSUME NEW b \in Bytes PROVE Chain(b, <<>>, b)
<1> DEFINE rows == [n \in 0..0 |-> b]
<1>1. Len(<<>>) = 0 /\ rows \in [0..0 -> Bytes] /\ rows[0] = b
  OBVIOUS
<1> HIDE DEF rows
<1>2. \A n \in 1..0 : Follows(rows[n - 1], <<>>[n], rows[n])
  OBVIOUS
<1> QED BY <1>1, <1>2 DEF Chain

(* Nothing times 58, and nothing.                                           *)
LEMMA NothingFollows == Follows(Nothing, 0, Nothing) /\ Nothing \in Bytes
<1> DEFINE carry == [i \in 0..Length |-> 0]
<1>1. Length \in Nat
  BY LengthAssumption
<1>2. carry \in Carries
  BY DEF Carries, Digits
<1>3. carry[Length] = 0 /\ Divided(carry, Nothing, Nothing, Length)
  BY <1>1 DEF Divided, Nothing, Position
<1>4. Nothing \in Bytes
  BY DEF Nothing, Bytes
<1> HIDE DEF carry
<1> QED BY <1>2, <1>3, <1>4 DEF Follows

(* A new round divides what is left.                                        *)
LEMMA RoundBegins ==
  ASSUME Length \in Nat, tmp \in Bytes, divLoop \in 0..Length, remainder = 0,
         \A i \in Position : i < divLoop => tmp[i] = 0
  PROVE  Dividing(tmp)
<1> DEFINE carry == [i \in 0..Length |-> 0]
<1>1. carry \in Carries
  BY DEF Carries, Digits
<1>2. carry[divLoop] = remainder
  OBVIOUS
<1>3. Divided(carry, tmp, tmp, divLoop)
  BY DEF Divided, Position
<1> HIDE DEF carry
<1> QED BY <1>1, <1>2, <1>3 DEF Dividing

(* What is to be encoded is what was given; no digit is put yet.            *)
LEMMA InitKey == EncodeInit => KeyInv
<1> SUFFICES ASSUME EncodeInit PROVE KeyInv
  OBVIOUS
<1>1. Length \in Nat /\ in \in Bytes /\ tmp \in Bytes /\ tmp = in
  BY LengthAssumption DEF EncodeInit, Bytes
<1>2. /\ divLoop \in 0..Length /\ remainder = 0 /\ startAt = divLoop
      /\ zeroCount = divLoop /\ text = <<>> /\ LeadingZeros(in, zeroCount)
  BY DEF EncodeInit
<1>3. \A i \in Position : i < divLoop => tmp[i] = 0
  BY <1>1, <1>2 DEF LeadingZeros
<1>4. Chain(tmp, text, in) /\ Dividing(tmp)
  BY <1>1, <1>2, <1>3, ChainEmpty, RoundBegins
<1>5. pc = "skip" => Chain(Nothing, text, in)
  <2> SUFFICES ASSUME pc = "skip" PROVE Chain(Nothing, text, in)
    OBVIOUS
  <2>1. ~(zeroCount < Length)
    BY DEF EncodeInit, DivideFrom
  <2>2. in = Nothing
    BY <1>1, <1>2, <1>3, <2>1 DEF Bytes, Nothing, Position
  <2> QED BY <1>1, <1>4, <2>2
<1>6. pc \in {"divide", "skip"}
  BY DEF EncodeInit, DivideFrom
<1> QED BY <1>1, <1>2, <1>3, <1>4, <1>5, <1>6 DEF KeyInv

(* The byte passed gives its part of the quotient, and the remainder goes   *)
(* on to the next.                                                          *)
LEMMA DivideByteKey == Base58Inv /\ KeyInv /\ DivideByte => KeyInv'
<1> SUFFICES ASSUME Base58Inv, KeyInv, DivideByte PROVE KeyInv'
  OBVIOUS
<1> DEFINE tmpDiv == remainder * 256 + tmp[divLoop]
<1>1. /\ Length \in Nat /\ startAt \in 0..Length
      /\ divLoop \in startAt..(Length - 1) /\ remainder \in 0..57
      /\ tmp \in Bytes /\ tmp[divLoop] \in 0..255
      /\ divLoop \in Position /\ pc = "divide" /\ pc' = "divide"
  BY LengthAssumption
  DEF Base58Inv, IndexInv, EncodeTypeOK, DivideByte, Digits, Position, Bytes
<1>2. /\ startAt' = startAt /\ zeroCount' = zeroCount
      /\ text' = text /\ in' = in /\ divLoop' = divLoop + 1
  BY DEF DivideByte
<1>3. /\ tmp' = [tmp EXCEPT ![divLoop] = tmpDiv \div 58]
      /\ remainder' = tmpDiv % 58
      /\ tmpDiv \div 58 \in 0..255 /\ tmpDiv % 58 \in 0..57
      /\ 58 * (tmpDiv \div 58) + (tmpDiv % 58) = 256 * remainder + tmp[divLoop]
  <2>1. StepFacts(remainder, tmp[divLoop])
    BY <1>1, StepOfDivision, Zenon
  <2>2. Uchar(tmpDiv \div 58) = tmpDiv \div 58
    BY <2>1, Zenon DEF StepFacts
  <2>3. tmpDiv \div 58 \in 0..255 /\ tmpDiv % 58 \in 0..57
    BY <2>1, Zenon DEF StepFacts
  <2>4. /\ tmp' = [tmp EXCEPT ![divLoop] = Uchar(tmpDiv \div 58)]
        /\ remainder' = tmpDiv % 58
    BY DEF DivideByte
  <2>5. 58 * (tmpDiv \div 58) + (tmpDiv % 58) = 256 * remainder + tmp[divLoop]
    <3>1. tmpDiv \in Nat /\ tmpDiv = 256 * remainder + tmp[divLoop]
      BY <1>1
    <3> HIDE DEF tmpDiv
    <3>2. 58 * (tmpDiv \div 58) + (tmpDiv % 58) = tmpDiv
      BY <3>1
    <3> QED BY <3>1, <3>2
  <2> QED BY <2>2, <2>3, <2>4, <2>5
<1> HIDE DEF tmpDiv
<1>4. PICK b \in Bytes : Chain(b, text, in) /\ Dividing(b)
  BY <1>1 DEF KeyInv
<1>5. PICK carry \in Carries :
        /\ carry[divLoop] = remainder
        /\ Divided(carry, b, tmp, divLoop)
        /\ \A i \in Position : i >= divLoop => tmp[i] = b[i]
  BY <1>4 DEF Dividing
<1> DEFINE next == [carry EXCEPT ![divLoop + 1] = tmpDiv % 58]
<1>6. /\ next \in Carries /\ next[divLoop + 1] = tmpDiv % 58
      /\ \A i \in 0..divLoop : next[i] = carry[i]
  <2>1. tmpDiv % 58 \in Digits /\ carry \in [0..Length -> Digits]
    BY <1>3 DEF Carries, Digits
  <2>2. divLoop \in Nat /\ divLoop + 1 \in 0..Length /\ Length \in Nat
    BY <1>1
  <2> QED BY <2>1, <2>2 DEF Carries
<1> HIDE DEF next
<1>7. Divided(next, b, tmp', divLoop + 1)
  <2>1. next[0] = 0
    BY <1>1, <1>5, <1>6 DEF Divided
  <2>2. ASSUME NEW i \in Position, i < divLoop + 1
        PROVE  58 * tmp'[i] + next[i + 1] = 256 * next[i] + b[i]
    <3>1. CASE i = divLoop
      <4>1. tmp'[i] = tmpDiv \div 58 /\ b[i] = tmp[divLoop]
        BY <1>1, <1>3, <1>5, <3>1 DEF Bytes
      <4>2. next[i + 1] = tmpDiv % 58 /\ next[i] = remainder
        BY <1>1, <1>5, <1>6, <3>1
      <4> QED BY <4>1, <4>2, <1>3, Zenon
    <3>2. CASE i # divLoop
      <4>1. i \in 0..divLoop /\ i + 1 \in 0..divLoop /\ i < divLoop
        BY <1>1, <2>2, <3>2 DEF Position
      <4>2. tmp'[i] = tmp[i] /\ next[i + 1] = carry[i + 1] /\ next[i] = carry[i]
        BY <1>1, <1>3, <1>6, <3>2, <4>1 DEF Bytes
      <4>3. 58 * tmp[i] + carry[i + 1] = 256 * carry[i] + b[i]
        BY <4>1, <1>5 DEF Divided
      <4> QED BY <4>2, <4>3
    <3> QED BY <3>1, <3>2
  <2> QED BY <2>1, <2>2 DEF Divided
<1>8. \A i \in Position : i >= divLoop + 1 => tmp'[i] = b[i]
  BY <1>1, <1>3, <1>5 DEF Bytes, Position
<1>9. Dividing(b)'
  <2>1. next[divLoop'] = remainder' /\ Divided(next, b, tmp', divLoop')
    BY <1>2, <1>3, <1>6, <1>7
  <2>2. \A i \in Position : i >= divLoop' => tmp'[i] = b[i]
    BY <1>2, <1>8
  <2> QED BY <1>6, <2>1, <2>2 DEF Dividing
<1>10. \A i \in Position : i < startAt => tmp'[i] = 0
  BY <1>1, <1>3 DEF KeyInv, Bytes, Position
<1>11. LeadingZeros(in, zeroCount)
  BY <1>1 DEF KeyInv
<1> QED
  <2>1. \E c \in Bytes : Chain(c, text', in') /\ Dividing(c)'
    BY <1>2, <1>4, <1>9
  <2> QED BY <1>1, <1>2, <1>10, <1>11, <2>1 DEF KeyInv
(* The end of a division: its remainder is the next digit in front, and its *)
(* quotient what is left to encode.                                         *)
LEMMA PutDigitKey == Base58Inv /\ KeyInv /\ PutDigit => KeyInv'
<1> SUFFICES ASSUME Base58Inv, KeyInv, PutDigit PROVE KeyInv'
  OBVIOUS
<1>1. /\ Length \in Nat /\ startAt \in 0..(Length - 1) /\ divLoop = Length
      /\ remainder \in Digits /\ tmp \in Bytes /\ in \in Bytes
      /\ text \in Seq(Digits) /\ pc = "divide"
  BY LengthAssumption
  DEF Base58Inv, IndexInv, EncodeTypeOK, PutDigit, Bytes
<1>2. /\ startAt' = IF tmp[startAt] = 0 THEN startAt + 1 ELSE startAt
      /\ divLoop' = startAt' /\ remainder' = 0
      /\ pc' = IF startAt' < Length THEN "divide" ELSE "skip"
      /\ tmp' = tmp /\ in' = in /\ zeroCount' = zeroCount
      /\ text' = <<remainder>> \o text
  BY DEF PutDigit, Passed, DivideFrom, Put
<1>3. PICK b \in Bytes : Chain(b, text, in) /\ Dividing(b)
  BY <1>1 DEF KeyInv
<1>4. Follows(tmp, remainder, b)
  BY <1>1, <1>3 DEF Dividing, Follows
<1>5. Chain(tmp, text', in)
  BY <1>1, <1>2, <1>3, <1>4, ChainGrows
<1>6. \A i \in Position : i < startAt' => tmp[i] = 0
  <2>1. \A i \in Position : i < startAt => tmp[i] = 0
    BY <1>1 DEF KeyInv
  <2> QED BY <1>1, <1>2, <2>1 DEF Position
<1>7. Dividing(tmp)'
  <2>1. divLoop' \in 0..Length /\ tmp' \in Bytes
        /\ \A i \in Position : i < divLoop' => tmp'[i] = 0
    BY <1>1, <1>2, <1>6
  <2> HIDE DEF PutDigit
  <2> DEFINE carry == [i \in 0..Length |-> 0]
  <2>2. carry \in Carries
    BY DEF Carries, Digits
  <2>3. carry[divLoop'] = remainder'
    BY <1>2, <2>1
  <2>4. Divided(carry, tmp', tmp', divLoop')
    BY <1>1, <2>1 DEF Divided, Position
  <2> HIDE DEF carry
  <2> QED BY <2>2, <2>3, <2>4 DEF Dividing
<1>8. pc' = "skip" => Chain(Nothing, text', in)
  <2> SUFFICES ASSUME pc' = "skip" PROVE Chain(Nothing, text', in)
    OBVIOUS
  <2>1. ~(startAt' < Length)
    BY <1>2
  <2>2. tmp = Nothing
    BY <1>1, <1>2, <1>6, <2>1 DEF Bytes, Nothing, Position
  <2> QED BY <1>5, <2>2
<1>9. LeadingZeros(in, zeroCount)
  BY <1>1 DEF KeyInv
<1>10. \E c \in Bytes : Chain(c, text', in') /\ Dividing(c)'
  <2>1. PICK c \in Bytes : c = tmp'
    BY <1>1, <1>2
  <2>2. Chain(c, text', in')
    BY <1>2, <1>5, <2>1
  <2>3. Dividing(c)'
    BY <1>7, <2>1 DEF Dividing
  <2> QED BY <2>2, <2>3
<1>11. pc' \in {"divide", "skip"}
  BY <1>2
<1> QED BY <1>2, <1>6, <1>8, <1>9, <1>10, <1>11 DEF KeyInv

(* No digit is dropped, for none is zero; all that is in front now are the  *)
(* zeros of zero bytes, which are none yet.                                 *)
LEMMA SkipZerosKey == Base58Inv /\ KeyInv /\ SkipZeros => KeyInv'
<1> SUFFICES ASSUME Base58Inv, KeyInv, SkipZeros PROVE KeyInv'
  OBVIOUS
<1>1. /\ text \in Seq(Digits) /\ Len(text) \in Nat /\ zeroCount \in 0..Length
      /\ pc = "skip" /\ pc' = "zeros" /\ in' = in /\ zeroCount' = zeroCount
      /\ text # <<>> => text[1] # 0
  BY IndexType DEF Base58Inv, NoZeroInFront, SkipZeros
<1>2. PICK n \in 0..Len(text) :
        /\ \A i \in 1..n : text[i] = 0
        /\ text' = SubSeq(text, n + 1, Len(text))
  BY DEF SkipZeros
<1>3. n = 0
  <2> SUFFICES ASSUME n # 0 PROVE FALSE
    OBVIOUS
  <2>1. 1 \in 1..n /\ text # <<>>
    BY <1>1, <1>2
  <2> QED BY <1>1, <1>2, <2>1
<1>4. text' = text
  BY <1>1, <1>2, <1>3
<1>5. Chain(Nothing, text, in) /\ LeadingZeros(in, zeroCount)
  BY <1>1 DEF KeyInv
<1>6. Length \in Nat
  BY LengthAssumption
<1>7. Fronted(text, zeroCount - zeroCount)
  <2>1. zeroCount - zeroCount = 0
    BY <1>1, <1>6
  <2>2. Fronted(text, 0)
    BY <1>1 DEF Fronted
  <2> QED BY <2>1, <2>2
<1>8. zeroCount <= zeroCount
  BY <1>1, <1>6
<1> QED BY <1>1, <1>4, <1>5, <1>7, <1>8 DEF KeyInv

(* A zero in front of a text does not change what it reads as.              *)
LEMMA PutZeroKey == Base58Inv /\ KeyInv /\ PutZero => KeyInv'
<1> SUFFICES ASSUME Base58Inv, KeyInv, PutZero PROVE KeyInv'
  OBVIOUS
<1>1. /\ text \in Seq(Digits) /\ Len(text) \in Nat /\ in \in Bytes
      /\ zeroCount \in 1..Length /\ Length \in Nat
      /\ pc = "zeros" /\ pc' = "zeros" /\ in' = in
      /\ zeroCount' = zeroCount - 1 /\ text' = <<0>> \o text
  BY IndexType, LengthAssumption
  DEF Base58Inv, IndexInv, EncodeTypeOK, Bytes, PutZero, Put, MoreZeros
<1>2. Chain(Nothing, text', in)
  <2>1. Chain(Nothing, text, in) /\ 0 \in Digits
    BY <1>1 DEF KeyInv, Digits
  <2> QED BY <1>1, <2>1, NothingFollows, ChainGrows
<1>3. PICK n \in 0..Length :
        LeadingZeros(in, n) /\ zeroCount <= n /\ Fronted(text, n - zeroCount)
  BY <1>1 DEF KeyInv
<1>4. Fronted(text', n - zeroCount')
  <2>1. /\ Len(text') = Len(text) + 1 /\ text'[1] = 0
        /\ \A i \in 2..Len(text') : text'[i] = text[i - 1]
    BY <1>1
  <2> DEFINE k == n - zeroCount
  <2>2. k \in Nat /\ n - zeroCount' = k + 1
    BY <1>1, <1>3
  <2>3. /\ k <= Len(text) /\ \A i \in 1..k : text[i] = 0
        /\ k < Len(text) => text[k + 1] # 0
    BY <1>3 DEF Fronted
  <2> HIDE DEF k
  <2>4. Fronted(text', k + 1)
    BY <1>1, <2>1, <2>2, <2>3 DEF Fronted
  <2> QED BY <2>2, <2>4
<1>5. zeroCount' <= n
  BY <1>1, <1>3
<1> QED BY <1>1, <1>2, <1>3, <1>4, <1>5 DEF KeyInv

(* The text that is returned is the one that was put together.              *)
LEMMA ReturnKey == Base58Inv /\ KeyInv /\ Return => KeyInv'
<1> SUFFICES ASSUME Base58Inv, KeyInv, Return PROVE KeyInv'
  OBVIOUS
<1>1. /\ zeroCount \in 0..Length /\ Length \in Nat /\ ~(zeroCount > 0)
      /\ pc = "zeros" /\ in' = in /\ text' = text /\ zeroCount' = zeroCount
      /\ pc' \in {"returned", "overflow"}
  BY IndexType, LengthAssumption DEF Return, MoreZeros
<1>2. pc' = "returned" => address'.text = text'
  <2> SUFFICES ASSUME pc' = "returned" PROVE address'.text = text'
    OBVIOUS
  <2>1. PICK prefix \in AddressPrefixes :
          address' = [prefix |-> prefix, text |-> text]
    BY DEF Return
  <2> QED BY <1>1, <2>1
<1>3. zeroCount = 0
  BY <1>1
<1> QED BY <1>1, <1>2, <1>3 DEF KeyInv

(* Nothing moves.                                                           *)
LEMMA StutterKey == KeyInv /\ UNCHANGED encodeVars => KeyInv'
<1> SUFFICES ASSUME KeyInv, UNCHANGED encodeVars PROVE KeyInv'
  OBVIOUS
<1>1. \A b : Dividing(b)' <=> Dividing(b)
  BY DEF encodeVars, Dividing
<1> QED BY <1>1 DEF encodeVars, KeyInv

-----------------------------------------------------------------------------
(* The bytes as a sequence.                                                 *)
Listed(b) == [i \in 1..Length |-> b[i - 1]]

(* Its length, its bytes, and where they stand.                             *)
LEMMA ListedSeq ==
  ASSUME NEW b \in Bytes
  PROVE  /\ Listed(b) \in Seq(0..255) /\ Len(Listed(b)) = Length
         /\ \A i \in Position : Listed(b)[i + 1] = b[i]
         /\ \A i \in 1..Length : Listed(b)[i] = b[i - 1]
<1>1. Length \in Nat
  BY LengthAssumption
<1>2. Listed(b) \in [1..Length -> 0..255]
  BY <1>1 DEF Listed, Bytes, Position
<1>3. \A i \in 1..Length : Listed(b)[i] = b[i - 1]
  BY DEF Listed
<1>4. \A i \in Position : Listed(b)[i + 1] = b[i]
  BY <1>1 DEF Listed, Position
<1> HIDE DEF Listed
<1>5. Listed(b) \in Seq(0..255) /\ Len(Listed(b)) = Length
  BY <1>1, <1>2
<1> QED BY <1>3, <1>4, <1>5

(* Digits and bytes are natural numbers.                                    *)
LEMMA SmallNumbers == (\A x \in 0..57 : x \in Nat) /\ (\A x \in 0..255 : x \in Nat)
OBVIOUS

(* What is computed from a position on: the carry, and the bytes behind it. *)
Row(carry, b2, i) ==
  [k \in 1..(Length + 2 - i) |-> IF k = 1 THEN carry[i - 1] ELSE b2[i + k - 3]]

(* Its length and its places.                                               *)
LEMMA RowIs ==
  ASSUME NEW carry \in [0..Length -> 0..57], NEW b2 \in Bytes,
         NEW i \in 1..(Length + 1)
  PROVE  /\ Row(carry, b2, i) \in Seq(Nat)
         /\ Len(Row(carry, b2, i)) = Length + 2 - i
         /\ Row(carry, b2, i)[1] = carry[i - 1]
         /\ \A k \in 2..(Length + 2 - i) : Row(carry, b2, i)[k] = b2[i + k - 3]
         /\ carry[i - 1] \in Nat
<1>1. Length \in Nat
  BY LengthAssumption
<1> DEFINE n == Length + 2 - i
           row == Row(carry, b2, i)
<1>2. n \in Nat /\ i - 1 \in 0..Length /\ 1 \in 1..n
  BY <1>1
<1>3. carry[i - 1] \in Nat
  <2>1. carry[i - 1] \in 0..57
    BY <1>2
  <2> QED BY <2>1, SmallNumbers
<1>4. ASSUME NEW k \in 2..n PROVE k \in 1..n /\ k # 1 /\ b2[i + k - 3] \in Nat
  <2>1. i + k - 3 \in Position
    BY <1>1, <1>4 DEF Position
  <2>2. b2[i + k - 3] \in 0..255
    BY <2>1 DEF Bytes
  <2>3. k \in 1..n /\ k # 1
    BY <1>2, <1>4
  <2> QED BY <2>2, <2>3, SmallNumbers
<1>5. row = [k \in 1..n |-> IF k = 1 THEN carry[i - 1] ELSE b2[i + k - 3]]
  BY DEF Row
<1> HIDE DEF n, row
<1>6. row[1] = carry[i - 1]
  BY <1>2, <1>5
<1>7. \A k \in 2..n : row[k] = b2[i + k - 3]
  BY <1>4, <1>5
<1>8. \A k \in 1..n : k = 1 \/ k \in 2..n
  BY <1>2
<1>9. row \in [1..n -> Nat]
  BY <1>2, <1>3, <1>4, <1>5, <1>8
<1>10. row \in Seq(Nat) /\ Len(row) = n
  BY <1>2, <1>9
<1> QED BY <1>3, <1>6, <1>7, <1>10 DEF n, row

(* Behind the last byte there is the digit alone.                           *)
LEMMA LastRow ==
  ASSUME NEW carry \in [0..Length -> 0..57], NEW b2 \in Bytes
  PROVE  Row(carry, b2, Length + 1) = <<carry[Length]>>
<1>1. /\ Length + 1 \in 1..(Length + 1) /\ Length + 2 - (Length + 1) = 1
      /\ (Length + 1) - 1 = Length
  BY LengthAssumption
<1> DEFINE row == Row(carry, b2, Length + 1)
<1>2. row \in Seq(Nat) /\ Len(row) = 1 /\ row[1] = carry[Length]
  BY <1>1, RowIs
<1> HIDE DEF row
<1>3. row = <<carry[Length]>>
  BY <1>2
<1> QED BY <1>3 DEF row

(* From the first byte on there are all of them, and nothing is passed on.  *)
LEMMA FirstRow ==
  ASSUME NEW carry \in [0..Length -> 0..57], NEW b2 \in Bytes, carry[0] = 0
  PROVE  Row(carry, b2, 1) = <<0>> \o Listed(b2)
<1>1. Length \in Nat
  BY LengthAssumption
<1> DEFINE row == Row(carry, b2, 1)
           bytes == Listed(b2)
           all == <<0>> \o bytes
<1>2. /\ 1 \in 1..(Length + 1) /\ Length + 2 - 1 = Length + 1 /\ 1 - 1 = 0
      /\ \A k \in 2..(Length + 1) : 1 + k - 3 = k - 2
  BY <1>1
<1>3. /\ row \in Seq(Nat) /\ Len(row) = Length + 1 /\ row[1] = 0
      /\ \A k \in 2..(Length + 1) : row[k] = b2[k - 2]
  <2>1. /\ row \in Seq(Nat) /\ Len(row) = Length + 2 - 1 /\ row[1] = carry[1 - 1]
        /\ \A k \in 2..(Length + 2 - 1) : row[k] = b2[1 + k - 3]
    BY <1>2, RowIs
  <2> HIDE DEF row
  <2> QED BY <1>2, <2>1
<1>4. /\ bytes \in Seq(Nat) /\ Len(bytes) = Length
      /\ \A k \in 1..Length : bytes[k] = b2[k - 1]
  <2>1. /\ bytes \in Seq(0..255) /\ Len(bytes) = Length
        /\ \A k \in 1..Length : bytes[k] = b2[k - 1]
    BY ListedSeq
  <2>2. 0..255 \subseteq Nat
    OBVIOUS
  <2> HIDE DEF bytes
  <2> QED BY <2>1, <2>2, SeqMonotonic
<1> HIDE DEF bytes, row
<1>5. /\ all \in Seq(Nat) /\ Len(all) = Length + 1 /\ all[1] = 0
      /\ \A k \in 2..(Length + 1) : all[k] = bytes[k - 1]
  BY <1>1, <1>4
<1> HIDE DEF all
<1>6. ASSUME NEW k \in 1..(Length + 1) PROVE row[k] = all[k]
  <2>1. CASE k = 1 BY <2>1, <1>3, <1>5
  <2>2. CASE k # 1
    <3>1. k \in 2..(Length + 1) /\ k - 1 \in 1..Length /\ (k - 1) - 1 = k - 2
      BY <1>1, <2>2
    <3> QED BY <3>1, <1>3, <1>4, <1>5
  <2> QED BY <2>1, <2>2
<1>7. row = all
  BY <1>3, <1>5, <1>6, SeqEqual
<1> QED BY <1>7 DEF all, bytes, row

(* From one byte on there is its carry, the byte, and what is behind it.    *)
LEMMA RowBehind ==
  ASSUME NEW carry \in [0..Length -> 0..57], NEW b2 \in Bytes, NEW i \in 1..Length
  PROVE  Row(carry, b2, i) =
           <<carry[i - 1], b2[i - 1]>> \o Tail(Row(carry, b2, i + 1))
<1>1. Length \in Nat
  BY LengthAssumption
<1> DEFINE row == Row(carry, b2, i)
           rest == Row(carry, b2, i + 1)
           tail == Tail(rest)
           c == carry[i - 1]
           d == b2[i - 1]
           all == <<c, d>> \o tail
<1>2. /\ i \in 1..(Length + 1) /\ i + 1 \in 1..(Length + 1)
      /\ i - 1 \in Position /\ Length + 2 - i >= 2 /\ Length - i \in Nat
      /\ Length + 2 - (i + 1) = Length + 1 - i
      /\ \A k \in Nat : (i + 1) + k - 3 = i + k - 2
  BY <1>1 DEF Position
<1>3. /\ row \in Seq(Nat) /\ Len(row) = Length + 2 - i /\ row[1] = c /\ c \in Nat
      /\ \A k \in 2..(Length + 2 - i) : row[k] = b2[i + k - 3]
  BY <1>2, RowIs
<1>4. /\ rest \in Seq(Nat) /\ Len(rest) = Length + 1 - i
      /\ \A k \in 2..(Length + 1 - i) : rest[k] = b2[i + k - 2]
  <2>1. /\ rest \in Seq(Nat) /\ Len(rest) = Length + 2 - (i + 1)
        /\ \A k \in 2..(Length + 2 - (i + 1)) : rest[k] = b2[(i + 1) + k - 3]
    BY <1>2, RowIs
  <2> HIDE DEF rest
  <2>2. \A k \in 2..(Length + 1 - i) : rest[k] = b2[i + k - 2]
    <3> TAKE k \in 2..(Length + 1 - i)
    <3>1. k \in 2..(Length + 2 - (i + 1)) /\ k \in Nat
      BY <1>2
    <3> QED BY <1>2, <2>1, <3>1
  <2> QED BY <1>2, <2>1, <2>2
<1>5. d \in Nat
  <2>1. d \in 0..255
    BY <1>2 DEF Bytes
  <2> QED BY <2>1, SmallNumbers
<1> HIDE DEF row, rest
<1>6. /\ tail \in Seq(Nat) /\ Len(tail) = Length - i
      /\ \A k \in 1..(Length - i) : tail[k] = rest[k + 1]
  <2>1. rest # <<>>
    BY <1>1, <1>4
  <2> QED BY <1>1, <1>4, <2>1
<1>7. \A k \in 1..(Length - i) : tail[k] = b2[i + k - 1]
  <2> TAKE k \in 1..(Length - i)
  <2>1. k + 1 \in 2..(Length + 1 - i) /\ i + (k + 1) - 2 = i + k - 1
    BY <1>1
  <2> QED BY <1>4, <1>6, <2>1
<1> HIDE DEF tail, c, d
<1>8. /\ all \in Seq(Nat) /\ Len(all) = Length + 2 - i
      /\ all[1] = c /\ all[2] = d
      /\ \A k \in 3..(Length + 2 - i) : all[k] = tail[k - 2]
  <2>1. <<c, d>> \in Seq(Nat) /\ Len(<<c, d>>) = 2
    BY <1>3, <1>5
  <2>2. all \in Seq(Nat) /\ Len(all) = 2 + Len(tail)
    BY <1>6, <2>1
  <2>3. \A k \in 1..Len(all) :
          all[k] = IF k <= 2 THEN <<c, d>>[k] ELSE tail[k - 2]
    BY <1>6, <2>1, ConcatProperties
  <2> HIDE DEF all
  <2> QED BY <1>1, <1>2, <1>6, <2>2, <2>3
<1> HIDE DEF all
<1>9. ASSUME NEW k \in 1..(Length + 2 - i) PROVE row[k] = all[k]
  <2>1. CASE k = 1 BY <2>1, <1>3, <1>8
  <2>2. CASE k = 2
    <3>1. i + k - 3 = i - 1 /\ k \in 2..(Length + 2 - i)
      BY <1>2, <2>2
    <3> QED BY <3>1, <2>2, <1>3, <1>8 DEF d
  <2>3. CASE k \in 3..(Length + 2 - i)
    <3>1. /\ k \in 2..(Length + 2 - i) /\ k - 2 \in 1..(Length - i)
          /\ i + (k - 2) - 1 = i + k - 3
      BY <1>1, <1>2, <2>3
    <3> QED BY <3>1, <2>3, <1>3, <1>7, <1>8
  <2> QED BY <1>1, <1>2, <2>1, <2>2, <2>3
<1>10. row = all
  BY <1>3, <1>8, <1>9, SeqEqual
<1> QED BY <1>10 DEF all, row, rest, tail, c, d

(* TimesPlus computes what the digit leaves.                                *)
LEMMA TimesPlusFollows ==
  ASSUME NEW b \in Bytes, NEW b2 \in Bytes, NEW digit \in Digits,
         Follows(b, digit, b2)
  PROVE  TimesPlus(Listed(b), digit) = <<0>> \o Listed(b2)
<1>1. Length \in Nat
  BY LengthAssumption
<1>2. PICK carry \in [0..Length -> 0..57] :
        carry[Length] = digit /\ Divided(carry, b2, b, Length)
  BY DEF Follows, Carries, Digits
<1> DEFINE bytes == Listed(b)
           I == 1..(Length + 1)
           Step(f, i) ==
             IF i = Length + 1 THEN <<digit>>
             ELSE LET behind == f[i + 1]
                      sum == 58 * bytes[i] + Head(behind)
                  IN <<sum \div 256, sum % 256>> \o Tail(behind)
           Fix(f) == f = [i \in I |-> Step(f, i)]
           R(i) == Row(carry, b2, i)
           rows == [i \in I |-> R(i)]
<1>3. R(Length + 1) = <<digit>>
  BY <1>2, LastRow
<1>4. ASSUME NEW i \in I, NEW f, i # Length + 1, f[i + 1] = R(i + 1)
      PROVE  R(i) = Step(f, i)
  <2> DEFINE behind == f[i + 1]
             sum == 58 * bytes[i] + Head(behind)
  <2>1. i \in 1..Length /\ i - 1 \in Position /\ i + 1 \in I /\ (i + 1) - 1 = i
        /\ (i - 1) + 1 = i
    BY <1>1, <1>4 DEF Position
  <2>2. Head(behind) = carry[i] /\ carry[i] \in Nat
    <3>1. /\ R(i + 1) \in Seq(Nat) /\ Len(R(i + 1)) = Length + 2 - (i + 1)
          /\ R(i + 1)[1] = carry[(i + 1) - 1] /\ carry[(i + 1) - 1] \in Nat
      BY <1>2, <2>1, RowIs
    <3> HIDE DEF R
    <3> QED BY <1>4, <2>1, <3>1
  <2>3. bytes[i] = b[i - 1]
    BY <2>1, ListedSeq
  <2>4. 58 * b[i - 1] + carry[i] = 256 * carry[i - 1] + b2[i - 1]
    <3>1. i - 1 < Length
      BY <1>1, <2>1
    <3>2. 58 * b[i - 1] + carry[(i - 1) + 1] = 256 * carry[i - 1] + b2[i - 1]
      BY <1>2, <2>1, <3>1, Zenon DEF Divided
    <3> QED BY <2>1, <3>2
  <2>5. carry[i - 1] \in Nat /\ b2[i - 1] \in 0..255
    <3>1. i \in 1..(Length + 1)
      BY <1>1, <2>1
    <3>2. carry[i - 1] \in Nat
      BY <3>1, <1>2, RowIs
    <3>3. b2[i - 1] \in 0..255
      BY <2>1 DEF Bytes
    <3> QED BY <3>2, <3>3
  <2>6. sum \div 256 = carry[i - 1] /\ sum % 256 = b2[i - 1]
    <3>1. sum = 256 * carry[i - 1] + b2[i - 1]
      BY <2>2, <2>3, <2>4
    <3> HIDE DEF sum
    <3>2. PICK c \in Nat : c = carry[i - 1]
      BY <2>5
    <3>3. PICK d \in 0..255 : d = b2[i - 1]
      BY <2>5
    <3>4. sum = 256 * c + d
      BY <3>1, <3>2, <3>3, Zenon
    <3>5. sum \div 256 = c /\ sum % 256 = d
      <4> HIDE DEF bytes, I, Step, Fix, R, rows, behind
      <4> QED BY <3>4
    <3> QED BY <3>2, <3>3, <3>5, Zenon
  <2>7. Step(f, i) = <<sum \div 256, sum % 256>> \o Tail(behind)
    BY <1>4
  <2>8. R(i) = <<carry[i - 1], b2[i - 1]>> \o Tail(R(i + 1))
    BY <1>2, <2>1, RowBehind
  <2> HIDE DEF sum, R, Step
  <2> QED BY <1>4, <2>6, <2>7, <2>8
<1>5. Fix(rows)
  <2>1. \A i \in I : R(i) = Step(rows, i)
    <3> TAKE i \in I
    <3>1. CASE i = Length + 1
      <4>1. Step(rows, i) = <<digit>>
        BY <3>1
      <4> HIDE DEF Step, rows, R
      <4> QED BY <3>1, <4>1, <1>3
    <3>2. CASE i # Length + 1
      <4>1. i + 1 \in I
        BY <1>1, <3>2
      <4> HIDE DEF R
      <4>2. rows[i + 1] = R(i + 1)
        BY <4>1
      <4> HIDE DEF rows, Step
      <4> QED BY <1>4, <3>2, <4>2
    <3> QED BY <3>1, <3>2
  <2> HIDE DEF R, Step
  <2> QED BY <2>1
<1>6. ASSUME NEW f, Fix(f) PROVE f = rows
  <2>1. f = [i \in I |-> Step(f, i)]
    BY <1>6
  <2> HIDE DEF R
  <2>2. f[Length + 1] = R(Length + 1)
    <3>1. Length + 1 \in I
      BY <1>1
    <3>2. Step(f, Length + 1) = <<digit>>
      OBVIOUS
    <3> HIDE DEF Step
    <3> QED BY <2>1, <3>1, <3>2, <1>3
  <2> HIDE DEF Step
  <2> DEFINE Wrong == {n \in Nat : n <= Length /\ f[Length + 1 - n] # R(Length + 1 - n)}
  <2>3. Wrong = {}
    <3> SUFFICES ASSUME Wrong # {} PROVE FALSE
      OBVIOUS
    <3>1. PICK n \in Wrong : \A m \in Wrong : n <= m
      <4>1. Wrong \in SUBSET Nat
        OBVIOUS
      <4> HIDE DEF Wrong
      <4> QED BY <4>1, Least
    <3>2. n # 0
      <4>1. n = 0 => Length + 1 - n = Length + 1
        BY <1>1
      <4> QED BY <3>1, <4>1, <2>2
    <3>3. n - 1 \in Nat /\ n - 1 <= Length /\ ~(n <= n - 1)
      BY <1>1, <3>1, <3>2
    <3>4. f[Length + 1 - (n - 1)] = R(Length + 1 - (n - 1))
      BY <3>1, <3>3
    <3> DEFINE i == Length + 1 - n
    <3>5. i \in I /\ i # Length + 1 /\ i + 1 = Length + 1 - (n - 1)
      BY <1>1, <3>1, <3>2
    <3>6. f[i] # R(i)
      BY <3>1
    <3> HIDE DEF i
    <3>7. f[i] = Step(f, i)
      BY <2>1, <3>5
    <3> QED BY <1>4, <3>4, <3>5, <3>6, <3>7
  <2>4. ASSUME NEW i \in I PROVE f[i] = R(i)
    <3>1. Length + 1 - i \in Nat /\ Length + 1 - i <= Length
          /\ Length + 1 - (Length + 1 - i) = i
      BY <1>1
    <3> QED BY <2>3, <3>1
  <2> QED BY <2>1, <2>4
<1>7. TimesPlus(bytes, digit) = (CHOOSE f : Fix(f))[1]
  BY DEF TimesPlus
<1>8. R(1) = <<0>> \o Listed(b2)
  BY <1>2, FirstRow DEF Divided
<1> HIDE DEF R, Fix
<1>9. rows[1] = R(1)
  BY <1>1
<1> HIDE DEF rows
<1>10. (CHOOSE f : Fix(f)) = rows
  BY <1>5, <1>6
<1> QED BY <1>7, <1>10, <1>8, <1>9

(* A text that is chained to the bytes decodes to them.                     *)
LEMMA ChainDecodes ==
  ASSUME NEW t \in Seq(Digits), NEW goal \in Bytes, Chain(Nothing, t, goal)
  PROVE  DecodesTo(t, goal)
<1>1. Length \in Nat /\ Len(t) \in Nat
  BY LengthAssumption
<1>2. PICK rows \in [0..Len(t) -> Bytes] :
        /\ rows[0] = Nothing /\ rows[Len(t)] = goal
        /\ \A n \in 1..Len(t) : Follows(rows[n - 1], t[n], rows[n])
  BY DEF Chain
<1> DEFINE Good(b) == [fits |-> TRUE, bytes |-> Listed(b)]
           G(n) == Good(rows[n])
           Step(f, n) ==
             IF n = 0 THEN [fits |-> TRUE, bytes |-> [i \in 1..Length |-> 0]]
             ELSE LET before == f[n - 1]
                      result == TimesPlus(before.bytes, t[n])
                  IN [fits |-> before.fits /\ Head(result) = 0,
                      bytes |-> Tail(result)]
           I == 0..Len(t)
           Fix(f) == f = [n \in I |-> Step(f, n)]
           all == [n \in I |-> G(n)]
<1>3. \A f : Step(f, 0) = G(0)
  <2>1. Listed(Nothing) = [i \in 1..Length |-> 0]
    <3>1. \A i \in 1..Length : Nothing[i - 1] = 0
      BY <1>1 DEF Nothing, Position
    <3> QED BY <3>1 DEF Listed
  <2>2. G(0) = [fits |-> TRUE, bytes |-> [i \in 1..Length |-> 0]]
    BY <1>2, <2>1
  <2> QED BY <2>2
<1>4. ASSUME NEW n \in I, NEW f, n # 0, f[n - 1] = G(n - 1)
      PROVE  Step(f, n) = G(n)
  <2>1. n \in 1..Len(t) /\ n - 1 \in I
    BY <1>1, <1>4
  <2>2. rows[n - 1] \in Bytes /\ rows[n] \in Bytes /\ t[n] \in Digits
    BY <1>2, <2>1
  <2> DEFINE before == f[n - 1]
             result == TimesPlus(before.bytes, t[n])
             bytes == Listed(rows[n])
  <2>3. before.fits = TRUE /\ before.bytes = Listed(rows[n - 1])
    BY <1>4
  <2>4. result = <<0>> \o bytes
    BY <1>2, <2>1, <2>2, <2>3, TimesPlusFollows
  <2>5. bytes \in Seq(0..255)
    BY <2>2, ListedSeq
  <2>6. Step(f, n) = [fits |-> before.fits /\ Head(result) = 0, bytes |-> Tail(result)]
    BY <1>4
  <2>7. G(n) = [fits |-> TRUE, bytes |-> bytes]
    OBVIOUS
  <2> HIDE DEF Step, G, before, result, bytes
  <2>8. Head(result) = 0 /\ Tail(result) = bytes
    <3>1. 0 \in 0..255
      OBVIOUS
    <3> QED BY <2>4, <2>5, <3>1
  <2>9. (before.fits /\ Head(result) = 0) = TRUE
    BY <2>3, <2>8
  <2> QED BY <2>6, <2>7, <2>8, <2>9
<1> HIDE DEF G, Step
<1>5. Fix(all)
  <2>1. \A n \in I : G(n) = Step(all, n)
    <3> TAKE n \in I
    <3>1. CASE n = 0 BY <3>1, <1>3
    <3>2. CASE n # 0
      <4>1. n - 1 \in I
        BY <1>1, <3>2
      <4>2. all[n - 1] = G(n - 1)
        BY <4>1
      <4> HIDE DEF all
      <4> QED BY <1>4, <3>2, <4>2
    <3> QED BY <3>1, <3>2
  <2> QED BY <2>1
<1>6. ASSUME NEW f, Fix(f) PROVE f = all
  <2>1. f = [n \in I |-> Step(f, n)]
    BY <1>6
  <2> DEFINE Wrong == {n \in I : f[n] # G(n)}
  <2>2. Wrong = {}
    <3> SUFFICES ASSUME Wrong # {} PROVE FALSE
      OBVIOUS
    <3>1. PICK n \in Wrong : \A m \in Wrong : n <= m
      <4>1. Wrong \in SUBSET Nat
        OBVIOUS
      <4> HIDE DEF Wrong
      <4> QED BY <4>1, Least
    <3>2. n \in I /\ f[n] # G(n) /\ f[n] = Step(f, n)
      BY <2>1, <3>1
    <3>3. n # 0
      BY <1>3, <3>2
    <3>4. n - 1 \in I /\ ~(n <= n - 1)
      BY <1>1, <3>2, <3>3
    <3>5. f[n - 1] = G(n - 1)
      BY <3>1, <3>4
    <3> QED BY <1>4, <3>2, <3>3, <3>5
  <2> QED BY <2>1, <2>2
<1>7. Reading(t) = (CHOOSE f : Fix(f))[Len(t)]
  BY DEF Reading, Step
<1>8. all[Len(t)] = G(Len(t))
  BY <1>1
<1>9. G(Len(t)) = [fits |-> TRUE, bytes |-> Listed(goal)]
  BY <1>2 DEF G
<1> HIDE DEF Fix, all
<1>10. (CHOOSE f : Fix(f)) = all
  BY <1>5, <1>6
<1> QED BY <1>7, <1>8, <1>9, <1>10 DEF DecodesTo, Listed

-----------------------------------------------------------------------------
(* Whatever the bytes: what is shown decodes to them.                       *)
LEMMA KeyIsShown == Base58Inv /\ KeyInv => AddressIsKey
<1> SUFFICES ASSUME Base58Inv, KeyInv, pc = "returned" PROVE AddressIsKey
  BY DEF AddressIsKey
<1>1. /\ Length \in Nat /\ in \in Bytes /\ text \in Seq(Digits)
      /\ Chain(Nothing, text, in) /\ zeroCount = 0 /\ address.text = text
  BY LengthAssumption DEF Base58Inv, IndexInv, EncodeTypeOK, Bytes, KeyInv
<1>2. DecodesTo(text, in)
  BY <1>1, ChainDecodes
<1>3. PICK zeros \in 0..Length : LeadingZeros(in, zeros) /\ Fronted(text, zeros)
  <2>1. PICK n \in 0..Length :
          LeadingZeros(in, n) /\ Fronted(text, n - zeroCount)
    BY DEF KeyInv
  <2>2. n - zeroCount = n
    BY <1>1, <2>1
  <2> QED BY <2>1, <2>2
<1>4. ASSUME NEW n \in 0..Length, LeadingZeros(in, n) PROVE n = zeros
  BY <1>1, <1>3, <1>4 DEF LeadingZeros, Position
<1>5. \A n \in 0..Length :
        LeadingZeros(in, n) =>
          /\ \A i \in 1..n : text[i] = 0
          /\ n < Len(text) => text[n + 1] # 0
  BY <1>3, <1>4 DEF Fronted
<1> QED BY <1>1, <1>2, <1>5 DEF AddressIsKey

(* For every length and every bytes, at every point of the divisions: the   *)
(* digits put and the number left stand for the bytes that were given       *)
(* (utils.c:31-64).                                                         *)
THEOREM KeyInvariant == EncodeSpec => [](Base58Inv /\ KeyInv)
<1>1. Base58Inv /\ KeyInv /\ [EncodeNext]_encodeVars => KeyInv'
  BY DivideByteKey, PutDigitKey, SkipZerosKey, PutZeroKey, ReturnKey, StutterKey
  DEF EncodeNext, Returned
<1> QED BY InitKey, <1>1, EncodingInvariant, PTL DEF EncodeSpec

(* The address that is returned decodes to the very bytes it was made of,   *)
(* and has as many '1' in front as those have zero bytes (utils.c:22-77).   *)
THEOREM AddressesAreKeys == EncodeSpec => []AddressIsKey
  BY KeyInvariant, KeyIsShown, PTL

(* A text decodes to one key only: no two keys have the same address.       *)
LEMMA AddressOfOneKey ==
  ASSUME NEW b1 \in Bytes, NEW b2 \in Bytes, NEW t,
         DecodesTo(t, b1), DecodesTo(t, b2)
  PROVE  b1 = b2
<1>1. Length \in Nat
  BY LengthAssumption
<1>2. Listed(b1) = Listed(b2)
  BY DEF DecodesTo, Listed
<1>3. \A i \in Position : b1[i] = Listed(b1)[i + 1] /\ b2[i] = Listed(b2)[i + 1]
  BY ListedSeq
<1> QED BY <1>2, <1>3 DEF Bytes

-----------------------------------------------------------------------------
(* The powers of a number.                                                  *)
ArePowers(k, N, p) ==
  /\ p \in [0..N -> Nat] /\ p[0] = 1
  /\ \A n \in 1..N : p[n] = k * p[n - 1]

(* There are powers up to every exponent.                                   *)
LEMMA PowersExist ==
  ASSUME NEW k \in {58, 256}, NEW N \in Nat
  PROVE  \E p : ArePowers(k, N, p)
<1> DEFINE None == {n \in Nat : ~ \E p : ArePowers(k, n, p)}
<1>1. SUFFICES ASSUME None # {} PROVE FALSE
  OBVIOUS
<1>2. PICK n \in None : \A m \in None : n <= m
  <2>1. None \in SUBSET Nat
    OBVIOUS
  <2> HIDE DEF None
  <2> QED BY <1>1, <2>1, Least
<1>3. n # 0
  <2> DEFINE one == [i \in 0..0 |-> 1]
  <2>1. one \in [0..0 -> Nat] /\ one[0] = 1
    OBVIOUS
  <2>2. ArePowers(k, 0, one)
    BY <2>1 DEF ArePowers
  <2> QED BY <1>2, <2>2
<1>4. n - 1 \in Nat /\ ~(n <= n - 1)
  BY <1>2, <1>3
<1>5. PICK p : ArePowers(k, n - 1, p)
  BY <1>2, <1>4
<1>6. /\ p \in [0..(n - 1) -> Nat] /\ p[0] = 1
      /\ \A i \in 1..(n - 1) : p[i] = k * p[i - 1]
  BY <1>5 DEF ArePowers
<1> DEFINE more == [i \in 0..n |-> IF i = n THEN k * p[n - 1] ELSE p[i]]
<1>7. k * p[n - 1] \in Nat
  <2>1. p[n - 1] \in Nat
    BY <1>4, <1>6
  <2> QED BY <2>1
<1>8. more \in [0..n -> Nat] /\ more[0] = 1
  BY <1>3, <1>4, <1>6, <1>7
<1>9. \A i \in 1..n : more[i] = k * more[i - 1]
  <2> TAKE i \in 1..n
  <2>1. i - 1 # n /\ i - 1 \in 0..n
    BY <1>4
  <2>2. more[i - 1] = p[i - 1]
    BY <2>1
  <2>3. CASE i = n BY <2>2, <2>3
  <2>4. CASE i # n
    <3>1. i \in 1..(n - 1)
      BY <1>4, <2>4
    <3> QED BY <1>6, <2>2, <2>4, <3>1
  <2> QED BY <2>3, <2>4
<1> HIDE DEF more
<1>10. ArePowers(k, n, more)
  BY <1>8, <1>9 DEF ArePowers
<1> QED BY <1>2, <1>10

(* The number that the first bytes are, for each count of them.             *)
IsNumber(b, h) ==
  /\ h \in [0..Length -> Nat] /\ h[0] = 0
  /\ \A i \in Position : h[i + 1] = 256 * h[i] + b[i]

(* Every bytes are a number.                                                *)
LEMMA NumberExists ==
  ASSUME NEW b \in Bytes PROVE \E h : IsNumber(b, h)
<1>1. Length \in Nat /\ \A i \in Position : b[i] \in Nat
  BY LengthAssumption, SmallNumbers DEF Bytes
<1> DEFINE Is(n, h) == /\ h \in [0..n -> Nat] /\ h[0] = 0
                       /\ \A i \in 0..(n - 1) : h[i + 1] = 256 * h[i] + b[i]
           None == {n \in 0..Length : ~ \E h : Is(n, h)}
<1>2. SUFFICES None = {}
  <2>1. ASSUME None = {} PROVE \E h : Is(Length, h)
    <3>1. Length \in 0..Length
      BY <1>1
    <3> HIDE DEF Is
    <3> QED BY <2>1, <3>1
  <2> QED BY <2>1 DEF IsNumber, Position
<1>3. SUFFICES ASSUME None # {} PROVE FALSE
  OBVIOUS
<1>4. PICK n \in None : \A m \in None : n <= m
  <2>1. None \in SUBSET Nat
    OBVIOUS
  <2> HIDE DEF None
  <2> QED BY <1>3, <2>1, Least
<1>5. n # 0
  <2> DEFINE zero == [i \in 0..0 |-> 0]
  <2>1. zero \in [0..0 -> Nat] /\ zero[0] = 0
    OBVIOUS
  <2>2. Is(0, zero)
    BY <2>1
  <2> HIDE DEF Is
  <2>3. n = 0 => FALSE
    BY <1>4, <2>2
  <2> QED BY <2>3
<1>6. /\ n - 1 \in 0..Length /\ n \in Nat /\ n - 1 \in Position
      /\ ~(n <= n - 1) /\ n - 1 \in Nat
  BY <1>1, <1>4, <1>5 DEF Position
<1>7. PICK h : Is(n - 1, h)
  BY <1>4, <1>6
<1> DEFINE last == 256 * h[n - 1] + b[n - 1]
           more == [i \in 0..n |-> IF i = n THEN last ELSE h[i]]
<1>8. last \in Nat
  <2>1. h[n - 1] \in Nat /\ b[n - 1] \in Nat
    BY <1>1, <1>6, <1>7
  <2> QED BY <2>1
<1>9. more \in [0..n -> Nat] /\ more[0] = 0
  BY <1>5, <1>6, <1>7, <1>8
<1>10. \A i \in 0..(n - 1) : more[i + 1] = 256 * more[i] + b[i]
  <2> TAKE i \in 0..(n - 1)
  <2>1. i # n /\ i \in 0..n /\ i + 1 \in 0..n
    BY <1>6
  <2>2. more[i] = h[i]
    BY <2>1
  <2>3. CASE i + 1 = n
    <3>1. i = n - 1 /\ more[i + 1] = last
      BY <1>6, <2>1, <2>3
    <3> QED BY <2>2, <3>1
  <2>4. CASE i + 1 # n
    <3>1. i \in 0..((n - 1) - 1) /\ more[i + 1] = h[i + 1]
      BY <1>6, <2>1, <2>4
    <3> QED BY <1>7, <2>2, <3>1
  <2> QED BY <2>3, <2>4
<1> HIDE DEF more
<1>11. Is(n, more)
  BY <1>9, <1>10
<1> QED BY <1>4, <1>11

(* One more byte on both sides.                                             *)
LEMMA ColumnAdds ==
  ASSUME NEW h \in Nat, NEW h2 \in Nat, NEW b \in Nat, NEW b2 \in Nat,
         NEW c \in Nat, NEW c2 \in Nat,
         h2 = 58 * h + c, 58 * b + c2 = 256 * c + b2
  PROVE  256 * h2 + b2 = 58 * (256 * h + b) + c2
OBVIOUS

(* 58 times a number, and a digit.                                          *)
LEMMA NumberFollows ==
  ASSUME NEW b \in Bytes, NEW b2 \in Bytes, NEW digit \in Digits,
         Follows(b, digit, b2), NEW h, IsNumber(b, h), NEW h2, IsNumber(b2, h2)
  PROVE  h2[Length] = 58 * h[Length] + digit
<1>1. Length \in Nat
  BY LengthAssumption
<1>2. PICK carry \in [0..Length -> 0..57] :
        /\ carry[Length] = digit /\ carry[0] = 0
        /\ \A i \in Position :
             i < Length => 58 * b[i] + carry[i + 1] = 256 * carry[i] + b2[i]
  BY DEF Follows, Carries, Digits, Divided
<1>3. /\ \A i \in 0..Length : carry[i] \in Nat /\ h[i] \in Nat /\ h2[i] \in Nat
      /\ \A i \in Position : b[i] \in Nat /\ b2[i] \in Nat
  <2>1. \A i \in 0..Length : carry[i] \in Nat
    BY <1>2, SmallNumbers
  <2>2. \A i \in 0..Length : h[i] \in Nat /\ h2[i] \in Nat
    BY DEF IsNumber
  <2>3. \A i \in Position : b[i] \in Nat /\ b2[i] \in Nat
    <3>1. \A i \in Position : b[i] \in 0..255 /\ b2[i] \in 0..255
      BY DEF Bytes
    <3>2. 0..255 \subseteq Nat
      OBVIOUS
    <3> QED BY <3>1, <3>2, Zenon
  <2> QED BY <2>1, <2>2, <2>3
<1> DEFINE Wrong == {i \in 0..Length : h2[i] # 58 * h[i] + carry[i]}
<1>4. Wrong = {}
  <2> SUFFICES ASSUME Wrong # {} PROVE FALSE
    OBVIOUS
  <2>1. PICK n \in Wrong : \A m \in Wrong : n <= m
    <3>1. Wrong \in SUBSET Nat
      OBVIOUS
    <3> HIDE DEF Wrong
    <3> QED BY <3>1, Least
  <2>2. n \in 0..Length /\ h2[n] # 58 * h[n] + carry[n]
    BY <2>1
  <2>3. n # 0
    BY <1>2, <2>2 DEF IsNumber
  <2> DEFINE i == n - 1
  <2>4. i \in Position /\ i \in 0..Length /\ i + 1 = n /\ i < Length /\ ~(n <= i)
    BY <1>1, <2>2, <2>3 DEF Position
  <2>5. h2[i] = 58 * h[i] + carry[i]
    BY <2>1, <2>4
  <2> HIDE DEF i, Wrong
  <2>6. h2[n] = 256 * h2[i] + b2[i] /\ h[n] = 256 * h[i] + b[i]
    BY <2>4 DEF IsNumber
  <2>7. 58 * b[i] + carry[n] = 256 * carry[i] + b2[i]
    BY <1>2, <2>4
  <2>8. /\ h[i] \in Nat /\ h2[i] \in Nat /\ carry[i] \in Nat /\ carry[n] \in Nat
        /\ b[i] \in Nat /\ b2[i] \in Nat /\ h[n] \in Nat /\ h2[n] \in Nat
    BY <1>3, <2>2, <2>4
  <2>9. h2[n] = 58 * h[n] + carry[n]
    <3>1. PICK x \in Nat, x2 \in Nat, y \in Nat, y2 \in Nat, c \in Nat, c2 \in Nat :
            /\ x = h[i] /\ x2 = h2[i] /\ y = b[i] /\ y2 = b2[i]
            /\ c = carry[i] /\ c2 = carry[n]
      BY <2>8, Zenon
    <3>2. x2 = 58 * x + c /\ 58 * y + c2 = 256 * c + y2
      BY <2>5, <2>7, <3>1, Zenon
    <3>3. 256 * x2 + y2 = 58 * (256 * x + y) + c2
      BY <3>2, ColumnAdds
    <3>4. h2[n] = 256 * x2 + y2 /\ h[n] = 256 * x + y
      BY <2>6, <3>1, Zenon
    <3> QED BY <3>1, <3>3, <3>4, Zenon
  <2> QED BY <2>2, <2>9
<1> QED BY <1>1, <1>2, <1>4

(* Bytes of which the first are zero are a small number.                    *)
LEMMA NumberBelow ==
  ASSUME NEW b \in Bytes, NEW h, IsNumber(b, h), NEW z \in 0..Length,
         \A i \in Position : i < z => b[i] = 0,
         NEW p, ArePowers(256, Length, p)
  PROVE  h[Length] < p[Length - z]
<1>1. Length \in Nat
  BY LengthAssumption
<1>2. /\ \A i \in 0..Length : h[i] \in Nat /\ p[i] \in Nat
      /\ \A i \in Position : b[i] \in 0..255
  BY DEF IsNumber, Bytes, ArePowers
<1> DEFINE Right(i) == (i <= z => h[i] = 0) /\ (i >= z => h[i] < p[i - z])
           Wrong == {i \in 0..Length : ~Right(i)}
<1>3. Wrong = {}
  <2> SUFFICES ASSUME Wrong # {} PROVE FALSE
    OBVIOUS
  <2>1. PICK n \in Wrong : \A m \in Wrong : n <= m
    <3>1. Wrong \in SUBSET Nat
      OBVIOUS
    <3> HIDE DEF Wrong
    <3> QED BY <3>1, Least
  <2>2. n \in 0..Length /\ ~Right(n)
    BY <2>1
  <2>3. n # 0
    <3>1. h[0] = 0 /\ p[0] = 1
      BY DEF IsNumber, ArePowers
    <3>2. 0 >= z => 0 - z = 0
      BY <1>1
    <3>3. Right(0)
      BY <3>1, <3>2
    <3> HIDE DEF Right
    <3> QED BY <2>2, <3>3
  <2> DEFINE i == n - 1
  <2>4. i \in Position /\ i \in 0..Length /\ i + 1 = n /\ ~(n <= i)
    BY <1>1, <2>2, <2>3 DEF Position
  <2>5. Right(i)
    <3> HIDE DEF Right
    <3> QED BY <2>1, <2>4
  <2>6. h[n] = 256 * h[i] + b[i]
    <3> HIDE DEF i
    <3> QED BY <2>4 DEF IsNumber
  <2> HIDE DEF i, Wrong
  <2>7. h[i] \in Nat /\ b[i] \in 0..255 /\ n \in Nat /\ z \in Nat /\ i \in Nat
    BY <1>1, <1>2, <2>2, <2>4
  <2>8. CASE n <= z
    <3>1. i < z /\ i <= z /\ b[i] = 0
      BY <2>4, <2>7, <2>8
    <3>2. h[n] = 0
      BY <2>5, <2>6, <3>1
    <3>3. n >= z => n - z = 0
      BY <2>7, <2>8
    <3>4. p[0] = 1
      BY DEF ArePowers
    <3>5. Right(n)
      BY <2>7, <2>8, <3>2, <3>3, <3>4
    <3> QED BY <2>2, <3>5
  <2>9. CASE n > z
    <3>1. i >= z /\ n - z \in 1..Length /\ (n - z) - 1 = i - z /\ i - z \in 0..Length
      BY <1>1, <2>2, <2>4, <2>7, <2>9
    <3>2. p[n - z] = 256 * p[i - z]
      BY <3>1 DEF ArePowers
    <3>3. h[i] < p[i - z] /\ p[i - z] \in Nat
      BY <1>2, <2>5, <3>1
    <3>4. h[n] < p[n - z]
      BY <2>6, <2>7, <3>2, <3>3
    <3>5. Right(n)
      BY <2>7, <2>9, <3>4
    <3> QED BY <2>2, <3>5
  <2> QED BY <2>7, <2>8, <2>9
<1>4. Right(Length)
  <2>1. Length \in 0..Length
    BY <1>1
  <2> HIDE DEF Right
  <2> QED BY <1>3, <2>1
<1> QED BY <1>1, <1>4

(* A text without a zero in front reads as a large number.                  *)
LEMMA NumberAbove ==
  ASSUME NEW t \in Seq(Digits), t # <<>>, t[1] # 0,
         NEW goal \in Bytes, Chain(Nothing, t, goal),
         NEW q, ArePowers(58, Len(t), q)
  PROVE  \E g : IsNumber(goal, g) /\ q[Len(t) - 1] <= g[Length]
<1>1. Length \in Nat /\ Len(t) \in Nat /\ Len(t) # 0
  BY LengthAssumption
<1>2. PICK rows \in [0..Len(t) -> Bytes] :
        /\ rows[0] = Nothing /\ rows[Len(t)] = goal
        /\ \A n \in 1..Len(t) : Follows(rows[n - 1], t[n], rows[n])
  BY DEF Chain
<1> DEFINE Number(n) == (CHOOSE h : IsNumber(rows[n], h))[Length]
<1>3. ASSUME NEW n \in 0..Len(t)
      PROVE  /\ IsNumber(rows[n], CHOOSE h : IsNumber(rows[n], h))
             /\ Number(n) \in Nat
  <2>1. rows[n] \in Bytes
    BY <1>2
  <2>2. PICK h : h = CHOOSE h2 : IsNumber(rows[n], h2)
    OBVIOUS
  <2>3. IsNumber(rows[n], h)
    BY <2>1, <2>2, NumberExists
  <2>4. h[Length] \in Nat
    BY <1>1, <2>3 DEF IsNumber
  <2> QED BY <2>2, <2>3, <2>4
<1>4. ASSUME NEW n \in 1..Len(t)
      PROVE  Number(n) = 58 * Number(n - 1) + t[n] /\ t[n] \in Nat
  <2>1. n \in 0..Len(t) /\ n - 1 \in 0..Len(t)
    BY <1>1
  <2>2. rows[n] \in Bytes /\ rows[n - 1] \in Bytes /\ t[n] \in Digits
    BY <1>2, <2>1
  <2>3. PICK h : h = CHOOSE h2 : IsNumber(rows[n - 1], h2)
    OBVIOUS
  <2>4. PICK h2 : h2 = CHOOSE h1 : IsNumber(rows[n], h1)
    OBVIOUS
  <2>5. IsNumber(rows[n - 1], h) /\ IsNumber(rows[n], h2)
    BY <1>3, <2>1, <2>3, <2>4
  <2>6. Follows(rows[n - 1], t[n], rows[n])
    BY <1>2
  <2>7. h2[Length] = 58 * h[Length] + t[n]
    BY <2>2, <2>5, <2>6, NumberFollows
  <2>8. t[n] \in Nat
    BY <2>2, SmallNumbers DEF Digits
  <2> QED BY <2>3, <2>4, <2>7, <2>8
<1> HIDE DEF Number
<1> DEFINE Wrong == {n \in 1..Len(t) : ~(q[n - 1] <= Number(n))}
<1>5. Wrong = {}
  <2> SUFFICES ASSUME Wrong # {} PROVE FALSE
    OBVIOUS
  <2>1. PICK n \in Wrong : \A m \in Wrong : n <= m
    <3>1. Wrong \in SUBSET Nat
      OBVIOUS
    <3> HIDE DEF Wrong
    <3> QED BY <3>1, Least
  <2>2. n \in 1..Len(t) /\ ~(q[n - 1] <= Number(n))
    BY <2>1
  <2> HIDE DEF Wrong
  <2>3. /\ n \in Nat /\ n - 1 \in 0..Len(t) /\ Number(n - 1) \in Nat
        /\ Number(n) = 58 * Number(n - 1) + t[n] /\ t[n] \in Nat
    <3>1. n \in Nat /\ n - 1 \in 0..Len(t) /\ n \in 1..Len(t)
      BY <1>1, <2>2
    <3>2. Number(n - 1) \in Nat
      BY <1>3, <3>1
    <3> QED BY <1>4, <3>1, <3>2
  <2>4. n # 1
    <3>1. n = 1 => q[n - 1] = 1 /\ t[n] # 0
      BY DEF ArePowers
    <3> QED BY <2>2, <2>3, <3>1
  <2> DEFINE i == n - 1
  <2>5. i \in 1..Len(t) /\ i - 1 \in 0..Len(t) /\ ~(n <= i)
    BY <1>1, <2>2, <2>4
  <2>6. q[i - 1] <= Number(i)
    BY <2>1, <2>5 DEF Wrong
  <2>7. q[i] = 58 * q[i - 1] /\ q[i - 1] \in Nat
    <3> HIDE DEF i
    <3> QED BY <2>5 DEF ArePowers
  <2> QED BY <2>2, <2>3, <2>6, <2>7
<1>6. q[Len(t) - 1] <= Number(Len(t))
  BY <1>1, <1>5
<1>7. PICK g : g = CHOOSE h : IsNumber(rows[Len(t)], h)
  OBVIOUS
<1>8. IsNumber(goal, g) /\ Number(Len(t)) = g[Length]
  BY <1>1, <1>2, <1>3, <1>7 DEF Number
<1> QED BY <1>6, <1>8

(* 256^36 <= 58^50: 36 bytes have at most 50 digits.  Eleven digits hold    *)
(* eight bytes, and six digits four.                                        *)
LEMMA FiftyDigits ==
  ASSUME NEW p, NEW q, ArePowers(256, 36, p), ArePowers(58, 50, q)
  PROVE  p[36] <= q[50]
<1>1. /\ \A n \in 0..36 : p[n] \in Nat
      /\ \A n \in 0..35 : p[n + 1] = 256 * p[n]
  BY DEF ArePowers
<1>2. /\ \A n \in 0..50 : q[n] \in Nat
      /\ \A n \in 0..49 : q[n + 1] = 58 * q[n]
  BY DEF ArePowers
<1>3. ASSUME NEW n \in 0..32 PROVE p[n + 4] = 4294967296 * p[n]
  <2>1. /\ n \in 0..35 /\ n + 1 \in 0..35 /\ n + 2 \in 0..35 /\ n + 3 \in 0..35
        /\ (n + 1) + 1 = n + 2 /\ (n + 2) + 1 = n + 3 /\ (n + 3) + 1 = n + 4
    OBVIOUS
  <2>2. /\ p[n + 1] = 256 * p[n] /\ p[n + 2] = 256 * p[n + 1]
        /\ p[n + 3] = 256 * p[n + 2] /\ p[n + 4] = 256 * p[n + 3]
    BY <1>1, <2>1
  <2>3. p[n] \in Nat
    BY <1>1
  <2> QED BY <2>2, <2>3
<1>4. ASSUME NEW n \in 0..44 PROVE q[n + 5] = 656356768 * q[n]
  <2>1. /\ n \in 0..49 /\ n + 1 \in 0..49 /\ n + 2 \in 0..49 /\ n + 3 \in 0..49
        /\ n + 4 \in 0..49 /\ (n + 1) + 1 = n + 2 /\ (n + 2) + 1 = n + 3
        /\ (n + 3) + 1 = n + 4 /\ (n + 4) + 1 = n + 5
    OBVIOUS
  <2>2. /\ q[n + 1] = 58 * q[n] /\ q[n + 2] = 58 * q[n + 1]
        /\ q[n + 3] = 58 * q[n + 2] /\ q[n + 4] = 58 * q[n + 3]
        /\ q[n + 5] = 58 * q[n + 4]
    BY <1>2, <2>1
  <2>3. q[n] \in Nat
    BY <1>2
  <2> QED BY <2>2, <2>3
<1>5. ASSUME NEW n \in 0..28, NEW m \in 0..39, p[n] <= q[m]
      PROVE  p[n + 8] <= q[m + 11]
  <2>1. /\ n \in 0..32 /\ n + 4 \in 0..32 /\ (n + 4) + 4 = n + 8
        /\ m \in 0..44 /\ m + 5 \in 0..44 /\ (m + 5) + 5 = m + 10
        /\ m + 10 \in 0..49 /\ (m + 10) + 1 = m + 11
    OBVIOUS
  <2>2. p[n + 4] = 4294967296 * p[n] /\ p[n + 8] = 4294967296 * p[n + 4]
    BY <1>3, <2>1
  <2>3. /\ q[m + 5] = 656356768 * q[m] /\ q[m + 10] = 656356768 * q[m + 5]
        /\ q[m + 11] = 58 * q[m + 10]
    BY <1>2, <1>4, <2>1
  <2>4. p[n] \in Nat /\ q[m] \in Nat
    BY <1>1, <1>2, <2>1
  <2> QED BY <1>5, <2>2, <2>3, <2>4
<1>6. p[4] <= q[6]
  <2>1. p[0 + 4] = 4294967296 * p[0]
    BY <1>3
  <2>2. q[0 + 5] = 656356768 * q[0]
    BY <1>4
  <2>3. q[5 + 1] = 58 * q[5]
    BY <1>2
  <2>4. p[0] = 1 /\ q[0] = 1
    BY DEF ArePowers
  <2> QED BY <2>1, <2>2, <2>3, <2>4
<1>7. p[4 + 8] <= q[6 + 11]
  BY <1>5, <1>6
<1>8. p[12 + 8] <= q[17 + 11]
  BY <1>5, <1>7
<1>9. p[20 + 8] <= q[28 + 11]
  BY <1>5, <1>8
<1>10. p[28 + 8] <= q[39 + 11]
  BY <1>5, <1>9
<1> QED BY <1>10

(* 36 bytes less those that are zero have at most 50 digits less one for    *)
(* each of them.                                                            *)
LEMMA DigitsFit ==
  ASSUME NEW p, NEW q, ArePowers(256, 36, p), ArePowers(58, 50, q),
         NEW z \in 0..36
  PROVE  p[36 - z] <= q[50 - z]
<1>1. /\ \A n \in 0..36 : p[n] \in Nat
      /\ \A n \in 0..35 : p[n + 1] = 256 * p[n]
  BY DEF ArePowers
<1>2. /\ \A n \in 0..50 : q[n] \in Nat
      /\ \A n \in 0..49 : q[n + 1] = 58 * q[n]
  BY DEF ArePowers
<1> DEFINE Wrong == {n \in 0..36 : ~(p[36 - n] <= q[50 - n])}
<1>3. Wrong = {}
  <2> SUFFICES ASSUME Wrong # {} PROVE FALSE
    OBVIOUS
  <2>1. PICK n \in Wrong : \A m \in Wrong : n <= m
    <3>1. Wrong \in SUBSET Nat
      OBVIOUS
    <3> HIDE DEF Wrong
    <3> QED BY <3>1, Least
  <2>2. n \in 0..36 /\ ~(p[36 - n] <= q[50 - n])
    BY <2>1
  <2>3. n # 0
    BY <2>2, FiftyDigits
  <2>4. /\ n - 1 \in 0..36 /\ ~(n <= n - 1)
        /\ 36 - n \in 0..35 /\ (36 - n) + 1 = 36 - (n - 1)
        /\ 50 - n \in 0..49 /\ (50 - n) + 1 = 50 - (n - 1)
    BY <2>2, <2>3
  <2>5. p[36 - (n - 1)] <= q[50 - (n - 1)]
    BY <2>1, <2>4
  <2> HIDE DEF Wrong
  <2>6. /\ p[36 - (n - 1)] = 256 * p[36 - n] /\ q[50 - (n - 1)] = 58 * q[50 - n]
        /\ p[36 - n] \in Nat /\ q[50 - n] \in Nat
    <3>1. p[(36 - n) + 1] = 256 * p[36 - n] /\ p[36 - n] \in Nat
      <4>1. 36 - n \in 0..36 /\ 36 - n \in 0..35
        BY <2>4
      <4> QED BY <1>1, <4>1, Zenon
    <3>2. q[(50 - n) + 1] = 58 * q[50 - n] /\ q[50 - n] \in Nat
      <4>1. 50 - n \in 0..50 /\ 50 - n \in 0..49
        BY <2>4
      <4> QED BY <1>2, <4>1, Zenon
    <3> QED BY <2>4, <3>1, <3>2, Zenon
  <2> QED BY <2>2, <2>5, <2>6
<1> QED BY <1>3

(* Powers grow.                                                             *)
LEMMA PowersGrow ==
  ASSUME NEW N \in Nat, NEW q, ArePowers(58, N, q), NEW a \in 0..N, NEW c \in a..N
  PROVE  q[a] <= q[c]
<1>1. /\ \A n \in 0..N : q[n] \in Nat
      /\ \A n \in 1..N : q[n] = 58 * q[n - 1]
  BY DEF ArePowers
<1> DEFINE Wrong == {n \in a..N : ~(q[a] <= q[n])}
<1>2. Wrong = {}
  <2> SUFFICES ASSUME Wrong # {} PROVE FALSE
    OBVIOUS
  <2>1. PICK n \in Wrong : \A m \in Wrong : n <= m
    <3>1. Wrong \in SUBSET Nat
      OBVIOUS
    <3> HIDE DEF Wrong
    <3> QED BY <3>1, Least
  <2>2. n \in a..N /\ ~(q[a] <= q[n])
    BY <2>1
  <2>3. n # a
    BY <1>1, <2>2
  <2>4. n - 1 \in a..N /\ n - 1 \in 0..N /\ n \in 1..N /\ ~(n <= n - 1)
    BY <2>2, <2>3
  <2>5. q[a] <= q[n - 1]
    BY <2>1, <2>4
  <2> HIDE DEF Wrong
  <2>6. q[n] = 58 * q[n - 1] /\ q[n - 1] \in Nat /\ q[a] \in Nat
    BY <1>1, <2>4
  <2> QED BY <2>2, <2>5, <2>6
<1> QED BY <1>2

-----------------------------------------------------------------------------
(* The sizes in the code: 36 bytes, and room for at least 50 characters.    *)
CodeSizes == Length = 36 /\ 50 <= MaxOut

(* Once the digits are out, they and the zeros that are still to go in      *)
(* front are 50 at most, so that the caller's room is enough.               *)
FitInv ==
  CodeSizes =>
    /\ pc \in {"zeros", "returned"} => Len(text) + zeroCount <= 50
    /\ pc # "overflow"

(* A number that is put without a zero in front leaves room for those that  *)
(* stand for zero bytes.                                                    *)
LEMMA TextFits ==
  ASSUME Base58Inv, KeyInv, pc = "skip", CodeSizes
  PROVE  Len(text) + zeroCount <= 50
<1>1. /\ Length = 36 /\ zeroCount \in 0..36 /\ in \in Bytes
      /\ text \in Seq(Digits) /\ Len(text) \in Nat
      /\ text # <<>> => text[1] # 0
      /\ Chain(Nothing, text, in) /\ LeadingZeros(in, zeroCount)
  <2>1. Length = 36 /\ zeroCount \in 0..36 /\ text \in Seq(Digits)
    BY IndexType DEF CodeSizes
  <2>2. in \in Bytes /\ (text # <<>> => text[1] # 0)
    BY DEF Base58Inv, IndexInv, EncodeTypeOK, NoZeroInFront, Bytes
  <2>3. Chain(Nothing, text, in) /\ LeadingZeros(in, zeroCount)
    BY DEF KeyInv
  <2> QED BY <2>1, <2>2, <2>3
<1>2. CASE text = <<>>
  BY <1>1, <1>2
<1>3. CASE text # <<>>
  <2> SUFFICES ASSUME ~(Len(text) + zeroCount <= 50) PROVE FALSE
    OBVIOUS
  <2>1. PICK p : ArePowers(256, 36, p)
    BY PowersExist
  <2> DEFINE N == IF Len(text) <= 50 THEN 50 ELSE Len(text)
  <2>2. N \in Nat /\ Len(text) \in 0..N /\ 50 <= N
    BY <1>1
  <2> HIDE DEF N
  <2>3. PICK q : ArePowers(58, N, q)
    BY <2>2, PowersExist
  <2>4. /\ q \in [0..N -> Nat] /\ q[0] = 1
        /\ \A n \in 1..N : q[n] = 58 * q[n - 1]
    BY <2>3 DEF ArePowers
  <2>5. ASSUME NEW n \in 0..N PROVE ArePowers(58, n, [i \in 0..n |-> q[i]])
    <3>1. [i \in 0..n |-> q[i]] \in [0..n -> Nat]
      <4>1. \A i \in 0..n : i \in 0..N
        BY <2>2
      <4> QED BY <2>4, <4>1
    <3>2. \A i \in 1..n : i \in 1..N /\ i \in 0..n /\ i - 1 \in 0..n
      BY <2>2
    <3> QED BY <2>4, <3>1, <3>2 DEF ArePowers
  <2> DEFINE q1 == [i \in 0..Len(text) |-> q[i]]
             q2 == [i \in 0..50 |-> q[i]]
  <2>6. ArePowers(58, Len(text), q1) /\ ArePowers(58, 50, q2)
    <3>1. 50 \in 0..N
      BY <2>2
    <3> QED BY <2>2, <2>5, <3>1, Zenon
  <2>7. PICK g : IsNumber(in, g) /\ q1[Len(text) - 1] <= g[Length]
    <3> HIDE DEF q1
    <3> QED BY <1>1, <1>3, <2>6, NumberAbove
  <2>8. g[Length] < p[36 - zeroCount]
    <3>1. \A i \in Position : i < zeroCount => in[i] = 0
      BY <1>1 DEF LeadingZeros
    <3> QED BY <1>1, <2>1, <2>7, <3>1, NumberBelow
  <2>9. p[36 - zeroCount] <= q2[50 - zeroCount]
    <3> HIDE DEF q2
    <3> QED BY <1>1, <2>1, <2>6, DigitsFit
  <2>10. /\ 50 - zeroCount \in 0..N /\ 50 - zeroCount \in 0..50
         /\ Len(text) - 1 \in (50 - zeroCount)..N /\ Len(text) - 1 \in 0..Len(text)
    BY <1>1, <1>3, <2>2
  <2>11. q[50 - zeroCount] <= q[Len(text) - 1]
    BY <2>2, <2>3, <2>10, PowersGrow
  <2>12. q1[Len(text) - 1] = q[Len(text) - 1] /\ q2[50 - zeroCount] = q[50 - zeroCount]
    BY <2>10
  <2>13. /\ q[50 - zeroCount] \in Nat /\ q[Len(text) - 1] \in Nat
         /\ p[36 - zeroCount] \in Nat /\ g[Length] \in Nat
    <3>1. p \in [0..36 -> Nat] /\ g \in [0..Length -> Nat]
      BY <2>1, <2>7 DEF ArePowers, IsNumber
    <3>2. 36 - zeroCount \in 0..36 /\ Length \in 0..Length /\ Len(text) - 1 \in 0..N
      BY <1>1, <2>2, <2>10
    <3> QED BY <2>4, <2>10, <3>1, <3>2
  <2> HIDE DEF q1, q2
  <2> QED BY <2>7, <2>8, <2>9, <2>11, <2>12, <2>13
<1> QED BY <1>2, <1>3

(* No text is finished yet.                                                 *)
LEMMA FitInit == EncodeInit => FitInv
  BY DEF EncodeInit, FitInv, DivideFrom

(* When the digits are out there is room for the zeros in front; each of    *)
(* these uses up a place and a zero byte, and the test at the end passes.   *)
LEMMA FitNext ==
  Base58Inv /\ KeyInv /\ FitInv /\ [EncodeNext]_encodeVars => FitInv'
<1> SUFFICES ASSUME Base58Inv, KeyInv, FitInv, [EncodeNext]_encodeVars, CodeSizes
             PROVE  /\ pc' \in {"zeros", "returned"} => Len(text') + zeroCount' <= 50
                    /\ pc' # "overflow"
  BY DEF FitInv, CodeSizes
<1>1. /\ Length = 36 /\ 50 <= MaxOut /\ MaxOut \in Nat
      /\ zeroCount \in 0..36 /\ text \in Seq(Digits) /\ Len(text) \in Nat
      /\ j \in 0..255 /\ j + Len(text) = 72
  BY IndexType, LengthAssumption DEF CodeSizes
<1>2. CASE DivideByte
  BY <1>2 DEF DivideByte, FitInv
<1>3. CASE PutDigit
  BY <1>3 DEF PutDigit, DivideFrom
<1>4. CASE SkipZeros
  <2>1. Len(text) + zeroCount <= 50
    BY <1>4, TextFits DEF SkipZeros
  <2>2. PICK n \in 0..Len(text) : text' = SubSeq(text, n + 1, Len(text))
    BY <1>4 DEF SkipZeros
  <2>3. Len(text') <= Len(text) /\ Len(text') \in Nat
    BY <1>1, <2>2
  <2> QED BY <1>1, <1>4, <2>1, <2>3 DEF SkipZeros
<1>5. CASE PutZero
  <2>1. text' = <<0>> \o text /\ zeroCount' = zeroCount - 1 /\ pc = "zeros" /\ pc' = pc
    BY <1>5 DEF PutZero, Put
  <2>2. Len(text') = Len(text) + 1
    BY <1>1, <2>1
  <2>3. Len(text) + zeroCount <= 50
    BY <2>1 DEF FitInv
  <2> QED BY <1>1, <2>1, <2>2, <2>3
<1>6. CASE Return
  <2>1. Len(text) + zeroCount <= 50
    BY <1>6 DEF FitInv, Return
  <2>2. Uchar(2 * Length - j) = Len(text)
    <3>1. j \in Int /\ 72 - j = Len(text) /\ Len(text) \in 0..255
      <4>1. PICK n \in Nat : n = Len(text)
        BY <1>1
      <4>2. j \in 0..255 /\ j + n = 72
        BY <1>1, <4>1, Zenon
      <4>3. j \in Int /\ 72 - j = n /\ n \in 0..255
        BY <4>2
      <4> QED BY <4>1, <4>3, Zenon
    <3>2. 2 * Length - j = Len(text)
      BY <1>1, <3>1
    <3>3. \A n \in 0..255 : n % 256 = n
      OBVIOUS
    <3> QED BY <3>1, <3>2, <3>3, Zenon DEF Uchar
  <2>3. ~(MaxOut < Uchar(2 * Length - j))
    BY <1>1, <2>1, <2>2
  <2> QED BY <1>6, <2>1, <2>3 DEF Return
<1>7. CASE Returned \/ UNCHANGED encodeVars
  BY <1>7 DEF Returned, encodeVars, FitInv
<1> QED BY <1>2, <1>3, <1>4, <1>5, <1>6, <1>7 DEF EncodeNext

(* The address of a key, 32 bytes and a checksum of four, fits into the     *)
(* buffer of its screens together with prefix and terminator, and encoding  *)
(* it never throws (globals.h:13, utils.c:58-77).  The code's own room is   *)
(* 51.                                                                      *)
THEOREM AddressesFit ==
  ASSUME CodeSizes
  PROVE  EncodeSpec => []AddressFits
<1>1. Base58Inv /\ KeyInv /\ FitInv => AddressFits
  <2> SUFFICES ASSUME Base58Inv, KeyInv, FitInv PROVE AddressFits
    OBVIOUS
  <2>1. pc # "overflow"
    BY DEF FitInv
  <2>2. ASSUME pc = "returned" PROVE 3 + Len(address.text) + 1 <= FullAddressLength
    <3>1. address.text = text /\ Len(text) + zeroCount <= 50 /\ zeroCount = 0
      BY <2>2 DEF KeyInv, FitInv
    <3>2. Len(text) \in Nat
      BY IndexType
    <3> QED BY <3>1, <3>2 DEF FullAddressLength
  <2> QED BY <2>1, <2>2 DEF AddressFits
<1> QED BY <1>1, FitInit, FitNext, KeyInvariant, PTL DEF EncodeSpec
=============================================================================
