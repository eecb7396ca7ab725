-------------------------------- MODULE Base58 --------------------------------
(***************************************************************************)
(* getAeEncodedString and encodeBase58: the bytes of a key and its checksum *)
(* are divided by 58 again and again in place, one step for each byte that  *)
(* a division passes; the remainders fill a buffer from its end.            *)
(*                                                                         *)
(* The characters of BASE_58_ALPHABET are distinct, so a character is given *)
(* by its index; '1', which stands for zero, is 0.  Two rounds of SHA-256   *)
(* yield the checksum: any four bytes.                                      *)
(***************************************************************************)
EXTENDS Integers, Sequences

CONSTANTS
  Length,       \* bytes that are encoded, key and checksum: 36 in the code
  Inputs,       \* what they may be
  BufferSize,   \* positions in tmp and in buffer: 164
  MaxOut,       \* characters that the caller takes: 51
  AddressPrefixes,     \* what an address begins with, three characters
  NoAddress     \* the address buffer before it is filled: not a record

Position == 0..(Length - 1)
Digits == 0..57

ASSUME LengthAssumption ==
  /\ Length \in Nat /\ BufferSize \in Nat /\ MaxOut \in Nat
  /\ 2 * Length <= BufferSize /\ BufferSize < 256
  /\ Inputs \subseteq [Position -> 0..255]

VARIABLES
  in,                  \* the bytes to encode, as they are given
  tmp,                 \* what is left of them
  zeroCount, startAt,  \* leading zero bytes; first byte not divided away
  divLoop, remainder,  \* the division under way
  j, text,             \* position in buffer, and what stands from there on
  address,             \* the address buffer of the caller
  pc

encodeVars == <<in, tmp, zeroCount, startAt, divLoop, remainder, j, text, address, pc>>

(* Arithmetic of unsigned char.                                             *)
Uchar(n) == n % 256

LeadingZeros(bytes, n) ==
  /\ \A i \in Position : i < n => bytes[i] = 0
  /\ n < Length => bytes[n] # 0

(* The position behind the last character.  Slip: one for each byte.        *)
RoomForBytes == Uchar(Length)
Room == Uchar(2 * Length)

(* The head of the outer loop: another division, or the digits are out.     *)
DivideFrom(start) == IF start < Length THEN "divide" ELSE "skip"

EncodeInit ==
  /\ in \in Inputs /\ tmp = in
  /\ zeroCount \in 0..Length /\ LeadingZeros(in, zeroCount)
  /\ startAt = zeroCount /\ divLoop = zeroCount /\ remainder = 0
  /\ j = Room /\ text = <<>>
  /\ address = NoAddress
  /\ pc = DivideFrom(zeroCount)
-----------------------------------------------------------------------------
(* The inner loop: the long division of tmp by 58, a byte at a time.        *)
DivideByte ==
  /\ pc = "divide" /\ divLoop < Length
  /\ LET tmpDiv == remainder * 256 + tmp[divLoop] IN
       /\ tmp' = [tmp EXCEPT ![divLoop] = Uchar(tmpDiv \div 58)]
       /\ remainder' = tmpDiv % 58
  /\ divLoop' = divLoop + 1
  /\ UNCHANGED <<in, zeroCount, startAt, j, text, address, pc>>

(* buffer[--j] = digit                                                      *)
Put(digit) ==
  /\ j' = Uchar(j - 1)
  /\ text' = <<digit>> \o text

(* Slip: the first byte is passed over also when there is some of it left.  *)
PassedAlways == startAt + 1
Passed == IF tmp[startAt] = 0 THEN startAt + 1 ELSE startAt

(* Its remainder is the next digit; a first byte divided away is passed.    *)
PutDigit ==
  /\ pc = "divide" /\ divLoop = Length
  /\ Put(remainder)
  /\ startAt' = Passed
  /\ divLoop' = startAt' /\ remainder' = 0
  /\ pc' = DivideFrom(startAt')
  /\ UNCHANGED <<in, tmp, zeroCount, address>>

(* Digits zero in front of the number are dropped.                          *)
SkipZeros ==
  /\ pc = "skip"
  /\ \E n \in 0..Len(text) :
       /\ \A i \in 1..n : text[i] = 0
       /\ n < Len(text) => text[n + 1] # 0
       /\ j' = Uchar(j + n) /\ text' = SubSeq(text, n + 1, Len(text))
  /\ pc' = "zeros"
  /\ UNCHANGED <<in, tmp, zeroCount, startAt, divLoop, remainder, address>>

(* One '1' for each leading zero byte.  Slip: one more than that.           *)
OneMoreZero == zeroCount >= 0
MoreZeros == zeroCount > 0

PutZero ==
  /\ pc = "zeros" /\ MoreZeros
  /\ Put(0)
  /\ zeroCount' = zeroCount - 1
  /\ UNCHANGED <<in, tmp, startAt, divLoop, remainder, address, pc>>

(* The text is copied behind the prefix, unless it is too long for that.    *)
Return ==
  /\ pc = "zeros" /\ ~MoreZeros
  /\ IF MaxOut < Uchar(2 * Length - j)
       THEN pc' = "overflow" /\ UNCHANGED address
       ELSE /\ pc' = "returned"
            /\ \E prefix \in AddressPrefixes :
                 address' = [prefix |-> prefix, text |-> text]
  /\ UNCHANGED <<in, tmp, zeroCount, startAt, divLoop, remainder, j, text>>

Returned == pc \in {"returned", "overflow"} /\ UNCHANGED encodeVars

EncodeNext ==
  \/ DivideByte \/ PutDigit \/ SkipZeros \/ PutZero \/ Return \/ Returned

EncodeSpec == EncodeInit /\ [][EncodeNext]_encodeVars
-----------------------------------------------------------------------------
(* Every variable holds a value of its type.                                *)
EncodeTypeOK ==
  /\ in \in [Position -> 0..255] /\ tmp \in [Position -> 0..255]
  /\ zeroCount \in 0..Length /\ startAt \in 0..Length
  /\ divLoop \in startAt..Length /\ remainder \in Digits
  /\ j \in 0..255 /\ text \in Seq(Digits)
  /\ pc \in {"divide", "skip", "zeros", "returned", "overflow"}
  /\ pc = "divide" => startAt < Length

(* The index into buffer, an unsigned char that counts down from twice the  *)
(* length, neither wraps around nor leaves the buffer, however many digits  *)
(* the divisions yield and however many '1' go in front (utils.c:36, 50,    *)
(* 56): what stands from j on always ends where the buffer's used part does.*)
IndicesInside == j <= 2 * Length /\ j + Len(text) = Room

(* The divisions never yield a digit zero in front of the number, so that   *)
(* the loop that drops such digits (utils.c:52-54) finds none: what is left *)
(* of the bytes is never zero while a byte is still to be passed.           *)
NoZeroInFront == pc = "skip" /\ text # <<>> => text[1] # 0

(* A number in bytes, times 58, plus a digit: from the last byte on, each   *)
(* passes what it cannot hold to the one before it.  The head of the result *)
(* is what the first byte passes on.                                        *)
TimesPlus(bytes, digit) ==
  LET from[i \in 1..(Length + 1)] ==
        IF i = Length + 1 THEN <<digit>>
        ELSE LET behind == from[i + 1]
                 sum == 58 * bytes[i] + Head(behind)
             IN <<sum \div 256, sum % 256>> \o Tail(behind)
  IN from[1]

(* What a text reads as, digit by digit, in the bytes there are, and whether *)
(* it always fit into them.                                                 *)
Reading(t) ==
  LET read[n \in 0..Len(t)] ==
        IF n = 0 THEN [fits |-> TRUE, bytes |-> [i \in 1..Length |-> 0]]
        ELSE LET before == read[n - 1]
                 result == TimesPlus(before.bytes, t[n])
             IN [fits |-> before.fits /\ Head(result) = 0,
                 bytes |-> Tail(result)]
  IN read[Len(t)]

DecodesTo(t, bytes) ==
  Reading(t) = [fits |-> TRUE, bytes |-> [i \in 1..Length |-> bytes[i - 1]]]

(* The address on the screen is the key's: its text decodes to the very     *)
(* bytes that were encoded, and has as many '1' in front as those have zero *)
(* bytes, so that no two keys are shown alike (utils.c:22-77).              *)
AddressIsKey ==
  pc = "returned" =>
    LET t == address.text IN
    /\ DecodesTo(t, in)
    /\ \A n \in 0..Length :
         LeadingZeros(in, n) =>
           /\ \A i \in 1..n : t[i] = 0
           /\ n < Len(t) => t[n + 1] # 0

(* globals.h:13: the address with its prefix and terminator fits into 54    *)
(* bytes, and encoding it never throws, for every key and checksum.         *)
FullAddressLength == 54
AddressFits ==
  /\ pc # "overflow"
  /\ pc = "returned" => 3 + Len(address.text) + 1 <= FullAddressLength
=============================================================================
