------------------------------ MODULE AmountText ------------------------------
(***************************************************************************)
(* rlpParseInt and adjustDecimals: an amount or a fee is printed into the   *)
(* static buffer that its screen shows, over the text of the transaction    *)
(* before.  The digits come from tostring256 (module ToString): no zeros in *)
(* front.  A character is its digit, Dot or Nul.                            *)
(***************************************************************************)
EXTENDS Integers, Sequences

CONSTANTS
  Buffers,   \* the buffers, each with its length, 80 bytes in the code, the
             \* decimals shown, 18 in the code, and the amounts that are
             \* printed into it: digit sequences, as tostring256 leaves them
  MaxCalls   \* bound: amounts printed one after the other

Dot == -1
Nul == -2
Digit == 0..9
Char == Digit \cup {Dot, Nul}

(* A 256-bit number has at most 78 digits, so that there is room for them,  *)
(* a point, and a terminator, and for all decimals behind "0." as well.     *)
ASSUME AmountAssumption ==
  /\ MaxCalls \in Nat
  /\ \A b \in Buffers :
       /\ b.decimals \in Nat /\ b.length \in Nat
       /\ b.decimals + 3 <= b.length
       /\ \A digits \in b.amounts :
            /\ digits \in Seq(Digit) /\ digits # <<>>
            /\ digits[1] = 0 => Len(digits) = 1
            /\ Len(digits) + 2 <= b.length

VARIABLES
  buffer,   \* the buffer that the amounts are printed into
  src,      \* the digits last printed
  target,   \* the buffer on the screen, from offset 0
  written,  \* bytes that the last call wrote, its terminator included
  calls

amountVars == <<buffer, src, target, written, calls>>

Decimals == buffer.decimals
TargetLength == buffer.length

AmountInit ==
  /\ buffer \in Buffers
  /\ src = <<>> /\ written = 0 /\ calls = 0
  /\ target = [i \in 0..(TargetLength - 1) |-> Nul]

-----------------------------------------------------------------------------
Zeros(n) == [i \in 1..n |-> 0]

(* The digits with the point, and the offset of the first digit behind it.  *)
(* Slip: a number of as many digits as there are decimals is taken for one  *)
(* that has an integer part.                                                *)
PointedStrictly(digits) ==
  LET delta == Len(digits) - Decimals IN
  IF Len(digits) < Decimals
    THEN [text |-> <<0, Dot>> \o Zeros(-delta) \o digits, start |-> 2 - delta]
    ELSE [text |-> SubSeq(digits, 1, delta) \o <<Dot>>
                   \o SubSeq(digits, delta + 1, Len(digits)),
          start |-> delta + 1]
Pointed(digits) ==
  LET delta == Len(digits) - Decimals
      point == IF Decimals # 0 THEN <<Dot>> ELSE <<>>
  IN IF digits = <<0>> THEN [text |-> digits, start |-> 1]
     ELSE IF Len(digits) <= Decimals
       THEN [text |-> <<0, Dot>> \o Zeros(-delta) \o digits, start |-> 2 - delta]
       ELSE [text |-> SubSeq(digits, 1, delta) \o point
                      \o SubSeq(digits, delta + 1, Len(digits)),
             start |-> delta + Len(point)]

(* Where the zeros at the end begin, not before offset start; the end if    *)
(* there are none, and the point itself if nothing is left behind it.       *)
Cut(text, start) ==
  LET zeros == {i \in start..(Len(text) - 1) :
                  \A k \in i..(Len(text) - 1) : text[k + 1] = 0}
      last == CHOOSE i \in zeros \cup {Len(text)} :
                \A k \in zeros \cup {Len(text)} : i <= k
  IN IF zeros # {} /\ text[last] = Dot THEN last - 1 ELSE last

(* The bytes that must fit: text and terminator, and a point that may not   *)
(* be there.  Slip: a byte more than that is asked for.                     *)
RoomToSpare(digits) == Len(Pointed(digits).text) + 2
RoomNeeded(digits) ==
  IF digits = <<0>> THEN 2
  ELSE IF Len(digits) <= Decimals THEN Len(digits) + 1 + 2 + (Decimals - Len(digits))
  ELSE Len(digits) + 1 + 1

(* The whole text is written first, then terminators over it: at its end,   *)
(* at the zeros cut off, and at the point before them if it is cut as well. *)
Terminators(text, cut) ==
  {cut, Len(text)}
    \cup (IF cut < Len(text) /\ text[cut + 1] = Dot THEN {cut + 1} ELSE {})
Write(text, cut) ==
  [i \in DOMAIN target |->
     IF i \in Terminators(text, cut) THEN Nul
     ELSE IF i < Len(text) THEN text[i + 1] ELSE target[i]]

(* An amount of the next transaction.  If there is no room the buffer stays *)
(* as it is, and nobody is told.                                            *)
rlpParseInt ==
  /\ calls < MaxCalls /\ calls' = calls + 1 /\ UNCHANGED buffer
  /\ \E digits \in buffer.amounts :
       /\ src' = digits
       /\ IF TargetLength < RoomNeeded(digits)
            THEN written' = 0 /\ UNCHANGED target
            ELSE LET p == Pointed(digits) IN
                 /\ target' = Write(p.text, Cut(p.text, p.start))
                 /\ written' = Len(p.text) + 1

Rest == calls = MaxCalls /\ UNCHANGED amountVars

AmountNext == rlpParseInt \/ Rest

AmountSpec == AmountInit /\ [][AmountNext]_amountVars
-----------------------------------------------------------------------------
(* What the screen shows: the buffer up to its first terminator.            *)
Terminated == \E i \in DOMAIN target : target[i] = Nul
ShownLength ==
  CHOOSE n \in DOMAIN target : target[n] = Nul /\ \A i \in 0..(n - 1) : target[i] # Nul
Shown == [i \in 1..ShownLength |-> target[i - 1]]

(* A text denotes an amount if it has the amount's digits with the point    *)
(* before the last eighteen, no more zeros in front than one before the     *)
(* point, and none at its end behind the point.                             *)
Denotes(text, digits) ==
  \E n \in 1..Len(text) :
    LET fraction == SubSeq(text, n + 2, Len(text))
        padded == SubSeq(text, 1, n) \o fraction \o Zeros(Decimals - Len(fraction))
        lead == Len(padded) - Len(digits)
    IN /\ n < Len(text) => text[n + 1] = Dot /\ fraction # <<>>
       /\ n > 1 => text[1] # 0
       /\ Len(fraction) <= Decimals
       /\ fraction # <<>> => fraction[Len(fraction)] # 0
       /\ lead >= 0
       /\ padded = Zeros(lead) \o digits

(* What the user reads is the amount in the transaction, to the last of its *)
(* decimals, for zero, for amounts below, at and above one token, and       *)
(* whatever longer text the buffer held before (utils.c:255-317).           *)
ShowsAmount == src # <<>> => Terminated /\ Denotes(Shown, src)

(* No 256-bit number is too long for the buffer: its 78 digits, a point and *)
(* a terminator fill it to the last byte, never beyond, so that the return  *)
(* value which rlpParseInt ignores is never false (utils.c:333).            *)
FillsAtMost == src # <<>> => written \in 1..TargetLength
=============================================================================
