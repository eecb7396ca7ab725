------------------------------- MODULE Uint256 -------------------------------
(***************************************************************************)
(* The 128- and 256-bit integers of uint256.c on machine words of WordBits  *)
(* bits.  A number is the pair of its upper and its lower half, most        *)
(* significant first, as in the code: a 128-bit number two words, a 256-bit *)
(* number two 128-bit numbers.  64, 128 and 256 of the code stand for once, *)
(* twice and four times WordBits, 32 for half of it.                        *)
(*                                                                         *)
(* The operators return what the code writes through its target pointer.    *)
(* The code also calls minus256, or256, add128 and the shifts by one with   *)
(* their operand as target; none of those reads a half of the operand that  *)
(* it has overwritten, so the value returned is the same.                   *)
(***************************************************************************)
EXTENDS Integers, FiniteSets, Sequences

CONSTANTS
  ByteBits,   \* bits of a byte, 8 in the code
  WordBytes   \* bytes of a machine word, 8 in the code

ASSUME WordAssumption ==
  /\ ByteBits \in Nat \ {0} /\ WordBytes \in Nat \ {0}
  /\ (ByteBits * WordBytes) % 2 = 0

WordBits == ByteBits * WordBytes

(* The powers of two, up to that of the bits of the widest number.          *)
Pow2[n \in 0..(4 * WordBits)] == IF n = 0 THEN 1 ELSE 2 * Pow2[n - 1]

Word == 0..(Pow2[WordBits] - 1)
Wrap(n) == n % Pow2[WordBits]

upper(x) == x[1]
lower(x) == x[2]

Number128 == Word \X Word
Number256 == Number128 \X Number128

Value128(x) == upper(x) * Pow2[WordBits] + lower(x)
Value256(x) == Value128(upper(x)) * Pow2[2 * WordBits] + Value128(lower(x))

-----------------------------------------------------------------------------
(* Words are read from big-endian bytes, 0 the offset of the first.         *)
readUint64BE(buffer, at) ==
  LET read[i \in 0..WordBytes] ==
        IF i = 0 THEN 0 ELSE read[i - 1] * Pow2[ByteBits] + buffer[at + i - 1]
  IN read[WordBytes]
readu128BE(buffer, at) ==
  <<readUint64BE(buffer, at), readUint64BE(buffer, at + WordBytes)>>
readu256BE(buffer) ==
  <<readu128BE(buffer, 0), readu128BE(buffer, 2 * WordBytes)>>

(* Fewer bytes than a number has are its last ones.  Slip: its first ones.  *)
convertUint256BELeft(data, length) ==
  readu256BE([i \in 0..(4 * WordBytes - 1) |-> IF i < length THEN data[i] ELSE 0])
convertUint256BE(data, length) ==
  LET pad == 4 * WordBytes - length IN
  readu256BE([i \in 0..(4 * WordBytes - 1) |-> IF i < pad THEN 0 ELSE data[i - pad]])

clear128 == <<0, 0>>
clear256 == <<clear128, clear128>>
zero128(x) == lower(x) = 0 /\ upper(x) = 0
zero256(x) == zero128(lower(x)) /\ zero128(upper(x))

gt128(x, y) ==
  IF upper(x) = upper(y) THEN lower(x) > lower(y) ELSE upper(x) > upper(y)
gt256(x, y) ==
  IF upper(x) = upper(y) THEN gt128(lower(x), lower(y))
                         ELSE gt128(upper(x), upper(y))
gte128(x, y) == gt128(x, y) \/ x = y
gte256(x, y) == gt256(x, y) \/ x = y

-----------------------------------------------------------------------------
(* Slip: the carry out of the lower half is lost.                           *)
add128Uncarried(x, y) ==
  <<Wrap(upper(x) + upper(y)), Wrap(lower(x) + lower(y))>>
add128(x, y) ==
  LET low == Wrap(lower(x) + lower(y))
      carry == IF low < lower(x) THEN 1 ELSE 0
  IN <<Wrap(upper(x) + upper(y) + carry), low>>

add256(x, y) ==
  LET high == add128(upper(x), upper(y))
      low == add128(lower(x), lower(y))
  IN <<IF gt128(lower(x), low) THEN add128(high, <<0, 1>>) ELSE high, low>>

minus128(x, y) ==
  LET low == Wrap(lower(x) - lower(y))
      borrow == IF low > lower(x) THEN 1 ELSE 0
  IN <<Wrap(upper(x) - upper(y) - borrow), low>>

(* Slip: the borrow of the lower half is not passed on.                     *)
minus256Unborrowed(x, y) ==
  <<minus128(upper(x), upper(y)), minus128(lower(x), lower(y))>>
minus256(x, y) ==
  LET high == minus128(upper(x), upper(y))
      low == minus128(lower(x), lower(y))
  IN <<IF gt128(low, lower(x)) THEN minus128(high, <<0, 1>>) ELSE high, low>>

(* Bitwise or of words: a bit is set if it is in either.                    *)
bit(w, n) == (w \div Pow2[n]) % 2
orWord(w, v) ==
  CHOOSE o \in Word : \A n \in 0..(WordBits - 1) :
    bit(o, n) = IF bit(w, n) = 1 THEN 1 ELSE bit(v, n)
or128(x, y) == <<orWord(upper(x), upper(y)), orWord(lower(x), lower(y))>>
or256(x, y) == <<or128(upper(x), upper(y)), or128(lower(x), lower(y))>>

-----------------------------------------------------------------------------
(* Shifts of a word are defined for fewer than WordBits places only, hence  *)
(* the cases of their own.                                                  *)
leftWord(w, n) == Wrap(w * Pow2[n])
rightWord(w, n) == w \div Pow2[n]

shiftl128(x, n) ==
  CASE n >= 2 * WordBits -> clear128
    [] n = WordBits -> <<lower(x), 0>>
    [] n = 0 -> x
    [] 0 < n /\ n < WordBits ->
         <<Wrap(leftWord(upper(x), n) + rightWord(lower(x), WordBits - n)),
           leftWord(lower(x), n)>>
    [] WordBits < n /\ n < 2 * WordBits ->
         <<leftWord(lower(x), n - WordBits), 0>>

(* Slip: the bits that leave the upper half come in at the wrong end of the *)
(* lower.                                                                   *)
shiftr128Unaligned(x, n) ==
  IF n >= 2 * WordBits THEN clear128
  ELSE IF n >= WordBits THEN <<0, rightWord(upper(x), n - WordBits)>>
  ELSE <<rightWord(upper(x), n),
         Wrap(leftWord(upper(x), n) + rightWord(lower(x), n))>>
shiftr128(x, n) ==
  CASE n >= 2 * WordBits -> clear128
    [] n = WordBits -> <<0, upper(x)>>
    [] n = 0 -> x
    [] 0 < n /\ n < WordBits ->
         <<rightWord(upper(x), n),
           Wrap(leftWord(upper(x), WordBits - n) + rightWord(lower(x), n))>>
    [] WordBits < n /\ n < 2 * WordBits ->
         <<0, rightWord(upper(x), n - WordBits)>>

shiftl256(x, n) ==
  CASE n >= 4 * WordBits -> clear256
    [] n = 2 * WordBits -> <<lower(x), clear128>>
    [] n = 0 -> x
    [] 0 < n /\ n < 2 * WordBits ->
         <<add128(shiftl128(upper(x), n), shiftr128(lower(x), 2 * WordBits - n)),
           shiftl128(lower(x), n)>>
    [] 2 * WordBits < n /\ n < 4 * WordBits ->
         <<shiftl128(lower(x), n - 2 * WordBits), clear128>>

shiftr256(x, n) ==
  CASE n >= 4 * WordBits -> clear256
    [] n = 2 * WordBits -> <<clear128, upper(x)>>
    [] n = 0 -> x
    [] 0 < n /\ n < 2 * WordBits ->
         <<shiftr128(upper(x), n),
           add128(shiftr128(lower(x), n), shiftl128(upper(x), 2 * WordBits - n))>>
    [] 2 * WordBits < n /\ n < 4 * WordBits ->
         <<clear128, shiftr128(upper(x), n - 2 * WordBits)>>

(* The loops that shift by one and count until nothing is left.             *)
bitsWord(w) == Cardinality({n \in 0..(WordBits - 1) : rightWord(w, n) # 0})
bits128(x) ==
  IF upper(x) # 0 THEN WordBits + bitsWord(upper(x)) ELSE bitsWord(lower(x))

shiftsOut(x) ==
  Cardinality({n \in 0..(2 * WordBits - 1) : ~zero128(shiftr128(x, n))})

(* Slip: the upper half counts as if it began where the upper word of the   *)
(* lower one does.                                                          *)
bits256Upper(x) ==
  IF zero128(upper(x)) THEN bits128(lower(x)) ELSE WordBits + bits128(upper(x))
bits256(x) ==
  IF zero128(upper(x)) THEN shiftsOut(lower(x))
                       ELSE 2 * WordBits + shiftsOut(upper(x))
-----------------------------------------------------------------------------
(* Schoolbook products: four digits each, the most significant first,       *)
(* product(i, j) that of the digit i places before the last of x and of     *)
(* digit j of y; the lower and upper halves of the products are summed by   *)
(* columns, and what lies above the first column is dropped.                *)

(* Words in halves, and the sums of columns of half words, in words.        *)
Half == Pow2[WordBits \div 2]
Halves(x) ==
  <<upper(x) \div Half, upper(x) % Half, lower(x) \div Half, lower(x) % Half>>
Columns128(x, y) ==
  LET top == Halves(x)
      bottom == Halves(y)
      product(i, j) == top[4 - i] * bottom[j + 1]
      lo(i, j) == product(i, j) % Half
      hi(i, j) == product(i, j) \div Half
  IN [fourth |-> lo(0, 3),
      third |-> Wrap(lo(0, 2) + hi(0, 3) + lo(1, 3)),
      second |-> Wrap(lo(0, 1) + hi(0, 2) + lo(1, 2) + hi(1, 3) + lo(2, 3)),
      first |-> Wrap(lo(0, 0) + hi(0, 1) + lo(1, 1) + hi(1, 2) + lo(2, 2)
                     + hi(2, 3) + lo(3, 3))]

(* Slip: what the third column carries into the second is lost.             *)
mul128Carryless(x, y) ==
  LET columns == Columns128(x, y)
  IN <<Wrap(columns.second + leftWord(columns.first, WordBits \div 2)),
       Wrap(columns.fourth + leftWord(columns.third, WordBits \div 2))>>
mul128(x, y) ==
  LET columns == Columns128(x, y)
  IN add128(<<0, columns.fourth>>,
       add128(<<columns.second, 0>>,
         add128(<<leftWord(columns.first, WordBits \div 2), 0>>,
                <<rightWord(columns.third, WordBits \div 2),
                  leftWord(columns.third, WordBits \div 2)>>)))

(* Numbers in words, and the sums of columns of words, in 128-bit numbers.  *)
Quarters(x) ==
  <<<<0, upper(upper(x))>>, <<0, lower(upper(x))>>,
    <<0, upper(lower(x))>>, <<0, lower(lower(x))>>>>
Columns256(x, y) ==
  LET top == Quarters(x)
      bottom == Quarters(y)
      product(i, j) == mul128(top[4 - i], bottom[j + 1])
      lo(i, j) == <<0, lower(product(i, j))>>
      hi(i, j) == <<0, upper(product(i, j))>>
  IN [fourth |-> lo(0, 3),
      third |-> add128(lo(1, 3), add128(lo(0, 2), hi(0, 3))),
      second |-> add128(lo(2, 3), add128(hi(1, 3), add128(lo(1, 2),
                   add128(lo(0, 1), hi(0, 2))))),
      first |-> add128(lo(3, 3), add128(hi(2, 3), add128(lo(2, 2),
                  add128(hi(1, 2), add128(lo(1, 1), add128(lo(0, 0), hi(0, 1)))))))]

(* The upper half of the third column is put into the topmost word of the   *)
(* second summand, one word too high.  Slip: the second column is, too.     *)
mul256Shifted(x, y) ==
  LET columns == Columns256(x, y)
  IN add256(<<clear128, columns.fourth>>,
       add256(<<shiftl128(columns.second, WordBits), clear128>>,
         add256(<<shiftl128(columns.first, WordBits), clear128>>,
                <<<<upper(columns.third), 0>>, shiftl128(columns.third, WordBits)>>)))
mul256(x, y) ==
  LET columns == Columns256(x, y)
  IN add256(<<clear128, columns.fourth>>,
       add256(<<columns.second, clear128>>,
         add256(<<shiftl128(columns.first, WordBits), clear128>>,
                <<<<upper(columns.third), 0>>, shiftl128(columns.third, WordBits)>>)))
=============================================================================
