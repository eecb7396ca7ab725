---------------------------- MODULE ToString_proofs ----------------------------
(***************************************************************************)
(* The integers of uint256.c and their printing, for words of any even      *)
(* number of bits, all numbers, all bases and any room:                     *)
(*   - comparisons, bit lengths, sums, differences and shifts of numbers in *)
(*     halves are those of the numbers;                                     *)
(*   - the bytes of a number are read as that number, and mul128 multiplies;*)
(*     mul256 does if the third of its columns fits a word, and not else;   *)
(*   - divmod128 and divmod256 implement LongDivision;                      *)
(*   - what tostring128 and tostring256 return is the number they were      *)
(*     given, and what they refuse has no digits or too little room; with   *)
(*     the code's words no amount is refused that 78 digits are offered.    *)
(* A number of two halves, or of two words, is a pair a * K + b: the first  *)
(* part is about such pairs, and about products by columns of their four    *)
(* digits.  Each operator is then what it is for pairs, first of words,     *)
(* then of halves, and for digits.  The third part is about numbers of the  *)
(* width in hand (Num), the fourth about the division, whose invariant says *)
(* where the divisor stands (LoopOK), and the last about the digits, whose  *)
(* invariant has the quotients that were left after each (PrintOK).         *)
(* Where something holds for all numbers up to another, the least for which *)
(* it fails is shown not to exist (Least).                                  *)
(***************************************************************************)
EXTENDS ToString, FiniteSetTheorems, WellFoundedInduction, TLAPS

-----------------------------------------------------------------------------
(* A quotient and a remainder are the only ones.                            *)
LEMMA DivIs ==
  ASSUME NEW a \in Int, NEW K \in Nat \ {0}, NEW q \in Int, NEW r \in 0..(K - 1),
         a = q * K + r
  PROVE  a \div K = q /\ a % K = r
OBVIOUS

(* Quotient and remainder.                                                  *)
LEMMA Split ==
  ASSUME NEW a \in Int, NEW K \in Nat \ {0}
  PROVE  /\ a = (a \div K) * K + (a % K)
         /\ a \div K \in Int /\ a % K \in 0..(K - 1)
OBVIOUS

(* What the provers do not distribute by themselves.                        *)
LEMMA Ring ==
  ASSUME NEW a \in Int, NEW b \in Int, NEW c \in Int
  PROVE  /\ (a + b) * c = a * c + b * c /\ (a - b) * c = a * c - b * c
         /\ a * b \in Int /\ a * b = b * a /\ (a * b) * c = a * (b * c)
OBVIOUS

(* Multiplication by a natural number is monotone.                          *)
LEMMA Grow ==
  ASSUME NEW a \in Int, NEW b \in Int, NEW c \in Nat, a <= b
  PROVE  a * c <= b * c
<1>1. (b - a) * c >= 0 /\ (b - a) * c = b * c - a * c
  <2>1. b - a \in Nat
   OBVIOUS
  <2>2. \A u, v \in Nat : u * v >= 0
    OBVIOUS
  <2>3. (b - a) * c >= 0
    BY <2>1, <2>2
  <2> QED BY Ring, <2>3
<1>2. a * c \in Int /\ b * c \in Int
  OBVIOUS
<1> QED BY <1>1, <1>2

(* Two digits of bases M and K are less than M * K.                         *)
LEMMA PairBelow ==
  ASSUME NEW K \in Nat \ {0}, NEW M \in Nat \ {0}, NEW a \in 0..(M - 1), NEW b \in 0..(K - 1)
  PROVE  a * K + b \in 0..(M * K - 1)
<1>1. a * K <= (M - 1) * K
  BY Grow
<1>2. (M - 1) * K = M * K - K /\ M * K \in Int
  BY Ring
<1>3. a * K \in Nat
  OBVIOUS
<1> QED BY <1>1, <1>2, <1>3

(* The parts of a pair of digits.                                           *)
LEMMA PairParts ==
  ASSUME NEW K \in Nat \ {0}, NEW a \in Int, NEW b \in 0..(K - 1)
  PROVE  (a * K + b) \div K = a /\ (a * K + b) % K = b
<1>1. a * K + b \in Int
  OBVIOUS
<1> QED BY <1>1, DivIs

(* A pair modulo a multiple of its lower base.                              *)
LEMMA ModOfPair ==
  ASSUME NEW K \in Nat \ {0}, NEW M \in Nat \ {0}, NEW a \in Int, NEW b \in 0..(K - 1)
  PROVE  (a * K + b) % (M * K) = (a % M) * K + b
<1>1. PICK q \in Int, r \in 0..(M - 1) : a = q * M + r /\ a % M = r
  BY Split
<1>2. a * K + b = q * (M * K) + (r * K + b)
  <2>1. a * K = (q * M) * K + r * K /\ (q * M) * K = q * (M * K)
    BY <1>1, Ring
  <2> QED BY <2>1
<1>3. r * K + b \in 0..(M * K - 1)
  BY PairBelow
<1>4. M * K \in Nat \ {0} /\ a * K + b \in Int
  OBVIOUS
<1> QED BY <1>1, <1>2, <1>3, <1>4, DivIs

(* Sums of pairs: the carry is seen from the lower sum having wrapped.      *)
LEMMA AddPair ==
  ASSUME NEW K \in Nat \ {0},
         NEW a \in 0..(K - 1), NEW b \in 0..(K - 1), NEW c \in 0..(K - 1), NEW d \in 0..(K - 1),
         NEW low, low = (b + d) % K, NEW carry, carry = IF low < b THEN 1 ELSE 0
  PROVE  ((a * K + b) + (c * K + d)) % (K * K) = ((a + c + carry) % K) * K + low
<1>1. b + d = carry * K + low /\ carry \in 0..1 /\ low \in 0..(K - 1)
  <2>1. CASE b + d < K
    <3>1. b + d = 0 * K + (b + d) /\ b + d \in 0..(K - 1)
      BY <2>1
    <3>2. low = b + d
      BY <3>1, DivIs
    <3> QED BY <3>2, <2>1
  <2>2. CASE b + d >= K
    <3>1. b + d = 1 * K + (b + d - K) /\ b + d - K \in 0..(K - 1)
      BY <2>2
    <3>2. low = b + d - K
      BY <2>2, <3>1, DivIs
    <3> QED BY <3>2, <2>2
  <2> QED BY <2>1, <2>2
<1>2. (a * K + b) + (c * K + d) = (a + c + carry) * K + low
  <2>1. carry \in Int /\ a + c \in Int
    BY <1>1
  <2>2. ((a + c) + carry) * K = (a + c) * K + carry * K
    BY <2>1, Ring
  <2>3. (a + c) * K = a * K + c * K
    BY Ring
  <2> QED BY <1>1, <2>2, <2>3
<1> QED BY <1>1, <1>2, ModOfPair

(* Differences of pairs: the borrow is seen the same way.                   *)
LEMMA SubPair ==
  ASSUME NEW K \in Nat \ {0},
         NEW a \in 0..(K - 1), NEW b \in 0..(K - 1), NEW c \in 0..(K - 1), NEW d \in 0..(K - 1),
         NEW low, low = (b - d) % K, NEW borrow, borrow = IF low > b THEN 1 ELSE 0
  PROVE  ((a * K + b) - (c * K + d)) % (K * K) = ((a - c - borrow) % K) * K + low
<1>1. b - d = low - borrow * K /\ borrow \in 0..1 /\ low \in 0..(K - 1)
  <2>1. CASE d <= b
    <3>1. b - d = 0 * K + (b - d) /\ b - d \in 0..(K - 1)
      BY <2>1
    <3>2. low = b - d
      BY <3>1, DivIs
    <3> QED BY <3>2, <2>1
  <2>2. CASE b < d
    <3>1. b - d = (-1) * K + (b - d + K) /\ b - d + K \in 0..(K - 1)
      BY <2>2
    <3>2. low = b - d + K
      BY <2>2, <3>1, DivIs
    <3> QED BY <3>2, <2>2
  <2> QED BY <2>1, <2>2
<1>2. (a * K + b) - (c * K + d) = (a - c - borrow) * K + low
  <2>1. borrow \in Int /\ a - c \in Int
    BY <1>1
  <2>2. ((a - c) - borrow) * K = (a - c) * K - borrow * K
    BY <2>1, Ring
  <2>3. (a - c) * K = a * K - c * K
    BY Ring
  <2> QED BY <1>1, <2>2, <2>3
<1> QED BY <1>1, <1>2, ModOfPair

(* A remainder may be taken before adding.                                  *)
LEMMA ModAgain ==
  ASSUME NEW K \in Nat \ {0}, NEW a \in Int, NEW c \in Int
  PROVE  ((a % K) + c) % K = (a + c) % K
<1>1. PICK q \in Int, r \in 0..(K - 1) : a = q * K + r /\ a % K = r
  BY Split
<1>2. PICK s \in Int, t \in 0..(K - 1) : r + c = s * K + t /\ (r + c) % K = t
  <2>1. r + c \in Int
    OBVIOUS
  <2> QED BY <2>1, Split
<1>3. a + c = (q + s) * K + t
  <2>1. (q + s) * K = q * K + s * K
    BY Ring
  <2> QED BY <1>1, <1>2, <2>1
<1>4. (a + c) % K = t
  <2>1. a + c \in Int /\ q + s \in Int
    OBVIOUS
  <2> QED BY <1>3, <2>1, DivIs
<1> QED BY <1>1, <1>2, <1>4

(* The same, for the carry and the borrow of one.                           *)
LEMMA ModNext ==
  ASSUME NEW K \in Nat \ {0}, NEW a \in Int
  PROVE  /\ ((a % K) + 1) % K = (a + 1) % K
         /\ ((a % K) + (-1)) % K = (a + (-1)) % K
<1>1. PICK c \in Int, d \in Int : c = 1 /\ d = -1
  OBVIOUS
<1>2. ((a % K) + c) % K = (a + c) % K /\ ((a % K) + d) % K = (a + d) % K
  BY ModAgain, Zenon
<1> QED BY <1>1, <1>2, Zenon

(* Pairs compare as numbers do.                                             *)
LEMMA GtPair ==
  ASSUME NEW K \in Nat \ {0}, NEW a \in Int, NEW c \in Int, NEW b \in 0..(K - 1), NEW d \in 0..(K - 1)
  PROVE  /\ (a * K + b) > (c * K + d) <=> IF a = c THEN b > d ELSE a > c
         /\ (a * K + b) = (c * K + d) <=> a = c /\ b = d
<1>1. ASSUME NEW u \in Int, NEW v \in Int, NEW y \in 0..(K - 1), NEW z \in 0..(K - 1), u < v
      PROVE  u * K + y < v * K + z
  <2>1. (u + 1) * K <= v * K
    BY <1>1, Grow
  <2>2. (u + 1) * K = u * K + K
    BY Ring
  <2> QED BY <2>1, <2>2
<1>2. CASE a = c
  BY <1>2
<1>3. CASE a < c
  <2>1. a * K + b < c * K + d
    BY <1>1, <1>3
  <2> QED BY <1>3, <2>1
<1>4. CASE a > c
  <2>1. c * K + d < a * K + b
    BY <1>1, <1>4
  <2> QED BY <1>4, <2>1
<1> QED BY <1>2, <1>3, <1>4

(* Words and halves of them, p * q: shifted by the places of p, the bits    *)
(* above q are lost, or those above p moved to the next lower one.          *)
LEMMA ShiftOut ==
  ASSUME NEW p \in Nat \ {0}, NEW q \in Nat \ {0}, NEW K \in Nat \ {0}, K = p * q,
         NEW a \in Int
  PROVE  (a * p) % K = (a % q) * p
<1>1. PICK s \in Int, t \in 0..(q - 1) : a = s * q + t /\ a % q = t
  BY Split
<1>2. a * p = s * K + t * p
  <2>1. (s * q + t) * p = (s * q) * p + t * p /\ (s * q) * p = s * (q * p) /\ q * p = p * q
    <3>1. s * q \in Int /\ t \in Int
      OBVIOUS
    <3> QED BY <3>1, Ring
  <2> QED BY <1>1, <2>1
<1>3. t * p \in 0..(q * p - 1) /\ q * p = K
  <2>1. t * p + 0 \in 0..(q * p - 1) /\ 0 \in 0..(p - 1)
    BY PairBelow
  <2>2. t * p \in Int
    OBVIOUS
  <2> QED BY <2>1, <2>2, Ring
<1>4. a * p \in Int /\ t * p \in 0..(K - 1)
  BY <1>3
<1>5. (a * p) % K = t * p
  BY <1>2, <1>4, DivIs
<1> QED BY <1>1, <1>5

(* Dividing by one factor and then by the other.                            *)
Twice(p, q, K, a) == a \div K = (a \div p) \div q

(* A quotient of a quotient.                                                *)
LEMMA DivTwice ==
  ASSUME NEW p \in Nat \ {0}, NEW q \in Nat \ {0}, NEW K \in Nat \ {0}, K = p * q,
         NEW a \in Int
  PROVE  Twice(p, q, K, a)
<1>1. PICK s \in Int, t \in 0..(p - 1) : a = s * p + t /\ a \div p = s
  BY Split
<1>2. PICK u \in Int, v \in 0..(q - 1) : s = u * q + v /\ s \div q = u
  BY Split
<1>3. a = u * K + (v * p + t)
  <2>1. (u * q + v) * p = (u * q) * p + v * p /\ (u * q) * p = u * (q * p) /\ q * p = p * q
    <3>1. u * q \in Int /\ v \in Int
      OBVIOUS
    <3> QED BY <3>1, Ring
  <2> QED BY <1>1, <1>2, <2>1
<1>4. v * p + t \in 0..(K - 1)
  <2>1. v * p + t \in 0..(q * p - 1) /\ q * p = K
    BY PairBelow, Ring
  <2> QED BY <2>1
<1>5. a \div K = u
  BY <1>3, <1>4, DivIs
<1> QED BY <1>1, <1>2, <1>5, Zenon DEF Twice

(* What comes into the places that the shift has made free fits there.      *)
Carried(p, q, K, a, b) ==
  /\ b \div q \in 0..(p - 1)
  /\ (((a * p) % K) + (b \div q)) % K = (a % q) * p + (b \div q)
  /\ (((a * p) % K) + (b \div q)) \in 0..(K - 1)

(* A pair moved up by fewer places than a half has, and by more.            *)
UpFacts(p, q, K, a, b) ==
  ((a % q) * p + (b \div q)) * K + ((b * p) % K) = ((a * K + b) % (q * K)) * p
UpFarFacts(p, q, K, a, b) ==
  ((b * p) % K) * K + 0 = ((a * K + b) % q) * (p * K)

(* A half shifted up by p within p * q, and what comes into it from the     *)
(* half below.                                                              *)
LEMMA UpPair ==
  ASSUME NEW p \in Nat \ {0}, NEW q \in Nat \ {0}, NEW K \in Nat \ {0}, K = p * q,
         NEW a \in 0..(K - 1), NEW b \in 0..(K - 1)
  PROVE  Carried(p, q, K, a, b) /\ UpFacts(p, q, K, a, b)
<1>1. K \in Nat \ {0} /\ q * p = K
  BY Ring
<1>2. PICK u \in Int, v \in 0..(q - 1) : b = u * q + v /\ b \div q = u /\ b % q = v
  BY Split
<1>3. u \in 0..(p - 1)
  <2>1. CASE u < 0
    <3>1. u * q <= (-1) * q
      BY <2>1, Grow
    <3> QED BY <1>2, <3>1
  <2>2. CASE u >= p
    <3>1. p * q <= u * q
      BY <2>2, Grow
    <3> QED BY <1>2, <3>1
  <2> QED BY <2>1, <2>2
<1>4. PICK t \in 0..(q - 1) : a % q = t
  BY Split
<1>5. (a * p) % K = t * p /\ (b * p) % K = v * p
  <2>1. a \in Int /\ b \in Int
    OBVIOUS
  <2>2. (a * p) % K = (a % q) * p /\ (b * p) % K = (b % q) * p
    BY <2>1, ShiftOut
  <2> QED BY <1>2, <1>4, <2>2
<1>6. t * p + u \in 0..(K - 1)
  BY <1>1, <1>3, PairBelow
<1>7. (t * p + u) % K = t * p + u
  <2>1. t * p + u = 0 * K + (t * p + u) /\ t * p + u \in Int
    BY <1>6
  <2> QED BY <1>1, <1>6, <2>1, DivIs
<1>8. (a * K + b) % (q * K) = t * K + b
  <2>1. a \in Int
    OBVIOUS
  <2>2. (a * K + b) % (q * K) = (a % q) * K + b
    BY <2>1, ModOfPair
  <2> QED BY <1>4, <2>2
<1>9. (t * p + u) * K + v * p = (t * K + b) * p
  <2>1. (t * p + u) * K = (t * p) * K + u * K /\ (t * p) * K = t * (p * K)
    <3>1. t * p \in Int /\ u \in Int
      OBVIOUS
    <3> QED BY <1>1, <3>1, Ring
  <2>2. (t * K + b) * p = (t * K) * p + b * p /\ (t * K) * p = t * (K * p) /\ K * p = p * K
    <3>1. t * K \in Int /\ b \in Int /\ K \in Int
      BY <1>1
    <3> QED BY <1>1, <3>1, Ring
  <2>3. b * p = u * K + v * p
    <3>1. (u * q + v) * p = (u * q) * p + v * p /\ (u * q) * p = u * (q * p)
      <4>1. u * q \in Int /\ v \in Int
        OBVIOUS
      <4> QED BY <4>1, Ring
    <3> QED BY <1>1, <1>2, <3>1
  <2>4. p * K \in Int /\ t * (p * K) \in Int /\ u * K \in Int /\ v * p \in Int
    <3>1. p * K \in Int
      OBVIOUS
    <3> QED BY <3>1
  <2> QED BY <2>1, <2>2, <2>3, <2>4
<1>10. /\ b \div q = u /\ a % q = t /\ u \in 0..(p - 1)
       /\ (a * p) % K = t * p /\ (b * p) % K = v * p
  BY <1>2, <1>3, <1>4, <1>5
<1> QED BY <1>6, <1>7, <1>8, <1>9, <1>10, Zenon DEF Carried, UpFacts

(* The lower half alone, shifted up by K * p.                               *)
LEMMA UpFar ==
  ASSUME NEW p \in Nat \ {0}, NEW q \in Nat \ {0}, NEW K \in Nat \ {0}, K = p * q,
         NEW a \in 0..(K - 1), NEW b \in 0..(K - 1)
  PROVE  UpFarFacts(p, q, K, a, b)
<1>1. K \in Nat \ {0} /\ q * p = K
  BY Ring
<1>2. PICK u \in Int, v \in 0..(q - 1) : b = u * q + v /\ b % q = v
  <2>1. b \in Int
    OBVIOUS
  <2> QED BY <2>1, Split
<1>3. (b * p) % K = v * p
  <2>1. b \in Int
    OBVIOUS
  <2>2. (b * p) % K = (b % q) * p
    BY <2>1, ShiftOut
  <2> QED BY <1>2, <2>2
<1>4. a * K + b = (a * p + u) * q + v
  <2>1. (a * p + u) * q = (a * p) * q + u * q /\ (a * p) * q = a * (p * q)
    <3>1. a * p \in Int /\ u \in Int
      OBVIOUS
    <3> QED BY <3>1, Ring
  <2> QED BY <1>2, <2>1
<1>5. (a * K + b) % q = v
  <2>1. a * K + b \in Int /\ a * p + u \in Int
    BY <1>1
  <2> QED BY <1>4, <2>1, DivIs
<1>6. (v * p) * K = v * (p * K) /\ (v * p) * K \in Int
  <2>1. v * p \in Int /\ K \in Int
    BY <1>1
  <2> QED BY <2>1, Ring
<1> QED BY <1>3, <1>5, <1>6 DEF UpFarFacts

(* A pair moved down by fewer places than a half has.                       *)
DownFacts(p, q, K, a, b) ==
  /\ ((((a * q) % K) + (b \div p)) % K) = (a % p) * q + (b \div p)
  /\ (((a * q) % K) + (b \div p)) \in 0..(K - 1)
  /\ a \div p \in 0..(K - 1)
  /\ (a \div p) * K + ((a % p) * q + (b \div p)) = (a * K + b) \div p

(* A quotient is not greater than what is divided.                          *)
LEMMA DivSmaller ==
  ASSUME NEW K \in Nat \ {0}, NEW p \in Nat \ {0}, NEW a \in 0..(K - 1)
  PROVE  a \div p \in 0..(K - 1)
<1>1. PICK s \in Int, t \in 0..(p - 1) : a = s * p + t /\ a \div p = s
  BY Split
<1>2. s >= 0
  <2>1. CASE s < 0
    <3>1. s * p <= (-1) * p
      BY <2>1, Grow
    <3> QED BY <1>1, <3>1
  <2> QED BY <2>1
<1>3. s <= s * p
  <2>1. 1 * s <= p * s
    BY <1>2, Grow
  <2> QED BY <2>1, Ring
<1> QED BY <1>1, <1>2, <1>3

(* Halves shifted down by p: what leaves the upper one comes into the       *)
(* lower.                                                                   *)
LEMMA DownPair ==
  ASSUME NEW p \in Nat \ {0}, NEW q \in Nat \ {0}, NEW K \in Nat \ {0}, K = p * q,
         NEW a \in 0..(K - 1), NEW b \in 0..(K - 1)
  PROVE  DownFacts(p, q, K, a, b)
<1>1. K \in Nat \ {0} /\ K = q * p
  BY Ring
<1>2. /\ b \div p \in 0..(q - 1)
      /\ (((a * q) % K) + (b \div p)) % K = (a % p) * q + (b \div p)
      /\ (((a * q) % K) + (b \div p)) \in 0..(K - 1)
  <2>1. Carried(q, p, K, a, b)
    BY <1>1, UpPair, Zenon
  <2> QED BY <2>1, Zenon DEF Carried
<1>3. PICK u \in Int, v \in 0..(p - 1) : b = u * p + v /\ b \div p = u
  BY Split
<1>4. PICK s \in Int, t \in 0..(p - 1) : a = s * p + t /\ a \div p = s /\ a % p = t
  BY Split
<1>5. a * K + b = (s * K + (t * q + u)) * p + v
  <2>1. /\ (s * K + (t * q + u)) * p = (s * K) * p + (t * q + u) * p
        /\ (s * K) * p = s * (K * p) /\ K * p = p * K
    <3>1. s * K \in Int /\ t * q + u \in Int /\ K \in Int
      BY <1>1
    <3> QED BY <3>1, Ring
  <2>2. (t * q + u) * p = (t * q) * p + u * p /\ (t * q) * p = t * (q * p)
    <3>1. t * q \in Int /\ u \in Int
      OBVIOUS
    <3> QED BY <3>1, Ring
  <2>3. (s * p + t) * K = (s * p) * K + t * K /\ (s * p) * K = s * (p * K)
    <3>1. s * p \in Int /\ t \in Int /\ K \in Int
      BY <1>1
    <3> QED BY <3>1, Ring
  <2> QED BY <1>1, <1>3, <1>4, <2>1, <2>2, <2>3
<1>6. (a * K + b) \div p = s * K + (t * q + u)
  <2>1. a * K + b \in Int /\ s * K + (t * q + u) \in Int
    BY <1>1
  <2> QED BY <1>5, <2>1, DivIs
<1>7. a \div p \in 0..(K - 1)
  BY DivSmaller
<1> QED BY <1>2, <1>3, <1>4, <1>6, <1>7, Zenon DEF DownFacts

(* The upper half alone, shifted down by K * p.                             *)
LEMMA DownFar ==
  ASSUME NEW p \in Nat \ {0}, NEW K \in Nat \ {0},
         NEW a \in 0..(K - 1), NEW b \in 0..(K - 1)
  PROVE  0 * K + (a \div p) = (a * K + b) \div (K * p)
<1>1. (a * K + b) \div K = a /\ a * K + b \in Int
  BY PairParts
<1>2. (a * K + b) \div (K * p) = a \div p
  <2>1. PICK m \in Int : m = a * K + b
    BY <1>1
  <2>2. PICK n \in Nat \ {0} : n = K * p
    OBVIOUS
  <2>3. m \div n = (m \div K) \div p
    BY <2>2, DivTwice, Zenon DEF Twice
  <2> QED BY <1>1, <2>1, <2>2, <2>3, Zenon
<1>3. a \div p \in Int
  BY Split
<1> QED BY <1>2, <1>3

(* A set of natural numbers has a least one: the inductions of this module  *)
(* are about the least number for which something fails.                    *)
LEMMA Least ==
  ASSUME NEW T \in SUBSET Nat, T # {}
  PROVE  \E n \in T : \A m \in T : n <= m
<1> DEFINE R == OpToRel(<, Nat)
<1>1. IsWellFoundedOn(R, Nat)
  BY NatLessThanWellFounded
<1>2. \A x, y \in Nat : <<y, x>> \in R <=> y < x
  BY Zenon DEF OpToRel
<1> HIDE DEF R
<1>3. PICK x \in T : \A y \in T : ~(<<y, x>> \in R)
  BY <1>1, WFMin, Zenon
<1>4. \A y \in T : ~(y < x)
  <2>1. \A y \in T : y \in Nat /\ x \in Nat
    OBVIOUS
  <2> QED BY <1>2, <1>3, <2>1, Zenon
<1> QED BY <1>3, <1>4

(* Sums and powers that are built up step by step.                          *)
Builds(N, k, s, a, f) ==
  /\ f \in [0..N -> Int] /\ f[0] = s
  /\ \A n \in 1..N : f[n] = f[n - 1] * k + a[n]

(* There are such sequences, of any length.                                 *)
LEMMA Built ==
  ASSUME NEW N \in Nat, NEW k \in Int, NEW s \in Int, NEW a \in [1..N -> Int]
  PROVE  \E f : Builds(N, k, s, a, f)
<1> DEFINE None == {n \in 0..N : ~ \E f : Builds(n, k, s, a, f)}
<1>1. SUFFICES ASSUME None # {} PROVE FALSE
  <2>1. ASSUME None = {} PROVE \E f : Builds(N, k, s, a, f)
    <3>1. N \in 0..N
      OBVIOUS
    <3> QED BY <2>1, <3>1
  <2> QED BY <2>1
<1>2. PICK n \in None : \A m \in None : n <= m
  <2>1. None \in SUBSET Nat
    OBVIOUS
  <2> HIDE DEF None
  <2> QED BY <1>1, <2>1, Least
<1>3. n # 0
  <2> DEFINE one == [i \in 0..0 |-> s]
  <2>1. one \in [0..0 -> Int] /\ one[0] = s
    OBVIOUS
  <2>2. Builds(0, k, s, a, one)
    BY <2>1 DEF Builds
  <2> QED BY <1>2, <2>2
<1>4. n - 1 \in 0..N /\ ~(n <= n - 1) /\ n \in 1..N
  BY <1>2, <1>3
<1>5. PICK f : Builds(n - 1, k, s, a, f)
  BY <1>2, <1>4
<1>6. /\ f \in [0..(n - 1) -> Int] /\ f[0] = s
      /\ \A i \in 1..(n - 1) : f[i] = f[i - 1] * k + a[i]
  BY <1>5 DEF Builds
<1>7. PICK last \in Int : last = f[n - 1] * k + a[n]
  <2>1. f[n - 1] \in Int /\ a[n] \in Int
    BY <1>4, <1>6
  <2> QED BY <2>1
<1> DEFINE more == [i \in 0..n |-> IF i = n THEN last ELSE f[i]]
<1>8. more \in [0..n -> Int] /\ more[0] = s
  BY <1>3, <1>4, <1>6, <1>7
<1>9. \A i \in 1..n : more[i] = more[i - 1] * k + a[i]
  <2> TAKE i \in 1..n
  <2>1. i - 1 # n /\ i - 1 \in 0..n
    BY <1>4
  <2>2. more[i - 1] = f[i - 1]
    BY <2>1
  <2>3. CASE i = n BY <1>7, <2>2, <2>3
  <2>4. CASE i # n
    <3>1. i \in 1..(n - 1)
      BY <1>4, <2>4
    <3>2. more[i] = f[i]
      BY <2>4
    <3> HIDE DEF more
    <3> QED BY <1>6, <2>2, <3>1, <3>2
  <2> QED BY <2>3, <2>4
<1> HIDE DEF more
<1>10. Builds(n, k, s, a, more)
  BY <1>8, <1>9 DEF Builds
<1> QED BY <1>2, <1>10

-----------------------------------------------------------------------------
(* Sums times a number.                                                     *)
LEMMA RingSums ==
  ASSUME NEW a \in Int, NEW b \in Int, NEW c \in Int, NEW d \in Int, NEW k \in Int
  PROVE  /\ (a + b + c) * k = a * k + b * k + c * k
         /\ (a + b + c + d) * k = a * k + b * k + c * k + d * k
<1>1. a + b \in Int /\ a + b + c \in Int
  OBVIOUS
<1>2. (a + b) * k = a * k + b * k
  BY Ring
<1>3. (a + b + c) * k = (a + b) * k + c * k
  BY <1>1, Ring
<1>4. (a + b + c + d) * k = (a + b + c) * k + d * k
  BY <1>1, Ring
<1>5. a * k \in Int /\ b * k \in Int /\ c * k \in Int /\ d * k \in Int
  OBVIOUS
<1> QED BY <1>1, <1>2, <1>3, <1>4, <1>5

(* The product of two pairs.                                                *)
LEMMA PairTimes ==
  ASSUME NEW K \in Int, NEW a \in Int, NEW b \in Int, NEW c \in Int, NEW d \in Int
  PROVE  (a * K + b) * (c * K + d) = (a * c) * (K * K) + (a * d + b * c) * K + b * d
<1>1. PICK p \in Int, q \in Int : p = a * K /\ q = c * K + d
  OBVIOUS
<1>2. (p + b) * q = p * q + b * q
  BY Ring
<1>3. p * q = p * (c * K) + p * d
  <2>1. PICK r \in Int : r = c * K
    OBVIOUS
  <2>2. (r + d) * p = r * p + d * p
    BY Ring
  <2>3. (r + d) * p = p * (r + d) /\ r * p = p * r /\ d * p = p * d
    BY Ring
  <2> QED BY <1>1, <2>1, <2>2, <2>3
<1>4. p * (c * K) = (a * c) * (K * K)
  <2>1. (a * K) * (c * K) = a * (K * (c * K))
    <3>1. PICK r \in Int : r = c * K
      OBVIOUS
    <3> QED BY <3>1, Ring
  <2>2. K * (c * K) = (c * K) * K /\ (c * K) * K = c * (K * K)
    <3>1. PICK r \in Int : r = c * K
      OBVIOUS
    <3> QED BY <3>1, Ring
  <2>3. a * (c * (K * K)) = (a * c) * (K * K)
    <3>1. PICK r \in Int : r = K * K
      OBVIOUS
    <3> QED BY <3>1, Ring
  <2> QED BY <1>1, <2>1, <2>2, <2>3
<1>5. p * d = (a * d) * K
  <2>1. (a * K) * d = a * (K * d) /\ K * d = d * K /\ a * (d * K) = (a * d) * K
    BY Ring
  <2> QED BY <1>1, <2>1
<1>6. b * q = (b * c) * K + b * d
  <2>1. PICK r \in Int : r = c * K
    OBVIOUS
  <2>2. (r + d) * b = r * b + d * b /\ (r + d) * b = b * (r + d)
        /\ r * b = b * r /\ d * b = b * d
    BY Ring
  <2>3. b * (c * K) = (b * c) * K
    BY Ring
  <2> QED BY <1>1, <2>1, <2>2, <2>3
<1>7. (a * d + b * c) * K = (a * d) * K + (b * c) * K
  <2>1. PICK r \in Int, s \in Int : r = a * d /\ s = b * c
    OBVIOUS
  <2> QED BY <2>1, Ring
<1>8. PICK t \in Int, u \in Int, v \in Int, w \in Int :
        t = (a * c) * (K * K) /\ u = (a * d) * K /\ v = (b * c) * K /\ w = b * d
  <2>1. PICK r \in Int, s \in Int, m \in Int, n \in Int :
          r = a * c /\ s = K * K /\ m = a * d /\ n = b * c
    OBVIOUS
  <2>2. r * s \in Int /\ m * K \in Int /\ n * K \in Int /\ b * d \in Int
    OBVIOUS
  <2> QED BY <2>1, <2>2
<1>9. (a * K + b) * (c * K + d) = (t + u) + (v + w)
  BY <1>1, <1>2, <1>3, <1>4, <1>5, <1>6, <1>8
<1>10. (a * c) * (K * K) + (a * d + b * c) * K + b * d = t + (u + v) + w
  BY <1>7, <1>8
<1> QED BY <1>9, <1>10

(* Multiples of a number leave no remainder.                                *)
LEMMA ModPlus ==
  ASSUME NEW K \in Nat \ {0}, NEW a \in Int, NEW q \in Int
  PROVE  (a + q * K) % K = a % K
<1>1. PICK s \in Int, t \in 0..(K - 1) : a = s * K + t /\ a % K = t
  BY Split
<1>2. (s + q) * K = s * K + q * K
  BY Ring
<1>3. a + q * K = (s + q) * K + t /\ s + q \in Int /\ a + q * K \in Int
  BY <1>1, <1>2
<1> QED BY <1>1, <1>3, DivIs

(* Four digits of base k make up a number.                                  *)
Digits == [0..3 -> Int]
OfDigits(k, K, x) == (x[0] * k + x[1]) * K + (x[2] * k + x[3])

(* The halves of the products of digits, and the sums of their columns.     *)
Halfs == [0..3 -> [0..3 -> Int]]
ProductsIn(k, x, y, lo, hi) ==
  \A i \in 0..3, j \in 0..3 : x[3 - i] * y[j] = hi[i][j] * k + lo[i][j]
Third(lo, hi) == lo[0][2] + hi[0][3] + lo[1][3]
Second(lo, hi) == lo[0][1] + hi[0][2] + lo[1][2] + hi[1][3] + lo[2][3]
First(lo, hi) ==
  lo[0][0] + hi[0][1] + lo[1][1] + hi[1][2] + lo[2][2] + hi[2][3] + lo[3][3]
ByColumns(k, K, lo, hi) ==
  First(lo, hi) * (k * K) + Second(lo, hi) * K + Third(lo, hi) * k + lo[0][3]

(* The product of two numbers is what its columns say, and what lies above  *)
(* them.                                                                    *)
Schoolbook(k, K, x, y, lo, hi) ==
  \E rest \in Int :
    OfDigits(k, K, x) * OfDigits(k, K, y) = rest * (K * K) + ByColumns(k, K, lo, hi)

LEMMA ColumnsAdd ==
  ASSUME NEW k \in Int, NEW K \in Int, K = k * k,
         NEW x \in Digits, NEW y \in Digits, NEW lo \in Halfs, NEW hi \in Halfs,
         ProductsIn(k, x, y, lo, hi)
  PROVE  Schoolbook(k, K, x, y, lo, hi)
<1>1. /\ \A i \in 0..3 : x[i] \in Int /\ y[i] \in Int
      /\ \A i \in 0..3, j \in 0..3 : lo[i][j] \in Int /\ hi[i][j] \in Int
  BY DEF Digits, Halfs
<1>2. PICK a \in Int, b \in Int, c \in Int, d \in Int :
        /\ a = x[0] * k + x[1] /\ b = x[2] * k + x[3]
        /\ c = y[0] * k + y[1] /\ d = y[2] * k + y[3]
  <2>1. ASSUME NEW u \in Int, NEW v \in Int PROVE u * k + v \in Int
    OBVIOUS
  <2>2. /\ x[0] \in Int /\ x[1] \in Int /\ x[2] \in Int /\ x[3] \in Int
        /\ y[0] \in Int /\ y[1] \in Int /\ y[2] \in Int /\ y[3] \in Int
    BY <1>1
  <2>3. /\ x[0] * k + x[1] \in Int /\ x[2] * k + x[3] \in Int
        /\ y[0] * k + y[1] \in Int /\ y[2] * k + y[3] \in Int
    BY <2>1, <2>2
  <2> QED BY <2>3, Zenon
<1>3. OfDigits(k, K, x) * OfDigits(k, K, y) = (a * c) * (K * K) + (a * d + b * c) * K + b * d
  BY <1>2, PairTimes DEF OfDigits
<1>4. /\ 0 \in 0..3 /\ 1 \in 0..3 /\ 2 \in 0..3 /\ 3 \in 0..3
      /\ 3 - 0 = 3 /\ 3 - 1 = 2 /\ 3 - 2 = 1 /\ 3 - 3 = 0
  OBVIOUS
<1> DEFINE p(i, j) == x[3 - i] * y[j]
<1>5. /\ p(0, 0) = x[3] * y[0] /\ p(0, 1) = x[3] * y[1] /\ p(0, 2) = x[3] * y[2]
      /\ p(0, 3) = x[3] * y[3] /\ p(1, 0) = x[2] * y[0] /\ p(1, 1) = x[2] * y[1]
      /\ p(1, 2) = x[2] * y[2] /\ p(1, 3) = x[2] * y[3] /\ p(2, 2) = x[1] * y[2]
      /\ p(2, 3) = x[1] * y[3] /\ p(3, 2) = x[0] * y[2] /\ p(3, 3) = x[0] * y[3]
  BY <1>4
<1>6. \A i \in 0..3, j \in 0..3 : p(i, j) \in Int /\ p(i, j) = hi[i][j] * k + lo[i][j]
  <2> TAKE i \in 0..3, j \in 0..3
  <2>1. PICK u \in Int, v \in Int : u = x[3 - i] /\ v = y[j]
    <3>1. 3 - i \in 0..3
      OBVIOUS
    <3> QED BY <1>1, <3>1
  <2> QED BY <2>1 DEF ProductsIn
<1>7. /\ a * d = p(3, 2) * K + (p(3, 3) + p(2, 2)) * k + p(2, 3)
      /\ b * c = p(1, 0) * K + (p(1, 1) + p(0, 0)) * k + p(0, 1)
      /\ b * d = p(1, 2) * K + (p(1, 3) + p(0, 2)) * k + p(0, 3)
  <2>1. ASSUME NEW i \in {0, 2}, NEW j \in {0, 2}
        PROVE  (x[i] * k + x[i + 1]) * (y[j] * k + y[j + 1])
                 = (x[i] * y[j]) * K + (x[i] * y[j + 1] + x[i + 1] * y[j]) * k
                   + x[i + 1] * y[j + 1]
    <3>1. i \in 0..3 /\ i + 1 \in 0..3 /\ j \in 0..3 /\ j + 1 \in 0..3
      OBVIOUS
    <3> QED BY <1>1, <3>1, PairTimes
  <2>2. /\ 0 \in {0, 2} /\ 2 \in {0, 2} /\ 0 + 1 = 1 /\ 2 + 1 = 3
    OBVIOUS
  <2> HIDE DEF p
  <2> QED BY <1>2, <1>5, <2>1, <2>2
<1> HIDE DEF p
<1>8. PICK H1 \in Int, H2 \in Int, H3 \in Int, L1 \in Int, L2 \in Int, L3 \in Int :
        /\ H1 = hi[1][3] + hi[0][2] /\ L1 = lo[1][3] + lo[0][2]
        /\ H2 = hi[2][3] + hi[0][1] + hi[1][2] /\ L2 = lo[2][3] + lo[0][1] + lo[1][2]
        /\ H3 = hi[3][3] + hi[2][2] + hi[1][1] + hi[0][0]
        /\ L3 = lo[3][3] + lo[2][2] + lo[1][1] + lo[0][0]
  <2>1. ASSUME NEW f \in Halfs
        PROVE  /\ f[1][3] + f[0][2] \in Int /\ f[2][3] + f[0][1] + f[1][2] \in Int
               /\ f[3][3] + f[2][2] + f[1][1] + f[0][0] \in Int
    <3>1. \A i \in 0..3, j \in 0..3 : f[i][j] \in Int
      BY DEF Halfs
    <3>2. /\ f[1][3] \in Int /\ f[0][2] \in Int /\ f[2][3] \in Int /\ f[0][1] \in Int
          /\ f[1][2] \in Int /\ f[3][3] \in Int /\ f[2][2] \in Int /\ f[1][1] \in Int
          /\ f[0][0] \in Int
      BY <1>4, <3>1
    <3> QED BY <3>2
  <2> QED BY <2>1, Zenon
<1>9. PICK S1 \in Int, S2 \in Int, S3 \in Int :
        /\ S1 = p(1, 3) + p(0, 2) /\ S2 = p(2, 3) + p(0, 1) + p(1, 2)
        /\ S3 = p(3, 3) + p(2, 2) + p(1, 1) + p(0, 0)
  BY <1>4, <1>6
<1>10. S1 = H1 * k + L1 /\ S2 = H2 * k + L2 /\ S3 = H3 * k + L3
  <2>1. ASSUME NEW i \in 0..3, NEW j \in 0..3
        PROVE  hi[i][j] * k \in Int /\ p(i, j) = hi[i][j] * k + lo[i][j]
    <3>1. hi[i][j] \in Int
      BY <1>1
    <3>2. \A u \in Int : u * k \in Int
      OBVIOUS
    <3> QED BY <1>6, <3>1, <3>2
  <2>2. S1 = H1 * k + L1
    <3>1. H1 * k = hi[1][3] * k + hi[0][2] * k
      BY <1>1, <1>4, <1>8, Ring
    <3> QED BY <1>1, <1>4, <1>8, <1>9, <2>1, <3>1
  <2>3. S2 = H2 * k + L2
    <3>1. H2 * k = hi[2][3] * k + hi[0][1] * k + hi[1][2] * k
      BY <1>1, <1>4, <1>8, RingSums
    <3> QED BY <1>1, <1>4, <1>8, <1>9, <2>1, <3>1
  <2>4. S3 = H3 * k + L3
    <3>1. H3 * k = hi[3][3] * k + hi[2][2] * k + hi[1][1] * k + hi[0][0] * k
      BY <1>1, <1>4, <1>8, RingSums
    <3>2. /\ p(3, 3) = hi[3][3] * k + lo[3][3] /\ p(2, 2) = hi[2][2] * k + lo[2][2]
          /\ p(1, 1) = hi[1][1] * k + lo[1][1] /\ p(0, 0) = hi[0][0] * k + lo[0][0]
      BY <1>4, <2>1
    <3>3. /\ hi[3][3] * k \in Int /\ hi[2][2] * k \in Int /\ hi[1][1] * k \in Int
          /\ hi[0][0] * k \in Int /\ lo[3][3] \in Int /\ lo[2][2] \in Int
          /\ lo[1][1] \in Int /\ lo[0][0] \in Int
      BY <1>1, <1>4, <2>1
    <3> QED BY <1>8, <1>9, <3>1, <3>2, <3>3
  <2> QED BY <2>2, <2>3, <2>4
<1>11. PICK m \in Int, Q \in Int : m = k * K /\ Q = K * K /\ k * m = Q
  <2>1. k * (k * K) = (k * k) * K /\ k * K \in Int
    BY Ring
  <2> QED BY <2>1
<1>12. PICK R \in Int :
         (a * c) * Q + (a * d + b * c) * K + b * d = R * Q + S3 * m + S2 * K + S1 * k + p(0, 3)
  <2>1. PICK e \in Int, f \in Int, ac \in Int, s \in Int, t \in Int, u \in Int :
          /\ e = p(3, 2) /\ f = p(1, 0) /\ ac = a * c
          /\ s = p(3, 3) + p(2, 2) /\ t = p(1, 1) + p(0, 0) /\ u = p(2, 3) + p(0, 1)
    <3>1. /\ p(3, 2) \in Int /\ p(1, 0) \in Int /\ p(3, 3) \in Int /\ p(2, 2) \in Int
          /\ p(1, 1) \in Int /\ p(0, 0) \in Int /\ p(2, 3) \in Int /\ p(0, 1) \in Int
      BY <1>4, <1>6
    <3>2. /\ a * c \in Int /\ p(3, 3) + p(2, 2) \in Int /\ p(1, 1) + p(0, 0) \in Int
          /\ p(2, 3) + p(0, 1) \in Int
      BY <3>1
    <3> QED BY <3>1, <3>2, Zenon
  <2>2. a * d + b * c = (e * K + f * K) + (s * k + t * k) + u
    BY <1>4, <1>6, <1>7, <2>1
  <2>3. e * K + f * K = (e + f) * K /\ s * k + t * k = S3 * k
    <3>1. S3 = s + t
      BY <1>4, <1>6, <1>9, <2>1
    <3> QED BY <3>1, Ring
  <2>4. (a * d + b * c) * K = (e + f) * Q + S3 * m + u * K
    <3>1. PICK g \in Int, n \in Int : g = (e + f) * K /\ n = S3 * k
      OBVIOUS
    <3>2. a * d + b * c = g + n + u
      BY <2>2, <2>3, <3>1
    <3>3. (g + n + u) * K = g * K + n * K + u * K
      BY RingSums
    <3>4. ((e + f) * K) * K = (e + f) * (K * K) /\ (S3 * k) * K = S3 * (k * K)
      BY Ring
    <3> QED BY <1>11, <3>1, <3>2, <3>3, <3>4
  <2>5. b * d = p(1, 2) * K + S1 * k + p(0, 3)
    BY <1>7, <1>9
  <2>6. u * K + p(1, 2) * K = S2 * K
    <3>1. PICK w \in Int : w = p(1, 2) /\ S2 = u + w
      BY <1>4, <1>6, <1>9, <2>1
    <3>2. (u + w) * K = u * K + w * K
      BY Ring
    <3> QED BY <3>1, <3>2
  <2>7. ac * Q + (e + f) * Q = (ac + (e + f)) * Q
    BY Ring
  <2>8. PICK R \in Int, RQ \in Int, v \in Int, A \in Int, B \in Int, C \in Int, D \in Int :
          /\ R = ac + (e + f) /\ RQ = R * Q /\ v = p(0, 3)
          /\ A = S3 * m /\ B = u * K /\ C = p(1, 2) * K /\ D = S1 * k
    <3>1. p(0, 3) \in Int /\ p(1, 2) \in Int
      BY <1>4, <1>6
    <3>2. \A i \in Int, j \in Int : i * j \in Int
      OBVIOUS
    <3> QED BY <3>1, <3>2
  <2>9. PICK acQ \in Int, efQ \in Int : acQ = ac * Q /\ efQ = (e + f) * Q /\ acQ + efQ = RQ
    BY <2>7, <2>8
  <2>10. (a * c) * Q + (a * d + b * c) * K + b * d = acQ + (efQ + A + B) + (C + D + v)
    BY <2>1, <2>4, <2>5, <2>8, <2>9
  <2>11. R * Q + S3 * m + S2 * K + S1 * k + p(0, 3) = RQ + A + (B + C) + D + v
    BY <2>6, <2>8
  <2>12. acQ + (efQ + A + B) + (C + D + v) = RQ + A + (B + C) + D + v
    BY <2>9
  <2>13. (a * c) * Q + (a * d + b * c) * K + b * d = R * Q + S3 * m + S2 * K + S1 * k + p(0, 3)
    BY <2>10, <2>11, <2>12, Zenon
  <2> QED BY <2>13, Zenon
<1>13. S3 * m = H3 * Q + L3 * m /\ S2 * K = H2 * m + L2 * K /\ S1 * k = H1 * K + L1 * k
  <2>1. ASSUME NEW H \in Int, NEW L \in Int, NEW n \in Int
        PROVE  (H * k + L) * n = H * (k * n) + L * n
    <3>1. PICK g \in Int : g = H * k
      OBVIOUS
    <3> QED BY <3>1, Ring
  <2> QED BY <1>10, <1>11, <2>1
<1>14. /\ First(lo, hi) = L3 + H2 /\ Second(lo, hi) = L2 + H1 /\ Third(lo, hi) = L1 + hi[0][3]
       /\ p(0, 3) = hi[0][3] * k + lo[0][3]
  BY <1>1, <1>4, <1>6, <1>8 DEF First, Second, Third
<1>15. /\ (L3 + H2) * m = L3 * m + H2 * m /\ (L2 + H1) * K = L2 * K + H1 * K
       /\ (L1 + hi[0][3]) * k = L1 * k + hi[0][3] * k
       /\ (R + H3) * Q = R * Q + H3 * Q
  BY <1>1, <1>4, Ring
<1>16. R * Q + S3 * m + S2 * K + S1 * k + p(0, 3) = (R + H3) * Q + ByColumns(k, K, lo, hi)
  <2>1. PICK RQ \in Int, HQ \in Int, Lm \in Int, Hm \in Int, LK \in Int, HK \in Int,
             Lk \in Int, hk \in Int, z \in Int :
          /\ RQ = R * Q /\ HQ = H3 * Q /\ Lm = L3 * m /\ Hm = H2 * m /\ LK = L2 * K
          /\ HK = H1 * K /\ Lk = L1 * k /\ hk = hi[0][3] * k /\ z = lo[0][3]
    <3>1. hi[0][3] \in Int /\ lo[0][3] \in Int
      BY <1>1, <1>4
    <3>2. \A i \in Int, j \in Int : i * j \in Int
      OBVIOUS
    <3> QED BY <3>1, <3>2
  <2>2. ByColumns(k, K, lo, hi) = (Lm + Hm) + (LK + HK) + (Lk + hk) + z
    BY <1>11, <1>14, <1>15, <2>1 DEF ByColumns
  <2>3. R * Q + S3 * m + S2 * K + S1 * k + p(0, 3) = RQ + (HQ + Lm) + (Hm + LK) + (HK + Lk) + (hk + z)
    BY <1>13, <1>14, <2>1
  <2>4. (R + H3) * Q = RQ + HQ
    BY <1>15, <2>1
  <2> QED BY <2>2, <2>3, <2>4
<1>17. R + H3 \in Int
  OBVIOUS
<1> QED BY <1>3, <1>11, <1>12, <1>16, <1>17 DEF Schoolbook

-----------------------------------------------------------------------------
(* Halves of a product of two digits are digits, and three digits add up to *)
(* less than their products can be.                                         *)
LEMMA DigitProducts ==
  ASSUME NEW h \in Nat \ {0}, NEW a \in 0..(h - 1), NEW b \in 0..(h - 1)
  PROVE  /\ a * b \in 0..(h * h - 1)
         /\ (a * b) \div h \in 0..(h - 1) /\ (a * b) % h \in 0..(h - 1)
         /\ a * b = ((a * b) \div h) * h + ((a * b) % h)
<1>1. PICK p \in Nat : p = a * b
  OBVIOUS
<1>2. p <= h * h - h
  <2>1. a * b <= h * b /\ h * b = b * h
    BY Grow
  <2>2. b * h <= (h - 1) * h
    BY Grow
  <2>3. (h - 1) * h = h * h - h
    <3>1. (h - 1) * h = h * h - 1 * h /\ 1 * h = h
      BY Ring
    <3> QED BY <3>1
  <2>4. b * h \in Int /\ h * h \in Int
    OBVIOUS
  <2> QED BY <1>1, <2>1, <2>2, <2>3, <2>4
<1>3. PICK q \in Int, r \in 0..(h - 1) : q = p \div h /\ r = p % h /\ p = q * h + r
  <2>1. /\ p \div h \in Int /\ p % h \in 0..(h - 1)
        /\ p = (p \div h) * h + (p % h)
    BY Split
  <2> QED BY <2>1, Zenon
<1>4. q < h
  <2> SUFFICES ASSUME h <= q PROVE FALSE
    OBVIOUS
  <2>1. h * h <= q * h /\ h * h \in Int /\ q * h \in Int
    BY Grow
  <2> QED BY <1>2, <1>3, <2>1
<1>5. q >= 0
  BY <1>1, <1>3
<1> QED BY <1>1, <1>2, <1>3, <1>4, <1>5

LEMMA ThreeDigits ==
  ASSUME NEW h \in Nat, h >= 2,
         NEW a \in 0..(h - 1), NEW b \in 0..(h - 1), NEW c \in 0..(h - 1)
  PROVE  a + b + c \in 0..(h * h - 1)
<1>1. CASE h = 2
  BY <1>1
<1>2. CASE h >= 3
  <2>1. 3 * h <= h * h /\ h * h \in Int
    BY <1>2, Grow
  <2> QED BY <2>1
<1> QED BY <1>1, <1>2

(* A half word moved up by half a word.                                     *)
LEMMA UpByHalf ==
  ASSUME NEW h \in Nat \ {0}, NEW K \in Nat \ {0}, K = h * h, NEW t \in 0..(K - 1)
  PROVE  /\ t \div h \in 0..(h - 1)
         /\ (t * h) % K = (t % h) * h
         /\ t * h = (t \div h) * K + (t % h) * h
<1>1. PICK q \in Int, r \in 0..(h - 1) : q = t \div h /\ r = t % h /\ t = q * h + r
  <2>1. /\ t \div h \in Int /\ t % h \in 0..(h - 1)
        /\ t = (t \div h) * h + (t % h)
    BY Split
  <2> QED BY <2>1, Zenon
<1>2. q < h
  <2> SUFFICES ASSUME h <= q PROVE FALSE
    OBVIOUS
  <2>1. h * h <= q * h /\ h * h \in Int /\ q * h \in Int
    BY Grow
  <2> QED BY <1>1, <2>1
<1>3. q >= 0
  BY <1>1
<1>4. t * h = q * K + r * h
  <2>1. PICK g \in Int : g = q * h
    OBVIOUS
  <2>2. (g + r) * h = g * h + r * h /\ (q * h) * h = q * (h * h)
    BY Ring
  <2> QED BY <1>1, <2>1, <2>2
<1>5. r * h \in 0..(K - 1)
  <2>1. r * h <= (h - 1) * h /\ (h - 1) * h = h * h - 1 * h /\ 1 * h = h
    BY Grow, Ring
  <2>2. r * h \in Nat
    OBVIOUS
  <2> QED BY <2>1, <2>2
<1>6. (t * h) % K = r * h
  <2>1. t * h \in Int
    OBVIOUS
  <2> QED BY <1>4, <1>5, <2>1, DivIs
<1> QED BY <1>1, <1>2, <1>3, <1>4, <1>6

(* A column that is cut off to a word loses only what is cut off above.     *)
CutAlike(h, K, L, first, second, low) ==
  ((((first % K) * h) % K) * K + (second % K) * K + low) % L
    = (first * (h * K) + second * K + low) % L

LEMMA ColumnsCut ==
  ASSUME NEW h \in Nat \ {0}, NEW K \in Nat \ {0}, NEW L \in Nat \ {0}, L = K * K,
         NEW first \in Int, NEW second \in Int, NEW low \in Int
  PROVE  CutAlike(h, K, L, first, second, low)
<1>1. PICK p \in Int, f \in 0..(K - 1) : first = p * K + f /\ f = first % K
  BY Split
<1>2. PICK q \in Int, s \in 0..(K - 1) : second = q * K + s /\ s = second % K
  BY Split
<1>3. PICK r \in Int, e \in 0..(K - 1) : f * h = r * K + e /\ e = (f * h) % K
  <2>1. f * h \in Int
    OBVIOUS
  <2> QED BY <2>1, Split
<1>4. first * (h * K) = ((p * h) + r) * L + e * K
  <2>1. first * h = (p * h) * K + r * K + e
    <3>1. PICK g \in Int : g = p * K
      OBVIOUS
    <3>2. (g + f) * h = g * h + f * h
      BY Ring
    <3>3. (p * K) * h = p * (K * h) /\ p * (h * K) = (p * h) * K /\ K * h = h * K
      BY Ring
    <3>4. g * h \in Int /\ f * h \in Int /\ r * K \in Int
      OBVIOUS
    <3> QED BY <1>1, <1>3, <3>1, <3>2, <3>3, <3>4
  <2>2. PICK m \in Int : m = p * h
    OBVIOUS
  <2>3. (m * K + r * K + e) * K = (m * K) * K + (r * K) * K + e * K
    <3>1. PICK u \in Int, v \in Int : u = m * K /\ v = r * K
      OBVIOUS
    <3>2. (u + v + e) * K = u * K + v * K + e * K
      BY RingSums
    <3> QED BY <3>1, <3>2
  <2>4. (m * K) * K = m * (K * K) /\ (r * K) * K = r * (K * K) /\ (m + r) * L = m * L + r * L
    BY Ring
  <2>5. first * (h * K) = (first * h) * K
    BY Ring
  <2> QED BY <2>1, <2>2, <2>3, <2>4, <2>5
<1>5. second * K = q * L + s * K
  <2>1. PICK u \in Int : u = q * K
    OBVIOUS
  <2>2. (u + s) * K = u * K + s * K /\ (q * K) * K = q * (K * K)
    BY Ring
  <2> QED BY <1>2, <2>1, <2>2
<1>6. PICK n \in Int, E \in Int, S \in Int : n = (p * h) + r /\ E = e * K /\ S = s * K
  <2>1. p * h \in Int /\ e * K \in Int /\ s * K \in Int
    OBVIOUS
  <2>2. (p * h) + r \in Int
    BY <2>1
  <2> QED BY <2>1, <2>2, Zenon
<1>7. (n + q) * L = n * L + q * L /\ n * L \in Int /\ q * L \in Int
  BY Ring
<1>8. first * (h * K) + second * K + low = (E + S + low) + (n + q) * L
  BY <1>4, <1>5, <1>6, <1>7
<1>9. E + S + low \in Int /\ n + q \in Int
  OBVIOUS
<1>10. ((E + S + low) + (n + q) * L) % L = (E + S + low) % L
  BY <1>9, ModPlus
<1> QED BY <1>1, <1>2, <1>3, <1>6, <1>8, <1>10 DEF CutAlike

-----------------------------------------------------------------------------
(* A remainder may be taken before it is added.                             *)
LEMMA ModBefore ==
  ASSUME NEW K \in Nat \ {0}, NEW a \in Int, NEW c \in Int
  PROVE  (c + (a % K)) % K = (c + a) % K
<1>1. ((a % K) + c) % K = (a + c) % K
  BY ModAgain
<1>2. (a % K) + c = c + (a % K) /\ a + c = c + a
  <2>1. a % K \in Int
    OBVIOUS
  <2> QED BY <2>1
<1> QED BY <1>1, <1>2, Zenon

(* Numbers that differ by less than a modulus differ modulo it.             *)
LEMMA ModApart ==
  ASSUME NEW M \in Nat \ {0}, NEW P \in Int, NEW D \in 1..(M - 1)
  PROVE  (P + D) % M # P % M
<1> SUFFICES ASSUME (P + D) % M = P % M PROVE FALSE
  OBVIOUS
<1>1. PICK q \in Int, r \in 0..(M - 1) : P = q * M + r /\ r = P % M
  BY Split
<1>2. PICK s \in Int : P + D = s * M + r
  <2>1. P + D \in Int
    OBVIOUS
  <2>2. P + D = ((P + D) \div M) * M + ((P + D) % M) /\ (P + D) \div M \in Int
    BY <2>1, Split
  <2> QED BY <1>1, <2>2
<1>3. PICK n \in Int : n = s - q
  OBVIOUS
<1>4. D = n * M
  <2>1. (s - q) * M = s * M - q * M
    BY Ring
  <2>2. s * M \in Int /\ q * M \in Int
    OBVIOUS
  <2> QED BY <1>1, <1>2, <1>3, <2>1, <2>2
<1>5. CASE n <= 0
  <2>1. n * M <= 0 * M /\ 0 * M = 0
    BY <1>5, Grow
  <2> QED BY <1>4, <2>1
<1>6. CASE n >= 1
  <2>1. 1 * M <= n * M /\ 1 * M = M
    BY <1>6, Grow
  <2> QED BY <1>4, <2>1
<1> QED BY <1>5, <1>6

(* A column that is moved up by one place, its carry by one too many, comes *)
(* to the same only if there is none.                                       *)
TooHigh(K, L, t, p) ==
  (p + ((t \div K) * (K * L) + (t % K) * K)) % (L * L) = (p + t * K) % (L * L) <=> t < K

LEMMA CarryTooHigh ==
  ASSUME NEW K \in Nat, K >= 2, NEW L \in Nat \ {0}, L = K * K,
         NEW t \in 0..(3 * (K - 1)), NEW p \in Int
  PROVE  TooHigh(K, L, t, p)
<1>1. PICK M \in Nat \ {0} : M = L * L
  OBVIOUS
<1>2. PICK u \in Int, r \in 0..(K - 1) : u = t \div K /\ r = t % K /\ t = u * K + r
  <2>1. t \in Int /\ K \in Nat \ {0}
    OBVIOUS
  <2>2. /\ t \div K \in Int /\ t % K \in 0..(K - 1)
        /\ t = (t \div K) * K + (t % K)
    BY <2>1, Split
  <2> QED BY <2>2, Zenon
<1>3. u >= 0
  <2> SUFFICES ASSUME u <= -1 PROVE FALSE
    OBVIOUS
  <2>1. u * K <= (-1) * K /\ (-1) * K = -K
    BY Grow
  <2>2. u * K \in Int
    OBVIOUS
  <2> QED BY <1>2, <2>1, <2>2
<1>4. u <= K - 1 /\ u <= 2
  <2>1. u <= 2
    <3> SUFFICES ASSUME 3 <= u PROVE FALSE
      OBVIOUS
    <3>1. 3 * K <= u * K
      BY Grow
    <3>2. u * K \in Int
      OBVIOUS
    <3> QED BY <1>2, <3>1, <3>2
  <2>2. CASE K = 2
    BY <1>2, <2>1, <2>2
  <2>3. CASE K >= 3
    BY <2>1, <2>3
  <2> QED BY <2>1, <2>2, <2>3
<1>5. t * K = u * L + r * K
  <2>1. PICK g \in Int : g = u * K
    OBVIOUS
  <2>2. (g + r) * K = g * K + r * K /\ (u * K) * K = u * (K * K)
    BY Ring
  <2> QED BY <1>2, <2>1, <2>2
<1>6. PICK D \in Int : D = (u * (K - 1)) * L /\ u * (K * L) = u * L + D
  <2>1. PICK g \in Int : g = u * K
    OBVIOUS
  <2>2. (u * K) * L = u * (K * L)
    BY Ring
  <2>3. (g - u) * L = g * L - u * L
    BY Ring
  <2>4. u * (K - 1) = g - u
    <3>1. (K - 1) * u = K * u - 1 * u /\ 1 * u = u /\ K * u = u * K /\ (K - 1) * u = u * (K - 1)
      BY Ring
    <3> QED BY <2>1, <3>1
  <2>5. g * L \in Int /\ u * L \in Int
    OBVIOUS
  <2> QED BY <2>1, <2>2, <2>3, <2>4, <2>5
<1>7. PICK P \in Int : P = p + t * K
  OBVIOUS
<1>8. p + (u * (K * L) + r * K) = P + D
  <2>1. u * L \in Int /\ r * K \in Int
    OBVIOUS
  <2> QED BY <1>5, <1>6, <1>7, <2>1
<1>9. CASE u = 0
  <2>1. 0 * (K - 1) = 0 /\ 0 * L = 0 /\ 0 * K = 0
    OBVIOUS
  <2>2. D = 0 /\ t < K
    BY <1>2, <1>6, <1>9, <2>1
  <2>3. P + D = P
    BY <2>2
  <2> QED BY <1>2, <1>7, <1>8, <2>2, <2>3 DEF TooHigh
<1>10. CASE u >= 1
  <2>1. ~(t < K)
    <3>1. 1 * K <= u * K /\ 1 * K = K
      BY <1>10, Grow
    <3>2. u * K \in Int
      OBVIOUS
    <3> QED BY <1>2, <3>1, <3>2
  <2>2. PICK g \in Int : g = u * (K - 1)
    OBVIOUS
  <2>3. g >= 1 /\ g <= L - 1
    <3>1. 1 * (K - 1) <= u * (K - 1) /\ 1 * (K - 1) = K - 1
      BY <1>10, Grow
    <3>2. u * (K - 1) <= (K - 1) * (K - 1)
      BY <1>4, Grow
    <3>3. (K - 1) * (K - 1) = L - 2 * K + 1
      <4>1. (K - 1) * (K - 1) = K * (K - 1) - 1 * (K - 1)
        BY Ring
      <4>2. K * (K - 1) = (K - 1) * K /\ (K - 1) * K = K * K - 1 * K
        BY Ring
      <4> QED BY <4>1, <4>2
    <3> QED BY <2>2, <3>1, <3>2, <3>3
  <2>4. D \in 1..(M - 1)
    <3>1. 1 * L <= g * L /\ g * L <= (L - 1) * L /\ 1 * L = L
      BY <2>3, Grow
    <3>2. (L - 1) * L = L * L - 1 * L
      BY Ring
    <3>3. D = g * L
      BY <1>6, <2>2
    <3> QED BY <1>1, <3>1, <3>2, <3>3
  <2>5. (P + D) % M # P % M
    BY <1>1, <2>4, ModApart
  <2> QED BY <1>1, <1>2, <1>7, <1>8, <2>1, <2>5 DEF TooHigh
<1> QED BY <1>3, <1>9, <1>10

-----------------------------------------------------------------------------
(* A word has at least one bit.                                             *)
LEMMA WordBitsIs == WordBits \in Nat \ {0} /\ 2 * WordBits \in Nat /\ 4 * WordBits \in Nat
<1>1. ByteBits \in Nat \ {0} /\ WordBytes \in Nat \ {0}
  BY WordAssumption
<1>2. \A u, v \in Nat \ {0} : u * v \in Nat \ {0}
  OBVIOUS
<1>3. WordBits \in Nat \ {0}
  BY <1>1, <1>2 DEF WordBits
<1> QED BY <1>3

(* The powers of two are what their definition says.                        *)
LEMMA Pow2Is ==
  /\ Pow2 \in [0..(4 * WordBits) -> Nat \ {0}] /\ Pow2[0] = 1
  /\ \A n \in 1..(4 * WordBits) : Pow2[n] = 2 * Pow2[n - 1]
<1>1. PICK N \in Nat : N = 4 * WordBits
  BY WordBitsIs
<1> DEFINE Fix(f) == f = [n \in 0..N |-> IF n = 0 THEN 1 ELSE 2 * f[n - 1]]
           none == [n \in 1..N |-> 0]
<1>2. PICK p : Builds(N, 2, 1, none, p)
  <2>1. none \in [1..N -> Int]
    OBVIOUS
  <2> HIDE DEF none
  <2> QED BY <2>1, Built
<1>3. /\ p \in [0..N -> Int] /\ p[0] = 1
      /\ \A n \in 1..N : p[n] = 2 * p[n - 1]
  <2>1. /\ p \in [0..N -> Int] /\ p[0] = 1
        /\ \A n \in 1..N : p[n] = p[n - 1] * 2 + none[n]
    BY <1>2 DEF Builds
  <2>2. \A n \in 1..N : none[n] = 0 /\ p[n - 1] \in Int
    BY <2>1
  <2> HIDE DEF none
  <2>3. \A n \in 1..N : p[n] = 2 * p[n - 1]
    <3> TAKE n \in 1..N
    <3>1. PICK u \in Int : u = p[n - 1]
      BY <2>2
    <3>2. u * 2 + 0 = 2 * u
      OBVIOUS
    <3> QED BY <2>1, <2>2, <3>1, <3>2
  <2> QED BY <2>1, <2>3
<1>4. Fix(p)
  BY <1>3
<1>5. Pow2 = CHOOSE f : Fix(f)
  BY <1>1 DEF Pow2
<1>6. Fix(Pow2)
  <2> HIDE DEF Fix
  <2> QED BY <1>4, <1>5
<1>7. Pow2[0] = 1 /\ \A n \in 1..N : Pow2[n] = 2 * Pow2[n - 1]
  BY <1>6
<1>8. \A n \in 0..N : Pow2[n] \in Nat \ {0}
  <2> DEFINE Bad == {n \in 0..N : Pow2[n] \notin Nat \ {0}}
  <2>1. SUFFICES ASSUME Bad # {} PROVE FALSE
    OBVIOUS
  <2>2. PICK n \in Bad : \A m \in Bad : n <= m
    <3>1. Bad \in SUBSET Nat
      OBVIOUS
    <3> HIDE DEF Bad
    <3> QED BY <2>1, <3>1, Least
  <2>3. n # 0 /\ n \in 0..N
    BY <1>7, <2>2
  <2>4. n - 1 \in 0..N /\ n \in 1..N /\ n - 1 \notin Bad
    BY <2>2, <2>3
  <2>5. Pow2[n - 1] \in Nat \ {0} /\ Pow2[n] = 2 * Pow2[n - 1]
    BY <1>7, <2>4
  <2> QED BY <2>2, <2>5
<1>9. Pow2 = [n \in 0..N |-> IF n = 0 THEN 1 ELSE 2 * Pow2[n - 1]]
  BY <1>6
<1>10. DOMAIN Pow2 = 0..N /\ Pow2 = [n \in 0..N |-> Pow2[n]]
  <2>1. PICK q : q = Pow2
    OBVIOUS
  <2>2. q = [n \in 0..N |-> IF n = 0 THEN 1 ELSE 2 * q[n - 1]]
    BY <1>9, <2>1
  <2>3. DOMAIN q = 0..N /\ q = [n \in 0..N |-> q[n]]
    BY <2>2
  <2> QED BY <2>1, <2>3
<1>11. Pow2 \in [0..N -> Nat \ {0}]
  BY <1>8, <1>10
<1> QED BY <1>1, <1>7, <1>11

(* They are positive.                                                       *)
LEMMA Pow2Nat ==
  ASSUME NEW n \in 0..(4 * WordBits)
  PROVE  Pow2[n] \in Nat \ {0}
BY Pow2Is

(* Exponents add up.                                                        *)
LEMMA Pow2Adds ==
  ASSUME NEW m \in Nat, NEW n \in Nat, m + n <= 4 * WordBits
  PROVE  Pow2[m + n] = Pow2[m] * Pow2[n]
<1>1. PICK N \in Nat : N = 4 * WordBits
  BY WordBitsIs
<1>2. /\ \A k \in 0..N : Pow2[k] \in Nat /\ Pow2[0] = 1
      /\ \A k \in 1..N : Pow2[k] = 2 * Pow2[k - 1]
  BY <1>1, Pow2Is
<1> DEFINE Bad == {k \in 0..n : Pow2[m + k] # Pow2[m] * Pow2[k]}
<1>3. SUFFICES ASSUME Bad # {} PROVE FALSE
  OBVIOUS
<1>4. PICK k \in Bad : \A j \in Bad : k <= j
  <2>1. Bad \in SUBSET Nat
    OBVIOUS
  <2> HIDE DEF Bad
  <2> QED BY <1>3, <2>1, Least
<1>5. k # 0
  <2>1. m \in 0..N /\ m + 0 = m
    BY <1>1
  <2>2. Pow2[m] \in Nat /\ Pow2[0] = 1
    BY <1>2, <2>1
  <2>3. Pow2[m + 0] = Pow2[m] * Pow2[0]
    BY <2>1, <2>2
  <2> QED BY <1>4, <2>3
<1>6. /\ k \in 1..n /\ k - 1 \in 0..n /\ k - 1 \notin Bad /\ k \in 1..N
      /\ m + k \in 1..N /\ (m + k) - 1 = m + (k - 1) /\ m \in 0..N /\ k - 1 \in 0..N
  BY <1>1, <1>4, <1>5
<1>7. /\ Pow2[m + (k - 1)] = Pow2[m] * Pow2[k - 1]
      /\ Pow2[m + k] = 2 * Pow2[(m + k) - 1] /\ Pow2[k] = 2 * Pow2[k - 1]
      /\ Pow2[m] \in Nat /\ Pow2[k - 1] \in Nat
  BY <1>2, <1>6
<1>8. PICK u \in Nat, v \in Nat : u = Pow2[m] /\ v = Pow2[k - 1]
  BY <1>7
<1>9. 2 * (u * v) = u * (2 * v)
  OBVIOUS
<1>10. Pow2[m + k] = Pow2[m] * Pow2[k]
  BY <1>6, <1>7, <1>8, <1>9, Zenon
<1> QED BY <1>4, <1>10

(* They grow.                                                               *)
LEMMA Pow2Grows ==
  ASSUME NEW m \in 0..(4 * WordBits), NEW n \in 0..(4 * WordBits), m < n
  PROVE  2 * Pow2[m] <= Pow2[n] /\ Pow2[m] < Pow2[n]
<1>1. /\ n - m - 1 \in Nat /\ (m + 1) + (n - m - 1) = n /\ m + 1 \in 1..(4 * WordBits)
      /\ (m + 1) - 1 = m /\ n - m - 1 \in 0..(4 * WordBits) /\ m + 1 \in Nat
  BY WordBitsIs
<1>2. PICK u \in Nat \ {0}, v \in Nat \ {0}, w \in Nat \ {0} :
        u = Pow2[m] /\ v = Pow2[m + 1] /\ w = Pow2[n - m - 1]
  BY <1>1, Pow2Nat, WordBitsIs
<1>3. v = 2 * u
  BY <1>1, <1>2, Pow2Is
<1>4. Pow2[n] = v * w
  <2>1. (m + 1) + (n - m - 1) <= 4 * WordBits
    BY <1>1
  <2>2. Pow2[(m + 1) + (n - m - 1)] = Pow2[m + 1] * Pow2[n - m - 1]
    BY <1>1, <2>1, Pow2Adds
  <2> QED BY <1>1, <1>2, <2>2
<1>5. v * w >= v
  BY Grow
<1> QED BY <1>2, <1>3, <1>4, <1>5

-----------------------------------------------------------------------------
(* How many numbers a word, and a number of two words, can hold.            *)
WordSpan == Pow2[WordBits]
LongSpan == Pow2[2 * WordBits]

(* How many words, and numbers of two and of four words, there are.         *)
LEMMA Spans ==
  /\ WordSpan \in Nat \ {0} /\ LongSpan \in Nat \ {0}
  /\ LongSpan = WordSpan * WordSpan
  /\ Pow2[4 * WordBits] = LongSpan * LongSpan
  /\ Word = 0..(WordSpan - 1) /\ WordSpan >= 2
<1>1. PICK w \in Nat \ {0} : w = WordBits
  BY WordBitsIs
<1>2. /\ w \in 0..(4 * WordBits) /\ 2 * w \in 0..(4 * WordBits) /\ w + w = 2 * w
      /\ 2 * w + 2 * w = 4 * w /\ 2 * w <= 4 * WordBits /\ 2 * w \in Nat /\ 0 < w
      /\ 4 * w <= 4 * WordBits /\ 0 \in 0..(4 * WordBits)
  BY <1>1
<1>3. Pow2[w] \in Nat \ {0} /\ Pow2[2 * w] \in Nat \ {0} /\ 2 * Pow2[0] <= Pow2[w]
  BY <1>2, Pow2Nat, Pow2Grows
<1>4. Pow2[w + w] = Pow2[w] * Pow2[w] /\ Pow2[2 * w + 2 * w] = Pow2[2 * w] * Pow2[2 * w]
  <2>1. w + w <= 4 * WordBits /\ 2 * w + 2 * w <= 4 * WordBits
    BY <1>2
  <2> QED BY <1>2, <2>1, Pow2Adds
<1>5. Pow2[0] = 1
  BY Pow2Is
<1> QED BY <1>1, <1>2, <1>3, <1>4, <1>5 DEF WordSpan, LongSpan, Word

(* A number of two words.                                                   *)
LEMMA Number128Is ==
  ASSUME NEW x \in Number128
  PROVE  /\ upper(x) \in 0..(WordSpan - 1) /\ lower(x) \in 0..(WordSpan - 1)
         /\ x = <<upper(x), lower(x)>>
         /\ Value128(x) = upper(x) * WordSpan + lower(x)
         /\ Value128(x) \in 0..(LongSpan - 1)
<1>1. /\ upper(x) \in 0..(WordSpan - 1) /\ lower(x) \in 0..(WordSpan - 1)
      /\ x = <<upper(x), lower(x)>>
  BY Spans DEF Number128, upper, lower
<1>2. Value128(x) = upper(x) * WordSpan + lower(x)
  BY DEF Value128, WordSpan
<1>3. upper(x) * WordSpan + lower(x) \in 0..(WordSpan * WordSpan - 1)
  BY <1>1, Spans, PairBelow
<1> QED BY <1>1, <1>2, <1>3, Spans

(* A pair of words is a 128-bit number.                                     *)
LEMMA Make128 ==
  ASSUME NEW a \in 0..(WordSpan - 1), NEW b \in 0..(WordSpan - 1)
  PROVE  /\ <<a, b>> \in Number128
         /\ upper(<<a, b>>) = a /\ lower(<<a, b>>) = b
         /\ Value128(<<a, b>>) = a * WordSpan + b
BY Spans DEF Number128, upper, lower, Value128, WordSpan

(* A 256-bit number and its halves.                                         *)
LEMMA Number256Is ==
  ASSUME NEW x \in Number256
  PROVE  /\ upper(x) \in Number128 /\ lower(x) \in Number128
         /\ x = <<upper(x), lower(x)>>
         /\ Value128(upper(x)) \in 0..(LongSpan - 1)
         /\ Value128(lower(x)) \in 0..(LongSpan - 1)
         /\ Value256(x) = Value128(upper(x)) * LongSpan + Value128(lower(x))
         /\ Value256(x) \in 0..(Pow2[4 * WordBits] - 1)
<1>1. upper(x) \in Number128 /\ lower(x) \in Number128 /\ x = <<upper(x), lower(x)>>
  BY DEF Number256, upper, lower
<1>2. Value256(x) = Value128(upper(x)) * LongSpan + Value128(lower(x))
  BY DEF Value256, LongSpan
<1>3. /\ Value128(upper(x)) \in 0..(LongSpan - 1)
      /\ Value128(lower(x)) \in 0..(LongSpan - 1)
  BY <1>1, Number128Is
<1>4. Value128(upper(x)) * LongSpan + Value128(lower(x)) \in 0..(LongSpan * LongSpan - 1)
  BY <1>3, Spans, PairBelow
<1> QED BY <1>1, <1>2, <1>3, <1>4, Spans

(* A pair of halves is a 256-bit number.                                    *)
LEMMA Make256 ==
  ASSUME NEW a \in Number128, NEW b \in Number128
  PROVE  /\ <<a, b>> \in Number256
         /\ upper(<<a, b>>) = a /\ lower(<<a, b>>) = b
         /\ Value256(<<a, b>>) = Value128(a) * LongSpan + Value128(b)
BY DEF Number256, upper, lower, Value256, LongSpan

(* Zero, and one in the lower half.                                         *)
LEMMA Clear128 ==
  /\ clear128 \in Number128 /\ Value128(clear128) = 0
  /\ <<0, 1>> \in Number128 /\ Value128(<<0, 1>>) = 1
<1>1. 0 \in 0..(WordSpan - 1) /\ 1 \in 0..(WordSpan - 1) /\ 0 * WordSpan = 0
  BY Spans
<1>2. <<0, 0>> \in Number128 /\ Value128(<<0, 0>>) = 0 * WordSpan + 0
  BY <1>1, Make128
<1>3. <<0, 1>> \in Number128 /\ Value128(<<0, 1>>) = 0 * WordSpan + 1
  BY <1>1, Make128
<1> QED BY <1>1, <1>2, <1>3 DEF clear128

(* Zero of 256 bits.                                                        *)
LEMMA Clear256 == clear256 \in Number256 /\ Value256(clear256) = 0
<1>1. clear256 \in Number256 /\ Value256(clear256) = 0 * LongSpan + 0
  BY Clear128, Make256 DEF clear256
<1> QED BY <1>1, Spans

-----------------------------------------------------------------------------
(* Comparisons.                                                             *)
LEMMA Order128 ==
  ASSUME NEW x \in Number128, NEW y \in Number128
  PROVE  /\ gt128(x, y) <=> Value128(x) > Value128(y)
         /\ x = y <=> Value128(x) = Value128(y)
<1>1. /\ upper(x) \in 0..(WordSpan - 1) /\ lower(x) \in 0..(WordSpan - 1)
      /\ x = <<upper(x), lower(x)>>
      /\ Value128(x) = upper(x) * WordSpan + lower(x)
  BY Number128Is
<1>2. /\ upper(y) \in 0..(WordSpan - 1) /\ lower(y) \in 0..(WordSpan - 1)
      /\ y = <<upper(y), lower(y)>>
      /\ Value128(y) = upper(y) * WordSpan + lower(y)
  BY Number128Is
<1>3. PICK a \in 0..(WordSpan - 1), b \in 0..(WordSpan - 1),
           c \in 0..(WordSpan - 1), d \in 0..(WordSpan - 1) :
        a = upper(x) /\ b = lower(x) /\ c = upper(y) /\ d = lower(y)
  BY <1>1, <1>2
<1>4. /\ (a * WordSpan + b) > (c * WordSpan + d) <=> IF a = c THEN b > d ELSE a > c
      /\ (a * WordSpan + b) = (c * WordSpan + d) <=> a = c /\ b = d
  <2>1. a \in Int /\ c \in Int
    BY Spans
  <2> QED BY <2>1, Spans, GtPair
<1>5. gt128(x, y) <=> IF a = c THEN b > d ELSE a > c
  BY <1>3 DEF gt128
<1>6. x = y <=> a = c /\ b = d
  BY <1>1, <1>2, <1>3
<1> QED BY <1>1, <1>2, <1>3, <1>4, <1>5, <1>6

(* The same for 256 bits.                                                   *)
LEMMA Order256 ==
  ASSUME NEW x \in Number256, NEW y \in Number256
  PROVE  /\ gt256(x, y) <=> Value256(x) > Value256(y)
         /\ x = y <=> Value256(x) = Value256(y)
<1>1. /\ upper(x) \in Number128 /\ lower(x) \in Number128 /\ x = <<upper(x), lower(x)>>
      /\ Value128(upper(x)) \in 0..(LongSpan - 1)
      /\ Value128(lower(x)) \in 0..(LongSpan - 1)
      /\ Value256(x) = Value128(upper(x)) * LongSpan + Value128(lower(x))
  BY Number256Is
<1>2. /\ upper(y) \in Number128 /\ lower(y) \in Number128 /\ y = <<upper(y), lower(y)>>
      /\ Value128(upper(y)) \in 0..(LongSpan - 1)
      /\ Value128(lower(y)) \in 0..(LongSpan - 1)
      /\ Value256(y) = Value128(upper(y)) * LongSpan + Value128(lower(y))
  BY Number256Is
<1>3. PICK a \in 0..(LongSpan - 1), b \in 0..(LongSpan - 1),
           c \in 0..(LongSpan - 1), d \in 0..(LongSpan - 1) :
        /\ a = Value128(upper(x)) /\ b = Value128(lower(x))
        /\ c = Value128(upper(y)) /\ d = Value128(lower(y))
  BY <1>1, <1>2
<1>4. /\ (a * LongSpan + b) > (c * LongSpan + d) <=> IF a = c THEN b > d ELSE a > c
      /\ (a * LongSpan + b) = (c * LongSpan + d) <=> a = c /\ b = d
  <2>1. a \in Int /\ c \in Int
    BY Spans
  <2> QED BY <2>1, Spans, GtPair
<1>5. /\ upper(x) = upper(y) <=> a = c
      /\ lower(x) = lower(y) <=> b = d
      /\ gt128(lower(x), lower(y)) <=> b > d
      /\ gt128(upper(x), upper(y)) <=> a > c
  BY <1>1, <1>2, <1>3, Order128
<1>6. gt256(x, y) <=> IF a = c THEN b > d ELSE a > c
  BY <1>5 DEF gt256
<1>7. x = y <=> a = c /\ b = d
  BY <1>1, <1>2, <1>5
<1> QED BY <1>1, <1>2, <1>3, <1>4, <1>6, <1>7

(* Sums and differences.                                                    *)
LEMMA Add128Is ==
  ASSUME NEW x \in Number128, NEW y \in Number128
  PROVE  /\ add128(x, y) \in Number128
         /\ Value128(add128(x, y)) = (Value128(x) + Value128(y)) % LongSpan
<1>1. PICK a \in 0..(WordSpan - 1), b \in 0..(WordSpan - 1),
           c \in 0..(WordSpan - 1), d \in 0..(WordSpan - 1) :
        /\ a = upper(x) /\ b = lower(x) /\ c = upper(y) /\ d = lower(y)
        /\ Value128(x) = a * WordSpan + b /\ Value128(y) = c * WordSpan + d
  BY Number128Is
<1>2. WordSpan \in Nat \ {0} /\ LongSpan = WordSpan * WordSpan
  BY Spans
<1> DEFINE low == (b + d) % WordSpan
           carry == IF low < b THEN 1 ELSE 0
           high == (a + c + carry) % WordSpan
<1>3. low \in 0..(WordSpan - 1) /\ carry \in 0..1
  BY <1>2
<1>4. high \in 0..(WordSpan - 1)
  <2> HIDE DEF carry
  <2>1. a + c + carry \in Int
    BY <1>2, <1>3
  <2> QED BY <1>2, <2>1
<1>5. ((a * WordSpan + b) + (c * WordSpan + d)) % (WordSpan * WordSpan) = high * WordSpan + low
  <2> HIDE DEF low, carry, high
  <2>1. low = (b + d) % WordSpan /\ carry = IF low < b THEN 1 ELSE 0
    BY DEF low, carry
  <2>2. ((a * WordSpan + b) + (c * WordSpan + d)) % (WordSpan * WordSpan)
          = ((a + c + carry) % WordSpan) * WordSpan + low
    BY <1>2, <2>1, AddPair
  <2> QED BY <2>2 DEF high
<1>6. add128(x, y) = <<high, low>>
  BY <1>1 DEF add128, Wrap, WordSpan
<1> HIDE DEF low, high
<1>7. <<high, low>> \in Number128 /\ Value128(<<high, low>>) = high * WordSpan + low
  BY <1>3, <1>4, Make128
<1> QED BY <1>1, <1>2, <1>5, <1>6, <1>7

(* Differences, of two words (uint256.c:255-260).                           *)
LEMMA Minus128Is ==
  ASSUME NEW x \in Number128, NEW y \in Number128
  PROVE  /\ minus128(x, y) \in Number128
         /\ Value128(minus128(x, y)) = (Value128(x) - Value128(y)) % LongSpan
<1>1. PICK a \in 0..(WordSpan - 1), b \in 0..(WordSpan - 1),
           c \in 0..(WordSpan - 1), d \in 0..(WordSpan - 1) :
        /\ a = upper(x) /\ b = lower(x) /\ c = upper(y) /\ d = lower(y)
        /\ Value128(x) = a * WordSpan + b /\ Value128(y) = c * WordSpan + d
  BY Number128Is
<1>2. WordSpan \in Nat \ {0} /\ LongSpan = WordSpan * WordSpan
  BY Spans
<1> DEFINE low == (b - d) % WordSpan
           borrow == IF low > b THEN 1 ELSE 0
           high == (a - c - borrow) % WordSpan
<1>3. low \in 0..(WordSpan - 1) /\ borrow \in 0..1
  BY <1>2
<1>4. high \in 0..(WordSpan - 1)
  <2> HIDE DEF borrow
  <2>1. a - c - borrow \in Int
    BY <1>2, <1>3
  <2> QED BY <1>2, <2>1
<1>5. ((a * WordSpan + b) - (c * WordSpan + d)) % (WordSpan * WordSpan) = high * WordSpan + low
  <2> HIDE DEF low, borrow, high
  <2>1. low = (b - d) % WordSpan /\ borrow = IF low > b THEN 1 ELSE 0
    BY DEF low, borrow
  <2>2. ((a * WordSpan + b) - (c * WordSpan + d)) % (WordSpan * WordSpan)
          = ((a - c - borrow) % WordSpan) * WordSpan + low
    BY <1>2, <2>1, SubPair
  <2> QED BY <2>2 DEF high
<1>6. minus128(x, y) = <<high, low>>
  BY <1>1 DEF minus128, Wrap, WordSpan
<1> HIDE DEF low, high
<1>7. <<high, low>> \in Number128 /\ Value128(<<high, low>>) = high * WordSpan + low
  BY <1>3, <1>4, Make128
<1> QED BY <1>1, <1>2, <1>5, <1>6, <1>7

(* Sums, of two halves (uint256.c:242-253).                                 *)
LEMMA Add256Is ==
  ASSUME NEW x \in Number256, NEW y \in Number256
  PROVE  /\ add256(x, y) \in Number256
         /\ Value256(add256(x, y)) = (Value256(x) + Value256(y)) % Pow2[4 * WordBits]
<1>1. /\ upper(x) \in Number128 /\ lower(x) \in Number128
      /\ upper(y) \in Number128 /\ lower(y) \in Number128
  BY Number256Is
<1>2. PICK a \in 0..(LongSpan - 1), b \in 0..(LongSpan - 1),
           c \in 0..(LongSpan - 1), d \in 0..(LongSpan - 1) :
        /\ a = Value128(upper(x)) /\ b = Value128(lower(x))
        /\ c = Value128(upper(y)) /\ d = Value128(lower(y))
        /\ Value256(x) = a * LongSpan + b /\ Value256(y) = c * LongSpan + d
  BY Number256Is
<1>3. LongSpan \in Nat \ {0} /\ Pow2[4 * WordBits] = LongSpan * LongSpan
  BY Spans
<1>4. PICK high \in Number128, low \in Number128 :
        /\ high = add128(upper(x), upper(y)) /\ low = add128(lower(x), lower(y))
        /\ Value128(high) = (a + c) % LongSpan /\ Value128(low) = (b + d) % LongSpan
  BY <1>1, <1>2, Add128Is
<1>5. PICK carry \in 0..1 :
        /\ carry = IF Value128(low) < b THEN 1 ELSE 0
        /\ gt128(lower(x), low) <=> carry = 1
  <2>1. gt128(lower(x), low) <=> b > Value128(low)
    BY <1>1, <1>2, <1>4, Order128
  <2>2. Value128(low) \in Int
    BY <1>4, <1>2, <1>3, Number128Is
  <2> QED BY <2>1, <2>2, <1>2, <1>3
<1>6. PICK top \in Number128 :
        /\ top = IF gt128(lower(x), low) THEN add128(high, <<0, 1>>) ELSE high
        /\ Value128(top) = (a + c + carry) % LongSpan
  <2>1. CASE carry = 1
    <3>1. /\ add128(high, <<0, 1>>) \in Number128
          /\ Value128(add128(high, <<0, 1>>)) = (Value128(high) + 1) % LongSpan
      BY <1>4, Clear128, Add128Is
    <3>2. (((a + c) % LongSpan) + 1) % LongSpan = ((a + c) + 1) % LongSpan
      <4>1. PICK e \in Int : e = a + c
        BY <1>3
      <4>2. ((e % LongSpan) + 1) % LongSpan = (e + 1) % LongSpan
        BY <1>3, ModNext, Zenon
      <4> QED BY <4>1, <4>2, Zenon
    <3> QED BY <1>4, <1>5, <2>1, <3>1, <3>2
  <2>2. CASE carry = 0
    <3>1. a + c + carry = a + c
      BY <1>3, <2>2
    <3> QED BY <1>4, <1>5, <2>2, <3>1
  <2> QED BY <2>1, <2>2
<1>7. add256(x, y) = <<top, low>>
  BY <1>4, <1>6 DEF add256
<1>8. /\ <<top, low>> \in Number256
      /\ Value256(<<top, low>>) = Value128(top) * LongSpan + Value128(low)
  BY Make256
<1>9. ((a * LongSpan + b) + (c * LongSpan + d)) % (LongSpan * LongSpan)
        = ((a + c + carry) % LongSpan) * LongSpan + Value128(low)
  <2>1. PICK v : v = Value128(low)
    OBVIOUS
  <2>2. v = (b + d) % LongSpan /\ carry = IF v < b THEN 1 ELSE 0
    BY <1>4, <1>5, <2>1
  <2>3. ((a * LongSpan + b) + (c * LongSpan + d)) % (LongSpan * LongSpan)
          = ((a + c + carry) % LongSpan) * LongSpan + v
    BY <1>3, <2>2, AddPair
  <2> QED BY <2>1, <2>3
<1> QED BY <1>2, <1>3, <1>6, <1>7, <1>8, <1>9

(* Differences, of two halves (uint256.c:262-273).                          *)
LEMMA Minus256Is ==
  ASSUME NEW x \in Number256, NEW y \in Number256
  PROVE  /\ minus256(x, y) \in Number256
         /\ Value256(minus256(x, y)) = (Value256(x) - Value256(y)) % Pow2[4 * WordBits]
<1>1. /\ upper(x) \in Number128 /\ lower(x) \in Number128
      /\ upper(y) \in Number128 /\ lower(y) \in Number128
  BY Number256Is
<1>2. PICK a \in 0..(LongSpan - 1), b \in 0..(LongSpan - 1),
           c \in 0..(LongSpan - 1), d \in 0..(LongSpan - 1) :
        /\ a = Value128(upper(x)) /\ b = Value128(lower(x))
        /\ c = Value128(upper(y)) /\ d = Value128(lower(y))
        /\ Value256(x) = a * LongSpan + b /\ Value256(y) = c * LongSpan + d
  BY Number256Is
<1>3. LongSpan \in Nat \ {0} /\ Pow2[4 * WordBits] = LongSpan * LongSpan
  BY Spans
<1>4. PICK high \in Number128, low \in Number128 :
        /\ high = minus128(upper(x), upper(y)) /\ low = minus128(lower(x), lower(y))
        /\ Value128(high) = (a - c) % LongSpan /\ Value128(low) = (b - d) % LongSpan
  BY <1>1, <1>2, Minus128Is
<1>5. PICK borrow \in 0..1 :
        /\ borrow = IF Value128(low) > b THEN 1 ELSE 0
        /\ gt128(low, lower(x)) <=> borrow = 1
  <2>1. gt128(low, lower(x)) <=> Value128(low) > b
    BY <1>1, <1>2, <1>4, Order128
  <2> QED BY <2>1
<1>6. PICK top \in Number128 :
        /\ top = IF gt128(low, lower(x)) THEN minus128(high, <<0, 1>>) ELSE high
        /\ Value128(top) = (a - c - borrow) % LongSpan
  <2>1. CASE borrow = 1
    <3>1. /\ minus128(high, <<0, 1>>) \in Number128
          /\ Value128(minus128(high, <<0, 1>>)) = (Value128(high) - 1) % LongSpan
      BY <1>4, Clear128, Minus128Is
    <3>2. (((a - c) % LongSpan) + (-1)) % LongSpan = ((a - c) + (-1)) % LongSpan
      <4>1. PICK e \in Int : e = a - c
        BY <1>3
      <4>2. ((e % LongSpan) + (-1)) % LongSpan = (e + (-1)) % LongSpan
        BY <1>3, ModNext, Zenon
      <4> QED BY <4>1, <4>2, Zenon
    <3>3. /\ (a - c) + (-1) = a - c - borrow
          /\ ((a - c) % LongSpan) + (-1) = ((a - c) % LongSpan) - 1
      BY <1>3, <2>1
    <3> QED BY <1>4, <1>5, <2>1, <3>1, <3>2, <3>3
  <2>2. CASE borrow = 0
    <3>1. a - c - borrow = a - c
      BY <1>3, <2>2
    <3> QED BY <1>4, <1>5, <2>2, <3>1
  <2> QED BY <2>1, <2>2
<1>7. minus256(x, y) = <<top, low>>
  BY <1>4, <1>6 DEF minus256
<1>8. /\ <<top, low>> \in Number256
      /\ Value256(<<top, low>>) = Value128(top) * LongSpan + Value128(low)
  BY Make256
<1>9. ((a * LongSpan + b) - (c * LongSpan + d)) % (LongSpan * LongSpan)
        = ((a - c - borrow) % LongSpan) * LongSpan + Value128(low)
  <2>1. PICK v : v = Value128(low)
    OBVIOUS
  <2>2. v = (b - d) % LongSpan /\ borrow = IF v > b THEN 1 ELSE 0
    BY <1>4, <1>5, <2>1
  <2>3. ((a * LongSpan + b) - (c * LongSpan + d)) % (LongSpan * LongSpan)
          = ((a - c - borrow) % LongSpan) * LongSpan + v
    BY <1>3, <2>2, SubPair
  <2> QED BY <2>1, <2>3
<1> QED BY <1>2, <1>3, <1>6, <1>7, <1>8, <1>9

-----------------------------------------------------------------------------
(* How the powers below a width make up those above it.                     *)
LEMMA Powers ==
  ASSUME NEW S \in {WordBits, 2 * WordBits}, NEW n \in 0..S
  PROVE  /\ Pow2[n] \in Nat \ {0} /\ Pow2[S - n] \in Nat \ {0}
         /\ Pow2[S] = Pow2[n] * Pow2[S - n]
         /\ Pow2[2 * S - n] = Pow2[S - n] * Pow2[S]
         /\ Pow2[S + n] = Pow2[S] * Pow2[n] /\ Pow2[S + n] = Pow2[n] * Pow2[S]
         /\ Pow2[2 * S] = Pow2[S] * Pow2[S]
<1>1. PICK w \in Nat \ {0} : w = WordBits
  BY WordBitsIs
<1>2. /\ S \in Nat \ {0} /\ 2 * S <= 4 * w /\ n \in Nat /\ S - n \in Nat
      /\ n + (S - n) = S /\ (S - n) + S = 2 * S - n
      /\ n + (S - n) <= 4 * w /\ (S - n) + S <= 4 * w /\ S + n <= 4 * w /\ n + S <= 4 * w
      /\ n + S = S + n /\ S + S = 2 * S /\ S + S <= 4 * w
  BY <1>1
<1>3. n \in 0..(4 * WordBits) /\ S - n \in 0..(4 * WordBits)
  BY <1>1, <1>2
<1>4. Pow2[n] \in Nat \ {0} /\ Pow2[S - n] \in Nat \ {0}
  BY <1>3, Pow2Nat
<1>5. Pow2[n + (S - n)] = Pow2[n] * Pow2[S - n]
  BY <1>1, <1>2, Pow2Adds
<1>6. Pow2[(S - n) + S] = Pow2[S - n] * Pow2[S]
  BY <1>1, <1>2, Pow2Adds
<1>7. Pow2[S + n] = Pow2[S] * Pow2[n] /\ Pow2[n + S] = Pow2[n] * Pow2[S]
  BY <1>1, <1>2, Pow2Adds
<1>8. Pow2[S + S] = Pow2[S] * Pow2[S]
  BY <1>1, <1>2, Pow2Adds
<1> QED BY <1>2, <1>4, <1>5, <1>6, <1>7, <1>8, Zenon

(* Shifted by nothing, by a half, or out.                                   *)
LEMMA ShiftEnds ==
  ASSUME NEW K \in Nat \ {0}, NEW v \in 0..(K - 1)
  PROVE  /\ (v % K) * 1 = v /\ v \div 1 = v
         /\ (v % 1) * K = 0 /\ v \div K = 0
<1>1. v = 0 * K + v /\ v = v * 1 + 0 /\ v \in Int /\ 0 \in 0..(1 - 1) /\ 1 \in Nat \ {0}
  OBVIOUS
<1>2. v % K = v /\ v \div K = 0
  BY <1>1, DivIs
<1>3. v \div 1 = v /\ v % 1 = 0
  BY <1>1, DivIs
<1> QED BY <1>2, <1>3

(* A number moved up: what leaves it is lost (uint256.c:71-89).             *)
LEMMA Shiftl128Is ==
  ASSUME NEW x \in Number128, NEW n \in 0..(2 * WordBits)
  PROVE  /\ shiftl128(x, n) \in Number128
         /\ Value128(shiftl128(x, n)) = (Value128(x) % Pow2[2 * WordBits - n]) * Pow2[n]
<1>1. PICK a \in 0..(WordSpan - 1), b \in 0..(WordSpan - 1) :
        /\ a = upper(x) /\ b = lower(x) /\ Value128(x) = a * WordSpan + b
        /\ Value128(x) \in 0..(LongSpan - 1) /\ a \in Int /\ b \in Int
  BY Number128Is
<1>2. /\ WordSpan \in Nat \ {0} /\ LongSpan \in Nat \ {0} /\ LongSpan = WordSpan * WordSpan
      /\ 0 \in 0..(WordSpan - 1)
  BY Spans
<1>3. PICK w \in Nat \ {0} : w = WordBits /\ n \in 0..(2 * w) /\ 0 \in 0..(2 * w)
  BY WordBitsIs
<1>4. Pow2[0] = 1 /\ Pow2[w] = WordSpan /\ Pow2[2 * w] = LongSpan
  BY <1>3, Pow2Is DEF WordSpan, LongSpan
<1>5. CASE n = 2 * w
  <2>1. shiftl128(x, n) = clear128
    BY <1>3, <1>5 DEF shiftl128
  <2>2. Pow2[2 * w - n] = 1 /\ Pow2[n] = LongSpan
    BY <1>3, <1>4, <1>5
  <2>3. (Value128(x) % 1) * LongSpan = 0
    BY <1>1, <1>2, ShiftEnds
  <2> QED BY <1>3, <2>1, <2>2, <2>3, Clear128
<1>6. CASE n = w
  <2>1. shiftl128(x, n) = <<b, 0>>
    BY <1>1, <1>3, <1>6 DEF shiftl128
  <2>2. Pow2[2 * w - n] = WordSpan /\ Pow2[n] = WordSpan
    BY <1>3, <1>4, <1>6
  <2>3. (a * WordSpan + b) % WordSpan = b
    BY <1>1, <1>2, PairParts
  <2>4. <<b, 0>> \in Number128 /\ Value128(<<b, 0>>) = b * WordSpan + 0
    BY <1>2, Make128
  <2>5. b * WordSpan + 0 = b * WordSpan
    BY <1>2
  <2> QED BY <1>1, <1>3, <2>1, <2>2, <2>3, <2>4, <2>5
<1>7. CASE n = 0
  <2>1. shiftl128(x, n) = x
    BY <1>3, <1>7 DEF shiftl128
  <2>2. Pow2[2 * w - n] = LongSpan /\ Pow2[n] = 1
    BY <1>3, <1>4, <1>7
  <2>3. (Value128(x) % LongSpan) * 1 = Value128(x)
    BY <1>1, <1>2, ShiftEnds
  <2> QED BY <1>3, <2>1, <2>2, <2>3
<1>8. CASE 0 < n /\ n < w
  <2>1. PICK p \in Nat \ {0}, q \in Nat \ {0} :
          /\ p = Pow2[n] /\ q = Pow2[w - n] /\ WordSpan = p * q
          /\ Pow2[2 * w - n] = q * WordSpan
    <3>1. w \in {WordBits, 2 * WordBits} /\ n \in 0..w
      BY <1>3, <1>8
    <3>2. /\ Pow2[n] \in Nat \ {0} /\ Pow2[w - n] \in Nat \ {0}
          /\ Pow2[w] = Pow2[n] * Pow2[w - n]
          /\ Pow2[2 * w - n] = Pow2[w - n] * Pow2[w]
      BY <3>1, Powers, Zenon
    <3> QED BY <1>4, <3>2, Zenon
  <2> DEFINE into == ((a * p) % WordSpan) + (b \div q)
             high == into % WordSpan
             low == (b * p) % WordSpan
  <2>2. shiftl128(x, n) = <<high, low>>
    <3>1. shiftl128(x, n) = <<Wrap(leftWord(a, n) + rightWord(b, WordBits - n)), leftWord(b, n)>>
      BY <1>1, <1>3, <1>8 DEF shiftl128
    <3> QED BY <1>3, <2>1, <3>1 DEF Wrap, leftWord, rightWord, WordSpan
  <2>3. /\ Carried(p, q, WordSpan, a, b)
        /\ ((a % q) * p + (b \div q)) * WordSpan + ((b * p) % WordSpan)
             = ((a * WordSpan + b) % (q * WordSpan)) * p
    <3>1. Carried(p, q, WordSpan, a, b) /\ UpFacts(p, q, WordSpan, a, b)
      BY <1>2, <2>1, UpPair, Zenon
    <3> QED BY <3>1, Zenon DEF UpFacts
  <2>4. high = (a % q) * p + (b \div q) /\ into \in 0..(WordSpan - 1)
    BY <2>3, Zenon DEF Carried
  <2>5. high \in 0..(WordSpan - 1) /\ low \in 0..(WordSpan - 1)
    <3>1. into \in Int /\ b * p \in Int
      BY <1>1, <2>1, <2>4
    <3> HIDE DEF into
    <3> QED BY <1>2, <3>1
  <2>6. Value128(<<high, low>>) = high * WordSpan + low /\ <<high, low>> \in Number128
    BY <2>5, Make128
  <2>7. high * WordSpan + low = ((a * WordSpan + b) % (q * WordSpan)) * p
    BY <2>3, <2>4, Zenon
  <2> HIDE DEF high, low
  <2> QED BY <1>1, <1>3, <2>1, <2>2, <2>6, <2>7
<1>9. CASE w < n /\ n < 2 * w
  <2>1. PICK p \in Nat \ {0}, q \in Nat \ {0} :
          /\ p = Pow2[n - w] /\ q = Pow2[2 * w - n] /\ WordSpan = p * q
          /\ Pow2[n] = p * WordSpan
    <3>1. w \in {WordBits, 2 * WordBits} /\ n - w \in 0..w /\ w - (n - w) = 2 * w - n
          /\ w + (n - w) = n
      BY <1>3, <1>9
    <3>2. /\ Pow2[n - w] \in Nat \ {0} /\ Pow2[w - (n - w)] \in Nat \ {0}
          /\ Pow2[w] = Pow2[n - w] * Pow2[w - (n - w)]
          /\ Pow2[w + (n - w)] = Pow2[n - w] * Pow2[w]
      BY <3>1, Powers, Zenon
    <3> QED BY <1>4, <3>1, <3>2, Zenon
  <2> DEFINE high == (b * p) % WordSpan
  <2>2. shiftl128(x, n) = <<high, 0>>
    <3>1. shiftl128(x, n) = <<leftWord(b, n - WordBits), 0>>
      BY <1>1, <1>3, <1>9 DEF shiftl128
    <3> QED BY <1>3, <2>1, <3>1 DEF Wrap, leftWord, WordSpan
  <2>3. high * WordSpan + 0 = ((a * WordSpan + b) % q) * (p * WordSpan)
    <3>1. UpFarFacts(p, q, WordSpan, a, b)
      BY <1>2, <2>1, UpFar, Zenon
    <3> QED BY <3>1, Zenon DEF UpFarFacts
  <2>4. high \in 0..(WordSpan - 1)
    <3>1. b * p \in Int
      BY <1>1, <2>1
    <3> QED BY <1>2, <3>1
  <2> HIDE DEF high
  <2>5. Value128(<<high, 0>>) = high * WordSpan + 0 /\ <<high, 0>> \in Number128
    BY <1>2, <2>4, Make128
  <2> QED BY <1>1, <1>3, <2>1, <2>2, <2>3, <2>5
<1> QED BY <1>3, <1>5, <1>6, <1>7, <1>8, <1>9

(* A number moved down (uint256.c:116-136).                                 *)
LEMMA Shiftr128Is ==
  ASSUME NEW x \in Number128, NEW n \in 0..(2 * WordBits)
  PROVE  /\ shiftr128(x, n) \in Number128
         /\ Value128(shiftr128(x, n)) = Value128(x) \div Pow2[n]
<1>1. PICK a \in 0..(WordSpan - 1), b \in 0..(WordSpan - 1) :
        /\ a = upper(x) /\ b = lower(x) /\ Value128(x) = a * WordSpan + b
        /\ Value128(x) \in 0..(LongSpan - 1) /\ a \in Int /\ b \in Int
  BY Number128Is
<1>2. /\ WordSpan \in Nat \ {0} /\ LongSpan \in Nat \ {0} /\ LongSpan = WordSpan * WordSpan
      /\ 0 \in 0..(WordSpan - 1)
  BY Spans
<1>3. PICK w \in Nat \ {0} : w = WordBits /\ n \in 0..(2 * w) /\ 0 \in 0..(2 * w)
  BY WordBitsIs
<1>4. Pow2[0] = 1 /\ Pow2[w] = WordSpan /\ Pow2[2 * w] = LongSpan
  BY <1>3, Pow2Is DEF WordSpan, LongSpan
<1>5. CASE n = 2 * w
  <2>1. shiftr128(x, n) = clear128
    BY <1>3, <1>5 DEF shiftr128
  <2>2. Pow2[n] = LongSpan
    BY <1>3, <1>4, <1>5
  <2>3. Value128(x) \div LongSpan = 0
    BY <1>1, <1>2, ShiftEnds
  <2> QED BY <1>3, <2>1, <2>2, <2>3, Clear128
<1>6. CASE n = w
  <2>1. shiftr128(x, n) = <<0, a>>
    BY <1>1, <1>3, <1>6 DEF shiftr128
  <2>2. Pow2[n] = WordSpan
    BY <1>3, <1>4, <1>6
  <2>3. (a * WordSpan + b) \div WordSpan = a
    BY <1>1, <1>2, PairParts
  <2>4. <<0, a>> \in Number128 /\ Value128(<<0, a>>) = 0 * WordSpan + a
    BY <1>2, Make128
  <2>5. 0 * WordSpan + a = a
    BY <1>2
  <2> QED BY <1>1, <1>3, <2>1, <2>2, <2>3, <2>4, <2>5
<1>7. CASE n = 0
  <2>1. shiftr128(x, n) = x
    BY <1>3, <1>7 DEF shiftr128
  <2>2. Pow2[n] = 1
    BY <1>3, <1>4, <1>7
  <2>3. Value128(x) \div 1 = Value128(x)
    BY <1>1, <1>2, ShiftEnds
  <2> QED BY <1>3, <2>1, <2>2, <2>3
<1>8. CASE 0 < n /\ n < w
  <2>1. PICK p \in Nat \ {0}, q \in Nat \ {0} :
          p = Pow2[n] /\ q = Pow2[w - n] /\ WordSpan = p * q
    <3>1. w \in {WordBits, 2 * WordBits} /\ n \in 0..w
      BY <1>3, <1>8
    <3>2. /\ Pow2[n] \in Nat \ {0} /\ Pow2[w - n] \in Nat \ {0}
          /\ Pow2[w] = Pow2[n] * Pow2[w - n]
      BY <3>1, Powers, Zenon
    <3> QED BY <1>4, <3>2, Zenon
  <2> DEFINE high == a \div p
             into == ((a * q) % WordSpan) + (b \div p)
             low == into % WordSpan
  <2>2. shiftr128(x, n) = <<high, low>>
    <3>1. shiftr128(x, n) = <<rightWord(a, n), Wrap(leftWord(a, WordBits - n) + rightWord(b, n))>>
      BY <1>1, <1>3, <1>8 DEF shiftr128
    <3> QED BY <1>3, <2>1, <3>1 DEF Wrap, leftWord, rightWord, WordSpan
  <2>3. DownFacts(p, q, WordSpan, a, b)
    BY <1>2, <2>1, DownPair, Zenon
  <2>4. /\ low = (a % p) * q + (b \div p) /\ into \in 0..(WordSpan - 1)
        /\ high \in 0..(WordSpan - 1)
        /\ (a \div p) * WordSpan + ((a % p) * q + (b \div p)) = (a * WordSpan + b) \div p
    BY <2>3, Zenon DEF DownFacts
  <2>5. low \in 0..(WordSpan - 1)
    <3>1. into \in Int
      BY <1>1, <2>1, <2>4
    <3> HIDE DEF into
    <3> QED BY <1>2, <3>1
  <2>6. Value128(<<high, low>>) = high * WordSpan + low /\ <<high, low>> \in Number128
    BY <2>4, <2>5, Make128
  <2>7. high * WordSpan + low = (a * WordSpan + b) \div p
    BY <2>4, Zenon
  <2> HIDE DEF high, low
  <2> QED BY <1>1, <1>3, <2>1, <2>2, <2>6, <2>7
<1>9. CASE w < n /\ n < 2 * w
  <2>1. PICK p \in Nat \ {0} : p = Pow2[n - w] /\ Pow2[n] = WordSpan * p
    <3>1. w \in {WordBits, 2 * WordBits} /\ n - w \in 0..w /\ w + (n - w) = n
      BY <1>3, <1>9
    <3>2. Pow2[n - w] \in Nat \ {0} /\ Pow2[w + (n - w)] = Pow2[w] * Pow2[n - w]
      BY <3>1, Powers, Zenon
    <3> QED BY <1>4, <3>1, <3>2, Zenon
  <2> DEFINE low == a \div p
  <2>2. shiftr128(x, n) = <<0, low>>
    <3>1. shiftr128(x, n) = <<0, rightWord(a, n - WordBits)>>
      BY <1>1, <1>3, <1>9 DEF shiftr128
    <3> QED BY <1>3, <2>1, <3>1 DEF rightWord
  <2>3. 0 * WordSpan + low = (a * WordSpan + b) \div (WordSpan * p)
    BY <1>2, <2>1, DownFar, Zenon
  <2>4. low \in 0..(WordSpan - 1)
    BY <1>2, DivSmaller
  <2> HIDE DEF low
  <2>5. Value128(<<0, low>>) = 0 * WordSpan + low /\ <<0, low>> \in Number128
    BY <1>2, <2>4, Make128
  <2> QED BY <1>1, <1>3, <2>1, <2>2, <2>3, <2>5
<1> QED BY <1>3, <1>5, <1>6, <1>7, <1>8, <1>9

(* A half shifted up loses what is above its width.                         *)
LEMMA Shiftl128Loses ==
  ASSUME NEW x \in Number128, NEW n \in 0..(2 * WordBits)
  PROVE  /\ shiftl128(x, n) \in Number128
         /\ Value128(shiftl128(x, n)) = (Value128(x) * Pow2[n]) % LongSpan
<1>1. /\ shiftl128(x, n) \in Number128
      /\ Value128(shiftl128(x, n)) = (Value128(x) % Pow2[2 * WordBits - n]) * Pow2[n]
  BY Shiftl128Is
<1>2. PICK v \in Int : v = Value128(x)
  BY Number128Is
<1>3. PICK p \in Nat \ {0}, q \in Nat \ {0} :
        p = Pow2[n] /\ q = Pow2[2 * WordBits - n] /\ LongSpan = p * q
  <2>1. 2 * WordBits \in {WordBits, 2 * WordBits}
    OBVIOUS
  <2>2. /\ Pow2[n] \in Nat \ {0} /\ Pow2[2 * WordBits - n] \in Nat \ {0}
        /\ Pow2[2 * WordBits] = Pow2[n] * Pow2[2 * WordBits - n]
    BY <2>1, Powers, Zenon
  <2> QED BY <2>2, Zenon DEF LongSpan
<1>4. (v * p) % LongSpan = (v % q) * p
  <2>1. LongSpan \in Nat \ {0}
    BY Spans
  <2>2. PICK K \in Nat \ {0} : K = LongSpan /\ K = p * q
    BY <1>3, <2>1, Zenon
  <2>3. (v * p) % K = (v % q) * p
    BY <2>2, ShiftOut, Zenon
  <2> QED BY <2>2, <2>3, Zenon
<1> QED BY <1>1, <1>2, <1>3, <1>4, Zenon

(* The same for 256 bits (uint256.c:91-114).                                *)
LEMMA Shiftl256Is ==
  ASSUME NEW x \in Number256, NEW n \in 0..(4 * WordBits)
  PROVE  /\ shiftl256(x, n) \in Number256
         /\ Value256(shiftl256(x, n)) = (Value256(x) % Pow2[4 * WordBits - n]) * Pow2[n]
<1>1. /\ upper(x) \in Number128 /\ lower(x) \in Number128
      /\ Value256(x) \in 0..(Pow2[4 * WordBits] - 1)
  BY Number256Is
<1>2. PICK a \in 0..(LongSpan - 1), b \in 0..(LongSpan - 1) :
        /\ a = Value128(upper(x)) /\ b = Value128(lower(x)) /\ a \in Int /\ b \in Int
        /\ Value256(x) = a * LongSpan + b
  BY Number256Is
<1>3. LongSpan \in Nat \ {0} /\ Pow2[4 * WordBits] = LongSpan * LongSpan
  BY Spans
<1>4. PICK w \in Nat \ {0} : /\ w = 2 * WordBits /\ n \in 0..(2 * w) /\ 0 \in 0..(2 * w)
                             /\ 2 * w = 4 * WordBits
  BY WordBitsIs
<1>5. Pow2[0] = 1 /\ Pow2[w] = LongSpan
  BY <1>4, Pow2Is DEF LongSpan
<1>6. CASE n = 2 * w
  <2>1. shiftl256(x, n) = clear256
    BY <1>4, <1>6 DEF shiftl256
  <2>2. Pow2[2 * w - n] = 1 /\ Pow2[n] = Pow2[2 * w]
    BY <1>4, <1>5, <1>6
  <2>3. (Value256(x) % 1) * Pow2[2 * w] = 0
    <3>1. PICK K \in Nat \ {0} : K = Pow2[2 * w]
      BY <1>3, <1>4
    <3>2. Value256(x) \in 0..(K - 1)
      BY <1>1, <1>4, <3>1
    <3> QED BY <3>1, <3>2, ShiftEnds
  <2> QED BY <1>4, <2>1, <2>2, <2>3, Clear256
<1>7. CASE n = w
  <2>1. shiftl256(x, n) = <<lower(x), clear128>>
    BY <1>4, <1>7 DEF shiftl256
  <2>2. Pow2[2 * w - n] = LongSpan /\ Pow2[n] = LongSpan
    <3>1. 2 * w - n = w
      BY <1>7
    <3> QED BY <1>5, <1>7, <3>1
  <2>3. (a * LongSpan + b) % LongSpan = b
    BY <1>2, <1>3, PairParts
  <2>4. /\ <<lower(x), clear128>> \in Number256
        /\ Value256(<<lower(x), clear128>>) = b * LongSpan + 0
    BY <1>1, <1>2, Clear128, Make256
  <2>5. b * LongSpan + 0 = b * LongSpan
    BY <1>3
  <2> QED BY <1>2, <1>4, <2>1, <2>2, <2>3, <2>4, <2>5
<1>8. CASE n = 0
  <2>1. shiftl256(x, n) = x
    BY <1>4, <1>8 DEF shiftl256
  <2>2. Pow2[2 * w - n] = Pow2[2 * w] /\ Pow2[n] = 1
    BY <1>4, <1>5, <1>8
  <2>3. (Value256(x) % Pow2[2 * w]) * 1 = Value256(x)
    <3>1. PICK K \in Nat \ {0} : K = Pow2[2 * w]
      BY <1>3, <1>4
    <3>2. Value256(x) \in 0..(K - 1)
      BY <1>1, <1>4, <3>1
    <3> QED BY <3>1, <3>2, ShiftEnds
  <2> QED BY <1>4, <2>1, <2>2, <2>3
<1>9. CASE 0 < n /\ n < w
  <2>1. PICK p \in Nat \ {0}, q \in Nat \ {0} :
          /\ p = Pow2[n] /\ q = Pow2[w - n] /\ LongSpan = p * q
          /\ Pow2[2 * w - n] = q * LongSpan
    <3>1. w \in {WordBits, 2 * WordBits} /\ n \in 0..w
      BY <1>4, <1>9
    <3>2. /\ Pow2[n] \in Nat \ {0} /\ Pow2[w - n] \in Nat \ {0}
          /\ Pow2[w] = Pow2[n] * Pow2[w - n]
          /\ Pow2[2 * w - n] = Pow2[w - n] * Pow2[w]
      BY <3>1, Powers, Zenon
    <3> QED BY <1>5, <3>2, Zenon
  <2>2. n \in 0..(2 * WordBits) /\ w - n \in 0..(2 * WordBits)
    BY <1>4, <1>9
  <2>3. PICK u \in Number128, v \in Number128, low \in Number128 :
          /\ u = shiftl128(upper(x), n) /\ Value128(u) = (a * p) % LongSpan
          /\ v = shiftr128(lower(x), w - n) /\ Value128(v) = b \div q
          /\ low = shiftl128(lower(x), n) /\ Value128(low) = (b * p) % LongSpan
    <3>1. /\ shiftl128(upper(x), n) \in Number128
          /\ Value128(shiftl128(upper(x), n)) = (Value128(upper(x)) * Pow2[n]) % LongSpan
      BY <1>1, <2>2, Shiftl128Loses, Zenon
    <3>2. /\ shiftl128(lower(x), n) \in Number128
          /\ Value128(shiftl128(lower(x), n)) = (Value128(lower(x)) * Pow2[n]) % LongSpan
      BY <1>1, <2>2, Shiftl128Loses, Zenon
    <3>3. /\ shiftr128(lower(x), w - n) \in Number128
          /\ Value128(shiftr128(lower(x), w - n)) = Value128(lower(x)) \div Pow2[w - n]
      BY <1>1, <2>2, Shiftr128Is, Zenon
    <3> QED BY <1>2, <2>1, <3>1, <3>2, <3>3, Zenon
  <2>4. PICK high \in Number128 :
          /\ high = add128(u, v)
          /\ Value128(high) = (((a * p) % LongSpan) + (b \div q)) % LongSpan
    BY <2>3, Add128Is
  <2>5. shiftl256(x, n) = <<high, low>>
    BY <1>4, <1>9, <2>3, <2>4 DEF shiftl256
  <2>6. Carried(p, q, LongSpan, a, b) /\ UpFacts(p, q, LongSpan, a, b)
    BY <1>3, <2>1, UpPair, Zenon
  <2>7. Value128(high) * LongSpan + Value128(low)
          = ((a * LongSpan + b) % (q * LongSpan)) * p
    <3>1. Value128(high) = (a % q) * p + (b \div q)
      BY <2>4, <2>6, Zenon DEF Carried
    <3> QED BY <2>3, <2>6, <3>1, Zenon DEF UpFacts
  <2>8. /\ <<high, low>> \in Number256
        /\ Value256(<<high, low>>) = Value128(high) * LongSpan + Value128(low)
    BY Make256
  <2> QED BY <1>2, <1>4, <2>1, <2>5, <2>7, <2>8, Zenon
<1>10. CASE w < n /\ n < 2 * w
  <2>1. PICK p \in Nat \ {0}, q \in Nat \ {0} :
          /\ p = Pow2[n - w] /\ q = Pow2[2 * w - n] /\ LongSpan = p * q
          /\ Pow2[n] = p * LongSpan
    <3>1. w \in {WordBits, 2 * WordBits} /\ n - w \in 0..w /\ w - (n - w) = 2 * w - n
          /\ w + (n - w) = n
      BY <1>4, <1>10
    <3>2. /\ Pow2[n - w] \in Nat \ {0} /\ Pow2[w - (n - w)] \in Nat \ {0}
          /\ Pow2[w] = Pow2[n - w] * Pow2[w - (n - w)]
          /\ Pow2[w + (n - w)] = Pow2[n - w] * Pow2[w]
      BY <3>1, Powers, Zenon
    <3> QED BY <1>5, <3>1, <3>2, Zenon
  <2>2. n - w \in 0..(2 * WordBits)
    BY <1>4, <1>10
  <2>3. PICK high \in Number128 :
          high = shiftl128(lower(x), n - w) /\ Value128(high) = (b * p) % LongSpan
    BY <1>1, <1>2, <2>1, <2>2, Shiftl128Loses
  <2>4. shiftl256(x, n) = <<high, clear128>>
    BY <1>4, <1>10, <2>3 DEF shiftl256
  <2>5. ((b * p) % LongSpan) * LongSpan + 0 = ((a * LongSpan + b) % q) * (p * LongSpan)
    <3>1. UpFarFacts(p, q, LongSpan, a, b)
      BY <1>3, <2>1, UpFar, Zenon
    <3> QED BY <3>1, Zenon DEF UpFarFacts
  <2>6. /\ <<high, clear128>> \in Number256
        /\ Value256(<<high, clear128>>) = Value128(high) * LongSpan + 0
    BY Make256, Clear128
  <2> QED BY <1>2, <1>4, <2>1, <2>3, <2>4, <2>5, <2>6, Zenon
<1> QED BY <1>4, <1>6, <1>7, <1>8, <1>9, <1>10

(* The same for 256 bits (uint256.c:138-161).                               *)
LEMMA Shiftr256Is ==
  ASSUME NEW x \in Number256, NEW n \in 0..(4 * WordBits)
  PROVE  /\ shiftr256(x, n) \in Number256
         /\ Value256(shiftr256(x, n)) = Value256(x) \div Pow2[n]
<1>1. /\ upper(x) \in Number128 /\ lower(x) \in Number128
      /\ Value256(x) \in 0..(Pow2[4 * WordBits] - 1)
  BY Number256Is
<1>2. PICK a \in 0..(LongSpan - 1), b \in 0..(LongSpan - 1) :
        /\ a = Value128(upper(x)) /\ b = Value128(lower(x)) /\ a \in Int /\ b \in Int
        /\ Value256(x) = a * LongSpan + b
  BY Number256Is
<1>3. LongSpan \in Nat \ {0} /\ Pow2[4 * WordBits] = LongSpan * LongSpan
  BY Spans
<1>4. PICK w \in Nat \ {0} : /\ w = 2 * WordBits /\ n \in 0..(2 * w) /\ 0 \in 0..(2 * w)
                             /\ 2 * w = 4 * WordBits
  BY WordBitsIs
<1>5. Pow2[0] = 1 /\ Pow2[w] = LongSpan
  BY <1>4, Pow2Is DEF LongSpan
<1>6. CASE n = 2 * w
  <2>1. shiftr256(x, n) = clear256
    BY <1>4, <1>6 DEF shiftr256
  <2>2. Value256(x) \div Pow2[2 * w] = 0
    <3>1. PICK K \in Nat \ {0} : K = Pow2[2 * w]
      BY <1>3, <1>4
    <3>2. Value256(x) \in 0..(K - 1)
      BY <1>1, <1>4, <3>1
    <3> QED BY <3>1, <3>2, ShiftEnds
  <2> QED BY <1>6, <2>1, <2>2, Clear256
<1>7. CASE n = w
  <2>1. shiftr256(x, n) = <<clear128, upper(x)>>
    BY <1>4, <1>7 DEF shiftr256
  <2>2. Pow2[n] = LongSpan
    BY <1>4, <1>5, <1>7
  <2>3. (a * LongSpan + b) \div LongSpan = a
    BY <1>2, <1>3, PairParts
  <2>4. /\ <<clear128, upper(x)>> \in Number256
        /\ Value256(<<clear128, upper(x)>>) = 0 * LongSpan + a
    BY <1>1, <1>2, Clear128, Make256
  <2>5. 0 * LongSpan + a = a
    BY <1>3
  <2> QED BY <1>2, <1>4, <2>1, <2>2, <2>3, <2>4, <2>5
<1>8. CASE n = 0
  <2>1. shiftr256(x, n) = x
    BY <1>4, <1>8 DEF shiftr256
  <2>2. Pow2[n] = 1
    BY <1>4, <1>5, <1>8
  <2>3. Value256(x) \div 1 = Value256(x)
    <3>1. PICK K \in Nat \ {0} : K = Pow2[2 * w]
      BY <1>3, <1>4
    <3>2. Value256(x) \in 0..(K - 1)
      BY <1>1, <1>4, <3>1
    <3> QED BY <3>1, <3>2, ShiftEnds
  <2> QED BY <1>4, <2>1, <2>2, <2>3
<1>9. CASE 0 < n /\ n < w
  <2>1. PICK p \in Nat \ {0}, q \in Nat \ {0} :
          p = Pow2[n] /\ q = Pow2[w - n] /\ LongSpan = p * q
    <3>1. w \in {WordBits, 2 * WordBits} /\ n \in 0..w
      BY <1>4, <1>9
    <3>2. /\ Pow2[n] \in Nat \ {0} /\ Pow2[w - n] \in Nat \ {0}
          /\ Pow2[w] = Pow2[n] * Pow2[w - n]
      BY <3>1, Powers, Zenon
    <3> QED BY <1>5, <3>2, Zenon
  <2>2. n \in 0..(2 * WordBits) /\ w - n \in 0..(2 * WordBits)
    BY <1>4, <1>9
  <2>3. PICK u \in Number128, v \in Number128, high \in Number128 :
          /\ high = shiftr128(upper(x), n) /\ Value128(high) = a \div p
          /\ v = shiftr128(lower(x), n) /\ Value128(v) = b \div p
          /\ u = shiftl128(upper(x), w - n) /\ Value128(u) = (a * q) % LongSpan
    BY <1>1, <1>2, <2>1, <2>2, Shiftl128Loses, Shiftr128Is
  <2>4. PICK low \in Number128 :
          /\ low = add128(v, u)
          /\ Value128(low) = (((a * q) % LongSpan) + (b \div p)) % LongSpan
    <3>1. /\ add128(v, u) \in Number128
          /\ Value128(add128(v, u)) = (Value128(v) + Value128(u)) % LongSpan
      BY Add128Is
    <3>2. Value128(v) + Value128(u) = Value128(u) + Value128(v)
      <4>1. Value128(v) \in Int /\ Value128(u) \in Int
        BY Number128Is
      <4> QED BY <4>1
    <3> QED BY <2>3, <3>1, <3>2, Zenon
  <2>5. shiftr256(x, n) = <<high, low>>
    BY <1>4, <1>9, <2>3, <2>4 DEF shiftr256
  <2>6. DownFacts(p, q, LongSpan, a, b)
    BY <1>3, <2>1, DownPair, Zenon
  <2>7. Value128(high) * LongSpan + Value128(low) = (a * LongSpan + b) \div p
    <3>1. Value128(low) = (a % p) * q + (b \div p)
      BY <2>4, <2>6, Zenon DEF DownFacts
    <3> QED BY <2>3, <2>6, <3>1, Zenon DEF DownFacts
  <2>8. /\ <<high, low>> \in Number256
        /\ Value256(<<high, low>>) = Value128(high) * LongSpan + Value128(low)
    BY Make256
  <2> QED BY <1>2, <2>1, <2>5, <2>7, <2>8, Zenon
<1>10. CASE w < n /\ n < 2 * w
  <2>1. PICK p \in Nat \ {0} : p = Pow2[n - w] /\ Pow2[n] = LongSpan * p
    <3>1. w \in {WordBits, 2 * WordBits} /\ n - w \in 0..w /\ w + (n - w) = n
      BY <1>4, <1>10
    <3>2. Pow2[n - w] \in Nat \ {0} /\ Pow2[w + (n - w)] = Pow2[w] * Pow2[n - w]
      BY <3>1, Powers, Zenon
    <3> QED BY <1>5, <3>1, <3>2, Zenon
  <2>2. n - w \in 0..(2 * WordBits)
    BY <1>4, <1>10
  <2>3. PICK low \in Number128 :
          low = shiftr128(upper(x), n - w) /\ Value128(low) = a \div p
    BY <1>1, <1>2, <2>1, <2>2, Shiftr128Is
  <2>4. shiftr256(x, n) = <<clear128, low>>
    BY <1>4, <1>10, <2>3 DEF shiftr256
  <2>5. 0 * LongSpan + (a \div p) = (a * LongSpan + b) \div (LongSpan * p)
    BY <1>3, <2>1, DownFar, Zenon
  <2>6. /\ <<clear128, low>> \in Number256
        /\ Value256(<<clear128, low>>) = 0 * LongSpan + Value128(low)
    BY Make256, Clear128
  <2> QED BY <1>2, <2>1, <2>3, <2>4, <2>5, <2>6, Zenon
<1> QED BY <1>4, <1>6, <1>7, <1>8, <1>9, <1>10

-----------------------------------------------------------------------------
(* The bits of a number: up to the highest that is set.                     *)
BitLength(v, k) == v < Pow2[k] /\ (k > 0 => Pow2[k - 1] <= v)

(* A quotient is zero if the divisor is greater.                            *)
LEMMA DivZero ==
  ASSUME NEW v \in Nat, NEW p \in Nat \ {0}
  PROVE  (v \div p # 0 <=> p <= v) /\ v \div p >= 0
<1>1. PICK s \in Int, t \in 0..(p - 1) : v = s * p + t /\ v \div p = s
  BY Split
<1>2. s >= 0
  <2>1. CASE s < 0
    <3>1. s * p <= (-1) * p
      BY <2>1, Grow
    <3> QED BY <1>1, <3>1
  <2> QED BY <2>1
<1>3. CASE s = 0
  <2>1. v = t
    BY <1>1, <1>3
  <2> QED BY <1>1, <1>3, <2>1
<1>4. CASE s # 0
  <2>1. 1 * p <= s * p
    BY <1>2, <1>4, Grow
  <2> QED BY <1>1, <1>2, <1>4, <2>1
<1> QED BY <1>3, <1>4

(* Counting the shifts that leave something gives the bit length.           *)
LEMMA BitLengthIs ==
  ASSUME NEW S \in 0..(4 * WordBits), NEW v \in 0..(Pow2[S] - 1)
  PROVE  \E k \in 0..S : /\ BitLength(v, k)
                         /\ Cardinality({n \in 0..(S - 1) : v \div Pow2[n] # 0}) = k
<1>1. \A n \in 0..S : Pow2[n] \in Nat \ {0} /\ n \in 0..(4 * WordBits)
  BY WordBitsIs, Pow2Nat
<1>2. v \in Nat /\ S \in Nat
  BY <1>1, WordBitsIs
<1> DEFINE Above == {n \in 0..S : v < Pow2[n]}
<1>3. PICK k \in Above : \A n \in Above : k <= n
  <2>1. Above \in SUBSET Nat /\ S \in Above
    BY <1>1, <1>2
  <2> HIDE DEF Above
  <2> QED BY <2>1, Least
<1>4. k \in 0..S /\ v < Pow2[k]
  BY <1>3
<1>5. k > 0 => Pow2[k - 1] <= v
  <2> SUFFICES ASSUME k > 0 PROVE Pow2[k - 1] <= v
    OBVIOUS
  <2>1. k - 1 \in 0..S /\ ~(k <= k - 1) /\ k - 1 \notin Above
    BY <1>3, <1>4
  <2>2. Pow2[k - 1] \in Nat
    BY <1>1, <2>1
  <2> QED BY <1>2, <2>1, <2>2
<1> HIDE DEF Above
<1>6. \A n \in 0..(S - 1) : v \div Pow2[n] # 0 <=> n \in 0..(k - 1)
  <2> TAKE n \in 0..(S - 1)
  <2>1. n \in 0..S /\ k \in 0..S /\ n \in Nat /\ k \in Nat
    BY <1>2, <1>4
  <2>2. PICK p \in Nat \ {0} : p = Pow2[n]
    BY <1>1, <2>1
  <2>3. v \div p # 0 <=> p <= v
    BY <1>2, DivZero
  <2>4. CASE n < k
    <3>1. k - 1 \in 0..S /\ n <= k - 1
      BY <2>1, <2>4
    <3>2. CASE n = k - 1
      BY <1>5, <2>1, <2>2, <2>3, <2>4, <3>2
    <3>3. CASE n < k - 1
      <4>1. Pow2[n] < Pow2[k - 1]
        BY <1>1, <2>1, <3>1, <3>3, Pow2Grows
      <4>2. Pow2[k - 1] \in Nat
        BY <1>1, <3>1
      <4> QED BY <1>2, <1>5, <2>1, <2>2, <2>3, <2>4, <4>1, <4>2
    <3> QED BY <2>1, <3>1, <3>2, <3>3
  <2>5. CASE k <= n
    <3>1. Pow2[k] <= Pow2[n]
      <4>1. CASE k = n
        BY <1>1, <2>1, <4>1
      <4>2. CASE k < n
        BY <1>1, <2>1, <4>2, Pow2Grows
      <4> QED BY <2>1, <2>5, <4>1, <4>2
    <3>2. Pow2[k] \in Nat
      BY <1>1, <1>4
    <3> QED BY <1>2, <1>4, <2>1, <2>2, <2>3, <2>5, <3>1, <3>2
  <2> QED BY <2>1, <2>4, <2>5
<1>7. {n \in 0..(S - 1) : v \div Pow2[n] # 0} = 0..(k - 1)
  <2>1. \A n \in 0..(k - 1) : n \in 0..(S - 1)
    BY <1>2, <1>4
  <2> QED BY <1>6, <2>1, Zenon
<1>8. Cardinality(0..(k - 1)) = k
  <2>1. 0 \in Int /\ k - 1 \in Int
    BY <1>2, <1>4
  <2>2. Cardinality(0..(k - 1)) = IF 0 > k - 1 THEN 0 ELSE (k - 1) - 0 + 1
    BY <2>1, FS_Interval
  <2> QED BY <1>2, <1>4, <2>2
<1> QED BY <1>4, <1>5, <1>7, <1>8 DEF BitLength

(* There is only one such length.                                           *)
LEMMA BitLengthOne ==
  ASSUME NEW v \in Nat, NEW j \in 0..(4 * WordBits), NEW k \in 0..(4 * WordBits),
         BitLength(v, j), BitLength(v, k)
  PROVE  j = k
<1>1. ASSUME NEW a \in 0..(4 * WordBits), NEW b \in 0..(4 * WordBits),
             BitLength(v, a), BitLength(v, b), a < b
      PROVE  FALSE
  <2>1. b - 1 \in 0..(4 * WordBits) /\ a <= b - 1
    BY <1>1, WordBitsIs
  <2>2. Pow2[a] \in Nat /\ Pow2[b - 1] \in Nat
    BY <2>1, Pow2Nat
  <2>3. Pow2[a] <= Pow2[b - 1]
    <3>1. CASE a = b - 1
      BY <2>2, <3>1
    <3>2. CASE a < b - 1
      <4>1. Pow2[a] < Pow2[b - 1]
        BY <2>1, <3>2, Pow2Grows
      <4> QED BY <2>2, <4>1
    <3> QED BY <2>1, <3>1, <3>2, WordBitsIs
  <2>4. v < Pow2[a] /\ Pow2[b - 1] <= v
    BY <1>1, WordBitsIs DEF BitLength
  <2> QED BY <2>2, <2>3, <2>4
<1>2. j \in Int /\ k \in Int
  BY WordBitsIs
<1> QED BY <1>1, <1>2

(* The bits of an upper half stand above those of a lower.                  *)
LEMMA BitLengthPair ==
  ASSUME NEW S \in {WordBits, 2 * WordBits}, NEW k \in 0..S,
         NEW a \in 0..(Pow2[S] - 1), NEW b \in 0..(Pow2[S] - 1),
         a # 0, BitLength(a, k)
  PROVE  BitLength(a * Pow2[S] + b, S + k) /\ k > 0
<1>1. S \in Nat \ {0} /\ k \in Nat
  BY WordBitsIs
<1>2. PICK K \in Nat \ {0} : K = Pow2[S]
  <2>1. S \in 0..S
    BY <1>1
  <2> QED BY <2>1, Powers
<1>3. PICK p \in Nat \ {0} : p = Pow2[k] /\ Pow2[S + k] = p * K
  BY <1>2, Powers
<1>4. a < p /\ a \in Nat /\ b \in 0..(K - 1)
  BY <1>2, <1>3 DEF BitLength
<1>5. a * K + b < p * K
  <2>1. (a + 1) * K <= p * K
    BY <1>2, <1>4, Grow
  <2>2. (a + 1) * K = a * K + 1 * K
    BY <1>2, <1>4, Ring
  <2> QED BY <1>2, <1>4, <2>1, <2>2
<1>6. k > 0
  <2>1. Pow2[0] = 1
    BY Pow2Is
  <2> QED BY <1>1, <1>3, <1>4, <2>1
<1>7. PICK q \in Nat \ {0} : q = Pow2[k - 1] /\ Pow2[S + (k - 1)] = q * K /\ q <= a
  <2>1. k - 1 \in 0..S
    BY <1>1, <1>6
  <2>2. Pow2[k - 1] \in Nat \ {0} /\ Pow2[S + (k - 1)] = Pow2[k - 1] * Pow2[S]
    BY <2>1, Powers, Zenon
  <2>3. Pow2[k - 1] <= a
    BY <1>6 DEF BitLength
  <2> QED BY <1>2, <2>2, <2>3
<1>8. q * K <= a * K + b
  <2>1. q * K <= a * K
    BY <1>2, <1>4, <1>7, Grow
  <2> QED BY <1>2, <1>4, <1>7, <2>1
<1>9. S + (k - 1) = (S + k) - 1
  BY <1>1
<1>10. a * K + b < Pow2[S + k] /\ Pow2[(S + k) - 1] <= a * K + b
  BY <1>3, <1>5, <1>7, <1>8, <1>9, Zenon
<1> QED BY <1>2, <1>6, <1>10, Zenon DEF BitLength

(* A number is zero if both words are (uint256.c:43-45).                    *)
LEMMA Zero128Is ==
  ASSUME NEW x \in Number128
  PROVE  /\ zero128(x) <=> Value128(x) = 0
         /\ zero128(x) <=> x = clear128
<1>1. zero128(x) <=> x = clear128
  BY Number128Is DEF zero128, clear128
<1>2. x = clear128 <=> Value128(x) = 0
  BY Clear128, Order128
<1> QED BY <1>1, <1>2

(* The loop over the places of a word (uint256.c:166-178).                  *)
LEMMA BitsWordIs ==
  ASSUME NEW a \in 0..(WordSpan - 1)
  PROVE  bitsWord(a) \in 0..WordBits /\ BitLength(a, bitsWord(a))
<1>1. WordBits \in 0..(4 * WordBits)
  BY WordBitsIs
<1>2. PICK k \in 0..WordBits :
        /\ BitLength(a, k)
        /\ Cardinality({n \in 0..(WordBits - 1) : a \div Pow2[n] # 0}) = k
  <2>1. a \in 0..(Pow2[WordBits] - 1)
    BY DEF WordSpan
  <2> QED BY <1>1, <2>1, BitLengthIs
<1> QED BY <1>2 DEF bitsWord, rightWord

(* The bit length of two words (uint256.c:163-180).                         *)
LEMMA Bits128Is ==
  ASSUME NEW x \in Number128
  PROVE  bits128(x) \in 0..(2 * WordBits) /\ BitLength(Value128(x), bits128(x))
<1>1. PICK a \in 0..(WordSpan - 1), b \in 0..(WordSpan - 1) :
        a = upper(x) /\ b = lower(x) /\ Value128(x) = a * WordSpan + b
  BY Number128Is
<1>2. WordBits \in Nat \ {0} /\ WordSpan \in Nat \ {0}
  BY WordBitsIs, Spans
<1>3. CASE a = 0
  <2>1. bits128(x) = bitsWord(b)
    BY <1>1, <1>3 DEF bits128
  <2>2. a * WordSpan + b = b
    BY <1>2, <1>3
  <2> QED BY <1>1, <1>2, <2>1, <2>2, BitsWordIs
<1>4. CASE a # 0
  <2>1. PICK k \in 0..WordBits : k = bitsWord(a) /\ BitLength(a, k)
    BY BitsWordIs
  <2>2. bits128(x) = WordBits + k
    BY <1>1, <1>4, <2>1 DEF bits128
  <2>3. BitLength(a * WordSpan + b, WordBits + k)
    <3>1. /\ WordBits \in {WordBits, 2 * WordBits}
          /\ a \in 0..(Pow2[WordBits] - 1) /\ b \in 0..(Pow2[WordBits] - 1)
      BY DEF WordSpan
    <3>2. BitLength(a * Pow2[WordBits] + b, WordBits + k)
      BY <1>4, <2>1, <3>1, BitLengthPair, Zenon
    <3> QED BY <3>2 DEF WordSpan
  <2>4. WordBits + k \in 0..(2 * WordBits)
    BY <1>2
  <2> QED BY <1>1, <2>2, <2>3, <2>4, Zenon
<1> QED BY <1>3, <1>4

(* The loop over the places of a half (uint256.c:184-199).                  *)
LEMMA ShiftsOutIs ==
  ASSUME NEW x \in Number128
  PROVE  shiftsOut(x) \in 0..(2 * WordBits) /\ BitLength(Value128(x), shiftsOut(x))
<1>1. 2 * WordBits \in 0..(4 * WordBits) /\ 2 * WordBits \in Nat
  BY WordBitsIs
<1>2. Value128(x) \in 0..(Pow2[2 * WordBits] - 1)
  BY Number128Is DEF LongSpan
<1>3. PICK k \in 0..(2 * WordBits) :
        /\ BitLength(Value128(x), k)
        /\ Cardinality({n \in 0..(2 * WordBits - 1) : Value128(x) \div Pow2[n] # 0}) = k
  BY <1>1, <1>2, BitLengthIs
<1>4. \A n \in 0..(2 * WordBits - 1) :
        ~zero128(shiftr128(x, n)) <=> Value128(x) \div Pow2[n] # 0
  <2> TAKE n \in 0..(2 * WordBits - 1)
  <2>1. n \in 0..(2 * WordBits)
    BY <1>1
  <2>2. /\ shiftr128(x, n) \in Number128
        /\ Value128(shiftr128(x, n)) = Value128(x) \div Pow2[n]
    BY <2>1, Shiftr128Is
  <2> QED BY <2>2, Zero128Is, Zenon
<1>5. {n \in 0..(2 * WordBits - 1) : ~zero128(shiftr128(x, n))}
        = {n \in 0..(2 * WordBits - 1) : Value128(x) \div Pow2[n] # 0}
  BY <1>4, Zenon
<1> QED BY <1>3, <1>5, Zenon DEF shiftsOut

(* The bit length of two halves (uint256.c:182-201).                        *)
LEMMA Bits256Is ==
  ASSUME NEW x \in Number256
  PROVE  bits256(x) \in 0..(4 * WordBits) /\ BitLength(Value256(x), bits256(x))
<1>1. upper(x) \in Number128 /\ lower(x) \in Number128
  BY Number256Is
<1>2. PICK a \in 0..(LongSpan - 1), b \in 0..(LongSpan - 1) :
        /\ a = Value128(upper(x)) /\ b = Value128(lower(x))
        /\ Value256(x) = a * LongSpan + b
  BY Number256Is
<1>3. WordBits \in Nat \ {0} /\ LongSpan \in Nat \ {0}
  BY WordBitsIs, Spans
<1>4. zero128(upper(x)) <=> a = 0
  BY <1>1, <1>2, Zero128Is
<1>5. CASE a = 0
  <2>1. bits256(x) = shiftsOut(lower(x))
    BY <1>4, <1>5 DEF bits256
  <2>2. a * LongSpan + b = b
    BY <1>3, <1>5
  <2>3. shiftsOut(lower(x)) \in 0..(2 * WordBits) /\ BitLength(b, shiftsOut(lower(x)))
    BY <1>1, <1>2, ShiftsOutIs
  <2>4. \A k \in 0..(2 * WordBits) : k \in 0..(4 * WordBits)
    BY <1>3
  <2> QED BY <1>2, <2>1, <2>2, <2>3, <2>4, Zenon
<1>6. CASE a # 0
  <2>1. PICK k \in 0..(2 * WordBits) : k = shiftsOut(upper(x)) /\ BitLength(a, k)
    BY <1>1, <1>2, ShiftsOutIs
  <2>2. bits256(x) = 2 * WordBits + k
    BY <1>4, <1>6, <2>1 DEF bits256
  <2>3. BitLength(a * LongSpan + b, 2 * WordBits + k)
    <3>1. /\ 2 * WordBits \in {WordBits, 2 * WordBits}
          /\ a \in 0..(Pow2[2 * WordBits] - 1) /\ b \in 0..(Pow2[2 * WordBits] - 1)
      BY DEF LongSpan
    <3>2. BitLength(a * Pow2[2 * WordBits] + b, 2 * WordBits + k)
      BY <1>6, <2>1, <3>1, BitLengthPair, Zenon
    <3> QED BY <3>2 DEF LongSpan
  <2>4. 2 * WordBits + k \in 0..(4 * WordBits)
    BY <1>3
  <2> QED BY <1>2, <2>2, <2>3, <2>4, Zenon
<1> QED BY <1>5, <1>6

-----------------------------------------------------------------------------
(* One bit more.                                                            *)
LEMMA ModDoubled ==
  ASSUME NEW v \in Int, NEW p \in Nat \ {0}
  PROVE  v % (2 * p) = ((v \div p) % 2) * p + (v % p)
<1>1. PICK s \in Int, t \in 0..(p - 1) : v = s * p + t /\ v \div p = s /\ v % p = t
  BY Split
<1>2. PICK u \in Int, e \in 0..1 : s = u * 2 + e /\ s % 2 = e
  OBVIOUS
<1>3. v = u * (2 * p) + (e * p + t)
  <2>1. (u * 2 + e) * p = (u * 2) * p + e * p /\ (u * 2) * p = u * (2 * p)
    BY Ring
  <2> QED BY <1>1, <1>2, <2>1
<1>4. e * p + t \in 0..(2 * p - 1)
  <2>1. CASE e = 0
    BY <2>1
  <2>2. CASE e = 1
    BY <2>2
  <2> QED BY <2>1, <2>2
<1>5. PICK k \in Nat \ {0} : k = 2 * p
  OBVIOUS
<1>6. v % k = e * p + t
  BY <1>3, <1>4, <1>5, DivIs
<1> QED BY <1>1, <1>2, <1>5, <1>6

(* A bit is zero or one.                                                    *)
LEMMA BitIs ==
  ASSUME NEW v \in Int, NEW n \in 0..(4 * WordBits)
  PROVE  bit(v, n) \in {0, 1} /\ bit(v, n) = (v \div Pow2[n]) % 2
<1>1. v \div Pow2[n] \in Int
  BY Pow2Nat, Split
<1> QED BY <1>1 DEF bit

(* A word is its bits.                                                      *)
LEMMA WordIsBits ==
  ASSUME NEW a \in 0..(WordSpan - 1), NEW b \in 0..(WordSpan - 1),
         \A n \in 0..(WordBits - 1) : bit(a, n) = bit(b, n)
  PROVE  a = b
<1>1. /\ WordBits \in Nat \ {0} /\ WordSpan \in Nat \ {0} /\ a \in Int /\ b \in Int
      /\ Pow2[0] = 1 /\ Pow2[WordBits] = WordSpan
  BY WordBitsIs, Spans, Pow2Is DEF WordSpan
<1> DEFINE Bad == {k \in 0..WordBits : a % Pow2[k] # b % Pow2[k]}
<1>2. Bad = {}
  <2> SUFFICES ASSUME Bad # {} PROVE FALSE
    OBVIOUS
  <2>1. PICK k \in Bad : \A j \in Bad : k <= j
    <3>1. Bad \in SUBSET Nat
      BY <1>1
    <3> HIDE DEF Bad
    <3> QED BY <3>1, Least
  <2>2. k # 0
    <3>1. a % 1 = b % 1
      BY <1>1
    <3> QED BY <1>1, <2>1, <3>1
  <2>3. k \in 1..WordBits /\ k - 1 \in 0..(WordBits - 1) /\ k - 1 \notin Bad /\ k - 1 \in 0..WordBits
    BY <1>1, <2>1, <2>2
  <2>4. a % Pow2[k - 1] = b % Pow2[k - 1]
    BY <2>3
  <2>5. PICK p \in Nat \ {0} : p = Pow2[k - 1] /\ Pow2[k] = 2 * p
    <3>1. k - 1 \in 0..(4 * WordBits) /\ k \in 1..(4 * WordBits)
      BY <1>1, <2>3
    <3> QED BY <3>1, Pow2Is
  <2>6. (a \div p) % 2 = (b \div p) % 2
    <3>1. bit(a, k - 1) = bit(b, k - 1)
      BY <2>3
    <3> QED BY <2>5, <3>1 DEF bit
  <2>7. /\ a % (2 * p) = ((a \div p) % 2) * p + (a % p)
        /\ b % (2 * p) = ((b \div p) % 2) * p + (b % p)
    BY <1>1, ModDoubled
  <2>8. a % Pow2[k] = b % Pow2[k]
    BY <2>4, <2>5, <2>6, <2>7, Zenon
  <2> QED BY <2>1, <2>8
<1>3. a % WordSpan = b % WordSpan
  <2>1. WordBits \in 0..WordBits
    BY <1>1
  <2> QED BY <1>1, <1>2, <2>1
<1>4. a = 0 * WordSpan + a /\ b = 0 * WordSpan + b
  BY <1>1
<1>5. a % WordSpan = a /\ b % WordSpan = b
  BY <1>1, <1>4, DivIs
<1> QED BY <1>3, <1>5

(* Adding a bit that is clear changes none above.                           *)
LEMMA AddedAbove ==
  ASSUME NEW v \in Nat, NEW p \in Nat \ {0}, NEW h \in Nat \ {0}, (v \div p) % 2 = 0
  PROVE  (v + p) \div (p * (2 * h)) = v \div (p * (2 * h))
<1>1. PICK s \in Int, t \in 0..(p - 1) : v = s * p + t /\ v \div p = s
  BY Split
<1>2. PICK u \in Int : s = 2 * u
  BY <1>1
<1>3. (v + p) \div p = s + 1
  <2>1. v + p = (s + 1) * p + t /\ v + p \in Int /\ s + 1 \in Int
    <3>1. (s + 1) * p = s * p + 1 * p
      BY Ring
    <3> QED BY <1>1, <3>1
  <2> QED BY <2>1, DivIs
<1>4. s \div 2 = u /\ (s + 1) \div 2 = u
  BY <1>2
<1>5. PICK k \in Nat \ {0}, m \in Nat \ {0}, d \in Nat \ {0} : k = p * (2 * h) /\ m = 2 * h /\ d = 2
  OBVIOUS
<1>6. v \div k = (v \div p) \div m /\ (v + p) \div k = ((v + p) \div p) \div m
  <2>1. PICK e \in Int : e = v + p
    OBVIOUS
  <2>2. v \in Int /\ k = p * m
    BY <1>5
  <2>3. v \div k = (v \div p) \div m
    <3>1. Twice(p, m, k, v)
      BY <2>2, DivTwice
    <3> QED BY <3>1 DEF Twice
  <2>4. e \div k = (e \div p) \div m
    <3>1. Twice(p, m, k, e)
      BY <2>2, DivTwice
    <3> QED BY <3>1 DEF Twice
  <2> QED BY <2>1, <2>3, <2>4, Zenon
<1>7. s \div m = (s \div d) \div h /\ (s + 1) \div m = ((s + 1) \div d) \div h
  <2>1. PICK e \in Int : e = s + 1
    OBVIOUS
  <2>2. m = d * h
    BY <1>5
  <2>3. s \div m = (s \div d) \div h
    <3>1. Twice(d, h, m, s)
      BY <2>2, DivTwice
    <3> QED BY <3>1 DEF Twice
  <2>4. e \div m = (e \div d) \div h
    <3>1. Twice(d, h, m, e)
      BY <2>2, DivTwice
    <3> QED BY <3>1 DEF Twice
  <2> QED BY <2>1, <2>3, <2>4, Zenon
<1>8. s \div d = (s + 1) \div d
  BY <1>4, <1>5
<1> QED BY <1>1, <1>3, <1>5, <1>6, <1>7, <1>8, Zenon

(* No bit set leaves a word as it is.                                       *)
LEMMA OrNothing ==
  ASSUME NEW a \in 0..(WordSpan - 1)
  PROVE  orWord(a, 0) = a
<1>1. WordBits \in Nat \ {0} /\ WordSpan \in Nat \ {0} /\ Word = 0..(WordSpan - 1) /\ a \in Int
  BY WordBitsIs, Spans
<1> DEFINE Or(o) == \A n \in 0..(WordBits - 1) :
                      bit(o, n) = IF bit(a, n) = 1 THEN 1 ELSE bit(0, n)
<1>2. \A n \in 0..(WordBits - 1) : bit(a, n) \in {0, 1} /\ bit(0, n) = 0
  <2> TAKE n \in 0..(WordBits - 1)
  <2>1. n \in 0..(4 * WordBits)
    BY <1>1
  <2>2. PICK p \in Nat \ {0} : p = Pow2[n]
    BY <2>1, Pow2Nat
  <2>3. 0 \div p = 0
    <3>1. 0 = 0 * p + 0 /\ 0 \in 0..(p - 1)
      OBVIOUS
    <3> QED BY <3>1, DivIs
  <2> QED BY <1>1, <2>1, <2>2, <2>3, BitIs DEF bit
<1>3. Or(a)
  BY <1>2
<1>4. \A o \in Word : Or(o) => o = a
  <2> TAKE o \in Word
  <2> SUFFICES ASSUME Or(o) PROVE o = a
    OBVIOUS
  <2>1. \A n \in 0..(WordBits - 1) : bit(o, n) = bit(a, n)
    BY <1>2
  <2> QED BY <1>1, <2>1, WordIsBits
<1>5. orWord(a, 0) = CHOOSE o \in Word : Or(o)
  BY DEF orWord
<1> HIDE DEF Or
<1> QED BY <1>1, <1>3, <1>4, <1>5

(* Setting a bit that is clear adds it.                                     *)
LEMMA OrBit ==
  ASSUME NEW a \in 0..(WordSpan - 1), NEW n \in 0..(WordBits - 1), (a \div Pow2[n]) % 2 = 0
  PROVE  orWord(a, Pow2[n]) = a + Pow2[n] /\ a + Pow2[n] \in 0..(WordSpan - 1)
<1>1. /\ WordBits \in Nat \ {0} /\ WordSpan \in Nat \ {0} /\ Word = 0..(WordSpan - 1)
      /\ a \in Nat /\ n \in Nat
  BY WordBitsIs, Spans
<1>2. PICK p \in Nat \ {0} : p = Pow2[n]
  <2>1. n \in 0..(4 * WordBits)
    BY <1>1
  <2> QED BY <2>1, Pow2Nat
<1>3. ASSUME NEW m \in 0..WordBits, m > n
      PROVE  (a + p) \div Pow2[m] = a \div Pow2[m] /\ Pow2[m] \in Nat \ {0} /\ p < Pow2[m]
  <2>1. /\ (m - n) - 1 \in 0..(4 * WordBits) /\ m - n \in 1..(4 * WordBits)
        /\ m - n \in Nat /\ n + (m - n) = m /\ n + (m - n) <= 4 * WordBits
        /\ n \in 0..(4 * WordBits) /\ m \in 0..(4 * WordBits)
    BY <1>1, <1>3
  <2>2. PICK h \in Nat \ {0} : h = Pow2[(m - n) - 1] /\ Pow2[m - n] = 2 * h
    BY <2>1, Pow2Is
  <2>3. Pow2[m] = p * (2 * h)
    <3>1. Pow2[n + (m - n)] = Pow2[n] * Pow2[m - n]
      BY <1>1, <2>1, Pow2Adds
    <3> QED BY <1>2, <2>1, <2>2, <3>1, Zenon
  <2>4. (a \div p) % 2 = 0
    BY <1>2
  <2>5. (a + p) \div (p * (2 * h)) = a \div (p * (2 * h))
    BY <1>1, <2>4, AddedAbove
  <2>6. p < Pow2[m] /\ Pow2[m] \in Nat \ {0}
    BY <1>2, <1>3, <2>1, Pow2Grows, Pow2Nat
  <2> QED BY <2>3, <2>5, <2>6, Zenon
<1>4. a + p \in 0..(WordSpan - 1)
  <2>1. WordBits \in 0..WordBits /\ WordBits > n
    BY <1>1
  <2>2. (a + p) \div WordSpan = a \div WordSpan
    BY <1>3, <2>1, Zenon DEF WordSpan
  <2>3. PICK e \in Nat : e = a + p
    BY <1>1
  <2>4. /\ a \div WordSpan # 0 <=> WordSpan <= a
        /\ e \div WordSpan # 0 <=> WordSpan <= e
    BY <1>1, DivZero
  <2>5. ~(WordSpan <= a)
    BY <1>1
  <2>6. ~(WordSpan <= e)
    BY <2>2, <2>3, <2>4, <2>5, Zenon
  <2> QED BY <1>1, <2>3, <2>6
<1> DEFINE Or(o) == \A m \in 0..(WordBits - 1) :
                      bit(o, m) = IF bit(a, m) = 1 THEN 1 ELSE bit(p, m)
<1>5. \A m \in 0..(WordBits - 1) : bit(a, m) \in {0, 1} /\ m \in 0..(4 * WordBits)
  <2> TAKE m \in 0..(WordBits - 1)
  <2>1. m \in 0..(4 * WordBits) /\ a \in Int
    BY <1>1
  <2> QED BY <2>1, BitIs
<1>6. ASSUME NEW m \in 0..(WordBits - 1)
      PROVE  bit(a + p, m) = IF bit(a, m) = 1 THEN 1 ELSE bit(p, m)
  <2>1. CASE m = n
    <3>1. PICK s \in Int, t \in 0..(p - 1) : a = s * p + t /\ a \div p = s
      <4>1. a \in Int
        BY <1>1
      <4> QED BY <4>1, Split
    <3>2. (a + p) \div p = s + 1
      <4>1. a + p = (s + 1) * p + t /\ a + p \in Int /\ s + 1 \in Int
        <5>1. (s + 1) * p = s * p + 1 * p
          BY Ring
        <5> QED BY <1>1, <3>1, <5>1
      <4> QED BY <4>1, DivIs
    <3>3. s % 2 = 0 /\ (s + 1) % 2 = 1
      BY <1>2, <3>1
    <3>4. p \div p = 1
      <4>1. p = 1 * p + 0 /\ 0 \in 0..(p - 1)
        OBVIOUS
      <4> QED BY <4>1, DivIs
    <3>5. bit(a + p, m) = 1 /\ bit(a, m) = 0 /\ bit(p, m) = 1
      BY <1>2, <2>1, <3>1, <3>2, <3>3, <3>4 DEF bit
    <3> QED BY <3>5
  <2>2. CASE m < n
    <3>1. /\ (n - m) - 1 \in 0..(4 * WordBits) /\ n - m \in 1..(4 * WordBits)
          /\ n - m \in Nat /\ m \in Nat /\ m + (n - m) = n /\ m + (n - m) <= 4 * WordBits
      BY <1>1, <2>2
    <3>2. PICK h \in Nat \ {0}, r \in Nat \ {0} :
            h = Pow2[(n - m) - 1] /\ Pow2[n - m] = 2 * h /\ r = Pow2[m]
      BY <1>5, <3>1, Pow2Is
    <3>3. p = r * (2 * h) /\ r * (2 * h) = (2 * h) * r
      <4>1. Pow2[m + (n - m)] = Pow2[m] * Pow2[n - m]
        BY <3>1, Pow2Adds
      <4>2. p = r * (2 * h)
        BY <1>2, <3>1, <3>2, <4>1, Zenon
      <4> QED BY <4>2
    <3>4. PICK s \in Int, t \in 0..(r - 1) : a = s * r + t /\ a \div r = s
      <4>1. a \in Int
        BY <1>1
      <4> QED BY <4>1, Split
    <3>5. (a + p) \div r = s + 2 * h
      <4>1. a + p = (s + 2 * h) * r + t /\ a + p \in Int /\ s + 2 * h \in Int
        <5>1. (s + 2 * h) * r = s * r + (2 * h) * r
          BY Ring
        <5> QED BY <1>1, <3>3, <3>4, <5>1
      <4> QED BY <4>1, DivIs
    <3>6. p \div r = 2 * h
      <4>1. p = (2 * h) * r + 0 /\ 0 \in 0..(r - 1) /\ p \in Int /\ 2 * h \in Int
        BY <3>3
      <4> QED BY <4>1, DivIs
    <3>7. (s + 2 * h) % 2 = s % 2 /\ (2 * h) % 2 = 0 /\ s % 2 \in {0, 1}
      OBVIOUS
    <3>8. bit(a + p, m) = s % 2 /\ bit(a, m) = s % 2 /\ bit(p, m) = 0
      BY <3>2, <3>4, <3>5, <3>6, <3>7, Zenon DEF bit
    <3> QED BY <3>7, <3>8
  <2>3. CASE m > n
    <3>1. m \in 0..WordBits
      BY <1>1
    <3>2. (a + p) \div Pow2[m] = a \div Pow2[m] /\ Pow2[m] \in Nat \ {0} /\ p < Pow2[m]
      BY <1>3, <2>3, <3>1, Zenon
    <3>3. p \div Pow2[m] = 0
      <4>1. PICK k \in Nat \ {0} : k = Pow2[m] /\ p < k
        BY <3>2
      <4>2. p = 0 * k + p /\ p \in 0..(k - 1) /\ p \in Int
        BY <4>1
      <4> QED BY <4>1, <4>2, DivIs
    <3>4. bit(a + p, m) = bit(a, m) /\ bit(p, m) = 0
      BY <3>2, <3>3 DEF bit
    <3> QED BY <1>5, <3>4
  <2>4. m \in Int
    BY <1>1
  <2> QED BY <1>1, <2>1, <2>2, <2>3, <2>4
<1>7. Or(a + p)
  BY <1>6
<1>8. \A o \in Word : Or(o) => o = a + p
  <2> TAKE o \in Word
  <2> SUFFICES ASSUME Or(o) PROVE o = a + p
    OBVIOUS
  <2>1. \A m \in 0..(WordBits - 1) : bit(o, m) = bit(a + p, m)
    BY <1>6
  <2> QED BY <1>1, <1>4, <2>1, WordIsBits
<1>9. orWord(a, p) = CHOOSE o \in Word : Or(o)
  BY DEF orWord
<1> HIDE DEF Or
<1> QED BY <1>1, <1>2, <1>4, <1>7, <1>8, <1>9

(* Where a bit of a number stands in its halves.                            *)
LEMMA BitInLower ==
  ASSUME NEW S \in {WordBits, 2 * WordBits}, NEW n \in 0..(S - 1),
         NEW a \in Nat, NEW b \in Nat
  PROVE  ((a * Pow2[S] + b) \div Pow2[n]) % 2 = (b \div Pow2[n]) % 2
<1>1. /\ n \in 0..S /\ (S - n) - 1 \in 0..(4 * WordBits) /\ S - n \in 1..(4 * WordBits)
      /\ S \in 0..S
  BY WordBitsIs
<1>2. PICK p \in Nat \ {0}, h \in Nat \ {0} :
        p = Pow2[n] /\ h = Pow2[(S - n) - 1] /\ Pow2[S - n] = 2 * h
  <2>1. Pow2[n] \in Nat \ {0}
    BY <1>1, Powers, Zenon
  <2>2. Pow2[(S - n) - 1] \in Nat \ {0}
    BY <1>1, Pow2Nat, Zenon
  <2>3. Pow2[S - n] = 2 * Pow2[(S - n) - 1]
    BY <1>1, Pow2Is, Zenon
  <2> QED BY <2>1, <2>2, <2>3, Zenon
<1>3. PICK K \in Nat \ {0} : K = Pow2[S] /\ K = p * (2 * h)
  <2>1. Pow2[S] \in Nat \ {0}
    BY <1>1, Powers, Zenon
  <2>2. Pow2[S] = Pow2[n] * Pow2[S - n]
    BY <1>1, Powers, Zenon
  <2> QED BY <1>2, <2>1, <2>2, Zenon
<1>4. PICK s \in Int, t \in 0..(p - 1) : b = s * p + t /\ b \div p = s
  <2>1. b \in Int
    OBVIOUS
  <2> QED BY <2>1, Split
<1>5. PICK m \in Int : m = 2 * (a * h)
  OBVIOUS
<1>6. a * K = m * p
  <2>1. a * (p * (2 * h)) = (2 * (a * h)) * p
    OBVIOUS
  <2> QED BY <1>3, <1>5, <2>1
<1>7. (a * K + b) \div p = m + s
  <2>1. a * K + b = (m + s) * p + t
    <3>1. (m + s) * p = m * p + s * p
      BY Ring
    <3> QED BY <1>4, <1>6, <3>1
  <2>2. a * K + b \in Int /\ m + s \in Int
    OBVIOUS
  <2> QED BY <2>1, <2>2, DivIs
<1>8. (m + s) % 2 = s % 2
  BY <1>5
<1> QED BY <1>2, <1>3, <1>4, <1>7, <1>8, Zenon

(* A bit of the upper half.                                                 *)
LEMMA BitInUpper ==
  ASSUME NEW S \in {WordBits, 2 * WordBits}, NEW n \in 0..S,
         NEW a \in Nat, NEW b \in 0..(Pow2[S] - 1)
  PROVE  (a * Pow2[S] + b) \div Pow2[S + n] = a \div Pow2[n]
<1>1. PICK K \in Nat \ {0}, p \in Nat \ {0}, k \in Nat \ {0} :
        K = Pow2[S] /\ p = Pow2[n] /\ k = Pow2[S + n] /\ k = K * p
  <2>1. Pow2[S] \in Nat \ {0}
    <3>1. S \in 0..S
      BY WordBitsIs
    <3> QED BY <3>1, Powers, Zenon
  <2>2. Pow2[n] \in Nat \ {0} /\ Pow2[S + n] = Pow2[S] * Pow2[n]
    BY Powers, Zenon
  <2>3. Pow2[S] * Pow2[n] \in Nat \ {0}
    BY <2>1, <2>2
  <2> QED BY <2>1, <2>2, <2>3, Zenon
<1>2. PICK v \in Int : v = a * K + b
  BY <1>1
<1>3. v \div K = a
  <2>1. b \in 0..(K - 1) /\ a \in Int
    BY <1>1
  <2>2. (a * K + b) \div K = a
    BY <2>1, PairParts
  <2> QED BY <1>2, <2>2, Zenon
<1>4. v \div k = (v \div K) \div p
  <2>1. Twice(K, p, k, v)
    BY <1>1, DivTwice
  <2> QED BY <2>1 DEF Twice
<1> QED BY <1>1, <1>2, <1>3, <1>4, Zenon

(* No bit set leaves a number as it is.                                     *)
LEMMA Or128Nothing ==
  ASSUME NEW x \in Number128
  PROVE  or128(x, clear128) = x
<1>1. /\ upper(x) \in 0..(WordSpan - 1) /\ lower(x) \in 0..(WordSpan - 1)
      /\ x = <<upper(x), lower(x)>>
  BY Number128Is
<1>2. orWord(upper(x), 0) = upper(x) /\ orWord(lower(x), 0) = lower(x)
  BY <1>1, OrNothing
<1>3. upper(clear128) = 0 /\ lower(clear128) = 0
  BY DEF clear128, upper, lower
<1> QED BY <1>1, <1>2, <1>3, Zenon DEF or128

(* The number that is a power of two has one half that is, the other zero.  *)
LEMMA Or128Is ==
  ASSUME NEW x \in Number128, NEW y \in Number128, NEW n \in 0..(2 * WordBits - 1),
         Value128(y) = Pow2[n], (Value128(x) \div Pow2[n]) % 2 = 0
  PROVE  or128(x, y) \in Number128 /\ Value128(or128(x, y)) = Value128(x) + Pow2[n]
<1>1. PICK a \in 0..(WordSpan - 1), b \in 0..(WordSpan - 1) :
        a = upper(x) /\ b = lower(x) /\ Value128(x) = a * WordSpan + b
  BY Number128Is
<1>2. /\ WordSpan \in Nat \ {0} /\ 0 \in 0..(WordSpan - 1) /\ a \in Nat /\ b \in Nat
      /\ WordBits \in Nat \ {0} /\ WordBits \in {WordBits, 2 * WordBits}
  BY Spans, WordBitsIs
<1>3. CASE n < WordBits
  <2>1. n \in 0..(WordBits - 1) /\ n \in 0..(4 * WordBits) /\ WordBits \in 0..(4 * WordBits)
    BY <1>2, <1>3
  <2>2. Pow2[n] \in 0..(WordSpan - 1)
    <3>1. Pow2[n] \in Nat /\ Pow2[n] < WordSpan
      BY <1>3, <2>1, Pow2Nat, Pow2Grows DEF WordSpan
    <3> QED BY <1>2, <3>1
  <2>3. y = <<0, Pow2[n]>>
    <3>1. <<0, Pow2[n]>> \in Number128 /\ Value128(<<0, Pow2[n]>>) = 0 * WordSpan + Pow2[n]
      BY <1>2, <2>2, Make128
    <3>2. 0 * WordSpan + Pow2[n] = Pow2[n]
      BY <1>2, <2>2
    <3> QED BY <3>1, <3>2, Order128
  <2>4. (b \div Pow2[n]) % 2 = 0
    <3>1. ((a * Pow2[WordBits] + b) \div Pow2[n]) % 2 = (b \div Pow2[n]) % 2
      BY <1>2, <2>1, BitInLower, Zenon
    <3> QED BY <1>1, <3>1, Zenon DEF WordSpan
  <2>5. orWord(b, Pow2[n]) = b + Pow2[n] /\ b + Pow2[n] \in 0..(WordSpan - 1)
    BY <2>1, <2>4, OrBit
  <2>6. or128(x, y) = <<a, b + Pow2[n]>>
    <3>1. upper(y) = 0 /\ lower(y) = Pow2[n]
      BY <2>3 DEF upper, lower
    <3>2. orWord(a, 0) = a
      BY OrNothing
    <3> QED BY <1>1, <2>5, <3>1, <3>2, Zenon DEF or128
  <2>7. /\ <<a, b + Pow2[n]>> \in Number128
        /\ Value128(<<a, b + Pow2[n]>>) = a * WordSpan + (b + Pow2[n])
    BY <2>5, Make128
  <2>8. a * WordSpan + (b + Pow2[n]) = (a * WordSpan + b) + Pow2[n]
    <3>1. Pow2[n] \in Int
      BY <2>2
    <3> QED BY <1>2, <3>1
  <2> QED BY <1>1, <2>6, <2>7, <2>8, Zenon
<1>4. CASE n >= WordBits
  <2>1. PICK m \in 0..(WordBits - 1) : m = n - WordBits /\ n = WordBits + m
    BY <1>2, <1>4
  <2>2. m \in 0..(4 * WordBits) /\ m \in 0..WordBits /\ WordBits \in 0..(4 * WordBits)
    BY <1>2
  <2>3. Pow2[m] \in 0..(WordSpan - 1) /\ Pow2[n] = Pow2[m] * WordSpan
    <3>1. Pow2[m] \in Nat /\ Pow2[m] < WordSpan
      BY <1>2, <2>2, Pow2Nat, Pow2Grows DEF WordSpan
    <3>2. Pow2[WordBits + m] = Pow2[m] * Pow2[WordBits]
      BY <1>2, <2>2, Powers, Zenon
    <3> QED BY <1>2, <2>1, <3>1, <3>2 DEF WordSpan
  <2>4. y = <<Pow2[m], 0>>
    <3>1. <<Pow2[m], 0>> \in Number128 /\ Value128(<<Pow2[m], 0>>) = Pow2[m] * WordSpan + 0
      BY <1>2, <2>3, Make128
    <3>2. Pow2[m] * WordSpan + 0 = Pow2[n]
      BY <1>2, <2>3
    <3> QED BY <3>1, <3>2, Order128
  <2>5. (a \div Pow2[m]) % 2 = 0
    <3>1. b \in 0..(Pow2[WordBits] - 1)
      BY DEF WordSpan
    <3>2. (a * Pow2[WordBits] + b) \div Pow2[WordBits + m] = a \div Pow2[m]
      BY <1>2, <2>2, <3>1, BitInUpper, Zenon
    <3> QED BY <1>1, <2>1, <3>2, Zenon DEF WordSpan
  <2>6. orWord(a, Pow2[m]) = a + Pow2[m] /\ a + Pow2[m] \in 0..(WordSpan - 1)
    BY <2>5, OrBit
  <2>7. or128(x, y) = <<a + Pow2[m], b>>
    <3>1. upper(y) = Pow2[m] /\ lower(y) = 0
      BY <2>4 DEF upper, lower
    <3>2. orWord(b, 0) = b
      BY OrNothing
    <3> QED BY <1>1, <2>6, <3>1, <3>2, Zenon DEF or128
  <2>8. /\ <<a + Pow2[m], b>> \in Number128
        /\ Value128(<<a + Pow2[m], b>>) = (a + Pow2[m]) * WordSpan + b
    BY <2>6, Make128
  <2>9. (a + Pow2[m]) * WordSpan + b = (a * WordSpan + b) + Pow2[n]
    <3>1. PICK p \in Int : p = Pow2[m]
      BY <2>3
    <3>2. (a + p) * WordSpan = a * WordSpan + p * WordSpan
      BY <1>2, Ring
    <3>3. a * WordSpan \in Int /\ p * WordSpan \in Int
      BY <1>2
    <3> QED BY <1>2, <2>3, <3>1, <3>2, <3>3
  <2> QED BY <1>1, <2>7, <2>8, <2>9, Zenon
<1> QED BY <1>2, <1>3, <1>4

(* The same for 256 bits.                                                   *)
LEMMA Or256Is ==
  ASSUME NEW x \in Number256, NEW y \in Number256, NEW n \in 0..(4 * WordBits - 1),
         Value256(y) = Pow2[n], (Value256(x) \div Pow2[n]) % 2 = 0
  PROVE  or256(x, y) \in Number256 /\ Value256(or256(x, y)) = Value256(x) + Pow2[n]
<1>1. upper(x) \in Number128 /\ lower(x) \in Number128
  BY Number256Is
<1>2. PICK a \in 0..(LongSpan - 1), b \in 0..(LongSpan - 1) :
        /\ a = Value128(upper(x)) /\ b = Value128(lower(x))
        /\ Value256(x) = a * LongSpan + b
  BY Number256Is
<1>3. /\ LongSpan \in Nat \ {0} /\ 0 \in 0..(LongSpan - 1) /\ a \in Nat /\ b \in Nat
      /\ WordBits \in Nat \ {0} /\ 2 * WordBits \in {WordBits, 2 * WordBits}
  BY Spans, WordBitsIs
<1>4. /\ upper(y) \in Number128 /\ lower(y) \in Number128
      /\ Value128(upper(y)) \in 0..(LongSpan - 1) /\ Value128(lower(y)) \in 0..(LongSpan - 1)
      /\ Pow2[n] = Value128(upper(y)) * LongSpan + Value128(lower(y))
  BY Number256Is
<1>5. PICK c \in 0..(LongSpan - 1), d \in 0..(LongSpan - 1) :
        c = Value128(upper(y)) /\ d = Value128(lower(y)) /\ Pow2[n] = c * LongSpan + d
  BY <1>4
<1>6. CASE n < 2 * WordBits
  <2>1. n \in 0..(2 * WordBits - 1) /\ n \in 0..(4 * WordBits) /\ 2 * WordBits \in 0..(4 * WordBits)
    BY <1>3, <1>6
  <2>2. PICK p \in 0..(LongSpan - 1) : p = Pow2[n]
    <3>1. Pow2[n] \in Nat /\ Pow2[n] < LongSpan
      BY <1>6, <2>1, Pow2Nat, Pow2Grows DEF LongSpan
    <3> QED BY <1>3, <3>1
  <2>3. c = 0 /\ d = p
    <3>1. 0 * LongSpan + p = c * LongSpan + d
      BY <1>3, <1>5, <2>2
    <3>2. c \in Int /\ 0 \in Int
      OBVIOUS
    <3> QED BY <1>3, <3>1, <3>2, GtPair
  <2>4. upper(y) = clear128
    BY <1>4, <1>5, <2>3, Clear128, Order128
  <2>5. (b \div Pow2[n]) % 2 = 0
    <3>1. ((a * Pow2[2 * WordBits] + b) \div Pow2[n]) % 2 = (b \div Pow2[n]) % 2
      BY <1>3, <2>1, BitInLower, Zenon
    <3> QED BY <1>2, <3>1, Zenon DEF LongSpan
  <2>6. PICK low \in Number128 : low = or128(lower(x), lower(y)) /\ Value128(low) = b + p
    BY <1>1, <1>2, <1>4, <1>5, <2>1, <2>2, <2>3, <2>5, Or128Is
  <2>7. or256(x, y) = <<upper(x), low>>
    BY <1>1, <2>4, <2>6, Or128Nothing DEF or256
  <2>8. /\ <<upper(x), low>> \in Number256
        /\ Value256(<<upper(x), low>>) = a * LongSpan + (b + p)
    BY <1>1, <1>2, <2>6, Make256
  <2>9. a * LongSpan + (b + p) = (a * LongSpan + b) + p
    BY <1>3
  <2> QED BY <1>2, <2>2, <2>7, <2>8, <2>9, Zenon
<1>7. CASE n >= 2 * WordBits
  <2>1. PICK m \in 0..(2 * WordBits - 1) : m = n - 2 * WordBits /\ n = 2 * WordBits + m
    BY <1>3, <1>7
  <2>2. m \in 0..(4 * WordBits) /\ m \in 0..(2 * WordBits) /\ 2 * WordBits \in 0..(4 * WordBits)
        /\ m < 2 * WordBits
    BY <1>3
  <2>3. PICK p \in 0..(LongSpan - 1) : p = Pow2[m] /\ Pow2[n] = p * LongSpan
    <3>1. Pow2[m] \in Nat /\ Pow2[m] < LongSpan
      BY <2>2, Pow2Nat, Pow2Grows DEF LongSpan
    <3>2. Pow2[2 * WordBits + m] = Pow2[m] * Pow2[2 * WordBits]
      BY <1>3, <2>2, Powers, Zenon
    <3> QED BY <1>3, <2>1, <3>1, <3>2 DEF LongSpan
  <2>4. c = p /\ d = 0
    <3>1. p * LongSpan + 0 = c * LongSpan + d
      BY <1>3, <1>5, <2>3
    <3>2. c \in Int /\ p \in Int
      OBVIOUS
    <3> QED BY <1>3, <3>1, <3>2, GtPair
  <2>5. lower(y) = clear128
    BY <1>4, <1>5, <2>4, Clear128, Order128
  <2>6. (a \div Pow2[m]) % 2 = 0
    <3>1. b \in 0..(Pow2[2 * WordBits] - 1)
      BY DEF LongSpan
    <3>2. (a * Pow2[2 * WordBits] + b) \div Pow2[2 * WordBits + m] = a \div Pow2[m]
      BY <1>3, <2>2, <3>1, BitInUpper, Zenon
    <3> QED BY <1>2, <2>1, <3>2, Zenon DEF LongSpan
  <2>7. PICK high \in Number128 : high = or128(upper(x), upper(y)) /\ Value128(high) = a + p
    <3>1. Value128(upper(y)) = Pow2[m] /\ (Value128(upper(x)) \div Pow2[m]) % 2 = 0
      BY <1>2, <1>5, <2>3, <2>4, <2>6, Zenon
    <3>2. /\ or128(upper(x), upper(y)) \in Number128
          /\ Value128(or128(upper(x), upper(y))) = Value128(upper(x)) + Pow2[m]
      BY <1>1, <1>4, <3>1, Or128Is
    <3> QED BY <1>2, <2>3, <3>2, Zenon
  <2>8. or256(x, y) = <<high, lower(x)>>
    BY <1>1, <2>5, <2>7, Or128Nothing DEF or256
  <2>9. /\ <<high, lower(x)>> \in Number256
        /\ Value256(<<high, lower(x)>>) = (a + p) * LongSpan + b
    BY <1>1, <1>2, <2>7, Make256
  <2>10. (a + p) * LongSpan + b = (a * LongSpan + b) + p * LongSpan
    <3>1. (a + p) * LongSpan = a * LongSpan + p * LongSpan
      BY <1>3, Ring
    <3>2. a * LongSpan \in Int /\ p * LongSpan \in Int
      BY <1>3
    <3> QED BY <1>3, <3>1, <3>2
  <2> QED BY <1>2, <2>3, <2>8, <2>9, <2>10, Zenon
<1> QED BY <1>3, <1>6, <1>7

-----------------------------------------------------------------------------
(* Bits of some bytes of a number.                                          *)
LEMMA ByteBitsIs ==
  /\ 4 * WordBytes \in Nat /\ WordBytes \in Nat \ {0} /\ ByteBits \in 0..(4 * WordBits)
  /\ \A m \in 0..(4 * WordBytes) : ByteBits * m \in 0..(4 * WordBits)
  /\ \A m \in Nat, n \in Nat : ByteBits * (m + n) = ByteBits * m + ByteBits * n
  /\ ByteBits * 0 = 0 /\ ByteBits * 1 = ByteBits
  /\ ByteBits * WordBytes = WordBits /\ ByteBits * (2 * WordBytes) = 2 * WordBits
  /\ ByteBits * (3 * WordBytes) = 3 * WordBits
<1>1. PICK b \in Nat \ {0}, w \in Nat \ {0} : b = ByteBits /\ w = WordBytes
  BY WordAssumption
<1>2. WordBits = b * w /\ b * w \in Nat
  BY <1>1 DEF WordBits
<1>3. b * (4 * w) = 4 * (b * w) /\ b * (2 * w) = 2 * (b * w) /\ b * (3 * w) = 3 * (b * w)
  OBVIOUS
<1>4. ASSUME NEW m \in 0..(4 * w) PROVE b * m \in 0..(4 * (b * w))
  <2>1. m * b <= (4 * w) * b
    BY Grow
  <2>2. m * b = b * m /\ (4 * w) * b = b * (4 * w) /\ b * m \in Nat
    OBVIOUS
  <2> QED BY <1>3, <2>1, <2>2
<1>5. \A m \in Nat, n \in Nat : b * (m + n) = b * m + b * n
  <2> TAKE m \in Nat, n \in Nat
  <2>1. (m + n) * b = m * b + n * b
    BY Ring
  <2>2. (m + n) * b = b * (m + n) /\ m * b = b * m /\ n * b = b * n
    OBVIOUS
  <2> QED BY <2>1, <2>2
<1>6. b \in 0..(4 * (b * w)) /\ b * 1 = b /\ b * 0 = 0
  <2>1. 1 \in 0..(4 * w) /\ b * 1 = b
    OBVIOUS
  <2> QED BY <1>4, <2>1
<1> QED BY <1>1, <1>2, <1>3, <1>4, <1>5, <1>6

(* A word is read byte by byte.                                             *)
LEMMA ReadBuilds ==
  ASSUME NEW buffer, NEW at, NEW a \in [1..WordBytes -> Int],
         \A i \in 1..WordBytes : a[i] = buffer[at + i - 1]
  PROVE  \E f : /\ Builds(WordBytes, Pow2[ByteBits], 0, a, f)
                /\ readUint64BE(buffer, at) = f[WordBytes]
<1>1. PICK N \in Nat, k \in Int : N = WordBytes /\ k = Pow2[ByteBits]
  <2>1. WordBytes \in Nat /\ ByteBits \in 0..(4 * WordBits)
    BY ByteBitsIs
  <2>2. Pow2[ByteBits] \in Int
    BY <2>1, Pow2Nat
  <2> QED BY <2>1, <2>2
<1> DEFINE Fix(f) == f = [i \in 0..N |-> IF i = 0 THEN 0 ELSE f[i - 1] * k + buffer[at + i - 1]]
           read == CHOOSE f : Fix(f)
<1>2. PICK p : Builds(N, k, 0, a, p)
  BY <1>1, Built
<1>3. /\ p \in [0..N -> Int] /\ p[0] = 0
      /\ \A i \in 1..N : p[i] = p[i - 1] * k + a[i]
  BY <1>2 DEF Builds
<1>4. Fix(p)
  <2>1. p = [i \in 0..N |-> p[i]]
    BY <1>3
  <2>2. \A i \in 0..N : p[i] = IF i = 0 THEN 0 ELSE p[i - 1] * k + buffer[at + i - 1]
    <3>1. \A i \in 1..N : a[i] = buffer[at + i - 1]
      BY <1>1
    <3>2. \A i \in 1..N : p[i] = p[i - 1] * k + buffer[at + i - 1]
      BY <1>3, <3>1, Zenon
    <3>3. \A i \in 0..N : i = 0 \/ (i # 0 /\ i \in 1..N)
      OBVIOUS
    <3> QED BY <1>3, <3>2, <3>3, Zenon
  <2>3. [i \in 0..N |-> p[i]] = [i \in 0..N |-> IF i = 0 THEN 0 ELSE p[i - 1] * k + buffer[at + i - 1]]
    BY <2>2, Zenon
  <2> QED BY <2>1, <2>3, Zenon
<1>5. Fix(read)
  <2> HIDE DEF Fix
  <2> QED BY <1>4
<1>6. readUint64BE(buffer, at) = read[N]
  BY <1>1 DEF readUint64BE
<1> HIDE DEF read
<1>7. /\ read[0] = 0
      /\ \A i \in 1..N : read[i] = read[i - 1] * k + buffer[at + i - 1]
  BY <1>5
<1>8. \A i \in 0..N : read[i] = p[i]
  <2> DEFINE Bad == {i \in 0..N : read[i] # p[i]}
  <2>1. SUFFICES ASSUME Bad # {} PROVE FALSE
    OBVIOUS
  <2>2. PICK n \in Bad : \A m \in Bad : n <= m
    <3>1. Bad \in SUBSET Nat
      OBVIOUS
    <3> HIDE DEF Bad
    <3> QED BY <2>1, <3>1, Least
  <2>3. n # 0 /\ n \in 0..N
    BY <1>3, <1>7, <2>2
  <2>4. n - 1 \in 0..N /\ n \in 1..N /\ n - 1 \notin Bad
    BY <2>2, <2>3
  <2>5. read[n - 1] = p[n - 1] /\ a[n] = buffer[at + n - 1]
    BY <1>1, <2>4
  <2>6. read[n] = p[n]
    BY <1>3, <1>7, <2>4, <2>5
  <2> QED BY <2>2, <2>6
<1>9. N \in 0..N
  OBVIOUS
<1> QED BY <1>1, <1>2, <1>6, <1>8, <1>9

(* A word read from the bytes of a number is that part of the number.       *)
LEMMA WordRead ==
  ASSUME NEW v \in Nat, NEW buffer, NEW at \in Nat, NEW after \in Nat,
         at + WordBytes + after = 4 * WordBytes,
         \A i \in 0..(4 * WordBytes - 1) :
           buffer[i] = (v \div Pow2[ByteBits * (4 * WordBytes - 1 - i)]) % Pow2[ByteBits]
  PROVE  readUint64BE(buffer, at) = (v \div Pow2[ByteBits * after]) % WordSpan
<1>1. PICK N \in Nat \ {0}, k \in Nat \ {0} : N = WordBytes /\ k = Pow2[ByteBits]
  <2>1. WordBytes \in Nat \ {0} /\ ByteBits \in 0..(4 * WordBits)
    BY ByteBitsIs
  <2>2. Pow2[ByteBits] \in Nat \ {0}
    BY <2>1, Pow2Nat
  <2> QED BY <2>1, <2>2
<1> DEFINE P(m) == Pow2[ByteBits * m]
           a == [i \in 1..N |-> (v \div P(after + N - i)) % k]
<1>2. \A m \in 0..(4 * N) : P(m) \in Nat \ {0}
  <2> TAKE m \in 0..(4 * N)
  <2>1. ByteBits * m \in 0..(4 * WordBits)
    BY <1>1, ByteBitsIs
  <2> QED BY <2>1, Pow2Nat
<1>3. ASSUME NEW m \in 0..(4 * N), m + 1 <= 4 * N
      PROVE  P(m + 1) = P(m) * k
  <2>1. ByteBits * (m + 1) = ByteBits * m + ByteBits * 1 /\ ByteBits * 1 = ByteBits
    <3>1. m \in Nat /\ 1 \in Nat
      OBVIOUS
    <3> QED BY <3>1, ByteBitsIs, Zenon
  <2>2. ByteBits * m \in Nat /\ ByteBits \in Nat /\ ByteBits * (m + 1) <= 4 * WordBits
    <3>1. m + 1 \in 0..(4 * WordBytes) /\ m \in 0..(4 * WordBytes)
      BY <1>1, <1>3
    <3>2. ByteBits * m \in 0..(4 * WordBits) /\ ByteBits * (m + 1) \in 0..(4 * WordBits)
          /\ ByteBits \in 0..(4 * WordBits)
      BY <3>1, ByteBitsIs, Zenon
    <3> QED BY <3>2
  <2>3. ByteBits * m + ByteBits <= 4 * WordBits
    BY <2>1, <2>2
  <2>4. Pow2[ByteBits * m + ByteBits] = Pow2[ByteBits * m] * Pow2[ByteBits]
    BY <2>2, <2>3, Pow2Adds
  <2> QED BY <1>1, <2>1, <2>4
<1>4. P(0) = 1 /\ P(N) = WordSpan
  BY <1>1, ByteBitsIs, Pow2Is DEF WordSpan
<1> HIDE DEF P
<1>5. a \in [1..N -> Int] /\ \A i \in 1..N : a[i] = buffer[at + i - 1]
  <2>1. ASSUME NEW i \in 1..N
        PROVE  a[i] = buffer[at + i - 1] /\ a[i] \in Int
    <3>1. at + i - 1 \in 0..(4 * N - 1) /\ 4 * N - 1 - (at + i - 1) = after + N - i
          /\ after + N - i \in 0..(4 * N)
      BY <1>1
    <3>2. buffer[at + i - 1] = (v \div P(after + N - i)) % k
      BY <1>1, <3>1 DEF P
    <3>3. (v \div P(after + N - i)) % k \in Int
      <4>1. PICK p \in Nat \ {0} : p = P(after + N - i)
        BY <1>2, <3>1
      <4>2. (v \div p) % k \in Int
        OBVIOUS
      <4> QED BY <4>1, <4>2
    <3> QED BY <3>2, <3>3
  <2> QED BY <2>1
<1> HIDE DEF a
<1>6. PICK f : Builds(N, k, 0, a, f) /\ readUint64BE(buffer, at) = f[N]
  <2>1. a \in [1..WordBytes -> Int] /\ \A i \in 1..WordBytes : a[i] = buffer[at + i - 1]
    BY <1>1, <1>5
  <2>2. \E f : /\ Builds(WordBytes, Pow2[ByteBits], 0, a, f)
               /\ readUint64BE(buffer, at) = f[WordBytes]
    BY <2>1, ReadBuilds
  <2> QED BY <1>1, <2>2, Zenon
<1>7. /\ f \in [0..N -> Int] /\ f[0] = 0
      /\ \A n \in 1..N : f[n] = f[n - 1] * k + a[n]
  BY <1>6 DEF Builds
<1>8. \A n \in 0..N : f[n] = (v \div P(after + N - n)) % P(n)
  <2> DEFINE Bad == {n \in 0..N : f[n] # (v \div P(after + N - n)) % P(n)}
  <2>1. SUFFICES ASSUME Bad # {} PROVE FALSE
    OBVIOUS
  <2>2. PICK n \in Bad : \A m \in Bad : n <= m
    <3>1. Bad \in SUBSET Nat
      OBVIOUS
    <3> HIDE DEF Bad
    <3> QED BY <2>1, <3>1, Least
  <2>3. n # 0
    <3>1. PICK p \in Nat \ {0} : p = P(after + N - 0)
      <4>1. after + N - 0 \in 0..(4 * N)
        BY <1>1
      <4> QED BY <1>2, <4>1
    <3>2. (v \div p) % 1 = 0
      OBVIOUS
    <3>3. f[0] = (v \div P(after + N - 0)) % P(0)
      BY <1>4, <1>7, <3>1, <3>2
    <3> QED BY <2>2, <3>3
  <2>4. /\ n \in 1..N /\ n - 1 \in 0..N /\ ~(n <= n - 1) /\ n - 1 \in 0..(4 * N)
        /\ after + N - n \in 0..(4 * N) /\ after + N - n + 1 = after + N - (n - 1)
        /\ after + N - n + 1 <= 4 * N /\ (n - 1) + 1 = n /\ n <= 4 * N /\ n \in 0..(4 * N)
    BY <1>1, <2>2, <2>3
  <2>5. f[n - 1] = (v \div P(after + N - (n - 1))) % P(n - 1)
    BY <2>2, <2>4
  <2>6. PICK p \in Nat \ {0}, M \in Nat \ {0} :
          p = P(after + N - n) /\ M = P(n - 1)
          /\ P(after + N - (n - 1)) = p * k /\ P(n) = M * k
    BY <1>2, <1>3, <2>4
  <2>7. PICK d \in Int : d = v \div p
    OBVIOUS
  <2>8. v \div (p * k) = d \div k
    BY <2>7, DivTwice DEF Twice
  <2>9. f[n] = ((d \div k) % M) * k + (d % k)
    <3>1. a[n] = d % k
      BY <2>4, <2>6, <2>7 DEF a
    <3> QED BY <1>7, <2>4, <2>5, <2>6, <2>8, <3>1
  <2>10. ((d \div k) * k + (d % k)) % (M * k) = ((d \div k) % M) * k + (d % k)
    <3>1. d \div k \in Int /\ d % k \in 0..(k - 1)
      BY Split
    <3> QED BY <3>1, ModOfPair
  <2>11. (d \div k) * k + (d % k) = d
    BY Split
  <2>12. f[n] = d % P(n)
    BY <2>6, <2>9, <2>10, <2>11
  <2> QED BY <2>2, <2>6, <2>7, <2>12
<1>9. N \in 0..N /\ after + N - N = after
  OBVIOUS
<1>10. f[N] = (v \div P(after)) % P(N)
  BY <1>8, <1>9
<1> QED BY <1>4, <1>6, <1>10 DEF P

(* The words of a number are its parts.                                     *)
LEMMA WordsAre ==
  ASSUME NEW x \in Number256, NEW v, v = Value256(x)
  PROVE  /\ upper(upper(x)) = (v \div Pow2[3 * WordBits]) % WordSpan
         /\ lower(upper(x)) = (v \div Pow2[2 * WordBits]) % WordSpan
         /\ upper(lower(x)) = (v \div Pow2[WordBits]) % WordSpan
         /\ lower(lower(x)) = (v \div Pow2[0]) % WordSpan
<1>1. PICK K \in Nat \ {0}, L \in Nat \ {0} :
        K = WordSpan /\ L = LongSpan /\ L = K * K
  BY Spans
<1>2. upper(x) \in Number128 /\ lower(x) \in Number128
  BY Number256Is
<1>3. PICK a \in 0..(K - 1), b \in 0..(K - 1), c \in 0..(K - 1), d \in 0..(K - 1) :
        /\ a = upper(upper(x)) /\ b = lower(upper(x))
        /\ c = upper(lower(x)) /\ d = lower(lower(x))
        /\ Value128(upper(x)) = a * K + b /\ Value128(lower(x)) = c * K + d
  BY <1>1, <1>2, Number128Is
<1>4. PICK h \in Int, low \in 0..(L - 1) : h = a * K + b /\ low = c * K + d
  <2>1. a * K + b \in Int
    OBVIOUS
  <2>2. c * K + d \in 0..(K * K - 1)
    BY PairBelow
  <2> QED BY <1>1, <2>1, <2>2
<1>5. v = h * L + low
  BY <1>1, <1>3, <1>4, Number256Is
<1>6. h \div K = a /\ h % K = b /\ low \div K = c /\ low % K = d
  BY <1>4, PairParts
<1>7. v \div L = h /\ v \in Int
  BY <1>5, PairParts
<1>8. a % K = a
  OBVIOUS
<1>9. /\ Pow2[0] = 1 /\ Pow2[WordBits] = K /\ Pow2[2 * WordBits] = L
      /\ Pow2[3 * WordBits] = L * K
  <2>1. /\ 2 * WordBits \in Nat /\ WordBits \in Nat /\ 2 * WordBits + WordBits <= 4 * WordBits
        /\ 2 * WordBits + WordBits = 3 * WordBits
    BY WordBitsIs
  <2>2. Pow2[2 * WordBits + WordBits] = Pow2[2 * WordBits] * Pow2[WordBits]
    BY <2>1, Pow2Adds
  <2> QED BY <1>1, <2>1, <2>2, Pow2Is DEF WordSpan, LongSpan
<1>10. v \div (L * K) = a
  <2>1. PICK M \in Nat \ {0} : M = L * K
    OBVIOUS
  <2>2. Twice(L, K, M, v)
    BY <1>7, <2>1, DivTwice
  <2>3. v \div M = (v \div L) \div K
    BY <2>2 DEF Twice
  <2> QED BY <1>6, <1>7, <2>1, <2>3
<1>11. (v \div K) % K = c
  <2>1. v = (h * K + c) * K + d
    <3>1. h * (K * K) = (h * K) * K /\ (h * K + c) * K = (h * K) * K + c * K
      <4>1. h * K \in Int
        OBVIOUS
      <4> QED BY <4>1, Ring
    <3> QED BY <1>1, <1>4, <1>5, <3>1
  <2>2. PICK e \in Int : e = h * K + c
    OBVIOUS
  <2>3. v \div K = e
    BY <2>1, <2>2, PairParts
  <2>4. e % K = c
    BY <2>2, PairParts
  <2> QED BY <2>3, <2>4
<1>12. (v \div 1) % K = d
  <2>1. v \div 1 = v
    BY <1>7
  <2>2. v = (h * K + c) * K + d
    <3>1. h * (K * K) = (h * K) * K /\ (h * K + c) * K = (h * K) * K + c * K
      <4>1. h * K \in Int
        OBVIOUS
      <4> QED BY <4>1, Ring
    <3> QED BY <1>1, <1>4, <1>5, <3>1
  <2>3. PICK e \in Int : e = h * K + c
    OBVIOUS
  <2>4. v % K = d
    BY <2>2, <2>3, PairParts
  <2> QED BY <2>1, <2>4
<1> QED BY <1>1, <1>3, <1>6, <1>7, <1>8, <1>9, <1>10, <1>11, <1>12

(* Bytes in front of those that a number needs are zero.                    *)
LEMMA BytesInFront ==
  ASSUME NEW v \in Nat, NEW m \in 0..(4 * WordBytes), NEW n \in 0..m,
         v < Pow2[ByteBits * n]
  PROVE  (v \div Pow2[ByteBits * m]) % Pow2[ByteBits] = 0
<1>1. ByteBits * m \in 0..(4 * WordBits) /\ ByteBits * n \in 0..(4 * WordBits)
      /\ ByteBits \in 0..(4 * WordBits)
  <2>1. n \in 0..(4 * WordBytes)
    BY ByteBitsIs
  <2> QED BY <2>1, ByteBitsIs, Zenon
<1>2. ByteBits * n <= ByteBits * m
  <2>1. PICK b \in Nat : b = ByteBits
    BY WordAssumption
  <2>2. n * b <= m * b /\ n * b = b * n /\ m * b = b * m
    BY Grow
  <2> QED BY <2>1, <2>2
<1>3. PICK p \in Nat \ {0}, q \in Nat \ {0}, k \in Nat \ {0} :
        p = Pow2[ByteBits * n] /\ q = Pow2[ByteBits * m] /\ k = Pow2[ByteBits]
  BY <1>1, Pow2Nat
<1>4. p <= q
  <2>1. ByteBits * n = ByteBits * m \/ ByteBits * n < ByteBits * m
    BY <1>1, <1>2
  <2> QED BY <1>1, <1>3, <2>1, Pow2Grows
<1>5. v \div q = 0
  <2>1. v = 0 * q + v /\ v \in 0..(q - 1)
    BY <1>3, <1>4
  <2> QED BY <2>1, DivIs
<1>6. 0 % k = 0
  OBVIOUS
<1> QED BY <1>3, <1>5, <1>6

(* However few bytes a number is given in, it is what they say.             *)
LEMMA BytesRead ==
  ASSUME NEW x \in Number256, NEW length \in 0..(4 * WordBytes),
         Value256(x) < Pow2[ByteBits * length],
         NEW data,
         \A i \in 0..(length - 1) :
           data[i] = (Value256(x) \div Pow2[ByteBits * (length - 1 - i)]) % Pow2[ByteBits]
  PROVE  convertUint256BE(data, length) = x
<1>1. PICK v \in Nat, W \in Nat \ {0} : v = Value256(x) /\ W = WordBytes
  BY Number256Is, WordAssumption
<1>2. length \in Nat /\ length <= 4 * W
  BY <1>1
<1> DEFINE pad == 4 * WordBytes - length
           buffer == [i \in 0..(4 * WordBytes - 1) |-> IF i < pad THEN 0 ELSE data[i - pad]]
<1>3. convertUint256BE(data, length) = readu256BE(buffer)
  BY DEF convertUint256BE
<1>4. ASSUME NEW i \in 0..(4 * WordBytes - 1)
      PROVE  buffer[i] = (v \div Pow2[ByteBits * (4 * WordBytes - 1 - i)]) % Pow2[ByteBits]
  <2>1. CASE i < pad
    <3>1. /\ 4 * WordBytes - 1 - i \in 0..(4 * WordBytes)
          /\ length \in 0..(4 * WordBytes - 1 - i)
      BY <1>1, <1>2, <2>1
    <3>2. (v \div Pow2[ByteBits * (4 * WordBytes - 1 - i)]) % Pow2[ByteBits] = 0
      BY <1>1, <3>1, BytesInFront
    <3>3. buffer[i] = 0
      BY <2>1
    <3> QED BY <3>2, <3>3, Zenon
  <2>2. CASE ~(i < pad)
    <3>1. i - pad \in 0..(length - 1) /\ length - 1 - (i - pad) = 4 * WordBytes - 1 - i
      BY <1>1, <1>2, <2>2
    <3>2. buffer[i] = data[i - pad]
      BY <2>2
    <3> HIDE DEF buffer, pad
    <3> QED BY <1>1, <3>1, <3>2
  <2> QED BY <2>1, <2>2
<1> HIDE DEF buffer
<1>5. /\ readUint64BE(buffer, 0) = (v \div Pow2[ByteBits * (3 * WordBytes)]) % WordSpan
      /\ readUint64BE(buffer, 0 + WordBytes) = (v \div Pow2[ByteBits * (2 * WordBytes)]) % WordSpan
      /\ readUint64BE(buffer, 2 * WordBytes) = (v \div Pow2[ByteBits * WordBytes]) % WordSpan
      /\ readUint64BE(buffer, 2 * WordBytes + WordBytes) = (v \div Pow2[ByteBits * 0]) % WordSpan
  <2>1. ASSUME NEW at \in Nat, NEW after \in Nat, at + WordBytes + after = 4 * WordBytes
        PROVE  readUint64BE(buffer, at) = (v \div Pow2[ByteBits * after]) % WordSpan
    BY <1>4, <2>1, WordRead
  <2>2. /\ 0 \in Nat /\ 3 * WordBytes \in Nat /\ 0 + WordBytes \in Nat /\ 2 * WordBytes \in Nat
        /\ WordBytes \in Nat /\ 2 * WordBytes + WordBytes \in Nat
        /\ 0 + WordBytes + 3 * WordBytes = 4 * WordBytes
        /\ (0 + WordBytes) + WordBytes + 2 * WordBytes = 4 * WordBytes
        /\ 2 * WordBytes + WordBytes + WordBytes = 4 * WordBytes
        /\ (2 * WordBytes + WordBytes) + WordBytes + 0 = 4 * WordBytes
    BY <1>1
  <2> QED BY <2>1, <2>2
<1>6. readu256BE(buffer) = <<<<upper(upper(x)), lower(upper(x))>>,
                             <<upper(lower(x)), lower(lower(x))>>>>
  BY <1>1, <1>5, WordsAre, ByteBitsIs DEF readu256BE, readu128BE
<1>7. x = <<upper(x), lower(x)>> /\ upper(x) \in Number128 /\ lower(x) \in Number128
  BY Number256Is
<1>8. /\ upper(x) = <<upper(upper(x)), lower(upper(x))>>
      /\ lower(x) = <<upper(lower(x)), lower(lower(x))>>
  BY <1>7, Number128Is
<1> QED BY <1>3, <1>6, <1>7, <1>8, Zenon

-----------------------------------------------------------------------------
(* A word has two halves.                                                   *)
LEMMA HalfIs ==
  /\ Half \in Nat \ {0} /\ Half >= 2 /\ WordSpan = Half * Half
  /\ Pow2[WordBits \div 2] = Half
<1>1. PICK w \in Nat \ {0} : w = WordBits /\ w % 2 = 0
  BY WordBitsIs, WordAssumption DEF WordBits
<1>2. PICK n \in Nat : n = w \div 2 /\ n + n = w /\ 0 < n
  BY <1>1
<1>3. n \in 0..(4 * WordBits) /\ 0 \in 0..(4 * WordBits) /\ n + n <= 4 * WordBits
  BY <1>1, <1>2
<1>4. Pow2[n] \in Nat \ {0} /\ 2 * Pow2[0] <= Pow2[n] /\ Pow2[n + n] = Pow2[n] * Pow2[n]
  BY <1>2, <1>3, Pow2Nat, Pow2Grows, Pow2Adds
<1>5. Half = Pow2[n] /\ WordSpan = Pow2[n + n] /\ Pow2[WordBits \div 2] = Half
  BY <1>1, <1>2 DEF Half, WordSpan
<1> QED BY <1>4, <1>5, Pow2Is

(* The digits of a number of two words are its half words.                  *)
HalfDigits(x) == [i \in 0..3 |-> Halves(x)[i + 1]]

LEMMA HalvesAre ==
  ASSUME NEW x \in Number128
  PROVE  /\ HalfDigits(x) \in Digits
         /\ \A i \in 0..3 : HalfDigits(x)[i] \in 0..(Half - 1)
         /\ \A i \in 0..3 : Halves(x)[4 - i] = HalfDigits(x)[3 - i]
                            /\ Halves(x)[i + 1] = HalfDigits(x)[i]
         /\ Value128(x) = OfDigits(Half, WordSpan, HalfDigits(x))
<1>1. PICK a \in 0..(WordSpan - 1), b \in 0..(WordSpan - 1) :
        a = upper(x) /\ b = lower(x) /\ Value128(x) = a * WordSpan + b
  BY Number128Is
<1>2. PICK h \in Nat \ {0} : h = Half /\ WordSpan = h * h
  BY HalfIs
<1>3. ASSUME NEW v \in 0..(WordSpan - 1)
      PROVE  /\ v \div h \in 0..(h - 1) /\ v % h \in 0..(h - 1)
             /\ v = (v \div h) * h + (v % h)
  <2>1. /\ v \in 0..(h * h - 1) /\ h * h \in Nat \ {0}
    BY <1>2
  <2>2. v \div h \in 0..(h - 1)
    BY <1>2, <2>1, UpByHalf
  <2> QED BY <2>2, Split
<1>4. Halves(x) = <<a \div h, a % h, b \div h, b % h>>
  BY <1>1, <1>2 DEF Halves
<1> DEFINE d == HalfDigits(x)
<1>5. d[0] = a \div h /\ d[1] = a % h /\ d[2] = b \div h /\ d[3] = b % h
  BY <1>4 DEF HalfDigits
<1>6. \A i \in 0..3 : i = 0 \/ i = 1 \/ i = 2 \/ i = 3
  OBVIOUS
<1>7. \A i \in 0..3 : d[i] \in 0..(h - 1)
  BY <1>1, <1>3, <1>5, <1>6
<1>8. d \in Digits
  BY <1>2, <1>7 DEF Digits, HalfDigits
<1>9. \A i \in 0..3 : Halves(x)[4 - i] = d[3 - i] /\ Halves(x)[i + 1] = d[i]
  BY DEF HalfDigits
<1>10. Value128(x) = (d[0] * h + d[1]) * WordSpan + (d[2] * h + d[3])
  BY <1>1, <1>3, <1>5
<1> QED BY <1>2, <1>7, <1>8, <1>9, <1>10 DEF OfDigits

(* The columns of a product of two numbers of two words.                    *)
LEMMA Columns128Are ==
  ASSUME NEW x \in Number128, NEW y \in Number128
  PROVE  \E first \in Int, second \in Int, rest \in Int :
           LET c == Columns128(x, y) IN
           /\ c.fourth \in 0..(WordSpan - 1) /\ c.third \in 0..(WordSpan - 1)
           /\ c.second = second % WordSpan /\ c.first = first % WordSpan
           /\ Value128(x) * Value128(y)
                = rest * LongSpan + (first * (Half * WordSpan) + second * WordSpan
                                     + c.third * Half + c.fourth)
<1>1. PICK h \in Nat \ {0}, K \in Nat \ {0} :
        h = Half /\ K = WordSpan /\ K = h * h /\ h >= 2 /\ LongSpan = K * K
  BY HalfIs, Spans
<1>2. PICK d \in Digits, e \in Digits : d = HalfDigits(x) /\ e = HalfDigits(y)
  BY HalvesAre
<1> DEFINE p(i, j) == d[3 - i] * e[j]
           lo == [i \in 0..3 |-> [j \in 0..3 |-> p(i, j) % h]]
           hi == [i \in 0..3 |-> [j \in 0..3 |-> p(i, j) \div h]]
<1>3. ASSUME NEW i \in 0..3, NEW j \in 0..3
      PROVE  /\ lo[i][j] = p(i, j) % h /\ hi[i][j] = p(i, j) \div h
             /\ lo[i][j] \in 0..(h - 1) /\ hi[i][j] \in 0..(h - 1)
             /\ p(i, j) = hi[i][j] * h + lo[i][j]
  <2>1. PICK a \in 0..(h - 1), b \in 0..(h - 1) : a = d[3 - i] /\ b = e[j]
    <3>1. 3 - i \in 0..3
      OBVIOUS
    <3> QED BY <1>1, <1>2, <3>1, HalvesAre
  <2>2. /\ (a * b) \div h \in 0..(h - 1) /\ (a * b) % h \in 0..(h - 1)
        /\ a * b = ((a * b) \div h) * h + ((a * b) % h)
    BY DigitProducts
  <2>3. lo[i][j] = p(i, j) % h /\ hi[i][j] = p(i, j) \div h
    OBVIOUS
  <2> QED BY <2>1, <2>2, <2>3
<1>4. lo \in Halfs /\ hi \in Halfs
  <2>1. \A i \in 0..3, j \in 0..3 : p(i, j) % h \in Int /\ p(i, j) \div h \in Int
    <3> TAKE i \in 0..3, j \in 0..3
    <3>1. /\ lo[i][j] = p(i, j) % h /\ hi[i][j] = p(i, j) \div h
          /\ lo[i][j] \in Int /\ hi[i][j] \in Int
      BY <1>3
    <3> HIDE DEF lo, hi, p
    <3> QED BY <3>1
  <2> HIDE DEF p
  <2> QED BY <2>1 DEF Halfs
<1>5. \A i \in 0..3, j \in 0..3 : /\ Halves(x)[4 - i] * Halves(y)[j + 1] = p(i, j)
  BY <1>2, HalvesAre
<1> HIDE DEF lo, hi
<1>6. ProductsIn(h, d, e, lo, hi)
  BY <1>3 DEF ProductsIn
<1>7. PICK rest \in Int :
        OfDigits(h, K, d) * OfDigits(h, K, e) = rest * (K * K) + ByColumns(h, K, lo, hi)
  <2>1. Schoolbook(h, K, d, e, lo, hi)
    BY <1>1, <1>4, <1>6, ColumnsAdd
  <2> QED BY <2>1 DEF Schoolbook
<1> HIDE DEF p
<1>8. PICK c : c = Columns128(x, y)
  OBVIOUS
<1>9. /\ c.fourth = lo[0][3] /\ c.third = Third(lo, hi) % K
      /\ c.second = Second(lo, hi) % K /\ c.first = First(lo, hi) % K
  <2> DEFINE product(i, j) == Halves(x)[4 - i] * Halves(y)[j + 1]
  <2>1. \A i \in 0..3, j \in 0..3 : product(i, j) % Half = lo[i][j] /\ product(i, j) \div Half = hi[i][j]
    BY <1>1, <1>3, <1>5
  <2> DEFINE low(i, j) == product(i, j) % Half
             up(i, j) == product(i, j) \div Half
  <2>2. /\ c.fourth = low(0, 3)
        /\ c.third = (low(0, 2) + up(0, 3) + low(1, 3)) % K
        /\ c.second = (low(0, 1) + up(0, 2) + low(1, 2) + up(1, 3) + low(2, 3)) % K
        /\ c.first = (low(0, 0) + up(0, 1) + low(1, 1) + up(1, 2) + low(2, 2)
                      + up(2, 3) + low(3, 3)) % K
    BY <1>1, <1>8, Zenon DEF Columns128, Wrap, WordSpan
  <2>3. 0 \in 0..3 /\ 1 \in 0..3 /\ 2 \in 0..3 /\ 3 \in 0..3
    OBVIOUS
  <2>4. \A i \in 0..3, j \in 0..3 : low(i, j) = lo[i][j] /\ up(i, j) = hi[i][j]
    BY <2>1
  <2> HIDE DEF product, low, up
  <2> QED BY <2>2, <2>3, <2>4, Zenon DEF Third, Second, First
<1>10. /\ 0 \in 0..3 /\ 1 \in 0..3 /\ 2 \in 0..3 /\ 3 \in 0..3
  OBVIOUS
<1>11. lo[0][3] \in 0..(K - 1)
  <2>1. h <= K
    <3>1. 1 * h <= h * h
      BY <1>1, Grow
    <3> QED BY <1>1, <3>1
  <2> QED BY <1>3, <1>10, <2>1
<1>12. Third(lo, hi) \in 0..(K - 1)
  <2>1. lo[0][2] \in 0..(h - 1) /\ hi[0][3] \in 0..(h - 1) /\ lo[1][3] \in 0..(h - 1)
    BY <1>3, <1>10
  <2> QED BY <1>1, <2>1, ThreeDigits DEF Third
<1>13. First(lo, hi) \in Int /\ Second(lo, hi) \in Int
  <2>1. \A i \in 0..3, j \in 0..3 : lo[i][j] \in Int /\ hi[i][j] \in Int
    BY <1>3
  <2>2. /\ lo[0][0] \in Int /\ hi[0][1] \in Int /\ lo[1][1] \in Int /\ hi[1][2] \in Int
        /\ lo[2][2] \in Int /\ hi[2][3] \in Int /\ lo[3][3] \in Int /\ lo[0][1] \in Int
        /\ hi[0][2] \in Int /\ lo[1][2] \in Int /\ hi[1][3] \in Int /\ lo[2][3] \in Int
    BY <1>10, <2>1
  <2> QED BY <2>2 DEF First, Second
<1>14. c.third = Third(lo, hi)
  <2>1. \A t \in 0..(K - 1) : t % K = t
    OBVIOUS
  <2> QED BY <1>9, <1>12, <2>1
<1>15. Value128(x) * Value128(y) = rest * LongSpan + ByColumns(h, K, lo, hi)
  BY <1>1, <1>2, <1>7, HalvesAre
<1>16. ByColumns(h, K, lo, hi)
         = First(lo, hi) * (h * K) + Second(lo, hi) * K + c.third * h + c.fourth
  BY <1>9, <1>14 DEF ByColumns
<1> QED BY <1>1, <1>8, <1>9, <1>11, <1>12, <1>13, <1>14, <1>15, <1>16

(* Products of numbers of two words (uint256.c:285-325).                    *)
LEMMA Mul128Is ==
  ASSUME NEW x \in Number128, NEW y \in Number128
  PROVE  /\ mul128(x, y) \in Number128
         /\ Value128(mul128(x, y)) = (Value128(x) * Value128(y)) % LongSpan
<1>1. PICK h \in Nat \ {0}, K \in Nat \ {0}, L \in Nat \ {0} :
        /\ h = Half /\ h = Pow2[WordBits \div 2] /\ K = WordSpan /\ K = h * h
        /\ L = LongSpan /\ L = K * K /\ 0 \in 0..(K - 1)
  BY HalfIs, Spans
<1>2. PICK c : c = Columns128(x, y)
  OBVIOUS
<1>3. PICK first \in Int, second \in Int, rest \in Int :
        /\ c.fourth \in 0..(K - 1) /\ c.third \in 0..(K - 1)
        /\ c.second = second % K /\ c.first = first % K
        /\ Value128(x) * Value128(y)
             = rest * L + (first * (h * K) + second * K + c.third * h + c.fourth)
  <2>1. \E first \in Int, second \in Int, rest \in Int :
           /\ c.fourth \in 0..(WordSpan - 1) /\ c.third \in 0..(WordSpan - 1)
           /\ c.second = second % WordSpan /\ c.first = first % WordSpan
           /\ Value128(x) * Value128(y)
                = rest * LongSpan + (first * (Half * WordSpan) + second * WordSpan
                                     + c.third * Half + c.fourth)
    BY <1>2, Columns128Are
  <2> QED BY <1>1, <2>1
<1>4. PICK f \in 0..(K - 1), t \in 0..(K - 1), s \in 0..(K - 1), e \in 0..(K - 1) :
        /\ f = c.fourth /\ t = c.third /\ s = c.second /\ e = (c.first * h) % K
        /\ s = second % K /\ e = ((first % K) * h) % K
  <2>1. second % K \in 0..(K - 1) /\ first % K \in 0..(K - 1)
    OBVIOUS
  <2>2. PICK g \in Int : g = (first % K) * h
    BY <2>1
  <2>3. g % K \in 0..(K - 1)
    OBVIOUS
  <2> QED BY <1>3, <2>1, <2>2, <2>3
<1>5. PICK q \in 0..(K - 1), w \in 0..(K - 1) :
        q = t \div h /\ w = (t * h) % K /\ q * K + w = t * h
  <2>1. t \div h \in 0..(h - 1) /\ (t * h) % K = (t % h) * h /\ t * h = (t \div h) * K + (t % h) * h
    BY <1>1, UpByHalf
  <2>2. h <= K
    <3>1. 1 * h <= h * h /\ 1 * h = h
      BY Grow
    <3> QED BY <1>1, <3>1
  <2>3. (t * h) % K \in 0..(K - 1)
    <3>1. PICK g \in Int : g = t * h
      OBVIOUS
    <3> QED BY <3>1
  <2> QED BY <2>1, <2>2, <2>3
<1>6. mul128(x, y) = add128(<<0, f>>, add128(<<s, 0>>, add128(<<e, 0>>, <<q, w>>)))
  BY <1>1, <1>2, <1>4, <1>5, Zenon DEF mul128, leftWord, rightWord, Wrap, WordSpan
<1>7. /\ <<0, f>> \in Number128 /\ Value128(<<0, f>>) = 0 * K + f
      /\ <<s, 0>> \in Number128 /\ Value128(<<s, 0>>) = s * K + 0
      /\ <<e, 0>> \in Number128 /\ Value128(<<e, 0>>) = e * K + 0
      /\ <<q, w>> \in Number128 /\ Value128(<<q, w>>) = t * h
  BY <1>1, <1>5, Make128
<1>8. PICK E \in Int, S \in Int, T \in Int, F \in Int :
        /\ E = e * K /\ S = s * K /\ T = t * h /\ F = f
        /\ Value128(<<0, f>>) = F /\ Value128(<<s, 0>>) = S /\ Value128(<<e, 0>>) = E
  <2>1. e * K \in Int /\ s * K \in Int /\ t * h \in Int /\ 0 * K = 0
    OBVIOUS
  <2> QED BY <1>7, <2>1
<1>9. PICK m \in Number128 : m = add128(<<e, 0>>, <<q, w>>) /\ Value128(m) = (E + T) % L
  BY <1>1, <1>7, <1>8, Add128Is
<1>10. PICK n \in Number128 : n = add128(<<s, 0>>, m) /\ Value128(n) = (S + (E + T)) % L
  <2>1. add128(<<s, 0>>, m) \in Number128
        /\ Value128(add128(<<s, 0>>, m)) = (S + ((E + T) % L)) % L
    BY <1>1, <1>7, <1>8, <1>9, Add128Is
  <2>2. (S + ((E + T) % L)) % L = (S + (E + T)) % L
    <3>1. E + T \in Int
      OBVIOUS
    <3> QED BY <3>1, ModBefore, Zenon
  <2> QED BY <2>1, <2>2
<1>11. /\ add128(<<0, f>>, n) \in Number128
       /\ Value128(add128(<<0, f>>, n)) = (E + S + (T + F)) % L
  <2>1. add128(<<0, f>>, n) \in Number128
        /\ Value128(add128(<<0, f>>, n)) = (F + ((S + (E + T)) % L)) % L
    BY <1>1, <1>7, <1>8, <1>10, Add128Is
  <2>2. (F + ((S + (E + T)) % L)) % L = (F + (S + (E + T))) % L
    <3>1. S + (E + T) \in Int
      OBVIOUS
    <3> QED BY <3>1, ModBefore, Zenon
  <2>3. F + (S + (E + T)) = E + S + (T + F)
    OBVIOUS
  <2> QED BY <2>1, <2>2, <2>3, Zenon
<1>12. (E + S + (T + F)) % L = (first * (h * K) + second * K + (T + F)) % L
  <2>1. ((((first % K) * h) % K) * K + (second % K) * K + (T + F)) % L
           = (first * (h * K) + second * K + (T + F)) % L
    <3>1. PICK low \in Int : low = T + F
      OBVIOUS
    <3>2. L = K * K
      BY <1>1
    <3>3. ((((first % K) * h) % K) * K + (second % K) * K + low) % L
            = (first * (h * K) + second * K + low) % L
      <4>1. CutAlike(h, K, L, first, second, low)
        BY <3>2, ColumnsCut
      <4> QED BY <4>1 DEF CutAlike
    <3> QED BY <3>1, <3>3
  <2> QED BY <1>4, <1>8, <2>1
<1>13. PICK P \in Int : P = first * (h * K) + second * K + (T + F)
  <2>1. first * (h * K) \in Int /\ second * K \in Int
    <3>1. PICK g \in Int : g = h * K
      OBVIOUS
    <3> QED BY <3>1
  <2>2. first * (h * K) + second * K + (T + F) \in Int
    BY <2>1
  <2> QED BY <2>2
<1>14. Value128(x) * Value128(y) = P + rest * L
  <2>1. PICK A \in Int, B \in Int, R \in Int : A = first * (h * K) /\ B = second * K /\ R = rest * L
    <3>1. PICK g \in Int : g = h * K
      OBVIOUS
    <3>2. first * g \in Int /\ second * K \in Int /\ rest * L \in Int
      OBVIOUS
    <3> QED BY <3>1, <3>2
  <2>2. Value128(x) * Value128(y) = R + (A + B + T + F)
    BY <1>3, <1>4, <1>8, <2>1
  <2>3. P = A + B + (T + F)
    BY <1>13, <2>1
  <2> QED BY <2>1, <2>2, <2>3
<1>15. (P + rest * L) % L = P % L
  BY ModPlus
<1> QED BY <1>1, <1>6, <1>9, <1>10, <1>11, <1>12, <1>13, <1>14, <1>15, Zenon

-----------------------------------------------------------------------------
(* The digits of a number of four words are its words.                      *)
WordDigits(x) == [i \in 0..3 |-> lower(Quarters(x)[i + 1])]

LEMMA QuartersAre ==
  ASSUME NEW x \in Number256
  PROVE  /\ WordDigits(x) \in Digits
         /\ \A i \in 0..3 : WordDigits(x)[i] \in 0..(WordSpan - 1)
         /\ \A i \in 0..3 : Quarters(x)[4 - i] = <<0, WordDigits(x)[3 - i]>>
                            /\ Quarters(x)[i + 1] = <<0, WordDigits(x)[i]>>
         /\ WordDigits(x)[2] = upper(lower(x)) /\ WordDigits(x)[3] = lower(lower(x))
         /\ Value256(x) = OfDigits(WordSpan, LongSpan, WordDigits(x))
<1>1. upper(x) \in Number128 /\ lower(x) \in Number128
  BY Number256Is
<1>2. PICK a \in 0..(WordSpan - 1), b \in 0..(WordSpan - 1),
           c \in 0..(WordSpan - 1), e \in 0..(WordSpan - 1) :
        /\ a = upper(upper(x)) /\ b = lower(upper(x))
        /\ c = upper(lower(x)) /\ e = lower(lower(x))
        /\ Value128(upper(x)) = a * WordSpan + b /\ Value128(lower(x)) = c * WordSpan + e
  BY <1>1, Number128Is
<1>3. Quarters(x) = <<<<0, a>>, <<0, b>>, <<0, c>>, <<0, e>>>>
  BY <1>2 DEF Quarters
<1> DEFINE d == WordDigits(x)
<1>4. d[0] = a /\ d[1] = b /\ d[2] = c /\ d[3] = e
  BY <1>3 DEF WordDigits, lower
<1>5. \A i \in 0..3 : i = 0 \/ i = 1 \/ i = 2 \/ i = 3
  OBVIOUS
<1>6. \A i \in 0..3 : d[i] \in 0..(WordSpan - 1)
  BY <1>4, <1>5
<1>7. d \in Digits
  <2>1. \A i \in 0..3 : d[i] \in Int
    BY <1>6, Spans
  <2> QED BY <2>1 DEF Digits, WordDigits
<1>8. \A i \in 0..3 : Quarters(x)[i + 1] = <<0, d[i]>>
  <2>1. Quarters(x)[1] = <<0, a>> /\ Quarters(x)[2] = <<0, b>>
        /\ Quarters(x)[3] = <<0, c>> /\ Quarters(x)[4] = <<0, e>>
    BY <1>3
  <2>2. 0 + 1 = 1 /\ 1 + 1 = 2 /\ 2 + 1 = 3 /\ 3 + 1 = 4
    OBVIOUS
  <2> QED BY <1>4, <1>5, <2>1, <2>2
<1>9. \A i \in 0..3 : 3 - i \in 0..3 /\ (3 - i) + 1 = 4 - i
  OBVIOUS
<1>10. \A i \in 0..3 : Quarters(x)[4 - i] = <<0, d[3 - i]>>
  BY <1>8, <1>9
<1>11. Value256(x) = (d[0] * WordSpan + d[1]) * LongSpan + (d[2] * WordSpan + d[3])
  BY <1>2, <1>4, Number256Is
<1> QED BY <1>2, <1>4, <1>6, <1>7, <1>8, <1>10, <1>11 DEF OfDigits

(* The product of two words is their product.                               *)
LEMMA WordProduct ==
  ASSUME NEW a \in 0..(WordSpan - 1), NEW b \in 0..(WordSpan - 1)
  PROVE  /\ lower(mul128(<<0, a>>, <<0, b>>)) = (a * b) % WordSpan
         /\ upper(mul128(<<0, a>>, <<0, b>>)) = (a * b) \div WordSpan
<1>1. PICK K \in Nat \ {0} : K = WordSpan /\ LongSpan = K * K /\ 0 \in 0..(K - 1)
  BY Spans
<1>2. /\ <<0, a>> \in Number128 /\ Value128(<<0, a>>) = 0 * K + a
      /\ <<0, b>> \in Number128 /\ Value128(<<0, b>>) = 0 * K + b
  BY <1>1, Make128
<1>3. 0 * K + a = a /\ 0 * K + b = b
  BY <1>1
<1>4. PICK m \in Number128 :
        m = mul128(<<0, a>>, <<0, b>>) /\ Value128(m) = (a * b) % LongSpan
  BY <1>2, <1>3, Mul128Is
<1>5. PICK p \in Int : p = a * b /\ p \in 0..(K * K - 1)
  BY <1>1, DigitProducts
<1>6. PICK L \in Nat \ {0} : L = K * K
  OBVIOUS
<1>7. p % L = p
  BY <1>5, <1>6
<1>8. upper(m) \in 0..(K - 1) /\ lower(m) \in 0..(K - 1) /\ p = upper(m) * K + lower(m)
  BY <1>1, <1>4, <1>5, <1>6, <1>7, Number128Is
<1>9. p \div K = upper(m) /\ p % K = lower(m)
  <2>1. upper(m) \in Int
    BY <1>8
  <2> QED BY <1>8, <2>1, DivIs
<1> QED BY <1>1, <1>4, <1>5, <1>9

(* Words are summed up in numbers of two words.                             *)
Holds(v, m) == v \in Number128 /\ m \in Int /\ Value128(v) = m % LongSpan

LEMMA AddWord ==
  ASSUME NEW w \in 0..(WordSpan - 1)
  PROVE  /\ <<0, w>> \in Number128 /\ Value128(<<0, w>>) = w
         /\ Holds(<<0, w>>, w)
         /\ \A v, m : Holds(v, m) => Holds(add128(<<0, w>>, v), w + m)
<1>1. PICK K \in Nat \ {0}, L \in Nat \ {0} :
        K = WordSpan /\ L = LongSpan /\ L = K * K /\ 0 \in 0..(K - 1)
  BY Spans
<1>2. <<0, w>> \in Number128 /\ Value128(<<0, w>>) = 0 * K + w
  BY <1>1, Make128
<1>3. Value128(<<0, w>>) = w
  BY <1>1, <1>2
<1>4. Holds(<<0, w>>, w)
  <2>1. w \in 0..(L - 1)
    BY <1>1, <1>2, <1>3, Number128Is
  <2>2. w % L = w
    BY <2>1
  <2> QED BY <1>1, <1>2, <1>3, <2>1, <2>2 DEF Holds
<1>5. ASSUME NEW v, NEW m, Holds(v, m)
      PROVE  Holds(add128(<<0, w>>, v), w + m)
  <2>1. v \in Number128 /\ m \in Int /\ Value128(v) = m % L
    BY <1>1, <1>5 DEF Holds
  <2>2. add128(<<0, w>>, v) \in Number128
        /\ Value128(add128(<<0, w>>, v)) = (w + (m % L)) % L
    BY <1>1, <1>2, <1>3, <2>1, Add128Is
  <2>3. (w + (m % L)) % L = (w + m) % L
    <3>1. w \in Int
      OBVIOUS
    <3> QED BY <2>1, <3>1, ModBefore, Zenon
  <2>4. w + m \in Int
    BY <2>1
  <2> QED BY <1>1, <2>2, <2>3, <2>4, Zenon DEF Holds
<1> QED BY <1>2, <1>3, <1>4, <1>5, Zenon

(* The third column of a product of numbers of four words, by which alone   *)
(* mul256 can be told from the product.                                     *)
ThirdColumn(x, y) ==
  ((lower(lower(x)) * upper(lower(y))) % WordSpan)
    + ((upper(lower(x)) * lower(lower(y))) % WordSpan)
    + ((lower(lower(x)) * lower(lower(y))) \div WordSpan)

(* The columns of such a product.                                           *)
LEMMA Columns256Are ==
  ASSUME NEW x \in Number256, NEW y \in Number256, NEW c, c = Columns256(x, y)
  PROVE  \E first \in Int, second \in Int, rest \in Int, fourth \in 0..(WordSpan - 1) :
           /\ c.fourth \in Number128 /\ Value128(c.fourth) = fourth
           /\ c.third \in Number128 /\ Value128(c.third) \in 0..(3 * (WordSpan - 1))
           /\ Value128(c.third) = ThirdColumn(x, y)
           /\ Holds(c.second, second) /\ Holds(c.first, first)
           /\ Value256(x) * Value256(y)
                = rest * (LongSpan * LongSpan)
                  + (first * (WordSpan * LongSpan) + second * LongSpan
                     + Value128(c.third) * WordSpan + fourth)
<1>1. PICK K \in Nat \ {0}, L \in Nat \ {0} :
        K = WordSpan /\ L = LongSpan /\ L = K * K /\ K >= 2 /\ 0 \in 0..(K - 1)
  BY Spans
<1>2. PICK d \in Digits, e \in Digits : d = WordDigits(x) /\ e = WordDigits(y)
  BY QuartersAre
<1> DEFINE p(i, j) == d[3 - i] * e[j]
           lo == [i \in 0..3 |-> [j \in 0..3 |-> p(i, j) % K]]
           hi == [i \in 0..3 |-> [j \in 0..3 |-> p(i, j) \div K]]
<1>3. ASSUME NEW i \in 0..3, NEW j \in 0..3
      PROVE  /\ lo[i][j] = p(i, j) % K /\ hi[i][j] = p(i, j) \div K
             /\ lo[i][j] \in 0..(K - 1) /\ hi[i][j] \in 0..(K - 1)
             /\ p(i, j) = hi[i][j] * K + lo[i][j]
             /\ lower(mul128(Quarters(x)[4 - i], Quarters(y)[j + 1])) = lo[i][j]
             /\ upper(mul128(Quarters(x)[4 - i], Quarters(y)[j + 1])) = hi[i][j]
  <2>1. PICK a \in 0..(K - 1), b \in 0..(K - 1) :
          /\ a = d[3 - i] /\ b = e[j]
          /\ Quarters(x)[4 - i] = <<0, a>> /\ Quarters(y)[j + 1] = <<0, b>>
    <3>1. 3 - i \in 0..3
      OBVIOUS
    <3> QED BY <1>1, <1>2, <3>1, QuartersAre
  <2>2. /\ (a * b) \div K \in 0..(K - 1) /\ (a * b) % K \in 0..(K - 1)
        /\ a * b = ((a * b) \div K) * K + ((a * b) % K)
    BY DigitProducts
  <2>3. /\ lower(mul128(<<0, a>>, <<0, b>>)) = (a * b) % K
        /\ upper(mul128(<<0, a>>, <<0, b>>)) = (a * b) \div K
    BY <1>1, WordProduct
  <2>4. lo[i][j] = p(i, j) % K /\ hi[i][j] = p(i, j) \div K
    OBVIOUS
  <2> QED BY <2>1, <2>2, <2>3, <2>4
<1>4. lo \in Halfs /\ hi \in Halfs
  <2>1. \A i \in 0..3, j \in 0..3 : p(i, j) % K \in Int /\ p(i, j) \div K \in Int
    <3> TAKE i \in 0..3, j \in 0..3
    <3>1. /\ lo[i][j] = p(i, j) % K /\ hi[i][j] = p(i, j) \div K
          /\ lo[i][j] \in Int /\ hi[i][j] \in Int
      BY <1>3
    <3> HIDE DEF lo, hi, p
    <3> QED BY <3>1
  <2> HIDE DEF p
  <2> QED BY <2>1 DEF Halfs
<1> HIDE DEF lo, hi
<1>5. ProductsIn(K, d, e, lo, hi)
  BY <1>3 DEF ProductsIn
<1>6. PICK rest \in Int :
        OfDigits(K, L, d) * OfDigits(K, L, e) = rest * (L * L) + ByColumns(K, L, lo, hi)
  <2>1. Schoolbook(K, L, d, e, lo, hi)
    BY <1>1, <1>4, <1>5, ColumnsAdd
  <2> QED BY <2>1 DEF Schoolbook
<1>8. /\ 0 \in 0..3 /\ 1 \in 0..3 /\ 2 \in 0..3 /\ 3 \in 0..3
      /\ 3 - 0 = 3 /\ 3 - 1 = 2
  OBVIOUS
<1>9. \A i \in 0..3, j \in 0..3 :
        /\ lo[i][j] \in 0..(K - 1) /\ hi[i][j] \in 0..(K - 1)
        /\ lo[i][j] \in Int /\ hi[i][j] \in Int
  BY <1>3
<1>10. /\ c.fourth = <<0, lo[0][3]>>
       /\ c.third = add128(<<0, lo[1][3]>>, add128(<<0, lo[0][2]>>, <<0, hi[0][3]>>))
       /\ c.second = add128(<<0, lo[2][3]>>, add128(<<0, hi[1][3]>>, add128(<<0, lo[1][2]>>,
                       add128(<<0, lo[0][1]>>, <<0, hi[0][2]>>))))
       /\ c.first = add128(<<0, lo[3][3]>>, add128(<<0, hi[2][3]>>, add128(<<0, lo[2][2]>>,
                      add128(<<0, hi[1][2]>>, add128(<<0, lo[1][1]>>,
                        add128(<<0, lo[0][0]>>, <<0, hi[0][1]>>))))))
  <2> DEFINE low(i, j) == <<0, lower(mul128(Quarters(x)[4 - i], Quarters(y)[j + 1]))>>
             up(i, j) == <<0, upper(mul128(Quarters(x)[4 - i], Quarters(y)[j + 1]))>>
  <2>1. /\ c.fourth = low(0, 3)
        /\ c.third = add128(low(1, 3), add128(low(0, 2), up(0, 3)))
        /\ c.second = add128(low(2, 3), add128(up(1, 3), add128(low(1, 2),
                        add128(low(0, 1), up(0, 2)))))
        /\ c.first = add128(low(3, 3), add128(up(2, 3), add128(low(2, 2),
                       add128(up(1, 2), add128(low(1, 1), add128(low(0, 0), up(0, 1)))))))
    BY Zenon DEF Columns256
  <2>2. \A i \in 0..3, j \in 0..3 : low(i, j) = <<0, lo[i][j]>> /\ up(i, j) = <<0, hi[i][j]>>
    BY <1>3
  <2> HIDE DEF low, up
  <2> QED BY <1>8, <2>1, <2>2, Zenon
<1>11. ASSUME NEW w \in 0..(K - 1)
       PROVE  /\ Holds(<<0, w>>, w)
              /\ \A v, m : Holds(v, m) => Holds(add128(<<0, w>>, v), w + m)
  BY <1>1, <1>11, AddWord
<1>12. Holds(c.third, lo[1][3] + (lo[0][2] + hi[0][3]))
  BY <1>8, <1>9, <1>10, <1>11, Zenon
<1>13. Holds(c.second, lo[2][3] + (hi[1][3] + (lo[1][2] + (lo[0][1] + hi[0][2]))))
  BY <1>8, <1>9, <1>10, <1>11, Zenon
<1>14. Holds(c.first, lo[3][3] + (hi[2][3] + (lo[2][2] + (hi[1][2] + (lo[1][1]
                        + (lo[0][0] + hi[0][1]))))))
  BY <1>8, <1>9, <1>10, <1>11, Zenon
<1>15. Holds(c.second, Second(lo, hi)) /\ Second(lo, hi) \in Int
  <2>1. /\ lo[2][3] \in Int /\ hi[1][3] \in Int /\ lo[1][2] \in Int /\ lo[0][1] \in Int
        /\ hi[0][2] \in Int
    BY <1>8, <1>9
  <2>2. Second(lo, hi) = lo[2][3] + (hi[1][3] + (lo[1][2] + (lo[0][1] + hi[0][2])))
    BY <2>1 DEF Second
  <2> QED BY <1>13, <2>1, <2>2 DEF Holds
<1>16. Holds(c.first, First(lo, hi)) /\ First(lo, hi) \in Int
  <2>1. /\ lo[3][3] \in Int /\ hi[2][3] \in Int /\ lo[2][2] \in Int /\ hi[1][2] \in Int
        /\ lo[1][1] \in Int /\ lo[0][0] \in Int /\ hi[0][1] \in Int
    BY <1>8, <1>9
  <2>2. First(lo, hi) = lo[3][3] + (hi[2][3] + (lo[2][2] + (hi[1][2] + (lo[1][1]
                          + (lo[0][0] + hi[0][1])))))
    BY <2>1 DEF First
  <2> QED BY <1>14, <2>1, <2>2 DEF Holds
<1>17. PICK t \in 0..(L - 1) :
         t = Third(lo, hi) /\ t \in 0..(3 * (K - 1)) /\ c.third \in Number128 /\ Value128(c.third) = t
  <2>1. PICK u \in 0..(K - 1), v \in 0..(K - 1), w \in 0..(K - 1) :
          u = lo[0][2] /\ v = hi[0][3] /\ w = lo[1][3]
    BY <1>8, <1>9
  <2>2. u + v + w \in 0..(L - 1) /\ u + v + w \in 0..(3 * (K - 1))
    BY <1>1, ThreeDigits
  <2>3. Third(lo, hi) = u + v + w /\ w + (u + v) = u + v + w
    BY <2>1 DEF Third
  <2>4. \A s \in 0..(L - 1) : s % L = s
    OBVIOUS
  <2>5. c.third \in Number128 /\ Value128(c.third) = (w + (u + v)) % L
    BY <1>1, <1>12, <2>1 DEF Holds
  <2> QED BY <2>2, <2>3, <2>4, <2>5
<1>18. t = ThirdColumn(x, y)
  <2>1. /\ d[3] = lower(lower(x)) /\ d[2] = upper(lower(x))
        /\ e[3] = lower(lower(y)) /\ e[2] = upper(lower(y))
    BY <1>2, QuartersAre
  <2>2. lo[0][2] = p(0, 2) % K /\ lo[1][3] = p(1, 3) % K /\ hi[0][3] = p(0, 3) \div K
    BY <1>3, <1>8
  <2>3. p(0, 2) = d[3] * e[2] /\ p(1, 3) = d[2] * e[3] /\ p(0, 3) = d[3] * e[3]
    BY <1>8
  <2>4. t = lo[0][2] + lo[1][3] + hi[0][3]
    <3>1. lo[0][2] \in Int /\ hi[0][3] \in Int /\ lo[1][3] \in Int
      BY <1>8, <1>9
    <3> QED BY <1>17, <3>1 DEF Third
  <2> HIDE DEF p
  <2> QED BY <1>1, <2>1, <2>2, <2>3, <2>4 DEF ThirdColumn
<1> HIDE DEF p
<1>19. PICK f \in 0..(K - 1) : f = lo[0][3] /\ c.fourth \in Number128 /\ Value128(c.fourth) = f
  BY <1>1, <1>8, <1>9, <1>10, AddWord
<1>20. Value256(x) * Value256(y) = rest * (L * L) + ByColumns(K, L, lo, hi)
  BY <1>1, <1>2, <1>6, QuartersAre
<1>21. ByColumns(K, L, lo, hi) = First(lo, hi) * (K * L) + Second(lo, hi) * L + t * K + f
  BY <1>17, <1>19 DEF ByColumns
<1> QED BY <1>1, <1>15, <1>16, <1>17, <1>18, <1>19, <1>20, <1>21

(* What mul256 adds up.                                                     *)
LEMMA Mul256Summands ==
  ASSUME NEW f \in Number128, NEW s \in Number128, NEW e \in Number128, NEW t \in Number128
  PROVE  \E E \in Int, T \in Int :
           /\ E = ((Value128(e) * WordSpan) % LongSpan) * LongSpan
           /\ T = (Value128(t) \div WordSpan) * (WordSpan * LongSpan)
                  + (Value128(t) % WordSpan) * WordSpan
           /\ Value256(add256(<<clear128, f>>,
                        add256(<<s, clear128>>,
                          add256(<<shiftl128(e, WordBits), clear128>>,
                                 <<<<upper(t), 0>>, shiftl128(t, WordBits)>>))))
                = (E + Value128(s) * LongSpan + (Value128(f) + T)) % (LongSpan * LongSpan)
<1>1. PICK K \in Nat \ {0}, L \in Nat \ {0}, M \in Nat \ {0} :
        /\ K = WordSpan /\ L = LongSpan /\ L = K * K /\ 0 \in 0..(K - 1)
        /\ M = L * L /\ M = Pow2[4 * WordBits]
  <2>1. LongSpan * LongSpan \in Nat \ {0}
    BY Spans
  <2> QED BY <2>1, Spans
<1>2. \A x \in Number128 :
        /\ shiftl128(x, WordBits) \in Number128
        /\ Value128(shiftl128(x, WordBits)) = (Value128(x) % K) * K
  <2>1. WordBits \in 0..(2 * WordBits) /\ 2 * WordBits - WordBits = WordBits
    BY WordBitsIs
  <2> TAKE x \in Number128
  <2>2. /\ shiftl128(x, WordBits) \in Number128
        /\ Value128(shiftl128(x, WordBits)) = (Value128(x) % Pow2[2 * WordBits - WordBits]) * Pow2[WordBits]
    BY <2>1, Shiftl128Is
  <2> QED BY <1>1, <2>1, <2>2, Zenon DEF WordSpan
<1>3. PICK F \in 0..(L - 1), S \in 0..(L - 1), v \in 0..(L - 1), w \in 0..(L - 1) :
        F = Value128(f) /\ S = Value128(s) /\ v = Value128(e) /\ w = Value128(t)
  BY <1>1, Number128Is
<1>4. (v * K) % L = (v % K) * K
  BY <1>1, UpByHalf
<1>5. PICK a \in 0..(K - 1), b \in 0..(K - 1) :
        /\ upper(t) = a /\ w = a * K + b /\ w \div K = a /\ w % K = b
  <2>1. PICK a \in 0..(K - 1), b \in 0..(K - 1) : a = upper(t) /\ b = lower(t) /\ w = a * K + b
    BY <1>1, <1>3, Number128Is
  <2>2. (a * K + b) \div K = a /\ (a * K + b) % K = b
    <3>1. a \in Int
      OBVIOUS
    <3> QED BY <3>1, PairParts
  <2> QED BY <2>1, <2>2, Zenon
<1>6. PICK n1 \in Number256 : n1 = <<clear128, f>> /\ Value256(n1) = F
  <2>1. <<clear128, f>> \in Number256 /\ Value256(<<clear128, f>>) = 0 * L + F
    BY <1>1, <1>3, Clear128, Make256
  <2> QED BY <2>1
<1>7. PICK n2 \in Number256 : n2 = <<s, clear128>> /\ Value256(n2) = S * L
  <2>1. <<s, clear128>> \in Number256 /\ Value256(<<s, clear128>>) = S * L + 0
    BY <1>1, <1>3, Clear128, Make256
  <2>2. S * L \in Int
    OBVIOUS
  <2> QED BY <2>1, <2>2
<1>8. PICK n3 \in Number256, E \in Int :
        n3 = <<shiftl128(e, WordBits), clear128>> /\ E = ((v * K) % L) * L /\ Value256(n3) = E
  <2>1. /\ <<shiftl128(e, WordBits), clear128>> \in Number256
        /\ Value256(<<shiftl128(e, WordBits), clear128>>) = ((v % K) * K) * L + 0
    BY <1>1, <1>2, <1>3, Clear128, Make256
  <2>2. PICK g \in Int : g = (v % K) * K
    <3>1. v % K \in Int
      OBVIOUS
    <3> QED BY <3>1
  <2>3. g * L \in Int
    OBVIOUS
  <2> QED BY <1>4, <2>1, <2>2, <2>3
<1>9. PICK n4 \in Number256, T \in Int :
        /\ n4 = <<<<upper(t), 0>>, shiftl128(t, WordBits)>>
        /\ T = (w \div K) * (K * L) + (w % K) * K /\ Value256(n4) = T
  <2>1. <<a, 0>> \in Number128 /\ Value128(<<a, 0>>) = a * K + 0
    BY <1>1, Make128
  <2>2. /\ <<<<a, 0>>, shiftl128(t, WordBits)>> \in Number256
        /\ Value256(<<<<a, 0>>, shiftl128(t, WordBits)>>) = (a * K + 0) * L + (w % K) * K
    <3>1. PICK g \in Number128 : g = <<a, 0>> /\ Value128(g) = a * K + 0
      BY <2>1
    <3>2. PICK h \in Number128 : h = shiftl128(t, WordBits) /\ Value128(h) = (w % K) * K
      BY <1>2, <1>3
    <3>3. <<g, h>> \in Number256 /\ Value256(<<g, h>>) = Value128(g) * L + Value128(h)
      BY <1>1, Make256, Zenon
    <3> QED BY <3>1, <3>2, <3>3, Zenon
  <2>3. a * K \in Int /\ (a * K) * L = a * (K * L) /\ b * K \in Int
    BY Ring
  <2>4. PICK g \in Int : g = K * L
    OBVIOUS
  <2>5. a * g \in Int
    OBVIOUS
  <2> QED BY <1>5, <2>2, <2>3, <2>4, <2>5
<1>10. PICK H \in Int : H = S * L
  OBVIOUS
<1>11. PICK m \in Number256 : m = add256(n3, n4) /\ Value256(m) = (E + T) % M
  BY <1>1, <1>8, <1>9, Add256Is
<1>12. PICK n \in Number256 : n = add256(n2, m) /\ Value256(n) = (H + (E + T)) % M
  <2>1. add256(n2, m) \in Number256 /\ Value256(add256(n2, m)) = (H + ((E + T) % M)) % M
    BY <1>1, <1>7, <1>10, <1>11, Add256Is
  <2>2. (H + ((E + T) % M)) % M = (H + (E + T)) % M
    <3>1. E + T \in Int
      OBVIOUS
    <3> QED BY <3>1, ModBefore, Zenon
  <2> QED BY <2>1, <2>2
<1>13. Value256(add256(n1, n)) = (E + H + (F + T)) % M
  <2>1. Value256(add256(n1, n)) = (F + ((H + (E + T)) % M)) % M
    BY <1>1, <1>6, <1>12, Add256Is
  <2>2. (F + ((H + (E + T)) % M)) % M = (F + (H + (E + T))) % M
    <3>1. H + (E + T) \in Int /\ F \in Int
      OBVIOUS
    <3> QED BY <3>1, ModBefore, Zenon
  <2>3. F + (H + (E + T)) = E + H + (F + T)
    OBVIOUS
  <2> QED BY <2>1, <2>2, <2>3, Zenon
<1> QED BY <1>1, <1>3, <1>6, <1>7, <1>8, <1>9, <1>10, <1>11, <1>12, <1>13, Zenon

(* The product of numbers of two halves modulo 2^256 is what mul256 makes of*)
(* them exactly if their third column fits a word.                          *)
LEMMA Mul256Is ==
  ASSUME NEW x \in Number256, NEW y \in Number256
  PROVE  Value256(mul256(x, y)) = (Value256(x) * Value256(y)) % Pow2[4 * WordBits]
           <=> ThirdColumn(x, y) < WordSpan
<1>1. PICK K \in Nat, L \in Nat \ {0}, M \in Nat \ {0} :
        /\ K = WordSpan /\ L = LongSpan /\ L = K * K /\ K >= 2
        /\ M = L * L /\ M = Pow2[4 * WordBits]
  <2>1. LongSpan * LongSpan \in Nat \ {0}
    BY Spans
  <2> QED BY <2>1, Spans
<1>2. PICK c : c = Columns256(x, y)
  OBVIOUS
<1>3. PICK first \in Int, second \in Int, rest \in Int, F \in 0..(K - 1) :
        /\ c.fourth \in Number128 /\ Value128(c.fourth) = F
        /\ c.third \in Number128 /\ Value128(c.third) \in 0..(3 * (K - 1))
        /\ Value128(c.third) = ThirdColumn(x, y)
        /\ c.second \in Number128 /\ Value128(c.second) = second % L
        /\ c.first \in Number128 /\ Value128(c.first) = first % L
        /\ Value256(x) * Value256(y)
             = rest * M + (first * (K * L) + second * L + Value128(c.third) * K + F)
  <2>1. PICK first \in Int, second \in Int, rest \in Int, F \in 0..(WordSpan - 1) :
           /\ c.fourth \in Number128 /\ Value128(c.fourth) = F
           /\ c.third \in Number128 /\ Value128(c.third) \in 0..(3 * (WordSpan - 1))
           /\ Value128(c.third) = ThirdColumn(x, y)
           /\ Holds(c.second, second) /\ Holds(c.first, first)
           /\ Value256(x) * Value256(y)
                = rest * (LongSpan * LongSpan)
                  + (first * (WordSpan * LongSpan) + second * LongSpan
                     + Value128(c.third) * WordSpan + F)
    BY <1>2, Columns256Are
  <2>2. /\ c.second \in Number128 /\ Value128(c.second) = second % LongSpan
        /\ c.first \in Number128 /\ Value128(c.first) = first % LongSpan
    BY <2>1, Zenon DEF Holds
  <2> QED BY <1>1, <2>1, <2>2
<1>4. PICK t \in 0..(3 * (K - 1)), P \in Int :
        /\ t = Value128(c.third) /\ t = ThirdColumn(x, y)
        /\ P = Value256(x) * Value256(y)
        /\ P = rest * M + (first * (K * L) + second * L + t * K + F)
  <2>1. Value256(x) * Value256(y) \in Int
    <3>1. Value256(x) \in Int /\ Value256(y) \in Int
      BY Number256Is
    <3> QED BY <3>1, Ring
  <2> QED BY <1>3, <2>1, Zenon
<1>41. PICK E \in Int, T \in Int :
        /\ E = (((first % L) * K) % L) * L
        /\ T = (t \div K) * (K * L) + (t % K) * K
        /\ Value256(mul256(x, y)) = (E + (second % L) * L + (F + T)) % M
  <2>1. mul256(x, y)
          = add256(<<clear128, c.fourth>>,
              add256(<<c.second, clear128>>,
                add256(<<shiftl128(c.first, WordBits), clear128>>,
                       <<<<upper(c.third), 0>>, shiftl128(c.third, WordBits)>>)))
    BY <1>2, Zenon DEF mul256
  <2>2. PICK E \in Int, T \in Int :
          /\ E = ((Value128(c.first) * WordSpan) % LongSpan) * LongSpan
          /\ T = (Value128(c.third) \div WordSpan) * (WordSpan * LongSpan)
                 + (Value128(c.third) % WordSpan) * WordSpan
          /\ Value256(mul256(x, y))
               = (E + Value128(c.second) * LongSpan + (Value128(c.fourth) + T))
                   % (LongSpan * LongSpan)
    <3> DEFINE P2(f, s, e, u) ==
          \E E \in Int, T \in Int :
           /\ E = ((Value128(e) * WordSpan) % LongSpan) * LongSpan
           /\ T = (Value128(u) \div WordSpan) * (WordSpan * LongSpan)
                  + (Value128(u) % WordSpan) * WordSpan
           /\ Value256(add256(<<clear128, f>>,
                        add256(<<s, clear128>>,
                          add256(<<shiftl128(e, WordBits), clear128>>,
                                 <<<<upper(u), 0>>, shiftl128(u, WordBits)>>))))
                = (E + Value128(s) * LongSpan + (Value128(f) + T)) % (LongSpan * LongSpan)
    <3>1. \A f, s, e, u \in Number128 : P2(f, s, e, u)
      BY Mul256Summands
    <3> HIDE DEF P2
    <3>2. P2(c.fourth, c.second, c.first, c.third)
      BY <1>3, <3>1, Zenon
    <3> USE DEF P2
    <3> QED BY <2>1, <3>2, Zenon
  <2> QED BY <1>1, <1>3, <1>4, <2>2, Zenon
<1>5. (E + (second % L) * L + (F + T)) % M = (first * (K * L) + second * L + (F + T)) % M
  <2>1. PICK low \in Int : low = F + T
    OBVIOUS
  <2>2. K \in Nat \ {0} /\ M = L * L
    BY <1>1
  <2>3. CutAlike(K, L, M, first, second, low)
    BY <2>2, ColumnsCut
  <2> QED BY <1>41, <2>1, <2>3 DEF CutAlike
<1>6. PICK p \in Int : p = first * (K * L) + second * L + F
  <2>1. PICK g \in Int : g = K * L
    OBVIOUS
  <2>2. first * g \in Int /\ second * L \in Int
    OBVIOUS
  <2> QED BY <2>1, <2>2
<1>7. first * (K * L) + second * L + (F + T) = p + T
  <2>1. PICK g \in Int : g = K * L
    OBVIOUS
  <2>2. first * g \in Int /\ second * L \in Int
    OBVIOUS
  <2> QED BY <1>6, <2>1, <2>2
<1>8. P % M = (p + t * K) % M
  <2>1. PICK g \in Int : g = K * L
    OBVIOUS
  <2>2. first * g \in Int /\ second * L \in Int /\ t * K \in Int /\ rest * M \in Int
    OBVIOUS
  <2>3. P = (p + t * K) + rest * M /\ p + t * K \in Int
    BY <1>4, <1>6, <2>1, <2>2
  <2>4. ((p + t * K) + rest * M) % M = (p + t * K) % M
    BY <2>3, ModPlus
  <2> QED BY <2>3, <2>4
<1>9. TooHigh(K, L, t, p)
  BY <1>1, CarryTooHigh
<1>10. (p + T) % M = (p + t * K) % M <=> t < K
  BY <1>1, <1>41, <1>9 DEF TooHigh
<1> QED BY <1>1, <1>4, <1>41, <1>5, <1>7, <1>8, <1>10, Zenon

-----------------------------------------------------------------------------
(* The numbers of the width in hand.                                        *)
Num == IF Long THEN Number256 ELSE Number128

(* There are places for a word, and powers of two for all of them.          *)
LEMMA PlacesIs ==
  /\ Places \in 1..(4 * WordBits) /\ WordBits \in 0..Places
  /\ Pow2[Places] \in Nat \ {0} /\ Pow2[Places] <= Pow2[4 * WordBits]
<1>1. Places \in 1..(4 * WordBits) /\ WordBits \in 0..Places
  BY WordBitsIs DEF Places
<1>2. Places = 4 * WordBits \/ Places < 4 * WordBits
  BY <1>1
<1>3. Places \in 0..(4 * WordBits) /\ 4 * WordBits \in 0..(4 * WordBits)
  BY <1>1
<1>4. Pow2[Places] \in Nat \ {0} /\ Pow2[4 * WordBits] \in Nat \ {0}
  BY <1>3, Pow2Nat, Zenon
<1>5. Pow2[Places] <= Pow2[4 * WordBits]
  BY <1>2, <1>3, <1>4, Pow2Grows
<1> QED BY <1>1, <1>4, <1>5

(* A number is determined by its value.                                     *)
LEMMA NumIs ==
  ASSUME NEW x \in Num, NEW y \in Num
  PROVE  /\ Value(x) \in 0..(Pow2[Places] - 1)
         /\ x = y <=> Value(x) = Value(y)
         /\ gt(x, y) <=> Value(x) > Value(y)
         /\ gte(x, y) <=> Value(x) >= Value(y)
<1>1. CASE Long
  <2>1. x \in Number256 /\ y \in Number256 /\ Value(x) = Value256(x) /\ Value(y) = Value256(y)
        /\ Places = 4 * WordBits
    BY <1>1, Zenon DEF Num, Value, Places
  <2>2. Value256(x) \in 0..(Pow2[4 * WordBits] - 1) /\ Value256(y) \in 0..(Pow2[4 * WordBits] - 1)
    BY <2>1, Number256Is, Zenon
  <2>3. /\ gt256(x, y) <=> Value256(x) > Value256(y)
        /\ x = y <=> Value256(x) = Value256(y)
    BY <2>1, Order256, Zenon
  <2>4. (Value256(x) > Value256(y) \/ Value256(x) = Value256(y)) <=> Value256(x) >= Value256(y)
    BY <2>2
  <2> QED BY <1>1, <2>1, <2>2, <2>3, <2>4, Zenon DEF gt, gte, gte256
<1>2. CASE ~Long
  <2>1. x \in Number128 /\ y \in Number128 /\ Value(x) = Value128(x) /\ Value(y) = Value128(y)
        /\ Places = 2 * WordBits
    BY <1>2, Zenon DEF Num, Value, Places
  <2>2. Value128(x) \in 0..(Pow2[2 * WordBits] - 1) /\ Value128(y) \in 0..(Pow2[2 * WordBits] - 1)
    BY <2>1, Number128Is, Zenon DEF LongSpan
  <2>3. /\ gt128(x, y) <=> Value128(x) > Value128(y)
        /\ x = y <=> Value128(x) = Value128(y)
    BY <2>1, Order128, Zenon
  <2>4. (Value128(x) > Value128(y) \/ Value128(x) = Value128(y)) <=> Value128(x) >= Value128(y)
    BY <2>2
  <2> QED BY <1>2, <2>1, <2>2, <2>3, <2>4, Zenon DEF gt, gte, gte128
<1> QED BY <1>1, <1>2, Zenon

(* Zero and numbers of one word: the base and the one of the adder.         *)
LEMMA SmallIs ==
  /\ clear \in Num /\ Value(clear) = 0
  /\ \A w \in Word : small(w) \in Num /\ Value(small(w)) = w
<1>1. clear128 \in Number128 /\ Value128(clear128) = 0 /\ clear256 \in Number256
      /\ Value256(clear256) = 0 /\ WordSpan \in Nat \ {0} /\ LongSpan \in Nat
  BY Clear128, Clear256, Spans, Zenon
<1>2. ASSUME NEW w \in Word
      PROVE  small(w) \in Num /\ Value(small(w)) = w
  <2>1. w \in 0..(WordSpan - 1) /\ 0 \in 0..(WordSpan - 1) /\ w \in Nat
    BY <1>1, Spans
  <2>2. <<0, w>> \in Number128 /\ Value128(<<0, w>>) = 0 * WordSpan + w
    BY <2>1, Make128, Zenon
  <2>3. Value128(<<0, w>>) = w
    BY <1>1, <2>1, <2>2
  <2>4. /\ <<clear128, <<0, w>>>> \in Number256
        /\ Value256(<<clear128, <<0, w>>>>) = 0 * LongSpan + w
    BY <1>1, <2>2, <2>3, Make256, Zenon
  <2>5. Value256(<<clear128, <<0, w>>>>) = w
    BY <1>1, <2>1, <2>4
  <2> QED BY <2>2, <2>3, <2>4, <2>5 DEF small, Num, Value
<1> QED BY <1>1, <1>2, Zenon DEF clear, Num, Value

(* Only the cleared number is zero.                                         *)
LEMMA ZeroIs ==
  ASSUME NEW x \in Num
  PROVE  zero(x) <=> Value(x) = 0
BY NumIs, SmallIs, Zenon DEF zero

(* A number less than a word's span is its lowest word: a digit.            *)
LEMMA LowestIs ==
  ASSUME NEW x \in Num, Value(x) \in Word
  PROVE  lowest(x) = Value(x)
<1>1. small(Value(x)) = x
  BY SmallIs, NumIs, Zenon
<1>2. lowest(small(Value(x))) = Value(x)
  BY DEF lowest, small, lower
<1> QED BY <1>1, <1>2, Zenon

(* Operations on numbers of the width in hand are those on their values.    *)
LEMMA MinusIs ==
  ASSUME NEW x \in Num, NEW y \in Num
  PROVE  /\ minus(x, y) \in Num
         /\ Value(minus(x, y)) = (Value(x) - Value(y)) % Pow2[Places]
BY Minus128Is, Minus256Is, Zenon DEF Num, Value, Places, minus, LongSpan

LEMMA OrIs ==
  ASSUME NEW x \in Num, NEW y \in Num, NEW n \in 0..(Places - 1),
         Value(y) = Pow2[n], (Value(x) \div Pow2[n]) % 2 = 0
  PROVE  or(x, y) \in Num /\ Value(or(x, y)) = Value(x) + Pow2[n]
BY Or128Is, Or256Is, Zenon DEF Num, Value, Places, or

LEMMA ShiftlIs ==
  ASSUME NEW x \in Num, NEW n \in 0..Places
  PROVE  /\ shiftl(x, n) \in Num
         /\ Value(shiftl(x, n)) = (Value(x) % Pow2[Places - n]) * Pow2[n]
BY Shiftl128Is, Shiftl256Is, Zenon DEF Num, Value, Places, shiftl

LEMMA ShiftrIs ==
  ASSUME NEW x \in Num, NEW n \in 0..Places
  PROVE  /\ shiftr(x, n) \in Num
         /\ Value(shiftr(x, n)) = Value(x) \div Pow2[n]
BY Shiftr128Is, Shiftr256Is, Zenon DEF Num, Value, Places, shiftr

LEMMA BitsIs ==
  ASSUME NEW x \in Num
  PROVE  bits(x) \in 0..Places /\ BitLength(Value(x), bits(x))
BY Bits128Is, Bits256Is, Zenon DEF Num, Value, Places, bits

(* A shift beyond the width leaves nothing.                                 *)
LEMMA ShiftsClear ==
  ASSUME NEW x
  PROVE  shiftl(x, Places + 1) = clear /\ shiftr(x, Places + 1) = clear
<1>1. CASE Long
  <2>1. 4 * WordBits + 1 >= 4 * WordBits
    BY WordBitsIs
  <2>2. shiftl256(x, 4 * WordBits + 1) = clear256 /\ shiftr256(x, 4 * WordBits + 1) = clear256
    BY <2>1, WordBitsIs DEF shiftl256, shiftr256
  <2> QED BY <1>1, <2>2, Zenon DEF shiftl, shiftr, clear, Places
<1>2. CASE ~Long
  <2>1. 2 * WordBits + 1 >= 2 * WordBits
    BY WordBitsIs
  <2>2. shiftl128(x, 2 * WordBits + 1) = clear128 /\ shiftr128(x, 2 * WordBits + 1) = clear128
    BY <2>1, WordBitsIs DEF shiftl128, shiftr128
  <2> QED BY <1>2, <2>2, Zenon DEF shiftl, shiftr, clear, Places
<1> QED BY <1>1, <1>2

(* One, moved up by some places, is a power of two.                         *)
LEMMA OneMoved ==
  ASSUME NEW n \in 0..(Places - 1)
  PROVE  shiftl(small(1), n) \in Num /\ Value(shiftl(small(1), n)) = Pow2[n]
<1>1. 1 \in Word
  BY Spans
<1>2. /\ Places - n \in 1..(4 * WordBits) /\ (Places - n) - 1 \in 0..(4 * WordBits)
      /\ n \in 0..Places /\ n \in 0..(4 * WordBits) /\ Places - n \in 0..(4 * WordBits)
  BY PlacesIs, WordBitsIs
<1>3. PICK h \in Nat \ {0} : h = Pow2[(Places - n) - 1] /\ Pow2[Places - n] = 2 * h
  BY <1>2, Pow2Is, Pow2Nat, Zenon
<1>4. 1 % (2 * h) = 1
  OBVIOUS
<1>5. Value(shiftl(small(1), n)) = (1 % (2 * h)) * Pow2[n] /\ shiftl(small(1), n) \in Num
  <2>1. small(1) \in Num /\ Value(small(1)) = 1
    BY <1>1, SmallIs, Zenon
  <2>2. /\ shiftl(small(1), n) \in Num
        /\ Value(shiftl(small(1), n)) = (Value(small(1)) % Pow2[Places - n]) * Pow2[n]
    BY <1>2, <2>1, ShiftlIs, Zenon
  <2> QED BY <1>3, <2>1, <2>2, Zenon
<1>6. Pow2[n] \in Nat
  BY <1>2, Pow2Nat
<1> QED BY <1>4, <1>5, <1>6
-----------------------------------------------------------------------------
(* The arguments stay what they were.                                       *)
ArgumentsOK == number \in PrintedNumbers /\ baseParam \in Bases /\ outLength \in OutLengths

LEMMA ArgumentsKept == Spec => []ArgumentsOK
<1>1. Init => ArgumentsOK
  BY DEF Init, ArgumentsOK
<1>2. ArgumentsOK /\ [Next]_vars => ArgumentsOK'
  BY DEF ArgumentsOK, Next, Refuse, Divide, Turn, Divided, Store, Finished, vars
<1> QED BY <1>1, <1>2, PTL DEF Spec

(* What is printed, and all that could be, has the width in hand.           *)
LEMMA GivenIs ==
  ASSUME ArgumentsOK
  PROVE  given \in Num /\ \A y \in Others : y \in Num
<1>1. ASSUME NEW p \in PrintedNumbers, p.width = number.width
      PROVE  p.n \in Num
  <2>1. p \in [width : {128}, n : Number128] \cup [width : {256}, n : Number256]
    BY PrintAssumption
  <2>2. CASE p \in [width : {128}, n : Number128]
    BY <1>1, <2>2 DEF Num, Long
  <2>3. CASE p \in [width : {256}, n : Number256]
    BY <1>1, <2>3 DEF Num, Long
  <2> QED BY <2>1, <2>2, <2>3
<1> QED BY <1>1 DEF ArgumentsOK, given, Others

(* Comparisons and bit lengths of numbers in halves are those of the        *)
(* numbers, for words of any size and all numbers (uint256.c:163-233).      *)
THEOREM OrderInvariant == Spec => []OrderIsNumeric
<1>1. ArgumentsOK => OrderIsNumeric
  <2> SUFFICES ASSUME ArgumentsOK PROVE OrderIsNumeric
    OBVIOUS
  <2>1. given \in Num /\ \A y \in Others : y \in Num
    BY GivenIs
  <2>2. zero(given) <=> Value(given) = 0
    BY <2>1, ZeroIs
  <2>3. ASSUME NEW y \in Others
        PROVE  /\ gt(given, y) <=> Value(given) > Value(y)
               /\ gte(given, y) <=> Value(given) >= Value(y)
    BY <2>1, NumIs, Zenon
  <2>4. PICK v \in 0..(Pow2[Places] - 1) : v = Value(given)
    BY <2>1, NumIs
  <2>5. Places \in 0..(4 * WordBits)
    BY PlacesIs
  <2>6. PICK k \in 0..Places : /\ BitLength(v, k)
                               /\ Cardinality({n \in 0..(Places - 1) : v \div Pow2[n] # 0}) = k
    BY <2>5, BitLengthIs
  <2>7. bits(given) = k
    <3>1. bits(given) \in 0..Places /\ BitLength(v, bits(given))
      BY <2>1, <2>4, BitsIs, Zenon
    <3>2. v \in Nat /\ bits(given) \in 0..(4 * WordBits) /\ k \in 0..(4 * WordBits)
      BY <2>5, <3>1, PlacesIs
    <3> QED BY <2>6, <3>1, <3>2, BitLengthOne, Zenon
  <2>8. {n \in 0..(Places - 1) : v \div Pow2[n] > 0} = {n \in 0..(Places - 1) : v \div Pow2[n] # 0}
    <3>1. ASSUME NEW n \in 0..(Places - 1)
          PROVE  v \div Pow2[n] > 0 <=> v \div Pow2[n] # 0
      <4>1. n \in 0..(4 * WordBits) /\ v \in Nat
        BY <2>5, PlacesIs
      <4>2. PICK p \in Nat \ {0} : p = Pow2[n]
        BY <4>1, Pow2Nat
      <4>3. v \div p >= 0 /\ v \div p \in Int
        BY <4>1, <4>2, DivZero
      <4>4. v \div p > 0 <=> v \div p # 0
        BY <4>3
      <4> QED BY <4>2, <4>4, Zenon
    <3> QED BY <3>1, Zenon
  <2> QED BY <2>2, <2>3, <2>4, <2>6, <2>7, <2>8, Zenon DEF OrderIsNumeric
<1> QED BY <1>1, ArgumentsKept, PTL

(* Sums and differences carry across every boundary inside a number and     *)
(* wrap around at its end only, and minus undoes add (uint256.c:235-273).   *)
THEOREM SumInvariant == Spec => []SumsWrap
<1>1. ArgumentsOK => SumsWrap
  <2> SUFFICES ASSUME ArgumentsOK PROVE SumsWrap
    OBVIOUS
  <2> DEFINE sum(y) == IF Long THEN add256(given, y) ELSE add128(given, y)
  <2>1. given \in Num /\ \A y \in Others : y \in Num
    BY GivenIs
  <2>2. PICK K \in Nat \ {0} : K = Pow2[Places]
    BY PlacesIs
  <2>3. ASSUME NEW y \in Others
        PROVE  /\ Value(sum(y)) = (Value(given) + Value(y)) % Pow2[Places]
               /\ Value(minus(given, y)) = (Value(given) - Value(y)) % Pow2[Places]
               /\ minus(sum(y), y) = given
    <3>1. y \in Num
      BY <2>1
    <3>2. sum(y) \in Num /\ Value(sum(y)) = (Value(given) + Value(y)) % K
      BY <2>1, <2>2, <3>1, Add128Is, Add256Is, Zenon DEF Num, Value, Places, LongSpan
    <3>3. /\ minus(given, y) \in Num
          /\ Value(minus(given, y)) = (Value(given) - Value(y)) % K
          /\ minus(sum(y), y) \in Num
          /\ Value(minus(sum(y), y)) = (Value(sum(y)) - Value(y)) % K
      BY <2>1, <2>2, <3>1, <3>2, MinusIs, Zenon
    <3>4. PICK a \in 0..(K - 1), c \in 0..(K - 1) : a = Value(given) /\ c = Value(y)
      BY <2>1, <2>2, <3>1, NumIs, Zenon
    <3>5. (((a + c) % K) - c) % K = a
      <4>1. a + c \in Int /\ (-c) \in Int
        OBVIOUS
      <4>2. (((a + c) % K) + (-c)) % K = ((a + c) + (-c)) % K
        BY <4>1, ModAgain
      <4>3. (a + c) + (-c) = a /\ a % K = a
        OBVIOUS
      <4>4. ((a + c) % K) + (-c) = ((a + c) % K) - c
        OBVIOUS
      <4> QED BY <4>2, <4>3, <4>4
    <3>6. Value(minus(sum(y), y)) = Value(given)
      BY <3>2, <3>3, <3>4, <3>5, Zenon
    <3>7. minus(sum(y), y) = given
      BY <2>1, <3>3, <3>6, NumIs, Zenon
    <3> QED BY <2>2, <3>2, <3>3, <3>7, Zenon
  <2> QED BY <2>3, Zenon DEF SumsWrap
<1> QED BY <1>1, ArgumentsKept, PTL

(* A shift by any number of places moves all bits and keeps no others, and  *)
(* setting a bit that is clear adds it (uint256.c:71-161, 275-283).         *)
THEOREM ShiftInvariant == Spec => []ShiftsMove
<1>1. ArgumentsOK => ShiftsMove
  <2> SUFFICES ASSUME ArgumentsOK PROVE ShiftsMove
    OBVIOUS
  <2>1. given \in Num
    BY GivenIs
  <2>2. ASSUME NEW n \in 0..Places
        PROVE  /\ Value(shiftl(given, n)) = (Value(given) % Pow2[Places - n]) * Pow2[n]
               /\ Value(shiftr(given, n)) = Value(given) \div Pow2[n]
    BY <2>1, ShiftlIs, ShiftrIs, Zenon
  <2>3. zero(shiftl(given, Places + 1)) /\ zero(shiftr(given, Places + 1))
    BY ShiftsClear, Zenon DEF zero
  <2>4. ASSUME NEW n \in 0..(Places - 1), (Value(given) \div Pow2[n]) % 2 = 0
        PROVE  Value(or(given, shiftl(small(1), n))) = Value(given) + Pow2[n]
    BY <2>1, <2>4, OneMoved, OrIs, Zenon
  <2> QED BY <2>2, <2>3, <2>4, Zenon DEF ShiftsMove
<1> QED BY <1>1, ArgumentsKept, PTL

(* The bytes of a number, however few of them are enough for it, are read   *)
(* back as that number (uint256.c:26-41, utils.c:248-253).                  *)
THEOREM BytesInvariant == Spec => []BytesAreNumber
<1>1. ArgumentsOK => BytesAreNumber
  <2> SUFFICES ASSUME ArgumentsOK, Long, NEW length \in 0..(4 * WordBytes),
                      Value256(given) < Pow2[ByteBits * length]
               PROVE  convertUint256BE(
                        [i \in 0..(length - 1) |->
                           (Value256(given) \div Pow2[ByteBits * (length - 1 - i)])
                             % Pow2[ByteBits]], length) = given
    BY Zenon DEF BytesAreNumber
  <2>1. given \in Number256
    BY GivenIs DEF Num
  <2> DEFINE data == [i \in 0..(length - 1) |->
                        (Value256(given) \div Pow2[ByteBits * (length - 1 - i)])
                          % Pow2[ByteBits]]
  <2>2. \A i \in 0..(length - 1) :
          data[i] = (Value256(given) \div Pow2[ByteBits * (length - 1 - i)]) % Pow2[ByteBits]
    OBVIOUS
  <2> HIDE DEF data
  <2>3. convertUint256BE(data, length) = given
    BY <2>1, <2>2, BytesRead
  <2> QED BY <2>3 DEF data
<1> QED BY <1>1, ArgumentsKept, PTL

(* Halves multiplied one by one.                                            *)
LEMMA ProductIs ==
  ASSUME NEW a \in Int, NEW b \in Int
  PROVE  Product(a, b) = (a * b) % Pow2[Places]
<1>1. PICK h \in Nat \ {0} : h = Pow2[Places \div 2] /\ Pow2[Places] = h * h
  <2>1. PICK w \in Nat \ {0} : w = WordBits
    BY WordBitsIs
  <2>2. (2 * w) \div 2 = w /\ (4 * w) \div 2 = 2 * w
    OBVIOUS
  <2>3. CASE Long
    <3>1. Places = 4 * WordBits /\ Places \div 2 = 2 * WordBits
      BY <2>1, <2>2, <2>3, Zenon DEF Places
    <3> QED BY <3>1, Spans DEF LongSpan
  <2>4. CASE ~Long
    <3>1. Places = 2 * WordBits /\ Places \div 2 = WordBits
      BY <2>1, <2>2, <2>4, Zenon DEF Places
    <3> QED BY <3>1, Spans DEF WordSpan, LongSpan
  <2> QED BY <2>3, <2>4, Zenon
<1>2. PICK p \in Int, q \in 0..(h - 1) : p = a \div h /\ q = a % h /\ a = p * h + q
  BY Split
<1>3. PICK r \in Int, s \in 0..(h - 1) : r = b \div h /\ s = b % h /\ b = r * h + s
  BY Split
<1>4. a * b = (p * r) * (h * h) + (p * s + q * r) * h + q * s
  <2>1. q \in Int /\ s \in Int /\ h \in Int
    OBVIOUS
  <2>2. (p * h + q) * (r * h + s) = (p * r) * (h * h) + (p * s + q * r) * h + q * s
    BY <2>1, PairTimes
  <2> QED BY <1>2, <1>3, <2>2, Zenon
<1>5. PICK m \in Int : m = p * s + q * r
  <2>1. p * s \in Int /\ q * r \in Int
    OBVIOUS
  <2> QED BY <2>1
<1>6. PICK u \in Int, v \in 0..(h - 1) : u = m \div h /\ v = m % h /\ m = u * h + v
  BY Split
<1>7. PICK n \in Int, k \in Int, M \in Nat \ {0}, w \in Int :
        n = q * s /\ k = v * h /\ M = h * h /\ w = p * r
  <2>1. q * s \in Int /\ v * h \in Int /\ h * h \in Nat \ {0} /\ p * r \in Int
    OBVIOUS
  <2> QED BY <2>1
<1>8. m * h = u * M + k
  <2>1. PICK g \in Int : g = u * h
    OBVIOUS
  <2>2. (g + v) * h = g * h + v * h /\ (u * h) * h = u * (h * h)
    BY Ring
  <2> QED BY <1>6, <1>7, <2>1, <2>2
<1>9. a * b = (n + k) + (w + u) * M
  <2>1. (w + u) * M = w * M + u * M
    BY Ring
  <2>2. w * M \in Int /\ u * M \in Int
    OBVIOUS
  <2> QED BY <1>4, <1>5, <1>7, <1>8, <2>1, <2>2
<1>10. ((n + k) + (w + u) * M) % M = (n + k) % M
  <2>1. n + k \in Int /\ w + u \in Int
    OBVIOUS
  <2> QED BY <2>1, ModPlus
<1>11. Product(a, b) = (n + k) % M
  BY <1>1, <1>2, <1>3, <1>5, <1>6, <1>7 DEF Product
<1> QED BY <1>1, <1>7, <1>9, <1>10, <1>11, Zenon

(* The product of two 128-bit numbers, put together from sixteen products   *)
(* of half words, is theirs modulo 2^128 (uint256.c:285-325).               *)
THEOREM Product128Invariant == Spec => []Mul128IsProduct
<1>1. ArgumentsOK => Mul128IsProduct
  <2> SUFFICES ASSUME ArgumentsOK, ~Long, NEW y \in Others
               PROVE  Value(mul128(given, y)) = Product(Value(given), Value(y))
    BY Zenon DEF Mul128IsProduct
  <2>1. /\ given \in Number128 /\ y \in Number128
        /\ Value(given) = Value128(given) /\ Value(y) = Value128(y)
        /\ Value(mul128(given, y)) = Value128(mul128(given, y))
    BY GivenIs, Zenon DEF Num, Value
  <2>2. Value128(given) \in Int /\ Value128(y) \in Int
    BY <2>1, Number128Is
  <2>3. Product(Value128(given), Value128(y)) = (Value128(given) * Value128(y)) % Pow2[Places]
    BY <2>2, ProductIs, Zenon
  <2>4. Pow2[Places] = LongSpan
    BY Zenon DEF Places, LongSpan
  <2>5. Value128(mul128(given, y)) = (Value128(given) * Value128(y)) % LongSpan
    BY <2>1, Mul128Is, Zenon
  <2> QED BY <2>1, <2>3, <2>4, <2>5, Zenon
<1> QED BY <1>1, ArgumentsKept, PTL

(* The product of two 256-bit numbers is theirs modulo 2^256 exactly if the *)
(* third column fits a word (uint256.c:327-410).                            *)
THEOREM Product256Invariant == Spec => []Mul256IsProduct
<1>1. ArgumentsOK => Mul256IsProduct
  <2> SUFFICES ASSUME ArgumentsOK, Long
               PROVE  \A y \in Others :
                        ThirdColumn(given, y) < WordSpan
                          <=> Value(mul256(given, y)) = Product(Value(given), Value(y))
    BY Zenon DEF Mul256IsProduct, ThirdColumn, Wrap, WordSpan
  <2> TAKE y \in Others
  <2>1. /\ given \in Number256 /\ y \in Number256
        /\ Value(given) = Value256(given) /\ Value(y) = Value256(y)
        /\ Value(mul256(given, y)) = Value256(mul256(given, y))
    BY GivenIs, Zenon DEF Num, Value
  <2>2. Value256(given) \in Int /\ Value256(y) \in Int
    BY <2>1, Number256Is
  <2>3. Product(Value256(given), Value256(y)) = (Value256(given) * Value256(y)) % Pow2[Places]
    BY <2>2, ProductIs, Zenon
  <2>4. Pow2[Places] = Pow2[4 * WordBits]
    BY Zenon DEF Places
  <2>5. Value256(mul256(given, y)) = (Value256(given) * Value256(y)) % Pow2[4 * WordBits]
          <=> ThirdColumn(given, y) < WordSpan
    BY <2>1, Mul256Is, Zenon
  <2> QED BY <2>1, <2>3, <2>4, <2>5, Zenon
<1> QED BY <1>1, ArgumentsKept, PTL
-----------------------------------------------------------------------------
(* The highest bits of divisor and dividend brought together: the divisor   *)
(* does not leave the width, and fits below the place above.                *)
LEMMA HighestBits ==
  ASSUME NEW b \in Nat \ {0}, NEW r \in Nat, b <= r,
         NEW j \in 0..(4 * WordBits), NEW k \in 0..(4 * WordBits),
         BitLength(b, j), BitLength(r, k)
  PROVE  /\ j > 0 /\ k - j \in 0..(4 * WordBits - 1) /\ k - j < k
         /\ b * Pow2[k - j] < Pow2[k] /\ r < b * (2 * Pow2[k - j])
         /\ k - j > 0 => b * Pow2[(k - j) - 1] <= r
<1>1. j > 0
  <2>1. SUFFICES ASSUME j = 0 PROVE FALSE
    OBVIOUS
  <2>2. b < Pow2[0] /\ Pow2[0] = 1
    BY <2>1, Pow2Is DEF BitLength
  <2> QED BY <2>2
<1>2. j - 1 \in 0..(4 * WordBits) /\ Pow2[j - 1] \in Nat \ {0} /\ Pow2[j - 1] <= b /\ b < Pow2[j]
      /\ Pow2[j] \in Nat
  BY <1>1, WordBitsIs, Pow2Nat DEF BitLength
<1>3. j <= k
  <2>1. SUFFICES ASSUME k < j PROVE FALSE
    OBVIOUS
  <2>2. r < Pow2[k] /\ Pow2[k] \in Nat
    BY Pow2Nat DEF BitLength
  <2>3. k = j - 1 \/ k < j - 1
    BY <2>1
  <2>4. Pow2[k] <= Pow2[j - 1]
    <3>1. CASE k = j - 1
      BY <1>2, <3>1
    <3>2. CASE k < j - 1
      <4>1. Pow2[k] < Pow2[j - 1]
        BY <1>2, <3>2, Pow2Grows
      <4> QED BY <1>2, <2>2, <4>1
    <3> QED BY <2>3, <3>1, <3>2
  <2> QED BY <1>2, <2>2, <2>4
<1>4. PICK d \in 0..(4 * WordBits - 1) : d = k - j /\ j + d = k /\ (j - 1) + d = k - 1 /\ d < k
  BY <1>1, <1>3, WordBitsIs
<1>5. /\ Pow2[k] = Pow2[j] * Pow2[d] /\ Pow2[k - 1] = Pow2[j - 1] * Pow2[d]
      /\ Pow2[j] = 2 * Pow2[j - 1] /\ Pow2[d] \in Nat \ {0}
  <2>1. Pow2[j + d] = Pow2[j] * Pow2[d]
    <3>1. j \in Nat /\ d \in Nat /\ j + d <= 4 * WordBits
      BY <1>4, WordBitsIs
    <3> QED BY <3>1, Pow2Adds, Zenon
  <2>2. Pow2[(j - 1) + d] = Pow2[j - 1] * Pow2[d]
    <3>1. j - 1 \in Nat /\ d \in Nat /\ (j - 1) + d <= 4 * WordBits
      BY <1>1, <1>4, WordBitsIs
    <3> QED BY <3>1, Pow2Adds, Zenon
  <2>3. j \in 1..(4 * WordBits) /\ d \in 0..(4 * WordBits)
    BY <1>1, WordBitsIs
  <2> QED BY <1>4, <2>1, <2>2, <2>3, Pow2Is, Pow2Nat, Zenon
<1>6. PICK g \in Nat \ {0}, p \in Nat \ {0} : g = Pow2[j - 1] /\ p = Pow2[d]
  BY <1>2, <1>5
<1>7. g <= b /\ b <= 2 * g - 1 /\ Pow2[k] = (2 * g) * p /\ Pow2[k - 1] = g * p
  BY <1>2, <1>5, <1>6
<1>8. k > 0 /\ r < (2 * g) * p /\ g * p <= r
  <2>1. k > 0
    BY <1>1, <1>3
  <2> QED BY <1>7, <2>1 DEF BitLength
<1>9. b * p < (2 * g) * p
  <2>1. b * p <= (2 * g - 1) * p
    BY <1>7, Grow
  <2>2. (2 * g - 1) * p = (2 * g) * p - p
    BY Ring
  <2>3. (2 * g) * p \in Int /\ b * p \in Int /\ (2 * g - 1) * p \in Int
    OBVIOUS
  <2> QED BY <2>1, <2>2, <2>3
<1>10. r < b * (2 * p)
  <2>1. g * (2 * p) <= b * (2 * p)
    BY <1>7, Grow
  <2>2. g * (2 * p) = (2 * g) * p
    OBVIOUS
  <2>3. (2 * g) * p \in Int /\ b * (2 * p) \in Int
    OBVIOUS
  <2> QED BY <1>8, <2>1, <2>2, <2>3
<1>11. ASSUME d > 0 PROVE b * Pow2[d - 1] <= r
  <2>1. d \in 1..(4 * WordBits) /\ d - 1 \in 0..(4 * WordBits)
    BY <1>11, WordBitsIs
  <2>2. PICK h \in Nat \ {0} : h = Pow2[d - 1] /\ p = 2 * h
    BY <1>6, <2>1, Pow2Is, Pow2Nat, Zenon
  <2>3. b * h <= (2 * g) * h
    BY <1>7, Grow
  <2>4. (2 * g) * h = g * (2 * h)
    OBVIOUS
  <2>5. g * (2 * h) = g * p
    BY <2>2
  <2>6. b * h \in Int /\ (2 * g) * h \in Int /\ g * p \in Int
    OBVIOUS
  <2> QED BY <1>8, <2>2, <2>3, <2>4, <2>5, <2>6
<1> QED BY <1>1, <1>4, <1>6, <1>7, <1>9, <1>10, <1>11

(* Half of a power of two, and of the divisor moved up.                     *)
LEMMA MovedDown ==
  ASSUME NEW x \in Num, NEW b \in Nat, NEW n \in 0..(Places - 1), Value(x) = b * Pow2[n]
  PROVE  /\ shiftr(x, 1) \in Num
         /\ n > 0 => Value(shiftr(x, 1)) = b * Pow2[n - 1]
         /\ n = 0 => Value(shiftr(x, 1)) = b \div 2
<1>1. 1 \in 0..Places /\ n \in 0..(4 * WordBits) /\ 1 \in 1..(4 * WordBits)
  BY PlacesIs, WordBitsIs
<1>2. Pow2[1] = 2 /\ Pow2[0] = 1
  <2>1. Pow2[1] = 2 * Pow2[1 - 1]
    BY <1>1, Pow2Is
  <2> QED BY <2>1, Pow2Is
<1>3. shiftr(x, 1) \in Num /\ Value(shiftr(x, 1)) = (b * Pow2[n]) \div 2
  BY <1>1, <1>2, ShiftrIs, Zenon
<1>4. ASSUME n > 0 PROVE (b * Pow2[n]) \div 2 = b * Pow2[n - 1]
  <2>1. n \in 1..(4 * WordBits) /\ n - 1 \in 0..(4 * WordBits)
    BY <1>1, <1>4, WordBitsIs
  <2>2. PICK h \in Nat \ {0} : h = Pow2[n - 1] /\ Pow2[n] = 2 * h
    BY <2>1, Pow2Is, Pow2Nat, Zenon
  <2>3. PICK c \in Int : c = b * h
    OBVIOUS
  <2>4. b * (2 * h) = c * 2 + 0
    BY <2>3
  <2>5. (c * 2 + 0) \div 2 = c
    OBVIOUS
  <2> QED BY <2>2, <2>3, <2>4, <2>5
<1>5. ASSUME n = 0 PROVE (b * Pow2[n]) \div 2 = b \div 2
  <2>1. b * Pow2[n] = b
    BY <1>2, <1>5
  <2> QED BY <2>1
<1> QED BY <1>3, <1>4, <1>5, Zenon
-----------------------------------------------------------------------------
(* Where the divisor stands: at place n, or moved out below the last.       *)
AtPlace(n, add, copy, mod, div) ==
  /\ Value(add) = Pow2[n] /\ Value(copy) = baseParam * Pow2[n]
  /\ Value(mod) < baseParam * (2 * Pow2[n])
  /\ Value(div) % (2 * Pow2[n]) = 0
MovedOut(add, mod) == Value(add) = 0 /\ Value(mod) < baseParam

(* The base is a number of one word.                                        *)
LEMMA BaseIs ==
  ASSUME ArgumentsOK
  PROVE  baseParam \in Nat \ {0} /\ baseParam < 18 /\ base \in Num /\ Value(base) = baseParam
         /\ baseParam \in Word
<1>1. baseParam \in Word /\ baseParam \in 1..17
  BY PrintAssumption DEF ArgumentsOK
<1> QED BY <1>1, SmallIs DEF base

(* A division begins with the divisor at the place where it fits.           *)
Aligns(r, copy, add) ==
  \E d, back :
    /\ d = bits(r) - bits(base)
    /\ back = IF gt(shiftl(base, d), r) THEN 1 ELSE 0
    /\ copy = shiftr(shiftl(base, d), back)
    /\ add = shiftr(shiftl(small(1), d), back)
AlignedAt(n, r, copy, add) ==
  AtPlace(n, add, copy, r, clear) /\ baseParam * Pow2[n] <= Value(r)
AlignedTo(r, copy, add) ==
  copy \in Num /\ add \in Num /\ \E n \in 0..(Places - 1) : AlignedAt(n, r, copy, add)

LEMMA Begins ==
  ASSUME ArgumentsOK, NEW r \in Num, ~gt(base, r), NEW copy, NEW add,
         Aligns(r, copy, add)
  PROVE  AlignedTo(r, copy, add)
<1>1. PICK d, back :
        /\ d = bits(r) - bits(base)
        /\ back = IF gt(shiftl(base, d), r) THEN 1 ELSE 0
        /\ copy = shiftr(shiftl(base, d), back)
        /\ add = shiftr(shiftl(small(1), d), back)
  BY Zenon DEF Aligns
<1>2. PICK b \in Nat \ {0} : b = baseParam /\ base \in Num /\ Value(base) = b
  BY BaseIs
<1>3. PICK v \in Nat : v = Value(r) /\ v < Pow2[Places]
  BY NumIs, PlacesIs
<1>4. b <= v
  <2>1. ~(b > v)
    BY <1>2, <1>3, NumIs, Zenon
  <2> QED BY <2>1
<1>5. PICK j \in 0..Places, k \in 0..Places :
        /\ j = bits(base) /\ k = bits(r) /\ d = k - j
        /\ BitLength(b, j) /\ BitLength(v, k)
  BY <1>1, <1>2, <1>3, BitsIs, Zenon
<1>6. /\ Places \in Nat /\ 4 * WordBits \in Nat /\ Places <= 4 * WordBits
      /\ j \in 0..(4 * WordBits) /\ k \in 0..(4 * WordBits)
  BY PlacesIs, WordBitsIs
<1>7. /\ j > 0 /\ d \in 0..(4 * WordBits - 1) /\ d < k
      /\ b * Pow2[d] < Pow2[k] /\ v < b * (2 * Pow2[d])
      /\ d > 0 => b * Pow2[d - 1] <= v
  <2>1. /\ j > 0 /\ k - j \in 0..(4 * WordBits - 1) /\ k - j < k
        /\ b * Pow2[k - j] < Pow2[k] /\ v < b * (2 * Pow2[k - j])
        /\ k - j > 0 => b * Pow2[(k - j) - 1] <= v
    BY <1>4, <1>5, <1>6, HighestBits
  <2> QED BY <1>5, <2>1, Zenon
<1>8. d \in 0..(Places - 1) /\ d \in 0..Places /\ d \in 0..(4 * WordBits)
      /\ Places - d \in 0..(4 * WordBits) /\ (j < Places - d \/ j = Places - d)
  BY <1>5, <1>6, <1>7
<1>9. shiftl(base, d) \in Num /\ Value(shiftl(base, d)) = b * Pow2[d]
  <2>1. shiftl(base, d) \in Num /\ Value(shiftl(base, d)) = (b % Pow2[Places - d]) * Pow2[d]
    BY <1>2, <1>8, ShiftlIs, Zenon
  <2>2. Pow2[Places - d] \in Nat \ {0} /\ Pow2[j] \in Nat /\ b < Pow2[j]
    BY <1>5, <1>6, <1>8, Pow2Nat DEF BitLength
  <2>3. Pow2[j] <= Pow2[Places - d]
    <3>1. CASE j < Places - d
      <4>1. Pow2[j] < Pow2[Places - d]
        BY <1>6, <1>8, <3>1, Pow2Grows
      <4> QED BY <2>2, <4>1
    <3>2. CASE j = Places - d
      BY <2>2, <3>2
    <3> QED BY <1>8, <3>1, <3>2
  <2>4. b % Pow2[Places - d] = b
    BY <2>2, <2>3
  <2> QED BY <2>1, <2>4, Zenon
<1>10. shiftl(small(1), d) \in Num /\ Value(shiftl(small(1), d)) = 1 * Pow2[d]
  <2>1. shiftl(small(1), d) \in Num /\ Value(shiftl(small(1), d)) = Pow2[d]
    BY <1>8, OneMoved
  <2>2. Pow2[d] = 1 * Pow2[d]
    BY <1>8, Pow2Nat
  <2> QED BY <2>1, <2>2, Zenon
<1>11. back = 1 \/ back = 0
  BY <1>1
<1>12. \A n \in 0..(4 * WordBits) : Value(clear) % (2 * Pow2[n]) = 0
  <2>1. ASSUME NEW n \in 0..(4 * WordBits) PROVE 0 % (2 * Pow2[n]) = 0
    BY Pow2Nat
  <2> QED BY <2>1, SmallIs, Zenon
<1>13. CASE back = 1
  <2>1. b * Pow2[d] > v
    <3>1. gt(shiftl(base, d), r)
      BY <1>1, <1>13
    <3>2. gt(shiftl(base, d), r) <=> Value(shiftl(base, d)) > Value(r)
      BY <1>9, NumIs
    <3> QED BY <1>3, <1>9, <3>1, <3>2, Zenon
  <2>2. d > 0
    <3>1. SUFFICES ASSUME d = 0 PROVE FALSE
      BY <1>8
    <3>2. Value(r) = v /\ b * 1 > v
      BY <1>3, <2>1, <3>1, Pow2Is
    <3>3. gt(base, r) <=> b > v
      BY <1>2, <1>3, NumIs, Zenon
    <3> QED BY <3>2, <3>3
  <2>3. PICK n \in 0..(Places - 1) : n = d - 1
    BY <1>6, <1>8, <2>2
  <2>4. copy \in Num /\ Value(copy) = b * Pow2[n]
    <3>1. copy = shiftr(shiftl(base, d), 1)
      BY <1>1, <1>13, Zenon
    <3> QED BY <1>8, <1>9, <2>2, <2>3, <3>1, MovedDown
  <2>5. add \in Num /\ Value(add) = Pow2[n]
    <3>1. add = shiftr(shiftl(small(1), d), 1)
      BY <1>1, <1>13, Zenon
    <3>2. add \in Num /\ Value(add) = 1 * Pow2[n]
      BY <1>8, <1>10, <2>2, <2>3, <3>1, MovedDown
    <3>3. n \in 0..(4 * WordBits)
      BY <1>6
    <3> QED BY <3>2, <3>3, Pow2Nat
  <2>6. Pow2[d] = 2 * Pow2[n]
    <3>1. d \in 1..(4 * WordBits)
      BY <1>8, <2>2
    <3> QED BY <2>3, <3>1, Pow2Is, Zenon
  <2>7. n \in 0..(4 * WordBits) /\ v < b * (2 * Pow2[n]) /\ b * Pow2[n] <= v
    <3>1. v < b * Pow2[d]
      <4>1. b * Pow2[d] \in Int
        BY <1>8, Pow2Nat
      <4> QED BY <2>1, <4>1
    <3> QED BY <1>6, <1>7, <2>2, <2>3, <2>6, <3>1
  <2> QED BY <1>2, <1>3, <1>12, <2>4, <2>5, <2>7, Zenon DEF AtPlace, AlignedAt, AlignedTo
<1>14. CASE back = 0
  <2>1. Pow2[0] = 1 /\ 0 \in 0..Places /\ Places \in Nat
    BY Pow2Is, PlacesIs
  <2>2. b * Pow2[d] <= v
    <3>1. ~gt(shiftl(base, d), r)
      BY <1>1, <1>14
    <3>2. ~(b * Pow2[d] > v)
      BY <1>3, <1>9, <3>1, NumIs, Zenon
    <3>3. b * Pow2[d] \in Int
      BY <1>8, Pow2Nat
    <3> QED BY <3>2, <3>3
  <2>3. copy \in Num /\ Value(copy) = b * Pow2[d]
    <3>1. copy = shiftr(shiftl(base, d), 0)
      BY <1>1, <1>14, Zenon
    <3>2. copy \in Num /\ Value(copy) = (b * Pow2[d]) \div 1
      BY <1>9, <2>1, <3>1, ShiftrIs, Zenon
    <3>3. b * Pow2[d] \in Int
      BY <1>8, Pow2Nat
    <3> QED BY <3>2, <3>3
  <2>4. add \in Num /\ Value(add) = Pow2[d]
    <3>1. add = shiftr(shiftl(small(1), d), 0)
      BY <1>1, <1>14, Zenon
    <3>2. add \in Num /\ Value(add) = (1 * Pow2[d]) \div 1
      BY <1>10, <2>1, <3>1, ShiftrIs, Zenon
    <3>3. Pow2[d] \in Int
      BY <1>8, Pow2Nat
    <3> QED BY <3>2, <3>3
  <2> QED BY <1>2, <1>3, <1>7, <1>8, <1>12, <2>2, <2>3, <2>4, Zenon DEF AtPlace, AlignedAt, AlignedTo
<1> QED BY <1>11, <1>13, <1>14
(* What is subtracted at a place: the divisor moved up to it, or nothing.   *)
Taken(n, mod, copy) == IF gte(mod, copy) THEN Pow2[n] ELSE 0

(* One turn of the loop, from a place to the next or out.                   *)
Turned(add, copy, mod, div, mod2, div2) ==
  /\ mod2 = IF gte(mod, copy) THEN minus(mod, copy) ELSE mod
  /\ div2 = IF gte(mod, copy) THEN or(div, add) ELSE div
TurnedTo(n, add, copy, mod, div, mod2, div2) ==
  /\ mod2 \in Num /\ div2 \in Num /\ shiftr(copy, 1) \in Num /\ shiftr(add, 1) \in Num
  /\ Value(mod2) = Value(mod) - baseParam * Taken(n, mod, copy)
  /\ Value(div2) = Value(div) + Taken(n, mod, copy)
  /\ n = 0 => MovedOut(shiftr(add, 1), mod2)
  /\ n > 0 => AtPlace(n - 1, shiftr(add, 1), shiftr(copy, 1), mod2, div2)

LEMMA Turns ==
  ASSUME ArgumentsOK, NEW n \in 0..(Places - 1),
         NEW add \in Num, NEW copy \in Num, NEW mod \in Num, NEW div \in Num,
         AtPlace(n, add, copy, mod, div),
         NEW mod2, NEW div2, Turned(add, copy, mod, div, mod2, div2)
  PROVE  TurnedTo(n, add, copy, mod, div, mod2, div2)
<1>1. PICK b \in Nat \ {0} : b = baseParam
  BY BaseIs
<1>2. /\ Places \in Nat /\ 4 * WordBits \in Nat /\ Places <= 4 * WordBits
      /\ n \in 0..(4 * WordBits)
  BY PlacesIs, WordBitsIs
<1>3. PICK p \in Nat \ {0} : p = Pow2[n]
  BY <1>2, Pow2Nat
<1>4. PICK c \in Nat : c = b * p
  OBVIOUS
<1>5. PICK K \in Nat \ {0} : K = Pow2[Places]
  BY PlacesIs
<1>6. PICK m \in 0..(K - 1), q \in 0..(K - 1) : m = Value(mod) /\ q = Value(div)
  BY <1>5, NumIs
<1>7. /\ Value(add) = p /\ Value(copy) = c /\ m < 2 * c /\ q % (2 * p) = 0
      /\ Value(copy) = b * Pow2[n] /\ Value(add) = 1 * Pow2[n]
  <2>1. Value(add) = p /\ Value(copy) = b * p /\ m < b * (2 * p) /\ q % (2 * p) = 0
    BY <1>1, <1>3, <1>6, Zenon DEF AtPlace
  <2>2. b * (2 * p) = 2 * (b * p) /\ p = 1 * p
    OBVIOUS
  <2> QED BY <1>3, <1>4, <2>1, <2>2
<1>8. PICK s \in Int : q = s * p /\ (q \div p) % 2 = 0 /\ q % p = 0
  <2>1. q \in Int /\ q % (2 * p) = ((q \div p) % 2) * p + (q % p)
    <3>1. q \in Int
      OBVIOUS
    <3> QED BY <3>1, ModDoubled
  <2>2. PICK t \in {0, 1}, u \in 0..(p - 1) : t = (q \div p) % 2 /\ u = q % p
    <3>1. q \div p \in Int /\ q % p \in 0..(p - 1)
      BY Split
    <3> QED BY <3>1
  <2>3. t * p + u = 0
    BY <1>7, <2>1, <2>2
  <2>4. t = 0 /\ u = 0
    BY <2>3
  <2>5. q = (q \div p) * p + (q % p) /\ q \div p \in Int
    BY Split
  <2>6. q = (q \div p) * p
    <3>1. (q \div p) * p \in Int
      BY <2>5
    <3> QED BY <2>2, <2>4, <2>5, <3>1
  <2> QED BY <2>2, <2>4, <2>5, <2>6, Zenon
<1>9. gte(mod, copy) <=> m >= c
  BY <1>6, <1>7, NumIs, Zenon
<1>10. PICK e \in {0, p} : e = Taken(n, mod, copy) /\ (e = p <=> m >= c)
  BY <1>3, <1>9 DEF Taken
<1>11. ASSUME m >= c
       PROVE  /\ mod2 \in Num /\ div2 \in Num
              /\ Value(mod2) = m - b * e /\ Value(div2) = q + e
              /\ Value(mod2) < c /\ Value(div2) % p = 0
  <2>1. e = p /\ b * e = c
    BY <1>4, <1>10, <1>11
  <2>2. mod2 = minus(mod, copy) /\ div2 = or(div, add)
    BY <1>9, <1>11, Zenon DEF Turned
  <2>3. mod2 \in Num /\ Value(mod2) = m - c
    <3>1. mod2 \in Num /\ Value(mod2) = (m - c) % K
      BY <1>5, <1>6, <1>7, <2>2, MinusIs, Zenon
    <3>2. m - c \in 0..(K - 1)
      BY <1>11
    <3>3. (m - c) % K = m - c
      BY <3>2
    <3> QED BY <3>1, <3>3, Zenon
  <2>4. div2 \in Num /\ Value(div2) = q + p
    <3>1. Value(add) = Pow2[n] /\ (Value(div) \div Pow2[n]) % 2 = 0
      BY <1>3, <1>6, <1>7, <1>8, Zenon
    <3>2. or(div, add) \in Num /\ Value(or(div, add)) = Value(div) + Pow2[n]
      BY <3>1, OrIs
    <3> QED BY <1>3, <1>6, <2>2, <3>2, Zenon
  <2>5. m - c < c /\ (q + p) % p = 0
    <3>1. q + p = (s + 1) * p + 0
      BY <1>8, Ring
    <3>2. s + 1 \in Int /\ 0 \in 0..(p - 1)
      OBVIOUS
    <3>3. ((s + 1) * p + 0) % p = 0
      BY <3>2, PairParts
    <3>4. m - c < c
      BY <1>7, <1>11
    <3> QED BY <3>1, <3>3, <3>4, Zenon
  <2> QED BY <2>1, <2>3, <2>4, <2>5, Zenon
<1>12. ASSUME ~(m >= c)
       PROVE  /\ mod2 \in Num /\ div2 \in Num
              /\ Value(mod2) = m - b * e /\ Value(div2) = q + e
              /\ Value(mod2) < c /\ Value(div2) % p = 0
  <2>1. e = 0 /\ m - b * e = m /\ q + e = q
    BY <1>10, <1>12
  <2>2. mod2 = mod /\ div2 = div
    BY <1>9, <1>12, Zenon DEF Turned
  <2>3. m < c
    BY <1>12
  <2> QED BY <1>6, <1>8, <2>1, <2>2, <2>3, Zenon
<1>13. /\ mod2 \in Num /\ div2 \in Num
       /\ Value(mod2) = m - b * e /\ Value(div2) = q + e
       /\ Value(mod2) < c /\ Value(div2) % p = 0
  BY <1>11, <1>12
<1>14. /\ shiftr(copy, 1) \in Num /\ shiftr(add, 1) \in Num
       /\ n > 0 => /\ Value(shiftr(copy, 1)) = b * Pow2[n - 1]
                   /\ Value(shiftr(add, 1)) = 1 * Pow2[n - 1]
       /\ n = 0 => Value(shiftr(add, 1)) = 1 \div 2
  <2>1. 1 \in Nat
    OBVIOUS
  <2>2. /\ shiftr(copy, 1) \in Num
        /\ n > 0 => Value(shiftr(copy, 1)) = b * Pow2[n - 1]
    BY <1>7, MovedDown
  <2>3. /\ shiftr(add, 1) \in Num
        /\ n > 0 => Value(shiftr(add, 1)) = 1 * Pow2[n - 1]
        /\ n = 0 => Value(shiftr(add, 1)) = 1 \div 2
    BY <1>7, <2>1, MovedDown
  <2> QED BY <2>2, <2>3, Zenon
<1>15. ASSUME n = 0 PROVE MovedOut(shiftr(add, 1), mod2)
  <2>1. 1 \div 2 = 0 /\ c = b
    BY <1>3, <1>4, <1>15, Pow2Is
  <2> QED BY <1>1, <1>13, <1>14, <1>15, <2>1, Zenon DEF MovedOut
<1>16. ASSUME n > 0 PROVE AtPlace(n - 1, shiftr(add, 1), shiftr(copy, 1), mod2, div2)
  <2>1. n \in 1..(4 * WordBits) /\ n - 1 \in 0..(4 * WordBits)
    BY <1>2, <1>16
  <2>2. PICK h \in Nat \ {0} : h = Pow2[n - 1] /\ p = 2 * h
    BY <1>3, <2>1, Pow2Is, Pow2Nat, Zenon
  <2>3. 1 * h = h
    OBVIOUS
  <2> QED BY <1>1, <1>4, <1>13, <1>14, <1>16, <2>2, <2>3, Zenon DEF AtPlace
<1> QED BY <1>1, <1>6, <1>10, <1>13, <1>14, <1>15, <1>16, Zenon DEF TurnedTo
-----------------------------------------------------------------------------
Pcs == {"print", "loop", "store", "done", "refused"}

(* The division is under way: nothing of the dividend is lost, and the      *)
(* divisor stands at some place or has moved out below the last.            *)
CellsOK ==
  /\ ArgumentsOK
  /\ rDiv \in Num /\ l \in Num /\ resDiv \in Num /\ resMod \in Num
  /\ copyd \in Num /\ adder \in Num
  /\ out \in Seq(Word) /\ pc \in Pcs
Placed == \E n \in 0..(Places - 1) : AtPlace(n, adder, copyd, resMod, resDiv)
LoopOK ==
  /\ pc \in {"loop", "store"} =>
       /\ baseParam \in 2..16 /\ Len(out) < outLength
       /\ l = rDiv
       /\ Value(rDiv) = Value(resDiv) * baseParam + Value(resMod)
  /\ pc = "store" => Value(resMod) < baseParam
  /\ pc = "loop" => Placed \/ MovedOut(adder, resMod)
DivisionOK == CellsOK /\ LoopOK

(* The width in hand does not change, nor what numbers are.                 *)
LEMMA SameWidth ==
  ASSUME UNCHANGED <<number, baseParam>>
  PROVE  /\ Num' = Num /\ Places' = Places /\ clear' = clear /\ base' = base
         /\ \A x : Value(x)' = Value(x)
         /\ \A n, add, copy, mod, div :
              AtPlace(n, add, copy, mod, div)' = AtPlace(n, add, copy, mod, div)
         /\ \A add, mod : MovedOut(add, mod)' = MovedOut(add, mod)
<1>1. /\ Num' = Num /\ Places' = Places /\ clear' = clear /\ base' = base
      /\ \A x : Value(x)' = Value(x)
  BY DEF Num, Places, clear, base, Value, Long, small
<1> QED BY <1>1 DEF AtPlace, MovedOut

(* Nothing is divided at first.                                             *)
LEMMA DivisionStarts == Init => DivisionOK
<1> SUFFICES ASSUME Init PROVE DivisionOK
  OBVIOUS
<1>1. ArgumentsOK /\ pc = "print" /\ rDiv = given
  BY DEF Init, ArgumentsOK, given
<1>2. given \in Num /\ clear \in Num
  BY <1>1, GivenIs, SmallIs
<1>3. <<>> \in Seq(Word)
  OBVIOUS
<1> QED BY <1>1, <1>2, <1>3 DEF Init, DivisionOK, CellsOK, LoopOK, Pcs

(* The divisor is put to the place where it fits.                           *)
LEMMA DivideKeeps ==
  ASSUME DivisionOK, Divide
  PROVE  DivisionOK'
<1>1. /\ UNCHANGED <<number, baseParam, outLength, rDiv, out>>
      /\ l' = rDiv /\ resDiv' = clear /\ resMod' = rDiv
      /\ baseParam \in 2..16 /\ Len(out) < outLength
  <2>1. outLength \in Nat /\ baseParam \in Nat
    BY PrintAssumption, BaseIs DEF DivisionOK, CellsOK, ArgumentsOK
  <2> QED BY <2>1 DEF Divide, Unprintable
<1>2. /\ Num' = Num /\ Places' = Places /\ \A x : Value(x)' = Value(x)
      /\ \A n, add, copy, mod, div :
           AtPlace(n, add, copy, mod, div)' = AtPlace(n, add, copy, mod, div)
  BY <1>1, SameWidth
<1>3. ArgumentsOK /\ ArgumentsOK' /\ rDiv \in Num /\ clear \in Num /\ Value(clear) = 0
  BY <1>1, SmallIs DEF DivisionOK, CellsOK, ArgumentsOK
<1>4. PICK v \in Nat, b \in Nat : v = Value(rDiv) /\ b = baseParam /\ v = 0 * b + v
  <2>1. Value(rDiv) \in Nat /\ baseParam \in Nat
    BY <1>3, NumIs, PlacesIs, BaseIs
  <2> QED BY <2>1
<1>5. Value(rDiv)' = Value(resDiv)' * baseParam' + Value(resMod)'
  BY <1>1, <1>2, <1>3, <1>4
<1>6. CASE gt(base, rDiv)
  <2>1. copyd' = clear /\ adder' = clear /\ pc' = "store"
    BY <1>6 DEF Divide
  <2>2. Value(resMod)' < baseParam'
    <3>1. base \in Num /\ Value(base) = b
      BY <1>3, <1>4, BaseIs
    <3>2. b > v
      BY <1>3, <1>4, <1>6, <3>1, NumIs, Zenon
    <3>3. v < b
      BY <3>2
    <3> QED BY <1>1, <1>2, <1>4, <3>3
  <2> QED BY <1>1, <1>2, <1>3, <1>5, <2>1, <2>2 DEF DivisionOK, CellsOK, LoopOK, Pcs
<1>7. CASE ~gt(base, rDiv)
  <2>1. Aligns(rDiv, copyd', adder') /\ pc' = "loop"
    BY <1>7, Zenon DEF Divide, Aligns
  <2>2. /\ copyd' \in Num /\ adder' \in Num
        /\ \E n \in 0..(Places - 1) : AtPlace(n, adder', copyd', rDiv, clear)
    <3>1. AlignedTo(rDiv, copyd', adder')
      BY <1>3, <1>7, <2>1, Begins, Zenon
    <3> QED BY <3>1, Zenon DEF AlignedTo, AlignedAt
  <2>3. Placed'
    BY <1>1, <1>2, <2>2 DEF Placed
  <2> QED BY <1>1, <1>2, <1>3, <1>5, <2>1, <2>2, <2>3 DEF DivisionOK, CellsOK, LoopOK, Pcs
<1> QED BY <1>6, <1>7
(* A turn with the divisor at a place: what the loop's test says of it.     *)
LEMMA TurnIsPlaced ==
  ASSUME DivisionOK, Turn
  PROVE  Placed /\ Value(resMod) >= baseParam
<1>1. ArgumentsOK /\ resMod \in Num /\ pc = "loop" /\ gte(resMod, base)
  BY DEF DivisionOK, CellsOK, Turn
<1>2. PICK b \in Nat, m \in Nat : b = baseParam /\ m = Value(resMod) /\ base \in Num /\ Value(base) = b
  BY <1>1, BaseIs, NumIs, PlacesIs
<1>3. m >= b
  BY <1>1, <1>2, NumIs, Zenon
<1>4. ~MovedOut(adder, resMod)
  BY <1>2, <1>3 DEF MovedOut
<1>5. Placed
  BY <1>1, <1>4 DEF DivisionOK, LoopOK
<1> QED BY <1>2, <1>3, <1>5

(* A turn takes from the remainder what it adds to the quotient, times the  *)
(* divisor, and moves to the next place.                                    *)
LEMMA TurnKeeps ==
  ASSUME DivisionOK, Turn
  PROVE  DivisionOK'
<1>1. /\ UNCHANGED <<number, baseParam, outLength, rDiv, out, l, pc>>
      /\ pc = "loop" /\ baseParam \in 2..16 /\ Len(out) < outLength /\ l = rDiv
      /\ copyd' = shiftr(copyd, 1) /\ adder' = shiftr(adder, 1)
      /\ resMod' = IF gte(resMod, copyd) THEN minus(resMod, copyd) ELSE resMod
      /\ resDiv' = IF gte(resMod, copyd) THEN or(resDiv, adder) ELSE resDiv
  BY DEF DivisionOK, LoopOK, Turn
<1>2. /\ Num' = Num /\ Places' = Places /\ \A x : Value(x)' = Value(x)
      /\ \A n, add, copy, mod, div :
           AtPlace(n, add, copy, mod, div)' = AtPlace(n, add, copy, mod, div)
      /\ \A add, mod : MovedOut(add, mod)' = MovedOut(add, mod)
  BY <1>1, SameWidth
<1>3. /\ ArgumentsOK /\ ArgumentsOK' /\ rDiv \in Num /\ resMod \in Num /\ resDiv \in Num
      /\ copyd \in Num /\ adder \in Num
  BY <1>1 DEF DivisionOK, CellsOK, ArgumentsOK
<1>4. PICK n \in 0..(Places - 1) : AtPlace(n, adder, copyd, resMod, resDiv)
  BY TurnIsPlaced DEF Placed
<1>5. /\ resMod' \in Num /\ resDiv' \in Num /\ copyd' \in Num /\ adder' \in Num
      /\ Value(resMod') = Value(resMod) - baseParam * Taken(n, resMod, copyd)
      /\ Value(resDiv') = Value(resDiv) + Taken(n, resMod, copyd)
      /\ n = 0 => MovedOut(adder', resMod')
      /\ n > 0 => AtPlace(n - 1, adder', copyd', resMod', resDiv')
  <2>1. Turned(adder, copyd, resMod, resDiv, resMod', resDiv')
    BY <1>1, Zenon DEF Turned
  <2>2. TurnedTo(n, adder, copyd, resMod, resDiv, resMod', resDiv')
    BY <1>3, <1>4, <2>1, Turns, Zenon
  <2> QED BY <1>1, <2>2, Zenon DEF TurnedTo
<1>6. Placed' \/ MovedOut(adder, resMod)'
  <2>1. CASE n = 0
    BY <1>2, <1>5, <2>1
  <2>2. CASE n > 0
    <3>1. PICK k \in 0..(Places - 1) : AtPlace(k, adder', copyd', resMod', resDiv')
      <4>1. n - 1 \in 0..(Places - 1)
        BY <2>2, PlacesIs
      <4> QED BY <1>5, <2>2, <4>1, Zenon
    <3>2. Placed'
      BY <1>2, <3>1, Zenon DEF Placed
    <3> QED BY <3>2
  <2> QED BY <2>1, <2>2
<1>7. Value(rDiv) = Value(resDiv') * baseParam + Value(resMod')
  <2>1. PICK e \in Nat : e = Taken(n, resMod, copyd)
    <3>1. n \in 0..(4 * WordBits)
      BY PlacesIs, WordBitsIs
    <3> QED BY <3>1, Pow2Nat DEF Taken
  <2>2. PICK q \in Nat, m \in Nat, b \in Nat :
          q = Value(resDiv) /\ m = Value(resMod) /\ b = baseParam
    BY <1>1, <1>3, NumIs, PlacesIs
  <2>3. Value(rDiv) = q * b + m
    BY <1>1, <2>2 DEF DivisionOK, LoopOK
  <2>4. q * b + m = (q + e) * b + (m - b * e)
    <3>1. (q + e) * b = q * b + e * b /\ e * b = b * e
      BY Ring
    <3>2. q * b \in Int /\ b * e \in Int
      OBVIOUS
    <3> QED BY <3>1, <3>2
  <2> QED BY <1>5, <2>1, <2>2, <2>3, <2>4, Zenon
<1> QED BY <1>1, <1>2, <1>3, <1>5, <1>6, <1>7 DEF DivisionOK, CellsOK, LoopOK, Pcs

(* The loop is left with a remainder less than the base.                    *)
LEMMA DividedKeeps ==
  ASSUME DivisionOK, Divided
  PROVE  DivisionOK'
<1>1. /\ UNCHANGED <<number, baseParam, outLength, rDiv, out, l, resDiv, resMod, copyd, adder>>
      /\ pc = "loop" /\ pc' = "store" /\ ~gte(resMod, base)
  BY DEF Divided
<1>2. Num' = Num /\ \A x : Value(x)' = Value(x)
  BY <1>1, SameWidth
<1>3. ArgumentsOK /\ resMod \in Num
  BY DEF DivisionOK, CellsOK
<1>4. Value(resMod) < baseParam
  <2>1. PICK b \in Nat, m \in Nat : b = baseParam /\ m = Value(resMod) /\ base \in Num /\ Value(base) = b
    BY <1>3, BaseIs, NumIs, PlacesIs
  <2>2. ~(m >= b)
    BY <1>1, <1>3, <2>1, NumIs, Zenon
  <2>3. m < b
    BY <2>2
  <2> QED BY <2>1, <2>3
<1> QED BY <1>1, <1>2, <1>4 DEF DivisionOK, CellsOK, LoopOK, Pcs, ArgumentsOK

(* The digits, reversed.                                                    *)
LEMMA Reversed ==
  ASSUME NEW S, NEW s \in Seq(S)
  PROVE  /\ reverseString(s) \in Seq(S) /\ Len(reverseString(s)) = Len(s)
         /\ \A i \in 1..Len(s) : reverseString(s)[i] = s[Len(s) + 1 - i]
<1>1. DOMAIN s = 1..Len(s) /\ Len(s) \in Nat
  OBVIOUS
<1>2. \A i \in 1..Len(s) : Len(s) + 1 - i \in 1..Len(s)
  BY <1>1
<1>3. \A i \in 1..Len(s) : s[Len(s) + 1 - i] \in S
  BY <1>2
<1> QED BY <1>1, <1>2, <1>3 DEF reverseString

(* A remainder is a digit: the digits so far, with one more, are kept in    *)
(* their order or reversed.                                                 *)
LEMMA StoreDigits ==
  ASSUME DivisionOK, Store
  PROVE  /\ lowest(resMod) = Value(resMod) /\ Value(resMod) \in Word
         /\ Value(resMod) < baseParam
         /\ Append(out, lowest(resMod)) \in Seq(Word)
         /\ out' \in Seq(Word) /\ Len(out') = Len(out) + 1 /\ out' # <<>>
<1>1. ArgumentsOK /\ resMod \in Num /\ out \in Seq(Word) /\ Value(resMod) < baseParam
  BY DEF DivisionOK, CellsOK, LoopOK, Store
<1>2. Value(resMod) \in Word
  <2>1. Value(resMod) \in Nat
    BY <1>1, NumIs, PlacesIs
  <2>2. baseParam \in Word
    BY <1>1, BaseIs
  <2>3. Pow2[WordBits] \in Nat
    BY Spans DEF WordSpan
  <2> QED BY <1>1, <2>1, <2>2, <2>3 DEF Word
<1>3. lowest(resMod) = Value(resMod)
  BY <1>1, <1>2, LowestIs
<1>4. PICK digits \in Seq(Word) : digits = Append(out, lowest(resMod)) /\ Len(digits) = Len(out) + 1
  <2>1. PICK w \in Word : w = lowest(resMod)
    BY <1>2, <1>3
  <2>2. Append(out, w) \in Seq(Word) /\ Len(Append(out, w)) = Len(out) + 1
    BY <1>1
  <2> QED BY <2>1, <2>2
<1>5. /\ reverseString(digits) \in Seq(Word) /\ Len(reverseString(digits)) = Len(out) + 1
  BY <1>4, Reversed
<1>6. out' = digits \/ out' = reverseString(digits)
  BY <1>4 DEF Store
<1>7. out' \in Seq(Word) /\ Len(out') = Len(out) + 1
  BY <1>4, <1>5, <1>6
<1>8. out' # <<>>
  BY <1>1, <1>7
<1> QED BY <1>1, <1>2, <1>3, <1>4, <1>7, <1>8

(* The steps that divide nothing.                                           *)
LEMMA OthersKeep ==
  ASSUME DivisionOK, Refuse \/ Store \/ Finished \/ UNCHANGED vars
  PROVE  DivisionOK'
<1>1. CASE Refuse
  <2>1. Num' = Num
    BY <1>1, SameWidth DEF Refuse
  <2> QED BY <1>1, <2>1 DEF Refuse, DivisionOK, CellsOK, LoopOK, Pcs, ArgumentsOK
<1>2. CASE Store
  <2>1. Num' = Num
    BY <1>2, SameWidth DEF Store
  <2>2. pc' \in {"done", "print"} /\ rDiv' \in Num
    BY <1>2 DEF Store, DivisionOK, CellsOK
  <2>3. out' \in Seq(Word)
    BY <1>2, StoreDigits
  <2> QED BY <1>2, <2>1, <2>2, <2>3 DEF Store, DivisionOK, CellsOK, LoopOK, Pcs, ArgumentsOK
<1>3. CASE Finished \/ UNCHANGED vars
  <2>1. UNCHANGED vars
    BY <1>3 DEF Finished
  <2>2. Num' = Num /\ Places' = Places /\ \A x : Value(x)' = Value(x)
    BY <2>1, SameWidth DEF vars
  <2>3. Placed' = Placed /\ MovedOut(adder, resMod)' = MovedOut(adder, resMod)
    BY <2>1, SameWidth DEF vars, Placed
  <2> QED BY <2>1, <2>2, <2>3 DEF vars, DivisionOK, CellsOK, LoopOK, Pcs, ArgumentsOK
<1> QED BY <1>1, <1>2, <1>3

(* Every step keeps the invariant of the division.                          *)
LEMMA DivisionGoesOn == DivisionOK /\ [Next]_vars => DivisionOK'
BY DivideKeeps, TurnKeeps, DividedKeeps, OthersKeep DEF Next

(* The invariant of the division.                                           *)
LEMMA DivisionKept == Spec => []DivisionOK
BY DivisionStarts, DivisionGoesOn, PTL DEF Spec
-----------------------------------------------------------------------------
(* The numbers and powers that the division is of are what it assumes.      *)
LEMMA DivisionOfNumbers == Division!DivisionAssumption
<1>1. /\ 4 * WordBits \in Nat
      /\ \A n \in 0..(4 * WordBits - 1) : n + 1 \in 1..(4 * WordBits) /\ (n + 1) - 1 = n
  BY WordBitsIs
<1>2. \A n \in 0..(4 * WordBits - 1) : Pow2[n + 1] = 2 * Pow2[n]
  BY <1>1, Pow2Is, Zenon
<1> QED BY <1>1, <1>2, Pow2Is DEF Division!DivisionAssumption

(* The place that the division shows is that of the adder's only bit.       *)
LEMMA PlaceIs ==
  /\ PlaceOf(0) = -1
  /\ \A n \in 0..(Places - 1) : PlaceOf(Pow2[n]) = n
<1>1. ASSUME NEW n \in 0..(Places - 1)
      PROVE  PlaceOf(Pow2[n]) = n
  <2>1. n \in 0..(4 * WordBits - 1) /\ n \in 0..(4 * WordBits)
    BY PlacesIs, WordBitsIs
  <2>2. Pow2[n] # 0 /\ Pow2[n] \in Nat
    BY <2>1, Pow2Nat
  <2>3. ASSUME NEW k \in 0..(4 * WordBits - 1), Pow2[n] = Pow2[k]
        PROVE  k = n
    <3>1. k \in 0..(4 * WordBits)
      BY WordBitsIs
    <3>2. ~(k < n)
      BY <2>1, <2>2, <2>3, <3>1, Pow2Grows
    <3>3. ~(n < k)
      BY <2>1, <2>2, <2>3, <3>1, Pow2Grows
    <3> QED BY <2>1, <3>2, <3>3
  <2>4. (CHOOSE k \in 0..(4 * WordBits - 1) : Pow2[n] = Pow2[k]) = n
    BY <2>1, <2>3
  <2> QED BY <2>2, <2>4 DEF PlaceOf
<1> QED BY <1>1 DEF PlaceOf

(* Divisor and dividend are numbers of the division.                        *)
LEMMA Divisible ==
  ASSUME ArgumentsOK, NEW x \in Num
  PROVE  /\ Value(x) \in 0..(Pow2[4 * WordBits] - 1)
         /\ baseParam \in (0..(Pow2[4 * WordBits] - 1)) \ {0}
<1>1. /\ Pow2[Places] \in Nat /\ Pow2[4 * WordBits] \in Nat /\ Pow2[Places] <= Pow2[4 * WordBits]
      /\ WordBits \in 0..(4 * WordBits) /\ 4 * WordBits \in 0..(4 * WordBits)
      /\ WordBits < 4 * WordBits
  BY PlacesIs, WordBitsIs, Pow2Nat
<1>2. Pow2[WordBits] < Pow2[4 * WordBits] /\ Pow2[WordBits] \in Nat
  BY <1>1, Pow2Grows, Pow2Nat
<1>3. Value(x) \in 0..(Pow2[Places] - 1)
  BY NumIs
<1>4. baseParam \in 0..(Pow2[WordBits] - 1) /\ baseParam # 0
  BY BaseIs DEF Word
<1> QED BY <1>1, <1>2, <1>3, <1>4

(* The initial states of the division.                                      *)
LEMMA DivisionInitial == DivisionOK /\ Init => Division!Init
<1> SUFFICES ASSUME DivisionOK, Init PROVE Division!Init
  OBVIOUS
<1>1. ArgumentsOK /\ clear \in Num /\ Value(clear) = 0
  BY SmallIs DEF DivisionOK, CellsOK
<1>2. l = clear /\ resDiv = clear /\ resMod = clear /\ adder = clear /\ out = <<>> /\ pc = "print"
  BY DEF Init
<1>3. PlaceOf(Value(adder)) = -1
  BY <1>1, <1>2, PlaceIs
<1>4. baseParam \in (0..(Pow2[4 * WordBits] - 1)) \ {0}
  BY <1>1, Divisible
<1>5. phase = "idle"
  BY <1>2 DEF phase
<1> QED BY <1>1, <1>2, <1>3, <1>4, <1>5 DEF Division!Init

(* divmod up to its loop begins a division.                                 *)
LEMMA DivideBegins == DivisionOK /\ Divide => Division!Begin
<1> SUFFICES ASSUME DivisionOK, Divide PROVE Division!Begin
  OBVIOUS
<1>1. /\ UNCHANGED <<number, baseParam, outLength, rDiv, out>>
      /\ l' = rDiv /\ resDiv' = clear /\ resMod' = rDiv /\ pc = "print"
  BY DEF Divide
<1>2. ArgumentsOK /\ rDiv \in Num /\ clear \in Num /\ Value(clear) = 0
  BY SmallIs DEF DivisionOK, CellsOK
<1>3. \A x : Value(x)' = Value(x)
  BY <1>1, SameWidth
<1>4. PICK b \in Nat \ {0}, v \in Nat :
        b = baseParam /\ base \in Num /\ Value(base) = b /\ v = Value(rDiv)
  BY <1>2, BaseIs, NumIs, PlacesIs
<1>5. /\ Value(l)' = v /\ baseParam' = b /\ Value(resDiv)' = 0 /\ Value(resMod)' = v
      /\ phase # "loop"
      /\ v \in 0..(Pow2[4 * WordBits] - 1) /\ b \in (0..(Pow2[4 * WordBits] - 1)) \ {0}
  BY <1>1, <1>2, <1>3, <1>4, Divisible DEF phase
<1>6. CASE gt(base, rDiv)
  <2>1. adder' = clear /\ pc' = "store"
    BY <1>6 DEF Divide
  <2>2. PlaceOf(Value(adder))' = -1 /\ phase' = "done"
    BY <1>2, <1>3, <2>1, PlaceIs DEF phase
  <2>3. b > v
    <3>1. gt(base, rDiv) <=> Value(base) > Value(rDiv)
      BY <1>2, <1>4, NumIs
    <3> QED BY <1>4, <1>6, <3>1, Zenon
  <2> QED BY <1>5, <2>2, <2>3 DEF Division!Begin
<1>7. CASE ~gt(base, rDiv)
  <2>1. Aligns(rDiv, copyd', adder') /\ pc' = "loop"
    BY <1>7, Zenon DEF Divide, Aligns
  <2>2. /\ adder' \in Num
        /\ \E n \in 0..(Places - 1) :
             /\ AtPlace(n, adder', copyd', rDiv, clear)
             /\ baseParam * Pow2[n] <= Value(rDiv)
    <3>1. AlignedTo(rDiv, copyd', adder')
      BY <1>2, <1>7, <2>1, Begins, Zenon
    <3> QED BY <3>1, Zenon DEF AlignedTo, AlignedAt
  <2>3. PICK n \in 0..(Places - 1) :
          /\ AtPlace(n, adder', copyd', rDiv, clear)
          /\ b * Pow2[n] <= v
    BY <1>4, <2>2, Zenon
  <2>4. PlaceOf(Value(adder))' = n /\ v < b * (2 * Pow2[n])
    BY <1>3, <1>4, <2>3, PlaceIs DEF AtPlace
  <2>5. n \in 0..(4 * WordBits - 1)
    BY PlacesIs, WordBitsIs
  <2>6. ~(b > v)
    <3>1. gt(base, rDiv) <=> Value(base) > Value(rDiv)
      BY <1>2, <1>4, NumIs
    <3> QED BY <1>4, <1>7, <3>1, Zenon
  <2>7. phase' = "loop"
    BY <2>1 DEF phase
  <2> QED BY <1>5, <2>3, <2>4, <2>5, <2>6, <2>7 DEF Division!Begin, Division!Aligned
<1> QED BY <1>6, <1>7

(* A turn of the loop is a turn of the division.                            *)
LEMMA TurnTurns == DivisionOK /\ Turn => Division!Turn
<1> SUFFICES ASSUME DivisionOK, Turn PROVE Division!Turn
  OBVIOUS
<1>1. /\ UNCHANGED <<number, baseParam, l, pc, out>>
      /\ pc = "loop"
      /\ copyd' = shiftr(copyd, 1) /\ adder' = shiftr(adder, 1)
      /\ resMod' = IF gte(resMod, copyd) THEN minus(resMod, copyd) ELSE resMod
      /\ resDiv' = IF gte(resMod, copyd) THEN or(resDiv, adder) ELSE resDiv
  BY DEF Turn
<1>2. \A x : Value(x)' = Value(x)
  BY <1>1, SameWidth
<1>3. /\ ArgumentsOK /\ resMod \in Num /\ resDiv \in Num /\ copyd \in Num /\ adder \in Num
  BY DEF DivisionOK, CellsOK
<1>4. Value(resMod) >= baseParam
  BY TurnIsPlaced
<1>5. PICK n \in 0..(Places - 1) : AtPlace(n, adder, copyd, resMod, resDiv)
  BY TurnIsPlaced DEF Placed
<1>6. /\ Value(resMod') = Value(resMod) - baseParam * Taken(n, resMod, copyd)
      /\ Value(resDiv') = Value(resDiv) + Taken(n, resMod, copyd)
      /\ n = 0 => MovedOut(adder', resMod')
      /\ n > 0 => AtPlace(n - 1, adder', copyd', resMod', resDiv')
  <2>1. Turned(adder, copyd, resMod, resDiv, resMod', resDiv')
    BY <1>1, Zenon DEF Turned
  <2>2. TurnedTo(n, adder, copyd, resMod, resDiv, resMod', resDiv')
    BY <1>3, <1>5, <2>1, Turns, Zenon
  <2> QED BY <1>1, <2>2, Zenon DEF TurnedTo
<1>7. n \in 0..(4 * WordBits) /\ n \in Nat
  BY PlacesIs, WordBitsIs
<1>8. PlaceOf(Value(adder)) = n
  BY <1>5, PlaceIs DEF AtPlace
<1>9. PlaceOf(Value(adder))' = n - 1
  <2>1. CASE n = 0
    BY <1>2, <1>6, <2>1, PlaceIs DEF MovedOut
  <2>2. CASE n > 0
    <3>1. n - 1 \in 0..(Places - 1)
      BY <1>7, <2>2, PlacesIs
    <3>2. Value(adder)' = Pow2[n - 1]
      BY <1>2, <1>6, <2>2 DEF AtPlace
    <3> QED BY <3>1, <3>2, PlaceIs
  <2> QED BY <1>7, <2>1, <2>2
<1>10. PICK m \in Nat, q \in Nat, b \in Nat \ {0}, p \in Nat \ {0} :
         m = Value(resMod) /\ q = Value(resDiv) /\ b = baseParam /\ p = Pow2[n]
  BY <1>3, <1>7, NumIs, PlacesIs, BaseIs, Pow2Nat
<1>11. PICK c \in Nat : c = b * p /\ Value(copyd) = c
  BY <1>5, <1>10 DEF AtPlace
<1>12. gte(resMod, copyd) <=> m >= c
  <2>1. gte(resMod, copyd) <=> Value(resMod) >= Value(copyd)
    BY <1>3, NumIs
  <2> QED BY <1>10, <1>11, <2>1, Zenon
<1>13. Division!copyd(n) = c /\ Division!adder(n) = p
  BY <1>7, <1>10, <1>11 DEF Division!copyd, Division!adder
<1>14. IF m >= c THEN Value(resMod)' = m - c /\ Value(resDiv)' = q + p
                 ELSE Value(resMod)' = m /\ Value(resDiv)' = q
  <2>1. CASE m >= c
    <3>1. Taken(n, resMod, copyd) = p
      BY <1>10, <1>12, <2>1 DEF Taken
    <3> QED BY <1>2, <1>6, <1>10, <1>11, <2>1, <3>1
  <2>2. CASE ~(m >= c)
    <3>1. Taken(n, resMod, copyd) = 0
      BY <1>12, <2>2 DEF Taken
    <3>2. m - b * 0 = m /\ q + 0 = q
      OBVIOUS
    <3> QED BY <1>2, <1>6, <1>10, <2>2, <3>1, <3>2
  <2> QED BY <2>1, <2>2
<1>15. phase = "loop" /\ phase' = "loop" /\ Value(l)' = Value(l)
  BY <1>1, <1>2 DEF phase
<1> QED BY <1>1, <1>4, <1>8, <1>9, <1>10, <1>12, <1>13, <1>14, <1>15, Zenon DEF Division!Turn

(* Leaving the loop finishes it.                                            *)
LEMMA DividedFinishes == DivisionOK /\ Divided => Division!Finish
<1> SUFFICES ASSUME DivisionOK, Divided PROVE Division!Finish
  OBVIOUS
<1>1. /\ UNCHANGED <<number, baseParam, out, l, resDiv, resMod, adder>>
      /\ pc = "loop" /\ pc' = "store" /\ ~gte(resMod, base)
  BY DEF Divided
<1>2. ArgumentsOK /\ resMod \in Num
  BY DEF DivisionOK, CellsOK
<1>3. PICK b \in Nat, m \in Nat : b = baseParam /\ m = Value(resMod) /\ base \in Num /\ Value(base) = b
  BY <1>2, BaseIs, NumIs, PlacesIs
<1>4. m < b
  <2>1. ~(m >= b)
    BY <1>1, <1>2, <1>3, NumIs, Zenon
  <2> QED BY <2>1
<1>5. phase = "loop" /\ phase' = "done" /\ \A x : Value(x)' = Value(x)
  BY <1>1, SameWidth DEF phase
<1> QED BY <1>1, <1>3, <1>4, <1>5 DEF Division!Finish

(* No other step changes anything of it.                                    *)
LEMMA OthersStutter ==
  DivisionOK /\ (Refuse \/ Store \/ Finished \/ UNCHANGED vars)
    => UNCHANGED Division!divisionVars
<1> SUFFICES ASSUME DivisionOK, Refuse \/ Store \/ Finished \/ UNCHANGED vars
             PROVE  UNCHANGED Division!divisionVars
  OBVIOUS
<1>1. UNCHANGED <<number, baseParam, l, resDiv, resMod, adder>>
  BY DEF Refuse, Store, Finished, vars
<1>2. \A x : Value(x)' = Value(x)
  BY <1>1, SameWidth
<1>3. phase' = phase
  <2>1. CASE Refuse
    BY <2>1 DEF Refuse, phase
  <2>2. CASE Store
    <3>1. pc = "store" /\ pc' \in {"done", "print"}
      BY <2>2 DEF Store
    <3>2. out' # <<>>
      BY <2>2, StoreDigits
    <3> QED BY <3>1, <3>2 DEF phase
  <2>3. CASE Finished \/ UNCHANGED vars
    BY <2>3 DEF Finished, vars, phase
  <2> QED BY <2>1, <2>2, <2>3
<1> QED BY <1>1, <1>2, <1>3 DEF Division!divisionVars

(* Each division by the base on numbers in halves is the shift-and-subtract *)
(* division of the numbers, for words of any size and all numbers           *)
(* (uint256.c:421-484).                                                     *)
THEOREM DividesAsNumbers == Spec => DividesNumbers
<1>1. DivisionOK /\ [Next]_vars => [Division!Next]_(Division!divisionVars)
  BY DivideBegins, TurnTurns, DividedFinishes, OthersStutter DEF Next, Division!Next
<1>2. DivisionOK /\ Init => Division!Init
  BY DivisionInitial
<1> QED BY <1>1, <1>2, DivisionKept, PTL DEF Spec, DividesNumbers, Division!Spec
-----------------------------------------------------------------------------
(* The quotients left after each digit: from the number printed down to     *)
(* what is still to be printed, a digit the remainder between two of them.  *)
Counts(q, s, v) ==
  /\ q \in [0..Len(s) -> Nat] /\ q[0] = Value(given) /\ q[Len(s)] = v
  /\ \A i \in 1..Len(s) : q[i - 1] = q[i] * baseParam + s[i] /\ s[i] < baseParam
Counted(s, v) == \E q : Counts(q, s, v)

(* The digits so far count the number down to what is left, which is not    *)
(* zero once there is a digit.  If it is refused there was no room for the  *)
(* next one; if it is done they were reversed, and do not begin with zero.  *)
PrintOK ==
  /\ pc \in {"print", "loop", "store"} =>
       /\ Counted(out, Value(rDiv)) /\ Len(out) <= outLength
       /\ out # <<>> => Value(rDiv) # 0
  /\ pc = "refused" =>
       \/ baseParam \notin 2..16
       \/ Counted(out, Value(rDiv)) /\ Len(out) = outLength /\ Value(rDiv) # 0
  /\ pc = "done" =>
       \E s \in Seq(Word) :
         /\ out = reverseString(s) /\ Counted(s, 0)
         /\ Len(s) \in 1..outLength /\ (Len(s) > 1 => s[Len(s)] # 0)

(* What is counted down does not depend on the step.                        *)
LEMMA SameCount ==
  ASSUME UNCHANGED <<number, baseParam>>
  PROVE  \A s, v : Counted(s, v)' = Counted(s, v)
<1>1. Value(given)' = Value(given)
  BY SameWidth DEF given
<1>2. \A q, s, v : Counts(q, s, v)' = Counts(q, s, v)
  BY <1>1 DEF Counts
<1> QED BY <1>2 DEF Counted

(* One digit more.                                                          *)
LEMMA CountOne ==
  ASSUME ArgumentsOK, NEW s \in Seq(Word), NEW v, Counted(s, v),
         NEW d \in Nat, NEW m \in Word, v = d * baseParam + m, m < baseParam
  PROVE  Counted(Append(s, m), d)
<1>1. PICK q : Counts(q, s, v)
  BY DEF Counted
<1>2. /\ q \in [0..Len(s) -> Nat] /\ q[0] = Value(given) /\ q[Len(s)] = v
      /\ \A i \in 1..Len(s) : q[i - 1] = q[i] * baseParam + s[i] /\ s[i] < baseParam
  BY <1>1 DEF Counts
<1>3. PICK n \in Nat : n = Len(s)
  OBVIOUS
<1> DEFINE t == Append(s, m)
           more == [i \in 0..(n + 1) |-> IF i = n + 1 THEN d ELSE q[i]]
<1>4. /\ Len(t) = n + 1 /\ t[n + 1] = m
      /\ \A i \in 1..n : t[i] = s[i]
  BY <1>3
<1>5. /\ more \in [0..(n + 1) -> Nat] /\ more[n + 1] = d
      /\ \A i \in 0..n : more[i] = q[i]
  BY <1>2, <1>3
<1> HIDE DEF t, more
<1>6. more[0] = Value(given)
  BY <1>2, <1>5
<1>7. \A i \in 1..(n + 1) : more[i - 1] = more[i] * baseParam + t[i] /\ t[i] < baseParam
  <2> TAKE i \in 1..(n + 1)
  <2>1. CASE i = n + 1
    <3>1. n \in 0..n /\ i - 1 = n
      BY <2>1
    <3>2. more[i - 1] = v /\ more[i] = d /\ t[i] = m
      BY <1>2, <1>3, <1>4, <1>5, <2>1, <3>1
    <3> QED BY <3>2, Zenon
  <2>2. CASE i # n + 1
    <3>1. i \in 1..n /\ i \in 0..n /\ i - 1 \in 0..n
      BY <2>2
    <3>2. more[i - 1] = q[i - 1] /\ more[i] = q[i] /\ t[i] = s[i]
      BY <1>4, <1>5, <3>1
    <3>3. q[i - 1] = q[i] * baseParam + s[i] /\ s[i] < baseParam
      BY <1>2, <1>3, <3>1
    <3> QED BY <3>2, <3>3, Zenon
  <2> QED BY <2>1, <2>2
<1>8. Counts(more, t, d)
  BY <1>4, <1>5, <1>6, <1>7 DEF Counts
<1> QED BY <1>8 DEF Counted, t

(* No digit yet.                                                            *)
LEMMA PrintStarts == Init => PrintOK
<1> SUFFICES ASSUME Init PROVE PrintOK
  OBVIOUS
<1>1. ArgumentsOK /\ rDiv = given /\ out = <<>> /\ pc = "print"
  BY DEF Init, ArgumentsOK, given
<1>2. Value(given) \in Nat
  BY <1>1, GivenIs, NumIs, PlacesIs
<1>3. Counts([i \in 0..0 |-> Value(given)], out, Value(rDiv))
  BY <1>1, <1>2 DEF Counts
<1>4. outLength \in Nat
  BY <1>1, PrintAssumption DEF ArgumentsOK
<1> QED BY <1>1, <1>3, <1>4 DEF PrintOK, Counted

(* A digit more, or the last one.                                           *)
LEMMA StoreCounts ==
  ASSUME DivisionOK, PrintOK, Store
  PROVE  PrintOK'
<1>1. /\ UNCHANGED <<number, baseParam, outLength>> /\ rDiv' = resDiv /\ pc = "store"
      /\ ArgumentsOK /\ out \in Seq(Word) /\ resDiv \in Num /\ Len(out) < outLength
  BY DEF Store, DivisionOK, CellsOK, LoopOK
<1>2. (\A x : Value(x)' = Value(x)) /\ \A s, v : Counted(s, v)' = Counted(s, v)
  BY <1>1, SameWidth, SameCount
<1>3. PICK d \in Nat, m \in Word :
        d = Value(resDiv) /\ m = Value(resMod) /\ m < baseParam /\ m = lowest(resMod)
  BY <1>1, StoreDigits, NumIs, PlacesIs
<1>4. PICK v : v = Value(rDiv) /\ v = d * baseParam + m
  BY <1>1, <1>3 DEF DivisionOK, LoopOK
<1>5. PICK digits \in Seq(Word) :
        /\ digits = Append(out, m) /\ Len(digits) = Len(out) + 1
        /\ digits[Len(digits)] = m
  <2>1. out \in Seq(Word) /\ m \in Word
    BY <1>1
  <2>2. /\ Append(out, m) \in Seq(Word) /\ Len(Append(out, m)) = Len(out) + 1
        /\ Append(out, m)[Len(out) + 1] = m
    BY <2>1
  <2> QED BY <2>2
<1>6. Counted(digits, d)
  <2>1. Counted(out, v)
    BY <1>1, <1>4 DEF PrintOK
  <2> QED BY <1>1, <1>3, <1>4, <1>5, <2>1, CountOne
<1>7. outLength \in Nat /\ Len(out) \in Nat /\ Len(digits) \in 1..outLength
  <2>1. outLength \in Nat
    BY <1>1, PrintAssumption DEF ArgumentsOK
  <2> QED BY <1>1, <1>5, <2>1
<1>8. CASE zero(resDiv)
  <2>1. out' = reverseString(digits) /\ pc' = "done"
    BY <1>3, <1>5, <1>8 DEF Store
  <2>2. d = 0
    BY <1>1, <1>3, <1>8, ZeroIs
  <2>3. ASSUME Len(digits) > 1 PROVE m # 0
    <3>1. out # <<>>
      BY <1>5, <2>3
    <3>2. v # 0
      BY <1>1, <1>4, <3>1 DEF PrintOK
    <3>3. baseParam \in Nat
      BY <1>1, BaseIs
    <3> QED BY <1>4, <2>2, <3>2, <3>3
  <2> QED BY <1>1, <1>2, <1>5, <1>6, <1>7, <2>1, <2>2, <2>3 DEF PrintOK
<1>9. CASE ~zero(resDiv)
  <2>1. out' = digits /\ pc' = "print"
    BY <1>3, <1>5, <1>9 DEF Store
  <2>2. d # 0
    BY <1>1, <1>3, <1>9, ZeroIs
  <2>3. Counted(out, Value(rDiv))' /\ Value(rDiv)' # 0
    BY <1>1, <1>2, <1>3, <1>6, <2>1, <2>2
  <2> QED BY <1>1, <1>7, <2>1, <2>3 DEF PrintOK
<1> QED BY <1>8, <1>9

(* Every step keeps the invariant of printing.                              *)
LEMMA PrintKeeps == DivisionOK /\ PrintOK /\ [Next]_vars => PrintOK'
<1> SUFFICES ASSUME DivisionOK, PrintOK, [Next]_vars PROVE PrintOK'
  OBVIOUS
<1>1. CASE Store
  BY <1>1, StoreCounts
<1>2. CASE Divide \/ Turn \/ Divided
  <2>1. /\ UNCHANGED <<number, baseParam, outLength, rDiv, out>>
        /\ pc \in {"print", "loop"} /\ pc' \in {"loop", "store"}
    BY <1>2 DEF Divide, Turn, Divided
  <2>2. (\A x : Value(x)' = Value(x)) /\ \A s, v : Counted(s, v)' = Counted(s, v)
    BY <2>1, SameWidth, SameCount
  <2> QED BY <2>1, <2>2 DEF PrintOK
<1>3. CASE Refuse
  <2>1. /\ UNCHANGED <<number, baseParam, outLength, rDiv, out>>
        /\ pc = "print" /\ pc' = "refused" /\ Unprintable
    BY <1>3 DEF Refuse
  <2>2. (\A x : Value(x)' = Value(x)) /\ \A s, v : Counted(s, v)' = Counted(s, v)
    BY <2>1, SameWidth, SameCount
  <2>3. baseParam \in Nat /\ outLength \in Nat \ {0} /\ out \in Seq(Word)
    BY PrintAssumption, BaseIs DEF DivisionOK, CellsOK, ArgumentsOK
  <2>4. CASE baseParam \notin 2..16
    BY <2>1, <2>4 DEF PrintOK
  <2>5. CASE baseParam \in 2..16
    <3>1. Len(out) > outLength - 1 /\ Len(out) <= outLength
      BY <2>1, <2>5 DEF Unprintable, PrintOK
    <3>2. Len(out) = outLength /\ out # <<>>
      BY <2>3, <3>1
    <3> QED BY <2>1, <2>2, <3>2 DEF PrintOK
  <2> QED BY <2>4, <2>5
<1>4. CASE Finished \/ UNCHANGED vars
  <2>1. UNCHANGED vars
    BY <1>4 DEF Finished
  <2>2. (\A x : Value(x)' = Value(x)) /\ \A s, v : Counted(s, v)' = Counted(s, v)
    BY <2>1, SameWidth, SameCount DEF vars
  <2> QED BY <2>1, <2>2 DEF PrintOK, vars
<1> QED BY <1>1, <1>2, <1>3, <1>4 DEF Next
(* Two sequences that begin alike and go on alike are the same.             *)
GoOnAlike(N, f, g) ==
  f[0] = g[0] /\ \A n \in 1..N : f[n - 1] = g[n - 1] => f[n] = g[n]
AreAlike(N, f, g) == \A n \in 0..N : f[n] = g[n]

LEMMA Alike ==
  ASSUME NEW N \in Nat, NEW f, NEW g, GoOnAlike(N, f, g)
  PROVE  AreAlike(N, f, g)
<1> DEFINE Differ == {n \in 0..N : f[n] # g[n]}
<1>1. SUFFICES ASSUME Differ # {} PROVE FALSE
  BY DEF AreAlike
<1>2. PICK n \in Differ : \A m \in Differ : n <= m
  <2>1. Differ \in SUBSET Nat
    OBVIOUS
  <2> HIDE DEF Differ
  <2> QED BY <1>1, <2>1, Least
<1>3. n # 0 /\ n \in 0..N /\ f[n] # g[n]
  BY <1>2 DEF GoOnAlike
<1>4. n - 1 \in 0..N /\ n \in 1..N /\ ~(n <= n - 1)
  BY <1>3
<1>5. f[n - 1] = g[n - 1]
  BY <1>2, <1>4
<1> QED BY <1>3, <1>4, <1>5 DEF GoOnAlike

(* The digits, most significant first, add up to the number printed.        *)
LEMMA HornerIs ==
  ASSUME ArgumentsOK, NEW s \in Seq(Word), out = reverseString(s), Counted(s, 0)
  PROVE  /\ Horner[Len(out)] = Value(given)
         /\ \A i \in DOMAIN out : out[i] < baseParam
<1>1. PICK q : Counts(q, s, 0)
  BY DEF Counted
<1>2. PICK n \in Nat : n = Len(s)
  OBVIOUS
<1>3. PICK b \in Nat : b = baseParam
  BY BaseIs
<1>4. /\ q \in [0..n -> Nat] /\ q[0] = Value(given) /\ q[n] = 0
      /\ \A i \in 1..n : q[i - 1] = q[i] * b + s[i] /\ s[i] < b
  BY <1>1, <1>2, <1>3 DEF Counts
<1>5. /\ out \in Seq(Word) /\ Len(out) = n /\ DOMAIN out = 1..n
      /\ \A i \in 1..n : out[i] = s[n + 1 - i]
  BY <1>2, Reversed
<1>6. \A i \in 1..n : n + 1 - i \in 1..n /\ n - i \in 0..n /\ n - (i - 1) = n + 1 - i
                      /\ (n + 1 - i) - 1 = n - i
  OBVIOUS
<1> DEFINE h == [i \in 0..n |-> q[n - i]]
           Fix(f) == f = [i \in 0..n |-> IF i = 0 THEN 0 ELSE f[i - 1] * b + out[i]]
<1>7. /\ h[0] = 0 /\ h[n] = Value(given)
      /\ \A i \in 1..n : h[i] = h[i - 1] * b + out[i]
  <2>1. h[0] = 0 /\ h[n] = Value(given)
    <3>1. n - 0 = n /\ n - n = 0 /\ 0 \in 0..n /\ n \in 0..n
      OBVIOUS
    <3> QED BY <1>4, <3>1
  <2>2. ASSUME NEW i \in 1..n PROVE h[i] = h[i - 1] * b + out[i]
    <3>1. PICK j \in 1..n : j = n + 1 - i /\ j - 1 = n - i /\ n - (i - 1) = j
      BY <1>6
    <3>2. i \in 0..n /\ i - 1 \in 0..n
      OBVIOUS
    <3>3. h[i] = q[j - 1] /\ h[i - 1] = q[j] /\ out[i] = s[j]
      BY <1>5, <3>1, <3>2
    <3>4. q[j - 1] = q[j] * b + s[j]
      BY <1>4
    <3> HIDE DEF h
    <3> QED BY <3>3, <3>4, Zenon
  <2> QED BY <2>1, <2>2
<1>8. Fix(h)
  <2>1. h = [i \in 0..n |-> h[i]]
    OBVIOUS
  <2>2. \A i \in 0..n : h[i] = IF i = 0 THEN 0 ELSE h[i - 1] * b + out[i]
    <3> HIDE DEF h
    <3> QED BY <1>7
  <2>3. PICK k : k = h
    OBVIOUS
  <2> HIDE DEF h
  <2>4. k = [i \in 0..n |-> k[i]] /\ \A i \in 0..n : k[i] = IF i = 0 THEN 0 ELSE k[i - 1] * b + out[i]
    BY <2>1, <2>2, <2>3
  <2>5. Fix(k)
    BY <2>4
  <2> HIDE DEF Fix
  <2> QED BY <2>3, <2>5
<1>9. Horner = CHOOSE f : Fix(f)
  BY <1>3, <1>5 DEF Horner
<1>10. Fix(Horner)
  <2> HIDE DEF Fix, h
  <2> QED BY <1>8, <1>9
<1>11. Horner[0] = 0 /\ \A i \in 1..n : Horner[i] = Horner[i - 1] * b + out[i]
  BY <1>10
<1> HIDE DEF h, Fix
<1>12. \A i \in 0..n : Horner[i] = h[i]
  <2>1. Horner[0] = h[0]
    BY <1>7, <1>11
  <2>2. \A i \in 1..n : Horner[i - 1] = h[i - 1] => Horner[i] = h[i]
    BY <1>7, <1>11
  <2>3. GoOnAlike(n, Horner, h)
    BY <2>1, <2>2, Zenon DEF GoOnAlike
  <2>4. AreAlike(n, Horner, h)
    BY <2>3, Alike, Zenon
  <2> QED BY <2>4, Zenon DEF AreAlike
<1>13. Horner[n] = Value(given)
  <2>1. n \in 0..n
    OBVIOUS
  <2> QED BY <1>7, <1>12, <2>1
<1>14. ASSUME NEW i \in DOMAIN out PROVE out[i] < baseParam
  <2>1. PICK j \in 1..n : j = n + 1 - i
    BY <1>5
  <2>2. s[j] < b /\ out[i] = s[j]
    BY <1>4, <1>5, <2>1
  <2> QED BY <1>3, <2>2, Zenon
<1> QED BY <1>5, <1>13, <1>14

(* The powers of the base.                                                  *)
LEMMA BasePowerIs ==
  ASSUME ArgumentsOK
  PROVE  /\ BasePower[0] = 1
         /\ \A i \in 1..outLength : BasePower[i] = baseParam * BasePower[i - 1]
<1>1. PICK N \in Nat, b \in Nat : N = outLength /\ b = baseParam
  BY BaseIs, PrintAssumption DEF ArgumentsOK
<1> DEFINE Fix(f) == f = [i \in 0..N |-> IF i = 0 THEN 1 ELSE b * f[i - 1]]
           none == [i \in 1..N |-> 0]
<1>2. PICK p : Builds(N, b, 1, none, p)
  <2>1. none \in [1..N -> Int]
    OBVIOUS
  <2> HIDE DEF none
  <2> QED BY <2>1, Built
<1>3. /\ p \in [0..N -> Int] /\ p[0] = 1
      /\ \A i \in 1..N : p[i] = b * p[i - 1]
  <2>1. /\ p \in [0..N -> Int] /\ p[0] = 1
        /\ \A i \in 1..N : p[i] = p[i - 1] * b + none[i]
    BY <1>2 DEF Builds
  <2>2. \A i \in 1..N : none[i] = 0 /\ p[i - 1] \in Int
    BY <2>1
  <2> HIDE DEF none
  <2>3. \A i \in 1..N : p[i] = b * p[i - 1]
    <3> TAKE i \in 1..N
    <3>1. PICK u \in Int : u = p[i - 1]
      BY <2>2
    <3>2. u * b + 0 = b * u
      OBVIOUS
    <3> QED BY <2>1, <2>2, <3>1, <3>2
  <2> QED BY <2>1, <2>3
<1>4. Fix(p)
  BY <1>3
<1>5. BasePower = CHOOSE f : Fix(f)
  BY <1>1 DEF BasePower
<1>6. Fix(BasePower)
  <2> HIDE DEF Fix
  <2> QED BY <1>4, <1>5
<1>7. BasePower[0] = 1 /\ \A i \in 1..N : BasePower[i] = b * BasePower[i - 1]
  BY <1>6
<1> QED BY <1>1, <1>7

(* As many digits as have come off a number, it was at least so much.       *)
LEMMA CountedFrom ==
  ASSUME ArgumentsOK, NEW s \in Seq(Word), NEW v, NEW q, Counts(q, s, v), Len(s) <= outLength
  PROVE  \A i \in 0..Len(s) : /\ BasePower[i] \in Nat /\ q[i] \in Nat
                              /\ BasePower[i] * q[i] <= Value(given)
<1>2. PICK n \in Nat, b \in Nat : n = Len(s) /\ n <= outLength /\ b = baseParam
  BY BaseIs
<1>3. /\ q \in [0..n -> Nat] /\ q[0] = Value(given)
      /\ \A i \in 1..n : q[i - 1] = q[i] * b + s[i] /\ s[i] \in Nat
  <2>1. \A i \in 1..n : s[i] \in Nat
    <3>1. \A w \in Word : w \in Nat
      BY Spans
    <3>2. \A i \in 1..n : s[i] \in Word
      BY <1>2
    <3> QED BY <3>1, <3>2
  <2> QED BY <1>2, <2>1 DEF Counts
<1>4. BasePower[0] = 1 /\ \A i \in 1..n : BasePower[i] = b * BasePower[i - 1]
  <2>1. \A i \in 1..n : i \in 1..outLength
    BY <1>2, PrintAssumption DEF ArgumentsOK
  <2> QED BY <1>2, <2>1, BasePowerIs
<1> DEFINE Above == {i \in 0..n : ~(BasePower[i] \in Nat /\ BasePower[i] * q[i] <= q[0])}
<1>5. Above = {}
  <2>1. SUFFICES ASSUME Above # {} PROVE FALSE
    OBVIOUS
  <2>2. PICK i \in Above : \A j \in Above : i <= j
    <3>1. Above \in SUBSET Nat
      OBVIOUS
    <3> HIDE DEF Above
    <3> QED BY <2>1, <3>1, Least
  <2>3. i # 0 /\ i \in 0..n
    <3>1. q[0] \in Nat
      BY <1>3
    <3>2. 1 * q[0] <= q[0]
      BY <3>1
    <3> QED BY <1>4, <2>2, <3>2
  <2>4. i - 1 \in 0..n /\ i \in 1..n /\ ~(i <= i - 1)
    BY <2>3
  <2>5. BasePower[i - 1] \in Nat /\ BasePower[i - 1] * q[i - 1] <= q[0]
    BY <2>2, <2>4
  <2>6. PICK p \in Nat, u \in Nat, w \in Nat, z \in Nat, t \in Nat :
          /\ p = BasePower[i - 1] /\ u = q[i - 1] /\ w = q[i] /\ z = q[0] /\ t = s[i]
          /\ u = w * b + t /\ BasePower[i] = b * p
    <3>1. /\ q[i - 1] \in Nat /\ q[i] \in Nat /\ q[0] \in Nat /\ s[i] \in Nat
          /\ q[i - 1] = q[i] * b + s[i]
      BY <1>3, <2>3, <2>4
    <3>2. BasePower[i] = b * BasePower[i - 1] /\ BasePower[i - 1] \in Nat
      BY <1>4, <2>4, <2>5
    <3> QED BY <3>1, <3>2, Zenon
  <2>7. (b * p) * w <= z
    <3>1. (w * b) * p <= u * p
      <4>1. w * b \in Int /\ u \in Int /\ w * b <= u
        <5>1. PICK c \in Int : c = w * b
          OBVIOUS
        <5>2. c <= c + t
          OBVIOUS
        <5> QED BY <2>6, <5>1, <5>2
      <4> QED BY <4>1, Grow
    <3>2. (w * b) * p = (b * p) * w /\ u * p = p * u
      OBVIOUS
    <3>3. p * u <= z
      BY <2>5, <2>6, Zenon
    <3>4. (w * b) * p \in Int /\ u * p \in Int
      OBVIOUS
    <3> QED BY <3>1, <3>2, <3>3, <3>4
  <2>8. BasePower[i] \in Nat /\ BasePower[i] * q[i] <= q[0]
    <3>1. b * p \in Nat
      OBVIOUS
    <3> QED BY <2>6, <2>7, <3>1
  <2> QED BY <2>2, <2>8
<1>6. \A i \in 0..n : BasePower[i] \in Nat /\ BasePower[i] * q[i] <= q[0] /\ q[i] \in Nat
  BY <1>3, <1>5
<1> HIDE DEF Above
<1> QED BY <1>2, <1>3, <1>6

(* A quotient that is not zero is left of one that is not.                  *)
LEMMA StillLeft ==
  ASSUME ArgumentsOK, baseParam >= 1, NEW s \in Seq(Word), NEW v, NEW q, Counts(q, s, v),
         NEW m \in 0..Len(s), q[m] # 0
  PROVE  \A i \in 0..m : q[i] \in Nat \ {0}
<1>1. PICK n \in Nat, b \in Nat \ {0} : n = Len(s) /\ b = baseParam
  BY BaseIs
<1>2. /\ \A i \in 0..n : q[i] \in Nat
      /\ \A i \in 1..n : q[i - 1] = q[i] * b + s[i] /\ s[i] \in Nat
  <2>1. \A i \in 1..n : s[i] \in Nat
    <3>1. \A w \in Word : w \in Nat
      BY Spans
    <3>2. \A i \in 1..n : s[i] \in Word
      BY <1>1
    <3> QED BY <3>1, <3>2
  <2> QED BY <1>1, <2>1 DEF Counts
<1> DEFINE Gone == {i \in 0..m : q[m - i] = 0}
<1>3. Gone = {}
  <2> SUFFICES ASSUME Gone # {} PROVE FALSE
    OBVIOUS
  <2>1. PICK i \in Gone : \A j \in Gone : i <= j
    <3>1. Gone \in SUBSET Nat
      OBVIOUS
    <3> HIDE DEF Gone
    <3> QED BY <3>1, Least
  <2>2. i \in 0..m /\ q[m - i] = 0 /\ i # 0
    BY <2>1
  <2>3. /\ i - 1 \in 0..m /\ ~(i <= i - 1) /\ m - (i - 1) \in 1..n
        /\ (m - (i - 1)) - 1 = m - i /\ m - (i - 1) \in 0..n
    BY <1>1, <2>2
  <2>4. q[m - (i - 1)] # 0
    BY <2>1, <2>3
  <2> HIDE DEF Gone
  <2>5. PICK j \in 1..n : j = m - (i - 1) /\ j - 1 = m - i
    BY <2>3
  <2>6. PICK u \in Nat \ {0}, t \in Nat : u = q[j] /\ t = s[j]
    BY <1>2, <2>3, <2>4, <2>5
  <2>7. u * b + t = 0
    BY <1>2, <2>2, <2>5, <2>6
  <2>8. 1 * b <= u * b /\ 1 * b = b /\ u * b \in Int
    BY Grow
  <2> QED BY <2>7, <2>8
<1>4. ASSUME NEW i \in 0..m PROVE q[i] \in Nat \ {0}
  <2>1. m - i \in 0..m /\ m - (m - i) = i /\ i \in 0..n
    BY <1>1
  <2>2. q[m - (m - i)] # 0
    BY <1>3, <2>1
  <2> HIDE DEF Gone
  <2> QED BY <1>2, <2>1, <2>2
<1> QED BY <1>4

(* As many digits as there is room for, and a number left: it is too large. *)
LEMMA TooLarge ==
  ASSUME ArgumentsOK, NEW s \in Seq(Word), NEW v, Counted(s, v), v # 0, Len(s) = outLength
  PROVE  BasePower[outLength] <= Value(given)
<1>1. PICK q : Counts(q, s, v)
  BY DEF Counted
<1>2. PICK n \in Nat : n = Len(s) /\ n = outLength /\ n \in 0..Len(s) /\ Len(s) <= outLength
  OBVIOUS
<1>3. BasePower[n] \in Nat /\ q[n] \in Nat /\ BasePower[n] * q[n] <= Value(given)
  BY <1>1, <1>2, CountedFrom
<1>4. q[n] = v /\ Value(given) \in Nat
  <2>1. q[0] \in Nat
    BY <1>1, <1>2 DEF Counts
  <2> QED BY <1>1, <1>2, <2>1 DEF Counts
<1>5. PICK p \in Nat, u \in Nat \ {0}, z \in Nat :
        p = BasePower[n] /\ u = q[n] /\ z = Value(given) /\ p * u <= z
  BY <1>3, <1>4
<1>6. 1 * p <= u * p
  BY Grow
<1>7. 1 * p = p /\ u * p = p * u /\ p * u \in Int
  OBVIOUS
<1> QED BY <1>2, <1>5, <1>6, <1>7

(* What is returned is the number in its base, most significant digit       *)
(* first and without leading zeros, and it is refused only if the base has  *)
(* no digits or the room is too small: for words of any size, all numbers   *)
(* and any room (uint256.c:496-545).                                        *)
THEOREM DigitsPrinted == Spec => []PrintsNumber
<1>1. DivisionOK /\ PrintOK => PrintsNumber
  <2> SUFFICES ASSUME DivisionOK, PrintOK PROVE PrintsNumber
    OBVIOUS
  <2>1. ArgumentsOK /\ out \in Seq(Word)
    BY DEF DivisionOK, CellsOK
  <2>2. ASSUME pc = "done"
        PROVE  /\ \A i \in DOMAIN out : out[i] < baseParam
               /\ Horner[Len(out)] = Value(number.n)
               /\ out[1] = 0 => Len(out) = 1
               /\ Len(out) <= outLength
    <3>1. PICK s \in Seq(Word) :
            /\ out = reverseString(s) /\ Counted(s, 0)
            /\ Len(s) \in 1..outLength /\ (Len(s) > 1 => s[Len(s)] # 0)
      BY <2>2 DEF PrintOK
    <3>2. /\ Horner[Len(out)] = Value(given)
          /\ \A i \in DOMAIN out : out[i] < baseParam
      BY <2>1, <3>1, HornerIs
    <3>3. Len(out) = Len(s) /\ out[1] = s[Len(s)] /\ Len(s) \in Nat \ {0} /\ Len(s) <= outLength
      <4>1. /\ Len(out) = Len(s)
            /\ \A i \in 1..Len(s) : out[i] = s[Len(s) + 1 - i]
        BY <3>1, Reversed
      <4>2. Len(s) \in Nat \ {0} /\ Len(s) <= outLength /\ Len(s) + 1 - 1 = Len(s) /\ 1 \in 1..Len(s)
        BY <3>1
      <4> QED BY <4>1, <4>2
    <3>4. out[1] = 0 => Len(out) = 1
      BY <3>1, <3>3
    <3> QED BY <3>2, <3>3, <3>4 DEF given
  <2>3. ASSUME pc = "refused"
        PROVE  baseParam \notin 2..16 \/ BasePower[outLength] <= Value(number.n)
    BY <2>1, <2>3, TooLarge DEF PrintOK, given
  <2> QED BY <2>2, <2>3 DEF PrintsNumber
<1>2. DivisionOK /\ PrintOK /\ [Next]_vars => PrintOK'
  BY PrintKeeps
<1> QED BY <1>1, <1>2, PrintStarts, DivisionKept, PTL DEF Spec
-----------------------------------------------------------------------------
(* 2^256 is less than 10^78: 7 digits hold 23 bits.                         *)
LEMMA SeventyEightDigits ==
  ASSUME WordBits = 64, NEW N \in Nat, N >= 78, NEW q, q[0] = 1,
         \A i \in 1..N : q[i] = 10 * q[i - 1]
  PROVE  q[78] \in Nat /\ Pow2[4 * WordBits] < q[78]
<1>1. PICK p : /\ p = Pow2 /\ p[0] = 1
               /\ \A n \in 0..256 : p[n] \in Nat /\ p[n] > 0
               /\ \A n \in 0..255 : p[n + 1] = 2 * p[n]
  <2>1. 4 * WordBits = 256
    OBVIOUS
  <2>2. \A n \in 0..255 : n + 1 \in 1..256 /\ (n + 1) - 1 = n
    OBVIOUS
  <2>3. /\ Pow2[0] = 1 /\ \A n \in 0..256 : Pow2[n] \in Nat /\ Pow2[n] > 0
        /\ \A n \in 0..255 : Pow2[n + 1] = 2 * Pow2[n]
    <3>1. /\ Pow2 \in [0..256 -> Nat \ {0}] /\ Pow2[0] = 1
          /\ \A n \in 1..256 : Pow2[n] = 2 * Pow2[n - 1]
      BY <2>1, Pow2Is, Zenon
    <3>2. \A n \in 0..256 : Pow2[n] \in Nat /\ Pow2[n] > 0
      <4> TAKE n \in 0..256
      <4>1. PICK k \in Nat \ {0} : k = Pow2[n]
        BY <3>1, Zenon
      <4> QED BY <4>1
    <3>3. \A n \in 0..255 : Pow2[n + 1] = 2 * Pow2[n]
      BY <2>2, <3>1, Zenon
    <3> QED BY <3>1, <3>2, <3>3
  <2> QED BY <2>3, Zenon
<1>2. \A n \in 0..77 : q[n + 1] = 10 * q[n]
  <2> TAKE n \in 0..77
  <2>1. n + 1 \in 1..N /\ (n + 1) - 1 = n
    OBVIOUS
  <2> QED BY <2>1
<1>3. ASSUME NEW n \in 0..233 PROVE p[n + 23] = 8388608 * p[n]
  <2>1. ASSUME NEW m \in 0..251 PROVE p[m + 5] = 32 * p[m]
    <3>1. /\ m \in 0..255 /\ m + 1 \in 0..255 /\ m + 2 \in 0..255 /\ m + 3 \in 0..255
          /\ m + 4 \in 0..255 /\ (m + 1) + 1 = m + 2 /\ (m + 2) + 1 = m + 3
          /\ (m + 3) + 1 = m + 4 /\ (m + 4) + 1 = m + 5
      OBVIOUS
    <3>2. /\ p[m + 1] = 2 * p[m] /\ p[m + 2] = 2 * p[m + 1]
          /\ p[m + 3] = 2 * p[m + 2] /\ p[m + 4] = 2 * p[m + 3]
          /\ p[m + 5] = 2 * p[m + 4]
      BY <1>1, <3>1, Zenon
    <3>3. m \in 0..256
      OBVIOUS
    <3>4. p[m] \in Nat
      BY <1>1, <3>3, Zenon
    <3> QED BY <3>2, <3>4
  <2>2. /\ n \in 0..251 /\ n + 5 \in 0..251 /\ n + 10 \in 0..251 /\ n + 15 \in 0..251
        /\ n + 20 \in 0..255 /\ n + 21 \in 0..255 /\ n + 22 \in 0..255
        /\ (n + 5) + 5 = n + 10 /\ (n + 10) + 5 = n + 15 /\ (n + 15) + 5 = n + 20
        /\ (n + 20) + 1 = n + 21 /\ (n + 21) + 1 = n + 22 /\ (n + 22) + 1 = n + 23
    OBVIOUS
  <2>3. /\ p[n + 5] = 32 * p[n] /\ p[n + 10] = 32 * p[n + 5]
        /\ p[n + 15] = 32 * p[n + 10] /\ p[n + 20] = 32 * p[n + 15]
        /\ p[n + 21] = 2 * p[n + 20] /\ p[n + 22] = 2 * p[n + 21]
        /\ p[n + 23] = 2 * p[n + 22]
    BY <1>1, <2>1, <2>2, Zenon
  <2>4. n \in 0..256
    OBVIOUS
  <2>5. p[n] \in Nat
    BY <1>1, <2>4, Zenon
  <2> QED BY <2>3, <2>5
<1>4. ASSUME NEW m \in 0..71, q[m] \in Nat
      PROVE  q[m + 7] \in Nat /\ q[m + 7] = 10000000 * q[m]
  <2>1. /\ m \in 0..77 /\ m + 1 \in 0..77 /\ m + 2 \in 0..77 /\ m + 3 \in 0..77
        /\ m + 4 \in 0..77 /\ m + 5 \in 0..77 /\ m + 6 \in 0..77
        /\ (m + 1) + 1 = m + 2 /\ (m + 2) + 1 = m + 3 /\ (m + 3) + 1 = m + 4
        /\ (m + 4) + 1 = m + 5 /\ (m + 5) + 1 = m + 6 /\ (m + 6) + 1 = m + 7
    OBVIOUS
  <2>2. /\ q[m + 1] = 10 * q[m] /\ q[m + 2] = 10 * q[m + 1] /\ q[m + 3] = 10 * q[m + 2]
        /\ q[m + 4] = 10 * q[m + 3] /\ q[m + 5] = 10 * q[m + 4]
        /\ q[m + 6] = 10 * q[m + 5] /\ q[m + 7] = 10 * q[m + 6]
    BY <1>2, <2>1
  <2> QED BY <1>4, <2>2
<1> DEFINE Below(n, m) == q[m] \in Nat /\ p[n] <= q[m]
<1>5. ASSUME NEW n \in 0..233, NEW m \in 0..71, Below(n, m) PROVE Below(n + 23, m + 7)
  <2>1. p[n + 23] = 8388608 * p[n]
    BY <1>3
  <2>2. q[m + 7] \in Nat /\ q[m + 7] = 10000000 * q[m]
    BY <1>4, <1>5
  <2>3. p[n] \in Nat /\ q[m] \in Nat /\ p[n] <= q[m]
    <3>1. n \in 0..256
      OBVIOUS
    <3> QED BY <1>1, <1>5, <3>1, Zenon
  <2> QED BY <2>1, <2>2, <2>3
<1>6. Below(0, 0)
  BY <1>1
<1> HIDE DEF Below
<1>7. Below(23, 7) /\ Below(46, 14) /\ Below(69, 21) /\ Below(92, 28)
  <2>1. Below(0 + 23, 0 + 7)
    BY <1>5, <1>6
  <2>2. Below(23 + 23, 7 + 7)
    BY <1>5, <2>1
  <2>3. Below(46 + 23, 14 + 7)
    BY <1>5, <2>2
  <2>4. Below(69 + 23, 21 + 7)
    BY <1>5, <2>3
  <2> QED BY <2>1, <2>2, <2>3, <2>4
<1>8. Below(115, 35) /\ Below(138, 42) /\ Below(161, 49) /\ Below(184, 56)
  <2>1. Below(92 + 23, 28 + 7)
    BY <1>5, <1>7
  <2>2. Below(115 + 23, 35 + 7)
    BY <1>5, <2>1
  <2>3. Below(138 + 23, 42 + 7)
    BY <1>5, <2>2
  <2>4. Below(161 + 23, 49 + 7)
    BY <1>5, <2>3
  <2> QED BY <2>1, <2>2, <2>3, <2>4
<1>9. Below(253, 77)
  <2>1. Below(184 + 23, 56 + 7)
    BY <1>5, <1>8
  <2>2. Below(207 + 23, 63 + 7)
    BY <1>5, <2>1
  <2>3. Below(230 + 23, 70 + 7)
    BY <1>5, <2>2
  <2> QED BY <2>3
<1>10. /\ p[254] = 2 * p[253] /\ p[255] = 2 * p[254] /\ p[256] = 2 * p[255]
       /\ q[78] = 10 * q[77] /\ p[253] \in Nat /\ p[253] > 0
  <2>1. 253 + 1 = 254 /\ 254 + 1 = 255 /\ 255 + 1 = 256 /\ 77 + 1 = 78
    OBVIOUS
  <2>2. 253 \in 0..255 /\ 254 \in 0..255 /\ 255 \in 0..255 /\ 77 \in 0..77 /\ 253 \in 0..256
    OBVIOUS
  <2> QED BY <1>1, <1>2, <2>1, <2>2
<1>11. q[77] \in Nat /\ p[253] <= q[77]
  BY <1>9 DEF Below
<1>12. 4 * WordBits = 256
  OBVIOUS
<1>13. q[78] \in Nat /\ p[256] < q[78]
  BY <1>10, <1>11
<1> QED BY <1>1, <1>12, <1>13, Zenon

(* What the application prints: amounts of 256 bits and more room than the  *)
(* 78 digits that they may have.                                            *)
AmountPrinted ==
  WordBits = 64 /\ baseParam = 10 =>
    /\ pc = "done" =>
         /\ out \in Seq(0..9) /\ out # <<>> /\ Len(out) <= 78
         /\ out[1] = 0 => Len(out) = 1
    /\ pc = "refused" => outLength < 78

(* An amount is always printed, in at most 78 digits: rlpParseInt offers 80 *)
(* bytes and does not look whether tostring256 refuses (utils.c:331-333).   *)
(* This is what AmountAssumption of AmountText asks of digits.              *)
THEOREM AmountsArePrinted == Spec => []AmountPrinted
<1>1. DivisionOK /\ PrintOK => AmountPrinted
  <2> SUFFICES ASSUME DivisionOK, PrintOK, WordBits = 64, baseParam = 10
               PROVE  /\ pc = "done" =>
                           /\ out \in Seq(0..9) /\ out # <<>> /\ Len(out) <= 78
                           /\ out[1] = 0 => Len(out) = 1
                      /\ pc = "refused" => outLength < 78
    BY Zenon DEF AmountPrinted
  <2>1. ArgumentsOK /\ out \in Seq(Word) /\ outLength \in Nat
    BY PrintAssumption DEF DivisionOK, CellsOK, ArgumentsOK
  <2>2. Value(given) \in Nat /\ Value(given) < Pow2[4 * WordBits] /\ Pow2[4 * WordBits] \in Nat
    <3>1. Value(given) \in 0..(Pow2[Places] - 1)
      BY <2>1, GivenIs, NumIs
    <3>2. 4 * WordBits \in 0..(4 * WordBits)
      BY WordBitsIs
    <3>3. Pow2[4 * WordBits] \in Nat
      BY <3>2, Pow2Nat
    <3> QED BY <3>1, <3>3, PlacesIs
  <2>3. ASSUME outLength >= 78
        PROVE  BasePower[78] \in Nat /\ Value(given) < BasePower[78]
    <3>1. BasePower[0] = 1 /\ \A i \in 1..outLength : BasePower[i] = 10 * BasePower[i - 1]
      BY <2>1, BasePowerIs
    <3>2. BasePower[78] \in Nat /\ Pow2[4 * WordBits] < BasePower[78]
      BY <2>1, <2>3, <3>1, SeventyEightDigits
    <3> QED BY <2>2, <3>2
  <2>4. ASSUME NEW s \in Seq(Word), NEW v, NEW q, Counts(q, s, v), Len(s) <= outLength,
               NEW m \in 0..Len(s), 78 <= m, q[m] # 0
        PROVE  FALSE
    <3>1. outLength >= 78 /\ 78 \in 0..m /\ 78 \in 0..Len(s) /\ baseParam >= 1
      BY <2>1, <2>4
    <3>2. q[78] \in Nat \ {0}
      BY <2>1, <2>4, <3>1, StillLeft
    <3>3. BasePower[78] * q[78] <= Value(given)
      BY <2>1, <2>4, <3>1, CountedFrom
    <3>4. PICK p \in Nat, u \in Nat \ {0}, z \in Nat :
            p = BasePower[78] /\ u = q[78] /\ z = Value(given) /\ z < p /\ p * u <= z
      BY <2>2, <2>3, <3>1, <3>2, <3>3
    <3>5. 1 * p <= u * p /\ 1 * p = p /\ u * p = p * u /\ p * u \in Int
      BY Grow
    <3> QED BY <3>4, <3>5
  <2>5. ASSUME pc = "done"
        PROVE  /\ out \in Seq(0..9) /\ out # <<>> /\ Len(out) <= 78
               /\ out[1] = 0 => Len(out) = 1
    <3>1. PICK s \in Seq(Word) :
            /\ out = reverseString(s) /\ Counted(s, 0)
            /\ Len(s) \in 1..outLength /\ (Len(s) > 1 => s[Len(s)] # 0)
      BY <2>5 DEF PrintOK
    <3>2. PICK n \in 1..outLength : n = Len(s) /\ n \in 1..n /\ n - 1 \in 0..n
      BY <3>1
    <3>3. /\ Len(out) = n /\ out[1] = s[n]
          /\ out \in Seq(Word) /\ DOMAIN out = 1..n
      <4>1. /\ Len(out) = Len(s)
            /\ \A i \in 1..Len(s) : out[i] = s[Len(s) + 1 - i]
        BY <3>1, Reversed
      <4>2. 1 \in 1..n /\ n + 1 - 1 = n
        BY <2>1, <3>2
      <4> QED BY <2>1, <3>2, <4>1, <4>2
    <3>4. \A i \in 1..n : out[i] \in 0..9
      <4>1. \A i \in DOMAIN out : out[i] < 10
        BY <2>1, <3>1, HornerIs
      <4>2. \A i \in 1..n : out[i] \in Word
        BY <3>3
      <4>3. \A w \in Word : w \in Nat
        BY Spans
      <4> TAKE i \in 1..n
      <4>4. out[i] \in Nat /\ out[i] < 10
        BY <3>3, <4>1, <4>2, <4>3, Zenon
      <4> QED BY <4>4
    <3>5. out \in Seq(0..9)
      BY <3>3, <3>4
    <3>6. out[1] = 0 => n = 1
      BY <2>1, <3>1, <3>2, <3>3
    <3>7. n <= 78
      <4> SUFFICES ASSUME 79 <= n PROVE FALSE
        BY <2>1, <3>2
      <4>1. PICK q : Counts(q, s, 0)
        BY <3>1 DEF Counted
      <4>2. q[n] = 0 /\ q[n - 1] = q[n] * 10 + s[n]
        BY <3>2, <4>1 DEF Counts
      <4>3. s[n] # 0 /\ s[n] \in Nat
        <5>1. s[n] \in Word
          BY <3>2
        <5> QED BY <2>1, <3>1, <3>2, <5>1, Spans
      <4>4. q[n - 1] # 0
        BY <4>2, <4>3
      <4>5. n - 1 \in 0..Len(s) /\ 78 <= n - 1 /\ Len(s) <= outLength
        BY <2>1, <3>1, <3>2
      <4> QED BY <2>4, <4>1, <4>4, <4>5
    <3>8. out # <<>>
      BY <2>1, <3>2, <3>3
    <3> QED BY <3>3, <3>5, <3>6, <3>7, <3>8
  <2>6. ASSUME pc = "refused", outLength >= 78
        PROVE  FALSE
    <3>1. Counted(out, Value(rDiv)) /\ Len(out) = outLength /\ Value(rDiv) # 0
      <4>1. 10 \in 2..16
        OBVIOUS
      <4> QED BY <2>6, <4>1 DEF PrintOK
    <3>2. PICK q : Counts(q, out, Value(rDiv))
      BY <3>1 DEF Counted
    <3>3. q[Len(out)] # 0
      BY <3>1, <3>2 DEF Counts
    <3>4. Len(out) \in 0..Len(out) /\ 78 <= Len(out) /\ Len(out) <= outLength
      BY <2>1, <2>6, <3>1
    <3> QED BY <2>1, <2>4, <3>2, <3>3, <3>4
  <2> QED BY <2>1, <2>5, <2>6
<1>2. DivisionOK /\ PrintOK /\ [Next]_vars => PrintOK'
  BY PrintKeeps
<1> QED BY <1>1, <1>2, PrintStarts, DivisionKept, PTL DEF Spec
=============================================================================
