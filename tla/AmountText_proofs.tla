-------------------------- MODULE AmountText_proofs --------------------------
(***************************************************************************)
(* For every number of decimals and every amount: what adjustDecimals       *)
(* leaves on the screen is the amount, and it fits the buffer.              *)
(***************************************************************************)
EXTENDS AmountText, SequenceTheorems, WellFoundedInduction, TLAPS

(* What a text is written with.                                             *)
Figure == Digit \cup {Dot}

(* Two sequences one behind the other: length and places.                   *)
LEMMA Joined ==
  ASSUME NEW S, NEW s \in Seq(S), NEW t \in Seq(S)
  PROVE  /\ s \o t \in Seq(S) /\ Len(s \o t) = Len(s) + Len(t)
         /\ \A i \in 1..Len(s) : (s \o t)[i] = s[i]
         /\ \A i \in 1..Len(t) : (s \o t)[Len(s) + i] = t[i]
<1>1. Len(s) \in Nat /\ Len(t) \in Nat
  BY LenProperties
<1>2. /\ s \o t \in Seq(S) /\ Len(s \o t) = Len(s) + Len(t)
      /\ \A i \in 1..Len(s) + Len(t) :
           (s \o t)[i] = IF i <= Len(s) THEN s[i] ELSE t[i - Len(s)]
  BY ConcatProperties
<1> QED BY <1>1, <1>2

(* Three of them, however they are put together.                            *)
LEMMA Regroup ==
  ASSUME NEW s \in Seq(Digit), NEW t \in Seq(Digit), NEW u \in Seq(Digit)
  PROVE  (s \o t) \o u = s \o (t \o u)
BY ConcatAssociative

(* A row of zeros.                                                          *)
LEMMA ZerosAre ==
  ASSUME NEW n \in Nat
  PROVE  /\ Zeros(n) \in Seq(Digit) /\ Len(Zeros(n)) = n
         /\ \A i \in 1..n : Zeros(n)[i] = 0
BY DEF Zeros, Digit

(* Digits and the point are what texts are written with.                    *)
LEMMA FiguresAre ==
  /\ <<0>> \in Seq(Digit) /\ Len(<<0>>) = 1 /\ <<0>>[1] = 0
  /\ <<Dot>> \in Seq(Figure) /\ Len(<<Dot>>) = 1 /\ <<Dot>>[1] = Dot
  /\ <<0, Dot>> = <<0>> \o <<Dot>>
  /\ \A s \in Seq(Digit) : s \in Seq(Figure) /\ Len(s) \in Nat
<1>1. \A s \in Seq(Digit) : s \in Seq(Figure) /\ Len(s) \in Nat
  BY SeqMonotonic, LenProperties DEF Figure
<1> QED BY <1>1 DEF Digit, Figure, Dot

(* A sequence cut in two.                                                   *)
LEMMA Halves ==
  ASSUME NEW S, NEW d \in Seq(S), NEW k \in Nat, k <= Len(d)
  PROVE  /\ SubSeq(d, 1, k) \in Seq(S) /\ Len(SubSeq(d, 1, k)) = k
         /\ \A i \in 1..k : SubSeq(d, 1, k)[i] = d[i]
         /\ SubSeq(d, k + 1, Len(d)) \in Seq(S)
         /\ Len(SubSeq(d, k + 1, Len(d))) = Len(d) - k
         /\ \A i \in 1..(Len(d) - k) : SubSeq(d, k + 1, Len(d))[i] = d[k + i]
<1>1. /\ SubSeq(d, 1, k) \in Seq(S) /\ Len(SubSeq(d, 1, k)) = k
      /\ \A i \in 1..k : SubSeq(d, 1, k)[i] = d[i]
  OBVIOUS
<1>2. /\ SubSeq(d, k + 1, Len(d)) \in Seq(S)
      /\ Len(SubSeq(d, k + 1, Len(d))) = Len(d) - k
      /\ \A i \in 1..(Len(d) - k) : SubSeq(d, k + 1, Len(d))[i] = d[k + i]
  OBVIOUS
<1> QED BY <1>1, <1>2

(* A sequence is two others joined if its two parts are theirs.             *)
LEMMA Rejoin ==
  ASSUME NEW S, NEW d \in Seq(S), NEW e \in Seq(S), NEW s \in Seq(S),
         Len(s) = Len(d) + Len(e),
         \A i \in 1..Len(d) : s[i] = d[i],
         \A i \in 1..Len(e) : s[Len(d) + i] = e[i]
  PROVE  d \o e = s
<1>1. PICK X : X = d \o e
  OBVIOUS
<1>2. Len(d) \in Nat /\ Len(e) \in Nat BY LenProperties
<1>3. /\ X \in Seq(S) /\ Len(X) = Len(s)
      /\ \A i \in 1..Len(d) : X[i] = s[i]
      /\ \A i \in 1..Len(e) : X[Len(d) + i] = s[Len(d)+i]
  BY <1>1
<1>4. \A i \in 1..Len(X) : X[i] = s[i]
  <2> TAKE i \in 1..Len(X)
  <2>1. CASE i <= Len(d)
    BY <1>2, <1>3, <2>1
  <2>2. CASE ~(i <= Len(d))
    <3>1. PICK k \in 1..Len(e) : i = Len(d) + k
      <4>1. i - Len(d) \in 1..Len(e) /\ i = Len(d) + (i - Len(d))
        BY <1>2, <1>3, <2>2
      <4> QED BY <4>1
    <3> QED BY <1>3, <3>1
  <2> QED BY <2>1, <2>2
<1> QED BY <1>1, <1>3, <1>4, SeqEqual

(* Digits cut in two are those digits when joined again.                    *)
LEMMA HalvesRejoin ==
  ASSUME NEW d \in Seq(Digit), NEW k \in Nat, k <= Len(d)
  PROVE  \E I, F \in Seq(Digit) :
           /\ I = SubSeq(d, 1, k) /\ F = SubSeq(d, k + 1, Len(d))
           /\ Len(I) = k /\ \A i \in 1..k : I[i] = d[i]
           /\ Len(F) = Len(d) - k /\ \A i \in 1..(Len(d) - k) : F[i] = d[k + i]
           /\ I \o F = d
<1>1. PICK I : I = SubSeq(d, 1, k) OBVIOUS
<1>2. PICK F : F = SubSeq(d, k + 1, Len(d)) OBVIOUS
<1>3. /\ I \in Seq(Digit) /\ Len(I) = k /\ \A i \in 1..k : I[i] = d[i]
  BY <1>1, Halves
<1>4. /\ F \in Seq(Digit) /\ Len(F) = Len(d) - k
      /\ \A i \in 1..(Len(d) - k) : F[i] = d[k + i]
  BY <1>2, Halves
<1>5. Len(d) \in Nat BY LenProperties
<1>6. I \o F = d
  <2>1. Len(d) = Len(I) + Len(F) BY <1>3, <1>4, <1>5
  <2>2. \A i \in 1..Len(I) : d[i] = I[i] BY <1>3
  <2>3. \A i \in 1..Len(F) : d[Len(I) + i] = F[i] BY <1>3, <1>4
  <2> QED BY <1>3, <1>4, <2>1, <2>2, <2>3, Rejoin
<1> QED BY <1>1, <1>2, <1>3, <1>4, <1>6

(* A text is put together from digits I, the point and digits F.            *)
Between(I, F) == I \o <<Dot>> \o F

(* A text with the point between two rows of digits.                        *)
LEMMA PointBetween ==
  ASSUME NEW I \in Seq(Digit), NEW F \in Seq(Digit)
  PROVE  LET text == Between(I, F) IN
         /\ text \in Seq(Figure) /\ Len(text) = Len(I) + 1 + Len(F)
         /\ \A i \in 1..Len(I) : text[i] = I[i]
         /\ text[Len(I) + 1] = Dot
         /\ \A i \in 1..Len(F) : text[Len(I) + 1 + i] = F[i]
<1>1. PICK text : text = Between(I, F)
  OBVIOUS
<1>2. I \in Seq(Figure) /\ F \in Seq(Figure) /\ Len(I) \in Nat /\ Len(F) \in Nat
  BY FiguresAre
<1>3. PICK P \in Seq(Figure) : P = <<Dot>> /\ Len(P) = 1 /\ P[1] = Dot
  BY FiguresAre
<1>4. PICK IP : IP = I \o P
  OBVIOUS
<1>5. /\ IP \in Seq(Figure) /\ Len(IP) = Len(I) + 1
      /\ \A i \in 1..Len(I) : IP[i] = I[i]
      /\ IP[Len(I) + 1] = Dot
  <2>1. /\ IP \in Seq(Figure) /\ Len(IP) = Len(I) + Len(P)
        /\ \A i \in 1..Len(I) : IP[i] = I[i]
        /\ \A i \in 1..Len(P) : IP[Len(I) + i] = P[i]
    BY <1>2, <1>3, <1>4, Joined
  <2> QED BY <1>2, <1>3, <2>1
<1>6. text = IP \o F
  BY <1>1, <1>3, <1>4 DEF Between
<1>7. /\ text \in Seq(Figure) /\ Len(text) = Len(IP) + Len(F)
      /\ \A i \in 1..Len(IP) : text[i] = IP[i]
      /\ \A i \in 1..Len(F) : text[Len(IP) + i] = F[i]
  <2>1. /\ IP \o F \in Seq(Figure) /\ Len(IP \o F) = Len(IP) + Len(F)
        /\ \A i \in 1..Len(IP) : (IP \o F)[i] = IP[i]
        /\ \A i \in 1..Len(F) : (IP \o F)[Len(IP) + i] = F[i]
    <3>1. IP \in Seq(Figure) /\ F \in Seq(Figure)
      BY <1>2, <1>5, Zenon
    <3> QED BY <3>1, Joined
  <2> QED BY <1>6, <2>1, Zenon
<1>8. /\ text \in Seq(Figure) /\ Len(text) = Len(I) + 1 + Len(F)
      /\ \A i \in 1..Len(I) : text[i] = I[i]
      /\ text[Len(I) + 1] = Dot
      /\ \A i \in 1..Len(F) : text[Len(I) + 1 + i] = F[i]
  <2>1. Len(text) = Len(I) + 1 + Len(F)
    BY <1>2, <1>5, <1>7
  <2>2. \A i \in 1..Len(I) : i \in 1..Len(IP)
    BY <1>2, <1>5
  <2>3. Len(I) + 1 \in 1..Len(IP)
    BY <1>2, <1>5
  <2>4. \A i \in 1..Len(I) : text[i] = I[i]
    BY <1>5, <1>7, <2>2, Zenon
  <2>5. text[Len(I) + 1] = Dot
    BY <1>5, <1>7, <2>3, Zenon
  <2>6. \A i \in 1..Len(F) : text[Len(I) + 1 + i] = F[i]
    BY <1>5, <1>7, Zenon
  <2> QED BY <1>7, <2>1, <2>4, <2>5, <2>6
<1> QED BY <1>1, <1>8, Zenon

(* A text with the point between the digits I and F: as digits with zeros   *)
(* in front they are the amount; no zero is in front of I unless it is the  *)
(* only one; and zeros at the end are looked for behind the point only, up  *)
(* to a digit that is none.                                                 *)
PointedAs(p, digits, I, F) ==
  /\ I \in Seq(Digit) /\ F \in Seq(Digit) /\ Len(I) > 0 /\ Len(F) = Decimals
  /\ p.text = Between(I, F)
  /\ Len(I) = 1 \/ Len(I) + Len(F) = Len(digits)
  /\ Len(I) > 1 => I[1] # 0
  /\ Len(digits) <= Len(I) + Len(F)
  /\ I \o F = Zeros(Len(I) + Len(F) - Len(digits)) \o digits
  /\ p.start \in (Len(I) + 1)..(Len(I) + Len(F))
  /\ p.start = Len(I) + 1 \/ F[p.start - Len(I)] # 0

(* An amount of no more digits than decimals: zero, point, zeros, and its   *)
(* digits (utils.c:268-282).                                                *)
LEMMA PointedBelow ==
  ASSUME NEW digits \in Seq(Digit), digits # <<>>, digits[1] # 0,
         Decimals \in Nat, Len(digits) <= Decimals
  PROVE  \E I, F : PointedAs(Pointed(digits), digits, I, F)
<1> digits # <<0>>
  OBVIOUS
<1>1. PICK n \in Nat : n = Decimals - Len(digits) /\ Len(digits) \in Nat \ {0}
  BY LenProperties, EmptySeq
<1>2. PICK p : p = Pointed(digits)
  OBVIOUS
<1>3. p.text = <<0, Dot>> \o Zeros(n) \o digits /\ p.start = 2 + n
  <2>1. -(Len(digits) - Decimals) = n /\ 2 - (Len(digits) - Decimals) = 2 + n
    BY <1>1
  <2> QED BY <1>2, <2>1 DEF Pointed
<1>4. PICK I \in Seq(Digit) : I = <<0>> /\ Len(I) = 1 /\ I[1] = 0
  BY FiguresAre
<1>5. PICK Z \in Seq(Digit) :
        Z = Zeros(n) /\ Len(Z) = n /\ \A i \in 1..n : Z[i] = 0
  BY ZerosAre
<1>6. PICK F : F = Z \o digits
  OBVIOUS
<1>7. /\ F \in Seq(Digit) /\ Len(F) = Decimals /\ F[n + 1] = digits[1]
  BY <1>1, <1>5, <1>6, Joined
<1>8. p.text = Between(I, F)
  <2>1. PICK P \in Seq(Figure) : P = <<Dot>>
    BY FiguresAre
  <2>2. PICK IP \in Seq(Figure) : IP = I \o P /\ IP = <<0, Dot>>
    BY <1>4, <2>1, FiguresAre, Joined
  <2>3. Z \in Seq(Figure) /\ digits \in Seq(Figure)
    BY FiguresAre
  <2>4. (IP \o Z) \o digits = IP \o (Z \o digits)
    BY <2>2, <2>3, ConcatAssociative
  <2> QED BY <1>3, <1>5, <1>6, <2>1, <2>2, <2>4 DEF Between
<1>9. I \o F = Zeros(1 + n) \o digits
  <2>1. I \o Z = Zeros(1 + n)
    <3>1. <<0>> \o Zeros(n) = Zeros(1 + n)
      BY DEF Zeros
    <3> QED BY <1>4, <1>5, <3>1, Zenon
  <2>2. (I \o Z) \o digits = I \o (Z \o digits)
    BY ConcatAssociative
  <2> QED BY <1>6, <2>1, <2>2
<1>10. p.start = Len(I) + n + 1 /\ p.start - Len(I) = n + 1
  BY <1>3, <1>4
<1>11. Len(I) + Len(F) - Len(digits) = 1 + n
  BY <1>1, <1>4, <1>7
<1>12. PointedAs(p, digits, I, F)
  BY <1>1, <1>4, <1>7, <1>8, <1>9, <1>10, <1>11 DEF PointedAs
<1> QED BY <1>2, <1>12

(* An amount of more digits than decimals: the point goes between           *)
(* (utils.c:283-300).                                                       *)
LEMMA PointedAbove ==
  ASSUME NEW digits \in Seq(Digit), digits # <<>>, digits[1] # 0,
         Decimals \in Nat \ {0}, Len(digits) > Decimals
  PROVE  \E I, F : PointedAs(Pointed(digits), digits, I, F)
<1> digits # <<0>>
  OBVIOUS
<1>1. PICK delta \in Nat \ {0} :
        /\ delta = Len(digits) - Decimals /\ delta < Len(digits)
        /\ Len(digits) \in Nat
  <2>1. Len(digits) \in Nat
    BY LenProperties
  <2>2. Len(digits) - Decimals \in Nat \ {0} /\ Len(digits) - Decimals < Len(digits)
    BY <2>1
  <2> QED BY <2>1, <2>2
<1>2. PICK p : p = Pointed(digits)
  OBVIOUS
<1>3. PICK I \in Seq(Digit), F \in Seq(Digit) :
        /\ I = SubSeq(digits, 1, delta)
        /\ F = SubSeq(digits, delta + 1, Len(digits))
        /\ Len(I) = delta /\ \A i \in 1..delta : I[i] = digits[i]
        /\ Len(F) = Len(digits) - delta
        /\ I \o F = digits
  <2>1. delta \in Nat /\ delta <= Len(digits)
    BY <1>1
  <2> QED BY <2>1, HalvesRejoin, Zenon
<1>4. /\ Len(I) = delta /\ I[1] = digits[1] /\ Len(F) = Decimals
      /\ I \o F = digits
  <2>1. Len(I) = delta /\ I \o F = digits
    BY <1>3, Zenon
  <2>2. I[1] = digits[1]
    <3>1. 1 \in 1..delta
      OBVIOUS
    <3> QED BY <1>3, <3>1, Zenon
  <2>3. Len(F) = Decimals
    <3>1. Len(F) = Len(digits) - delta
      BY <1>3, Zenon
    <3> QED BY <1>1, <3>1
  <2> QED BY <2>1, <2>2, <2>3
<1>5. p.text = Between(I, F) /\ p.start = delta + 1
  <2>1. Len(<<Dot>>) = 1
    BY FiguresAre
  <2>2. Decimals # 0 /\ ~(Len(digits) <= Decimals)
    BY <1>1
  <2>3. I = SubSeq(digits, 1, delta) /\ F = SubSeq(digits, delta + 1, Len(digits))
    BY <1>3, Zenon
  <2> DEFINE dl == Len(digits) - Decimals
  <2> HIDE DEF dl
  <2>4. dl = delta
    BY <1>1 DEF dl
  <2>5. p = [text |-> SubSeq(digits, 1, dl) \o <<Dot>> \o SubSeq(digits, dl + 1, Len(digits)),
             start |-> dl + Len(<<Dot>>)]
    BY <1>2, <2>2, Zenon DEF Pointed, dl
  <2> QED BY <2>1, <2>3, <2>4, <2>5 DEF Between
<1>6. Zeros(0) \o digits = digits
  <2>1. Zeros(0) = <<>>
    BY ZerosAre, EmptySeq
  <2> QED BY <2>1, ConcatEmptySeq
<1>7. /\ Len(I) + Len(F) - Len(digits) = 0 /\ Len(digits) <= Len(I) + Len(F)
      /\ Len(I) + Len(F) = Len(digits) /\ Len(I) > 0 /\ I[1] # 0
      /\ p.start \in (Len(I) + 1)..(Len(I) + Len(F)) /\ p.start = Len(I) + 1
  <2>1. p.start = delta + 1
    BY <1>5, Zenon
  <2> QED BY <1>1, <1>4, <2>1
<1>8. PointedAs(p, digits, I, F)
  <2>1. p.text = Between(I, F)
    BY <1>5, Zenon
  <2>2. I \o F = Zeros(Len(I) + Len(F) - Len(digits)) \o digits
    BY <1>4, <1>6, <1>7, Zenon
  <2> QED BY <1>4, <1>7, <2>1, <2>2, Zenon DEF PointedAs
<1> QED BY <1>2, <1>8
-----------------------------------------------------------------------------
(* Every set of offsets has a least one.                                    *)
LEMMA Least ==
  ASSUME NEW T \in SUBSET Nat, T # {}
  PROVE  \E n \in T : \A m \in T : n <= m
<1> DEFINE R == OpToRel(<, Nat)
<1>1. IsWellFoundedOn(R, Nat)
  BY NatLessThanWellFounded
<1>2. \A x, y \in Nat : <<y, x>> \in R <=> y < x
  BY Zenon DEF OpToRel
<1> HIDE DEF R
<1>3. PICK x \in T : \A y \in T : ~(<<y, x>> \in R)
  BY <1>1, WFMin, Zenon
<1>4. \A y \in T : ~(y < x)
  <2>1. \A y \in T : y \in Nat /\ x \in Nat
    OBVIOUS
  <2> QED BY <1>2, <1>3, <2>1, Zenon
<1>5. \A y \in T : x <= y
  BY <1>4
<1> QED BY <1>3, <1>5

(* A text without a point, whose zeros are looked for behind its end, is    *)
(* not cut.                                                                 *)
LEMMA NothingCut ==
  ASSUME NEW text \in Seq(Digit)
  PROVE  Cut(text, Len(text)) = Len(text)
<1>1. PICK L \in Nat : L = Len(text)
  BY LenProperties
<1>2. {i \in L..(L - 1) : \A k \in i..(L - 1) : text[k + 1] = 0} = {}
  OBVIOUS
<1>3. (CHOOSE i \in {} \cup {L} : \A k \in {} \cup {L} : i <= k) = L
  OBVIOUS
<1> QED BY <1>1, <1>2, <1>3, Zenon DEF Cut

(* Where a text with a point is cut: behind the last digit of the fraction  *)
(* that is not zero, and before the point if all of them are.               *)
CutAt(I, F, k) ==
  /\ k \in 0..Len(F)
  /\ k > 0 => F[k] # 0
  /\ \A j \in (k + 1)..Len(F) : F[j] = 0

(* The offsets that Cut chooses from, and the one that it chooses.          *)
ZerosFrom(text, start) ==
  {i \in start..(Len(text) - 1) : \A k \in i..(Len(text) - 1) : text[k + 1] = 0}
(* The least of some offsets.                                               *)
FirstOf(offsets) == CHOOSE i \in offsets : \A k \in offsets : i <= k

(* Where the text is cut: the first of the zeros up to the end, or the      *)
(* point before it, or the end (utils.c:301-315).                           *)
LEMMA CutChooses ==
  ASSUME NEW text, NEW start
  PROVE  Cut(text, start) =
           LET last == FirstOf(ZerosFrom(text, start) \cup {Len(text)})
           IN IF ZerosFrom(text, start) # {} /\ text[last] = Dot THEN last - 1 ELSE last
BY DEF Cut, ZerosFrom, FirstOf

(* There is just one least offset.                                          *)
LEMMA FirstIs ==
  ASSUME NEW T \in SUBSET Nat, NEW n \in T, \A m \in T : n <= m
  PROVE  FirstOf(T) = n
<1> DEFINE least(i) == \A m \in T : i <= m
<1>1. \A i \in T : least(i) => i = n
  OBVIOUS
<1>2. least(n)
  OBVIOUS
<1> HIDE DEF least
<1>3. (CHOOSE i \in T : least(i)) = n
  BY <1>1, <1>2, Zenon
<1> QED BY <1>3 DEF FirstOf, least

(* The decimals are cut where nothing but zeros follow, and with all of     *)
(* them the point.                                                          *)
LEMMA FractionCut ==
  ASSUME NEW I \in Seq(Digit), NEW F \in Seq(Digit),
         NEW start \in (Len(I) + 1)..(Len(I) + Len(F)),
         start = Len(I) + 1 \/ F[start - Len(I)] # 0
  PROVE  \E k : /\ CutAt(I, F, k)
                /\ Cut(Between(I, F), start) = IF k = 0 THEN Len(I) ELSE Len(I) + 1 + k
<1>1. PICK text : text = Between(I, F)
  OBVIOUS
<1>2. PICK m \in Nat, D \in Nat : m = Len(I) /\ D = Len(F)
  BY LenProperties
<1>3. /\ Len(text) = Len(I) + 1 + Len(F) /\ text[Len(I) + 1] = Dot
      /\ \A i \in 1..Len(F) : text[Len(I) + 1 + i] = F[i]
  <2>1. LET t == Between(I, F) IN
        /\ t \in Seq(Figure) /\ Len(t) = Len(I) + 1 + Len(F)
        /\ \A i \in 1..Len(I) : t[i] = I[i]
        /\ t[Len(I) + 1] = Dot
        /\ \A i \in 1..Len(F) : t[Len(I) + 1 + i] = F[i]
    BY PointBetween
  <2> QED BY <1>1, <2>1
<1>4. PICK L \in Nat : L = Len(text) /\ L = m + 1 + D
  BY <1>2, <1>3
<1>5. text[m + 1] = Dot /\ \A i \in 1..D : text[m + 1 + i] = F[i]
  BY <1>2, <1>3, Zenon
<1>6. \A i \in 1..D : F[i] \in Digit
  BY <1>2, ElementOfSeq
<1>7. start \in (m + 1)..(m + D) /\ (start = m + 1 \/ F[start - m] # 0)
  BY <1>2
<1>8. PICK zeros :
        /\ zeros = ZerosFrom(text, start)
        /\ zeros \in SUBSET (start..(L - 1))
        /\ \A i \in start..(L - 1) :
             i \in zeros <=> \A k \in i..(L - 1) : text[k + 1] = 0
  <2> DEFINE nil(i) == \A k \in i..(L - 1) : text[k + 1] = 0
             Z == {i \in start..(L - 1) : nil(i)}
  <2>1. Z = ZerosFrom(text, start)
    BY <1>4, Zenon DEF ZerosFrom
  <2>2. Z \in SUBSET (start..(L - 1)) /\ \A i \in start..(L - 1) : i \in Z <=> nil(i)
    <3> HIDE DEF nil
    <3> QED OBVIOUS
  <2> QED BY <2>1, <2>2, Zenon
<1>9. start..(L - 1) \in SUBSET Nat
  BY <1>7
<1>10. zeros \in SUBSET (start..(L - 1))
  BY <1>8, Zenon
<1>11. PICK last \in Nat : /\ last \in zeros \cup {L}
                           /\ \A k \in zeros \cup {L} : last <= k
  <2>1. zeros \cup {L} \in SUBSET Nat /\ zeros \cup {L} # {}
    BY <1>9, <1>10
  <2> QED BY <2>1, Least
<1>12. Cut(text, start) = IF zeros # {} /\ text[last] = Dot THEN last - 1 ELSE last
  <2>1. zeros \cup {L} \in SUBSET Nat
    BY <1>9, <1>10
  <2>2. FirstOf(zeros \cup {L}) = last
    BY <1>11, <2>1, FirstIs
  <2> QED BY <1>4, <1>8, <2>2, CutChooses, Zenon
<1>13. /\ last \in start..L
       /\ last # L => zeros # {} /\ \A i \in last..(L - 1) : text[i + 1] = 0
  <2>1. last = L \/ (last \in zeros /\ last \in start..(L - 1) /\ zeros # {})
    BY <1>11, <1>10
  <2>2. last \in start..L
    BY <1>4, <1>7, <2>1
  <2> QED BY <1>8, <2>1, <2>2, Zenon
<1>14. PICK k \in 0..D : last = m + 1 + k
  <2>1. last - m - 1 \in 0..D /\ last = m + 1 + (last - m - 1)
    BY <1>4, <1>7, <1>13
  <2> QED BY <2>1
<1>15. \A j \in (k + 1)..D : F[j] = 0
  <2> TAKE j \in (k + 1)..D
  <2>1. last # L
    BY <1>4, <1>14
  <2>2. (m + j) \in last..(L - 1) /\ (m + j) + 1 = m + 1 + j /\ j \in 1..D
    BY <1>4, <1>14
  <2>3. text[(m + j) + 1] = 0
    BY <1>13, <2>1, <2>2
  <2> QED BY <1>5, <2>2, <2>3
<1>16. k > 0 => F[k] # 0
  <2> SUFFICES ASSUME k > 0, F[k] = 0 PROVE FALSE
    OBVIOUS
  <2>1. text[last] = 0
    <3>1. k \in 1..D
      OBVIOUS
    <3> QED BY <1>5, <1>14, <3>1
  <2>2. CASE last = start
    <3>1. k + 1 \in (k + 1)..D /\ start - m = k + 1 /\ start # m + 1
      BY <1>7, <1>14, <2>2
    <3>2. F[k + 1] = 0
      BY <1>15, <3>1
    <3> QED BY <1>7, <3>1, <3>2
  <2>3. CASE last # start
    <3>1. last - 1 \in start..(L - 1)
      BY <1>4, <1>7, <1>13, <1>14, <2>3
    <3>2. \A i \in (last - 1)..(L - 1) : text[i + 1] = 0
      <4> TAKE i \in (last - 1)..(L - 1)
      <4>1. CASE i = last - 1
        <5>1. i + 1 = last
          BY <1>14, <4>1
        <5> QED BY <2>1, <5>1
      <4>2. CASE i # last - 1
        <5>1. i \in last..(L - 1) /\ last # L
          BY <1>4, <1>14, <4>2
        <5> QED BY <1>13, <5>1
      <4> QED BY <4>1, <4>2
    <3>3. last - 1 \in zeros
      BY <1>8, <3>1, <3>2
    <3> QED BY <1>11, <3>3
  <2> QED BY <2>2, <2>3
<1>17. CutAt(I, F, k)
  BY <1>2, <1>15, <1>16 DEF CutAt
<1>18. Cut(text, start) = IF k = 0 THEN m ELSE m + 1 + k
  <2>1. CASE k = 0
    <3>1. last = m + 1 /\ last # L /\ last - 1 = m
      BY <1>4, <1>7, <1>14, <2>1
    <3>2. zeros # {} /\ text[last] = Dot
      BY <1>5, <1>13, <3>1
    <3> QED BY <1>12, <2>1, <3>1, <3>2, Zenon
  <2>2. CASE k # 0
    <3>1. k \in 1..D
      BY <2>2
    <3>2. text[last] # Dot
      <4>1. text[last] = F[k] /\ F[k] \in Digit
        BY <1>5, <1>6, <1>14, <3>1
      <4>2. \A d \in Digit : d # Dot
        BY DEF Digit, Dot
      <4> QED BY <4>1, <4>2, Zenon
    <3> QED BY <1>12, <1>14, <2>2, <3>2, Zenon
  <2> QED BY <2>1, <2>2
<1> QED BY <1>1, <1>2, <1>17, <1>18
-----------------------------------------------------------------------------
(* What is on the screen when a text is cut: digits I, and if k digits of   *)
(* the fraction F remain, the point and they; together the amount.          *)
ReadsAs(text, cut, digits, I, F, k) ==
  /\ text \in Seq(Figure) /\ cut \in 1..Len(text)
  /\ I \in Seq(Digit) /\ F \in Seq(Digit) /\ Len(I) > 0 /\ Len(F) = Decimals
  /\ CutAt(I, F, k)
  /\ cut = IF k = 0 THEN Len(I) ELSE Len(I) + 1 + k
  /\ \A i \in 1..Len(I) : text[i] = I[i]
  /\ k > 0 => /\ text[Len(I) + 1] = Dot
              /\ \A i \in 1..k : text[Len(I) + 1 + i] = F[i]
  /\ Len(I) > 1 => I[1] # 0
  /\ Len(digits) <= Len(I) + Len(F)
  /\ I \o F = Zeros(Len(I) + Len(F) - Len(digits)) \o digits

(* The text, up to where it is cut, reads as the digits.                    *)
LEMMA PointedReads ==
  ASSUME NEW p, NEW digits, NEW I, NEW F, PointedAs(p, digits, I, F), Decimals \in Nat
  PROVE  \E k : /\ ReadsAs(p.text, Cut(p.text, p.start), digits, I, F, k)
                /\ Len(p.text) = Len(I) + 1 + Decimals
                /\ Len(I) = 1 \/ Len(I) + Decimals = Len(digits)
<1>1. PICK text, start : text = p.text /\ start = p.start
  OBVIOUS
<1>2. /\ I \in Seq(Digit) /\ F \in Seq(Digit) /\ Len(I) > 0 /\ Len(F) = Decimals
      /\ text = Between(I, F)
      /\ start \in (Len(I) + 1)..(Len(I) + Len(F))
      /\ start = Len(I) + 1 \/ F[start - Len(I)] # 0
  BY <1>1, Zenon DEF PointedAs
<1>3. /\ Len(I) > 1 => I[1] # 0
      /\ Len(digits) <= Len(I) + Len(F)
      /\ I \o F = Zeros(Len(I) + Len(F) - Len(digits)) \o digits
  BY Zenon DEF PointedAs
<1>4. PICK k : /\ CutAt(I, F, k)
               /\ Cut(text, start) = IF k = 0 THEN Len(I) ELSE Len(I) + 1 + k
  BY <1>2, FractionCut
<1>5. /\ text \in Seq(Figure) /\ Len(text) = Len(I) + 1 + Len(F)
      /\ \A i \in 1..Len(I) : text[i] = I[i]
      /\ text[Len(I) + 1] = Dot
      /\ \A i \in 1..Len(F) : text[Len(I) + 1 + i] = F[i]
  BY <1>2, PointBetween
<1>6. Len(I) \in Nat /\ k \in 0..Len(F)
  BY <1>2, <1>4, LenProperties DEF CutAt
<1>7. Cut(text, start) \in 1..Len(text)
  <2>1. PICK m \in Nat, D \in Nat : m = Len(I) /\ D = Len(F)
    BY <1>2, <1>6
  <2>2. PICK cut : cut = Cut(text, start)
    OBVIOUS
  <2>3. k \in 0..D /\ m > 0 /\ Len(text) = m + 1 + D
        /\ cut = IF k = 0 THEN m ELSE m + 1 + k
    BY <1>2, <1>4, <1>5, <1>6, <2>1, <2>2, Zenon
  <2>4. cut \in 1..Len(text)
    BY <2>3
  <2> QED BY <2>4, <2>2
<1>8. k > 0 => /\ text[Len(I) + 1] = Dot
               /\ \A i \in 1..k : text[Len(I) + 1 + i] = F[i]
  <2>1. \A i \in 1..k : i \in 1..Len(F)
    BY <1>2, <1>6
  <2> QED BY <1>5, <2>1, Zenon
<1>9. ReadsAs(text, Cut(text, start), digits, I, F, k)
  BY <1>2, <1>3, <1>4, <1>5, <1>7, <1>8, Zenon DEF ReadsAs
<1>10. /\ Len(text) = Len(I) + 1 + Decimals
       /\ Len(I) = 1 \/ Len(I) + Decimals = Len(digits)
  BY <1>2, <1>5, Zenon DEF PointedAs
<1> QED BY <1>1, <1>9, <1>10

(* Without decimals all digits are before the point.                        *)
LEMMA AllBeforePoint ==
  ASSUME NEW digits \in Seq(Digit), NEW n \in Nat, n = Len(digits)
  PROVE  SubSeq(digits, 1, n) \o <<>> \o SubSeq(digits, n + 1, Len(digits)) = digits
<1>1. PICK I \in Seq(Digit), F \in Seq(Digit) :
        /\ I = SubSeq(digits, 1, n) /\ F = SubSeq(digits, n + 1, Len(digits))
        /\ I \o F = digits
  <2>1. n \in Nat /\ n <= Len(digits)
    OBVIOUS
  <2> QED BY <2>1, HalvesRejoin, ZenonT(30)
<1>2. I \o <<>> = I
  BY ConcatEmptySeq
<1> QED BY <1>1, <1>2, Zenon

(* Without decimals, or for zero, the text is the digits, and stays whole.  *)
LEMMA PlainReads ==
  ASSUME NEW digits \in Seq(Digit), digits # <<>>, Decimals \in Nat,
         digits[1] = 0 => Len(digits) = 1
  PROVE  digits = <<0>> \/ Decimals = 0 =>
           LET p == Pointed(digits) IN
           \E k : /\ ReadsAs(p.text, Cut(p.text, p.start), digits, digits, Zeros(Decimals), k)
                 /\ Len(p.text) = Len(digits)
<1> HAVE digits = <<0>> \/ Decimals = 0
<1>1. PICK n \in Nat \ {0} : n = Len(digits)
  BY LenProperties, EmptySeq
<1>2. PICK p : p = Pointed(digits)
  OBVIOUS
<1>3. p.text = digits /\ p.start = n
  <2>1. CASE digits = <<0>>
    <3>1. n = 1
      BY <1>1, <2>1, FiguresAre
    <3> QED BY <1>2, <2>1, <3>1 DEF Pointed
  <2>2. CASE digits # <<0>>
    <3>1. Decimals = 0 /\ ~(Len(digits) <= Decimals) /\ Len(digits) - Decimals = n
      BY <1>1, <2>2
    <3>2. p = [text |-> SubSeq(digits, 1, n) \o <<>> \o SubSeq(digits, n + 1, Len(digits)),
               start |-> n + Len(<<>>)]
      BY <1>2, <2>2, <3>1, Zenon DEF Pointed
    <3>3. SubSeq(digits, 1, n) \o <<>> \o SubSeq(digits, n + 1, Len(digits)) = digits
      BY <1>1, AllBeforePoint
    <3>4. p.text = SubSeq(digits, 1, n) \o <<>> \o SubSeq(digits, n + 1, Len(digits))
      BY <3>2
    <3>5. p.text = digits
      BY <3>3, <3>4, Zenon
    <3>6. p.start = n
      <4>1. p.start = n + Len(<<>>)
        BY <3>2
      <4> QED BY <4>1
    <3> QED BY <3>5, <3>6
  <2> QED BY <2>1, <2>2
<1>4. Cut(p.text, p.start) = n
  BY <1>1, <1>3, NothingCut
<1>5. PICK F \in Seq(Digit) :
        F = Zeros(Decimals) /\ Len(F) = Decimals /\ \A i \in 1..Decimals : F[i] = 0
  BY ZerosAre
<1>6. CutAt(digits, F, 0)
  <2>1. \A j \in (0 + 1)..Len(F) : j \in 1..Decimals
    BY <1>5
  <2>2. 0 \in 0..Len(F) /\ ~(0 > 0)
    BY <1>5
  <2> QED BY <1>5, <2>1, <2>2, Zenon DEF CutAt
<1>7. /\ Len(digits) <= Len(digits) + Len(F)
      /\ Len(digits) + Len(F) - Len(digits) = Decimals
      /\ n \in 1..n /\ Len(digits) > 0 /\ (Len(digits) > 1 => digits[1] # 0)
  BY <1>1, <1>5
<1>8. digits \o F = Zeros(Decimals) \o digits
  <2>1. CASE digits = <<0>>
    <3>1. <<0>> \o Zeros(Decimals) = Zeros(Decimals) \o <<0>>
      BY DEF Zeros
    <3> QED BY <1>5, <2>1, <3>1, Zenon
  <2>2. CASE Decimals = 0
    <3>1. Zeros(0) = <<>>
      BY ZerosAre, EmptySeq
    <3> QED BY <1>5, <2>2, <3>1, ConcatEmptySeq, Zenon
  <2> QED BY <2>1, <2>2
<1>9. ReadsAs(p.text, n, digits, digits, F, 0)
  <2>1. digits \in Seq(Figure)
    BY FiguresAre
  <2>2. ~(0 > 0)
    OBVIOUS
  <2> QED BY <1>1, <1>3, <1>5, <1>6, <1>7, <1>8, <2>1, <2>2, Zenon DEF ReadsAs
<1>10. /\ ReadsAs(p.text, Cut(p.text, p.start), digits, digits, Zeros(Decimals), 0)
       /\ Len(p.text) = Len(digits)
  BY <1>1, <1>3, <1>4, <1>5, <1>9, Zenon
<1> QED BY <1>2, <1>10, Zenon
-----------------------------------------------------------------------------
(* Every amount that an AmountAssumption allows has a text that reads as    *)
(* the amount, and that fits the buffer with its terminator.                *)
IsAmount(digits) ==
  /\ digits \in Seq(Digit) /\ digits # <<>>
  /\ digits[1] = 0 => Len(digits) = 1
  /\ Len(digits) + 2 <= TargetLength
  /\ Decimals \in Nat /\ TargetLength \in Nat /\ Decimals + 3 <= TargetLength

(* Whatever the amount: its text reads as its digits, and fits.             *)
LEMMA Printed ==
  ASSUME NEW digits, IsAmount(digits)
  PROVE  LET p == Pointed(digits) IN
         /\ \E I, F, k : ReadsAs(p.text, Cut(p.text, p.start), digits, I, F, k)
         /\ Len(p.text) \in 1..(TargetLength - 1)
         /\ RoomNeeded(digits) \in 0..TargetLength
<1>1. /\ digits \in Seq(Digit) /\ digits # <<>> /\ (digits[1] = 0 => Len(digits) = 1)
      /\ Len(digits) + 2 <= TargetLength /\ TargetLength \in Nat
      /\ Decimals \in Nat /\ Decimals + 3 <= TargetLength
  BY Zenon DEF IsAmount
<1>2. PICK n \in Nat \ {0} : n = Len(digits)
  BY <1>1, LenProperties, EmptySeq
<1>3. PICK p : p = Pointed(digits)
  OBVIOUS
<1>4. RoomNeeded(digits) \in 0..TargetLength
  <2>1. CASE digits = <<0>>
    <3>1. RoomNeeded(digits) = 2
      BY <2>1, Zenon DEF RoomNeeded
    <3> QED BY <1>1, <3>1
  <2>2. CASE digits # <<0>>
    <3>1. RoomNeeded(digits) =
            IF n <= Decimals THEN n + 1 + 2 + (Decimals - n) ELSE n + 1 + 1
      BY <1>2, <2>2, Zenon DEF RoomNeeded
    <3> QED BY <1>1, <1>2, <3>1
  <2> QED BY <2>1, <2>2
<1>5. CASE digits = <<0>> \/ Decimals = 0
  <2>1. PICK k : /\ ReadsAs(p.text, Cut(p.text, p.start), digits, digits, Zeros(Decimals), k)
                 /\ Len(p.text) = Len(digits)
    BY <1>1, <1>3, <1>5, PlainReads, Zenon
  <2>2. Len(p.text) \in 1..(TargetLength - 1)
    BY <1>1, <1>2, <2>1
  <2> QED BY <1>3, <1>4, <2>1, <2>2, Zenon
<1>6. CASE digits # <<0>> /\ Decimals # 0
  <2>1. digits[1] # 0
    <3>1. ASSUME digits[1] = 0 PROVE FALSE
      <4>1. Len(digits) = 1
        BY <1>1, <3>1, Zenon
      <4>2. digits = <<0>>
        BY <1>1, <3>1, <4>1
      <4> QED BY <1>6, <4>2
    <3> QED BY <3>1
  <2>2. PICK I, F : PointedAs(p, digits, I, F)
    <3>1. CASE n <= Decimals
      BY <1>1, <1>2, <1>3, <1>6, <2>1, <3>1, PointedBelow, Zenon
    <3>2. CASE ~(n <= Decimals)
      <4>1. Len(digits) > Decimals /\ Decimals \in Nat \ {0}
        BY <1>1, <1>2, <1>6, <3>2
      <4> QED BY <1>1, <1>3, <1>6, <2>1, <4>1, PointedAbove, Zenon
    <3> QED BY <3>1, <3>2
  <2>3. PICK k : /\ ReadsAs(p.text, Cut(p.text, p.start), digits, I, F, k)
                 /\ Len(p.text) = Len(I) + 1 + Decimals
                 /\ Len(I) = 1 \/ Len(I) + Decimals = Len(digits)
    BY <1>1, <2>2, PointedReads, Zenon
  <2>4. Len(p.text) \in 1..(TargetLength - 1)
    <3>1. I \in Seq(Digit) /\ Len(I) \in Nat /\ Len(I) > 0
      BY <2>3, LenProperties DEF ReadsAs
    <3>2. /\ Len(p.text) = Len(I) + 1 + Decimals
          /\ Len(I) = 1 \/ Len(I) + Decimals = Len(digits)
      BY <2>3, Zenon
    <3>3. /\ n + 2 <= TargetLength /\ TargetLength \in Nat
          /\ Decimals \in Nat /\ Decimals + 3 <= TargetLength
      BY <1>1, <1>2, Zenon
    <3>4. PICK m \in Nat : m = Len(I)
      BY <3>1
    <3>5. PICK L : L = Len(p.text)
      OBVIOUS
    <3>6. /\ L = m + 1 + Decimals /\ (m = 1 \/ m + Decimals = n)
      BY <1>2, <3>2, <3>4, <3>5, Zenon
    <3>7. L \in 1..(TargetLength - 1)
      BY <3>3, <3>6
    <3> QED BY <3>5, <3>7
  <2> QED BY <1>3, <1>4, <2>3, <2>4, Zenon
<1> QED BY <1>5, <1>6

(* The decimals on show, and the zeros that were cut, are the decimals.     *)
LEMMA FractionWhole ==
  ASSUME NEW I \in Seq(Digit), NEW F \in Seq(Digit), NEW k, CutAt(I, F, k),
         NEW fraction \in Seq(Digit), Len(fraction) = k,
         \A i \in 1..k : fraction[i] = F[i]
  PROVE  fraction \o Zeros(Len(F) - k) = F
<1>1. PICK D \in Nat : D = Len(F)
  BY LenProperties
<1>2. k \in 0..D /\ \A j \in (k + 1)..D : F[j] = 0
  BY <1>1, Zenon DEF CutAt
<1>3. PICK n \in Nat : n = D - k /\ D = k + n
  <2>1. D - k \in Nat /\ D = k + (D - k)
    BY <1>2
  <2> QED BY <2>1
<1>4. PICK Z \in Seq(Digit) : Z = Zeros(n) /\ Len(Z) = n /\ \A i \in 1..n : Z[i] = 0
  BY ZerosAre
<1>5. Len(F) = Len(fraction) + Len(Z)
  BY <1>1, <1>3, <1>4
<1>6. \A i \in 1..Len(fraction) : F[i] = fraction[i]
  OBVIOUS
<1>7. \A i \in 1..Len(Z) : F[Len(fraction) + i] = Z[i]
  <2> TAKE i \in 1..Len(Z)
  <2>1. i \in 1..n /\ k + i \in (k + 1)..D
    BY <1>2, <1>3, <1>4
  <2>2. F[k + i] = 0 /\ Z[i] = 0
    BY <1>2, <1>4, <2>1, Zenon
  <2> QED BY <2>2
<1>8. fraction \o Z = F
  BY <1>5, <1>6, <1>7, Rejoin
<1> QED BY <1>1, <1>3, <1>4, <1>8, Zenon

(* Such a reading denotes the amount.                                       *)
LEMMA ReadDenotes ==
  ASSUME NEW text, NEW cut, NEW digits \in Seq(Digit), NEW I, NEW F, NEW k,
         Decimals \in Nat,
         ReadsAs(text, cut, digits, I, F, k)
  PROVE  Denotes(SubSeq(text, 1, cut), digits)
<1>1. /\ text \in Seq(Figure) /\ cut \in 1..Len(text)
      /\ I \in Seq(Digit) /\ F \in Seq(Digit) /\ Len(I) > 0 /\ Len(F) = Decimals
      /\ CutAt(I, F, k) /\ Len(I) \in Nat /\ Len(text) \in Nat
  BY LenProperties DEF ReadsAs
<1>2. /\ cut = IF k = 0 THEN Len(I) ELSE Len(I) + 1 + k
      /\ \A i \in 1..Len(I) : text[i] = I[i]
      /\ k > 0 => /\ text[Len(I) + 1] = Dot
                  /\ \A i \in 1..k : text[Len(I) + 1 + i] = F[i]
  BY Zenon DEF ReadsAs
<1>3. /\ Len(I) > 1 => I[1] # 0
      /\ Len(digits) <= Len(I) + Len(F)
      /\ I \o F = Zeros(Len(I) + Len(F) - Len(digits)) \o digits
  BY Zenon DEF ReadsAs
<1>4. k \in 0..Decimals /\ (k > 0 => F[k] # 0)
  BY <1>1, Zenon DEF CutAt
<1>5. PICK m \in Nat \ {0} : m = Len(I)
  BY <1>1
<1>6. PICK shown : shown = SubSeq(text, 1, cut)
  OBVIOUS
<1>7. /\ shown \in Seq(Figure) /\ Len(shown) = cut
      /\ \A i \in 1..cut : shown[i] = text[i]
  BY <1>1, <1>6
<1>8. cut \in m..(m + 1 + k) /\ (k = 0 => cut = m) /\ (k > 0 => cut = m + 1 + k)
  BY <1>2, <1>4, <1>5
<1>9. PICK fraction : fraction = SubSeq(shown, m + 2, Len(shown))
  OBVIOUS
<1>10. /\ fraction \in Seq(Digit) /\ Len(fraction) = k
       /\ \A i \in 1..k : fraction[i] = F[i]
  <2>1. CASE k = 0
    <3>1. fraction = <<>>
      BY <1>7, <1>8, <1>9, <2>1
    <3> QED BY <2>1, <3>1
  <2>2. CASE k # 0
    <3>1. m + 1 \in Nat /\ m + 1 <= Len(shown) /\ Len(shown) = m + 1 + k
      BY <1>4, <1>7, <1>8, <2>2
    <3>2. /\ fraction \in Seq(Figure) /\ Len(fraction) = k
          /\ \A i \in 1..k : fraction[i] = shown[m + 1 + i]
      <4>1. /\ SubSeq(shown, (m + 1) + 1, Len(shown)) \in Seq(Figure)
            /\ Len(SubSeq(shown, (m + 1) + 1, Len(shown))) = Len(shown) - (m + 1)
            /\ \A i \in 1..(Len(shown) - (m + 1)) :
                 SubSeq(shown, (m + 1) + 1, Len(shown))[i] = shown[(m + 1) + i]
        BY <1>7, <3>1, Halves
      <4>2. (m + 1) + 1 = m + 2 /\ Len(shown) - (m + 1) = k
        BY <1>4, <3>1
      <4> QED BY <1>9, <4>1, <4>2, Zenon
    <3>3. \A i \in 1..k : fraction[i] = F[i]
      <4> TAKE i \in 1..k
      <4>1. m + 1 + i \in 1..cut /\ k > 0
        BY <1>4, <1>8, <2>2
      <4>2. text[m + 1 + i] = F[i]
        BY <1>2, <1>5, <4>1, Zenon
      <4> QED BY <1>7, <3>2, <4>1, <4>2, Zenon
    <3>4. fraction \in Seq(Digit)
      <4>1. \A i \in 1..k : F[i] \in Digit
        BY <1>1, <1>4, ElementOfSeq
      <4> QED BY <3>2, <3>3, <4>1, SeqDef
    <3> QED BY <3>2, <3>3, <3>4
  <2> QED BY <2>1, <2>2
<1>11. SubSeq(shown, 1, m) = I
  <2>1. PICK J \in Seq(Figure) :
          J = SubSeq(shown, 1, m) /\ Len(J) = m /\ \A i \in 1..m : J[i] = shown[i]
    <3>1. m \in Nat /\ m <= Len(shown) /\ shown \in Seq(Figure)
      BY <1>4, <1>7, <1>8
    <3>2. /\ SubSeq(shown, 1, m) \in Seq(Figure) /\ Len(SubSeq(shown, 1, m)) = m
          /\ \A i \in 1..m : SubSeq(shown, 1, m)[i] = shown[i]
      BY <3>1, Halves
    <3> QED BY <3>2, Zenon
  <2>2. \A i \in 1..m : i \in 1..cut
    BY <1>4, <1>8
  <2>3. \A i \in 1..m : J[i] = I[i]
    BY <1>2, <1>5, <1>7, <2>1, <2>2, Zenon
  <2>4. I \in Seq(Figure)
    BY <1>1, FiguresAre
  <2>5. Len(J) = Len(I) /\ \A i \in 1..Len(J) : J[i] = I[i]
    BY <1>5, <2>1, <2>3, Zenon
  <2>6. J = I
    BY <2>4, <2>5, SeqEqual
  <2> QED BY <2>1, <2>6, Zenon
<1>12. I \o fraction \o Zeros(Decimals - k) = I \o F
  <2>1. PICK Z \in Seq(Digit) : Z = Zeros(Decimals - k)
    <3>1. Decimals - k \in Nat
      BY <1>4
    <3> QED BY <3>1, ZerosAre
  <2>2. fraction \o Z = F
    BY <1>1, <1>10, <2>1, FractionWhole
  <2>3. (I \o fraction) \o Z = I \o (fraction \o Z)
    <3>1. I \in Seq(Digit) /\ fraction \in Seq(Digit)
      BY <1>1, <1>10, Zenon
    <3> QED BY <3>1, Regroup
  <2> QED BY <2>1, <2>2, <2>3, Zenon
<1>13. Len(I \o F) = Len(I) + Len(F)
  BY <1>1, Joined
<1>14. PICK padded : padded = I \o fraction \o Zeros(Decimals - k)
  OBVIOUS
<1>15. /\ Len(padded) = Len(I) + Len(F)
       /\ padded = Zeros(Len(padded) - Len(digits)) \o digits
  <2>1. padded = I \o F
    BY <1>12, <1>14, Zenon
  <2>2. Len(padded) = Len(I) + Len(F)
    BY <1>13, <2>1, Zenon
  <2>3. PICK lead : lead = Len(I) + Len(F) - Len(digits)
    OBVIOUS
  <2>4. I \o F = Zeros(lead) \o digits
    BY <1>3, <2>3, Zenon
  <2>5. Len(padded) - Len(digits) = lead
    BY <2>2, <2>3
  <2>6. padded = Zeros(Len(padded) - Len(digits)) \o digits
    <3>1. padded = Zeros(lead) \o digits
      BY <2>1, <2>4, Zenon
    <3>2. Zeros(Len(padded) - Len(digits)) = Zeros(lead)
      BY <2>5, Zenon
    <3> HIDE <2>1, <2>4
    <3> QED BY <3>1, <3>2
  <2> QED BY <2>2, <2>6, Zenon
<1>16. Len(padded) - Len(digits) >= 0
  <2>1. Len(digits) \in Nat /\ Len(padded) \in Nat /\ Len(digits) <= Len(padded)
    <3>1. Len(digits) \in Nat /\ Len(I) \in Nat /\ Len(F) \in Nat
      BY <1>1, LenProperties
    <3> QED BY <1>3, <1>15, <3>1
  <2> QED BY <2>1
<1>17. /\ m \in 1..Len(shown)
       /\ m < Len(shown) => shown[m + 1] = Dot /\ fraction # <<>>
       /\ m > 1 => shown[1] # 0
       /\ fraction # <<>> => fraction[Len(fraction)] # 0
  <2>1. m \in 1..Len(shown) /\ 1 \in 1..m /\ 1 \in 1..cut
    BY <1>7, <1>8, <1>4
  <2>2. m < Len(shown) => shown[m + 1] = Dot /\ fraction # <<>>
    <3> SUFFICES ASSUME m < Len(shown) PROVE shown[m + 1] = Dot /\ fraction # <<>>
      OBVIOUS
    <3>1. k > 0 /\ m + 1 \in 1..cut
      BY <1>4, <1>7, <1>8
    <3>2. shown[m + 1] = Dot
      BY <1>2, <1>5, <1>7, <3>1, Zenon
    <3>3. fraction # <<>>
      BY <1>10, <3>1, EmptySeq
    <3> QED BY <3>2, <3>3
  <2>3. m > 1 => shown[1] # 0
    BY <1>2, <1>3, <1>5, <1>7, <2>1, Zenon
  <2>4. fraction # <<>> => fraction[Len(fraction)] # 0
    <3> SUFFICES ASSUME fraction # <<>> PROVE fraction[Len(fraction)] # 0
      OBVIOUS
    <3>1. k > 0 /\ k \in 1..k
      <4>1. k # 0
        BY <1>10, EmptySeq
      <4> QED BY <1>4, <4>1
    <3> QED BY <1>4, <1>10, <3>1, Zenon
  <2> QED BY <2>1, <2>2, <2>3, <2>4
<1>18. SubSeq(shown, 1, m) \o fraction \o Zeros(Decimals - Len(fraction)) = padded
  BY <1>10, <1>11, <1>14, Zenon
<1>19. Len(fraction) <= Decimals
  BY <1>4, <1>10
<1>20. Denotes(shown, digits)
  BY <1>9, <1>15, <1>16, <1>17, <1>18, <1>19, Zenon DEF Denotes
<1> QED BY <1>6, <1>20
-----------------------------------------------------------------------------
(* The buffer as the last call left it: the text, terminated where it is    *)
(* cut and at its end.                                                      *)
Holds(text, cut) ==
  \A i \in 0..Len(text) :
    target[i] = IF i \in Terminators(text, cut) THEN Nul ELSE text[i + 1]

(* The inductive invariant: the buffer holds the text of the amount last    *)
(* printed with its terminators, whatever stood there before.               *)
AmountInv ==
  /\ buffer \in Buffers
  /\ DOMAIN target = 0..(TargetLength - 1)
  /\ src # <<>> =>
       LET p == Pointed(src) IN
       /\ src \in buffer.amounts
       /\ written = Len(p.text) + 1
       /\ Holds(p.text, Cut(p.text, p.start))

(* A screen shows the buffer up to its first terminator: just the text up   *)
(* to where it was cut.                                                     *)
LEMMA ScreenShows ==
  ASSUME NEW text \in Seq(Figure), NEW cut \in 1..Len(text),
         TargetLength \in Nat, DOMAIN target = 0..(TargetLength - 1),
         Len(text) \in 1..(TargetLength - 1), Holds(text, cut)
  PROVE  Terminated /\ Shown = SubSeq(text, 1, cut)
<1>1. PICK L \in Nat : L = Len(text) /\ L < TargetLength /\ cut \in 1..L
  BY LenProperties
<1>2. PICK D : D = DOMAIN target /\ D = 0..(TargetLength - 1)
  OBVIOUS
<1>3. /\ \A i \in 0..(cut - 1) : target[i] = text[i + 1] /\ text[i + 1] # Nul
      /\ target[cut] = Nul /\ cut \in D
  <2>1. \A i \in 0..L :
          target[i] = IF i \in Terminators(text, cut) THEN Nul ELSE text[i + 1]
    BY <1>1, Zenon DEF Holds
  <2>2. \A i \in 1..L : text[i] # Nul
    <3>1. \A i \in 1..L : text[i] \in Figure
      BY <1>1, ElementOfSeq
    <3>2. \A c \in Figure : c # Nul
      BY DEF Figure, Digit, Dot, Nul
    <3> QED BY <3>1, <3>2, Zenon
  <2>3. \A i \in 0..(cut - 1) :
          i \in 0..L /\ i \notin Terminators(text, cut) /\ i + 1 \in 1..L
    <3>1. \A i \in Terminators(text, cut) : i \in {cut, L, cut + 1}
      BY <1>1, Zenon DEF Terminators
    <3>2. \A i \in 0..(cut - 1) : i \in 0..L /\ i \notin {cut, L, cut + 1} /\ i + 1 \in 1..L
      BY <1>1
    <3> QED BY <3>1, <3>2, Zenon
  <2>4. cut \in 0..L /\ cut \in Terminators(text, cut) /\ cut \in D
    <3>1. cut \in Terminators(text, cut)
      BY Zenon DEF Terminators
    <3> QED BY <1>1, <1>2, <3>1
  <2>5. target[cut] = Nul
    BY <2>1, <2>4, Zenon
  <2>6. \A i \in 0..(cut - 1) : target[i] = text[i + 1] /\ text[i + 1] # Nul
    BY <2>1, <2>2, <2>3, Zenon
  <2> QED BY <2>4, <2>5, <2>6
<1>4. Terminated
  BY <1>2, <1>3, Zenon DEF Terminated
<1>5. ShownLength = cut
  <2> DEFINE first(n) == target[n] = Nul /\ \A i \in 0..(n - 1) : target[i] # Nul
  <2>1. first(cut)
    BY <1>3, Zenon
  <2>2. \A n \in D : first(n) => n = cut
    <3> TAKE n \in D
    <3> HAVE first(n)
    <3>1. n \in Nat /\ cut \in Nat
      BY <1>2
    <3>2. ASSUME n < cut PROVE FALSE
      <4>1. n \in 0..(cut - 1)
        BY <3>1, <3>2
      <4> QED BY <1>3, <4>1, Zenon
    <3>3. ASSUME cut < n PROVE FALSE
      <4>1. cut \in 0..(n - 1)
        BY <3>1, <3>3
      <4> QED BY <1>3, <4>1, Zenon
    <3> QED BY <3>1, <3>2, <3>3
  <2> HIDE DEF first
  <2>3. (CHOOSE n \in D : first(n)) = cut
    BY <1>3, <2>1, <2>2, Zenon
  <2>4. (CHOOSE n \in DOMAIN target : first(n)) = cut
    BY <1>2, <2>3, Zenon
  <2> QED BY <2>4 DEF ShownLength, first
<1>6. PICK s \in Seq(Figure) :
        s = SubSeq(text, 1, cut) /\ Len(s) = cut /\ \A i \in 1..cut : s[i] = text[i]
  <2>1. cut \in Nat /\ cut <= Len(text)
    BY <1>1
  <2>2. /\ SubSeq(text, 1, cut) \in Seq(Figure) /\ Len(SubSeq(text, 1, cut)) = cut
        /\ \A i \in 1..cut : SubSeq(text, 1, cut)[i] = text[i]
    BY <2>1, Halves
  <2> QED BY <2>2, Zenon
<1>7. Shown = s
  <2>1. \A i \in 1..cut : s[i] = target[i - 1]
    <3> TAKE i \in 1..cut
    <3>1. i - 1 \in 0..(cut - 1) /\ (i - 1) + 1 = i
      OBVIOUS
    <3> QED BY <1>3, <1>6, <3>1
  <2>2. Shown = [i \in 1..cut |-> target[i - 1]]
    BY <1>5, Zenon DEF Shown
  <2>3. s = [i \in 1..cut |-> s[i]]
    BY <1>6
  <2>4. [i \in 1..cut |-> s[i]] = [i \in 1..cut |-> target[i - 1]]
    BY <2>1
  <2> QED BY <2>2, <2>3, <2>4, Zenon
<1> QED BY <1>4, <1>6, <1>7, Zenon

(* The room that AmountAssumption grants.                                   *)
LEMMA AmountsAllowed ==
  ASSUME buffer \in Buffers
  PROVE  /\ TargetLength \in Nat
         /\ \A digits \in buffer.amounts : IsAmount(digits)
BY AmountAssumption DEF IsAmount, TargetLength, Decimals

(* What the invariant says of the screen.                                   *)
LEMMA InvShows == AmountInv => ShowsAmount /\ FillsAtMost
<1> SUFFICES ASSUME AmountInv, src # <<>>
             PROVE  (Terminated /\ Denotes(Shown, src)) /\ written \in 1..TargetLength
  BY DEF ShowsAmount, FillsAtMost
<1>1. PICK p : p = Pointed(src)
  OBVIOUS
<1>2. /\ buffer \in Buffers /\ DOMAIN target = 0..(TargetLength - 1)
      /\ src \in buffer.amounts /\ written = Len(p.text) + 1
      /\ Holds(p.text, Cut(p.text, p.start))
  BY <1>1, Zenon DEF AmountInv
<1>3. IsAmount(src) /\ TargetLength \in Nat
  BY <1>2, AmountsAllowed, Zenon
<1>4. /\ \E I, F, k : ReadsAs(p.text, Cut(p.text, p.start), src, I, F, k)
      /\ Len(p.text) \in 1..(TargetLength - 1)
  BY <1>1, <1>3, Printed, Zenon
<1>5. PICK I, F, k : ReadsAs(p.text, Cut(p.text, p.start), src, I, F, k)
  BY <1>4
<1>6. p.text \in Seq(Figure) /\ Cut(p.text, p.start) \in 1..Len(p.text)
  BY <1>5, Zenon DEF ReadsAs
<1>7. Terminated /\ Shown = SubSeq(p.text, 1, Cut(p.text, p.start))
  BY <1>2, <1>3, <1>4, <1>6, ScreenShows, Zenon
<1>8. Denotes(SubSeq(p.text, 1, Cut(p.text, p.start)), src)
  <2>1. Decimals \in Nat /\ src \in Seq(Digit)
    BY <1>3, Zenon DEF IsAmount
  <2> QED BY <1>5, <2>1, ReadDenotes, Zenon
<1>9. written \in 1..TargetLength
  BY <1>2, <1>3, <1>4
<1> QED BY <1>7, <1>8, <1>9, Zenon

(* Before the first amount nothing is asked of the buffer.                  *)
LEMMA AmountInvInit == AmountInit => AmountInv
<1> SUFFICES ASSUME AmountInit PROVE AmountInv
  OBVIOUS
<1>1. buffer \in Buffers /\ src = <<>>
  BY DEF AmountInit
<1>2. DOMAIN target = 0..(TargetLength - 1)
  BY DEF AmountInit
<1> QED BY <1>1, <1>2, Zenon DEF AmountInv

(* Another amount is printed over the last; nothing else writes.            *)
LEMMA AmountInvNext == AmountInv /\ [AmountNext]_amountVars => AmountInv'
<1> SUFFICES ASSUME AmountInv, [AmountNext]_amountVars PROVE AmountInv'
  OBVIOUS
<1>1. CASE UNCHANGED amountVars
  <2>1. /\ buffer' = buffer /\ src' = src /\ target' = target /\ written' = written
    BY <1>1 DEF amountVars
  <2> QED BY <2>1 DEF AmountInv, Holds, TargetLength, Pointed, Decimals
<1>2. CASE rlpParseInt
  <2>1. buffer' = buffer
    BY <1>2 DEF rlpParseInt
  <2>2. PICK digits \in buffer.amounts :
          /\ src' = digits
          /\ IF TargetLength < RoomNeeded(digits)
               THEN written' = 0 /\ UNCHANGED target
               ELSE LET p == Pointed(digits) IN
                    /\ target' = Write(p.text, Cut(p.text, p.start))
                    /\ written' = Len(p.text) + 1
    BY <1>2, Zenon DEF rlpParseInt
  <2>3. buffer \in Buffers /\ DOMAIN target = 0..(TargetLength - 1)
    BY Zenon DEF AmountInv
  <2>4. IsAmount(digits) /\ TargetLength \in Nat
    BY <2>3, AmountsAllowed
  <2>5. PICK p : p = Pointed(digits)
    OBVIOUS
  <2>6. /\ Len(p.text) \in 1..(TargetLength - 1)
        /\ RoomNeeded(digits) \in 0..TargetLength
        /\ p.text \in Seq(Figure)
    <3>1. /\ \E I, F, k : ReadsAs(p.text, Cut(p.text, p.start), digits, I, F, k)
          /\ Len(p.text) \in 1..(TargetLength - 1)
          /\ RoomNeeded(digits) \in 0..TargetLength
      BY <2>4, <2>5, Printed, Zenon
    <3> QED BY <3>1, Zenon DEF ReadsAs
  <2>7. target' = Write(p.text, Cut(p.text, p.start)) /\ written' = Len(p.text) + 1
    <3>1. ~(TargetLength < RoomNeeded(digits))
      BY <2>4, <2>6
    <3> QED BY <2>2, <2>5, <3>1, Zenon
  <2>8. PICK c : c = Cut(p.text, p.start)
    OBVIOUS
  <2>9. PICK L : L = Len(p.text)
    OBVIOUS
  <2> DEFINE stops == Terminators(p.text, c)
  <2>18. L \in stops
    BY <2>9, Zenon DEF Terminators
  <2> HIDE DEF stops
  <2>10. target' = [i \in 0..(TargetLength - 1) |->
                      IF i \in stops THEN Nul
                      ELSE IF i < L THEN p.text[i + 1] ELSE target[i]]
    BY <2>3, <2>7, <2>8, <2>9, Zenon DEF Write, stops
  <2>11. DOMAIN target' = 0..(TargetLength - 1)
    BY <2>10
  <2>12. \A i \in 0..L : target'[i] = IF i \in stops THEN Nul ELSE p.text[i + 1]
    <3> TAKE i \in 0..L
    <3>1. i \in 0..(TargetLength - 1) /\ (i < L \/ i \in stops)
      BY <2>4, <2>6, <2>9, <2>18
    <3>2. target'[i] = IF i \in stops THEN Nul
                       ELSE IF i < L THEN p.text[i + 1] ELSE target[i]
      BY <2>10, <3>1, Zenon
    <3> QED BY <3>1, <3>2, Zenon
  <2>13. TargetLength' = TargetLength /\ Decimals' = Decimals
    BY <2>1 DEF TargetLength, Decimals
  <2>14. Pointed(src)' = p
    BY <2>2, <2>5, <2>13 DEF Pointed
  <2>15. Holds(p.text, Cut(p.text, p.start))'
    BY <2>8, <2>9, <2>12, Zenon DEF Holds, stops
  <2>16. src' \in buffer'.amounts /\ written' = Len(p.text) + 1 /\ buffer' \in Buffers
    BY <2>1, <2>2, <2>3, <2>7, Zenon
  <2>17. DOMAIN target' = 0..(TargetLength' - 1)
    BY <2>11, <2>13, Zenon
  <2> QED BY <2>14, <2>15, <2>16, <2>17, Zenon DEF AmountInv
<1>3. CASE Rest
  BY <1>1, <1>3 DEF Rest
<1> QED BY <1>1, <1>2, <1>3 DEF AmountNext

(* However many amounts of whatever length are printed one over the other,  *)
(* the buffer holds the last one's text (utils.c:255-317).                  *)
THEOREM AmountInvariant == AmountSpec => []AmountInv
<1>1. AmountInit => AmountInv
  BY AmountInvInit
<1>2. AmountInv /\ [AmountNext]_amountVars => AmountInv'
  BY AmountInvNext
<1> QED BY <1>1, <1>2, PTL DEF AmountSpec

(* Whatever amounts are displayed one after the other, the user reads each  *)
(* of them as the transaction has it, to the last decimal (utils.c:255-317, *)
(* 319-335).                                                                *)
THEOREM AmountShown == AmountSpec => []ShowsAmount
<1>1. AmountInv => ShowsAmount
  BY InvShows
<1> QED BY <1>1, AmountInvariant, PTL

(* No amount is longer than its buffer, and none is left out for length:    *)
(* rlpParseInt need not look at what adjustDecimals returns (utils.c:333).  *)
THEOREM AmountFits == AmountSpec => []FillsAtMost
<1>1. AmountInv => FillsAtMost
  BY InvShows
<1> QED BY <1>1, AmountInvariant, PTL
=============================================================================
