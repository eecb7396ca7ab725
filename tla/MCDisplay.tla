------------------------------ MODULE MCDisplay ------------------------------
(***************************************************************************)
(* What the screens of a transaction show of its bytes: an address, or      *)
(* amounts one after the other.  The two share nothing, so a behaviour is   *)
(* of one of them.                                                          *)
(***************************************************************************)
EXTENDS Base58, AmountText, SequencesExt

VARIABLE field  \* "recipient" or "amount"

-----------------------------------------------------------------------------
(* Keys to encode.  The division treats bytes by their size relative to 58, *)
(* and the leading zeros apart from all others: zero bytes, one byte, and a *)
(* fill behind it that may end in another.                                  *)
EdgeBytes == {0, 1, 57, 58, 116, 255}
Keys ==
  {[i \in Position |-> IF i < zeros THEN 0
                       ELSE IF i = zeros THEN first
                       ELSE IF i = Length - 1 THEN last ELSE fill] :
     zeros \in {0, 1, Length - 2, Length - 1, Length},
     first \in EdgeBytes \ {0}, fill \in {0, 57, 255}, last \in {0, 58, 255}}

-----------------------------------------------------------------------------
(* Every amount of few digits that are zero or not, with two decimals.      *)
ShortBuffer ==
  [decimals |-> 2, length |-> 9,
   amounts |-> {<<0>>} \cup {s \in BoundedSeq({0, 7}, 7) : s # <<>> /\ s[1] # 0}]

(* Amounts around one token and at the end of 256 bits, which have at most  *)
(* 78 digits: a first digit and up to two others that are not zero.         *)
Lengths == {1, 2, 17, 18, 19, 20, 77, 78}
NotZero(n) == {1, 2, n - 18, n - 17, n - 1, n} \cap 1..n
LongBuffer ==
  [decimals |-> 18, length |-> 80,
   amounts |->
     {<<0>>} \cup
     UNION {{[i \in 1..n |-> IF i \in {1, a, b} THEN 7 ELSE 0] :
               a \in NotZero(n), b \in NotZero(n)} : n \in Lengths}]

BothBuffers == {ShortBuffer, LongBuffer}

-----------------------------------------------------------------------------
Init ==
  /\ field \in {"recipient", "amount"}
  /\ EncodeInit /\ AmountInit
  /\ field = "recipient" => buffer = CHOOSE b \in Buffers : TRUE
  /\ field = "amount" => in = CHOOSE key \in Inputs : TRUE

Recipient == field = "recipient" /\ EncodeNext /\ UNCHANGED <<field, amountVars>>
Amount == field = "amount" /\ AmountNext /\ UNCHANGED <<field, encodeVars>>

Next == Recipient \/ Amount

Spec == Init /\ [][Next]_<<field, encodeVars, amountVars>>
=============================================================================
