------------------------------ MODULE MCLayouts ------------------------------
(***************************************************************************)
(* Transactions for small instances, by their offsets in real encodings.    *)
(***************************************************************************)
EXTENDS ParseTx

It(head, body, end) ==
  [head |-> head, body |-> body, end |-> end, length |-> end - body]
Byte(at) == [head |-> at, body |-> at + 1, end |-> at + 1, length |-> 1]

(* Amount 0x.. of three bytes, fee of two, TTL and nonce of one byte.       *)
Spend(header, payload, bad) ==
  [kind |-> "spend", header |-> header, len |-> payload.end, bad |-> bad,
   items |-> [sender    |-> It(header + 2, header + 3, header + 36),
              recipient |-> It(header + 36, header + 37, header + 70),
              amount    |-> It(header + 70, header + 71, header + 74),
              fee       |-> It(header + 74, header + 75, header + 77),
              ttl       |-> Byte(header + 77),
              nonce     |-> Byte(header + 78),
              payload   |-> payload]]

(* Single bytes behind the addresses, one of them with a head of its own.   *)
SmallSpend ==
  [kind |-> "spend", header |-> 2, len |-> 83, bad |-> "none",
   items |-> [sender    |-> It(4, 5, 38),
              recipient |-> It(38, 39, 72),
              amount    |-> Byte(72),
              fee       |-> It(73, 74, 75),
              ttl       |-> Byte(75),
              nonce     |-> Byte(76),
              payload   |-> It(77, 78, 83)]]

(* Nothing but single bytes, the payload one too.                           *)
BytesSpend ==
  [SmallSpend EXCEPT !.len = 77,
     !.items = [@ EXCEPT !["fee"] = Byte(73), !["ttl"] = Byte(74),
                         !["nonce"] = Byte(75), !["payload"] = Byte(76)]]

(* Integers of 32 bytes, and of 33, which is refused.                       *)
WideSpend(amount, bad) ==
  LET at == 73 + amount IN
  [kind |-> "spend", header |-> 2, len |-> at + 39, bad |-> bad,
   items |-> [sender    |-> It(4, 5, 38),
              recipient |-> It(38, 39, 72),
              amount    |-> It(72, 73, at),
              fee       |-> It(at, at + 1, at + 33),
              ttl       |-> It(at + 33, at + 34, at + 34),
              nonce     |-> Byte(at + 34),
              payload   |-> It(at + 35, at + 36, at + 39)]]

PlainSpend == Spend(2, It(81, 82, 82), "none")
TextSpend == Spend(2, It(81, 83, 143), "none")
LongSpend == Spend(3, It(82, 84, 284), "none")
ContractSpend == Spend(2, It(81, 82, 92), "recipient")

NoItem == [head |-> 0, body |-> 0, end |-> 0, length |-> 0]
OtherTx ==
  [kind |-> "other", header |-> 3, len |-> 300, bad |-> "none",
   items |-> [f \in Fields |-> NoItem]]

AllLayouts ==
  [plain |-> PlainSpend, small |-> SmallSpend, bytes |-> BytesSpend,
   text |-> TextSpend, long |-> LongSpend,
   wide |-> WideSpend(32, "none"), huge |-> WideSpend(33, "amount"),
   contract |-> ContractSpend, other |-> OtherTx]
Layouts == [t \in Transactions |-> AllLayouts[t]]
=============================================================================
