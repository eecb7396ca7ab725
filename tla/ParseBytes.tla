------------------------------ MODULE ParseBytes ------------------------------
(***************************************************************************)
(* The first block of a transaction as bytes: handleSign reads the header,  *)
(* parseTx the list head and then, a step each, the fields.  ParseTx gives  *)
(* the same in terms of layouts; this module reads the heads themselves and *)
(* checks that it comes to the same.                                        *)
(*                                                                         *)
(* A head that announces more than four bytes of length (bc to bf, fc to    *)
(* ff) ends the model: for it rlpCanDecode asks for more bytes than buffer  *)
(* has room for, and what that overwrites is not defined.                   *)
(***************************************************************************)
EXTENDS ParseTx, Sequences

CONSTANTS
  TxBytes,       \* the encoding of each transaction
  Commands,      \* what the host sends as first blocks
  NetworkIdMax,  \* NETWORK_ID_MAX_LENGTH, 32
  PayloadMax,    \* characters that the payload's buffer takes: 79
  NoText         \* a display buffer that was not overwritten

ByteValue == 0..255

(* A header, size bytes of the transaction, and what the APDU buffer holds  *)
(* behind them: some bytes again and again, or if none are given the rest   *)
(* of the transaction, left over from an earlier command.                   *)
CommandType ==
  [tx : Transactions, header : Seq(ByteValue), size : BlockSizes,
   declared : Nat, behind : Seq(ByteValue)]

ASSUME BytesAssumption ==
  /\ TxBytes \in [Transactions -> Seq(ByteValue)]
  /\ \A t \in Transactions : Len(TxBytes[t]) = Layout[t].len
  /\ Commands \subseteq CommandType
  /\ NetworkIdMax \in Nat
  /\ PayloadMax \in Nat /\ 55 <= PayloadMax
  /\ NoText \notin [from : Int, length : Nat]

(* The number that at most four bytes are, the first of them the highest.   *)
BigEndian(bytes) ==
  LET byte(i) == IF i < Len(bytes) THEN bytes[Len(bytes) - i] ELSE 0
  IN byte(0) + 256 * byte(1) + 65536 * byte(2) + 16777216 * byte(3)

(* A first block holds the list head and at least the type, behind a header *)
(* of account number, declared length and network id; all of it is at most  *)
(* 255 bytes long.                                                          *)
ASSUME CommandsAssumption ==
  /\ 255 < Mod16
  /\ \A c \in Commands :
       /\ Layout[c.tx].header < c.size /\ c.size <= Layout[c.tx].len
       /\ Len(c.header) + c.size <= 255
       /\ Len(c.header) >= 9 /\ c.header[9] <= NetworkIdMax
       /\ Len(c.header) = 9 + c.header[9]
       /\ BigEndian([i \in 1..4 |-> c.header[4 + i]]) = c.declared

(* The layouts are those of the encodings.  A head is one byte, or as many  *)
(* more as the length has; integers that are not refused, and addresses,    *)
(* are short enough for one.  Payloads have no zero bytes, up to which they *)
(* would be displayed.                                                      *)
LengthBytes(t, head, body) ==
  [i \in 1..(body - head - 1) |-> TxBytes[t][head + 1 + i]]

HeadEncoded(t, item) ==
  LET first == TxBytes[t][item.head + 1]
      more == item.body - item.head - 1
  IN IF item.body = item.end /\ item.length = 1
       THEN more = 0 /\ first <= 127
       ELSE \/ more = 0 /\ first = 128 + item.length /\ first <= 183
            \/ /\ more \in 1..3 /\ first = 183 + more
               /\ BigEndian(LengthBytes(t, item.head, item.body)) = item.length

ListEncoded(t, size) ==
  LET first == TxBytes[t][1] IN
  (size = 1 /\ first \in 192..247) \/ (size \in 2..4 /\ first = 246 + size)

ContentRefused(t, f) ==
  LET item == Layout[t].items[f] IN
  \/ f \in AddressFields /\ TxBytes[t][item.body + 1] \notin {1, 2}
  \/ f \in {"amount", "fee"} /\ item.length > 32

ASSUME EncodingAssumption ==
  \A t \in Transactions :
    /\ ListEncoded(t, Layout[t].header)
    /\ Layout[t].kind = "spend" <=> TxBytes[t][Layout[t].header + 1] = 12
    /\ Layout[t].kind = "spend" =>
         LET items == Layout[t].items
             bad == Layout[t].bad
         IN
         /\ \A f, g \in Fields :
              Position[g] = Position[f] + 1 => items[g].head = items[f].end
         /\ \A f \in Fields :
              /\ HeadEncoded(t, items[f])
              /\ f \notin {bad, "payload"} => items[f].body = items[f].head + 1
         /\ bad # "none" => ContentRefused(t, bad)
         /\ \A f \in Fields :
              ContentRefused(t, f) => bad # "none" /\ ~Before(f, bad)
         /\ \A k \in items["payload"].head..(items["payload"].end - 1) :
              TxBytes[t][k + 1] # 0

VARIABLES
  command,
  data, dataLength,  \* read position in the buffer; bytes left
  head,              \* the head decoded there, Undecoded before that
  remain,            \* remainTransactionLength
  type,              \* the field to be read
  transactionType,
  shown,             \* where the text of each display buffer was read
  pc

vars ==
  <<command, data, dataLength, head, remain, type, transactionType, shown, pc>>

(* The byte at an offset of the APDU buffer.                                *)
Start == Len(command.header)
At(k) ==
  LET o == k - Start
      inside == o < command.size
      leftOver == command.behind = <<>> /\ o < Layout[command.tx].len
  IN IF o < 0 THEN command.header[k + 1]
     ELSE IF inside \/ leftOver THEN TxBytes[command.tx][o + 1]
     ELSE IF command.behind = <<>> THEN 0
     ELSE command.behind[1 + ((o - command.size) % Len(command.behind))]

ReadBE(k, n) == BigEndian([i \in 1..n |-> At(k + i - 1)])

-----------------------------------------------------------------------------
(* rlpCanDecode and rlpDecodeLength of the head at data: the bytes taken    *)
(* for it, the offset and the length that it gives, and if it is a list's.  *)
Short(b, base, list) ==
  [bytes |-> 1, offset |-> 1, length |-> b - base, list |-> list]
Long(b, base, list) ==
  [bytes |-> 1 + b - base, offset |-> 1 + b - base,
   length |-> ReadBE(data + 1, b - base), list |-> list]

Undecoded == [bytes |-> 0, offset |-> 0, length |-> 0, list |-> FALSE]

HeadOf(b) ==
  CASE b <= 127 -> [bytes |-> 1, offset |-> 0, length |-> 1, list |-> FALSE]
    [] 127 < b /\ b <= 183 -> Short(b, 128, FALSE)
    [] 183 < b /\ b <= 191 -> Long(b, 183, FALSE)
    [] 191 < b /\ b <= 247 -> Short(b, 192, TRUE)
    [] 247 < b -> Long(b, 247, TRUE)

After == data + head.bytes
Left == (dataLength - head.bytes) % Mod16

(* Where a text begins: behind a head of one byte, at a byte that is its    *)
(* own head, and beyond its beginning behind a longer head.                 *)
TextStart == IF head.offset # 0 THEN After + head.offset - 1 ELSE After - 1

(* Five bytes fill the buffer for the head.                                 *)
PreDecodeError == head.bytes = 5

Init ==
  /\ command \in Commands
  /\ data = 0 /\ dataLength = Len(command.header) + command.size /\ head = Undecoded
  /\ remain = 0 /\ type = "sender" /\ transactionType = "none"
  /\ shown = [f \in DisplayFields |-> NoText]
  /\ pc = "header"

Refuse ==
  /\ pc' = "refused"
  /\ UNCHANGED <<command, data, dataLength, head, type, shown>>

(* Account number, declared length, network id.                             *)
ReadHeader ==
  /\ pc = "header"
  /\ remain' = ReadBE(4, 4)
  /\ UNCHANGED transactionType
  /\ \E networkIdLength \in {At(8)} :
     IF networkIdLength > NetworkIdMax
       THEN Refuse
       ELSE /\ data' = 9 + networkIdLength
            /\ dataLength' = (dataLength - (9 + networkIdLength)) % Mod16
            /\ pc' = "list"
            /\ UNCHANGED <<command, head, type, shown>>

Overlong(b) == (187 < b /\ b <= 191) \/ 251 < b

Overrun ==
  /\ pc \in {"list", "field"} /\ head = Undecoded /\ Overlong(At(data))
  /\ pc' = "undefined"
  /\ UNCHANGED <<command, data, dataLength, head, remain, type, transactionType, shown>>

Decode ==
  /\ pc \in {"list", "field"} /\ head = Undecoded /\ ~Overlong(At(data))
  /\ head' = HeadOf(At(data))
  /\ UNCHANGED <<command, data, dataLength, remain, type, transactionType, shown, pc>>

(* The list head, then type and version of the transaction.                 *)
ListRefused ==
  PreDecodeError \/ (remain - head.bytes) % Mod32 < Left \/ ~head.list

ReadList ==
  /\ pc = "list" /\ head # Undecoded
  /\ UNCHANGED remain
  /\ IF ListRefused
       THEN Refuse /\ UNCHANGED transactionType
       ELSE /\ dataLength' = Left
            /\ data' = After + 2 /\ head' = Undecoded
            /\ transactionType' = IF At(After) = 12 THEN "spend" ELSE "other"
            /\ pc' = IF transactionType' = "spend" THEN "field" ELSE "done"
            /\ UNCHANGED <<command, type, shown>>

(* The announced length is compared with what is left, except for one byte. *)
(* Slip: a field may take all that is left.                                 *)
LengthInvalidSlack == head.length # 1 /\ Left < head.length
LengthInvalid == head.length # 1 /\ Left <= head.length

FieldRefused ==
  \/ LengthInvalid
  \/ head.length = 1 /\ PreDecodeError
  \/ type \in AddressFields /\ (At(After) \notin {1, 2} \/ head.length # 33)
  \/ type \in {"amount", "fee"} /\ head.length > 32

RefuseField ==
  /\ pc = "field" /\ head # Undecoded /\ FieldRefused
  /\ Refuse
  /\ UNCHANGED <<remain, transactionType>>

(* A field that is taken: text shown, and the next field read from there.   *)
Take(text, next) ==
  /\ pc = "field" /\ head # Undecoded /\ ~FieldRefused
  /\ shown' = IF type \in DisplayFields THEN [shown EXCEPT ![type] = text] ELSE shown
  /\ data' = next /\ head' = Undecoded
  /\ dataLength' = IF head.length # 1 THEN (Left - head.length) % Mod16 ELSE Left
  /\ IF type = "payload"
       THEN pc' = "done" /\ UNCHANGED type
       ELSE /\ UNCHANGED pc
            /\ type' = CHOOSE f \in Fields : Position[f] = Position[type] + 1
  /\ UNCHANGED <<command, remain, transactionType>>

ReadRecipient ==
  /\ type \in AddressFields
  /\ Take([from |-> After, length |-> 33], After + 33)

ParseInt ==
  /\ type \in {"amount", "fee"}
  /\ Take([from |-> TextStart, length |-> head.length], TextStart + head.length)

(* A byte that is its own head is passed already.                           *)
SkipInt ==
  /\ type \in {"ttl", "nonce"}
  /\ Take(NoText, IF head.offset # 0 THEN TextStart + head.length ELSE After)

(* Characters up to a zero byte, and no more than the buffer takes.         *)
Characters ==
  LET start == TextStart
      most == IF head.length < PayloadMax THEN head.length ELSE PayloadMax
  IN CHOOSE n \in 0..most :
       /\ n = most \/ At(start + n) = 0
       /\ \A i \in 0..(n - 1) : At(start + i) # 0

ReadPayload ==
  /\ type = "payload"
  /\ Take([from |-> TextStart, length |-> Characters], TextStart)

Parsed == pc \in {"done", "refused", "undefined"} /\ UNCHANGED vars

Next ==
  \/ ReadHeader \/ Decode \/ Overrun \/ ReadList \/ RefuseField
  \/ ReadRecipient \/ ParseInt \/ SkipInt \/ ReadPayload \/ Parsed

Spec == Init /\ [][Next]_vars
-----------------------------------------------------------------------------
(* Where a field's value is.                                                *)
ValueOf(f) ==
  LET item == Layout[command.tx].items[f] IN
  IF item.body = item.end /\ item.length = 1
    THEN [from |-> Start + item.head, length |-> 1]
    ELSE [from |-> Start + item.body, length |-> item.length]

(* Parsing the bytes comes to what ParseTx says of the layout, for each     *)
(* place where a block may end and whatever stands behind it: the same      *)
(* blocks are refused, the same buffers overwritten, and what is read into  *)
(* them is, where ParseTx calls it intact, just the field's bytes           *)
(* (utils.c:163-246, 347-432).                                              *)
ParsesLayout ==
  pc \in {"done", "refused"} =>
    LET c == command IN
    \E stray \in Strays(c.tx, c.size) :
      /\ pc = "done" <=> ParseOk(c.tx, c.size, c.declared, stray)
      /\ {f \in DisplayFields : shown[f] # NoText}
           = Decoded(c.tx, c.size, c.declared, stray)
      /\ \A f \in Decoded(c.tx, c.size, c.declared, stray) :
           Intact(c.tx, c.size, f) => shown[f] = ValueOf(f)
=============================================================================
