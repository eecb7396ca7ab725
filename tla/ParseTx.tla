------------------------------- MODULE ParseTx -------------------------------
(***************************************************************************)
(* How the first block of a transaction is parsed for display: which fields *)
(* parseTx reaches, when it refuses, and what it leaves in the buffers the  *)
(* review screens show.                                                     *)
(*                                                                         *)
(* A transaction is abstracted to the layout of its RLP encoding: for each  *)
(* field, the offsets where its head and its body begin and where it ends,  *)
(* and the length its head announces.  Offsets are numbers of bytes before  *)
(* that place, so "end <= n" says that a block of n bytes holds the field.  *)
(***************************************************************************)
EXTENDS Integers, FiniteSets

CONSTANTS
  Transactions,  \* the transactions a host may stream
  Layout,        \* how each of them is laid out in bytes
  BlockSizes,    \* bytes of a transaction that a block may carry
  Mod16,         \* 2^16, the range of the uint16_t dataLength
  Mod32          \* 2^32, the range of the uint32_t remainLength

(* The fields of a spend transaction in the order of rlpTxType.             *)
Position ==
  [sender |-> 1, recipient |-> 2, amount |-> 3, fee |-> 4,
   ttl |-> 5, nonce |-> 6, payload |-> 7]

Fields == DOMAIN Position
Before(f, g) == Position[f] < Position[g]

AddressFields == {"sender", "recipient"}
DisplayFields == {"recipient", "amount", "fee", "payload"}

Item == [head : Nat, body : Nat, end : Nat, length : Nat]

(* "bad" is a field whose content readRecipient or rlpParseInt refuses: the *)
(* address of a contract or an oracle, an integer of more than 32 bytes.    *)
LayoutType ==
  [kind : {"spend", "other"}, header : Nat, len : Nat,
   bad : {"none", "sender", "recipient", "amount", "fee"},
   items : [Fields -> Item]]

ASSUME SizesAssumption ==
  /\ BlockSizes \subseteq Nat
  /\ Mod16 \in Nat /\ Mod32 \in Nat
  /\ 0 < Mod16 /\ Mod16 <= Mod32

(* A spend transaction is a list of type, version and the seven fields, one *)
(* after the other to its end.                                              *)
ASSUME LayoutAssumption ==
  /\ Layout \in [Transactions -> LayoutType]
  /\ \A t \in Transactions :
       Layout[t].header < Layout[t].len /\ Layout[t].len < Mod16
  /\ \A t \in Transactions : Layout[t].kind = "spend" =>
       LET items == Layout[t].items IN
       /\ items["sender"].head = Layout[t].header + 2
       /\ items["payload"].end = Layout[t].len
       /\ \A f \in Fields :
            /\ items[f].head < items[f].body
            /\ items[f].body <= items[f].end
            /\ IF items[f].body = items[f].end
                 THEN items[f].length \in {0, 1}
                 ELSE items[f].length = items[f].end - items[f].body
            /\ f \in AddressFields => items[f].length = 33
       /\ \A f, g \in Fields :
            Before(f, g) => items[f].end <= items[g].head

(* dataLength is reduced by neither the type and version bytes nor the byte *)
(* of a value that is one byte long behind a head of its own.               *)
Uncounted(t, f) ==
  2 + Cardinality({g \in Fields : /\ Before(g, f)
                                  /\ Layout[t].items[g].length = 1
                                  /\ Layout[t].items[g].body < Layout[t].items[g].end})

(* dataLength when the head of field f has been read: the bytes of an       *)
(* n-byte block behind that head, as a uint16_t.                            *)
DataLength(t, n, f) == (n - Layout[t].items[f].body + Uncounted(t, f)) % Mod16

HeadInside(t, n, f) == Layout[t].items[f].body <= n

(* Fields that lie behind the block are read from bytes left over there: 0  *)
(* if the first of them does not decode, else the last one that does.       *)
Strays(t, n) == {0} \cup {Position[f] : f \in {g \in Fields : ~HeadInside(t, n, g)}}

(* The check of the announced length, then the content of the field.  The   *)
(* length of a one-byte value is not checked, so a block may end inside a   *)
(* run of them; and where it ends before an address, a longer head left     *)
(* over there wraps dataLength around.                                      *)
Refused(t, n, f, stray) ==
  \/ /\ HeadInside(t, n, f)
     /\ Layout[t].items[f].length # 1
     /\ DataLength(t, n, f) <= Layout[t].items[f].length
  \/ HeadInside(t, n, f) /\ Layout[t].bad = f
  \/ ~HeadInside(t, n, f) /\ Position[f] > stray

(* The fields read before parsing ends, for each transaction, size of the   *)
(* first block, and stray bytes behind it.                                  *)
Reached ==
  [t \in Transactions |-> [n \in BlockSizes |->
     [stray \in {0} \cup {Position[f] : f \in Fields} |->
        LET refused == {g \in Fields : Refused(t, n, g, stray)} IN
        {f \in Fields : \A g \in refused : Before(f, g)}]]]

(* The block must not be longer than the host's declared length, which is   *)
(* compared without the bytes of the list head, as a uint32_t.              *)
LengthOk(t, n, declared) ==
  (declared - Layout[t].header) % Mod32 >= n - Layout[t].header

(* Only a spend transaction is parsed behind its type.                      *)
ParseOk(t, n, declared, stray) ==
  /\ LengthOk(t, n, declared)
  /\ Layout[t].kind = "spend" => Reached[t][n][stray] = Fields

(* The display fields that parseTx overwrites, refused or not.              *)
Decoded(t, n, declared, stray) ==
  IF Layout[t].kind = "spend" /\ LengthOk(t, n, declared)
    THEN Reached[t][n][stray] \cap DisplayFields
    ELSE {}

(* The text of a field is its value if the block holds all of it; the text  *)
(* of a payload with a longer head begins behind its first bytes.           *)
Intact(t, n, f) ==
  /\ Layout[t].items[f].end <= n
  /\ f = "payload" => Layout[t].items[f].body = Layout[t].items[f].head + 1
=============================================================================
