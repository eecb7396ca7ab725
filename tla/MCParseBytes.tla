----------------------------- MODULE MCParseBytes -----------------------------
(***************************************************************************)
(* First blocks in bytes: the layouts of MCLayouts, encoded by the rules of *)
(* RLP.                                                                     *)
(***************************************************************************)
EXTENDS ParseBytes, MCLayouts

CONSTANT Leftovers  \* bound: what may stand behind a block

(* Byte i of a head of n bytes that announces a length.                     *)
HeadByte(i, n, length, base) ==
  IF n = 1 THEN base + length
  ELSE IF i = 1 THEN base + 54 + n
  ELSE (length \div 256 ^ (n - i)) % 256

(* The value of a field: an address is its kind and 32 bytes, 1 stands for  *)
(* an account, 5 for a contract.                                            *)
ValueByte(layout, f, i) ==
  IF f \in AddressFields /\ i = 1 THEN IF layout.bad = f THEN 5 ELSE 1
  ELSE 128 + (i % 64)

ItemByte(layout, f, item, k) ==
  IF item.body = item.end /\ item.length = 1 THEN 1
  ELSE IF k <= item.body
    THEN HeadByte(k - item.head, item.body - item.head, item.length, 128)
    ELSE ValueByte(layout, f, k - item.body)

FieldAt(layout, k) ==
  CHOOSE f \in Fields : layout.items[f].head < k /\ k <= layout.items[f].end

ByteOf(layout, k) ==
  IF k <= layout.header
    THEN HeadByte(k, layout.header, layout.len - layout.header, 192)
  ELSE IF k <= layout.header + 2 \/ layout.kind = "other"
    THEN IF k = layout.header + 1 /\ layout.kind = "spend" THEN 12 ELSE 1
  ELSE LET f == FieldAt(layout, k) IN ItemByte(layout, f, layout.items[f], k)

Encodings == [t \in Transactions |-> [k \in 1..Layout[t].len |-> ByteOf(Layout[t], k)]]

Sizes ==
  {3, 4, 5, 20, 60, 92, 240, 246} \cup 36..40 \cup 70..85 \cup 105..108 \cup 137..145
SomeLeftovers == {<<>>, <<0>>, <<1>>, <<161>>, <<1, 161>>, <<1, 184, 33>>, <<188>>}

(* The length, one less, and none, from which the length of the list head   *)
(* cannot be taken away.                                                    *)
Declared(t) == {Layout[t].len, Layout[t].len - 1, 0}

(* Account number, declared length, network id.                             *)
NetworkIds == {<<>>, [i \in 1..10 |-> 96 + i]}
HeaderOf(declared, networkId) ==
  <<0, 0, 0, 1>> \o <<0, 0, declared \div 256, declared % 256>>
  \o <<Len(networkId)>> \o networkId

(* No command carries more than 255 bytes of data.                          *)
FirstBlocks ==
  {c \in UNION
     {{[tx |-> t, header |-> HeaderOf(d, networkId), size |-> n,
        declared |-> d, behind |-> b] :
         n \in BlockSizes \cap (Layout[t].header + 1)..Layout[t].len,
         d \in Declared(t), networkId \in NetworkIds, b \in Leftovers} :
      t \in Transactions} :
   Len(c.header) + c.size <= 255}

-----------------------------------------------------------------------------
(* signTransaction.c:62-63: the screen titled "Payload" shows the payload.  *)
(* Of a payload of 56 or more bytes that the block holds all of it does not *)
(* show the beginning.                                                      *)
PayloadShown ==
  pc = "done" /\ command.size = Layout[command.tx].len =>
    shown["payload"].from = ValueOf("payload").from
=============================================================================
