--------------------------- MODULE ParseBytes_proofs ---------------------------
(***************************************************************************)
(* For every transaction, every place where its first block may end, every  *)
(* header and whatever stands behind the block: parsing the bytes comes to  *)
(* what ParseTx says of the layout.                                         *)
(***************************************************************************)
EXTENDS ParseBytes, FiniteSetTheorems, SequenceTheorems, WellFoundedInduction, TLAPS

(* The first block, and the place of a field in its transaction.            *)
Transaction == command.tx
Block == command.size
Place(f) == Layout[Transaction].items[f]
(* A byte up to 127 is its own head.                                        *)
IsOwnHead(f) == Place(f).body = Place(f).end /\ Place(f).length = 1

(* A head that was decoded, and a text in the buffer.                       *)
HeadType == [bytes : Nat \ {0}, offset : Nat, length : Nat, list : BOOLEAN]
TextType == [from : Int, length : Nat]

(* The types of what is read and shown; counters are bounded below.         *)
TypeOK ==
  /\ command \in Commands
  /\ data \in Nat
  /\ head \in HeadType \cup {Undecoded}
  /\ shown \in [DisplayFields -> TextType \cup {NoText}]
  /\ pc \in {"header", "list", "field", "done", "refused", "undefined"}

(* Nothing has been parsed for display.                                     *)
Untouched == type = "sender" /\ shown = [f \in DisplayFields |-> NoText]

(* Before the header is read (signTransaction.c:99-114).                   *)
AtHeader ==
  pc = "header" =>
    /\ Untouched /\ data = 0 /\ head = Undecoded
    /\ dataLength = Start + Block

(* The list head as the layout has it.                                      *)
ListHead == head.bytes = Layout[Transaction].header /\ head.list

(* At the list head, behind the header (utils.c:349-355).                   *)
AtList ==
  pc = "list" =>
    /\ Untouched /\ data = Start /\ dataLength = Block
    /\ remain = command.declared
    /\ head = Undecoded \/ ListHead

(* The head of a field as the layout has it.                                *)
HeadFor(f) ==
  [bytes |-> Place(f).body - Place(f).head,
   offset |-> IF IsOwnHead(f) THEN 0 ELSE Place(f).body - Place(f).head,
   length |-> Place(f).length, list |-> FALSE]

(* Where the next head is read, and how much is counted as left there: as   *)
(* the layout has it as long as all heads before were inside the block.     *)
InStep(f) ==
  /\ data = Start + Place(f).head
  /\ dataLength = Block - Place(f).head + Uncounted(Transaction, f)
  /\ dataLength \in 0..Block

(* A field whose head is in the block is not refused.                       *)
Passed(f) == HeadInside(Transaction, Block, f) => ~Refused(Transaction, Block, f, 0)

(* The fields before f were taken.                                          *)
Taken(f) ==
  /\ \A g \in Fields : Before(g, f) => Passed(g)
  /\ \A g \in DisplayFields : shown[g] # NoText <=> Before(g, f)
  /\ \A g \in DisplayFields :
       Before(g, f) /\ Intact(Transaction, Block, g) => shown[g] = ValueOf(g)

(* At the head of a field (utils.c:356-372): all before it are taken, and   *)
(* as long as their heads were in the block the parser stands where the     *)
(* layout says.                                                             *)
AtField ==
  pc = "field" =>
    /\ Layout[Transaction].kind = "spend"
    /\ LengthOk(Transaction, Block, command.declared)
    /\ type \in Fields
    /\ Taken(type)
    /\ (\A g \in Fields : Before(g, type) => HeadInside(Transaction, Block, g)) => InStep(type)
    /\ HeadInside(Transaction, Block, type) => head \in {Undecoded, HeadFor(type)}

(* The inductive invariant: whatever is read behind the block, the parser is *)
(* in step with the layout while the heads are in the block.                *)
ParsingInv == TypeOK /\ AtHeader /\ AtList /\ AtField /\ ParsesLayout
-----------------------------------------------------------------------------
(* A counter that stays below its modulus is not truncated.                 *)
LEMMA Modulo ==
  ASSUME NEW x \in Int, NEW m \in Nat, 0 <= x, x < m
  PROVE  x % m = x
OBVIOUS

(* The fields of a spend and their order.                                   *)
LEMMA FieldsAre ==
  /\ Fields = {"sender", "recipient", "amount", "fee", "ttl", "nonce", "payload"}
  /\ \A f \in Fields : Position[f] \in 1..7
  /\ \A f, g \in Fields : Position[f] = Position[g] => f = g
  /\ \A f \in Fields : f # "payload" =>
       \E g \in Fields : Position[g] = Position[f] + 1
  /\ "sender" \in Fields /\ Position["sender"] = 1
  /\ "payload" \in Fields /\ Position["payload"] = 7
  /\ DisplayFields \subseteq Fields /\ AddressFields \subseteq Fields
BY DEF Fields, Position, DisplayFields, AddressFields

(* The field that is read next.                                             *)
LEMMA NextField ==
  ASSUME NEW f \in Fields, f # "payload"
  PROVE  \E g \in Fields :
           /\ g = CHOOSE h \in Fields : Position[h] = Position[f] + 1
           /\ Position[g] = Position[f] + 1
           /\ \A h \in Fields : Before(h, g) <=> Before(h, f) \/ h = f
<1>1. PICK g : g = CHOOSE h \in Fields : Position[h] = Position[f] + 1
  OBVIOUS
<1>2. \E h \in Fields : Position[h] = Position[f] + 1
  BY FieldsAre
<1>3. g \in Fields /\ Position[g] = Position[f] + 1
  BY <1>1, <1>2
<1>4. \A h \in Fields : Before(h, g) <=> Before(h, f) \/ h = f
  BY <1>3, FieldsAre DEF Before
<1> QED BY <1>1, <1>3, <1>4

(* The items of a layout lie one behind the other.                          *)
LEMMA Items ==
  ASSUME NEW t \in Transactions, Layout[t].kind = "spend", NEW f \in Fields
  PROVE  LET item == Layout[t].items[f] IN
         /\ item \in Item
         /\ Layout[t].header + 2 <= item.head /\ item.head < item.body
         /\ item.body <= item.end /\ item.end <= Layout[t].len
         /\ IF item.body = item.end
              THEN item.length \in {0, 1} ELSE item.length = item.end - item.body
         /\ f \in AddressFields => item.length = 33
         /\ \A g \in Fields : Before(f, g) => item.end <= Layout[t].items[g].head
<1>1. Layout[t] \in LayoutType
  BY LayoutAssumption
<1>2. Layout[t].items \in [Fields -> Item] /\ Layout[t].header \in Nat /\ Layout[t].len \in Nat
  BY <1>1 DEF LayoutType
<1>3. \A g \in Fields : Layout[t].items[g] \in Item
  BY <1>2
<1>4. \A g \in Fields : Position[g] = 1 \/ Before("sender", g)
  BY FieldsAre DEF Before
<1>5. \A g \in Fields : Position[g] = 7 \/ Before(g, "payload")
  BY FieldsAre DEF Before
<1>6. /\ Layout[t].items["sender"].head = Layout[t].header + 2
      /\ Layout[t].items["payload"].end = Layout[t].len
      /\ \A g \in Fields :
           /\ Layout[t].items[g].head < Layout[t].items[g].body
           /\ Layout[t].items[g].body <= Layout[t].items[g].end
           /\ IF Layout[t].items[g].body = Layout[t].items[g].end
                THEN Layout[t].items[g].length \in {0, 1}
                ELSE Layout[t].items[g].length = Layout[t].items[g].end - Layout[t].items[g].body
           /\ g \in AddressFields => Layout[t].items[g].length = 33
      /\ \A g, h \in Fields :
           Before(g, h) => Layout[t].items[g].end <= Layout[t].items[h].head
  BY LayoutAssumption, Zenon
<1>7. Layout[t].header + 2 <= Layout[t].items[f].head
  <2>1. CASE f = "sender" BY <1>6, <2>1, <1>2
  <2>2. CASE Before("sender", f)
    BY <1>6, <2>2, <1>2, <1>3, FieldsAre DEF Item
  <2> QED BY <2>1, <2>2, <1>4, FieldsAre
<1>8. Layout[t].items[f].end <= Layout[t].len
  <2>1. CASE f = "payload" BY <1>6, <2>1, <1>2
  <2>2. CASE Before(f, "payload")
    BY <1>6, <2>2, <1>2, <1>3, FieldsAre DEF Item
  <2> QED BY <2>1, <2>2, <1>5, FieldsAre
<1> QED BY <1>3, <1>6, <1>7, <1>8

(* The bytes that are not counted grow by one with each byte that stands    *)
(* behind a head of its own.                                                *)
UncountedIn(t, f) ==
  {g \in Fields : /\ Before(g, f)
                  /\ Layout[t].items[g].length = 1
                  /\ Layout[t].items[g].body < Layout[t].items[g].end}

(* Two bytes, type and version, are not counted at the sender.              *)
LEMMA UncountedFirst ==
  ASSUME NEW t PROVE Uncounted(t, "sender") = 2
<1>1. \A g \in Fields : ~Before(g, "sender")
  BY FieldsAre DEF Before
<1>2. {g \in Fields : /\ Before(g, "sender")
                      /\ Layout[t].items[g].length = 1
                      /\ Layout[t].items[g].body < Layout[t].items[g].end} = {}
  BY <1>1
<1> QED BY <1>2, FS_EmptySet DEF Uncounted

(* Each field is one of seven.                                              *)
LEMMA FieldsFinite == IsFiniteSet(Fields)
<1>1. IsFiniteSet({"sender"} \cup {"recipient"})
  BY FS_Singleton, FS_AddElement
<1>2. IsFiniteSet({"sender"} \cup {"recipient"} \cup {"amount"})
  BY <1>1, FS_AddElement
<1>3. IsFiniteSet({"sender"} \cup {"recipient"} \cup {"amount"} \cup {"fee"})
  BY <1>2, FS_AddElement
<1>4. IsFiniteSet({"ttl"} \cup {"nonce"} \cup {"payload"})
  BY FS_Singleton, FS_AddElement
<1>5. Fields = ({"sender"} \cup {"recipient"} \cup {"amount"} \cup {"fee"})
                 \cup ({"ttl"} \cup {"nonce"} \cup {"payload"})
  BY FieldsAre
<1> QED BY <1>3, <1>4, <1>5, FS_Union

(* A field of one byte behind a head adds one to what is not counted.       *)
LEMMA UncountedNext ==
  ASSUME NEW t \in Transactions, NEW f \in Fields, NEW g \in Fields,
         \A h \in Fields : Before(h, g) <=> Before(h, f) \/ h = f
  PROVE  /\ Uncounted(t, f) \in Nat
         /\ Uncounted(t, g) =
              IF /\ Layout[t].items[f].length = 1
                 /\ Layout[t].items[f].body < Layout[t].items[f].end
                THEN Uncounted(t, f) + 1 ELSE Uncounted(t, f)
<1> DEFINE Byte(h) == /\ Layout[t].items[h].length = 1
                      /\ Layout[t].items[h].body < Layout[t].items[h].end
<1>1. UncountedIn(t, f) \subseteq Fields /\ f \notin UncountedIn(t, f)
  BY FieldsAre DEF UncountedIn, Before
<1>2. IsFiniteSet(UncountedIn(t, f))
  BY <1>1, FieldsFinite, FS_Subset
<1>3. UncountedIn(t, g) = IF Byte(f) THEN UncountedIn(t, f) \cup {f} ELSE UncountedIn(t, f)
  BY DEF UncountedIn
<1>4. /\ Cardinality(UncountedIn(t, f)) \in Nat
      /\ Cardinality(UncountedIn(t, f) \cup {f}) = Cardinality(UncountedIn(t, f)) + 1
  BY <1>1, <1>2, FS_CardinalityType, FS_AddElement
<1>5. Uncounted(t, f) = 2 + Cardinality(UncountedIn(t, f)) /\ Uncounted(t, g) = 2 + Cardinality(UncountedIn(t, g))
  BY DEF Uncounted, UncountedIn
<1> QED BY <1>3, <1>4, <1>5
-----------------------------------------------------------------------------
(* What a command is, in numbers.                                           *)
LEMMA CommandFacts ==
  ASSUME command \in Commands
  PROVE  /\ Transaction \in Transactions
         /\ command.header \in Seq(ByteValue) /\ command.behind \in Seq(ByteValue)
         /\ Start \in Nat /\ Block \in Nat /\ Block \in BlockSizes
         /\ command.declared \in Nat
         /\ Layout[Transaction].header \in Nat /\ Layout[Transaction].len \in Nat
         /\ Layout[Transaction].header < Block /\ Block <= Layout[Transaction].len
         /\ Start + Block <= 255 /\ 255 < Mod16 /\ Mod16 \in Nat /\ Mod32 \in Nat /\ Mod16 <= Mod32
         /\ TxBytes[Transaction] \in Seq(ByteValue)
         /\ Len(TxBytes[Transaction]) = Layout[Transaction].len
<1>1. command \in CommandType
  BY BytesAssumption
<1>2. /\ command.tx \in Transactions /\ command.header \in Seq(ByteValue)
      /\ command.size \in BlockSizes /\ command.declared \in Nat
      /\ command.behind \in Seq(ByteValue)
  BY <1>1 DEF CommandType
<1>3. Len(command.header) \in Nat
  BY <1>2
<1>4. command.size \in Nat /\ Mod16 \in Nat /\ Mod32 \in Nat /\ Mod16 <= Mod32
  BY <1>2, SizesAssumption
<1>5. Layout[command.tx] \in LayoutType
  BY <1>2, LayoutAssumption
<1>6. Layout[command.tx].header \in Nat /\ Layout[command.tx].len \in Nat
  BY <1>5 DEF LayoutType
<1>7. /\ Layout[command.tx].header < command.size /\ command.size <= Layout[command.tx].len
      /\ Len(command.header) + command.size <= 255 /\ 255 < Mod16
  BY CommandsAssumption, Zenon
<1>8. TxBytes[command.tx] \in Seq(ByteValue) /\ Len(TxBytes[command.tx]) = Layout[command.tx].len
  BY <1>2, BytesAssumption
<1> QED BY <1>2, <1>3, <1>4, <1>6, <1>7, <1>8 DEF Transaction, Block, Start

(* The bytes of the block, of the header, and whatever is read behind them. *)
LEMMA InsideIs ==
  ASSUME command \in Commands, NEW k \in Nat, k < Block
  PROVE  At(Start + k) = TxBytes[Transaction][k + 1]
<1>1. Start \in Nat /\ Block \in Nat
  BY CommandFacts
<1>2. Start + k - Start = k /\ ~(k < 0)
  BY <1>1
<1> QED BY <1>2, <1>1 DEF At, Block, Transaction

(* In front of the block there is the header.                               *)
LEMMA HeaderIs ==
  ASSUME command \in Commands, NEW k \in Nat, k < Start
  PROVE  At(k) = command.header[k + 1]
<1>1. Start \in Nat
  BY CommandFacts
<1> QED BY <1>1 DEF At

(* Whatever is read is a byte.                                              *)
LEMMA ByteIs ==
  ASSUME command \in Commands, NEW k \in Nat
  PROVE  At(k) \in ByteValue
<1>1. /\ Start \in Nat /\ Block \in Nat
      /\ Layout[Transaction].len \in Nat /\ Block <= Layout[Transaction].len
      /\ TxBytes[Transaction] \in Seq(ByteValue)
      /\ Len(TxBytes[Transaction]) = Layout[Transaction].len
      /\ command.header \in Seq(ByteValue) /\ command.behind \in Seq(ByteValue)
  BY CommandFacts
<1>2. CASE k < Start
  <2>1. k + 1 \in 1..Len(command.header)
    BY <1>1, <1>2 DEF Start
  <2> QED BY <2>1, <1>1, <1>2, HeaderIs
<1>3. CASE ~(k < Start)
  <2>1. PICK o \in Nat : o = k - Start
    BY <1>1, <1>3
  <2>2. CASE o < Layout[Transaction].len /\ (o < Block \/ command.behind = <<>>)
    <3>1. o + 1 \in 1..Len(TxBytes[Transaction])
      BY <1>1, <2>2
    <3>2. TxBytes[Transaction][o + 1] \in ByteValue
      BY <3>1, <1>1
    <3> QED BY <2>1, <2>2, <3>2, <1>3 DEF At, Transaction, Block
  <2>3. CASE command.behind = <<>> /\ ~(o < Layout[Transaction].len)
    <3>1. ~(o < Block)
      BY <2>3, <1>1
    <3> QED BY <2>1, <2>3, <3>1, <1>3 DEF At, Transaction, Block, ByteValue
  <2>4. CASE command.behind # <<>> /\ ~(o < Block)
    <3>1. PICK m \in Nat \ {0} : m = Len(command.behind)
      BY <2>4, <1>1
    <3>2. PICK d \in Nat : d = o - Block
      BY <2>4, <1>1, <2>1
    <3>3. 1 + (d % m) \in 1..m
      BY <3>1, <3>2
    <3>4. command.behind[1 + (d % m)] \in ByteValue
      BY <3>1, <3>3, <1>1
    <3> QED BY <2>1, <2>4, <3>1, <3>2, <3>4, <1>3 DEF At, Transaction, Block
  <2> QED BY <2>2, <2>3, <2>4, <1>1
<1> QED BY <1>2, <1>3

(* Up to four bytes are a number.                                           *)
LEMMA BigEndianIs ==
  ASSUME NEW n \in 0..4, NEW b \in [1..n -> ByteValue]
  PROVE  BigEndian(b) \in Nat
<1>1. Len(b) = n
  <2>1. b \in Seq(ByteValue) /\ DOMAIN b = 1..n
    BY SeqDef
  <2>2. Len(b) \in Nat /\ 1..Len(b) = 1..n
    BY <2>1, LenProperties
  <2> QED BY <2>2
<1> DEFINE byte(i) == IF i < Len(b) THEN b[Len(b) - i] ELSE 0
<1>2. \A i \in 0..3 : byte(i) \in Nat
  <2> TAKE i \in 0..3
  <2>1. CASE i < Len(b)
    <3>1. Len(b) - i \in 1..n
      BY <1>1, <2>1
    <3>2. b[Len(b) - i] \in ByteValue
      BY <3>1
    <3>3. ByteValue \subseteq Nat
      BY DEF ByteValue
    <3> QED BY <2>1, <3>2, <3>3
  <2>2. CASE ~(i < Len(b))
    BY <2>2
  <2> QED BY <2>1, <2>2
<1>3. BigEndian(b) = byte(0) + 256 * byte(1) + 65536 * byte(2) + 16777216 * byte(3)
  BY DEF BigEndian
<1>4. byte(0) \in Nat /\ byte(1) \in Nat /\ byte(2) \in Nat /\ byte(3) \in Nat
  BY <1>2
<1> HIDE DEF byte
<1> QED BY <1>3, <1>4

(* So are those of the buffer.                                              *)
LEMMA ReadBEIs ==
  ASSUME command \in Commands, NEW k \in Nat, NEW n \in 0..4
  PROVE  ReadBE(k, n) \in Nat
<1>1. \A i \in 1..n : At(k + i - 1) \in ByteValue
  BY ByteIs
<1>2. [i \in 1..n |-> At(k + i - 1)] \in [1..n -> ByteValue]
  BY <1>1
<1> QED BY <1>2, BigEndianIs DEF ReadBE

(* What the heads are, by their first byte.                                 *)
LEMMA HeadCases ==
  ASSUME NEW b \in ByteValue
  PROVE  /\ b <= 127 =>
              HeadOf(b) = [bytes |-> 1, offset |-> 0, length |-> 1, list |-> FALSE]
         /\ 127 < b /\ b <= 183 =>
              HeadOf(b) = [bytes |-> 1, offset |-> 1, length |-> b - 128, list |-> FALSE]
         /\ 183 < b /\ b <= 191 =>
              HeadOf(b) = [bytes |-> 1 + b - 183, offset |-> 1 + b - 183,
                           length |-> ReadBE(data + 1, b - 183), list |-> FALSE]
         /\ 191 < b /\ b <= 247 =>
              HeadOf(b) = [bytes |-> 1, offset |-> 1, length |-> b - 192, list |-> TRUE]
         /\ 247 < b =>
              HeadOf(b) = [bytes |-> 1 + b - 247, offset |-> 1 + b - 247,
                           length |-> ReadBE(data + 1, b - 247), list |-> TRUE]
BY DEF HeadOf, Short, Long, ByteValue

(* The head of a list of 56 or more bytes (utils.c:173-175, 207-214).       *)
LEMMA LongListHead ==
  ASSUME NEW b \in ByteValue, 247 < b
  PROVE  /\ HeadOf(b) = [bytes |-> 1 + b - 247, offset |-> 1 + b - 247,
                         length |-> ReadBE(data + 1, b - 247), list |-> TRUE]
         /\ HeadOf(b).bytes = 1 + b - 247
         /\ HeadOf(b).list
<1>1. HeadOf(b) = [bytes |-> 1 + b - 247, offset |-> 1 + b - 247,
                   length |-> ReadBE(data + 1, b - 247), list |-> TRUE]
  BY HeadCases
<1>2. HeadOf(b).bytes = 1 + b - 247
  BY <1>1
<1>3. HeadOf(b).list
  BY <1>1
<1> QED BY <1>1, <1>2, <1>3

(* What a head decodes to.                                                  *)
LEMMA HeadOfIs ==
  ASSUME command \in Commands, data \in Nat, NEW b \in ByteValue, ~Overlong(b)
  PROVE  HeadOf(b) \in HeadType
<1>1. b \in Nat /\ b <= 255
  BY DEF ByteValue
<1>2. CASE b <= 127
  <2>1. [bytes |-> 1, offset |-> 0, length |-> 1, list |-> FALSE] \in HeadType
    BY DEF HeadType
  <2> QED BY <1>2, <2>1, HeadCases
<1>3. CASE 127 < b /\ b <= 183
  <2>1. b - 128 \in Nat
    BY <1>1, <1>3
  <2>2. [bytes |-> 1, offset |-> 1, length |-> b - 128, list |-> FALSE] \in HeadType
    BY <2>1 DEF HeadType
  <2> QED BY <1>3, <2>2, HeadCases
<1>4. CASE 183 < b /\ b <= 191
  <2>1. b - 183 \in 1..4 /\ 1 + b - 183 \in Nat \ {0}
    BY <1>1, <1>4 DEF Overlong
  <2>2. ReadBE(data + 1, b - 183) \in Nat
    BY <2>1, ReadBEIs
  <2>3. [bytes |-> 1 + b - 183, offset |-> 1 + b - 183,
         length |-> ReadBE(data + 1, b - 183), list |-> FALSE] \in HeadType
    BY <2>1, <2>2 DEF HeadType
  <2>4. HeadOf(b) = [bytes |-> 1 + b - 183, offset |-> 1 + b - 183,
                     length |-> ReadBE(data + 1, b - 183), list |-> FALSE]
    BY <1>4, HeadCases
  <2> QED BY <2>3, <2>4
<1>5. CASE 191 < b /\ b <= 247
  <2>1. b - 192 \in Nat
    BY <1>1, <1>5
  <2>2. [bytes |-> 1, offset |-> 1, length |-> b - 192, list |-> TRUE] \in HeadType
    BY <2>1 DEF HeadType
  <2> QED BY <1>5, <2>2, HeadCases
<1>6. CASE 247 < b
  <2>1. b - 247 \in 1..4 /\ 1 + b - 247 \in Nat \ {0}
    BY <1>1, <1>6 DEF Overlong
  <2>2. ReadBE(data + 1, b - 247) \in Nat
    BY <2>1, ReadBEIs
  <2>3. [bytes |-> 1 + b - 247, offset |-> 1 + b - 247,
         length |-> ReadBE(data + 1, b - 247), list |-> TRUE] \in HeadType
    BY <2>1, <2>2 DEF HeadType
  <2> QED BY <1>6, <2>3, HeadCases
<1> QED BY <1>1, <1>2, <1>3, <1>4, <1>5, <1>6

-----------------------------------------------------------------------------
(* The encoding of the list head and of a field in a block.                 *)
LEMMA ListRead ==
  ASSUME command \in Commands, data = Start, data \in Nat
  PROVE  /\ ~Overlong(At(data))
         /\ HeadOf(At(data)).bytes = Layout[Transaction].header
         /\ HeadOf(At(data)).list
<1>1. PICK b : b = At(data)
  OBVIOUS
<1>2. /\ Transaction \in Transactions /\ Start \in Nat /\ Block \in Nat
      /\ Layout[Transaction].header \in Nat /\ Layout[Transaction].header < Block
  BY CommandFacts
<1>3. At(Start + 0) = TxBytes[Transaction][0 + 1]
  BY <1>2, InsideIs
<1>4. b = TxBytes[Transaction][1]
  BY <1>1, <1>2, <1>3
<1>5. b \in ByteValue
  BY <1>1, ByteIs
<1>6. ListEncoded(Transaction, Layout[Transaction].header)
  BY <1>2, EncodingAssumption, Zenon
<1>7. PICK size \in Nat : size = Layout[Transaction].header
  BY <1>2
<1>8. \/ size = 1 /\ 191 < b /\ b <= 247
      \/ size \in 2..4 /\ 247 < b /\ b = 246 + size
  BY <1>4, <1>5, <1>6, <1>7 DEF ListEncoded, ByteValue
<1>9. ~Overlong(b)
  BY <1>5, <1>8 DEF Overlong, ByteValue
<1>10. CASE size = 1 /\ 191 < b /\ b <= 247
  <2>1. HeadOf(b) = [bytes |-> 1, offset |-> 1, length |-> b - 192, list |-> TRUE]
    BY <1>5, <1>10, HeadCases
  <2>2. HeadOf(b).bytes = size
    BY <1>10, <2>1
  <2>3. HeadOf(b).list
    BY <2>1
  <2> QED BY <1>1, <1>7, <1>9, <2>2, <2>3, Zenon
<1>11. CASE size \in 2..4 /\ 247 < b /\ b = 246 + size
  <2>1. 1 + b - 247 = size
    BY <1>11
  <2>2. HeadOf(b).bytes = 1 + b - 247 /\ HeadOf(b).list
    BY <1>5, <1>11, LongListHead
  <2>3. HeadOf(b).bytes = size
    BY <2>1, <2>2
  <2> QED BY <1>1, <1>7, <1>9, <2>2, <2>3, Zenon
<1> QED BY <1>8, <1>10, <1>11

(* A head in the block decodes to what the layout has (utils.c:163-215).    *)
LEMMA FieldRead ==
  ASSUME command \in Commands, data \in Nat, Layout[Transaction].kind = "spend",
         NEW f \in Fields, HeadInside(Transaction, Block, f),
         data = Start + Place(f).head
  PROVE  ~Overlong(At(data)) /\ HeadOf(At(data)) = HeadFor(f)
<1>1. PICK b : b = At(data)
  OBVIOUS
<1>2. /\ Transaction \in Transactions /\ Start \in Nat /\ Block \in Nat
  BY CommandFacts
<1>3. /\ Place(f) \in Item /\ Place(f).head < Place(f).body
      /\ Place(f).body <= Place(f).end
      /\ IF Place(f).body = Place(f).end
           THEN Place(f).length \in {0, 1} ELSE Place(f).length = Place(f).end - Place(f).body
  BY <1>2, Items DEF Place
<1>4. PICK h \in Nat, n \in Nat, l \in Nat :
        h = Place(f).head /\ n = Place(f).body - Place(f).head - 1 /\ l = Place(f).length
  BY <1>3 DEF Item
<1>5. h + n + 1 = Place(f).body /\ h + n + 1 <= Block
  BY <1>3, <1>4 DEF HeadInside, Place, Item
<1>6. At(Start + h) = TxBytes[Transaction][h + 1]
  BY <1>2, <1>4, <1>5, InsideIs
<1>7. b = TxBytes[Transaction][h + 1] /\ b \in ByteValue
  BY <1>1, <1>4, <1>6, ByteIs
<1>8. HeadEncoded(Transaction, Place(f))
  BY <1>2, EncodingAssumption DEF Place
<1>9. IF IsOwnHead(f)
        THEN n = 0 /\ b <= 127
        ELSE \/ n = 0 /\ b = 128 + l /\ b <= 183
             \/ /\ n \in 1..3 /\ b = 183 + n
                /\ BigEndian(LengthBytes(Transaction, Place(f).head, Place(f).body)) = l
  BY <1>4, <1>7, <1>8 DEF HeadEncoded, IsOwnHead
<1>10. ReadBE(data + 1, n) = BigEndian(LengthBytes(Transaction, Place(f).head, Place(f).body))
  <2>1. \A i \in 1..n : At(data + 1 + i - 1) = TxBytes[Transaction][h + 1 + i]
    <3> TAKE i \in 1..n
    <3>1. At(Start + (h + i)) = TxBytes[Transaction][h + i + 1]
      <4>1. h + i \in Nat /\ h + i < Block
        BY <1>2, <1>5
      <4> QED BY <4>1, InsideIs
    <3>2. data = Start + h
      BY <1>4
    <3>3. data + 1 + i - 1 = Start + (h + i) /\ h + i + 1 = h + 1 + i
      BY <1>2, <3>2
    <3> QED BY <3>1, <3>3
  <2>2. [i \in 1..n |-> At(data + 1 + i - 1)] = [i \in 1..n |-> TxBytes[Transaction][h + 1 + i]]
    BY <2>1
  <2> QED BY <2>2, <1>4 DEF ReadBE, LengthBytes
<1>11. Place(f).body - Place(f).head = n + 1
  BY <1>3, <1>4 DEF Item
<1>12. CASE IsOwnHead(f)
  <2>1. b <= 127 /\ ~Overlong(b) /\ n = 0 /\ l = 1
    BY <1>4, <1>7, <1>9, <1>12 DEF Overlong, ByteValue, IsOwnHead
  <2>2. HeadOf(b) = [bytes |-> 1, offset |-> 0, length |-> 1, list |-> FALSE]
    BY <1>7, <2>1, HeadCases
  <2>3. HeadFor(f) = [bytes |-> n + 1, offset |-> 0, length |-> l, list |-> FALSE]
    BY <1>4, <1>11, <1>12 DEF HeadFor
  <2>4. HeadFor(f) = HeadOf(b)
    BY <2>1, <2>2, <2>3
  <2> QED BY <1>1, <2>1, <2>4
<1>13. CASE ~IsOwnHead(f) /\ n = 0
  <2>1. 127 < b /\ b <= 183 /\ ~Overlong(b) /\ b - 128 = l
    BY <1>4, <1>7, <1>9, <1>13 DEF Overlong, ByteValue
  <2>2. HeadOf(b) = [bytes |-> 1, offset |-> 1, length |-> b - 128, list |-> FALSE]
    BY <1>7, <2>1, HeadCases
  <2>3. HeadFor(f) = [bytes |-> n + 1, offset |-> n + 1, length |-> l, list |-> FALSE]
    BY <1>4, <1>11, <1>13 DEF HeadFor
  <2>4. HeadFor(f) = HeadOf(b)
    <3>1. n + 1 = 1
      BY <1>13
    <3> QED BY <2>1, <2>2, <2>3, <3>1
  <2>5. ~Overlong(b)
    BY <2>1
  <2> QED BY <1>1, <2>4, <2>5, Zenon
<1>14. CASE ~IsOwnHead(f) /\ n # 0
  <2>1. 183 < b /\ b <= 191 /\ ~Overlong(b) /\ b - 183 = n /\ 1 + b - 183 = n + 1
    BY <1>4, <1>7, <1>9, <1>14 DEF Overlong, ByteValue
  <2>2. HeadOf(b) = [bytes |-> 1 + b - 183, offset |-> 1 + b - 183,
                     length |-> ReadBE(data + 1, b - 183), list |-> FALSE]
    BY <1>7, <2>1, HeadCases, Zenon
  <2>3. ReadBE(data + 1, n) = l
    BY <1>9, <1>10, <1>14
  <2>4. HeadFor(f) = [bytes |-> n + 1, offset |-> n + 1, length |-> l, list |-> FALSE]
    BY <1>4, <1>11, <1>14 DEF HeadFor
  <2>5. HeadFor(f) = HeadOf(b)
    BY <2>1, <2>2, <2>3, <2>4
  <2> QED BY <1>1, <2>1, <2>5
<1> QED BY <1>12, <1>13, <1>14

-----------------------------------------------------------------------------
(* Bytes that are not counted are counted from zero.                        *)
LEMMA UncountedIs ==
  ASSUME NEW t \in Transactions, NEW f \in Fields
  PROVE  Uncounted(t, f) \in Nat
<1>1. UncountedIn(t, f) \subseteq Fields
  BY DEF UncountedIn
<1>2. Cardinality(UncountedIn(t, f)) \in Nat
  BY <1>1, FieldsFinite, FS_Subset, FS_CardinalityType
<1> QED BY <1>2 DEF Uncounted, UncountedIn

(* The addresses come first, before any field of one byte.                  *)
LEMMA AddressUncounted ==
  ASSUME NEW t \in Transactions, Layout[t].kind = "spend", NEW f \in AddressFields
  PROVE  Uncounted(t, f) = 2
<1>1. Layout[t].items["sender"].length = 33
  BY Items, FieldsAre DEF AddressFields
<1>2. Position["recipient"] = 2 /\ "recipient" \in Fields
  BY FieldsAre DEF Position
<1>3. \A h \in Fields : Before(h, "recipient") <=> Before(h, "sender") \/ h = "sender"
  BY <1>2, FieldsAre DEF Before
<1>4. Uncounted(t, "recipient") = Uncounted(t, "sender")
  BY <1>1, <1>2, <1>3, UncountedNext, FieldsAre
<1> QED BY <1>4, UncountedFirst DEF AddressFields

(* Fields before one whose head is in the block are in it too.              *)
LEMMA InsideBefore ==
  ASSUME command \in Commands, Layout[Transaction].kind = "spend",
         NEW f \in Fields, NEW g \in Fields, Before(g, f), HeadInside(Transaction, Block, f)
  PROVE  HeadInside(Transaction, Block, g)
<1>1. Transaction \in Transactions /\ Block \in Nat
  BY CommandFacts
<1>2. /\ Place(f) \in Item /\ Place(f).head < Place(f).body
      /\ Place(g) \in Item /\ Place(g).body <= Place(g).end /\ Place(g).end <= Place(f).head
  BY <1>1, Items DEF Place
<1>3. Place(f).body <= Block
  BY DEF HeadInside, Place
<1>4. Place(g).body <= Block
  BY <1>1, <1>2, <1>3 DEF Item
<1> QED BY <1>4 DEF HeadInside, Place

(* What the parser has when it has decoded the head of a field in a block.  *)
Decoding(f) ==
  /\ command \in Commands /\ data \in Nat /\ Layout[Transaction].kind = "spend"
  /\ f \in Fields /\ HeadInside(Transaction, Block, f)
  /\ InStep(f) /\ head = HeadFor(f)

(* When a head in the block is decoded the parser's counter is DataLength.  *)
LEMMA DecodingIs ==
  ASSUME NEW f, Decoding(f)
  PROVE  /\ Transaction \in Transactions /\ Start \in Nat /\ Block \in Nat
         /\ Place(f) \in Item /\ Place(f).head < Place(f).body
         /\ Place(f).body <= Place(f).end /\ Place(f).body <= Block
         /\ IF Place(f).body = Place(f).end
              THEN Place(f).length \in {0, 1}
              ELSE Place(f).length = Place(f).end - Place(f).body
         /\ head.bytes = Place(f).body - Place(f).head
         /\ head.offset = IF IsOwnHead(f) THEN 0 ELSE head.bytes
         /\ head.length = Place(f).length
         /\ head.bytes \in 1..4
         /\ After = Start + Place(f).body
         /\ Uncounted(Transaction, f) \in Nat
         /\ Left = Block - Place(f).body + Uncounted(Transaction, f)
         /\ Left \in 0..Block
         /\ DataLength(Transaction, Block, f) = Left
<1>1. /\ Transaction \in Transactions /\ Start \in Nat /\ Block \in Nat
      /\ Block < Mod16 /\ Mod16 \in Nat
  BY CommandFacts DEF Decoding
<1>2. /\ Place(f) \in Item /\ Place(f).head < Place(f).body
      /\ Place(f).body <= Place(f).end
      /\ IF Place(f).body = Place(f).end
           THEN Place(f).length \in {0, 1} ELSE Place(f).length = Place(f).end - Place(f).body
  BY <1>1, Items DEF Place, Decoding
<1>3. Place(f).body <= Block
  BY DEF Decoding, HeadInside, Place
<1>4. /\ head.bytes = Place(f).body - Place(f).head
      /\ head.offset = IF IsOwnHead(f) THEN 0 ELSE head.bytes
      /\ head.length = Place(f).length
  BY DEF Decoding, HeadFor
<1>5. PICK h \in Nat, m \in Nat, u \in Nat :
        h = Place(f).head /\ h + m = Place(f).body /\ m = head.bytes
        /\ u = Uncounted(Transaction, f)
  BY <1>1, <1>2, <1>4, UncountedIs DEF Item, Decoding
<1>6. m \in 1..4
  <2>1. HeadEncoded(Transaction, Place(f))
    BY <1>1, EncodingAssumption DEF Place, Decoding
  <2>2. Place(f).body - Place(f).head - 1 \in 0..3
    BY <2>1 DEF HeadEncoded
  <2> QED BY <1>5, <2>2
<1>7. data = Start + h /\ dataLength = Block - h + u /\ dataLength \in 0..Block
  BY <1>5 DEF Decoding, InStep
<1>8. PICK l \in Nat : l = Block - (h + m) + u /\ l <= Block /\ l = dataLength - m
  BY <1>1, <1>3, <1>5, <1>7
<1>9. l % Mod16 = l
  <2>1. l \in Int /\ 0 <= l /\ l < Mod16
    BY <1>1, <1>8
  <2> QED BY <1>1, <2>1, Modulo
<1>10. Left = l /\ DataLength(Transaction, Block, f) = l
  <2>1. Block - Place(f).body + Uncounted(Transaction, f) = l
    BY <1>5, <1>8
  <2>2. dataLength - head.bytes = l
    BY <1>5, <1>8
  <2> QED BY <1>9, <2>1, <2>2 DEF DataLength, Place, Left
<1>11. After = Start + (h + m)
  BY <1>1, <1>5, <1>7 DEF After
<1> QED BY <1>1, <1>2, <1>3, <1>4, <1>5, <1>6, <1>8, <1>9, <1>10, <1>11

(* The bytes refuse a field that is in the block just when the layout does. *)
LEMMA FieldDecides ==
  ASSUME NEW f, Decoding(f), type = f,
         \A g \in Fields : Before(g, f) => Passed(g)
  PROVE  FieldRefused <=> ~Passed(f)
<1>1. /\ Transaction \in Transactions /\ Start \in Nat /\ Block \in Nat
      /\ Place(f) \in Item /\ Place(f).body <= Block
      /\ head.length = Place(f).length /\ head.bytes \in 1..4
      /\ After = Start + Place(f).body
      /\ Left = Block - Place(f).body + Uncounted(Transaction, f)
      /\ DataLength(Transaction, Block, f) = Left
  BY DecodingIs
<1>2. /\ command \in Commands /\ Layout[Transaction].kind = "spend"
      /\ f \in Fields /\ HeadInside(Transaction, Block, f)
  BY DEF Decoding
<1>3. ~PreDecodeError
  BY <1>1 DEF PreDecodeError
<1>4. ~Passed(f) <=> LengthInvalid \/ Layout[Transaction].bad = f
  BY <1>1, <1>2 DEF Passed, Refused, LengthInvalid, Place
<1>5. CASE LengthInvalid
  BY <1>4, <1>5 DEF FieldRefused
<1>6. CASE ~LengthInvalid
  <2>1. f \in AddressFields =>
          head.length = 33 /\ At(After) = TxBytes[Transaction][Place(f).body + 1]
    <3> HAVE f \in AddressFields
    <3>1. head.length = 33 /\ Uncounted(Transaction, f) = 2
      BY <1>1, <1>2, Items, AddressUncounted DEF Place
    <3>2. PICK b \in Nat : b = Place(f).body
      BY <1>1 DEF Item
    <3>3. b < Block
      BY <1>1, <1>6, <3>1, <3>2 DEF LengthInvalid
    <3>4. At(Start + b) = TxBytes[Transaction][b + 1]
      BY <1>2, <3>3, InsideIs
    <3> QED BY <1>1, <3>1, <3>2, <3>4
  <2>2. FieldRefused <=> ContentRefused(Transaction, f)
    BY <1>1, <1>3, <1>6, <2>1 DEF FieldRefused, ContentRefused, Place
  <2>3. Layout[Transaction].bad = f => ContentRefused(Transaction, f)
    <3>1. f # "none"
      BY <1>2, FieldsAre
    <3> QED BY <1>1, <1>2, <3>1, EncodingAssumption
  <2>4. ContentRefused(Transaction, f) => Layout[Transaction].bad = f
    <3> HAVE ContentRefused(Transaction, f)
    <3>1. PICK bad : bad = Layout[Transaction].bad
      OBVIOUS
    <3>2. bad # "none" /\ ~Before(f, bad)
      BY <1>1, <1>2, <3>1, EncodingAssumption
    <3>3. bad \in {"none", "sender", "recipient", "amount", "fee"}
      BY <1>1, <3>1, LayoutAssumption DEF LayoutType
    <3>4. bad \in Fields
      BY <3>2, <3>3, FieldsAre
    <3>5. ~Before(bad, f)
      <4>1. SUFFICES ASSUME Before(bad, f) PROVE FALSE
        OBVIOUS
      <4>2. HeadInside(Transaction, Block, bad)
        BY <1>2, <3>4, <4>1, InsideBefore
      <4>3. ~Refused(Transaction, Block, bad, 0)
        BY <3>4, <4>1, <4>2 DEF Passed
      <4> QED BY <3>1, <4>2, <4>3 DEF Refused
    <3>6. Position[bad] = Position[f]
      BY <1>2, <3>2, <3>4, <3>5, FieldsAre DEF Before
    <3> QED BY <1>2, <3>1, <3>4, <3>6, FieldsAre
  <2> QED BY <1>4, <1>6, <2>2, <2>3, <2>4
<1> QED BY <1>5, <1>6

-----------------------------------------------------------------------------
(* Which fields are reached when parsing ends at a field, and when it does  *)
(* not end before the last.                                                 *)
LEMMA ReachedAll ==
  ASSUME command \in Commands, Layout[Transaction].kind = "spend",
         \A g \in Fields : Passed(g)
  PROVE  \E stray \in Strays(Transaction, Block) :
           Reached[Transaction][Block][stray] = Fields
<1>1. Transaction \in Transactions /\ Block \in BlockSizes /\ Block \in Nat
  BY CommandFacts
<1>2. PICK stray : stray = IF HeadInside(Transaction, Block, "payload") THEN 0 ELSE Position["payload"]
  OBVIOUS
<1>3. stray \in Strays(Transaction, Block) /\ stray \in {0} \cup {Position[f] : f \in Fields}
  BY <1>2, FieldsAre DEF Strays
<1>4. \A g \in Fields : ~Refused(Transaction, Block, g, stray)
  <2> TAKE g \in Fields
  <2>1. CASE HeadInside(Transaction, Block, g)
    BY <2>1 DEF Passed, Refused
  <2>2. CASE ~HeadInside(Transaction, Block, g)
    <3>1. g = "payload" \/ Before(g, "payload")
      BY FieldsAre DEF Before
    <3>2. ~HeadInside(Transaction, Block, "payload")
      BY <2>2, <3>1, InsideBefore, FieldsAre
    <3>3. stray = 7 /\ Position[g] \in 1..7
      BY <1>2, <3>2, FieldsAre
    <3>4. ~(Position[g] > stray)
      BY <3>3
    <3> QED BY <2>2, <3>4 DEF Refused
  <2> QED BY <2>1, <2>2
<1>5. Reached[Transaction][Block][stray] = Fields
  BY <1>1, <1>3, <1>4 DEF Reached
<1> QED BY <1>3, <1>5

(* If a field is refused, or its head lies behind the block, the fields     *)
(* reached are those before it, for some stray.                             *)
LEMMA ReachedBefore ==
  ASSUME command \in Commands, Layout[Transaction].kind = "spend", NEW f \in Fields,
         \A g \in Fields : Before(g, f) => Passed(g),
         HeadInside(Transaction, Block, f) => ~Passed(f)
  PROVE  \E stray \in Strays(Transaction, Block) :
           Reached[Transaction][Block][stray] = {g \in Fields : Before(g, f)}
<1>1. Transaction \in Transactions /\ Block \in BlockSizes /\ Block \in Nat
  BY CommandFacts
<1>2. \E stray \in Strays(Transaction, Block) :
        /\ stray < Position[f]
        /\ \A g \in Fields : Before(g, f) /\ ~HeadInside(Transaction, Block, g) => Position[g] <= stray
  <2>1. CASE \E p \in Fields : Before(p, f) /\ ~HeadInside(Transaction, Block, p)
    <3>1. PICK q \in Fields : Position[q] + 1 = Position[f]
      <4>1. f # "sender"
        BY <2>1, FieldsAre DEF Before
      <4> QED BY <4>1, FieldsAre DEF Position
    <3>2. \A g \in Fields : Before(g, f) => g = q \/ Before(g, q)
      BY <3>1, FieldsAre DEF Before
    <3>3. ~HeadInside(Transaction, Block, q)
      BY <2>1, <3>2, InsideBefore
    <3>4. Position[q] \in Strays(Transaction, Block)
      BY <3>3 DEF Strays
    <3>5. Position[q] < Position[f]
      BY <3>1, FieldsAre
    <3>6. \A g \in Fields : Before(g, f) => Position[g] <= Position[q]
      BY <3>2, FieldsAre DEF Before
    <3> QED BY <3>4, <3>5, <3>6
  <2>2. CASE ~\E p \in Fields : Before(p, f) /\ ~HeadInside(Transaction, Block, p)
    <3>1. 0 \in Strays(Transaction, Block) /\ 0 < Position[f]
      BY FieldsAre DEF Strays
    <3> QED BY <2>2, <3>1
  <2> QED BY <2>1, <2>2
<1>3. PICK stray \in Strays(Transaction, Block) :
        /\ stray < Position[f]
        /\ \A g \in Fields : Before(g, f) /\ ~HeadInside(Transaction, Block, g) => Position[g] <= stray
  BY <1>2
<1>4. stray \in {0} \cup {Position[g] : g \in Fields} /\ stray \in Nat
  BY FieldsAre DEF Strays
<1>5. Refused(Transaction, Block, f, stray)
  <2>1. CASE HeadInside(Transaction, Block, f)
    BY <2>1 DEF Passed, Refused
  <2>2. CASE ~HeadInside(Transaction, Block, f)
    <3>1. Position[f] > stray
      BY <1>3, <1>4, FieldsAre
    <3> QED BY <2>2, <3>1 DEF Refused
  <2> QED BY <2>1, <2>2
<1>6. \A g \in Fields : Before(g, f) => ~Refused(Transaction, Block, g, stray)
  <2> TAKE g \in Fields
  <2> HAVE Before(g, f)
  <2>1. CASE HeadInside(Transaction, Block, g)
    BY <2>1 DEF Passed, Refused
  <2>2. CASE ~HeadInside(Transaction, Block, g)
    <3>1. ~(Position[g] > stray)
      BY <1>3, <1>4, <2>2, FieldsAre
    <3> QED BY <2>2, <3>1 DEF Refused
  <2> QED BY <2>1, <2>2
<1>7. Reached[Transaction][Block][stray]
        = {g \in Fields : \A h \in {k \in Fields : Refused(Transaction, Block, k, stray)} : Before(g, h)}
  BY <1>1, <1>4 DEF Reached
<1>8. \A g \in Fields :
        (\A h \in {k \in Fields : Refused(Transaction, Block, k, stray)} : Before(g, h)) <=> Before(g, f)
  <2> TAKE g \in Fields
  <2>1. ASSUME Before(g, f), NEW h \in Fields, Refused(Transaction, Block, h, stray)
        PROVE  Before(g, h)
    <3>1. ~Before(h, f)
      BY <1>6, <2>1
    <3> QED BY <2>1, <3>1, FieldsAre DEF Before
  <2> QED BY <1>5, <2>1
<1>9. Reached[Transaction][Block][stray] = {g \in Fields : Before(g, f)}
  BY <1>7, <1>8
<1> QED BY <1>9

-----------------------------------------------------------------------------
(* Every set of numbers has a least one.                                    *)
LEMMA Least ==
  ASSUME NEW T \in SUBSET Nat, T # {}
  PROVE  \E n \in T : \A m \in T : n <= m
<1> DEFINE R == OpToRel(<, Nat)
<1>1. IsWellFoundedOn(R, Nat)
  BY NatLessThanWellFounded
<1>2. \A x, y \in Nat : <<y, x>> \in R <=> y < x
  BY Zenon DEF OpToRel
<1> HIDE DEF R
<1>3. PICK x \in T : \A y \in T : ~(<<y, x>> \in R)
  BY <1>1, WFMin, Zenon
<1>4. \A y \in T : ~(y < x)
  <2>1. \A y \in T : y \in Nat /\ x \in Nat
    OBVIOUS
  <2> QED BY <1>2, <1>3, <2>1, Zenon
<1> QED BY <1>3, <1>4

(* The payload is shown up to its first zero byte.                          *)
LEMMA CharactersAre ==
  ASSUME command \in Commands, TextStart \in Nat, head.length \in Nat
  PROVE  /\ Characters \in Nat
         /\ \A n \in Nat : n = head.length /\ n <= 55 /\
              (\A i \in 0..(n - 1) : At(TextStart + i) # 0) => Characters = n
<1> DEFINE most == IF head.length < PayloadMax THEN head.length ELSE PayloadMax
           Ends(n) == n = most \/ At(TextStart + n) = 0
           Is(n) == Ends(n) /\ \A i \in 0..(n - 1) : At(TextStart + i) # 0
<1>1. PayloadMax \in Nat /\ 55 <= PayloadMax
  BY BytesAssumption
<1>2. most \in Nat
  BY <1>1
<1>3. Characters = CHOOSE n \in 0..most : Is(n)
  BY DEF Characters
<1>4. PICK n \in {k \in 0..most : Ends(k)} : \A m \in {k \in 0..most : Ends(k)} : n <= m
  <2>1. most \in {k \in 0..most : Ends(k)}
    BY <1>2
  <2>2. {k \in 0..most : Ends(k)} \in SUBSET Nat
    BY <1>2
  <2> HIDE DEF most, Ends
  <2> QED BY <2>1, <2>2, Least
<1>5. \A i \in 0..(n - 1) : At(TextStart + i) # 0
  <2> TAKE i \in 0..(n - 1)
  <2>1. i \in 0..most /\ ~(n <= i)
    BY <1>2, <1>4
  <2>2. ~Ends(i)
    BY <1>4, <2>1
  <2> QED BY <2>2
<1>6. \E k \in 0..most : Is(k)
  BY <1>4, <1>5
<1>7. Characters \in 0..most /\ Is(Characters)
  <2> HIDE DEF most, Is
  <2> QED BY <1>3, <1>6
<1>8. Characters \in Nat
  BY <1>2, <1>7
<1>9. ASSUME NEW k \in Nat, k = head.length, k <= 55,
             \A i \in 0..(k - 1) : At(TextStart + i) # 0
      PROVE  Characters = k
  <2>1. most = k
    BY <1>1, <1>9
  <2>2. Characters # k => Characters \in 0..(k - 1) /\ At(TextStart + Characters) = 0
    BY <1>7, <2>1
  <2> QED BY <1>9, <2>2
<1> QED BY <1>8, <1>9

-----------------------------------------------------------------------------
(* A field that is taken: what it is, and where the next one is read.       *)
TakenRight(text, next) ==
  /\ next \in Nat
  /\ type \in DisplayFields => text \in TextType
  /\ Decoding(type) =>
       /\ type # "payload" => next = Start + Place(type).end
       /\ type \in DisplayFields /\ Intact(Transaction, Block, type) => text = ValueOf(type)

(* The head of a field is decoded.                                          *)
AtType == TypeOK /\ type \in Fields /\ head # Undecoded

(* What is read and where are numbers.                                      *)
LEMMA PlacesAre ==
  ASSUME AtType
  PROVE  /\ command \in Commands /\ data \in Nat /\ Start \in Nat
         /\ head \in HeadType /\ head.length \in Nat /\ head.offset \in Nat
         /\ After \in Nat \ {0} /\ TextStart \in Nat
<1>1. /\ command \in Commands /\ data \in Nat /\ head \in HeadType
  BY DEF AtType, TypeOK
<1>2. head.bytes \in Nat \ {0} /\ head.offset \in Nat /\ head.length \in Nat
  BY <1>1 DEF HeadType
<1>3. After \in Nat \ {0}
  BY <1>1, <1>2 DEF After
<1>4. TextStart \in Nat
  BY <1>2, <1>3 DEF TextStart
<1> QED BY <1>1, <1>2, <1>3, <1>4, CommandFacts

(* Behind a head of one byte, and in a byte that is its own head, the text  *)
(* of a field is its value.                                                 *)
LEMMA TextIsValue ==
  ASSUME Decoding(type), Place(type).body = Place(type).head + 1
  PROVE  /\ [from |-> TextStart, length |-> head.length] = ValueOf(type)
         /\ TextStart + head.length = Start + Place(type).end
<1>1. /\ Start \in Nat /\ Place(type) \in Item
      /\ IF Place(type).body = Place(type).end
           THEN Place(type).length \in {0, 1}
           ELSE Place(type).length = Place(type).end - Place(type).body
      /\ head.bytes = Place(type).body - Place(type).head
      /\ head.offset = IF IsOwnHead(type) THEN 0 ELSE head.bytes
      /\ head.length = Place(type).length
      /\ After = Start + Place(type).body
  BY DecodingIs
<1>2. PICK h \in Nat, e \in Nat, l \in Nat, s \in Nat :
        /\ h = Place(type).head /\ h + 1 = Place(type).body /\ e = Place(type).end
        /\ l = Place(type).length /\ s = Start
  BY <1>1 DEF Item
<1>3. IF h + 1 = e THEN l \in {0, 1} ELSE l = e - (h + 1)
  BY <1>1, <1>2
<1>4. head.bytes = 1 /\ head.length = l /\ After = s + (h + 1)
  BY <1>1, <1>2
<1>5. IsOwnHead(type) <=> h + 1 = e /\ l = 1
  BY <1>2 DEF IsOwnHead
<1>6. ValueOf(type) = IF h + 1 = e /\ l = 1
                       THEN [from |-> s + h, length |-> 1]
                       ELSE [from |-> s + (h + 1), length |-> l]
  BY <1>2 DEF ValueOf, Place, Transaction
<1>7. CASE IsOwnHead(type)
  <2>1. TextStart = s + h
    BY <1>1, <1>4, <1>7 DEF TextStart
  <2> QED BY <1>2, <1>4, <1>5, <1>6, <1>7, <2>1
<1>8. CASE ~IsOwnHead(type)
  <2>1. TextStart = s + (h + 1)
    BY <1>1, <1>4, <1>8 DEF TextStart
  <2>2. l + (h + 1) = e
    BY <1>3, <1>5, <1>8
  <2> QED BY <1>2, <1>4, <1>5, <1>6, <1>8, <2>1, <2>2
<1> QED BY <1>7, <1>8

(* An integer or an address that is taken has a head of one byte.           *)
LEMMA OneByteHead ==
  ASSUME Decoding(type), type # "payload", Passed(type)
  PROVE  Place(type).body = Place(type).head + 1
<1>1. /\ Transaction \in Transactions /\ Layout[Transaction].kind = "spend"
      /\ type \in Fields /\ HeadInside(Transaction, Block, type)
  BY DecodingIs DEF Decoding
<1>2. Layout[Transaction].bad # type
  BY <1>1 DEF Passed, Refused
<1> QED BY <1>1, <1>2, EncodingAssumption DEF Place

(* Each case of the loop takes a field that is not refused as the layout    *)
(* has it (utils.c:373-429).                                                *)
LEMMA TakenIsRight ==
  ASSUME AtType, Decoding(type) => Passed(type)
  PROVE  /\ type \in AddressFields =>
              TakenRight([from |-> After, length |-> 33], After + 33)
         /\ type \in {"amount", "fee"} =>
              TakenRight([from |-> TextStart, length |-> head.length], TextStart + head.length)
         /\ type \in {"ttl", "nonce"} =>
              TakenRight(NoText, IF head.offset # 0 THEN TextStart + head.length ELSE After)
         /\ type = "payload" =>
              TakenRight([from |-> TextStart, length |-> Characters], TextStart)
<1>1. /\ head.length \in Nat /\ head.offset \in Nat /\ After \in Nat \ {0}
      /\ TextStart \in Nat /\ command \in Commands
  BY PlacesAre
<1>2. ASSUME type \in AddressFields
      PROVE  TakenRight([from |-> After, length |-> 33], After + 33)
  <2>1. [from |-> After, length |-> 33] \in TextType /\ After + 33 \in Nat
    BY <1>1 DEF TextType
  <2>2. ASSUME Decoding(type)
        PROVE  [from |-> After, length |-> 33] = ValueOf(type) /\ After + 33 = Start + Place(type).end
    <3>1. /\ Start \in Nat /\ Place(type) \in Item
          /\ IF Place(type).body = Place(type).end
               THEN Place(type).length \in {0, 1}
               ELSE Place(type).length = Place(type).end - Place(type).body
          /\ After = Start + Place(type).body /\ Transaction \in Transactions
      BY <2>2, DecodingIs
    <3>2. Place(type).length = 33
      BY <1>2, <2>2, <3>1, Items, FieldsAre DEF Place, Decoding
    <3>3. PICK b \in Nat, e \in Nat : b = Place(type).body /\ e = Place(type).end
      BY <3>1 DEF Item
    <3>4. b # e /\ e = b + 33 /\ After = Start + b
      BY <3>1, <3>2, <3>3
    <3>5. ValueOf(type) = [from |-> Start + b, length |-> 33]
      BY <3>2, <3>3, <3>4 DEF ValueOf, Place, Transaction
    <3> QED BY <3>1, <3>3, <3>4, <3>5
  <2> QED BY <2>1, <2>2 DEF TakenRight
<1>3. ASSUME type \in {"amount", "fee"}
      PROVE  TakenRight([from |-> TextStart, length |-> head.length], TextStart + head.length)
  <2>1. [from |-> TextStart, length |-> head.length] \in TextType /\ TextStart + head.length \in Nat
    BY <1>1 DEF TextType
  <2>2. ASSUME Decoding(type)
        PROVE  /\ [from |-> TextStart, length |-> head.length] = ValueOf(type)
               /\ TextStart + head.length = Start + Place(type).end
    BY <1>3, <2>2, OneByteHead, TextIsValue
  <2> QED BY <2>1, <2>2 DEF TakenRight
<1>4. ASSUME type \in {"ttl", "nonce"}
      PROVE  TakenRight(NoText, IF head.offset # 0 THEN TextStart + head.length ELSE After)
  <2>1. /\ type \notin DisplayFields
        /\ (IF head.offset # 0 THEN TextStart + head.length ELSE After) \in Nat
    BY <1>1, <1>4 DEF DisplayFields
  <2>2. ASSUME Decoding(type)
        PROVE  (IF head.offset # 0 THEN TextStart + head.length ELSE After) = Start + Place(type).end
    <3>1. TextStart + head.length = Start + Place(type).end
      BY <1>4, <2>2, OneByteHead, TextIsValue
    <3>2. CASE head.offset # 0
      BY <3>1, <3>2
    <3>3. CASE head.offset = 0
      <4>1. /\ head.bytes \in 1..4 /\ head.offset = IF IsOwnHead(type) THEN 0 ELSE head.bytes
            /\ head.length = Place(type).length
        BY <2>2, DecodingIs
      <4>2. head.length = 1
        BY <3>3, <4>1 DEF IsOwnHead
      <4>3. TextStart + 1 = After
        BY <1>1, <3>3 DEF TextStart
      <4> QED BY <3>1, <3>3, <4>2, <4>3
    <3> QED BY <3>2, <3>3
  <2> QED BY <2>1, <2>2 DEF TakenRight
<1>5. ASSUME type = "payload"
      PROVE  TakenRight([from |-> TextStart, length |-> Characters], TextStart)
  <2>1. Characters \in Nat
    BY <1>1, CharactersAre
  <2>2. [from |-> TextStart, length |-> Characters] \in TextType
    BY <1>1, <2>1 DEF TextType
  <2>3. ASSUME Decoding(type), Intact(Transaction, Block, type)
        PROVE  Characters = head.length
    <3>1. /\ Start \in Nat /\ Block \in Nat /\ Place(type) \in Item /\ Transaction \in Transactions
          /\ Place(type).body <= Place(type).end
          /\ IF Place(type).body = Place(type).end
               THEN Place(type).length \in {0, 1}
               ELSE Place(type).length = Place(type).end - Place(type).body
          /\ head.length = Place(type).length
      BY <2>3, DecodingIs
    <3>2. Place(type).body = Place(type).head + 1 /\ Place(type).end <= Block
      BY <1>5, <2>3 DEF Intact, Place
    <3>3. TextStart + head.length = Start + Place(type).end
      BY <2>3, <3>2, TextIsValue
    <3>4. HeadEncoded(Transaction, Place(type))
      BY <2>3, <3>1, EncodingAssumption DEF Decoding, Place
    <3>5. Place(type).length <= 55
      <4>1. TxBytes[Transaction][Place(type).head + 1] \in Int
        <5>1. At(Start + Place(type).head) = TxBytes[Transaction][Place(type).head + 1]
          <6>1. Place(type).head \in Nat /\ Place(type).head < Block
            BY <3>1, <3>2 DEF Item
          <6> QED BY <1>1, <6>1, InsideIs
        <5>2. At(Start + Place(type).head) \in ByteValue
          BY <1>1, <3>1, ByteIs DEF Item
        <5> QED BY <5>1, <5>2 DEF ByteValue
      <4>2. Place(type).length \in Nat /\ Place(type).body - Place(type).head - 1 = 0
        BY <3>1, <3>2 DEF Item
      <4> QED BY <3>4, <4>1, <4>2 DEF HeadEncoded
    <3>6. PICK h \in Nat, e \in Nat, l \in Nat, s \in Nat :
            /\ h = Place(type).head /\ e = Place(type).end /\ l = Place(type).length /\ s = Start
            /\ e <= Block /\ TextStart + l = s + e /\ h + 1 <= e /\ l <= e - h
      BY <3>1, <3>2, <3>3 DEF Item
    <3>7. \A i \in 0..(l - 1) : At(TextStart + i) # 0
      <4> TAKE i \in 0..(l - 1)
      <4>1. PICK k \in Nat : k = e - l + i
        BY <3>6
      <4>2. TextStart + i = s + k /\ h <= k /\ k <= e - 1 /\ k < Block
        BY <1>1, <3>1, <3>6, <4>1
      <4>3. At(Start + k) = TxBytes[Transaction][k + 1]
        BY <1>1, <4>2, InsideIs
      <4>4. TxBytes[Transaction][k + 1] # 0
        <5>1. k \in Layout[Transaction].items["payload"].head..(Layout[Transaction].items["payload"].end - 1)
          BY <1>5, <3>6, <4>2 DEF Place
        <5> QED BY <2>3, <3>1, <5>1, EncodingAssumption DEF Decoding
      <4> QED BY <3>6, <4>2, <4>3, <4>4
    <3>8. l = head.length /\ l <= 55
      BY <3>1, <3>5, <3>6
    <3> QED BY <1>1, <3>7, <3>8, CharactersAre
  <2>4. ASSUME Decoding(type), Intact(Transaction, Block, type)
        PROVE  [from |-> TextStart, length |-> Characters] = ValueOf(type)
    <3>1. Place(type).body = Place(type).head + 1
      BY <1>5, <2>4 DEF Intact, Place
    <3>2. [from |-> TextStart, length |-> head.length] = ValueOf(type)
      BY <2>4, <3>1, TextIsValue
    <3> QED BY <2>3, <2>4, <3>2
  <2> QED BY <1>1, <1>5, <2>2, <2>4 DEF TakenRight
<1> QED BY <1>2, <1>3, <1>4, <1>5

-----------------------------------------------------------------------------
(* Parsing that ends is as ParseTx has it.                                  *)
RefusedAtField ==
  /\ command \in Commands /\ Layout[Transaction].kind = "spend" /\ pc = "refused"
  /\ LengthOk(Transaction, Block, command.declared)
  /\ type \in Fields /\ Taken(type)
  /\ HeadInside(Transaction, Block, type) => ~Passed(type)

(* All fields are taken.                                                    *)
DoneWithFields ==
  /\ command \in Commands /\ Layout[Transaction].kind = "spend" /\ pc = "done"
  /\ LengthOk(Transaction, Block, command.declared)
  /\ \A g \in Fields : Passed(g)
  /\ \A g \in DisplayFields : shown[g] # NoText
  /\ \A g \in DisplayFields : Intact(Transaction, Block, g) => shown[g] = ValueOf(g)

(* The end was at the list head: refused, or not a spend.                   *)
EndedAtList ==
  /\ command \in Commands /\ Untouched /\ pc \in {"done", "refused"}
  /\ pc = "done" <=> LengthOk(Transaction, Block, command.declared)
  /\ pc = "done" => Layout[Transaction].kind # "spend"

(* A field was refused, as the layout says.                                 *)
LEMMA EndsRefused ==
  ASSUME RefusedAtField PROVE ParsesLayout
<1> USE DEF RefusedAtField
<1>1. command \in Commands
  OBVIOUS
<1>2. \A g \in Fields : Before(g, type) => Passed(g)
  BY DEF Taken
<1>3. PICK stray \in Strays(Transaction, Block) :
        Reached[Transaction][Block][stray] = {g \in Fields : Before(g, type)}
  BY <1>1, <1>2, ReachedBefore
<1>4. ~ParseOk(Transaction, Block, command.declared, stray)
  <2>1. type \notin {g \in Fields : Before(g, type)}
    BY FieldsAre DEF Before
  <2> QED BY <1>3, <2>1 DEF ParseOk
<1>5. Decoded(Transaction, Block, command.declared, stray) = {g \in DisplayFields : Before(g, type)}
  BY <1>3, FieldsAre DEF Decoded
<1>6. {g \in DisplayFields : shown[g] # NoText} = {g \in DisplayFields : Before(g, type)}
  BY DEF Taken
<1>7. \A g \in {h \in DisplayFields : Before(h, type)} :
        Intact(Transaction, Block, g) => shown[g] = ValueOf(g)
  BY DEF Taken
<1> QED BY <1>3, <1>4, <1>5, <1>6, <1>7 DEF ParsesLayout, Transaction, Block

(* None was, as the layout says.                                            *)
LEMMA EndsDone ==
  ASSUME DoneWithFields PROVE ParsesLayout
<1> USE DEF DoneWithFields
<1>1. PICK stray \in Strays(Transaction, Block) :
        Reached[Transaction][Block][stray] = Fields
  BY ReachedAll
<1>2. ParseOk(Transaction, Block, command.declared, stray)
  BY <1>1 DEF ParseOk
<1>3. Decoded(Transaction, Block, command.declared, stray) = DisplayFields
  BY <1>1, FieldsAre DEF Decoded
<1>4. {g \in DisplayFields : shown[g] # NoText} = DisplayFields
  OBVIOUS
<1> QED BY <1>1, <1>2, <1>3, <1>4 DEF ParsesLayout, Transaction, Block

(* The list head decided, as the layout says.                               *)
LEMMA EndsAtList ==
  ASSUME EndedAtList PROVE ParsesLayout
<1> USE DEF EndedAtList
<1>1. 0 \in Strays(Transaction, Block)
  BY DEF Strays
<1>2. pc = "done" <=> ParseOk(Transaction, Block, command.declared, 0)
  BY DEF ParseOk
<1>3. Decoded(Transaction, Block, command.declared, 0) = {}
  BY DEF Decoded
<1>4. {g \in DisplayFields : shown[g] # NoText} = {}
  BY DEF Untouched
<1> QED BY <1>1, <1>2, <1>3, <1>4 DEF ParsesLayout, Transaction, Block

-----------------------------------------------------------------------------
(* Nothing is read yet.                                                     *)
LEMMA InitInv == Init => ParsingInv
<1> SUFFICES ASSUME Init PROVE ParsingInv
  OBVIOUS
<1>1. TypeOK
  BY DEF Init, TypeOK
<1>2. AtHeader
  BY DEF Init, AtHeader, Untouched, Start, Block
<1>3. AtList /\ AtField /\ ParsesLayout
  BY DEF Init, AtList, AtField, ParsesLayout
<1> QED BY <1>1, <1>2, <1>3 DEF ParsingInv

(* The header leads to the list head, or to a refusal.                      *)
LEMMA HeaderInv ==
  ASSUME ParsingInv, ReadHeader PROVE ParsingInv'
<1>1. /\ command \in Commands /\ Untouched /\ data = 0 /\ head = Undecoded
      /\ dataLength = Start + Block /\ TypeOK
  BY DEF ParsingInv, TypeOK, AtHeader, ReadHeader
<1>2. /\ Start \in Nat /\ Block \in Nat /\ Block < Mod16 /\ Mod16 \in Nat
  BY <1>1, CommandFacts
<1>3. /\ Start >= 9 /\ command.header[9] <= NetworkIdMax /\ Start = 9 + command.header[9]
      /\ BigEndian([i \in 1..4 |-> command.header[4 + i]]) = command.declared
  BY <1>1, CommandsAssumption, Zenon DEF Start
<1>4. At(8) = command.header[9]
  <2>1. At(8) = command.header[8 + 1]
    BY <1>1, <1>2, <1>3, HeaderIs
  <2> QED BY <2>1
<1>5. ReadBE(4, 4) = command.declared
  <2>1. \A i \in 1..4 : At(4 + i - 1) = command.header[4 + i]
    <3> TAKE i \in 1..4
    <3>1. PICK k \in Nat : k = 4 + i - 1
      OBVIOUS
    <3>2. At(k) = command.header[k + 1]
      BY <1>1, <1>2, <1>3, <3>1, HeaderIs
    <3>3. k + 1 = 4 + i
      BY <3>1
    <3> QED BY <3>1, <3>2, <3>3
  <2>2. [i \in 1..4 |-> At(4 + i - 1)] = [i \in 1..4 |-> command.header[4 + i]]
    BY <2>1
  <2> QED BY <1>3, <2>2 DEF ReadBE
<1>6. ~(At(8) > NetworkIdMax)
  <2>1. At(8) \in ByteValue
    BY <1>1, ByteIs
  <2>2. At(8) \in Nat /\ NetworkIdMax \in Nat
    <3>1. ByteValue \subseteq Nat
      BY DEF ByteValue
    <3> QED BY <2>1, <3>1, BytesAssumption
  <2> QED BY <1>3, <1>4, <2>2
<1>7. /\ data' = 9 + At(8) /\ dataLength' = (dataLength - (9 + At(8))) % Mod16
      /\ pc' = "list" /\ remain' = ReadBE(4, 4)
      /\ UNCHANGED <<command, head, type, shown>>
  BY <1>6, Zenon DEF ReadHeader
<1>8. data' = Start /\ dataLength' = Block /\ remain' = command.declared
  <2>1. Start + Block - Start = Block /\ Block % Mod16 = Block
    BY <1>2, Modulo
  <2>2. 9 + At(8) = Start
    BY <1>3, <1>4
  <2>3. dataLength' = (Start + Block - Start) % Mod16
    <3>1. dataLength' = (dataLength - (9 + At(8))) % Mod16
      BY <1>7
    <3>2. dataLength = Start + Block
      BY <1>1
    <3>3. dataLength' = (dataLength - Start) % Mod16
      BY <2>2, <3>1, Zenon
    <3> QED BY <1>2, <3>2, <3>3
  <2> QED BY <1>5, <1>7, <2>1, <2>2, <2>3
<1>9. TypeOK'
  BY <1>1, <1>2, <1>7, <1>8 DEF TypeOK
<1>10. AtList'
  BY <1>1, <1>7, <1>8 DEF AtList, Untouched, Start, Block
<1>11. AtHeader' /\ AtField' /\ ParsesLayout'
  BY <1>7 DEF AtHeader, AtField, ParsesLayout
<1> QED BY <1>9, <1>10, <1>11 DEF ParsingInv

(* A head that lies in the block is decoded as the layout has it.           *)
LEMMA DecodeInv ==
  ASSUME ParsingInv, Decode PROVE ParsingInv'
<1>1. /\ command \in Commands /\ data \in Nat /\ TypeOK
  BY DEF ParsingInv, TypeOK
<1>2. /\ pc \in {"list", "field"} /\ head = Undecoded /\ ~Overlong(At(data))
      /\ head' = HeadOf(At(data))
      /\ UNCHANGED <<command, data, dataLength, remain, type, transactionType, shown, pc>>
  BY DEF Decode
<1>3. head' \in HeadType
  BY <1>1, <1>2, ByteIs, HeadOfIs
<1>4. TypeOK'
  BY <1>1, <1>2, <1>3 DEF TypeOK
<1>5. AtList'
  <2>1. CASE pc = "list"
    <3>1. data = Start /\ Untouched /\ dataLength = Block /\ remain = command.declared
      BY <2>1 DEF ParsingInv, AtList
    <3>2. HeadOf(At(data)).bytes = Layout[Transaction].header /\ HeadOf(At(data)).list
      BY <1>1, <3>1, ListRead
    <3>3. ListHead'
      BY <1>2, <3>2 DEF ListHead, Transaction
    <3> QED BY <1>2, <3>1, <3>3 DEF AtList, Untouched, Start, Block
  <2>2. CASE pc # "list"
    BY <1>2, <2>2 DEF AtList
  <2> QED BY <2>1, <2>2
<1>6. AtField'
  <2>1. CASE pc = "field"
    <3>1. /\ Layout[Transaction].kind = "spend"
          /\ LengthOk(Transaction, Block, command.declared)
          /\ type \in Fields
          /\ Taken(type)
          /\ (\A g \in Fields : Before(g, type) => HeadInside(Transaction, Block, g)) => InStep(type)
      BY <2>1 DEF ParsingInv, AtField
    <3>2. HeadInside(Transaction, Block, type) => HeadOf(At(data)) = HeadFor(type)
      <4> HAVE HeadInside(Transaction, Block, type)
      <4>1. \A g \in Fields : Before(g, type) => HeadInside(Transaction, Block, g)
        BY <1>1, <3>1, InsideBefore
      <4>2. InStep(type)
        BY <3>1, <4>1
      <4>3. data = Start + Place(type).head
        BY <4>2 DEF InStep
      <4> QED BY <1>1, <3>1, <4>3, FieldRead
    <3> QED BY <1>2, <3>1, <3>2
        DEF AtField, Taken, Passed, InStep, ValueOf, HeadFor, IsOwnHead, Place, Transaction, Block, Start
  <2>2. CASE pc # "field"
    BY <1>2, <2>2 DEF AtField
  <2> QED BY <2>1, <2>2
<1>7. AtHeader' /\ ParsesLayout'
  BY <1>2 DEF AtHeader, ParsesLayout
<1> QED BY <1>4, <1>5, <1>6, <1>7 DEF ParsingInv

(* Of what follows a head of more than four bytes nothing is said.          *)
LEMMA OverrunInv ==
  ASSUME ParsingInv, Overrun PROVE ParsingInv'
<1>1. TypeOK'
  BY DEF ParsingInv, TypeOK, Overrun
<1>2. AtHeader' /\ AtList' /\ AtField' /\ ParsesLayout'
  BY DEF Overrun, AtHeader, AtList, AtField, ParsesLayout
<1> QED BY <1>1, <1>2 DEF ParsingInv

(* The list head: other transactions are not parsed on, spend transactions  *)
(* from the sender on.                                                      *)
LEMMA ListInv ==
  ASSUME ParsingInv, ReadList PROVE ParsingInv'
<1>1. /\ command \in Commands /\ Untouched /\ data = Start /\ dataLength = Block
      /\ remain = command.declared /\ TypeOK
      /\ head.bytes = Layout[Transaction].header /\ head.list
  <2>1. pc = "list" /\ head # Undecoded
    BY DEF ReadList
  <2>2. ListHead
    BY <2>1 DEF ParsingInv, AtList
  <2> QED BY <2>1, <2>2 DEF ParsingInv, TypeOK, AtList, ListHead
<1>2. /\ Transaction \in Transactions
      /\ Start \in Nat /\ Block \in Nat /\ Block < Mod16 /\ Mod16 \in Nat
      /\ Layout[Transaction].header \in Nat /\ Layout[Transaction].header < Block
      /\ command.declared \in Nat /\ Mod32 \in Nat /\ 0 < Mod32
  BY <1>1, CommandFacts, SizesAssumption
<1>3. PICK h \in Nat : h = Layout[Transaction].header
  BY <1>2
<1>4. Left = Block - h
  <2>1. Block - h \in Int /\ 0 <= Block - h /\ Block - h < Mod16
    BY <1>2, <1>3
  <2>2. (Block - h) % Mod16 = Block - h
    BY <1>2, <2>1, Modulo
  <2> QED BY <1>1, <1>3, <2>2 DEF Left
<1>5. h \in 1..4
  <2>1. ListEncoded(Transaction, h)
    BY <1>2, <1>3, EncodingAssumption, Zenon
  <2> QED BY <2>1 DEF ListEncoded
<1>6. ~PreDecodeError
  BY <1>1, <1>3, <1>5 DEF PreDecodeError
<1>7. ListRefused <=> ~LengthOk(Transaction, Block, command.declared)
  <2>1. PICK r \in Int : r = (command.declared - h) % Mod32
    BY <1>2
  <2>2. ListRefused <=> r < Block - h
    BY <1>1, <1>3, <1>4, <1>6, <2>1 DEF ListRefused
  <2>3. LengthOk(Transaction, Block, command.declared) <=> r >= Block - h
    BY <1>3, <2>1 DEF LengthOk
  <2> QED BY <1>2, <2>1, <2>2, <2>3
<1>8. CASE ListRefused
  <2>1. pc' = "refused" /\ UNCHANGED <<command, data, dataLength, head, type, shown>>
    BY <1>8 DEF ReadList, Refuse
  <2>2. TypeOK'
    BY <1>1, <2>1 DEF TypeOK
  <2>3. command' \in Commands /\ Untouched'
    BY <1>1, <2>1 DEF Untouched
  <2>4. ~LengthOk(Transaction, Block, command.declared)'
    BY <1>7, <1>8, <2>1 DEF Transaction, Block
  <2>5. ParsesLayout'
    <3>1. EndedAtList'
      BY <2>1, <2>3, <2>4 DEF EndedAtList
    <3> QED BY <3>1, EndsAtList, PTL
  <2>6. AtHeader' /\ AtList' /\ AtField'
    BY <2>1 DEF AtHeader, AtList, AtField
  <2> QED BY <2>2, <2>5, <2>6 DEF ParsingInv
<1>9. CASE ~ListRefused
  <2>1. /\ dataLength' = Left /\ data' = After + 2 /\ head' = Undecoded
        /\ transactionType' = IF At(After) = 12 THEN "spend" ELSE "other"
        /\ pc' = IF transactionType' = "spend" THEN "field" ELSE "done"
        /\ UNCHANGED <<command, type, shown>>
    BY <1>9 DEF ReadList
  <2>2. After = Start + h
    BY <1>1, <1>3 DEF After
  <2>3. At(After) = 12 <=> Layout[Transaction].kind = "spend"
    <3>1. At(Start + h) = TxBytes[Transaction][h + 1]
      BY <1>1, <1>2, <1>3, InsideIs
    <3> QED BY <1>2, <1>3, <2>2, <3>1, EncodingAssumption
  <2>4. pc' = IF Layout[Transaction].kind = "spend" THEN "field" ELSE "done"
    BY <2>1, <2>3
  <2>5. TypeOK'
    <3>1. data' \in Nat
      BY <1>2, <2>1, <2>2
    <3>2. pc' \in {"field", "done"}
      BY <2>4
    <3> QED BY <1>1, <2>1, <3>1, <3>2 DEF TypeOK
  <2>6. AtHeader' /\ AtList'
    BY <2>4 DEF AtHeader, AtList
  <2>7. command' \in Commands /\ Untouched' /\ LengthOk(Transaction, Block, command.declared)'
    BY <1>1, <1>7, <1>9, <2>1 DEF Untouched, Transaction, Block
  <2>8. CASE Layout[Transaction].kind = "spend"
    <3>1. pc' = "field"
      BY <2>4, <2>8
    <3>2. ParsesLayout'
      BY <3>1 DEF ParsesLayout
    <3>3. type' = "sender" /\ head' = Undecoded /\ \A g \in Fields : ~Before(g, "sender")
      BY <1>1, <2>1, FieldsAre DEF Untouched, Before
    <3>4. Taken(type)'
      BY <2>7, <3>3, FieldsAre DEF Taken, Untouched
    <3>5. InStep(type)'
      <4>1. Place("sender").head = h + 2
        BY <1>2, <1>3, <2>8, LayoutAssumption DEF Place
      <4>2. Uncounted(Transaction, "sender") = 2
        BY UncountedFirst
      <4>3. data' = Start + Place("sender").head
        BY <1>2, <2>1, <2>2, <4>1
      <4>4. /\ dataLength' = Block - Place("sender").head + Uncounted(Transaction, "sender")
            /\ dataLength' \in 0..Block
        BY <1>2, <1>3, <1>4, <2>1, <4>1, <4>2
      <4> QED BY <2>1, <3>3, <4>3, <4>4 DEF InStep, Place, Transaction, Block, Start
    <3>6. AtField'
      BY <2>1, <2>7, <2>8, <3>3, <3>4, <3>5, FieldsAre DEF AtField, Transaction
    <3> QED BY <2>5, <2>6, <3>2, <3>6 DEF ParsingInv
  <2>9. CASE Layout[Transaction].kind # "spend"
    <3>1. pc' = "done"
      BY <2>4, <2>9
    <3>2. (Layout[Transaction].kind # "spend")'
      BY <2>1, <2>9 DEF Transaction
    <3>3. ParsesLayout'
      <4>1. EndedAtList'
        BY <2>7, <3>1, <3>2 DEF EndedAtList
      <4> QED BY <4>1, EndsAtList, PTL
    <3>4. AtField'
      BY <3>1 DEF AtField
    <3> QED BY <2>5, <2>6, <3>3, <3>4 DEF ParsingInv
  <2> QED BY <2>8, <2>9
<1> QED BY <1>8, <1>9

(* What is known at a field whose head is decoded.                          *)
LEMMA FieldFacts ==
  ASSUME ParsingInv, pc = "field", head # Undecoded
  PROVE  /\ AtType /\ TypeOK
         /\ Layout[Transaction].kind = "spend"
         /\ LengthOk(Transaction, Block, command.declared)
         /\ type \in Fields /\ Taken(type)
         /\ HeadInside(Transaction, Block, type) => Decoding(type)
         /\ HeadInside(Transaction, Block, type) => (FieldRefused <=> ~Passed(type))
<1>1. /\ TypeOK /\ command \in Commands /\ data \in Nat
      /\ Layout[Transaction].kind = "spend"
      /\ LengthOk(Transaction, Block, command.declared)
      /\ type \in Fields /\ Taken(type)
      /\ (\A g \in Fields : Before(g, type) => HeadInside(Transaction, Block, g)) => InStep(type)
      /\ HeadInside(Transaction, Block, type) => head = HeadFor(type)
  BY DEF ParsingInv, AtField, TypeOK
<1>2. AtType
  BY <1>1 DEF AtType
<1>3. HeadInside(Transaction, Block, type) => Decoding(type)
  <2> HAVE HeadInside(Transaction, Block, type)
  <2>1. \A g \in Fields : Before(g, type) => HeadInside(Transaction, Block, g)
    BY <1>1, InsideBefore
  <2> QED BY <1>1, <2>1 DEF Decoding
<1>4. HeadInside(Transaction, Block, type) => (FieldRefused <=> ~Passed(type))
  <2> HAVE HeadInside(Transaction, Block, type)
  <2>1. \A g \in Fields : Before(g, type) => Passed(g)
    BY <1>1 DEF Taken
  <2> QED BY <1>3, <2>1, FieldDecides
<1> QED BY <1>1, <1>2, <1>3, <1>4

(* The bytes are refused where the layout is.                               *)
LEMMA RefuseInv ==
  ASSUME ParsingInv, RefuseField PROVE ParsingInv'
<1>1. /\ pc = "field" /\ head # Undecoded /\ FieldRefused
      /\ pc' = "refused" /\ UNCHANGED <<command, data, dataLength, head, type, shown>>
  BY DEF RefuseField, Refuse
<1>2. /\ TypeOK /\ Layout[Transaction].kind = "spend"
      /\ LengthOk(Transaction, Block, command.declared)
      /\ type \in Fields /\ Taken(type)
      /\ HeadInside(Transaction, Block, type) => ~Passed(type)
  BY <1>1, FieldFacts
<1>3. /\ TypeOK' /\ (Layout[Transaction].kind = "spend")'
      /\ LengthOk(Transaction, Block, command.declared)'
      /\ (type \in Fields)'
  BY <1>1, <1>2 DEF TypeOK, Transaction, Block
<1>4. Taken(type)' /\ (HeadInside(Transaction, Block, type) => ~Passed(type))'
  BY <1>1, <1>2 DEF Taken, Passed, Transaction, Block, ValueOf, Start
<1>5. ParsesLayout'
  <2>1. RefusedAtField'
    BY <1>1, <1>3, <1>4 DEF RefusedAtField, TypeOK
  <2> QED BY <2>1, EndsRefused, PTL
<1>6. AtHeader' /\ AtList' /\ AtField'
  BY <1>1 DEF AtHeader, AtList, AtField
<1> QED BY <1>3, <1>5, <1>6 DEF ParsingInv

(* A field that is taken, and the next one or the end.                      *)
LEMMA TakeInv ==
  ASSUME ParsingInv, NEW text, NEW next, Take(text, next), TakenRight(text, next)
  PROVE  ParsingInv'
<1>1. /\ pc = "field" /\ head # Undecoded /\ ~FieldRefused
      /\ shown' = IF type \in DisplayFields THEN [shown EXCEPT ![type] = text] ELSE shown
      /\ data' = next /\ head' = Undecoded
      /\ dataLength' = IF head.length # 1 THEN (Left - head.length) % Mod16 ELSE Left
      /\ type = "payload" => pc' = "done" /\ UNCHANGED type
      /\ type # "payload" =>
           /\ UNCHANGED pc
           /\ type' = CHOOSE f \in Fields : Position[f] = Position[type] + 1
      /\ UNCHANGED command
  BY DEF Take
<1>2. /\ AtType /\ TypeOK /\ command \in Commands
      /\ Layout[Transaction].kind = "spend"
      /\ LengthOk(Transaction, Block, command.declared)
      /\ type \in Fields /\ Taken(type)
      /\ HeadInside(Transaction, Block, type) => Decoding(type)
      /\ Passed(type)
  <2>1. HeadInside(Transaction, Block, type) => Passed(type)
    BY <1>1, FieldFacts
  <2>2. Passed(type)
    BY <2>1 DEF Passed
  <2> QED BY <1>1, <2>2, FieldFacts DEF TypeOK
<1>3. /\ next \in Nat /\ (type \in DisplayFields => text \in TextType /\ text # NoText)
      /\ Decoding(type) =>
           /\ type # "payload" => next = Start + Place(type).end
           /\ type \in DisplayFields /\ Intact(Transaction, Block, type) => text = ValueOf(type)
  BY BytesAssumption DEF TakenRight, TextType
<1>4. shown \in [DisplayFields -> TextType \cup {NoText}]
  BY <1>2 DEF TypeOK
<1>5. shown' \in [DisplayFields -> TextType \cup {NoText}]
  BY <1>1, <1>3, <1>4
<1>6. \A g \in DisplayFields :
        /\ g = type => shown'[g] = text
        /\ g # type => shown'[g] = shown[g]
  BY <1>1, <1>4
<1>7. TypeOK'
  BY <1>1, <1>2, <1>3, <1>5 DEF TypeOK
<1>8. AtHeader' /\ AtList'
  BY <1>1 DEF AtHeader, AtList
<1>9. type \in DisplayFields /\ Intact(Transaction, Block, type) => text = ValueOf(type)
  <2> HAVE type \in DisplayFields /\ Intact(Transaction, Block, type)
  <2>1. HeadInside(Transaction, Block, type)
    <3>1. /\ Place(type) \in Item /\ Place(type).body <= Place(type).end
          /\ Place(type).end <= Block /\ Block \in Nat
      BY <1>2, CommandFacts, Items DEF Place, Intact
    <3> QED BY <3>1 DEF HeadInside, Place, Item
  <2> QED BY <1>2, <1>3, <2>1
<1>10. \A g \in Fields : Before(g, type) \/ g = type => Passed(g)
  BY <1>2 DEF Taken
<1>11. \A g \in DisplayFields : shown'[g] # NoText <=> Before(g, type) \/ g = type
  <2> TAKE g \in DisplayFields
  <2>1. CASE g = type
    BY <1>3, <1>6, <2>1
  <2>2. CASE g # type
    BY <1>2, <1>6, <2>2 DEF Taken
  <2> QED BY <2>1, <2>2
<1>12. \A g \in DisplayFields :
         (Before(g, type) \/ g = type) /\ Intact(Transaction, Block, g) => shown'[g] = ValueOf(g)
  <2> TAKE g \in DisplayFields
  <2>1. CASE g = type
    BY <1>6, <1>9, <2>1
  <2>2. CASE g # type
    BY <1>2, <1>6, <2>2 DEF Taken
  <2> QED BY <2>1, <2>2
<1>13. CASE type = "payload"
  <2>1. \A g \in Fields : Before(g, type) \/ g = type
    BY <1>13, FieldsAre DEF Before
  <2>2. pc' = "done"
    BY <1>1, <1>13
  <2>3. \A g \in Fields : Passed(g)
    BY <1>10, <2>1
  <2>4. \A g \in DisplayFields : shown'[g] # NoText
    BY <1>11, <2>1, FieldsAre
  <2>5. \A g \in DisplayFields : Intact(Transaction, Block, g) => shown'[g] = ValueOf(g)
    BY <1>12, <2>1, FieldsAre
  <2>6. DoneWithFields'
    BY <1>1, <1>2, <2>2, <2>3, <2>4, <2>5
       DEF DoneWithFields, Passed, Transaction, Block, ValueOf, Start
  <2>7. ParsesLayout'
    BY <2>6, EndsDone, PTL
  <2>8. AtField'
    BY <2>2 DEF AtField
  <2> QED BY <1>7, <1>8, <2>7, <2>8 DEF ParsingInv
<1>14. CASE type # "payload"
  <2>1. PICK g \in Fields :
          /\ g = CHOOSE h \in Fields : Position[h] = Position[type] + 1
          /\ Position[g] = Position[type] + 1
          /\ \A h \in Fields : Before(h, g) <=> Before(h, type) \/ h = type
    BY <1>2, <1>14, NextField
  <2>2. type' = g /\ pc' = "field"
    BY <1>1, <1>14, <2>1
  <2>3. ParsesLayout'
    BY <2>2 DEF ParsesLayout
  <2>4. /\ \A h \in Fields : Before(h, g) => Passed(h)
        /\ \A h \in DisplayFields : shown'[h] # NoText <=> Before(h, g)
        /\ \A h \in DisplayFields :
             Before(h, g) /\ Intact(Transaction, Block, h) => shown'[h] = ValueOf(h)
    BY <1>10, <1>11, <1>12, <2>1, FieldsAre
  <2>5. Taken(type)'
    BY <1>1, <2>2, <2>4 DEF Taken, Passed, Transaction, Block, ValueOf, Start
  <2>6. (\A h \in Fields : Before(h, g) => HeadInside(Transaction, Block, h)) =>
          /\ next = Start + Place(g).head
          /\ dataLength' = Block - Place(g).head + Uncounted(Transaction, g)
          /\ dataLength' \in 0..Block
    <3> HAVE \A h \in Fields : Before(h, g) => HeadInside(Transaction, Block, h)
    <3>1. Decoding(type)
      BY <1>2, <2>1
    <3>2. /\ Transaction \in Transactions /\ Start \in Nat /\ Block \in Nat
          /\ Place(type) \in Item /\ Place(type).body <= Place(type).end
          /\ Place(type).body <= Block
          /\ IF Place(type).body = Place(type).end
               THEN Place(type).length \in {0, 1}
               ELSE Place(type).length = Place(type).end - Place(type).body
          /\ head.length = Place(type).length
          /\ Uncounted(Transaction, type) \in Nat
          /\ Left = Block - Place(type).body + Uncounted(Transaction, type)
          /\ Left \in 0..Block
      BY <3>1, DecodingIs
    <3>3. Place(g).head = Place(type).end
      BY <1>2, <2>1, <3>2, EncodingAssumption DEF Place
    <3>4. Uncounted(Transaction, g) =
            IF Place(type).length = 1 /\ Place(type).body < Place(type).end
              THEN Uncounted(Transaction, type) + 1 ELSE Uncounted(Transaction, type)
      BY <1>2, <2>1, <3>2, UncountedNext DEF Place
    <3>5. PICK b \in Nat, e \in Nat, l \in Nat, u \in Nat :
            /\ b = Place(type).body /\ e = Place(type).end /\ l = Place(type).length
            /\ u = Uncounted(Transaction, type)
      BY <3>2 DEF Item
    <3>6. /\ b <= e /\ (IF b = e THEN l \in {0, 1} ELSE l = e - b)
          /\ Left = Block - b + u /\ Left \in 0..Block /\ head.length = l
          /\ Uncounted(Transaction, g) = IF l = 1 /\ b < e THEN u + 1 ELSE u
          /\ Place(g).head = e
      BY <3>2, <3>3, <3>4, <3>5
    <3>7. dataLength' = Block - e + Uncounted(Transaction, g) /\ dataLength' \in 0..Block
      <4>1. CASE l = 1
        <5>1. dataLength' = Block - b + u
          BY <1>1, <3>6, <4>1
        <5>2. Uncounted(Transaction, g) = IF b < e THEN u + 1 ELSE u
          BY <3>6, <4>1
        <5>3. e = IF b < e THEN b + 1 ELSE b
          BY <3>6, <4>1
        <5> QED BY <3>2, <3>6, <5>1, <5>2, <5>3
      <4>2. CASE l # 1
        <5>1. Left > l
          <6>1. ~(Left <= l)
            BY <1>1, <3>6, <4>2 DEF FieldRefused, LengthInvalid
          <6> QED BY <3>2, <3>6, <6>1
        <5>2. e = b + l /\ Uncounted(Transaction, g) = u
          BY <3>6, <4>2
        <5>3. PICK d \in Nat : d = Left - l /\ d <= Block
          BY <3>2, <3>6, <5>1
        <5>4. d % Mod16 = d
          <6>1. d < Mod16 /\ Mod16 \in Nat
            BY <1>2, <3>2, <5>3, CommandFacts
          <6> QED BY <6>1, Modulo
        <5>5. dataLength' = d
          BY <1>1, <3>6, <4>2, <5>3, <5>4
        <5> QED BY <3>2, <3>6, <5>2, <5>3, <5>5
      <4> QED BY <4>1, <4>2
    <3> QED BY <1>3, <1>14, <3>1, <3>3, <3>5, <3>6, <3>7
  <2>7. ((\A h \in Fields : Before(h, type) => HeadInside(Transaction, Block, h)) => InStep(type))'
    BY <1>1, <2>2, <2>6 DEF InStep, Place, Transaction, Block, Start
  <2>8. AtField'
    <3>1. /\ (Layout[Transaction].kind = "spend")' /\ LengthOk(Transaction, Block, command.declared)'
          /\ (type \in Fields)' /\ head' = Undecoded
      BY <1>1, <1>2, <2>2 DEF Transaction, Block
    <3> QED BY <2>5, <2>7, <3>1 DEF AtField
  <2> QED BY <1>7, <1>8, <2>3, <2>8 DEF ParsingInv
<1> QED BY <1>13, <1>14

(* Each case of the loop is one of those takes.                             *)
LEMMA FieldInv ==
  ASSUME ParsingInv, ReadRecipient \/ ParseInt \/ SkipInt \/ ReadPayload
  PROVE  ParsingInv'
<1>1. pc = "field" /\ head # Undecoded /\ ~FieldRefused
  BY DEF ReadRecipient, ParseInt, SkipInt, ReadPayload, Take
<1>2. AtType /\ (Decoding(type) => Passed(type))
  BY <1>1, FieldFacts DEF Decoding
<1>3. CASE ReadRecipient
  BY <1>2, <1>3, TakenIsRight, TakeInv DEF ReadRecipient
<1>4. CASE ParseInt
  BY <1>2, <1>4, TakenIsRight, TakeInv DEF ParseInt
<1>5. CASE SkipInt
  BY <1>2, <1>5, TakenIsRight, TakeInv DEF SkipInt
<1>6. CASE ReadPayload
  BY <1>2, <1>6, TakenIsRight, TakeInv DEF ReadPayload
<1> QED BY <1>3, <1>4, <1>5, <1>6

(* Nothing moves.                                                           *)
LEMMA StutterInv == ParsingInv /\ UNCHANGED vars => ParsingInv'
<1> SUFFICES ASSUME ParsingInv, UNCHANGED vars PROVE ParsingInv'
  OBVIOUS
<1>1. UNCHANGED <<command, data, dataLength, head, remain, type, transactionType, shown, pc>>
  BY DEF vars
<1> USE <1>1 DEF ParsingInv, Transaction, Block, Start
<1>2. TypeOK' /\ AtHeader' /\ AtList'
  BY DEF TypeOK, AtHeader, AtList, Untouched, ListHead
<1>3. AtField'
  BY DEF AtField, Taken, Passed, InStep, HeadFor, IsOwnHead, Place, ValueOf
<1>4. ParsesLayout'
  BY DEF ParsesLayout, ValueOf
<1> QED BY <1>2, <1>3, <1>4

(* Every step keeps the invariant.                                          *)
LEMMA NextInv == ParsingInv /\ [Next]_vars => ParsingInv'
<1> SUFFICES ASSUME ParsingInv, [Next]_vars PROVE ParsingInv'
  OBVIOUS
<1>1. CASE ReadHeader BY <1>1, HeaderInv
<1>2. CASE Decode BY <1>2, DecodeInv
<1>3. CASE Overrun BY <1>3, OverrunInv
<1>4. CASE ReadList BY <1>4, ListInv
<1>5. CASE RefuseField BY <1>5, RefuseInv
<1>6. CASE ReadRecipient \/ ParseInt \/ SkipInt \/ ReadPayload BY <1>6, FieldInv
<1>7. CASE Parsed BY <1>7, StutterInv DEF Parsed
<1>8. CASE UNCHANGED vars BY <1>8, StutterInv
<1> QED BY <1>1, <1>2, <1>3, <1>4, <1>5, <1>6, <1>7, <1>8 DEF Next

(* utils.c:163-246, 347-432: reading the bytes of a first block step by     *)
(* step keeps to the layout as long as the heads are in the block, whatever *)
(* stands behind it.                                                        *)
THEOREM ParsingInvariant == Spec => []ParsingInv
<1>1. Init => ParsingInv
  BY InitInv
<1>2. ParsingInv /\ [Next]_vars => ParsingInv'
  BY NextInv
<1> QED BY <1>1, <1>2, PTL DEF Spec

(* What handleSign and parseTx make of the bytes of a first block is what   *)
(* ParseTx says of its layout: for every transaction, size of the block,    *)
(* header, and bytes that were left over behind the block, the same blocks  *)
(* are refused, the same display buffers overwritten, and the fields that   *)
(* the block holds are read from their own bytes.                           *)
THEOREM ParsesAsLayout == Spec => []ParsesLayout
<1>1. ParsingInv => ParsesLayout
  BY DEF ParsingInv
<1> QED BY <1>1, ParsingInvariant, PTL
=============================================================================
