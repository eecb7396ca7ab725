----------------------- MODULE SignTransaction_proofs -----------------------
(***************************************************************************)
(* The safety of the SIGN command for every set of transactions, every host *)
(* and every bound: the type invariant, ReviewIsComplete, ShownIsHashed and *)
(* ShownIsSigned, from one inductive invariant.                             *)
(***************************************************************************)
EXTENDS SignTransaction, TLAPS

(* What the uint32_t counter holds: the bytes still to come, or how far the *)
(* host went beyond the declared length, seen from 2^32.                    *)
Left(declared, fed) ==
  IF fed <= declared THEN declared - fed ELSE declared + Mod32 - fed

(* The counter follows the stream, and a review is open only at its zero.   *)
Counting == remainTransactionLength = Left(session.declared, session.fed)
Countdown == Counting /\ (Reviewed => remainTransactionLength = 0)

(* What an accepted first block established and later blocks maintain.      *)
Stream ==
  session.accepted =>
    /\ accountNumber = session.account /\ networkId = session.network
    /\ hash.open => hash.tx = session.tx /\ hash.len = session.fed
    /\ Layout[session.tx].kind = "spend" =>
         \A f \in DisplayFields :
           Intact(session.tx, session.first, f) => shown[f] = session.tx

(* Type correctness of the parts a block writes.                            *)
StreamTypeOK ==
  /\ accountNumber \in Accounts
  /\ remainTransactionLength \in 0..(Mod32 - 1)
  /\ networkId \in NetworkIds
  /\ hash \in Digest
  /\ shown \in [DisplayFields -> Transactions \cup {NoTx, Garbled}]
  /\ transactionType \in {"spend", "other"}
  /\ session \in Session
  /\ session.accepted => session.tx \in Transactions

(* What holds of the statics wherever the screens stand.                    *)
Streaming == StreamTypeOK /\ Counting /\ Stream

AnswerOK == answer \in Signature \cup {NoData}

(* The inductive invariant.                                                 *)
SignInv == TypeOK /\ Countdown /\ Stream

-----------------------------------------------------------------------------
(* The modulus brings every integer into the range of a uint32_t.           *)
LEMMA ModRange ==
  ASSUME NEW x \in Int PROVE x % Mod32 \in 0..(Mod32 - 1)
BY SizesAssumption

(* A number in that range is its own remainder.                             *)
LEMMA ModSmall ==
  ASSUME NEW x \in 0..(Mod32 - 1) PROVE x % Mod32 = x
BY SizesAssumption

(* A negative number in reach wraps around once, as unsigned C does.        *)
LEMMA ModNegative ==
  ASSUME NEW x \in Int, -Mod32 < x, x < 0 PROVE x % Mod32 = x + Mod32
BY SizesAssumption

(* Counting n bytes down is counting them up from the declared length.      *)
LEMMA LeftStep ==
  ASSUME NEW declared \in 0..(Mod32 - 1), NEW fed \in Nat, NEW n \in Nat,
         fed + n < Mod32
  PROVE  (Left(declared, fed) - n) % Mod32 = Left(declared, fed + n)
<1> USE SizesAssumption
<1>1. CASE fed + n <= declared
  <2>1. Left(declared, fed) - n = declared - (fed + n)
    BY <1>1 DEF Left
  <2>2. declared - (fed + n) \in 0..(Mod32 - 1)
    BY <1>1
  <2> QED BY <1>1, <2>1, <2>2, ModSmall DEF Left
<1>2. CASE fed <= declared /\ declared < fed + n
  <2>1. Left(declared, fed) - n = declared - (fed + n)
    BY <1>2 DEF Left
  <2>2. /\ declared - (fed + n) \in Int
        /\ -Mod32 < declared - (fed + n) /\ declared - (fed + n) < 0
    BY <1>2
  <2> QED BY <1>2, <2>1, <2>2, ModNegative DEF Left
<1>3. CASE declared < fed
  <2>1. Left(declared, fed) - n = declared + Mod32 - (fed + n)
    BY <1>3 DEF Left
  <2>2. declared + Mod32 - (fed + n) \in 0..(Mod32 - 1)
    BY <1>3
  <2> QED BY <1>3, <2>1, <2>2, ModSmall DEF Left
<1> QED BY <1>1, <1>2, <1>3

(* The counter stands at zero only when all declared bytes are in.          *)
LEMMA LeftZero ==
  ASSUME NEW declared \in 0..(Mod32 - 1), NEW fed \in Nat, fed < Mod32,
         Left(declared, fed) = 0
  PROVE  fed = declared
BY SizesAssumption DEF Left

(* A host that follows the protocol declares lengths in range as well.      *)
LEMMA DeclarationsInRange == Declarations \subseteq 0..(Mod32 - 1)
<1>1. \A t \in Transactions : Layout[t].len \in Nat /\ Layout[t].len < Mod32
  BY LayoutAssumption, SizesAssumption DEF LayoutType
<1>2. \A t \in Transactions : Layout[t].len \in 0..(Mod32 - 1)
  BY <1>1, SizesAssumption
<1>3. CASE HostFollowsProtocol
  BY <1>2, <1>3 DEF Declarations
<1>4. CASE ~HostFollowsProtocol
  BY <1>4, SignAssumption DEF Declarations
<1> QED BY <1>3, <1>4

(* A parse that is not refused reaches every field, so what a first block   *)
(* holds in full is displayed.                                              *)
LEMMA AcceptedIsShown ==
  ASSUME NEW tx \in Transactions, NEW n, NEW declared, NEW stray,
         Layout[tx].kind = "spend", ParseOk(tx, n, declared, stray),
         Display(tx, n, declared, stray),
         NEW f \in DisplayFields, Intact(tx, n, f)
  PROVE  shown'[f] = tx
<1>1. DisplayFields \subseteq Fields
  BY DEF DisplayFields, Fields, Position
<1>2. f \in Decoded(tx, n, declared, stray)
  BY <1>1 DEF ParseOk, Decoded
<1> QED BY <1>2 DEF Display, Text
-----------------------------------------------------------------------------
(* The part of the type invariant that is about the shared variables.       *)
ScreenOK ==
  /\ GlobalsTypeOK
  /\ ux.flow \in {"idle", "tx"} /\ (pending => ux.flow = "tx")

(* Where the screens of the review that matter are.                         *)
LEMMA Steps == /\ FlowLength["tx"] = 7 /\ FlowLength["idle"] = 4
               /\ {"tx", "idle"} \subseteq Flows
               /\ ApproveStep("tx") = 6
BY DEF FlowLength, Flows, ApproveStep

(* The status words that the handler and its callbacks throw.               *)
LEMMA StatusWordsUsed == {"9000", "6A80", "6B00", "68xx"} \subseteq StatusWords
BY DEF StatusWords

(* A handler that throws leaves a well-formed screen.                       *)
LEMMA ThrowScreen ==
  ASSUME ScreenOK, NEW sw \in StatusWords, Throw(sw) PROVE ScreenOK'
BY DEF ScreenOK, GlobalsTypeOK, Throw, Outcomes

(* Opening the review gives a well-formed screen.                           *)
LEMMA ConfirmScreen ==
  ASSUME Confirm("tx") PROVE ScreenOK'
BY Steps DEF ScreenOK, GlobalsTypeOK, Confirm, Show, Screen, Outcomes

(* So does the idle flow.                                                   *)
LEMMA IdleScreen ==
  /\ UiIdle \in Screen /\ UiIdle.flow = "idle"
  /\ UiIdle.at = 1 /\ UiIdle.far = 1 /\ FlowLength[UiIdle.flow] = 4
BY Steps DEF UiIdle, Show, Screen

(* sendResponse ends on the idle screen and owes nothing.                   *)
LEMMA SendScreen ==
  ASSUME NEW approve \in BOOLEAN, NEW data, SendResponse(approve, data)
  PROVE  ScreenOK' /\ ~pending'
<1>1. ~pending' /\ pending' \in BOOLEAN
  BY Zenon DEF SendResponse
<1>2. result' \in Outcomes
  BY DEF SendResponse, Outcomes, StatusWords
<1>3. ux' = UiIdle
  BY DEF SendResponse
<1> QED BY <1>1, <1>2, <1>3, IdleScreen DEF ScreenOK, GlobalsTypeOK

(* A callback that throws keeps the screen and owes nothing.                *)
LEMMA CallbackScreen ==
  ASSUME ScreenOK, CallbackThrows("68xx") PROVE ScreenOK' /\ ~pending'
BY DEF ScreenOK, GlobalsTypeOK, CallbackThrows, Outcomes, StatusWords

(* A reset ends on the idle screen and owes nothing.                        *)
LEMMA ResetScreenOK ==
  ASSUME ResetScreen PROVE ScreenOK' /\ ~pending'
<1>1. ~pending' /\ pending' \in BOOLEAN
  BY Zenon DEF ResetScreen
<1>2. result' \in Outcomes
  BY DEF ResetScreen, Outcomes
<1>3. ux' = UiIdle
  BY DEF ResetScreen
<1> QED BY <1>1, <1>2, <1>3, IdleScreen DEF ScreenOK, GlobalsTypeOK

(* The buttons move within the review and never back from "far".            *)
LEMMA MoveScreen ==
  ASSUME ScreenOK, ux.flow = "tx", MoveLeft \/ MoveRight
  PROVE  ScreenOK' /\ ux'.flow = "tx"
<1>1. PICK step \in 1..7 : ShowStep(step)
  BY Steps DEF MoveLeft, MoveRight, ShowStep
<1>2. /\ ux \in Screen /\ ux.far \in 1..7
      /\ ux.at <= ux.far /\ ux.far <= 7
  BY Steps DEF ScreenOK, GlobalsTypeOK, Screen
<1>3. DEFINE far == IF step < ux.far THEN ux.far ELSE step
<1>4. far \in 1..7 /\ step <= far
  BY <1>2
<1>5. ux' = [ux EXCEPT !.at = step, !.far = far]
  BY <1>1 DEF ShowStep, ConfirmFlows
<1>6. ux' = [flow |-> "tx", at |-> step, far |-> far]
  BY <1>2, <1>5 DEF Screen
<1> HIDE DEF far
<1>7. ux' \in Screen /\ ux'.at <= ux'.far /\ ux'.far <= FlowLength[ux'.flow]
  BY <1>4, <1>6, Steps DEF Screen
<1> QED BY <1>1, <1>6, <1>7 DEF ScreenOK, GlobalsTypeOK, ShowStep

-----------------------------------------------------------------------------
(* The statics as they are zeroed at the start are consistent.              *)
LEMMA Zeroed_Streaming == SignInit => Streaming
<1> SUFFICES ASSUME SignInit PROVE Streaming
  OBVIOUS
<1> USE DEF SignInit, NoSession, EmptyHash
<1>1. 0 \in 0..(Mod32 - 1) /\ 0 \in 0..MaxFed
  BY SignAssumption, AccountsAssumption, SizesAssumption
<1>2. session \in Session /\ ~session.accepted
  BY <1>1, SignAssumption, AccountsAssumption DEF Session
<1>3. hash \in Digest
  BY DEF Digest
<1>4. shown \in [DisplayFields -> Transactions \cup {NoTx, Garbled}]
  OBVIOUS
<1>5. StreamTypeOK
  BY <1>1, <1>2, <1>3, <1>4, SignAssumption, AccountsAssumption DEF StreamTypeOK
<1>6. Counting
  <2>1. /\ remainTransactionLength = 0
        /\ session.declared = 0 /\ session.fed = 0
    OBVIOUS
  <2> QED BY <2>1 DEF Counting, Left
<1> QED BY <1>2, <1>5, <1>6 DEF Stream, Streaming

(* So are they as a restart zeroes them.                                    *)
LEMMA Relaunch_Streaming ==
  ASSUME Relaunch PROVE Streaming'
<1> USE DEF Relaunch, NoSession, EmptyHash
<1>1. 0 \in 0..(Mod32 - 1) /\ 0 \in 0..MaxFed
  BY SignAssumption, AccountsAssumption, SizesAssumption
<1>2. session' \in Session /\ ~session'.accepted
  BY <1>1, SignAssumption, AccountsAssumption DEF Session
<1>3. hash' \in Digest
  BY DEF Digest
<1>4. shown' \in [DisplayFields -> Transactions \cup {NoTx, Garbled}]
  OBVIOUS
<1>5. StreamTypeOK'
  BY <1>1, <1>2, <1>3, <1>4, SignAssumption, AccountsAssumption DEF StreamTypeOK
<1>6. Counting'
  <2>1. /\ remainTransactionLength' = 0
        /\ session'.declared = 0 /\ session'.fed = 0
    OBVIOUS
  <2> QED BY <2>1 DEF Counting, Left
<1> QED BY <1>2, <1>5, <1>6 DEF Stream, Streaming

(* The display buffers hold the text of a transaction or none.              *)
LEMMA DisplayType ==
  ASSUME NEW tx \in Transactions, NEW n, NEW declared, NEW stray,
         shown \in [DisplayFields -> Transactions \cup {NoTx, Garbled}],
         Display(tx, n, declared, stray)
  PROVE  shown' \in [DisplayFields -> Transactions \cup {NoTx, Garbled}]
BY DEF Display, Text

(* The transaction type is one of the two of txType.                        *)
LEMMA ReadTypeType ==
  ASSUME NEW tx \in Transactions, NEW n, NEW declared,
         transactionType \in {"spend", "other"}, ReadType(tx, n, declared)
  PROVE  transactionType' \in {"spend", "other"}
<1>1. Layout[tx].kind \in {"spend", "other"}
  BY LayoutAssumption DEF LayoutType
<1> QED BY <1>1 DEF ReadType

(* A refused first block has set the counter and fed nothing.               *)
LEMMA FirstBlockRefused_Streaming ==
  ASSUME Streaming, NEW tx \in Transactions, NEW account \in Accounts,
         NEW network \in NetworkIds, NEW declared \in Declarations,
         NEW n \in BlockSizes, NEW stray \in Strays(tx, n),
         FirstBlockRefused(tx, account, network, declared, n, stray)
  PROVE  Streaming'
<1> USE DEF FirstBlockRefused, FirstBlock
<1>1. declared \in 0..(Mod32 - 1) /\ n \in Nat
  BY DeclarationsInRange, SizesAssumption
<1>2. /\ session' = Streamed(tx, account, network, declared, n, FALSE)
      /\ session'.declared = declared /\ session'.fed = 0
      /\ ~session'.accepted
  BY DEF Streamed
<1>3. StreamTypeOK'
  <2>1. 0 \in 0..MaxFed
    BY SignAssumption
  <2>2. session' \in Session
    BY <1>1, <1>2, <2>1 DEF Session, Streamed
  <2>3. hash' \in Digest
    BY DEF EmptyHash, Digest
  <2>4. shown' \in [DisplayFields -> Transactions \cup {NoTx, Garbled}]
    BY DisplayType DEF Streaming, StreamTypeOK
  <2>5. transactionType' \in {"spend", "other"}
    BY ReadTypeType DEF Streaming, StreamTypeOK
  <2> QED BY <1>1, <1>2, <2>2, <2>3, <2>4, <2>5 DEF StreamTypeOK
<1>4. Left(declared, 0) = declared
  BY <1>1 DEF Left
<1> QED BY <1>2, <1>3, <1>4 DEF Counting, Stream, Streaming

(* What the common end of the handler does to digest and counter.           *)
LEMMA Absorbed ==
  ASSUME NEW digest \in Digest, NEW n \in Nat,
         NEW declared \in 0..(Mod32 - 1), NEW fed \in Nat,
         NEW total \in Nat, total = fed + n, total < Mod32,
         NEW own, NEW remain, remain = Left(declared, fed),
         Absorb(digest, remain, n, own)
  PROVE  /\ hash' \in Digest
         /\ remainTransactionLength' = Left(declared, total)
         /\ remainTransactionLength' \in 0..(Mod32 - 1)
         /\ hash'.open = digest.open /\ hash'.tx = digest.tx
         /\ digest.open => hash'.len = digest.len + n
<1>1. Left(declared, fed) \in Int
  BY SizesAssumption DEF Left
<1>2. /\ remainTransactionLength' = Left(declared, total)
      /\ remainTransactionLength' \in 0..(Mod32 - 1)
  <2>1. (Left(declared, fed) - n) % Mod32 \in 0..(Mod32 - 1)
    BY <1>1, ModRange
  <2> QED BY <2>1, LeftStep DEF Absorb, Remaining, Ends
<1>3. CASE ~digest.open
  BY <1>2, <1>3 DEF Absorb, Remaining, Ends
<1>4. CASE digest.open
  <2> DEFINE foreign == digest.foreign \/ ~own
  <2>1. foreign \in BOOLEAN
    BY Zenon
  <2>2. digest.len + n \in Nat
    BY DEF Digest
  <2>3. hash' = [digest EXCEPT !.len = digest.len + n, !.foreign = foreign]
    BY <1>4 DEF Absorb, Remaining, Ends
  <2> HIDE DEF foreign
  <2>4. /\ hash' \in Digest /\ hash'.open = digest.open /\ hash'.tx = digest.tx
        /\ hash'.len = digest.len + n
    BY <2>1, <2>2, <2>3 DEF Digest
  <2> QED BY <1>2, <2>4
<1> QED BY <1>3, <1>4

(* Bytes of the transaction itself do not make a digest foreign.            *)
LEMMA AbsorbedOwn ==
  ASSUME NEW digest \in Digest, NEW n, NEW remain, NEW own,
         own, digest.open, ~digest.foreign, Absorb(digest, remain, n, own)
  PROVE  ~hash'.foreign
<1> DEFINE foreign == digest.foreign \/ ~own
<1>1. ~foreign
  BY Zenon
<1>2. hash' = [digest EXCEPT !.len = digest.len + n, !.foreign = foreign]
  BY DEF Absorb, Remaining, Ends
<1> HIDE DEF foreign
<1>3. hash'.foreign = foreign
  BY <1>2 DEF Digest
<1> QED BY <1>1, <1>3, Zenon

(* An accepted one has fed its bytes to a new digest and shown them.        *)
LEMMA FirstBlockAccepted_Streaming ==
  ASSUME Streaming, NEW tx \in Transactions, NEW account \in Accounts,
         NEW network \in NetworkIds, NEW declared \in Declarations,
         NEW n \in BlockSizes, NEW stray \in Strays(tx, n),
         FirstBlockAccepted(tx, account, network, declared, n, stray)
  PROVE  /\ Streaming'
         /\ session'.accepted /\ session'.tx = tx /\ session'.fed = n
         /\ session'.declared = declared
         /\ hash'.open /\ ~hash'.foreign
<1> USE DEF FirstBlockAccepted, FirstBlock, Restarted
<1> DEFINE digest == [EmptyHash EXCEPT !.tx = tx]
<1>1. declared \in 0..(Mod32 - 1) /\ n \in Nat /\ n <= MaxFed
  BY DeclarationsInRange, SizesAssumption
<1>2. /\ session' = Streamed(tx, account, network, declared, n, TRUE)
      /\ session'.tx = tx /\ session'.first = n /\ session'.accepted
      /\ session'.account = account /\ session'.network = network
      /\ session'.declared = declared /\ session'.fed = n
  BY DEF Streamed
<1>3. /\ digest \in Digest /\ digest.open /\ digest.tx = tx /\ digest.len = 0
      /\ ~digest.foreign
  BY DEF EmptyHash, Digest
<1>4. /\ hash' \in Digest
      /\ remainTransactionLength' = Left(declared, n)
      /\ remainTransactionLength' \in 0..(Mod32 - 1)
      /\ hash'.open /\ hash'.tx = tx /\ hash'.len = n /\ ~hash'.foreign
  <2>1. Left(declared, 0) = declared
    BY <1>1 DEF Left
  <2>2. n < Mod32 /\ n = 0 + n
    BY <1>1, SignAssumption, SizesAssumption
  <2> DEFINE yes == TRUE
  <2>3. Absorb(digest, declared, n, yes)
    OBVIOUS
  <2>4. yes
    OBVIOUS
  <2> HIDE DEF digest, yes
  <2>5. /\ hash' \in Digest
        /\ remainTransactionLength' = Left(declared, n)
        /\ remainTransactionLength' \in 0..(Mod32 - 1)
        /\ hash'.open = digest.open /\ hash'.tx = digest.tx
        /\ hash'.len = digest.len + n
    <3> DEFINE none == 0
    <3>1. none \in Nat /\ n \in Nat /\ declared \in 0..(Mod32 - 1)
      BY <1>1
    <3>2. declared = Left(declared, none) /\ n = none + n
      BY <2>1, <2>2
    <3> HIDE DEF none
    <3>3. n < Mod32
      BY <2>2
    <3>4. digest \in Digest
      BY <1>3
    <3>5. hash' \in Digest
      BY ONLY <2>3, <3>1, <3>2, <3>3, <3>4, Absorbed
    <3>6. hash'.tx = digest.tx
      BY ONLY <2>3, <3>1, <3>2, <3>3, <3>4, Absorbed
    <3>7. remainTransactionLength' = Left(declared, n)
      BY ONLY <2>3, <3>1, <3>2, <3>3, <3>4, Absorbed
    <3>8. hash'.open = digest.open
      BY ONLY <2>3, <3>1, <3>2, <3>3, <3>4, Absorbed
    <3>9. digest.open => hash'.len = digest.len + n
      BY ONLY <2>3, <3>1, <3>2, <3>3, <3>4, Absorbed
    <3>10. remainTransactionLength' \in 0..(Mod32 - 1)
      BY ONLY <2>3, <3>1, <3>2, <3>3, <3>4, Absorbed
    <3> QED BY <1>3, <3>5, <3>6, <3>7, <3>8, <3>9, <3>10
  <2>6. ~hash'.foreign
    BY <1>3, <2>3, <2>4, AbsorbedOwn
  <2> QED BY <1>1, <1>3, <2>5, <2>6
<1>5. StreamTypeOK'
  <2>1. session' \in Session
    BY <1>1, <1>2 DEF Session, Streamed
  <2>2. shown' \in [DisplayFields -> Transactions \cup {NoTx, Garbled}]
    BY DisplayType DEF Streaming, StreamTypeOK
  <2>3. transactionType' \in {"spend", "other"}
    BY ReadTypeType DEF Streaming, StreamTypeOK
  <2> QED BY <1>2, <1>4, <2>1, <2>2, <2>3 DEF StreamTypeOK
<1>6. Stream'
  <2>1. ASSUME Layout[tx].kind = "spend", NEW f \in DisplayFields,
               Intact(tx, n, f)
        PROVE  shown'[f] = tx
    BY <2>1, AcceptedIsShown
  <2> QED BY <1>2, <1>4, <2>1 DEF Stream
<1> QED BY <1>2, <1>4, <1>5, <1>6 DEF Counting, Streaming

(* A network id that is too long has set counter and account only.          *)
LEMMA NetworkIdTooLong_Streaming ==
  ASSUME Streaming, NEW account \in Accounts, NEW declared \in Declarations,
         NetworkIdTooLong(account, declared)
  PROVE  Streaming'
<1> USE DEF NetworkIdTooLong
<1>1. declared \in 0..(Mod32 - 1)
  BY DeclarationsInRange
<1>2. /\ session' = Streamed(NoTx, account, networkId, declared, 0, FALSE)
      /\ session'.declared = declared /\ session'.fed = 0
      /\ ~session'.accepted
  BY DEF Streamed
<1>3. StreamTypeOK'
  <2>1. 0 \in 0..MaxFed
    BY SignAssumption
  <2>2. session' \in Session
    BY <1>1, <1>2, <2>1 DEF Session, Streamed, Streaming, StreamTypeOK
  <2>3. hash' \in Digest
    BY DEF EmptyHash, Digest
  <2> QED BY <1>1, <1>2, <2>2, <2>3 DEF StreamTypeOK, Streaming
<1>4. Left(declared, 0) = declared
  BY <1>1 DEF Left
<1> QED BY <1>2, <1>3, <1>4 DEF Counting, Stream, Streaming

(* A further block counts down what it feeds, whoever sent it.              *)
LEMMA MoreBlock_Streaming ==
  ASSUME Streaming, NEW n \in BlockSizes, NEW own \in BOOLEAN, MoreBlock(n, own)
  PROVE  /\ Streaming'
         /\ session'.accepted = session.accepted /\ session'.tx = session.tx
         /\ session'.declared = session.declared
         /\ session'.fed = session.fed + n
         /\ hash'.open = hash.open
         /\ hash.open /\ own /\ ~hash.foreign => ~hash'.foreign
<1> USE DEF MoreBlock
<1>1. /\ session \in Session /\ n \in Nat /\ hash \in Digest
      /\ session.fed \in Nat /\ session.fed + n <= MaxFed
      /\ session.declared \in 0..(Mod32 - 1)
  BY SizesAssumption, SignAssumption DEF Streaming, StreamTypeOK, Session
<1>2. /\ session' \in Session
      /\ session'.fed = session.fed + n
      /\ session'.declared = session.declared /\ session'.tx = session.tx
      /\ session'.first = session.first
      /\ session'.account = session.account
      /\ session'.network = session.network
      /\ session'.accepted = session.accepted
  <2>1. session.fed + n \in 0..MaxFed
    BY <1>1, SignAssumption
  <2> QED BY <1>1, <2>1 DEF Session
<1>3. /\ hash' \in Digest
      /\ remainTransactionLength' = Left(session.declared, session.fed + n)
      /\ remainTransactionLength' \in 0..(Mod32 - 1)
      /\ hash'.open = hash.open /\ hash'.tx = hash.tx
      /\ hash.open => hash'.len = hash.len + n
  <2>1. /\ session.fed + n < Mod32
        /\ Absorb(hash, Left(session.declared, session.fed), n, own)
    BY <1>1, SignAssumption, SizesAssumption DEF Streaming, Counting
  <2> QED BY <1>1, <2>1, Absorbed
<1>4. StreamTypeOK'
  BY <1>2, <1>3 DEF StreamTypeOK, Streaming
<1>5. Stream'
  BY <1>2, <1>3 DEF Stream, Streaming
<1>6. ASSUME hash.open, own, ~hash.foreign PROVE ~hash'.foreign
  BY <1>1, <1>6, AbsorbedOwn
<1> QED BY <1>2, <1>3, <1>4, <1>5, <1>6 DEF Counting, Streaming

(* A digest that is closed, or statics that stand, keep the stream.         *)
LEMMA Closed_Streaming ==
  ASSUME Streaming, CloseDigest \/ UNCHANGED signVars
  PROVE  /\ Streaming'
         /\ UNCHANGED <<accountNumber, remainTransactionLength, networkId, shown,
                        transactionType, session>>
         /\ hash'.open => hash' = hash
<1>1. /\ UNCHANGED <<accountNumber, remainTransactionLength, networkId, shown,
                     transactionType, session>>
      /\ hash' \in Digest
      /\ hash'.open => hash' = hash
  <2>1. CASE CloseDigest
    <3>1. hash \in Digest /\ hash' = [hash EXCEPT !.open = FALSE]
      BY <2>1 DEF CloseDigest, Streaming, StreamTypeOK
    <3>2. hash' \in Digest /\ ~hash'.open
      BY <3>1 DEF Digest
    <3> QED BY <2>1, <3>2 DEF CloseDigest
  <2>2. CASE UNCHANGED signVars
    BY <2>2 DEF signVars, Streaming, StreamTypeOK
  <2> QED BY <2>1, <2>2
<1>2. StreamTypeOK'
  BY <1>1 DEF Streaming, StreamTypeOK
<1> QED BY <1>1, <1>2 DEF Streaming, Counting, Stream

(* The command keeps the statics consistent, whatever block it is sent.     *)
LEMMA HandleSign_Streaming ==
  ASSUME Streaming, HandleSign PROVE Streaming'
<1>1. ASSUME NEW tx \in Transactions, NEW account \in Accounts,
             NEW network \in NetworkIds, NEW declared \in Declarations,
             NEW n \in BlockSizes, NEW stray \in Strays(tx, n),
             \/ FirstBlockRefused(tx, account, network, declared, n, stray)
             \/ FirstBlockAccepted(tx, account, network, declared, n, stray)
      PROVE  Streaming'
  BY <1>1, FirstBlockRefused_Streaming, FirstBlockAccepted_Streaming
<1>2. ASSUME NEW account \in Accounts, NEW declared \in Declarations,
             NetworkIdTooLong(account, declared)
      PROVE  Streaming'
  BY <1>2, NetworkIdTooLong_Streaming
<1>3. ASSUME NEW n \in BlockSizes, NEW own \in BOOLEAN, MoreBlock(n, own)
      PROVE  Streaming'
  BY <1>3, MoreBlock_Streaming
<1>4. CASE MoreBlockThrows \/ OtherP1
  BY <1>4, Closed_Streaming DEF MoreBlockThrows, OtherP1
<1> QED BY <1>1, <1>2, <1>3, <1>4 DEF HandleSign

(* The command ends in a refusal or an acknowledgement, or in the review at *)
(* zero of the counter; never while a review is awaited.  A host that       *)
(* follows the protocol is refused first blocks only.                       *)
LEMMA HandleSignEnds ==
  ASSUME HandleSign
  PROVE  /\ ~pending
         /\ \/ Confirm("tx") /\ remainTransactionLength' = 0
            \/ \E sw \in StatusWords : Throw(sw)
         /\ HostFollowsProtocol =>
              Confirm("tx") \/ Throw("9000") \/ Throw("6A80")
<1>1. ASSUME NEW digest, NEW remain, NEW n, NEW own, Absorb(digest, remain, n, own)
      PROVE  \/ Confirm("tx") /\ remainTransactionLength' = 0
             \/ Throw("9000")
  BY <1>1 DEF Absorb, Ends
<1>2. ASSUME NEW tx, NEW account, NEW network, NEW declared, NEW n, NEW stray,
             FirstBlockAccepted(tx, account, network, declared, n, stray)
      PROVE  /\ ~pending
             /\ \/ Confirm("tx") /\ remainTransactionLength' = 0
                \/ Throw("9000")
  <2> DEFINE yes == TRUE
             digest == [EmptyHash EXCEPT !.tx = tx]
  <2>1. Absorb(digest, declared, n, yes) /\ ~pending
    BY <1>2 DEF FirstBlockAccepted, FirstBlock, Restarted
  <2> HIDE DEF yes, digest
  <2> QED BY <2>1, <1>1
<1>3. ASSUME NEW tx, NEW account, NEW network, NEW declared, NEW n, NEW stray,
             FirstBlockRefused(tx, account, network, declared, n, stray)
      PROVE  ~pending /\ Throw("6A80")
  BY <1>3 DEF FirstBlockRefused, FirstBlock
<1>4. ASSUME NEW n, NEW own, MoreBlock(n, own)
      PROVE  /\ ~pending
             /\ \/ Confirm("tx") /\ remainTransactionLength' = 0
                \/ Throw("9000")
  BY <1>1, <1>4 DEF MoreBlock
<1>5. ASSUME NEW account, NEW declared, NetworkIdTooLong(account, declared)
      PROVE  ~pending /\ Throw("6A80")
  BY <1>5 DEF NetworkIdTooLong
<1>6. CASE MoreBlockThrows
  BY <1>6, StatusWordsUsed DEF MoreBlockThrows
<1>7. CASE OtherP1
  BY <1>7, StatusWordsUsed DEF OtherP1
<1> QED BY <1>2, <1>3, <1>4, <1>5, <1>6, <1>7, StatusWordsUsed DEF HandleSign

-----------------------------------------------------------------------------
(* The invariant by the parts that the steps below establish one by one.    *)
LEMMA SignInvParts ==
  /\ SignInv <=> /\ ScreenOK /\ AnswerOK /\ Streaming
                 /\ Reviewed => remainTransactionLength = 0
  /\ SignInv' <=> /\ ScreenOK' /\ AnswerOK' /\ Streaming'
                  /\ Reviewed' => remainTransactionLength' = 0
BY DEF SignInv, TypeOK, ScreenOK, StreamTypeOK, AnswerOK, Streaming, Counting,
       Countdown

(* The program starts on the idle screen, its statics zeroed.               *)
LEMMA Init_SignInv == Init => SignInv
<1> SUFFICES ASSUME Init PROVE SignInv
  OBVIOUS
<1>1. ~pending /\ pending \in BOOLEAN
  BY Zenon DEF Init, GlobalsInit
<1>2. ux = UiIdle /\ result \in Outcomes /\ answer = NoData
  BY DEF Init, GlobalsInit, Outcomes
<1>3. ScreenOK /\ AnswerOK
  BY <1>1, <1>2, IdleScreen DEF ScreenOK, GlobalsTypeOK, AnswerOK
<1> QED BY <1>1, <1>3, Zeroed_Streaming, SignInvParts DEF Init, Reviewed

(* The command: a review opens at zero of the counter only.                 *)
LEMMA HandleSign_SignInv ==
  ASSUME SignInv, HandleSign PROVE SignInv'
<1>1. Streaming'
  BY HandleSign_Streaming, SignInvParts
<1>2. ScreenOK' /\ AnswerOK' /\ (Reviewed' => remainTransactionLength' = 0)
  <2>1. CASE Confirm("tx") /\ remainTransactionLength' = 0
    BY <2>1, ConfirmScreen DEF Confirm, AnswerOK
  <2>2. ASSUME NEW sw \in StatusWords, Throw(sw)
        PROVE  ScreenOK' /\ AnswerOK' /\ ~pending'
    <3>1. ScreenOK'
      BY <2>2, SignInvParts, ThrowScreen
    <3>2. answer' = NoData /\ pending' = pending
      BY <2>2 DEF Throw
    <3> QED BY <3>1, <3>2, HandleSignEnds DEF AnswerOK
  <2> QED BY <2>1, <2>2, HandleSignEnds DEF Reviewed
<1> QED BY <1>1, <1>2, SignInvParts

(* The review is closed, with or without an answer, the digest too or not.  *)
LEMMA Closed_SignInv ==
  ASSUME SignInv, ScreenOK', AnswerOK', ~pending',
         CloseDigest \/ UNCHANGED signVars
  PROVE  SignInv'
<1>1. Streaming'
  BY Closed_Streaming, SignInvParts
<1> QED BY <1>1, SignInvParts DEF Reviewed

(* The signature is over an account, a network id and a digest.             *)
LEMMA SignatureType ==
  ASSUME SignInv PROVE SignatureMade \in Signature
<1> DEFINE tx == IF hash.open THEN hash.tx ELSE NoTx
           foreign == hash.foreign \/ ~hash.open
<1>1. tx \in Transactions \cup {NoTx} /\ hash.len \in Nat
  BY DEF SignInv, TypeOK, Digest
<1>2. foreign \in BOOLEAN
  BY Zenon
<1>3. SignatureMade = [account |-> accountNumber, network |-> networkId,
                       tx |-> tx, len |-> hash.len, foreign |-> foreign]
  BY DEF SignatureMade, SigningAccount
<1> HIDE DEF tx, foreign
<1> QED BY <1>1, <1>2, <1>3 DEF Signature, SignInv, TypeOK

(* The last screens of the review leave the stream as it is.                *)
LEMMA SignScreens_SignInv ==
  ASSUME SignInv, SignScreens PROVE SignInv'
<1>1. CASE SingAndSend
  <2>1. ScreenOK' /\ ~pending'
    <3> DEFINE yes == TRUE
    <3>1. yes \in BOOLEAN /\ SendResponse(yes, SignatureMade)
      BY <1>1 DEF SingAndSend
    <3> HIDE DEF yes
    <3> QED BY <3>1, SendScreen
  <2>2. AnswerOK'
    BY <1>1, SignatureType DEF SingAndSend, SendResponse, AnswerOK
  <2> QED BY <1>1, <2>1, <2>2, Closed_SignInv DEF SingAndSend
<1>2. CASE SingAndSendThrows
  <2>1. ScreenOK' /\ ~pending' /\ AnswerOK'
    BY <1>2, CallbackScreen
       DEF SingAndSendThrows, CallbackThrows, AnswerOK, SignInv, TypeOK,
           ScreenOK
  <2> QED BY <1>2, <2>1, Closed_SignInv DEF SingAndSendThrows
<1>3. CASE SingInterrupted
  <2>1. ScreenOK' /\ ~pending' /\ AnswerOK'
    BY <1>3, ResetScreenOK DEF SingInterrupted, ResetScreen, AnswerOK
  <2> QED BY <1>3, <2>1, Closed_SignInv DEF SingInterrupted
<1>4. CASE RejectTransaction
  <2>1. ScreenOK' /\ ~pending'
    <3> DEFINE no == FALSE
    <3>1. no \in BOOLEAN /\ SendResponse(no, NoData)
      BY <1>4 DEF RejectTransaction
    <3> HIDE DEF no
    <3> QED BY <3>1, SendScreen
  <2>2. AnswerOK'
    BY <1>4 DEF RejectTransaction, SendResponse, AnswerOK
  <2> QED BY <1>4, <2>1, <2>2, Closed_SignInv DEF RejectTransaction
<1> QED BY <1>1, <1>2, <1>3, <1>4 DEF SignScreens

(* Paging through the review changes the step on show only.                 *)
LEMMA LookAround_SignInv ==
  ASSUME SignInv, LookAround PROVE SignInv'
<1>1. ScreenOK' /\ ux'.flow = "tx" /\ ux.flow = "tx"
  BY MoveScreen DEF LookAround, SignInv, TypeOK, ScreenOK
<1>2. UNCHANGED <<result, answer, pending>>
  BY DEF LookAround, MoveLeft, MoveRight, ShowStep
<1>3. AnswerOK' /\ (Reviewed' <=> Reviewed)
  BY <1>1, <1>2 DEF AnswerOK, Reviewed, SignInv, TypeOK
<1>4. StreamTypeOK' /\ Countdown' /\ Stream'
  BY <1>3 DEF LookAround, signVars, SignInv, TypeOK, StreamTypeOK, Countdown,
              Counting, Stream
<1> QED BY <1>1, <1>3, <1>4
        DEF SignInv, TypeOK, ScreenOK, StreamTypeOK, AnswerOK

(* A restart is a fresh start.                                              *)
LEMMA Relaunch_SignInv ==
  ASSUME Relaunch PROVE SignInv'
<1>1. ScreenOK' /\ ~pending' /\ AnswerOK'
  BY ResetScreenOK DEF Relaunch, ResetScreen, AnswerOK
<1> QED BY <1>1, Relaunch_Streaming, SignInvParts DEF Reviewed

(* Every step of the command preserves the invariant.                       *)
LEMMA Next_SignInv ==
  ASSUME SignInv, [Next]_vars PROVE SignInv'
<1>1. CASE HandleSign
  BY <1>1, HandleSign_SignInv
<1>2. CASE SignScreens
  BY <1>2, SignScreens_SignInv
<1>3. CASE LookAround
  BY <1>3, LookAround_SignInv
<1>4. CASE TransportReset
  <2>1. ScreenOK' /\ ~pending' /\ AnswerOK'
    BY <1>4, ResetScreenOK DEF TransportReset, ResetScreen, AnswerOK
  <2> QED BY <1>4, <2>1, Closed_SignInv DEF TransportReset
<1>5. CASE Relaunch
  BY <1>5, Relaunch_SignInv
<1>6. CASE UNCHANGED vars
  BY <1>6 DEF vars, globals, signVars, SignInv, TypeOK, GlobalsTypeOK,
              Countdown, Counting, Reviewed, Stream
<1> QED BY <1>1, <1>2, <1>3, <1>4, <1>5, <1>6 DEF Next

-----------------------------------------------------------------------------
(* The inductive invariant holds throughout, whatever the host sends.       *)
THEOREM SignInvariant == Spec => []SignInv
<1>1. Init => SignInv
  BY Init_SignInv
<1>2. SignInv /\ [Next]_vars => SignInv'
  BY Next_SignInv
<1> QED BY <1>1, <1>2, PTL DEF Spec

(* Every static of the SIGN command keeps its type.                         *)
THEOREM TypeCorrect == Spec => []TypeOK
<1>1. SignInv => TypeOK
  BY DEF SignInv
<1> QED BY <1>1, SignInvariant, PTL

(* No review is open before exactly the declared bytes were fed: the        *)
(* uint32_t counter reaches zero at no other point of any stream shorter    *)
(* than 2^32 bytes, however the blocks are cut.                             *)
THEOREM ReviewsAreComplete == Spec => []ReviewIsComplete
<1>1. SignInv => ReviewIsComplete
  <2> SUFFICES ASSUME SignInv, Reviewed PROVE session.fed = session.declared
    BY DEF ReviewIsComplete
  <2>1. /\ session.declared \in 0..(Mod32 - 1)
        /\ session.fed \in Nat /\ session.fed < Mod32
    BY SignAssumption, AccountsAssumption, SizesAssumption DEF SignInv, TypeOK, Session
  <2>2. Left(session.declared, session.fed) = 0
    BY DEF SignInv, Countdown, Counting
  <2> QED BY <2>1, <2>2, LeftZero
<1> QED BY <1>1, SignInvariant, PTL

(* What the user reads of an accepted transaction is what is being hashed,  *)
(* for every layout of its fields, every cut of the stream and every        *)
(* history of refused, abandoned and earlier ones.                          *)
THEOREM ShownFieldsAreHashed == Spec => []ShownIsHashed
<1>1. SignInv => ShownIsHashed
  BY DEF SignInv, Stream, ShownIsHashed
<1> QED BY <1>1, SignInvariant, PTL
(* Only the approval step of a walked-through review answers with data.     *)
LEMMA OnlyApprovalSigns ==
  ASSUME [Next]_vars, answer' \notin {answer, NoData} PROVE SingAndSend
<1>1. ~UNCHANGED vars
  BY DEF vars, globals
<1>2. ~HandleSign
  <2>1. ASSUME NEW digest, NEW remain, NEW n, NEW own,
               Absorb(digest, remain, n, own)
        PROVE  answer' = NoData
    BY <2>1 DEF Absorb, Remaining, Ends, Confirm, Throw
  <2>2. ASSUME NEW tx, NEW account, NEW network, NEW declared, NEW n, NEW stray,
               FirstBlockAccepted(tx, account, network, declared, n, stray)
        PROVE  answer' = NoData
    <3> DEFINE yes == TRUE
               digest == [EmptyHash EXCEPT !.tx = tx]
    <3>1. Absorb(digest, declared, n, yes)
      BY <2>2 DEF FirstBlockAccepted, Restarted
    <3> HIDE DEF yes, digest
    <3> QED BY <2>1, <3>1
  <2>3. ASSUME NEW tx, NEW account, NEW network, NEW declared, NEW n, NEW stray,
               FirstBlockRefused(tx, account, network, declared, n, stray)
        PROVE  answer' = NoData
    BY <2>3 DEF FirstBlockRefused, Throw
  <2>4. ASSUME NEW n, NEW own, MoreBlock(n, own) PROVE answer' = NoData
    BY <2>1, <2>4 DEF MoreBlock
  <2> QED BY <2>2, <2>3, <2>4
          DEF HandleSign, NetworkIdTooLong, MoreBlockThrows, OtherP1, Throw
<1>3. ~SingAndSendThrows /\ ~SingInterrupted /\ ~RejectTransaction
  BY DEF SingAndSendThrows, SingInterrupted, RejectTransaction,
         CallbackThrows, ResetScreen, SendResponse
<1>4. ~LookAround /\ ~TransportReset /\ ~Relaunch
  BY DEF LookAround, MoveLeft, MoveRight, ShowStep, TransportReset, Relaunch,
         ResetScreen
<1> QED BY <1>1, <1>2, <1>3, <1>4 DEF Next, SignScreens

(* A review answers with a signature over what it displayed.                *)
THEOREM ShownFieldsAreSigned == Spec => ShownIsSigned
<1>1. ASSUME SignInv, [Next]_vars PROVE SignsTheShown
  <2> SUFFICES ASSUME answer' \notin {answer, NoData}, hash.open, Reviewed
               PROVE  SignsTheShown
    BY DEF SignsTheShown
  <2>1. SingAndSend
    BY <1>1, OnlyApprovalSigns
  <2>2. answer' = SignatureMade
    BY <2>1 DEF SingAndSend, SendResponse
  <2>3. answer'.tx = hash.tx
    BY <2>2 DEF SignatureMade, SigningAccount
  <2>4. ux.at = 6 /\ ux.at <= ux.far
    BY <1>1, <2>1, Steps
       DEF SingAndSend, Validates, SignInv, TypeOK, GlobalsTypeOK
  <2>5. session.fed = session.declared
    <3>1. /\ session.declared \in 0..(Mod32 - 1)
          /\ session.fed \in Nat /\ session.fed < Mod32
      BY <1>1, SignAssumption, AccountsAssumption, SizesAssumption DEF SignInv, TypeOK, Session
    <3>2. Left(session.declared, session.fed) = 0
      BY <1>1 DEF SignInv, Countdown, Counting
    <3> QED BY <3>1, <3>2, LeftZero
  <2>6. session.accepted /\ Layout[session.tx].kind = "spend" =>
          \A f \in DisplayFields :
            Intact(session.tx, session.first, f) => shown[f] = answer'.tx
    BY <1>1, <2>3 DEF SignInv, Stream
  <2> QED BY <2>4, <2>5, <2>6, Steps DEF SignsTheShown
<1>2. SignInv /\ [Next]_vars => [SignsTheShown]_vars
  BY <1>1
<1> QED BY <1>2, SignInvariant, PTL DEF Spec, ShownIsSigned

-----------------------------------------------------------------------------
(* A host that follows the protocol declares what it streams and streams    *)
(* nothing else.                                                            *)
Promised ==
  session.accepted =>
    /\ session.declared = Layout[session.tx].len
    /\ hash.open => ~hash.foreign

(* A review that is open can be signed: its digest is open and it is that   *)
(* of an accepted transaction, all of whose bytes are in.                   *)
Signable ==
  /\ hash.open /\ ~hash.foreign /\ hash.tx = session.tx
  /\ session.tx \in Transactions
  /\ hash.len = Layout[session.tx].len
  /\ session.declared = Layout[session.tx].len
  /\ accountNumber = session.account /\ networkId = session.network

(* The review is reached through an accepted first block only.              *)
LEMMA HandleSign_Promised ==
  ASSUME HostFollowsProtocol, Streaming, Promised, HandleSign
  PROVE  /\ Promised'
         /\ Confirm("tx") => hash'.open /\ session'.accepted
<1>1. ASSUME NEW tx \in Transactions, NEW account \in Accounts,
             NEW network \in NetworkIds, NEW declared \in Declarations,
             NEW n \in BlockSizes, NEW stray \in Strays(tx, n),
             FirstBlockRefused(tx, account, network, declared, n, stray)
      PROVE  Promised' /\ ~Confirm("tx")
  <2>1. ~session'.accepted /\ result' = "6A80"
    BY <1>1 DEF FirstBlockRefused, Streamed, Throw
  <2> QED BY <2>1 DEF Promised, Confirm
<1>2. ASSUME NEW tx \in Transactions, NEW account \in Accounts,
             NEW network \in NetworkIds, NEW declared \in Declarations,
             NEW n \in BlockSizes, NEW stray \in Strays(tx, n),
             FirstBlockAccepted(tx, account, network, declared, n, stray)
      PROVE  Promised' /\ hash'.open /\ session'.accepted
  <2>1. /\ session'.accepted /\ session'.tx = tx
        /\ session'.declared = declared
        /\ hash'.open /\ ~hash'.foreign
    BY <1>2, FirstBlockAccepted_Streaming
  <2>2. declared = Layout[tx].len
    BY <1>2 DEF FirstBlockAccepted, FirstBlock, FirstAsPromised
  <2> QED BY <2>1, <2>2 DEF Promised
<1>3. ASSUME NEW n \in BlockSizes, NEW own \in BOOLEAN, MoreBlock(n, own)
      PROVE  Promised' /\ hash'.open /\ session'.accepted
  <2>1. own /\ session.accepted /\ hash.open
    BY <1>3 DEF MoreBlock, MoreAsPromised
  <2>2. /\ session'.accepted = session.accepted
        /\ session'.tx = session.tx
        /\ session'.declared = session.declared
        /\ hash'.open = hash.open
        /\ hash.open /\ own /\ ~hash.foreign => ~hash'.foreign
    BY <1>3, MoreBlock_Streaming
  <2> QED BY <2>1, <2>2 DEF Promised
<1>4. ~MoreBlockThrows /\ ~OtherP1
  BY DEF MoreBlockThrows, OtherP1
<1>5. ASSUME NEW account, NEW declared PROVE ~NetworkIdTooLong(account, declared)
  BY DEF NetworkIdTooLong
<1> QED BY <1>1, <1>2, <1>3, <1>4, <1>5 DEF HandleSign

(* With that host, what the command leaves to the review is signable.       *)
LEMMA PromisedIsSignable ==
  ASSUME Streaming, Promised, hash.open, session.accepted,
         remainTransactionLength = 0
  PROVE  Signable /\ session.fed = session.declared
<1>1. /\ session.declared \in 0..(Mod32 - 1)
      /\ session.fed \in Nat /\ session.fed < Mod32
  BY SignAssumption, SizesAssumption DEF Streaming, StreamTypeOK, Session
<1>2. session.fed = session.declared
  BY <1>1, LeftZero DEF Streaming, Counting
<1> QED BY <1>2 DEF Signable, Promised, Streaming, StreamTypeOK, Stream

(* The same in the next state.                                              *)
LEMMA PromisedIsSignableNext ==
  ASSUME Streaming', Promised', hash'.open, session'.accepted,
         remainTransactionLength' = 0
  PROVE  Signable' /\ session'.fed = session'.declared
<1>1. /\ session'.declared \in 0..(Mod32 - 1)
      /\ session'.fed \in Nat /\ session'.fed < Mod32
  BY SignAssumption, SizesAssumption DEF Streaming, StreamTypeOK, Session
<1>2. session'.fed = session'.declared
  BY <1>1, LeftZero DEF Streaming, Counting
<1> QED BY <1>2 DEF Signable, Promised, Streaming, StreamTypeOK, Stream

(* The signature of a signable review is over its whole transaction.        *)
LEMMA SignableIsWhole ==
  ASSUME Signable
  PROVE  SignatureMade = [account |-> session.account,
                          network |-> session.network,
                          tx |-> session.tx, len |-> session.declared,
                          foreign |-> FALSE]
<1> DEFINE tx == IF hash.open THEN hash.tx ELSE NoTx
           foreign == hash.foreign \/ ~hash.open
           no == FALSE
<1>1. foreign = no
  BY Zenon DEF Signable
<1>2. tx = session.tx
  BY DEF Signable
<1>3. SignatureMade = [account |-> accountNumber, network |-> networkId,
                       tx |-> tx, len |-> hash.len, foreign |-> foreign]
  BY DEF SignatureMade, SigningAccount
<1> HIDE DEF tx, foreign, no
<1>4. SignatureMade = [account |-> session.account, network |-> session.network,
                       tx |-> session.tx, len |-> session.declared,
                       foreign |-> no]
  BY <1>1, <1>2, <1>3 DEF Signable
<1> QED BY <1>4 DEF no

(* What such a host finds at every point while the SDK does not fail.       *)
HostInv ==
  /\ SignInv /\ Promised
  /\ ReviewAwaited
  /\ Reviewed => hash.open /\ session.accepted
  /\ WholeTransactionSigned

(* The review and the answer after a step that opens no review.             *)
LEMMA NoReview ==
  ASSUME ~pending', ux'.flow # "tx", answer' = NoData
  PROVE  ReviewAwaited' /\ ~Reviewed' /\ WholeTransactionSigned'
BY DEF ReviewAwaited, Reviewed, WholeTransactionSigned

(* Closing the digest, or keeping all, keeps the host's promise.            *)
LEMMA Closed_Promised ==
  ASSUME Streaming, Promised, CloseDigest \/ UNCHANGED signVars
  PROVE  Promised'
BY Closed_Streaming DEF Promised

(* The command and the last screens, with that host.                        *)
LEMMA Next_HostInv ==
  ASSUME HostFollowsProtocol, ~Faults, HostInv, [Next]_vars PROVE HostInv'
<1> USE DEF HostInv
<1>1. SignInv' /\ Streaming /\ Streaming'
  BY Next_SignInv, SignInvParts
<1>2. CASE HandleSign
  <2>1. Promised' /\ (Confirm("tx") => hash'.open /\ session'.accepted)
    BY <1>1, <1>2, HandleSign_Promised
  <2>2. CASE Confirm("tx")
    <3>1. ux'.flow = "tx" /\ pending' /\ answer' = NoData
      BY <2>2 DEF Confirm, Show
    <3> QED BY <1>1, <2>1, <2>2, <3>1
            DEF ReviewAwaited, Reviewed, WholeTransactionSigned
  <2>3. ASSUME NEW sw \in StatusWords, Throw(sw)
        PROVE  ~pending' /\ ux'.flow # "tx" /\ answer' = NoData
    BY <1>2, <2>3, HandleSignEnds DEF Throw, ReviewAwaited
  <2> QED BY <1>1, <1>2, <2>1, <2>2, <2>3, HandleSignEnds, NoReview
<1>3. CASE SingAndSend
  <2>1. ~pending' /\ ux'.flow # "tx" /\ answer' = SignatureMade
    BY <1>3, IdleScreen DEF SingAndSend, SendResponse
  <2>2. pending
    BY <1>3 DEF SingAndSend, Validates, ReviewAwaited
  <2>3. Signable
    BY <1>1, <1>3, <2>2, PromisedIsSignable
       DEF SingAndSend, Validates, SignInv, Countdown, Reviewed
  <2>4. WholeTransactionSigned'
    BY <2>1, <2>3, SignableIsWhole DEF WholeTransactionSigned, Signable
  <2>5. Promised'
    BY <1>1, <1>3, Closed_Promised DEF SingAndSend
  <2> QED BY <1>1, <2>1, <2>4, <2>5 DEF ReviewAwaited, Reviewed
<1>4. ~SingAndSendThrows
  BY DEF SingAndSendThrows, Validates, ReviewAwaited, Reviewed
<1>5. CASE SingInterrupted \/ TransportReset
  <2>1. ~pending' /\ ux'.flow # "tx" /\ answer' = NoData
    BY <1>5, IdleScreen DEF SingInterrupted, TransportReset, ResetScreen
  <2>2. Promised'
    BY <1>1, <1>5, Closed_Promised DEF SingInterrupted, TransportReset
  <2> QED BY <1>1, <2>1, <2>2, NoReview
<1>6. CASE RejectTransaction
  <2>1. ~pending' /\ ux'.flow # "tx" /\ answer' = NoData
    BY <1>6, IdleScreen DEF RejectTransaction, SendResponse
  <2>2. Promised'
    BY <1>1, <1>6, Closed_Promised DEF RejectTransaction
  <2> QED BY <1>1, <2>1, <2>2, NoReview
<1>7. CASE LookAround
  <2>1. ux'.flow = "tx" /\ ux.flow = "tx"
    BY <1>7, MoveScreen, SignInvParts DEF LookAround
  <2>2. UNCHANGED <<result, answer, pending, signVars>>
    BY <1>7 DEF LookAround, MoveLeft, MoveRight, ShowStep
  <2>3. Promised'
    BY <1>1, <2>2, Closed_Promised
  <2> QED BY <1>1, <2>1, <2>2, <2>3
          DEF ReviewAwaited, Reviewed, WholeTransactionSigned, signVars
<1>8. CASE Relaunch
  <2>1. ~pending' /\ ux'.flow # "tx" /\ answer' = NoData
    BY <1>8, IdleScreen DEF Relaunch, ResetScreen
  <2>2. ~session'.accepted
    BY <1>8 DEF Relaunch, NoSession
  <2> QED BY <1>1, <2>1, <2>2, NoReview DEF Promised
<1>9. CASE UNCHANGED vars
  <2>1. UNCHANGED <<ux, answer, pending, signVars>>
    BY <1>9 DEF vars, globals
  <2>2. Promised'
    BY <1>1, <2>1, Closed_Promised
  <2> QED BY <1>1, <2>1, <2>2
          DEF ReviewAwaited, Reviewed, WholeTransactionSigned, signVars
<1> QED BY <1>2, <1>3, <1>4, <1>5, <1>6, <1>7, <1>8, <1>9 DEF Next, SignScreens

(* It holds from the start on.                                              *)
LEMMA Init_HostInv == Init => HostInv
<1> SUFFICES ASSUME Init PROVE HostInv
  OBVIOUS
<1>1. ~pending /\ answer = NoData /\ ux = UiIdle
  BY DEF Init, GlobalsInit
<1>2. ~session.accepted
  BY DEF Init, SignInit, NoSession
<1> QED BY <1>1, <1>2, Init_SignInv, IdleScreen
        DEF HostInv, Promised, ReviewAwaited, Reviewed, WholeTransactionSigned

(* And throughout.                                                          *)
LEMMA HostInvariant ==
  ASSUME HostFollowsProtocol, ~Faults PROVE Spec => []HostInv
<1>1. HostInv /\ [Next]_vars => HostInv'
  BY Next_HostInv
<1> QED BY <1>1, Init_HostInv, PTL DEF Spec

(* A host that streams its transactions as they are gets signatures over    *)
(* whole transactions only, whatever it abandoned, was refused or lost to a *)
(* reset before.                                                            *)
THEOREM WholeTransactionsAreSigned ==
  ASSUME HostFollowsProtocol, ~Faults PROVE Spec => []WholeTransactionSigned
<1>1. HostInv => WholeTransactionSigned
  BY DEF HostInv
<1> QED BY <1>1, HostInvariant, PTL

(* With it, and an SDK that does not fail, the review is on show exactly    *)
(* while its answer is owed: a digest is never found closed under it.       *)
THEOREM ReviewsAreAwaited ==
  ASSUME HostFollowsProtocol, ~Faults PROVE Spec => []ReviewAwaited
<1>1. HostInv => ReviewAwaited
  BY DEF HostInv
<1> QED BY <1>1, HostInvariant, PTL
=============================================================================
