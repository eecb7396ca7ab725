--------------------------- MODULE SignTransaction ---------------------------
(***************************************************************************)
(* The SIGN command: a transaction is streamed in blocks, hashed as it      *)
(* comes, its first block parsed for display; the last block opens a review *)
(* flow in which the user approves or rejects.                              *)
(***************************************************************************)
EXTENDS Globals, ParseTx

CONSTANTS
  NoTx, Garbled,               \* markers apart from every transaction
  NetworkIds,                  \* network ids of at most 32 bytes
  NoNetwork,                   \* the empty one of them
  DeclaredLengths,             \* total lengths an arbitrary host may declare
  MaxFed,                      \* bound: bytes fed to one session
  FirstSize, MoreSize,         \* block sizes of a host that follows the protocol
  HostFollowsProtocol,         \* the host streams each transaction as it is
  Faults                       \* key derivation and signing may throw

ASSUME SignAssumption ==
  /\ NoTx \notin Transactions /\ Garbled \notin Transactions \cup {NoTx}
  /\ NoNetwork \in NetworkIds
  /\ DeclaredLengths \subseteq 0..(Mod32 - 1)
  /\ MaxFed \in Nat /\ MaxFed < Mod32
  /\ FirstSize \in Nat \ {0} /\ MoreSize \in Nat \ {0}
  /\ HostFollowsProtocol \in BOOLEAN /\ Faults \in BOOLEAN

(* The first block of such a host reaches the end of the fee (list head,    *)
(* type, version, two addresses and two integers are at most 141 bytes), or *)
(* the head of the field for which the transaction is refused.              *)
ASSUME FirstBlockAssumption ==
  HostFollowsProtocol =>
    \A t \in Transactions : Layout[t].kind = "spend" =>
      \/ Layout[t].items["fee"].end <= FirstSize
      \/ /\ Layout[t].bad # "none"
         /\ Layout[t].items[Layout[t].bad].body <= FirstSize

VARIABLES
  accountNumber, remainTransactionLength, networkId,
  hash,             \* the running BLAKE2b: open or not, and what was fed
  shown,            \* what each display buffer holds
  transactionType,
  session           \* what the host streams since the last first block

signVars == <<accountNumber, remainTransactionLength, networkId, hash, shown,
              transactionType, session>>
vars == <<globals, signVars>>

Digest == [open : BOOLEAN, tx : Transactions \cup {NoTx}, len : Nat,
           foreign : BOOLEAN]
EmptyHash == [open |-> TRUE, tx |-> NoTx, len |-> 0, foreign |-> FALSE]

Signature == [account : Accounts, network : NetworkIds,
              tx : Transactions \cup {NoTx}, len : Nat, foreign : BOOLEAN]

Session == [tx : Transactions \cup {NoTx}, account : Accounts,
            network : NetworkIds, declared : 0..(Mod32 - 1), fed : 0..MaxFed,
            first : Nat, accepted : BOOLEAN]
NoSession == [tx |-> NoTx, account |-> 0, network |-> NoNetwork, declared |-> 0,
              fed |-> 0, first |-> 0, accepted |-> FALSE]

SignInit ==
  /\ accountNumber = 0 /\ remainTransactionLength = 0 /\ networkId = NoNetwork
  /\ hash = [EmptyHash EXCEPT !.open = FALSE]
  /\ shown = [f \in DisplayFields |-> NoTx]
  /\ transactionType = "spend"
  /\ session = NoSession

-----------------------------------------------------------------------------
(* The uint32_t that counts the declared bytes down.  Slip: a signed one.   *)
RemainingSigned(remain, n) == remain - n
Remaining(remain, n) == (remain - n) % Mod32

(* Slip: the review opens on more bytes than were declared, too.            *)
EndsOrExceeds(remain, n) == n >= remain
Ends(remain, n) == Remaining(remain, n) = 0

(* The end of handleSign, common to all blocks: n bytes more, then either   *)
(* the next block is awaited or the review begins.                          *)
Absorb(digest, remain, n, own) ==
  /\ hash' = IF digest.open
               THEN [digest EXCEPT !.len = @ + n, !.foreign = @ \/ ~own]
               ELSE digest
  /\ remainTransactionLength' = Remaining(remain, n)
  /\ IF Ends(remain, n) THEN Confirm("tx") ELSE Throw("9000")

(* A host that follows the protocol declares the length of the transaction  *)
(* and fills every block but the last.                                      *)
Smaller(m, n) == IF m < n THEN m ELSE n
FirstAsPromised(tx, n, declared) ==
  HostFollowsProtocol => declared = Layout[tx].len /\ n = Smaller(FirstSize, Layout[tx].len)
MoreAsPromised(n, own) ==
  HostFollowsProtocol =>
    /\ own /\ session.accepted /\ session.fed < session.declared
    /\ n = Smaller(MoreSize, session.declared - session.fed)

Streamed(tx, account, network, declared, n, accepted) ==
  [tx |-> tx, account |-> account, network |-> network,
   declared |-> declared, fed |-> IF accepted THEN n ELSE 0,
   first |-> n, accepted |-> accepted]

(* P1_FIRST: the statics are set, then parsing may still refuse the block.  *)
(* That no block comes while a review is open is the host's doing (any      *)
(* host's: it awaits the answer it is owed), not a check of the code.       *)
FirstBlock(tx, account, network, declared, n) ==
  /\ ~pending
  /\ Layout[tx].header < n /\ n <= Layout[tx].len /\ n <= MaxFed
  /\ FirstAsPromised(tx, n, declared)
  /\ accountNumber' = account
  /\ networkId' = network

(* The text that an overwritten buffer gets.  Slip: an empty field leaves   *)
(* that of the transaction before.                                          *)
TextUnlessEmpty(tx, n, f) ==
  IF Layout[tx].items[f].length = 0 THEN shown[f]
  ELSE IF Intact(tx, n, f) THEN tx ELSE Garbled
Text(tx, n, f) == IF Intact(tx, n, f) THEN tx ELSE Garbled

Display(tx, n, declared, stray) ==
  shown' = [f \in DisplayFields |->
              IF f \in Decoded(tx, n, declared, stray)
                THEN Text(tx, n, f) ELSE shown[f]]

(* The type is read only behind the length check.                           *)
ReadType(tx, n, declared) ==
  transactionType' = IF LengthOk(tx, n, declared)
                       THEN Layout[tx].kind ELSE transactionType

FirstBlockRefused(tx, account, network, declared, n, stray) ==
  /\ FirstBlock(tx, account, network, declared, n)
  /\ ~ParseOk(tx, n, declared, stray)
  /\ Display(tx, n, declared, stray)
  /\ ReadType(tx, n, declared)
  /\ hash' = EmptyHash
  /\ remainTransactionLength' = declared
  /\ session' = Streamed(tx, account, network, declared, n, FALSE)
  /\ Throw("6A80")

(* blake2b_init.  Slip: a digest still open is carried on.                  *)
CarriedOn(tx) == IF hash.open THEN hash ELSE [EmptyHash EXCEPT !.tx = tx]
Restarted(tx) == [EmptyHash EXCEPT !.tx = tx]

FirstBlockAccepted(tx, account, network, declared, n, stray) ==
  /\ FirstBlock(tx, account, network, declared, n)
  /\ ParseOk(tx, n, declared, stray)
  /\ Display(tx, n, declared, stray)
  /\ ReadType(tx, n, declared)
  /\ Absorb(Restarted(tx), declared, n, TRUE)
  /\ session' = Streamed(tx, account, network, declared, n, TRUE)

(* A network id of more than 32 bytes is refused before it is copied, but   *)
(* after the account and the declared length were.                          *)
NetworkIdTooLong(account, declared) ==
  /\ ~pending /\ ~HostFollowsProtocol
  /\ accountNumber' = account
  /\ remainTransactionLength' = declared
  /\ hash' = EmptyHash
  /\ session' = Streamed(NoTx, account, networkId, declared, 0, FALSE)
  /\ Throw("6A80")
  /\ UNCHANGED <<networkId, shown, transactionType>>

(* P1_MORE: no check that a first block came before.                        *)
MoreBlock(n, own) ==
  /\ ~pending
  /\ session.fed + n <= MaxFed
  /\ MoreAsPromised(n, own)
  /\ own => /\ session.accepted /\ hash.open
             /\ hash.len + n <= Layout[session.tx].len
  /\ session' = [session EXCEPT !.fed = @ + n]
  /\ Absorb(hash, remainTransactionLength, n, own)
  /\ UNCHANGED <<accountNumber, networkId, shown, transactionType>>

(* BLAKE2b may refuse a context that was never started or is finished.      *)
MoreBlockThrows ==
  /\ ~pending /\ ~hash.open /\ ~HostFollowsProtocol
  /\ Throw("68xx")
  /\ UNCHANGED signVars

OtherP1 ==
  /\ ~pending /\ ~HostFollowsProtocol
  /\ Throw("6B00")
  /\ UNCHANGED signVars
-----------------------------------------------------------------------------
(* Slip: the key of the first account, whichever was asked for.             *)
FirstAccount == 0
SigningAccount == accountNumber

(* Approval: the digest is closed and signed under the network id.  What a  *)
(* context yields that was not open is no digest of any transaction.        *)
SignatureMade ==
  [account |-> SigningAccount, network |-> networkId,
   tx |-> IF hash.open THEN hash.tx ELSE NoTx,
   len |-> hash.len, foreign |-> hash.foreign \/ ~hash.open]

CloseDigest ==
  /\ hash' = [hash EXCEPT !.open = FALSE]
  /\ UNCHANGED <<accountNumber, remainTransactionLength, networkId, shown,
                 transactionType, session>>

SingAndSend ==
  /\ Validates("tx", ApproveStep("tx"))
  /\ CloseDigest
  /\ SendResponse(TRUE, SignatureMade)

(* The digest is closed before the key is derived and used.                 *)
SingAndSendThrows ==
  /\ Validates("tx", ApproveStep("tx"))
  /\ Faults \/ ~hash.open
  /\ CloseDigest
  /\ CallbackThrows("68xx")

(* The transport is reset while the signature is being sent.                *)
SingInterrupted ==
  /\ Validates("tx", ApproveStep("tx"))
  /\ CloseDigest
  /\ ResetScreen

RejectTransaction ==
  /\ Validates("tx", RejectStep("tx"))
  /\ SendResponse(FALSE, NoData)
  /\ UNCHANGED signVars

(* The user pages through the review.                                       *)
LookAround ==
  /\ ux.flow = "tx"
  /\ MoveLeft \/ MoveRight
  /\ UNCHANGED signVars

(* A reset of the transport keeps RAM.                                      *)
TransportReset == ResetScreen /\ UNCHANGED signVars

(* The application is left and started again: RAM is zeroed.                *)
Relaunch ==
  /\ ResetScreen
  /\ accountNumber' = 0 /\ remainTransactionLength' = 0 /\ networkId' = NoNetwork
  /\ hash' = [EmptyHash EXCEPT !.open = FALSE]
  /\ shown' = [f \in DisplayFields |-> NoTx]
  /\ transactionType' = "spend"
  /\ session' = NoSession

Declarations == IF HostFollowsProtocol
                  THEN {Layout[t].len : t \in Transactions} ELSE DeclaredLengths

HandleSign ==
  \/ \E tx \in Transactions, account \in Accounts, network \in NetworkIds,
        declared \in Declarations, n \in BlockSizes :
       \E stray \in Strays(tx, n) :
         \/ FirstBlockRefused(tx, account, network, declared, n, stray)
         \/ FirstBlockAccepted(tx, account, network, declared, n, stray)
  \/ \E account \in Accounts, declared \in Declarations :
       NetworkIdTooLong(account, declared)
  \/ \E n \in BlockSizes, own \in BOOLEAN : MoreBlock(n, own)
  \/ MoreBlockThrows
  \/ OtherP1

SignScreens ==
  \/ SingAndSend \/ SingAndSendThrows \/ SingInterrupted \/ RejectTransaction

Init == GlobalsInit /\ SignInit

Next == HandleSign \/ SignScreens \/ LookAround \/ TransportReset \/ Relaunch

Spec == Init /\ [][Next]_vars
-----------------------------------------------------------------------------
(* Every variable holds a value of its type; the ghosts among them follow   *)
(* the C declarations of the statics they stand beside.                     *)
TypeOK ==
  /\ GlobalsTypeOK
  /\ ux.flow \in {"idle", "tx"} /\ (pending => ux.flow = "tx")
  /\ accountNumber \in Accounts
  /\ remainTransactionLength \in 0..(Mod32 - 1)
  /\ networkId \in NetworkIds
  /\ hash \in Digest
  /\ shown \in [DisplayFields -> Transactions \cup {NoTx, Garbled}]
  /\ transactionType \in {"spend", "other"}
  /\ answer \in Signature \cup {NoData}
  /\ session \in Session
  /\ session.accepted => session.tx \in Transactions

Reviewed == ux.flow = "tx" /\ pending

(* A review is never open on part of a stream: whatever blocks came, whole, *)
(* refused, empty or too long for the uint32_t that counts them down, the   *)
(* bytes fed since the first block are exactly the declared ones.           *)
ReviewIsComplete == Reviewed => session.fed = session.declared

(* For any host: when the first block of a spend transaction was accepted   *)
(* and the review is open on a digest still to be signed, every field that  *)
(* the block held in full is on the screen as the digest has it, and the    *)
(* signature will be made with that session's account and network id.       *)
(* Commands refused in between, resets and earlier transactions must not    *)
(* leave anything of theirs in the display buffers.                         *)
ShownIsHashed ==
  Reviewed /\ session.accepted /\ hash.open =>
    /\ hash.tx = session.tx /\ hash.len = session.fed
    /\ accountNumber = session.account /\ networkId = session.network
    /\ Layout[session.tx].kind = "spend" =>
         \A f \in DisplayFields :
           Intact(session.tx, session.first, f) => shown[f] = hash.tx

(* Whatever a review answers the host with is what was under review: the    *)
(* user walked through all its screens, all declared bytes were in, and     *)
(* each field that the first block held in full was displayed with the      *)
(* value that is signed.  (A callback that throws leaves a review on show   *)
(* that answers nobody; ReviewAwaited says when there is none of those.)    *)
SignsTheShown ==
  answer' \notin {answer, NoData} /\ hash.open /\ Reviewed =>
    /\ ux.far >= ApproveStep("tx")
    /\ session.fed = session.declared
    /\ session.accepted /\ Layout[session.tx].kind = "spend" =>
         \A f \in DisplayFields :
           Intact(session.tx, session.first, f) => shown[f] = answer'.tx
ShownIsSigned == [][SignsTheShown]_vars

(* With a host that streams transactions as they are, a signature is always *)
(* over one whole transaction, never over a part of it or a mixture of two, *)
(* wherever transactions are abandoned, refused or cut off by a reset.      *)
WholeTransactionSigned ==
  answer # NoData =>
    /\ answer.tx \in Transactions
    /\ answer.len = Layout[answer.tx].len
    /\ ~answer.foreign

(* While the SDK does not fail under a callback, the review is on show      *)
(* exactly as long as the host is owed its answer: no button press can      *)
(* answer a command twice or sign without one.                              *)
ReviewAwaited == ux.flow = "tx" <=> pending

(* api.asc:61-65: the user validates fees, recipient and amount of what is  *)
(* signed.  Transactions other than spends are hashed and reviewed with the *)
(* buffers of an earlier one.                                               *)
ValidatedFieldsShown ==
  Reviewed => \A f \in {"recipient", "amount", "fee"} : shown[f] = hash.tx

(* signTransaction.c:124-127: data beyond the declared length is refused    *)
(* ("Extra data passed").  The counter is unsigned, so the test never holds.*)
ExtraDataRefused ==
  [][ session.fed <= session.declared /\ session'.fed > session.declared
        /\ session' = [session EXCEPT !.fed = session'.fed]
      => result' = "6A80" ]_vars

-----------------------------------------------------------------------------
(* The abstract signer, seen through the screen: what is on offer is what   *)
(* the user reads there, what is signed is what the host can verify.  Of    *)
(* transactions that are not spends the screen shows nothing; what is on    *)
(* offer then is what was streamed.                                         *)
Offered(f) == IF transactionType = "spend" THEN shown[f] ELSE hash.tx
Seen == [recipient |-> Offered("recipient"), amount |-> Offered("amount"),
         fee |-> Offered("fee"), account |-> accountNumber,
         network |-> networkId]
Verified == IF answer = NoData THEN NoData
            ELSE [recipient |-> answer.tx, amount |-> answer.tx, fee |-> answer.tx,
                  account |-> answer.account, network |-> answer.network]

Abstract == INSTANCE Signer WITH
  Orders <- {[recipient |-> t, amount |-> t, fee |-> t,
              account |-> a, network |-> i] :
               t \in Transactions, a \in Accounts, i \in NetworkIds},
  Nothing <- NoData,
  offer <- IF Reviewed THEN Seen ELSE NoData,
  signed <- Verified

(* With a host that streams transactions as they are, the command           *)
(* behaves as the abstract signer: one order at a time is offered, and only *)
(* the order on offer is signed, once.                                      *)
SignsOnlyOffers == Abstract!Spec
=============================================================================
