----------------------------- MODULE SignMessage -----------------------------
(***************************************************************************)
(* The SIGN PERSONAL MESSAGE command: one block holds an account and a      *)
(* message; the message is displayed from a copy and signed, on approval,   *)
(* from the APDU buffer it came in.                                         *)
(***************************************************************************)
EXTENDS Globals

CONSTANTS
  Messages,       \* messages a host may ask to sign
  NoMessage,      \* no message
  BytesOf,        \* the length of each message
  EnvelopeBytes,  \* bytes the signed text has before the message
  Mod8,           \* 2^8, the range of the uint8_t messageLength
  LengthRange     \* 2^16, the range of the uint16_t workBufferLength

ASSUME MessageAssumption ==
  /\ NoMessage \notin Messages
  /\ BytesOf \in [Messages -> 0..247]
  /\ EnvelopeBytes \in Nat /\ Mod8 \in Nat \ {0}
  /\ LengthRange \in Nat /\ LengthRange > 260

VARIABLES
  messageText,     \* the copy that the screen shows
  messageAccount,  \* the accountNumber of signMessage.c
  messageBytes     \* dataLength

messageVars == <<messageText, messageAccount, messageBytes>>

MessageInit ==
  /\ messageText = NoMessage
  /\ messageAccount = 0
  /\ messageBytes = 0

MessageZeroed ==
  /\ messageText' = NoMessage
  /\ messageAccount' = 0
  /\ messageBytes' = 0

MessageTypeOK ==
  /\ messageText \in Messages \cup {NoMessage}
  /\ messageAccount \in Accounts
  /\ messageBytes \in 0..247

(* "bytes" of the text made of envelope and message were signed.            *)
MessageSignature ==
  [account : Accounts, message : Messages \cup {NoMessage}, bytes : Nat]

(* P1 is not the first block, or P2 is set.                                 *)
MessageParameterRefused ==
  /\ Throw("6B00")
  /\ UNCHANGED messageVars

(* What follows account and length of the message; with less than these     *)
(* eight bytes the uint16_t wraps around.  Slip: a signed length.           *)
MessageLengthSigned(size) == size - 8
MessageLength(size) == (size - 8) % LengthRange

MessageLengthRefused(account) ==
  /\ messageAccount' = account
  /\ Throw("6A80")
  /\ UNCHANGED <<messageText, messageBytes>>

(* The screen shows a copy up to the first zero byte: messages without one. *)
MessagePresented(account, message, length) ==
  /\ messageAccount' = account
  /\ messageBytes' = length
  /\ messageText' = message
  /\ Confirm("message")

(* A block of "size" bytes.  Of less than four, the account is what stood   *)
(* in the buffer.                                                           *)
HandleMessage(account, message, size) ==
  IF MessageLength(size) >= 253
    THEN MessageLengthRefused(account)
    ELSE MessagePresented(account, message, MessageLength(size))

(* "held" is what the APDU buffer holds now; the length of the text is      *)
(* counted in a uint8_t.                                                    *)
TouchSignMessageOk(held) ==
  /\ Validates("message", ApproveStep("message"))
  /\ SendResponse(TRUE,
       [account |-> messageAccount, message |-> held,
        bytes |-> (EnvelopeBytes + messageBytes) % Mod8])
  /\ UNCHANGED messageVars

TouchSignMessageThrows ==
  /\ Validates("message", ApproveStep("message"))
  /\ CallbackThrows("68xx")
  /\ UNCHANGED messageVars

RejectMessage ==
  /\ Validates("message", RejectStep("message"))
  /\ SendResponse(FALSE, NoData)
  /\ UNCHANGED messageVars
=============================================================================
