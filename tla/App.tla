---------------------------------- MODULE App ----------------------------------
(***************************************************************************)
(* The application: its main loop, the four commands, the screens and the   *)
(* menus, with a host that sends one command and waits for its answer, a    *)
(* user at the buttons, transport resets and restarts.                      *)
(*                                                                         *)
(* The program is one thread.  Events (buttons, resets) are handled only    *)
(* inside io_exchange, so a command is received and handled in one step.    *)
(***************************************************************************)
EXTENDS SignTransaction, SignMessage, GetAddress, Menu

CONSTANTS
  None,    \* no command, no answer
  Choices  \* bound: what the user picks in the menus of the settings

Commands == {"sign", "message", "messageMore", "messageShort", "address",
             "addressConfirmed", "configuration", "unknown"}

(* A command with what it is about.                                         *)
Request == [ins : Commands, account : Accounts,
            message : Messages \cup {NoMessage}]

ASSUME AppAssumption ==
  /\ None \notin Messages \cup Request
  /\ Choices \subseteq 0..1

VARIABLES
  pc,       \* "off", "send": about to call io_exchange, "wait": inside it
  flags,    \* IO_ASYNCH_REPLY is set
  staged,   \* tx # 0: a reply stands in the buffer
  buffer,   \* the message whose bytes the APDU buffer holds, if any
  asked,    \* the command that the host waits for an answer to
  inbox,    \* the answer that just reached the host
  chosen    \* the settings the user chose

loopVars == <<pc, flags, staged, buffer>>
hostVars == <<asked, inbox>>
appVars == <<globals, signVars, messageVars, address, menuVars, loopVars,
             hostVars, chosen>>

AppInit ==
  /\ GlobalsInit /\ SignInit /\ MessageInit /\ AddressInit /\ MenuInit
  /\ pc = "off" /\ flags = FALSE /\ staged = FALSE /\ buffer = NoMessage
  /\ asked = None /\ inbox = None
  /\ chosen = [dataAllowed |-> 0, contractDetails |-> 0]

-----------------------------------------------------------------------------
(* The host has an answer in hand; data in it overwrites the buffer.        *)
Delivered(sw, data) ==
  /\ inbox' = [sw |-> sw, data |-> data]
  /\ asked' = None
  /\ buffer' = IF data = NoData THEN buffer ELSE NoMessage

(* The transport is gone: the host gives up the command under way.          *)
Disconnected == asked' = None /\ inbox' = None

NothingArrives == inbox' = None /\ UNCHANGED asked

(* main() up to sample_main(): settings, idle screen, main loop afresh.     *)
StartUx ==
  /\ LoadStorage
  /\ ResetScreen
  /\ pc' = "send" /\ flags' = FALSE /\ staged' = FALSE

Launch ==
  /\ pc = "off"
  /\ StartUx
  /\ NothingArrives
  /\ UNCHANGED <<signVars, messageVars, address, buffer, chosen>>

(* The application ends and RAM is lost.                                    *)
Stop ==
  /\ Relaunch /\ MessageZeroed /\ AddressZeroed
  /\ dataAllowed' = 0 /\ contractDetails' = 0
  /\ pc' = "off" /\ flags' = FALSE /\ staged' = FALSE /\ buffer' = NoMessage
  /\ Disconnected
  /\ UNCHANGED <<N_storage, chosen>>

Quit == pc = "wait" /\ Validates("idle", 4) /\ Stop
PowerLoss == pc # "off" /\ Stop

(* EXCEPTION_IO_RESET out of io_exchange: main() starts the UX again.       *)
IoReset ==
  /\ pc # "off"
  /\ StartUx
  /\ UNCHANGED signVars \/ SingInterrupted
  /\ Disconnected
  /\ UNCHANGED <<messageVars, address, buffer, chosen>>

(* The call of io_exchange: a reply is sent unless it is left to a screen.  *)
Exchange ==
  /\ pc = "send"
  /\ pc' = "wait" /\ staged' = FALSE
  /\ IF staged /\ ~flags
       THEN Delivered(result, answer)
       ELSE NothingArrives /\ UNCHANGED buffer
  /\ UNCHANGED <<globals, signVars, messageVars, address, menuVars, flags,
                 chosen>>

-----------------------------------------------------------------------------
(* io_exchange returns a command and handleApdu runs; its exceptions become *)
(* the staged reply.                                                        *)
Receives == pc = "wait" /\ asked = None

(* The handler set IO_ASYNCH_REPLY.  Slip: it does not.                     *)
NeverLeftToScreen == FALSE
LeftToScreen == result' = "async"

(* Slip: errors are not staged.                                             *)
StagesData == result' = "9000"
Stages == ~LeftToScreen

Command(ins, account, message) ==
  /\ pc' = "send"
  /\ flags' = LeftToScreen
  /\ staged' = Stages
  /\ inbox' = None
  /\ asked' = [ins |-> ins, account |-> account, message |-> message]
  /\ buffer' = message
  /\ UNCHANGED chosen

SignCommand ==
  /\ Receives
  /\ HandleSign
  /\ Command("sign", 0, NoMessage)
  /\ UNCHANGED <<messageVars, address, menuVars>>

MessageCommand ==
  /\ Receives
  /\ \/ \E account \in Accounts, message \in Messages :
          /\ HandleMessage(account, message, 8 + BytesOf[message])
          /\ Command("message", account, message)
     \/ /\ MessageParameterRefused
        /\ Command("messageMore", 0, NoMessage)
     \/ \E account \in Accounts, size \in 0..7 :
          /\ HandleMessage(account, NoMessage, size)
          /\ Command("messageShort", account, NoMessage)
  /\ UNCHANGED <<signVars, address, menuVars>>

AddressCommand ==
  /\ Receives
  /\ \E account \in Accounts :
       \/ /\ GetAddressAtOnce(account) \/ (Faults /\ GetAddressThrows)
          /\ Command("address", account, NoMessage)
       \/ /\ GetAddressConfirmed(account)
          /\ Command("addressConfirmed", account, NoMessage)
  /\ UNCHANGED <<signVars, messageVars, menuVars>>

ConfigurationCommand ==
  /\ Receives
  /\ GetAppConfiguration
  /\ Command("configuration", 0, NoMessage)
  /\ UNCHANGED <<signVars, messageVars, address>>

(* Another class or instruction; an empty command never gets to handleApdu. *)
UnknownCommand ==
  /\ Receives
  /\ \E sw \in {"6E00", "6D00", "6982"} : Throw(sw)
  /\ Command("unknown", 0, NoMessage)
  /\ UNCHANGED <<signVars, messageVars, address, menuVars>>

-----------------------------------------------------------------------------
(* A screen answers from inside io_exchange, which goes on waiting.         *)
ScreenAnswers ==
  /\ pc = "wait"
  /\ \/ SingAndSend /\ UNCHANGED <<messageVars, address>>
     \/ RejectTransaction /\ UNCHANGED <<messageVars, address>>
     \/ TouchSignMessageOk(buffer) /\ UNCHANGED <<signVars, address>>
     \/ RejectMessage /\ UNCHANGED <<signVars, address>>
     \/ ApproveAddress /\ UNCHANGED <<signVars, messageVars>>
     \/ RejectAddress /\ UNCHANGED <<signVars, messageVars>>
  /\ Delivered(result', answer')
  /\ UNCHANGED <<menuVars, pc, flags, staged, chosen>>

(* A callback throws: sample_main stages the error and drops the flag.      *)
ScreenFails ==
  /\ pc = "wait"
  /\ \/ SingAndSendThrows /\ UNCHANGED messageVars
     \/ Faults /\ TouchSignMessageThrows /\ UNCHANGED signVars
  /\ pc' = "send" /\ staged' = TRUE /\ flags' = FALSE
  /\ NothingArrives
  /\ UNCHANGED <<address, menuVars, buffer, chosen>>

Look ==
  /\ pc = "wait"
  /\ MoveLeft \/ MoveRight
  /\ NothingArrives
  /\ UNCHANGED <<signVars, messageVars, address, menuVars, loopVars, chosen>>

UseMenu ==
  /\ pc = "wait"
  /\ \/ (OpenSettings \/ SettingsSelector \/ SettingBack) /\ UNCHANGED chosen
     \/ \E enabled \in Choices :
          \/ /\ ContractDataChange(enabled)
             /\ chosen' = [chosen EXCEPT !.dataAllowed = enabled]
          \/ /\ DisplayDataChange(enabled)
             /\ chosen' = [chosen EXCEPT !.contractDetails = enabled]
  /\ NothingArrives
  /\ UNCHANGED <<signVars, messageVars, address, loopVars>>

HandleApdu ==
  SignCommand \/ MessageCommand \/ AddressCommand \/ ConfigurationCommand
    \/ UnknownCommand

AppNext ==
  \/ Launch \/ Quit \/ PowerLoss \/ IoReset
  \/ Exchange \/ HandleApdu
  \/ ScreenAnswers \/ ScreenFails \/ Look \/ UseMenu

AppSpec == AppInit /\ [][AppNext]_appVars

(* The loop goes on, a user who comes to a screen of a confirmation again   *)
(* and again moves on to the next at some time, and one who comes to the    *)
(* last two again and again decides at some time.                           *)
GoOn(step) ==
  Look /\ pending /\ ux.at = step /\ ux'.at = step + 1
FairAppSpec ==
  /\ AppSpec
  /\ WF_appVars(Exchange)
  /\ \A step \in 1..5 : SF_appVars(GoOn(step))
  /\ SF_appVars(ScreenAnswers)

-----------------------------------------------------------------------------
(* Every variable of the application holds a value of its type.             *)
AppTypeOK ==
  /\ GlobalsTypeOK /\ MessageTypeOK /\ AddressTypeOK /\ MenuTypeOK
  /\ pc \in {"off", "send", "wait"}
  /\ flags \in BOOLEAN /\ staged \in BOOLEAN
  /\ buffer \in Messages \cup {NoMessage}
  /\ asked \in Request \cup {None}
  /\ chosen \in [dataAllowed : 0..1, contractDetails : 0..1]

(* Each command is answered at most once and nothing is sent unasked,       *)
(* although replies leave by two ways: staged by the main loop, or sent by  *)
(* a screen from inside io_exchange (main.c:122-127, utils.c:138-145).      *)
OneReplyPerCommand == [][inbox' # None => asked # None]_appVars

(* A command left to a screen is still to be answered by that screen: it is *)
(* on show, the main loop has staged nothing that would go out for it, and  *)
(* the host, still waiting, sends nothing that would overwrite the buffer,  *)
(* the digest or the text.                                                  *)
OwedReplyOnShow ==
  pending => ux.flow \in ConfirmFlows /\ flags /\ ~staged /\ asked # None

(* While the SDK does not fail under a callback, no confirmation stays on   *)
(* show after it was answered or its transport was lost: a press of a       *)
(* button cannot sign what no host waits for.                               *)
NoStrayScreen == ux.flow \in ConfirmFlows => pending

(* Whatever commands, resets, restarts and changes of settings came before, *)
(* an answer with data is about the command it answers: the account asked   *)
(* for, the message sent and shown, the whole stream of the transaction,    *)
(* the settings as the user chose them.                                     *)
Matches(data) ==
  CASE asked.ins \in {"address", "addressConfirmed"} ->
         data = AddressReply(asked.account)
    [] asked.ins = "configuration" ->
         data = [dataAllowed |-> chosen.dataAllowed]
    [] asked.ins = "message" ->
         /\ data.account = asked.account
         /\ data.message = asked.message /\ data.message = messageText
         /\ EnvelopeBytes + BytesOf[asked.message] < Mod8 =>
              data.bytes = EnvelopeBytes + BytesOf[asked.message]
    [] asked.ins = "sign" ->
         data = [account |-> session.account, network |-> session.network,
                 tx |-> session.tx, len |-> session.declared,
                 foreign |-> FALSE]
    [] OTHER -> FALSE
ReplyMatchesCommand ==
  [][ inbox' # None /\ asked # None /\ inbox'.data # NoData
      => inbox'.sw = "9000" /\ Matches(inbox'.data) ]_appVars

(* The settings are the user's last choice, across resets of the transport, *)
(* power losses and restarts, from the first launch on.                     *)
SettingsKept ==
  /\ N_storage.dataAllowed = chosen.dataAllowed
  /\ N_storage.contractDetails = chosen.contractDetails
  /\ pc # "off" => N_storage.initialized = 1

(* Every command is answered or its transport lost, if the user decides.    *)
Answered == asked # None ~> asked = None

(* api.asc:104-107: the command signs a message: all of it.  The uint8_t    *)
(* length of the signed text wraps around for messages of 228 bytes or more.*)
MessageSignedWhole ==
  [][ inbox' # None /\ inbox'.data # NoData /\ asked.ins = "message"
      => inbox'.data.bytes = EnvelopeBytes + BytesOf[asked.message] ]_appVars
-----------------------------------------------------------------------------
(* The application as a device that a host and a user rely on.  Commands    *)
(* that are neither in the list of what is told at once nor in that of what *)
(* is put on offer get no answer of that kind.                              *)
Status(sw) == [sw |-> sw, data |-> NoData]
Success(data) == [sw |-> "9000", data |-> data]

ToldTo(request, settings) ==
  CASE request.ins = "sign" -> {Status("9000"), Status("6A80")}
    [] request.ins = "messageMore" -> {Status("6B00")}
    [] request.ins = "messageShort" -> {Status("6A80")}
    [] request.ins = "address" -> {Success(AddressReply(request.account))}
    [] request.ins = "configuration" ->
         {Success([dataAllowed |-> settings.dataAllowed])}
    [] request.ins = "unknown" ->
         {Status("6E00"), Status("6D00"), Status("6982")}
    [] OTHER -> {}

(* On offer is what the user reads on the screen; what approval answers is  *)
(* about the account and the message asked for, and a signature is over the *)
(* whole of the transaction read.                                           *)
AddressDeal(account) ==
  [offer |-> AddressReply(account), reply |-> Success(AddressReply(account))]
MessageDeal(account, message) ==
  [offer |-> [message |-> message],
   reply |-> Success([account |-> account, message |-> message,
                      bytes |-> (EnvelopeBytes + BytesOf[message]) % Mod8])]
SignDeal(tx, account, network) ==
  [offer |-> [recipient |-> tx, amount |-> tx, fee |-> tx,
              account |-> account, network |-> network],
   reply |-> Success([account |-> account, network |-> network, tx |-> tx,
                      len |-> Layout[tx].len, foreign |-> FALSE])]

DealsOn(request) ==
  CASE request.ins = "addressConfirmed" -> {AddressDeal(request.account)}
    [] request.ins = "message" ->
         {MessageDeal(request.account, m) : m \in Messages \cap {request.message}}
    [] request.ins = "sign" ->
         {SignDeal(t, a, i) : t \in Transactions, a \in Accounts, i \in NetworkIds}
    [] OTHER -> {}

UserSettings == [dataAllowed : 0..1, contractDetails : 0..1]

OnOffer ==
  CASE pending /\ ux.flow = "address" -> AddressReply(address)
    [] pending /\ ux.flow = "message" -> [message |-> messageText]
    [] pending /\ ux.flow = "tx" -> Seen
    [] OTHER -> None

Promise == INSTANCE Device WITH
  Requests <- Request,
  Settings <- UserSettings,
  Told <- ToldTo,
  Deals <- DealsOn,
  Rejection <- Status("6985"),
  Nothing <- None,
  request <- asked,
  offer <- OnOffer,
  reply <- inbox,
  settings <- chosen

(* With a host that follows the protocol and an SDK that does not fail, all *)
(* commands, screens, menus, resets and restarts together are such a device *)
(* (main.c:33-161, utils.c:138-145): one screen and one buffer serve all    *)
(* commands, yet each answer is the one promised for its command, and with  *)
(* data from a screen only if that is what the screen showed.               *)
ActsAsDevice == Promise!Spec
=============================================================================
