------------------------------ MODULE App_proofs ------------------------------
(***************************************************************************)
(* The safety of the whole application for every set of accounts, messages  *)
(* and transactions: types, the settings, the reply that a screen owes, and *)
(* that what the host gets is about the command it sent.                    *)
(***************************************************************************)
EXTENDS App, Signer_proofs

-----------------------------------------------------------------------------
(* What the ways to end a handler or a callback do to the shared variables. *)

(* Every flow and list has three to seven entries.                          *)
LEMMA FlowLengths ==
  /\ \A flow \in Flows : FlowLength[flow] \in 3..7
  /\ FlowLength["idle"] = 4 /\ FlowLength["settings"] = 3
  /\ FlowLength["contractData"] = 3 /\ FlowLength["displayData"] = 3
  /\ {"idle", "settings", "contractData", "displayData"} \subseteq Flows
  /\ ConfirmFlows \subseteq Flows
  /\ \A flow \in {"idle", "settings", "contractData", "displayData"} :
       flow \notin ConfirmFlows
BY DEF FlowLength, Flows, ConfirmFlows

(* The screen of a flow at one of its first three entries is well-formed.   *)
LEMMA ShowType ==
  ASSUME NEW flow \in Flows, NEW step \in 1..3
  PROVE  LET screen == Show(flow, step)
         IN  /\ screen \in Screen /\ screen.flow = flow
             /\ screen.at <= screen.far /\ screen.far <= FlowLength[screen.flow]
<1>1. FlowLength[flow] \in 3..7
  BY FlowLengths
<1>2. Show(flow, step) = [flow |-> flow, at |-> step, far |-> step]
  BY DEF Show
<1>3. step \in 1..7 /\ step <= FlowLength[flow]
  BY <1>1
<1> QED BY <1>2, <1>3 DEF Screen

(* A handler that answers at once leaves the screen alone.                  *)
AtOnce == result' \in StatusWords /\ UNCHANGED <<ux, pending>>

(* It keeps the shared variables well-formed.                               *)
LEMMA AtOnceType ==
  ASSUME GlobalsTypeOK, AtOnce PROVE GlobalsTypeOK'
BY DEF GlobalsTypeOK, AtOnce, Outcomes

(* A confirmation screen that opens is one and is awaited.                  *)
LEMMA ConfirmType ==
  ASSUME NEW flow \in ConfirmFlows, Confirm(flow)
  PROVE  /\ GlobalsTypeOK'
         /\ ux'.flow = flow /\ pending' /\ result' = "async" /\ answer' = NoData
<1>1. ux' = Show(flow, 1) /\ flow \in Flows
  BY FlowLengths DEF Confirm
<1>2. /\ ux' \in Screen /\ ux'.flow = flow
      /\ ux'.at <= ux'.far /\ ux'.far <= FlowLength[ux'.flow]
  BY <1>1, ShowType
<1>3. pending' /\ pending' \in BOOLEAN
  BY Zenon DEF Confirm
<1>4. result' = "async" /\ answer' = NoData /\ result' \in Outcomes
  BY DEF Confirm, Outcomes
<1> QED BY <1>2, <1>3, <1>4 DEF GlobalsTypeOK

(* After sendResponse the idle screen is on and nothing is owed.            *)
LEMMA SendType ==
  ASSUME NEW approve \in BOOLEAN, NEW data, SendResponse(approve, data)
  PROVE  GlobalsTypeOK' /\ ~pending' /\ ux'.flow = "idle" /\ answer' = data
<1>1. ScreenOK' /\ ~pending'
  BY SendScreen
<1>2. ux' = UiIdle /\ answer' = data
  BY DEF SendResponse
<1> QED BY <1>1, <1>2, IdleScreen DEF ScreenOK

(* So it is after a reset, with no answer left.                             *)
LEMMA ResetType ==
  ASSUME ResetScreen
  PROVE  GlobalsTypeOK' /\ ~pending' /\ ux'.flow = "idle" /\ answer' = NoData
<1>1. ScreenOK' /\ ~pending'
  BY ResetScreenOK
<1>2. ux' = UiIdle /\ answer' = NoData
  BY DEF ResetScreen
<1> QED BY <1>1, <1>2, IdleScreen DEF ScreenOK

(* A callback that throws leaves its screen, which nobody awaits any more.  *)
LEMMA CallbackType ==
  ASSUME GlobalsTypeOK, CallbackThrows("68xx")
  PROVE  GlobalsTypeOK' /\ ~pending' /\ answer' = NoData
<1>1. ~pending' /\ pending' \in BOOLEAN
  BY Zenon DEF CallbackThrows
<1>2. result' \in Outcomes /\ ux' = ux /\ answer' = NoData
  BY DEF CallbackThrows, Outcomes, StatusWords
<1> QED BY <1>1, <1>2 DEF GlobalsTypeOK

(* The left and right buttons stay within the flow on show.                 *)
LEMMA MoveType ==
  ASSUME GlobalsTypeOK, MoveLeft \/ MoveRight
  PROVE  /\ GlobalsTypeOK' /\ ux'.flow = ux.flow
         /\ UNCHANGED <<result, answer, pending>>
<1>1. PICK step : step \in 1..FlowLength[ux.flow] /\ ShowStep(step)
  BY DEF MoveLeft, MoveRight, ShowStep
<1>2. /\ ux \in Screen /\ ux.flow \in Flows /\ ux.far \in 1..7
      /\ ux.far <= FlowLength[ux.flow]
      /\ FlowLength[ux.flow] \in 3..7
  BY FlowLengths DEF GlobalsTypeOK, Screen
<1> DEFINE far == IF ux.flow \in ConfirmFlows /\ step < ux.far THEN ux.far ELSE step
<1>3. /\ step \in 1..7 /\ far \in 1..7 /\ step <= far
      /\ far <= FlowLength[ux.flow]
  BY <1>1, <1>2
<1>4. ux' = [ux EXCEPT !.at = step, !.far = far]
  BY <1>1 DEF ShowStep
<1> HIDE DEF far
<1>5. ux' = [flow |-> ux.flow, at |-> step, far |-> far]
  BY <1>2, <1>4 DEF Screen
<1>6. ux' \in Screen /\ ux'.at <= ux'.far /\ ux'.far <= FlowLength[ux'.flow]
  BY <1>2, <1>3, <1>5 DEF Screen
<1>7. UNCHANGED <<result, answer, pending>>
  BY <1>1 DEF ShowStep
<1> QED BY <1>5, <1>6, <1>7 DEF GlobalsTypeOK

(* A menu entry leads to a well-formed screen.                              *)
LEMMA GoToType ==
  ASSUME GlobalsTypeOK, NEW flow \in Flows, NEW step \in 1..3,
         GoTo(Show(flow, step))
  PROVE  /\ GlobalsTypeOK' /\ ux'.flow = flow
         /\ UNCHANGED <<result, answer, pending>>
BY ShowType DEF GoTo, GlobalsTypeOK

-----------------------------------------------------------------------------
(* The parts of the type invariant that the loop and the host write.        *)
LoopTypeOK ==
  /\ pc \in {"off", "send", "wait"}
  /\ flags \in BOOLEAN /\ staged \in BOOLEAN
  /\ buffer \in Messages \cup {NoMessage}
  /\ asked \in Request \cup {None}
  /\ chosen \in [dataAllowed : 0..1, contractDetails : 0..1]

(* Settings that were never initialised are those of a fresh device, which  *)
(* are also what the user chose so far.                                     *)
SettingsInv ==
  /\ SettingsKept
  /\ N_storage.initialized # 1 => N_storage = FreshStorage

(* What holds for any host, with any faults.                                *)
AppInv == AppTypeOK /\ SettingsInv /\ OwedReplyOnShow

(* The invariant by its parts, now and in the next state.                   *)
LEMMA AppInvParts ==
  /\ AppInv <=> /\ GlobalsTypeOK /\ MessageTypeOK /\ AddressTypeOK /\ MenuTypeOK
                /\ LoopTypeOK /\ SettingsInv /\ OwedReplyOnShow
  /\ AppInv' <=> /\ GlobalsTypeOK' /\ MessageTypeOK' /\ AddressTypeOK'
                 /\ MenuTypeOK' /\ LoopTypeOK' /\ SettingsInv'
                 /\ OwedReplyOnShow'
BY DEF AppInv, AppTypeOK, LoopTypeOK

(* A uint16_t holds what it can, and wraps a negative number around once.   *)
LEMMA LengthWraps ==
  ASSUME NEW m \in Nat \ {0}, NEW x \in Int
  PROVE  /\ 0 <= x /\ x < m => (x % m) = x
         /\ -m < x /\ x < 0 => (x % m) = x + m
OBVIOUS

(* A whole message is shown: its length is what remains behind the eight    *)
(* bytes, and no message is too long (signMessage.c:89-94).                 *)
LEMMA WholeMessage ==
  ASSUME NEW account, NEW message \in Messages,
         HandleMessage(account, message, 8 + BytesOf[message])
  PROVE  MessagePresented(account, message, BytesOf[message])
<1>1. /\ BytesOf[message] \in 0..247
      /\ LengthRange \in Nat /\ LengthRange > 260
  BY MessageAssumption
<1>2. MessageLength(8 + BytesOf[message]) = BytesOf[message]
  <2>1. (8 + BytesOf[message]) - 8 = BytesOf[message]
    BY <1>1
  <2>2. (BytesOf[message] % LengthRange) = BytesOf[message]
    <3>1. /\ LengthRange \in Nat \ {0} /\ BytesOf[message] \in Int
          /\ 0 <= BytesOf[message] /\ BytesOf[message] < LengthRange
      BY <1>1
    <3> QED BY <3>1, LengthWraps, Zenon
  <2> QED BY <2>1, <2>2, Zenon DEF MessageLength
<1>3. ~(BytesOf[message] >= 253)
  BY <1>1
<1> QED BY <1>2, <1>3, Zenon DEF HandleMessage

(* A block of less than eight bytes is refused, because what remains wraps  *)
(* around to more than the longest message (signMessage.c:90-94).           *)
LEMMA ShortMessage ==
  ASSUME NEW account, NEW message, NEW size \in 0..7,
         HandleMessage(account, message, size)
  PROVE  MessageLengthRefused(account)
<1>1. LengthRange \in Nat /\ LengthRange > 260
  BY MessageAssumption
<1>2. PICK x \in Int : x = size - 8 /\ -8 <= x /\ x < 0
  OBVIOUS
<1>3. MessageLength(size) = x + LengthRange
  <2>1. (x % LengthRange) = x + LengthRange
    <3>1. LengthRange \in Nat \ {0} /\ -LengthRange < x /\ x < 0
      BY <1>1, <1>2
    <3> QED BY <1>2, <3>1, LengthWraps, Zenon
  <2> QED BY <1>2, <2>1, Zenon DEF MessageLength
<1>4. x + LengthRange >= 253
  BY <1>1, <1>2
<1> QED BY <1>3, <1>4, Zenon DEF HandleMessage

(* So there are three ways for the command to end.                          *)
LEMMA MessageWays ==
  ASSUME MessageCommand
  PROVE  \/ \E account \in Accounts, message \in Messages :
              /\ MessagePresented(account, message, BytesOf[message])
              /\ Command("message", account, message)
         \/ /\ MessageParameterRefused
            /\ Command("messageMore", 0, NoMessage)
         \/ \E account \in Accounts :
              /\ MessageLengthRefused(account)
              /\ Command("messageShort", account, NoMessage)
<1>1. CASE \E account \in Accounts, message \in Messages :
             /\ HandleMessage(account, message, 8 + BytesOf[message])
             /\ Command("message", account, message)
  BY <1>1, WholeMessage, Zenon
<1>2. CASE \E account \in Accounts, size \in 0..7 :
             /\ HandleMessage(account, NoMessage, size)
             /\ Command("messageShort", account, NoMessage)
  BY <1>2, ShortMessage, Zenon
<1> QED BY <1>1, <1>2, Zenon DEF MessageCommand

(* A command is of one of the kinds, about a known account and message.     *)
ACommand ==
  \E ins \in Commands, account \in Accounts, message \in Messages \cup {NoMessage} :
    Command(ins, account, message)

(* It is answered at once or opens a confirmation.                          *)
LEMMA Commanded ==
  ASSUME HandleApdu, AppInv
  PROVE  /\ Receives /\ ACommand /\ UNCHANGED menuVars
         /\ MessageTypeOK' /\ AddressTypeOK'
         /\ AtOnce \/ \E flow \in ConfirmFlows : Confirm(flow)
<1> USE DEF ACommand
<1>1. MessageTypeOK /\ AddressTypeOK /\ MenuTypeOK
  BY AppInvParts
<1>2. /\ 0 \in Accounts /\ NoMessage \in Messages \cup {NoMessage}
      /\ {"sign", "messageMore", "messageShort", "message", "address",
          "addressConfirmed", "configuration", "unknown"} \subseteq Commands
      /\ {"tx", "message", "address"} \subseteq ConfirmFlows
  BY AccountsAssumption DEF Commands, ConfirmFlows
<1>3. ASSUME NEW sw \in {"9000", "6A80", "6B00", "6D00", "6E00", "6982", "68xx"},
             Throw(sw)
      PROVE  AtOnce
  BY <1>3 DEF Throw, AtOnce, StatusWords
<1>4. ASSUME NEW data, Reply(data) PROVE AtOnce
  BY <1>4 DEF Reply, AtOnce, StatusWords
<1>5. CASE SignCommand
  <2>1. AtOnce \/ Confirm("tx")
    BY <1>5, HandleSignEnds DEF SignCommand, AtOnce, Throw
  <2> QED BY <1>1, <1>2, <1>5, <2>1
          DEF SignCommand, messageVars, MessageTypeOK, AddressTypeOK
<1>6. CASE MessageCommand
  <2>1. ASSUME NEW account \in Accounts, NEW message \in Messages,
               MessagePresented(account, message, BytesOf[message]),
               Command("message", account, message)
        PROVE  ACommand /\ MessageTypeOK' /\ Confirm("message")
    BY <1>2, <2>1, MessageAssumption DEF MessagePresented, MessageTypeOK
  <2>2. ASSUME MessageParameterRefused, Command("messageMore", 0, NoMessage)
        PROVE  ACommand /\ MessageTypeOK' /\ AtOnce
    BY <1>1, <1>2, <1>3, <2>2
       DEF MessageParameterRefused, MessageTypeOK, messageVars
  <2>3. ASSUME NEW account \in Accounts, MessageLengthRefused(account),
               Command("messageShort", account, NoMessage)
        PROVE  ACommand /\ MessageTypeOK' /\ AtOnce
    BY <1>1, <1>2, <1>3, <2>3 DEF MessageLengthRefused, MessageTypeOK
  <2>4. UNCHANGED <<address, menuVars>> /\ Receives
    BY <1>6 DEF MessageCommand
  <2>5. AddressTypeOK'
    BY <1>1, <2>4 DEF AddressTypeOK
  <2>6. /\ ACommand /\ MessageTypeOK'
        /\ AtOnce \/ \E flow \in ConfirmFlows : Confirm(flow)
    BY <1>2, <1>6, <2>1, <2>2, <2>3, MessageWays, Zenon
  <2> QED BY <2>4, <2>5, <2>6
<1>7. CASE AddressCommand
  <2>1. UNCHANGED <<messageVars, menuVars>> /\ Receives
    BY <1>7 DEF AddressCommand
  <2>2. MessageTypeOK'
    BY <1>1, <2>1 DEF MessageTypeOK, messageVars
  <2>3. PICK account \in Accounts :
          \/ /\ GetAddressAtOnce(account) \/ GetAddressThrows
             /\ Command("address", account, NoMessage)
          \/ /\ GetAddressConfirmed(account)
             /\ Command("addressConfirmed", account, NoMessage)
    BY <1>7 DEF AddressCommand
  <2>4. ACommand /\ AddressTypeOK'
    BY <1>1, <1>2, <2>3
       DEF GetAddressAtOnce, GetAddressThrows, GetAddressConfirmed, AddressTypeOK
  <2>5. AtOnce \/ Confirm("address")
    BY <1>3, <1>4, <2>3
       DEF GetAddressAtOnce, GetAddressThrows, GetAddressConfirmed
  <2> QED BY <1>2, <2>1, <2>2, <2>4, <2>5
<1>8. CASE ConfigurationCommand
  <2>1. AtOnce
    BY <1>4, <1>8 DEF ConfigurationCommand, GetAppConfiguration
  <2> QED BY <1>1, <1>2, <1>8, <2>1
          DEF ConfigurationCommand, GetAppConfiguration, messageVars,
              MessageTypeOK, AddressTypeOK
<1>9. CASE UnknownCommand
  <2>1. AtOnce
    BY <1>3, <1>9 DEF UnknownCommand
  <2> QED BY <1>1, <1>2, <1>9, <2>1
          DEF UnknownCommand, messageVars, MessageTypeOK, AddressTypeOK
<1> QED BY <1>5, <1>6, <1>7, <1>8, <1>9 DEF HandleApdu

(* What a command leaves to the loop and the host.                          *)
LEMMA CommandedLoop ==
  ASSUME LoopTypeOK, ACommand
  PROVE  /\ LoopTypeOK' /\ pc' = "send" /\ inbox' = None /\ chosen' = chosen
         /\ asked' # None /\ asked' \in Request
         /\ flags' <=> (result' = "async")
         /\ staged' <=> (result' # "async")
<1>1. PICK ins \in Commands, account \in Accounts,
           message \in Messages \cup {NoMessage} : Command(ins, account, message)
  BY DEF ACommand
<1>2. asked' \in Request /\ asked' # None
  <2>1. asked' = [ins |-> ins, account |-> account, message |-> message]
    BY <1>1 DEF Command
  <2>2. asked' \in Request
    BY <2>1 DEF Request
  <2> QED BY <2>2, AppAssumption
<1>3. /\ flags' \in BOOLEAN /\ staged' \in BOOLEAN
      /\ flags' <=> (result' = "async")
      /\ staged' <=> (result' # "async")
  BY <1>1, Zenon DEF Command, LeftToScreen, Stages
<1>4. /\ pc' = "send" /\ inbox' = None /\ chosen' = chosen
      /\ buffer' \in Messages \cup {NoMessage}
  BY <1>1 DEF Command
<1> QED BY <1>2, <1>3, <1>4 DEF LoopTypeOK

(* Every command keeps the invariant.                                       *)
LEMMA HandleApdu_AppInv ==
  ASSUME AppInv, HandleApdu PROVE AppInv'
<1>1. /\ Receives /\ ACommand /\ UNCHANGED menuVars
      /\ MessageTypeOK' /\ AddressTypeOK'
      /\ AtOnce \/ \E flow \in ConfirmFlows : Confirm(flow)
  BY Commanded
<1>2. /\ GlobalsTypeOK /\ MenuTypeOK /\ LoopTypeOK /\ SettingsInv
      /\ OwedReplyOnShow
  BY AppInvParts
<1>3. /\ LoopTypeOK' /\ pc' = "send" /\ chosen' = chosen /\ asked' # None
      /\ flags' <=> (result' = "async")
      /\ staged' <=> (result' # "async")
  BY <1>1, <1>2, CommandedLoop
<1>4. ~pending /\ pc # "off"
  BY <1>1, <1>2 DEF Receives, OwedReplyOnShow
<1>5. MenuTypeOK' /\ SettingsInv'
  BY <1>1, <1>2, <1>3, <1>4
     DEF menuVars, MenuTypeOK, SettingsInv, SettingsKept
<1>6. GlobalsTypeOK' /\ OwedReplyOnShow'
  <2>1. CASE AtOnce
    <3>1. GlobalsTypeOK'
      BY <1>2, <2>1, AtOnceType
    <3>2. pending' = pending
      BY <2>1 DEF AtOnce
    <3> QED BY <1>4, <3>1, <3>2 DEF OwedReplyOnShow
  <2>2. ASSUME NEW flow \in ConfirmFlows, Confirm(flow)
        PROVE  GlobalsTypeOK' /\ OwedReplyOnShow'
    <3>1. GlobalsTypeOK' /\ ux'.flow = flow /\ result' = "async"
      BY <2>2, ConfirmType
    <3> QED BY <1>3, <3>1 DEF OwedReplyOnShow
  <2> QED BY <1>1, <2>1, <2>2
<1> QED BY <1>1, <1>3, <1>5, <1>6, AppInvParts


(* Settings are written when the menus do, by the user's choice; a start    *)
(* initialises fresh ones only.                                             *)
LEMMA LoadStorage_Settings ==
  ASSUME MenuTypeOK, SettingsInv, LoadStorage, UNCHANGED chosen
  PROVE  MenuTypeOK' /\ SettingsInv'
<1>1. CASE N_storage.initialized = 1
  <2>1. Initialised(N_storage) = N_storage
    BY <1>1 DEF Initialised
  <2> QED BY <1>1, <2>1
          DEF LoadStorage, MenuTypeOK, Storage, SettingsInv, SettingsKept
<1>2. CASE N_storage.initialized # 1
  <2>1. N_storage = FreshStorage
    BY <1>2 DEF SettingsInv
  <2>2. N_storage' = [dataAllowed |-> 0, contractDetails |-> 0, initialized |-> 1]
    BY <1>2 DEF LoadStorage, Initialised, FreshStorage
  <2>3. dataAllowed' = 0 /\ contractDetails' = 0
    BY <1>2 DEF LoadStorage, Initialised, FreshStorage
  <2>4. chosen'.dataAllowed = 0 /\ chosen'.contractDetails = 0
    BY <2>1 DEF SettingsInv, SettingsKept, FreshStorage
  <2> QED BY <2>2, <2>3, <2>4 DEF MenuTypeOK, Storage, SettingsInv, SettingsKept
<1> QED BY <1>1, <1>2

(* The UX starts with nothing owed and nothing staged.                      *)
LEMMA StartUx_AppInv ==
  ASSUME AppInv, StartUx, UNCHANGED <<messageVars, address, buffer, chosen>>,
         asked' \in {asked, None}
  PROVE  AppInv'
<1>1. MenuTypeOK' /\ SettingsInv'
  BY LoadStorage_Settings, AppInvParts DEF StartUx
<1>2. GlobalsTypeOK' /\ ~pending'
  BY ResetType DEF StartUx
<1>3. flags' \in BOOLEAN /\ staged' \in BOOLEAN /\ pc' = "send"
  BY Zenon DEF StartUx
<1>4. LoopTypeOK'
  BY <1>3, AppInvParts DEF LoopTypeOK
<1>5. MessageTypeOK' /\ AddressTypeOK'
  BY AppInvParts DEF MessageTypeOK, AddressTypeOK, messageVars
<1> QED BY <1>1, <1>2, <1>4, <1>5, AppInvParts DEF OwedReplyOnShow

(* Leaving the application zeroes RAM and keeps the settings.               *)
LEMMA Stop_AppInv ==
  ASSUME AppInv, Stop PROVE AppInv'
<1> USE DEF Stop
<1>1. GlobalsTypeOK' /\ ~pending'
  BY ResetType DEF Relaunch
<1>2. MessageTypeOK' /\ AddressTypeOK'
  BY AccountsAssumption, 0 \in 0..247
     DEF MessageZeroed, MessageTypeOK, AddressZeroed, AddressTypeOK
<1>3. MenuTypeOK' /\ SettingsInv'
  BY AppInvParts DEF MenuTypeOK, SettingsInv, SettingsKept
<1>4. flags' \in BOOLEAN /\ staged' \in BOOLEAN /\ pc' = "off"
  BY Zenon
<1>5. LoopTypeOK'
  BY <1>4, AppInvParts DEF LoopTypeOK, Disconnected
<1> QED BY <1>1, <1>2, <1>3, <1>5, AppInvParts DEF OwedReplyOnShow

(* A reply that goes out was staged, so no screen owes one.                 *)
LEMMA Exchange_AppInv ==
  ASSUME AppInv, Exchange PROVE AppInv'
<1> USE DEF Exchange
<1>1. UNCHANGED <<globals, messageVars, address, menuVars, flags, chosen>>
  OBVIOUS
<1>2. GlobalsTypeOK' /\ MessageTypeOK' /\ AddressTypeOK' /\ MenuTypeOK'
  BY <1>1, AppInvParts
     DEF globals, messageVars, menuVars, GlobalsTypeOK, MessageTypeOK,
         AddressTypeOK, MenuTypeOK
<1>3. pc' = "wait" /\ ~staged' /\ staged' \in BOOLEAN
  BY Zenon
<1>4. /\ asked' \in {asked, None} /\ buffer' \in {buffer, NoMessage}
      /\ ~(staged /\ ~flags) => asked' = asked
  BY DEF Delivered, NothingArrives
<1>5. LoopTypeOK'
  BY <1>1, <1>3, <1>4, AppInvParts DEF LoopTypeOK
<1>6. SettingsInv'
  BY <1>1, AppInvParts DEF SettingsInv, SettingsKept, menuVars, Exchange
<1>7. OwedReplyOnShow'
  BY <1>1, <1>3, <1>4, AppInvParts DEF globals, OwedReplyOnShow
<1> QED BY <1>2, <1>5, <1>6, <1>7, AppInvParts

(* A confirmation that answers owes nothing any more.                       *)
LEMMA ScreenAnswersEnds ==
  ASSUME ScreenAnswers
  PROVE  /\ GlobalsTypeOK' /\ ~pending' /\ ux'.flow = "idle"
         /\ UNCHANGED <<messageVars, address, menuVars, pc, flags, staged, chosen>>
         /\ ux.flow \in ConfirmFlows
<1> DEFINE yes == TRUE
           no == FALSE
<1>1. yes \in BOOLEAN /\ no \in BOOLEAN
  OBVIOUS
<1>2. ASSUME NEW data, SendResponse(yes, data) \/ SendResponse(no, data)
      PROVE  GlobalsTypeOK' /\ ~pending' /\ ux'.flow = "idle"
  <2> HIDE DEF yes, no
  <2> QED BY <1>1, <1>2, SendType
<1>3. CASE SingAndSend /\ UNCHANGED <<messageVars, address>>
  <2>1. SendResponse(yes, SignatureMade) /\ ux.flow = "tx"
    BY <1>3 DEF SingAndSend, Validates
  <2> QED BY <1>2, <1>3, <2>1 DEF ScreenAnswers, ConfirmFlows
<1>4. CASE RejectTransaction /\ UNCHANGED <<messageVars, address>>
  <2>1. SendResponse(no, NoData) /\ ux.flow = "tx"
    BY <1>4 DEF RejectTransaction, Validates
  <2> QED BY <1>2, <1>4, <2>1 DEF ScreenAnswers, ConfirmFlows
<1>5. CASE TouchSignMessageOk(buffer) /\ UNCHANGED <<signVars, address>>
  <2>1. /\ SendResponse(yes,
             [account |-> messageAccount, message |-> buffer,
              bytes |-> (EnvelopeBytes + messageBytes) % Mod8])
        /\ ux.flow = "message" /\ UNCHANGED messageVars
    BY <1>5 DEF TouchSignMessageOk, Validates
  <2> QED BY <1>2, <1>5, <2>1 DEF ScreenAnswers, ConfirmFlows
<1>6. CASE RejectMessage /\ UNCHANGED <<signVars, address>>
  <2>1. SendResponse(no, NoData) /\ ux.flow = "message" /\ UNCHANGED messageVars
    BY <1>6 DEF RejectMessage, Validates
  <2> QED BY <1>2, <1>6, <2>1 DEF ScreenAnswers, ConfirmFlows
<1>7. CASE ApproveAddress /\ UNCHANGED <<signVars, messageVars>>
  <2>1. /\ SendResponse(yes, AddressReply(address))
        /\ ux.flow = "address" /\ UNCHANGED address
    BY <1>7 DEF ApproveAddress, Validates
  <2> QED BY <1>2, <1>7, <2>1 DEF ScreenAnswers, ConfirmFlows
<1>8. CASE RejectAddress /\ UNCHANGED <<signVars, messageVars>>
  <2>1. SendResponse(no, NoData) /\ ux.flow = "address" /\ UNCHANGED address
    BY <1>8 DEF RejectAddress, Validates
  <2> QED BY <1>2, <1>8, <2>1 DEF ScreenAnswers, ConfirmFlows
<1> QED BY <1>3, <1>4, <1>5, <1>6, <1>7, <1>8 DEF ScreenAnswers

(* So the invariant stays.                                                  *)
LEMMA ScreenAnswers_AppInv ==
  ASSUME AppInv, ScreenAnswers PROVE AppInv'
<1>1. /\ GlobalsTypeOK' /\ ~pending'
      /\ UNCHANGED <<messageVars, address, menuVars, pc, flags, staged, chosen>>
  BY ScreenAnswersEnds
<1>2. MessageTypeOK' /\ AddressTypeOK' /\ MenuTypeOK'
  BY <1>1, AppInvParts
     DEF messageVars, menuVars, MessageTypeOK, AddressTypeOK, MenuTypeOK
<1>3. asked' = None /\ buffer' \in {buffer, NoMessage}
  BY DEF ScreenAnswers, Delivered
<1>4. LoopTypeOK'
  BY <1>1, <1>3, AppInvParts DEF LoopTypeOK
<1>5. SettingsInv'
  BY <1>1, AppInvParts DEF SettingsInv, SettingsKept, menuVars
<1> QED BY <1>1, <1>2, <1>4, <1>5, AppInvParts DEF OwedReplyOnShow

(* A callback that throws leaves its error to the loop.                     *)
LEMMA ScreenFails_AppInv ==
  ASSUME AppInv, ScreenFails PROVE AppInv'
<1> USE DEF ScreenFails
<1>1. CallbackThrows("68xx") /\ UNCHANGED messageVars
  BY DEF SingAndSendThrows, TouchSignMessageThrows
<1>2. GlobalsTypeOK' /\ ~pending'
  BY <1>1, AppInvParts, CallbackType
<1>3. UNCHANGED <<address, menuVars, buffer, chosen, asked>>
  BY DEF NothingArrives
<1>4. MessageTypeOK' /\ AddressTypeOK' /\ MenuTypeOK'
  BY <1>1, <1>3, AppInvParts
     DEF messageVars, menuVars, MessageTypeOK, AddressTypeOK, MenuTypeOK
<1>5. flags' \in BOOLEAN /\ staged' \in BOOLEAN /\ pc' = "send"
  BY Zenon
<1>6. LoopTypeOK'
  BY <1>3, <1>5, AppInvParts DEF LoopTypeOK
<1>7. SettingsInv'
  BY <1>3, <1>5, AppInvParts DEF SettingsInv, SettingsKept, menuVars
<1> QED BY <1>2, <1>4, <1>6, <1>7, AppInvParts DEF OwedReplyOnShow

(* Paging leaves the flow on show.                                          *)
LEMMA Look_AppInv ==
  ASSUME AppInv, Look PROVE AppInv'
<1> USE DEF Look
<1>1. /\ GlobalsTypeOK' /\ ux'.flow = ux.flow
      /\ UNCHANGED <<result, answer, pending>>
  BY AppInvParts, MoveType
<1>2. UNCHANGED <<messageVars, address, menuVars, loopVars, chosen, asked>>
  BY DEF NothingArrives
<1>3. MessageTypeOK' /\ AddressTypeOK' /\ MenuTypeOK' /\ LoopTypeOK' /\ SettingsInv'
  BY <1>2, AppInvParts
     DEF messageVars, menuVars, loopVars, MessageTypeOK, AddressTypeOK,
         MenuTypeOK, LoopTypeOK, SettingsInv, SettingsKept
<1> QED BY <1>1, <1>2, <1>3, AppInvParts DEF OwedReplyOnShow, loopVars

(* The menus are never open over a confirmation that is awaited, and they   *)
(* write to flash what the user chose.                                      *)
LEMMA UseMenu_AppInv ==
  ASSUME AppInv, UseMenu PROVE AppInv'
<1> DEFINE menus == {"idle", "settings", "contractData", "displayData"}
<1>1. /\ UNCHANGED <<messageVars, address, loopVars, asked>> /\ pc = "wait"
      /\ GlobalsTypeOK /\ MenuTypeOK /\ SettingsInv /\ LoopTypeOK
  BY AppInvParts DEF UseMenu, NothingArrives
<1>2. /\ N_storage \in Storage /\ N_storage.initialized = 1
      /\ N_storage.dataAllowed + 1 \in 1..3
      /\ N_storage.contractDetails + 1 \in 1..3
  BY <1>1 DEF MenuTypeOK, Storage, SettingsInv, SettingsKept
<1>3. 1 \in 1..3 /\ UiIdle = Show("idle", 1) /\ menus \subseteq Flows
  BY FlowLengths DEF UiIdle
<1>4. ASSUME OpenSettings \/ SettingsSelector \/ SettingBack, UNCHANGED chosen
      PROVE  /\ GlobalsTypeOK' /\ pending' = pending /\ ux.flow \in menus
             /\ MenuTypeOK' /\ SettingsInv' /\ chosen' = chosen
  <2>1. \E flow \in menus, step \in 1..3 : GoTo(Show(flow, step))
    BY <1>2, <1>3, <1>4 DEF OpenSettings, SettingsSelector, SettingBack
  <2>2. GlobalsTypeOK' /\ pending' = pending /\ ux.flow \in menus
    <3>1. GlobalsTypeOK' /\ pending' = pending
      BY <1>1, <1>3, <2>1, GoToType
    <3> QED BY <1>4, <3>1
            DEF OpenSettings, SettingsSelector, SettingBack, Validates
  <2>3. UNCHANGED <<menuVars, chosen>>
    BY <1>4 DEF OpenSettings, SettingsSelector, SettingBack
  <2>4. MenuTypeOK' /\ SettingsInv' /\ chosen' = chosen
    BY <1>1, <2>3 DEF menuVars, loopVars, MenuTypeOK, SettingsInv, SettingsKept
  <2> QED BY <2>2, <2>4
<1>5. ASSUME NEW enabled \in Choices, ContractDataChange(enabled),
             chosen' = [chosen EXCEPT !.dataAllowed = enabled]
      PROVE  /\ GlobalsTypeOK' /\ pending' = pending /\ ux.flow \in menus
             /\ MenuTypeOK' /\ SettingsInv'
             /\ chosen' \in [dataAllowed : 0..1, contractDetails : 0..1]
  <2>1. enabled \in 0..1
    BY AppAssumption
  <2>2. GlobalsTypeOK' /\ pending' = pending /\ ux.flow \in menus
    BY <1>1, <1>3, <1>5, GoToType DEF ContractDataChange, Validates
  <2>3. /\ N_storage' \in Storage /\ N_storage'.initialized = 1
        /\ N_storage'.dataAllowed = enabled
        /\ N_storage'.contractDetails = N_storage.contractDetails
    BY <1>2, <1>5, <2>1 DEF ContractDataChange, Storage
  <2>4. /\ chosen' \in [dataAllowed : 0..1, contractDetails : 0..1]
        /\ chosen'.dataAllowed = enabled
        /\ chosen'.contractDetails = chosen.contractDetails
    BY <1>1, <1>5, <2>1 DEF LoopTypeOK
  <2>5. MenuTypeOK'
    BY <1>1, <1>5, <2>3 DEF ContractDataChange, MenuTypeOK
  <2>6. SettingsInv'
    BY <1>1, <2>3, <2>4 DEF SettingsInv, SettingsKept
  <2> QED BY <2>2, <2>4, <2>5, <2>6
<1>6. ASSUME NEW enabled \in Choices, DisplayDataChange(enabled),
             chosen' = [chosen EXCEPT !.contractDetails = enabled]
      PROVE  /\ GlobalsTypeOK' /\ pending' = pending /\ ux.flow \in menus
             /\ MenuTypeOK' /\ SettingsInv'
             /\ chosen' \in [dataAllowed : 0..1, contractDetails : 0..1]
  <2>1. enabled \in 0..1
    BY AppAssumption
  <2>2. GlobalsTypeOK' /\ pending' = pending /\ ux.flow \in menus
    BY <1>1, <1>3, <1>6, GoToType DEF DisplayDataChange, Validates
  <2>3. /\ N_storage' \in Storage /\ N_storage'.initialized = 1
        /\ N_storage'.contractDetails = enabled
        /\ N_storage'.dataAllowed = N_storage.dataAllowed
    BY <1>2, <1>6, <2>1 DEF DisplayDataChange, Storage
  <2>4. /\ chosen' \in [dataAllowed : 0..1, contractDetails : 0..1]
        /\ chosen'.contractDetails = enabled
        /\ chosen'.dataAllowed = chosen.dataAllowed
    BY <1>1, <1>6, <2>1 DEF LoopTypeOK
  <2>5. MenuTypeOK'
    BY <1>1, <1>6, <2>3 DEF DisplayDataChange, MenuTypeOK
  <2>6. SettingsInv'
    BY <1>1, <2>3, <2>4 DEF SettingsInv, SettingsKept
  <2> QED BY <2>2, <2>4, <2>5, <2>6
<1>7. /\ GlobalsTypeOK' /\ pending' = pending /\ ux.flow \in menus
      /\ MenuTypeOK' /\ SettingsInv'
      /\ chosen' \in [dataAllowed : 0..1, contractDetails : 0..1]
  <2>1. chosen \in [dataAllowed : 0..1, contractDetails : 0..1]
    BY <1>1 DEF LoopTypeOK
  <2> QED BY <1>4, <1>5, <1>6, <2>1 DEF UseMenu
<1>8. ~pending'
  BY <1>7, FlowLengths, AppInvParts DEF OwedReplyOnShow
<1>9. MessageTypeOK' /\ AddressTypeOK'
  BY <1>1, AppInvParts DEF MessageTypeOK, AddressTypeOK, messageVars
<1>10. LoopTypeOK'
  BY <1>1, <1>7 DEF LoopTypeOK, loopVars
<1> QED BY <1>7, <1>8, <1>9, <1>10, AppInvParts DEF OwedReplyOnShow

(* The device as it leaves the shop.                                        *)
LEMMA Init_AppInv == AppInit => AppInv
<1> SUFFICES ASSUME AppInit PROVE AppInv
  OBVIOUS
<1> USE DEF AppInit
<1>1. /\ ~pending /\ pending \in BOOLEAN /\ flags \in BOOLEAN
      /\ staged \in BOOLEAN
  BY Zenon DEF GlobalsInit
<1>2. GlobalsTypeOK
  BY <1>1, IdleScreen DEF GlobalsInit, GlobalsTypeOK, Outcomes
<1>3. MessageTypeOK /\ AddressTypeOK /\ MenuTypeOK
  BY AccountsAssumption, 0 \in 0..247
     DEF MessageInit, MessageTypeOK, AddressInit, AddressTypeOK, MenuInit,
         MenuTypeOK, FreshStorage, Storage
<1>4. LoopTypeOK
  BY <1>1 DEF LoopTypeOK
<1>5. SettingsInv
  BY DEF SettingsInv, SettingsKept, MenuInit, FreshStorage
<1> QED BY <1>1, <1>2, <1>3, <1>4, <1>5, AppInvParts DEF OwedReplyOnShow

(* Every step of the application keeps the invariant.                       *)
LEMMA Next_AppInv ==
  ASSUME AppInv, [AppNext]_appVars PROVE AppInv'
<1>1. CASE Launch
  BY <1>1, StartUx_AppInv DEF Launch, NothingArrives
<1>2. CASE Quit \/ PowerLoss
  BY <1>2, Stop_AppInv DEF Quit, PowerLoss
<1>3. CASE IoReset
  BY <1>3, StartUx_AppInv DEF IoReset, Disconnected
<1>4. CASE Exchange
  BY <1>4, Exchange_AppInv
<1>5. CASE HandleApdu
  BY <1>5, HandleApdu_AppInv
<1>6. CASE ScreenAnswers \/ ScreenFails
  BY <1>6, ScreenAnswers_AppInv, ScreenFails_AppInv
<1>7. CASE Look \/ UseMenu
  BY <1>7, Look_AppInv, UseMenu_AppInv
<1>8. CASE UNCHANGED appVars
  <2>1. UNCHANGED <<globals, messageVars, address, menuVars, loopVars, asked, chosen>>
    BY <1>8 DEF appVars, hostVars
  <2> QED BY <2>1, AppInvParts
          DEF globals, messageVars, menuVars, loopVars, GlobalsTypeOK,
              MessageTypeOK, AddressTypeOK, MenuTypeOK, LoopTypeOK,
              SettingsInv, SettingsKept, OwedReplyOnShow
<1> QED BY <1>1, <1>2, <1>3, <1>4, <1>5, <1>6, <1>7, <1>8 DEF AppNext

(* It holds throughout, for any host and with any faults.                   *)
THEOREM AppInvariant == AppSpec => []AppInv
<1> QED BY Init_AppInv, Next_AppInv, PTL DEF AppSpec

(* Every variable of the application keeps its type.                        *)
THEOREM AppTypeCorrect == AppSpec => []AppTypeOK
<1>1. AppInv => AppTypeOK
  BY DEF AppInv
<1> QED BY <1>1, AppInvariant, PTL

(* A reply left to a screen is still owed by that screen, with nothing      *)
(* staged that would go out in its place and the host still waiting.        *)
THEOREM OwedRepliesAreOnShow == AppSpec => []OwedReplyOnShow
<1>1. AppInv => OwedReplyOnShow
  BY DEF AppInv
<1> QED BY <1>1, AppInvariant, PTL

(* The settings survive everything but the user's choice.                   *)
THEOREM SettingsAreKept == AppSpec => []SettingsKept
<1>1. AppInv => SettingsKept
  BY DEF AppInv, SettingsInv
<1> QED BY <1>1, AppInvariant, PTL

-----------------------------------------------------------------------------
(* The statics of the SIGN command change in that command, at the end of    *)
(* its review, and when RAM is lost.                                        *)
LEMMA SignVarsSteps ==
  ASSUME [AppNext]_appVars
  PROVE  \/ HandleSign \/ Relaunch
         \/ CloseDigest \/ UNCHANGED signVars
<1>1. CASE Launch \/ Exchange \/ Look \/ UseMenu
  BY <1>1 DEF Launch, Exchange, Look, UseMenu
<1>2. CASE Quit \/ PowerLoss
  BY <1>2 DEF Quit, PowerLoss, Stop
<1>3. CASE IoReset
  BY <1>3 DEF IoReset, SingInterrupted
<1>4. CASE HandleApdu
  BY <1>4 DEF HandleApdu, SignCommand, MessageCommand, AddressCommand,
              ConfigurationCommand, UnknownCommand
<1>5. CASE ScreenAnswers
  BY <1>5 DEF ScreenAnswers, SingAndSend, RejectTransaction, RejectMessage
<1>6. CASE ScreenFails
  BY <1>6 DEF ScreenFails, SingAndSendThrows
<1>7. CASE UNCHANGED appVars
  BY <1>7 DEF appVars
<1> QED BY <1>1, <1>2, <1>3, <1>4, <1>5, <1>6, <1>7 DEF AppNext

(* So they stay consistent in the application, and the host's promise holds *)
(* there too.                                                               *)
LEMMA App_Streaming ==
  ASSUME HostFollowsProtocol, Streaming, Promised, [AppNext]_appVars
  PROVE  Streaming' /\ Promised'
<1>1. CASE HandleSign
  BY <1>1, HandleSign_Streaming, HandleSign_Promised
<1>2. CASE Relaunch
  <2>1. ~session'.accepted
    BY <1>2 DEF Relaunch, NoSession
  <2> QED BY <1>2, <2>1, Relaunch_Streaming DEF Promised
<1>3. CASE CloseDigest \/ UNCHANGED signVars
  BY <1>3, Closed_Streaming, Closed_Promised
<1> QED BY <1>1, <1>2, <1>3, SignVarsSteps

(* They start so.                                                           *)
LEMMA Init_Streaming == AppInit => Streaming /\ Promised
<1> SUFFICES ASSUME AppInit PROVE Streaming /\ Promised
  OBVIOUS
<1>1. ~session.accepted
  BY DEF AppInit, SignInit, NoSession
<1> QED BY <1>1, Zeroed_Streaming DEF AppInit, Promised

(* The review is opened by the SIGN command only.                           *)
LEMMA OtherCommands ==
  ASSUME HandleApdu, ~SignCommand
  PROVE  /\ UNCHANGED signVars
         /\ AtOnce \/ Confirm("message") \/ Confirm("address")
<1>1. ASSUME NEW sw \in {"6A80", "6B00", "6D00", "6E00", "6982", "68xx"}, Throw(sw)
      PROVE  AtOnce
  BY <1>1 DEF Throw, AtOnce, StatusWords
<1>2. ASSUME NEW data, Reply(data) PROVE AtOnce
  BY <1>2 DEF Reply, AtOnce, StatusWords
<1>3. CASE MessageCommand
  <2>1. UNCHANGED signVars
    BY <1>3 DEF MessageCommand
  <2> QED BY <1>1, <1>3, <2>1, MessageWays
          DEF MessagePresented, MessageParameterRefused, MessageLengthRefused
<1>4. CASE AddressCommand
  BY <1>1, <1>2, <1>4 DEF AddressCommand, GetAddressAtOnce, GetAddressThrows,
                          GetAddressConfirmed
<1>5. CASE ConfigurationCommand
  BY <1>2, <1>5 DEF ConfigurationCommand, GetAppConfiguration
<1>6. CASE UnknownCommand
  BY <1>1, <1>6 DEF UnknownCommand
<1> QED BY <1>3, <1>4, <1>5, <1>6 DEF HandleApdu

(* The menus lead to menus.                                                 *)
LEMMA UseMenuScreens ==
  ASSUME UseMenu
  PROVE  /\ ux.flow \notin ConfirmFlows /\ ux'.flow \notin ConfirmFlows
         /\ UNCHANGED <<result, answer, pending>>
<1> DEFINE menus == {"idle", "settings", "contractData", "displayData"}
<1>1. ASSUME NEW flow, NEW step PROVE Show(flow, step).flow = flow
  BY DEF Show
<1>2. UiIdle.flow = "idle"
  BY IdleScreen
<1>3. /\ ux.flow \in menus /\ ux'.flow \in menus
      /\ UNCHANGED <<result, answer, pending>>
  BY <1>1, <1>2 DEF UseMenu, OpenSettings, SettingsSelector, SettingBack,
                    ContractDataChange, DisplayDataChange, Validates, GoTo
<1> QED BY <1>3 DEF ConfirmFlows

-----------------------------------------------------------------------------
(* What the SIGN command guarantees its user, it guarantees in the          *)
(* application: for any host, with any faults, among all other commands.    *)
AppStreamInv ==
  /\ AppInv /\ Streaming
  /\ Reviewed => remainTransactionLength = 0

(* Every step keeps its statics consistent, and no other command opens a    *)
(* review or touches the counter under one.                                 *)
LEMMA Next_AppStreamInv ==
  ASSUME AppStreamInv, [AppNext]_appVars PROVE AppStreamInv'
<1>1. AppInv' /\ AppInv
  BY Next_AppInv DEF AppStreamInv
<1>2. Streaming'
  BY SignVarsSteps, HandleSign_Streaming, Relaunch_Streaming, Closed_Streaming
     DEF AppStreamInv
<1>3. ASSUME ~pending' PROVE AppStreamInv'
  BY <1>1, <1>2, <1>3 DEF AppStreamInv, Reviewed
<1>4. ASSUME ux'.flow = ux.flow, UNCHANGED <<pending, signVars>>
      PROVE  AppStreamInv'
  BY <1>1, <1>2, <1>4 DEF AppStreamInv, Reviewed, signVars
<1>5. CASE Launch \/ Quit \/ PowerLoss \/ IoReset
  BY <1>3, <1>5, ResetType
     DEF Launch, Quit, PowerLoss, Stop, Relaunch, IoReset, StartUx
<1>6. CASE Exchange
  BY <1>4, <1>6 DEF Exchange, globals
<1>7. CASE HandleApdu
  <2>1. ~pending
    BY <1>1, <1>7, Commanded, AppInvParts DEF Receives, OwedReplyOnShow
  <2>2. ASSUME AtOnce PROVE AppStreamInv'
    BY <1>3, <2>1, <2>2 DEF AtOnce
  <2>3. ASSUME NEW flow \in {"message", "address"}, Confirm(flow)
        PROVE  AppStreamInv'
    <3>1. ux'.flow = flow
      BY <2>3, ConfirmType DEF ConfirmFlows
    <3> QED BY <1>1, <1>2, <3>1 DEF AppStreamInv, Reviewed
  <2>4. CASE SignCommand
    <3>1. \/ remainTransactionLength' = 0
          \/ \E sw \in StatusWords : Throw(sw)
      BY <2>4, HandleSignEnds DEF SignCommand
    <3>2. ASSUME NEW sw \in StatusWords, Throw(sw) PROVE AtOnce
      BY <3>2 DEF Throw, AtOnce
    <3> QED BY <1>1, <1>2, <2>2, <3>1, <3>2 DEF AppStreamInv
  <2> QED BY <1>7, <2>2, <2>3, <2>4, OtherCommands
<1>8. CASE ScreenAnswers
  BY <1>3, <1>8, ScreenAnswersEnds
<1>9. CASE ScreenFails
  <2>1. CallbackThrows("68xx")
    BY <1>9 DEF ScreenFails, SingAndSendThrows, TouchSignMessageThrows
  <2> QED BY <1>1, <1>3, <2>1, CallbackType, AppInvParts
<1>10. CASE Look
  BY <1>1, <1>4, <1>10, MoveType, AppInvParts DEF Look
<1>11. CASE UseMenu
  <2>1. ux'.flow \notin ConfirmFlows
    BY <1>11, UseMenuScreens
  <2> QED BY <1>1, <1>2, <2>1 DEF AppStreamInv, Reviewed, ConfirmFlows
<1>12. CASE UNCHANGED appVars
  BY <1>4, <1>12 DEF appVars, globals
<1> QED BY <1>5, <1>6, <1>7, <1>8, <1>9, <1>10, <1>11, <1>12 DEF AppNext

(* From the start on, throughout.                                           *)
LEMMA AppStreamInvariant == AppSpec => []AppStreamInv
<1>1. AppInit => AppStreamInv
  <2> SUFFICES ASSUME AppInit PROVE AppStreamInv
    OBVIOUS
  <2>1. ~pending
    BY DEF AppInit, GlobalsInit
  <2> QED BY <2>1, Init_AppInv, Zeroed_Streaming
          DEF AppInit, AppStreamInv, Reviewed
<1>2. AppStreamInv /\ [AppNext]_appVars => AppStreamInv'
  BY Next_AppStreamInv
<1> QED BY <1>1, <1>2, PTL DEF AppSpec

(* A review has all declared bytes in.                                      *)
LEMMA ReviewHasAll ==
  ASSUME AppStreamInv, Reviewed PROVE session.fed = session.declared
<1>1. /\ session.declared \in 0..(Mod32 - 1)
      /\ session.fed \in Nat /\ session.fed < Mod32
  BY SignAssumption, SizesAssumption DEF AppStreamInv, Streaming, StreamTypeOK, Session
<1>2. Left(session.declared, session.fed) = 0
  BY DEF AppStreamInv, Streaming, Counting
<1> QED BY <1>1, <1>2, LeftZero

(* No review is open on part of a stream, whichever commands came between   *)
(* the blocks and whatever failed.                                          *)
THEOREM ReviewsAreCompleteInApp == AppSpec => []ReviewIsComplete
<1>1. AppStreamInv => ReviewIsComplete
  BY ReviewHasAll DEF ReviewIsComplete
<1> QED BY <1>1, AppStreamInvariant, PTL

(* The display buffers, the account and the network id under a review are   *)
(* those of the transaction that is hashed: messages, addresses and menus   *)
(* in between, restarts and resets leave nothing of theirs there.           *)
THEOREM ShownFieldsAreHashedInApp == AppSpec => []ShownIsHashed
<1>1. AppStreamInv => ShownIsHashed
  BY DEF AppStreamInv, Streaming, Stream, ShownIsHashed
<1> QED BY <1>1, AppStreamInvariant, PTL

(* Under a review, only its approval answers with data.                     *)
LEMMA OnlyApprovalSignsInApp ==
  ASSUME AppInv, [AppNext]_appVars, Reviewed, answer' \notin {answer, NoData}
  PROVE  SingAndSend
<1>1. pending /\ ux.flow = "tx"
  BY DEF Reviewed
<1>2. ~Launch /\ ~Quit /\ ~PowerLoss /\ ~IoReset
  BY ResetType DEF Launch, Quit, PowerLoss, Stop, Relaunch, IoReset, StartUx
<1>3. ~HandleApdu
  BY <1>1, Commanded, AppInvParts DEF Receives, OwedReplyOnShow
<1>4. ~ScreenFails
  BY AppInvParts, CallbackType
     DEF ScreenFails, SingAndSendThrows, TouchSignMessageThrows
<1>5. ~Exchange /\ ~Look /\ ~UseMenu /\ ~UNCHANGED appVars
  BY MoveType, AppInvParts, UseMenuScreens
     DEF Exchange, globals, Look, appVars
<1>6. ScreenAnswers
  BY <1>2, <1>3, <1>4, <1>5 DEF AppNext
<1> QED BY <1>1, <1>6
        DEF ScreenAnswers, RejectTransaction, TouchSignMessageOk, RejectMessage,
            ApproveAddress, RejectAddress, Validates, SendResponse

(* And that answer is a signature over what the user walked through.        *)
THEOREM ShownFieldsAreSignedInApp == AppSpec => ShownIsSigned
<1>1. ASSUME AppStreamInv, [AppNext]_appVars PROVE SignsTheShown
  <2> SUFFICES ASSUME answer' \notin {answer, NoData}, hash.open, Reviewed
               PROVE  SignsTheShown
    BY DEF SignsTheShown
  <2>1. SingAndSend
    BY <1>1, OnlyApprovalSignsInApp DEF AppStreamInv
  <2>2. answer' = SignatureMade
    BY <2>1 DEF SingAndSend, SendResponse
  <2>3. answer'.tx = hash.tx
    BY <2>2 DEF SignatureMade, SigningAccount
  <2>4. ux.at = 6 /\ ux.at <= ux.far
    BY <1>1, <2>1, Steps, AppInvParts
       DEF SingAndSend, Validates, AppStreamInv, GlobalsTypeOK
  <2>5. ux.far >= 6
    BY <1>1, <2>4, AppInvParts DEF AppStreamInv, GlobalsTypeOK, Screen
  <2>6. session.fed = session.declared
    BY <1>1, ReviewHasAll
  <2>7. session.accepted /\ Layout[session.tx].kind = "spend" =>
          \A f \in DisplayFields :
            Intact(session.tx, session.first, f) => shown[f] = answer'.tx
    BY <1>1, <2>3 DEF AppStreamInv, Streaming, Stream
  <2> QED BY <2>5, <2>6, <2>7, Steps DEF SignsTheShown
<1>2. AppStreamInv /\ [AppNext]_appVars => [SignsTheShown]_vars
  BY <1>1
<1> QED BY <1>2, AppStreamInvariant, PTL DEF AppSpec, ShownIsSigned

-----------------------------------------------------------------------------
(* With a host that follows the protocol and an SDK that does not fail.     *)
QuietInv ==
  /\ AppInv /\ Streaming /\ Promised
  /\ NoStrayScreen
  /\ ux.flow = "tx" => hash.open
  /\ staged => asked # None

(* The digest under a review is open, so no callback throws.                *)
LEMMA QuietScreens ==
  ASSUME ~Faults, QuietInv PROVE ~ScreenFails
BY DEF ScreenFails, SingAndSendThrows, Validates, QuietInv

(* Every step keeps it.                                                     *)
LEMMA Next_QuietInv ==
  ASSUME HostFollowsProtocol, ~Faults, QuietInv, [AppNext]_appVars
  PROVE  QuietInv'
<1> USE DEF QuietInv
<1>1. AppInv' /\ Streaming' /\ Promised'
  BY Next_AppInv, App_Streaming
<1>2. ASSUME ux'.flow = "idle", ~staged' PROVE QuietInv'
  BY <1>1, <1>2 DEF NoStrayScreen, ConfirmFlows
<1>3. CASE Launch \/ IoReset
  BY <1>2, <1>3, ResetType DEF Launch, IoReset, StartUx
<1>4. CASE Quit \/ PowerLoss
  BY <1>2, <1>4, ResetType DEF Quit, PowerLoss, Stop, Relaunch
<1>5. CASE Exchange
  BY <1>1, <1>5 DEF Exchange, globals, signVars, NoStrayScreen
<1>6. CASE HandleApdu
  <2>1. ACommand /\ Receives /\ LoopTypeOK
    BY <1>6, Commanded, AppInvParts
  <2>2. asked' # None
    BY <2>1, CommandedLoop
  <2>3. ux.flow \notin ConfirmFlows
    BY <2>1, AppInvParts DEF NoStrayScreen, OwedReplyOnShow, Receives
  <2>4. ASSUME AtOnce PROVE QuietInv'
    BY <1>1, <2>2, <2>3, <2>4 DEF AtOnce, NoStrayScreen, ConfirmFlows
  <2>5. ASSUME Confirm("message") \/ Confirm("address") PROVE QuietInv'
    <3>1. pending' /\ ux'.flow \in {"message", "address"}
      BY <2>5, ConfirmType DEF ConfirmFlows
    <3> QED BY <1>1, <2>2, <3>1 DEF NoStrayScreen
  <2>6. CASE SignCommand
    <3>1. HandleSign
      BY <2>6 DEF SignCommand
    <3>2. Confirm("tx") => hash'.open
      BY <3>1, HandleSign_Promised
    <3>3. CASE Confirm("tx")
      <4>1. pending' /\ ux'.flow = "tx"
        BY <3>3, ConfirmType DEF ConfirmFlows
      <4> QED BY <1>1, <2>2, <3>2, <3>3, <4>1 DEF NoStrayScreen
    <3>4. ASSUME NEW sw \in StatusWords, Throw(sw) PROVE AtOnce
      BY <3>4 DEF Throw, AtOnce
    <3> QED BY <2>4, <3>1, <3>3, <3>4, HandleSignEnds
  <2> QED BY <1>6, <2>4, <2>5, <2>6, OtherCommands
<1>7. CASE ScreenAnswers
  <2>1. /\ ux'.flow = "idle" /\ staged' = staged
        /\ ux.flow \in ConfirmFlows
    BY <1>7, ScreenAnswersEnds
  <2>2. ~staged
    BY <2>1, AppInvParts DEF NoStrayScreen, OwedReplyOnShow
  <2> QED BY <1>2, <2>1, <2>2
<1>8. CASE Look
  <2>1. ux'.flow = ux.flow /\ UNCHANGED pending
    BY <1>8, MoveType, AppInvParts DEF Look
  <2>2. UNCHANGED <<signVars, staged, asked>>
    BY <1>8 DEF Look, loopVars, NothingArrives
  <2> QED BY <1>1, <2>1, <2>2 DEF signVars, NoStrayScreen
<1>9. CASE UseMenu
  <2>1. ux'.flow \notin ConfirmFlows
    BY <1>9, UseMenuScreens
  <2>2. UNCHANGED <<staged, asked>>
    BY <1>9 DEF UseMenu, loopVars, NothingArrives
  <2> QED BY <1>1, <2>1, <2>2 DEF NoStrayScreen, ConfirmFlows
<1>10. CASE UNCHANGED appVars
  BY <1>1, <1>10
     DEF appVars, globals, signVars, loopVars, hostVars, NoStrayScreen
<1> QED BY <1>3, <1>4, <1>5, <1>6, <1>7, <1>8, <1>9, <1>10, QuietScreens
        DEF AppNext

(* It holds from the start on.                                              *)
LEMMA Init_QuietInv == AppInit => QuietInv
<1> SUFFICES ASSUME AppInit PROVE QuietInv
  OBVIOUS
<1>1. ux = UiIdle /\ ~staged
  BY DEF AppInit, GlobalsInit
<1> QED BY <1>1, Init_AppInv, Init_Streaming, IdleScreen
        DEF QuietInv, NoStrayScreen, ConfirmFlows

(* And throughout.                                                          *)
LEMMA QuietInvariant ==
  ASSUME HostFollowsProtocol, ~Faults PROVE AppSpec => []QuietInv
<1>1. QuietInv /\ [AppNext]_appVars => QuietInv'
  BY Next_QuietInv
<1> QED BY <1>1, Init_QuietInv, PTL DEF AppSpec

(* No confirmation stays on show after it was answered.                     *)
THEOREM NoScreenStays ==
  ASSUME HostFollowsProtocol, ~Faults PROVE AppSpec => []NoStrayScreen
<1>1. QuietInv => NoStrayScreen
  BY DEF QuietInv
<1> QED BY <1>1, QuietInvariant, PTL

(* An answer reaches the host from the loop or from a screen only.          *)
LEMMA WhereAnswersComeFrom ==
  ASSUME AppNext, inbox' # None PROVE Exchange \/ ScreenAnswers
<1>1. ~Launch /\ ~Quit /\ ~PowerLoss /\ ~IoReset
  BY DEF Launch, Quit, PowerLoss, Stop, IoReset, Disconnected, NothingArrives
<1>2. ~HandleApdu
  BY DEF HandleApdu, SignCommand, MessageCommand, AddressCommand,
         ConfigurationCommand, UnknownCommand, Command
<1>3. ~ScreenFails /\ ~Look /\ ~UseMenu
  BY DEF ScreenFails, Look, UseMenu, NothingArrives
<1> QED BY <1>1, <1>2, <1>3 DEF AppNext

(* Nothing is sent to a host that asked nothing, and no command is answered *)
(* twice, by the loop and by a screen.                                      *)
THEOREM RepliesAreAsked ==
  ASSUME HostFollowsProtocol, ~Faults PROVE AppSpec => OneReplyPerCommand
<1>1. ASSUME QuietInv, AppNext, inbox' # None PROVE asked # None
  <2>1. CASE Exchange
    BY <1>1, <2>1 DEF Exchange, NothingArrives, QuietInv
  <2>2. CASE ScreenAnswers
    BY <2>2, ScreenAnswersEnds, <1>1, AppInvParts
       DEF QuietInv, NoStrayScreen, OwedReplyOnShow
  <2> QED BY <1>1, <2>1, <2>2, WhereAnswersComeFrom
<1>2. QuietInv /\ [AppNext]_appVars => [inbox' # None => asked # None]_appVars
  BY <1>1
<1> QED BY <1>2, QuietInvariant, PTL DEF AppSpec, OneReplyPerCommand

-----------------------------------------------------------------------------
(* What Matches asks of the answers to each command.                        *)
LEMMA MatchesByCommand ==
  ASSUME NEW data
  PROVE  /\ asked.ins = "addressConfirmed" /\ data = AddressReply(asked.account)
              => Matches(data)
         /\ /\ asked.ins = "message" /\ data.account = asked.account
            /\ data.message = asked.message /\ data.message = messageText
            /\ EnvelopeBytes + BytesOf[asked.message] < Mod8 =>
                 data.bytes = EnvelopeBytes + BytesOf[asked.message]
            => Matches(data)
         /\ /\ asked.ins = "sign"
            /\ data = [account |-> session.account, network |-> session.network,
                       tx |-> session.tx, len |-> session.declared,
                       foreign |-> FALSE]
            => Matches(data)
BY DEF Matches

(* The same for the answers that a handler leaves to the loop.              *)
LEMMA MatchesAtOnce ==
  /\ asked'.ins = "address" /\ answer' = AddressReply(asked'.account)
       => Matches(answer)'
  /\ asked'.ins = "configuration"
       /\ answer' = [dataAllowed |-> chosen'.dataAllowed]
       => Matches(answer)'
BY DEF Matches

(* While the host waits, a screen owes its answer or the loop has it.       *)
AnswerAhead ==
  asked # None => pc # "off" /\ (pending \/ (pc = "send" /\ staged /\ ~flags))

(* Data that the loop has staged is about the command it is for.            *)
StagedMatches ==
  pc = "send" /\ staged /\ asked # None /\ answer # NoData =>
    result = "9000" /\ Matches(answer)

(* What a confirmation has on show, and all it will answer from, is of the  *)
(* command that the host waits for.                                         *)
ConfirmMatches ==
  pending =>
    /\ ux.flow = "address" =>
         asked.ins = "addressConfirmed" /\ address = asked.account
    /\ ux.flow = "message" =>
         /\ asked.ins = "message" /\ messageAccount = asked.account
         /\ asked.message \in Messages /\ messageText = asked.message
         /\ buffer = asked.message
         /\ messageBytes = BytesOf[asked.message]
    /\ ux.flow = "tx" =>
         /\ asked.ins = "sign" /\ hash.open /\ session.accepted
         /\ remainTransactionLength = 0

(* With a host that follows the protocol, whatever fails.                   *)
MatchInv ==
  /\ AppInv /\ Streaming /\ Promised
  /\ AnswerAhead /\ StagedMatches /\ ConfirmMatches

(* A command that is refused leaves no data behind.                         *)
LEMMA Refused_MatchInv ==
  ASSUME AppInv', Streaming', Promised', ~pending', staged', ~flags',
         pc' = "send", answer' = NoData
  PROVE  MatchInv'
BY DEF MatchInv, AnswerAhead, StagedMatches, ConfirmMatches

(* The SIGN command.                                                        *)
LEMMA SignCommand_MatchInv ==
  ASSUME HostFollowsProtocol, MatchInv, SignCommand PROVE MatchInv'
<1>1. AppInv' /\ Streaming' /\ Promised' /\ HandleSign /\ HandleApdu
  BY Next_AppInv, App_Streaming DEF MatchInv, HandleApdu, AppNext, SignCommand
<1>2. /\ pc' = "send" /\ asked' # None
      /\ flags' <=> (result' = "async")
      /\ staged' <=> (result' # "async")
  BY <1>1, Commanded, CommandedLoop, AppInvParts DEF MatchInv
<1>3. asked'.ins = "sign"
  BY DEF SignCommand, Command
<1>4. CASE Confirm("tx") /\ remainTransactionLength' = 0
  <2>1. /\ pending' /\ ux'.flow = "tx" /\ answer' = NoData
    BY <1>4, ConfirmType DEF ConfirmFlows
  <2>2. hash'.open /\ session'.accepted
    BY <1>1, <1>4, HandleSign_Promised DEF MatchInv
  <2> QED BY <1>1, <1>2, <1>3, <1>4, <2>1, <2>2
          DEF MatchInv, AnswerAhead, StagedMatches, ConfirmMatches
<1>5. ASSUME NEW sw \in StatusWords, Throw(sw) PROVE MatchInv'
  <2>1. ~pending' /\ answer' = NoData /\ result' # "async"
    BY <1>1, <1>5, HandleSignEnds DEF Throw, StatusWords
  <2> QED BY <1>1, <1>2, <2>1, Refused_MatchInv
<1> QED BY <1>1, <1>4, <1>5, HandleSignEnds

(* The other commands, by what they leave.                                  *)
LEMMA MessageCommand_MatchInv ==
  ASSUME HostFollowsProtocol, MatchInv, MessageCommand PROVE MatchInv'
<1>1. AppInv' /\ Streaming' /\ Promised' /\ HandleApdu /\ Receives /\ ~pending
  BY Next_AppInv, App_Streaming, AppInvParts
     DEF MatchInv, HandleApdu, AppNext, MessageCommand, Receives, OwedReplyOnShow
<1>2. /\ pc' = "send" /\ asked' # None
      /\ flags' <=> (result' = "async")
      /\ staged' <=> (result' # "async")
  BY <1>1, Commanded, CommandedLoop, AppInvParts DEF MatchInv
<1>3. ASSUME NEW account \in Accounts, NEW message \in Messages,
             MessagePresented(account, message, BytesOf[message]),
             Command("message", account, message)
      PROVE  MatchInv'
  <2>1. pending' /\ ux'.flow = "message" /\ answer' = NoData
    BY <1>3, ConfirmType DEF MessagePresented, ConfirmFlows
  <2>2. /\ asked'.ins = "message" /\ asked'.account = account
        /\ asked'.message = message /\ buffer' = message
    BY <1>3 DEF Command
  <2>3. ConfirmMatches'
    BY <1>3, <2>1, <2>2 DEF MessagePresented, ConfirmMatches
  <2> QED BY <1>1, <1>2, <2>1, <2>3 DEF MatchInv, AnswerAhead, StagedMatches
<1>4. ASSUME NEW sw \in {"6B00", "6A80"}, Throw(sw) PROVE MatchInv'
  <2>1. ~pending' /\ answer' = NoData /\ result' # "async"
    BY <1>1, <1>4 DEF Throw
  <2> QED BY <1>1, <1>2, <2>1, Refused_MatchInv
<1> QED BY <1>3, <1>4, MessageWays
        DEF MessageParameterRefused, MessageLengthRefused

(* An address is answered at once or left to its screen.                    *)
LEMMA AddressCommand_MatchInv ==
  ASSUME HostFollowsProtocol, MatchInv, AddressCommand PROVE MatchInv'
<1>1. AppInv' /\ Streaming' /\ Promised' /\ HandleApdu /\ Receives /\ ~pending
  BY Next_AppInv, App_Streaming, AppInvParts
     DEF MatchInv, HandleApdu, AppNext, AddressCommand, Receives, OwedReplyOnShow
<1>2. /\ pc' = "send" /\ asked' # None
      /\ flags' <=> (result' = "async")
      /\ staged' <=> (result' # "async")
  BY <1>1, Commanded, CommandedLoop, AppInvParts DEF MatchInv
<1>3. ASSUME NEW account \in Accounts, GetAddressAtOnce(account),
             Command("address", account, NoMessage)
      PROVE  MatchInv'
  <2>1. /\ result' = "9000" /\ answer' = AddressReply(account) /\ ~pending'
        /\ asked'.ins = "address" /\ asked'.account = account
    BY <1>1, <1>3 DEF GetAddressAtOnce, Reply, Command
  <2>2. Matches(answer)'
    BY <2>1, MatchesAtOnce
  <2> QED BY <1>1, <1>2, <2>1, <2>2
          DEF MatchInv, AnswerAhead, StagedMatches, ConfirmMatches
<1>4. CASE GetAddressThrows
  <2>1. ~pending' /\ answer' = NoData /\ result' # "async"
    BY <1>1, <1>4 DEF GetAddressThrows, Throw
  <2> QED BY <1>1, <1>2, <2>1, Refused_MatchInv
<1>5. ASSUME NEW account \in Accounts, GetAddressConfirmed(account),
             Command("addressConfirmed", account, NoMessage)
      PROVE  MatchInv'
  <2>1. pending' /\ ux'.flow = "address" /\ answer' = NoData
    BY <1>5, ConfirmType DEF GetAddressConfirmed, ConfirmFlows
  <2>2. /\ asked'.ins = "addressConfirmed" /\ asked'.account = account
        /\ address' = account
    BY <1>5 DEF GetAddressConfirmed, Command
  <2> QED BY <1>1, <1>2, <2>1, <2>2
          DEF MatchInv, AnswerAhead, StagedMatches, ConfirmMatches
<1> QED BY <1>3, <1>4, <1>5 DEF AddressCommand

(* The configuration is the stored setting, which is the user's choice.     *)
LEMMA ConfigurationCommand_MatchInv ==
  ASSUME HostFollowsProtocol, MatchInv, ConfigurationCommand PROVE MatchInv'
<1>1. AppInv' /\ Streaming' /\ Promised' /\ HandleApdu /\ Receives /\ ~pending
  BY Next_AppInv, App_Streaming, AppInvParts
     DEF MatchInv, HandleApdu, AppNext, ConfigurationCommand, Receives,
         OwedReplyOnShow
<1>2. /\ pc' = "send" /\ asked' # None /\ chosen' = chosen
      /\ flags' <=> (result' = "async")
      /\ staged' <=> (result' # "async")
  BY <1>1, Commanded, CommandedLoop, AppInvParts DEF MatchInv
<1>3. /\ result' = "9000" /\ answer' = [dataAllowed |-> N_storage.dataAllowed]
      /\ ~pending' /\ asked'.ins = "configuration"
  BY <1>1 DEF ConfigurationCommand, GetAppConfiguration, Reply, Configuration,
              Command
<1>4. N_storage.dataAllowed = chosen.dataAllowed
  BY AppInvParts DEF MatchInv, SettingsInv, SettingsKept
<1>5. Matches(answer)'
  BY <1>2, <1>3, <1>4, MatchesAtOnce
<1> QED BY <1>1, <1>2, <1>3, <1>5
        DEF MatchInv, AnswerAhead, StagedMatches, ConfirmMatches

(* An unknown command gets its error.                                       *)
LEMMA UnknownCommand_MatchInv ==
  ASSUME HostFollowsProtocol, MatchInv, UnknownCommand PROVE MatchInv'
<1>1. AppInv' /\ Streaming' /\ Promised' /\ HandleApdu /\ Receives /\ ~pending
  BY Next_AppInv, App_Streaming, AppInvParts
     DEF MatchInv, HandleApdu, AppNext, UnknownCommand, Receives, OwedReplyOnShow
<1>2. /\ pc' = "send"
      /\ flags' <=> (result' = "async")
      /\ staged' <=> (result' # "async")
  BY <1>1, Commanded, CommandedLoop, AppInvParts DEF MatchInv
<1>3. ~pending' /\ answer' = NoData /\ result' # "async"
  BY <1>1 DEF UnknownCommand, Throw
<1> QED BY <1>1, <1>2, <1>3, Refused_MatchInv

(* Every step keeps what is matched.                                        *)
LEMMA Next_MatchInv ==
  ASSUME HostFollowsProtocol, MatchInv, [AppNext]_appVars PROVE MatchInv'
<1>1. AppInv' /\ Streaming' /\ Promised' /\ AppInv
  BY Next_AppInv, App_Streaming DEF MatchInv
<1>2. ASSUME ~pending', asked' = None PROVE MatchInv'
  BY <1>1, <1>2 DEF MatchInv, AnswerAhead, StagedMatches, ConfirmMatches
<1>3. CASE Launch
  BY <1>2, <1>3, ResetType
     DEF Launch, StartUx, NothingArrives, MatchInv, AnswerAhead
<1>4. CASE Quit \/ PowerLoss \/ IoReset
  BY <1>2, <1>4, ResetType
     DEF Quit, PowerLoss, Stop, Relaunch, IoReset, StartUx, Disconnected
<1>5. CASE Exchange
  <2>1. UNCHANGED <<globals, signVars, messageVars, address>> /\ pc' = "wait"
    BY <1>5 DEF Exchange
  <2>2. CASE staged /\ ~flags
    <3>1. ~pending
      BY <1>1, <2>2, AppInvParts DEF OwedReplyOnShow
    <3> QED BY <1>2, <1>5, <2>1, <2>2, <3>1 DEF Exchange, Delivered, globals
  <2>3. CASE ~(staged /\ ~flags)
    <3>1. asked' = asked /\ buffer' = buffer
      BY <1>5, <2>3 DEF Exchange, NothingArrives
    <3>2. AnswerAhead'
      BY <2>1, <2>3, <3>1 DEF MatchInv, AnswerAhead, globals
    <3>3. ConfirmMatches'
      BY <2>1, <3>1
         DEF MatchInv, ConfirmMatches, globals, signVars, messageVars
    <3> QED BY <1>1, <2>1, <3>2, <3>3 DEF MatchInv, StagedMatches
  <2> QED BY <2>2, <2>3
<1>6. CASE HandleApdu
  BY <1>6, SignCommand_MatchInv, MessageCommand_MatchInv,
     AddressCommand_MatchInv, ConfigurationCommand_MatchInv,
     UnknownCommand_MatchInv
     DEF HandleApdu
<1>7. CASE ScreenAnswers
  BY <1>2, <1>7, ScreenAnswersEnds DEF ScreenAnswers, Delivered
<1>8. CASE ScreenFails
  <2>1. CallbackThrows("68xx")
    BY <1>8 DEF ScreenFails, SingAndSendThrows, TouchSignMessageThrows
  <2>2. ~pending' /\ answer' = NoData
    BY <2>1, CallbackType, <1>1, AppInvParts
  <2> QED BY <1>1, <1>8, <2>2, Refused_MatchInv DEF ScreenFails
<1>9. CASE Look
  <2>1. ux'.flow = ux.flow /\ UNCHANGED <<result, answer, pending>>
    BY <1>1, <1>9, MoveType, AppInvParts DEF Look
  <2>2. /\ UNCHANGED <<signVars, messageVars, address, loopVars, asked>>
        /\ pc = "wait"
    BY <1>9 DEF Look, NothingArrives
  <2> QED BY <1>1, <2>1, <2>2
          DEF MatchInv, AnswerAhead, StagedMatches, ConfirmMatches, signVars,
              messageVars, loopVars
<1>10. CASE UseMenu
  <2>1. /\ ux.flow \notin ConfirmFlows /\ UNCHANGED pending
    BY <1>10, UseMenuScreens
  <2>2. ~pending
    BY <1>1, <2>1, AppInvParts DEF OwedReplyOnShow
  <2>3. pc = "wait" /\ asked' = asked
    BY <1>10 DEF UseMenu, NothingArrives
  <2> QED BY <1>2, <2>1, <2>2, <2>3 DEF MatchInv, AnswerAhead
<1>11. CASE UNCHANGED appVars
  BY <1>1, <1>11
     DEF appVars, globals, signVars, messageVars, loopVars, hostVars, MatchInv,
         AnswerAhead, StagedMatches, ConfirmMatches, Matches
<1> QED BY <1>3, <1>4, <1>5, <1>6, <1>7, <1>8, <1>9, <1>10, <1>11 DEF AppNext

(* It holds from the start on.                                              *)
LEMMA Init_MatchInv == AppInit => MatchInv
<1> SUFFICES ASSUME AppInit PROVE MatchInv
  OBVIOUS
<1>1. ~pending /\ asked = None
  BY DEF AppInit, GlobalsInit
<1> QED BY <1>1, Init_AppInv, Init_Streaming
        DEF MatchInv, AnswerAhead, StagedMatches, ConfirmMatches

(* A screen that answers a waiting host answers from what it shows.         *)
LEMMA ScreenMatches ==
  ASSUME MatchInv, ScreenAnswers, asked # None, answer' # NoData
  PROVE  result' = "9000" /\ Matches(answer')
<1>1. pending
  BY DEF ScreenAnswers, MatchInv, AnswerAhead
<1>2. ConfirmMatches
  BY DEF MatchInv
<1>3. CASE SingAndSend
  <2>1. ux.flow = "tx" /\ answer' = SignatureMade /\ result' = "9000"
    BY <1>3 DEF SingAndSend, Validates, SendResponse
  <2>2. /\ asked.ins = "sign" /\ hash.open /\ session.accepted
        /\ remainTransactionLength = 0
    BY <1>1, <1>2, <2>1 DEF ConfirmMatches
  <2>3. Signable
    BY <2>2, PromisedIsSignable DEF MatchInv
  <2> QED BY <2>1, <2>2, <2>3, SignableIsWhole, MatchesByCommand
<1>4. CASE TouchSignMessageOk(buffer)
  <2>1. ux.flow = "message" /\ result' = "9000"
    BY <1>4 DEF TouchSignMessageOk, Validates, SendResponse
  <2>2. answer' = [account |-> messageAccount, message |-> buffer,
                   bytes |-> (EnvelopeBytes + messageBytes) % Mod8]
    BY <1>4 DEF TouchSignMessageOk, SendResponse
  <2>3. /\ asked.ins = "message" /\ messageAccount = asked.account
        /\ asked.message \in Messages /\ messageText = asked.message
        /\ buffer = asked.message
        /\ messageBytes = BytesOf[asked.message]
    BY <1>1, <1>2, <2>1 DEF ConfirmMatches
  <2>4. /\ answer'.account = messageAccount /\ answer'.message = buffer
        /\ answer'.bytes = (EnvelopeBytes + messageBytes) % Mod8
    BY <2>2
  <2>5. EnvelopeBytes + BytesOf[asked.message] < Mod8 =>
          answer'.bytes = EnvelopeBytes + BytesOf[asked.message]
    <3>1. EnvelopeBytes + BytesOf[asked.message] \in Nat /\ Mod8 \in Nat \ {0}
      BY <2>3, MessageAssumption
    <3> QED BY <2>3, <2>4, <3>1
  <2> QED BY <2>1, <2>3, <2>4, <2>5, MatchesByCommand
<1>5. CASE ApproveAddress
  <2>1. ux.flow = "address" /\ answer' = AddressReply(address) /\ result' = "9000"
    BY <1>5 DEF ApproveAddress, Validates, SendResponse
  <2>2. asked.ins = "addressConfirmed" /\ address = asked.account
    BY <1>1, <1>2, <2>1 DEF ConfirmMatches
  <2> QED BY <2>1, <2>2, MatchesByCommand
<1>6. ~RejectTransaction /\ ~RejectMessage /\ ~RejectAddress
  BY DEF RejectTransaction, RejectMessage, RejectAddress, SendResponse
<1> QED BY <1>3, <1>4, <1>5, <1>6 DEF ScreenAnswers

(* A host that follows the protocol gets data only about the command it     *)
(* sent, with the success code, over every history of refusals, resets,     *)
(* failing callbacks and confirmations they leave behind.                   *)
THEOREM RepliesMatchCommands ==
  ASSUME HostFollowsProtocol PROVE AppSpec => ReplyMatchesCommand
<1> DEFINE Right == inbox' # None /\ asked # None /\ inbox'.data # NoData
                      => inbox'.sw = "9000" /\ Matches(inbox'.data)
<1>1. ASSUME MatchInv, AppNext, inbox' # None, asked # None, inbox'.data # NoData
      PROVE  inbox'.sw = "9000" /\ Matches(inbox'.data)
  <2>1. CASE Exchange
    <3>1. inbox' = [sw |-> result, data |-> answer] /\ pc = "send" /\ staged
      BY <1>1, <2>1 DEF Exchange, Delivered, NothingArrives
    <3> QED BY <1>1, <3>1 DEF MatchInv, StagedMatches
  <2>2. CASE ScreenAnswers
    <3>1. inbox' = [sw |-> result', data |-> answer']
      BY <2>2 DEF ScreenAnswers, Delivered
    <3> QED BY <1>1, <2>2, <3>1, ScreenMatches
  <2> QED BY <1>1, <2>1, <2>2, WhereAnswersComeFrom
<1>2. ASSUME MatchInv, [AppNext]_appVars PROVE [Right]_appVars
  BY <1>1, <1>2
<1>3. MatchInv /\ [AppNext]_appVars => MatchInv'
  BY Next_MatchInv
<1>4. MatchInv /\ [AppNext]_appVars => [Right]_appVars
  BY <1>2
<1> QED BY <1>3, <1>4, Init_MatchInv, PTL DEF AppSpec, ReplyMatchesCommand

-----------------------------------------------------------------------------
(* The application implements the abstract device.                          *)

(* What the loop has staged is among the replies that are told at once.     *)
StagedTold ==
  pc = "send" /\ staged /\ asked # None =>
    [sw |-> result, data |-> answer] \in ToldTo(asked, chosen)

(* The invariant under which the steps correspond.                          *)
DeviceInv == QuietInv /\ MatchInv /\ OrderKept /\ StagedTold

(* What is told of each command.                                            *)
LEMMA ToldByCommand ==
  ASSUME NEW request, NEW settings
  PROVE  /\ request.ins = "sign" =>
              ToldTo(request, settings) = {Status("9000"), Status("6A80")}
         /\ request.ins = "messageMore" =>
              ToldTo(request, settings) = {Status("6B00")}
         /\ request.ins = "messageShort" =>
              ToldTo(request, settings) = {Status("6A80")}
         /\ request.ins = "address" =>
              ToldTo(request, settings) = {Success(AddressReply(request.account))}
         /\ request.ins = "configuration" =>
              ToldTo(request, settings) =
                {Success([dataAllowed |-> settings.dataAllowed])}
         /\ request.ins = "unknown" =>
              ToldTo(request, settings) =
                {Status("6E00"), Status("6D00"), Status("6982")}
BY DEF ToldTo

(* What is put on offer for each command that is left to the user.          *)
LEMMA DealsByCommand ==
  ASSUME NEW request
  PROVE  /\ request.ins = "addressConfirmed" =>
              AddressDeal(request.account) \in DealsOn(request)
         /\ request.ins = "message" /\ request.message \in Messages =>
              MessageDeal(request.account, request.message) \in DealsOn(request)
         /\ request.ins = "sign" =>
              \A t \in Transactions, a \in Accounts, i \in NetworkIds :
                SignDeal(t, a, i) \in DealsOn(request)
BY DEF DealsOn

(* The reply that a handler stages.                                         *)
LEMMA StagedReplies ==
  /\ \A sw : Throw(sw) => [sw |-> result', data |-> answer'] = Status(sw)
  /\ \A data : Reply(data) => [sw |-> result', data |-> answer'] = Success(data)
  /\ \A flow : Confirm(flow) => result' = "async"
BY DEF Throw, Reply, Confirm, Status, Success

(* Every command stages what is told of it, or opens a screen.              *)
LEMMA HandleApdu_Told ==
  ASSUME HostFollowsProtocol, ~Faults, AppInv, HandleApdu
  PROVE  \/ result' = "async"
         \/ [sw |-> result', data |-> answer'] \in ToldTo(asked', chosen')
<1> DEFINE staging == [sw |-> result', data |-> answer']
           Fits == result' = "async" \/ staging \in ToldTo(asked', chosen')
<1> SUFFICES Fits
  OBVIOUS
<1>1. /\ \A sw : Throw(sw) => staging = Status(sw)
      /\ \A data : Reply(data) => staging = Success(data)
      /\ \A flow : Confirm(flow) => result' = "async"
  BY StagedReplies
<1>2. ASSUME NEW ins, NEW account, NEW message, Command(ins, account, message)
      PROVE  /\ asked'.ins = ins /\ asked'.account = account
             /\ chosen' = chosen
  BY <1>2 DEF Command
<1> HIDE DEF staging
<1>3. CASE SignCommand
  <2>1. asked'.ins = "sign"
    BY <1>2, <1>3 DEF SignCommand
  <2>2. Confirm("tx") \/ Throw("9000") \/ Throw("6A80")
    BY <1>3, HandleSignEnds DEF SignCommand
  <2> QED BY <1>1, <2>1, <2>2, ToldByCommand
<1>4. CASE MessageCommand
  <2>1. ASSUME NEW account, NEW message, NEW length,
               MessagePresented(account, message, length)
        PROVE  Fits
    BY <1>1, <2>1 DEF MessagePresented
  <2>2. ASSUME MessageParameterRefused, Command("messageMore", 0, NoMessage)
        PROVE  Fits
    <3>1. asked'.ins = "messageMore" /\ staging = Status("6B00")
      BY <1>1, <1>2, <2>2 DEF MessageParameterRefused
    <3> QED BY <3>1, ToldByCommand
  <2>3. ASSUME NEW account, MessageLengthRefused(account),
               Command("messageShort", account, NoMessage)
        PROVE  Fits
    <3>1. asked'.ins = "messageShort" /\ staging = Status("6A80")
      BY <1>1, <1>2, <2>3 DEF MessageLengthRefused
    <3> QED BY <3>1, ToldByCommand
  <2> QED BY <1>4, <2>1, <2>2, <2>3, MessageWays
<1>5. CASE AddressCommand
  <2>1. ASSUME NEW account, GetAddressAtOnce(account),
               Command("address", account, NoMessage)
        PROVE  Fits
    <3>1. /\ asked'.ins = "address" /\ asked'.account = account
          /\ staging = Success(AddressReply(account))
      BY <1>1, <1>2, <2>1 DEF GetAddressAtOnce
    <3> QED BY <3>1, ToldByCommand
  <2>2. ASSUME NEW account, GetAddressConfirmed(account) PROVE Fits
    BY <1>1, <2>2 DEF GetAddressConfirmed
  <2> QED BY <1>5, <2>1, <2>2 DEF AddressCommand
<1>6. CASE ConfigurationCommand
  <2>1. /\ asked'.ins = "configuration" /\ chosen' = chosen
        /\ staging = Success(Configuration)
    BY <1>1, <1>2, <1>6 DEF ConfigurationCommand, GetAppConfiguration
  <2>2. Configuration = [dataAllowed |-> chosen'.dataAllowed]
    BY <2>1, AppInvParts DEF Configuration, SettingsInv, SettingsKept
  <2> QED BY <2>1, <2>2, ToldByCommand
<1>7. CASE UnknownCommand
  <2>1. asked'.ins = "unknown"
    BY <1>2, <1>7 DEF UnknownCommand
  <2> QED BY <1>1, <1>7, <2>1, ToldByCommand DEF UnknownCommand
<1> QED BY <1>3, <1>4, <1>5, <1>6, <1>7 DEF HandleApdu

(* What is staged is told; nothing else stages.                             *)
LEMMA Next_StagedTold ==
  ASSUME HostFollowsProtocol, ~Faults, DeviceInv, [AppNext]_appVars
  PROVE  StagedTold'
<1>1. AppInv /\ StagedTold
  BY DEF DeviceInv, QuietInv
<1>2. ASSUME pc' = "wait" \/ ~staged' PROVE StagedTold'
  BY <1>2 DEF StagedTold
<1>3. CASE Launch \/ Quit \/ PowerLoss \/ IoReset
  BY <1>2, <1>3 DEF Launch, Quit, PowerLoss, Stop, IoReset, StartUx
<1>4. CASE Exchange
  BY <1>2, <1>4 DEF Exchange
<1>5. CASE HandleApdu
  <2>1. staged' <=> (result' # "async")
    BY <1>1, <1>5, Commanded, CommandedLoop, AppInvParts
  <2> QED BY <1>1, <1>5, <2>1, HandleApdu_Told DEF StagedTold
<1>6. CASE ScreenAnswers
  BY <1>2, <1>6 DEF ScreenAnswers
<1>7. ~ScreenFails
  BY QuietScreens DEF DeviceInv
<1>8. CASE Look \/ UseMenu
  BY <1>2, <1>8 DEF Look, UseMenu, loopVars
<1>9. CASE UNCHANGED appVars
  BY <1>1, <1>9 DEF appVars, globals, loopVars, hostVars, StagedTold
<1> QED BY <1>3, <1>4, <1>5, <1>6, <1>7, <1>8, <1>9 DEF AppNext

(* The type and the texts of an accepted transaction last in the            *)
(* application as they do in the command.                                   *)
LEMMA App_OrderKept ==
  ASSUME HostFollowsProtocol, Streaming, OrderKept, [AppNext]_appVars
  PROVE  OrderKept'
<1>1. CASE HandleSign
  BY <1>1, HandleSign_OrderKept
<1>2. CASE Relaunch
  BY <1>2 DEF Relaunch, NoSession, OrderKept
<1>3. CASE CloseDigest \/ UNCHANGED signVars
  BY <1>3 DEF CloseDigest, signVars, OrderKept
<1> QED BY <1>1, <1>2, <1>3, SignVarsSteps

(* The invariant is one.                                                    *)
LEMMA Next_DeviceInv ==
  ASSUME HostFollowsProtocol, ~Faults, DeviceInv, [AppNext]_appVars
  PROVE  DeviceInv'
BY Next_QuietInv, Next_MatchInv, App_OrderKept, Next_StagedTold
   DEF DeviceInv, QuietInv

(* It holds from the start on.                                              *)
LEMMA Init_DeviceInv == AppInit => DeviceInv
<1> SUFFICES ASSUME AppInit PROVE DeviceInv
  OBVIOUS
<1>1. ~staged /\ ~session.accepted
  BY DEF AppInit, SignInit, NoSession
<1> QED BY <1>1, Init_QuietInv, Init_MatchInv
        DEF DeviceInv, OrderKept, StagedTold

(* A screen that is awaited has on show an offer for the command that the   *)
(* host waits for; without one nothing is on offer.                         *)
LEMMA OffersByScreen ==
  /\ ~pending => OnOffer = None
  /\ pending /\ ux.flow = "address" => OnOffer = AddressReply(address)
  /\ pending /\ ux.flow = "message" => OnOffer = [message |-> messageText]
  /\ pending /\ ux.flow = "tx" => OnOffer = Seen
BY DEF OnOffer

(* The deal that is on show.                                                *)
LEMMA DealOnShow ==
  ASSUME DeviceInv, pending
  PROVE  /\ asked # None
         /\ ux.flow = "address" =>
              /\ AddressDeal(address) \in DealsOn(asked)
              /\ AddressDeal(address).offer = OnOffer
         /\ ux.flow = "message" =>
              /\ MessageDeal(messageAccount, buffer) \in DealsOn(asked)
              /\ MessageDeal(messageAccount, buffer).offer = OnOffer
         /\ ux.flow = "tx" =>
              /\ Signable
              /\ SignDeal(session.tx, session.account, session.network)
                   \in DealsOn(asked)
              /\ SignDeal(session.tx, session.account, session.network).offer
                   = OnOffer
<1>1. asked # None /\ ConfirmMatches
  BY AppInvParts DEF DeviceInv, QuietInv, OwedReplyOnShow, MatchInv
<1>2. CASE ux.flow = "address"
  <2>1. asked.ins = "addressConfirmed" /\ address = asked.account
    BY <1>1, <1>2 DEF ConfirmMatches
  <2> QED BY <1>1, <1>2, <2>1, DealsByCommand, OffersByScreen DEF AddressDeal
<1>3. CASE ux.flow = "message"
  <2>1. /\ asked.ins = "message" /\ messageAccount = asked.account
        /\ asked.message \in Messages /\ messageText = asked.message
        /\ buffer = asked.message
    BY <1>1, <1>3 DEF ConfirmMatches
  <2> QED BY <1>1, <1>3, <2>1, DealsByCommand, OffersByScreen DEF MessageDeal
<1>4. CASE ux.flow = "tx"
  <2>1. /\ asked.ins = "sign" /\ hash.open /\ session.accepted
        /\ remainTransactionLength = 0
    BY <1>1, <1>4 DEF ConfirmMatches
  <2>2. Streaming /\ Promised /\ OrderKept
    BY DEF DeviceInv, QuietInv
  <2>3. Signable
    BY <2>1, <2>2, PromisedIsSignable
  <2>4. Seen = Order
    BY <2>1, <2>2, <2>3, SignableIsSeen
  <2>5. /\ session.tx \in Transactions /\ session.account \in Accounts
        /\ session.network \in NetworkIds
    BY <2>2, <2>3 DEF Signable, Streaming, StreamTypeOK, Session
  <2>6. SignDeal(session.tx, session.account, session.network) \in DealsOn(asked)
    BY <2>1, <2>5, DealsByCommand
  <2>7. SignDeal(session.tx, session.account, session.network).offer = Order
    BY DEF SignDeal, Order
  <2> QED BY <1>1, <1>4, <2>3, <2>4, <2>6, <2>7, OffersByScreen
<1> QED BY <1>1, <1>2, <1>3, <1>4

(* There is one.                                                            *)
LEMMA OfferIsOnDeal ==
  DeviceInv => /\ ~pending => OnOffer = None
               /\ pending => \E deal \in DealsOn(asked) : deal.offer = OnOffer
<1> SUFFICES ASSUME DeviceInv, pending
             PROVE  \E deal \in DealsOn(asked) : deal.offer = OnOffer
  BY OffersByScreen
<1>1. ux.flow \in {"address", "message", "tx"}
  BY AppInvParts DEF DeviceInv, QuietInv, OwedReplyOnShow, ConfirmFlows
<1> QED BY <1>1, DealOnShow

(* The same in the next state.                                              *)
LEMMA OfferIsOnDealNext ==
  (DeviceInv => /\ ~pending => OnOffer = None
                /\ pending => \E deal \in DealsOn(asked) : deal.offer = OnOffer)'
BY OfferIsOnDeal, PTL

(* The actions of the abstract device through the mapping.                  *)
LEMMA DeviceSteps ==
  /\ Promise!Init <=> /\ asked = None /\ OnOffer = None /\ inbox = None
                      /\ chosen \in UserSettings
  /\ /\ asked = None /\ OnOffer = None /\ asked' \in Request /\ inbox' = None
     /\ \/ OnOffer' = None
        \/ \E deal \in DealsOn(asked') : deal.offer = OnOffer'
     /\ chosen' = chosen
     => Promise!Next
  /\ /\ asked # None /\ OnOffer = None /\ inbox' \in ToldTo(asked, chosen)
     /\ asked' = None /\ OnOffer' = OnOffer /\ chosen' = chosen
     => Promise!Next
  /\ /\ asked # None /\ asked' = None /\ OnOffer' = None /\ chosen' = chosen
     /\ \E deal \in DealsOn(asked) :
          deal.offer = OnOffer /\ inbox' \in {deal.reply, Status("6985")}
     => Promise!Next
  /\ /\ asked' = None /\ OnOffer' = None /\ inbox' = None /\ chosen' = chosen
     => Promise!Next
  /\ /\ inbox' = None /\ asked' = asked /\ OnOffer' = OnOffer
     /\ chosen' = chosen \/ (OnOffer = None /\ chosen' \in UserSettings)
     => Promise!Next
BY DEF Promise!Init, Promise!Next, Promise!Ask, Promise!Tell, Promise!Approve,
       Promise!Reject, Promise!Disconnect, Promise!Collect, Promise!Choose

(* A fresh device is an abstract one that nobody has asked anything.        *)
LEMMA Init_IsDevice == AppInit => Promise!Init
<1> SUFFICES ASSUME AppInit PROVE Promise!Init
  OBVIOUS
<1>1. ~pending /\ asked = None /\ inbox = None
  BY DEF AppInit, GlobalsInit
<1>2. chosen \in UserSettings
  BY DEF AppInit, UserSettings
<1> QED BY <1>1, <1>2, OffersByScreen, DeviceSteps

(* A confirmation that answers approves or rejects the deal on show.        *)
LEMMA ScreenAnswers_IsDecision ==
  ASSUME DeviceInv, ScreenAnswers
  PROVE  /\ asked # None /\ asked' = None /\ chosen' = chosen
         /\ \E deal \in DealsOn(asked) :
              deal.offer = OnOffer /\ inbox' \in {deal.reply, Status("6985")}
<1>1. pending /\ chosen' = chosen
  BY ScreenAnswersEnds DEF DeviceInv, QuietInv, NoStrayScreen
<1>2. asked' = None /\ inbox' = [sw |-> result', data |-> answer']
  BY DEF ScreenAnswers, Delivered
<1>3. asked # None
  BY <1>1, DealOnShow
<1> DEFINE yes == TRUE
           no == FALSE
<1>4. ASSUME NEW data, SendResponse(yes, data) PROVE inbox' = Success(data)
  BY <1>2, <1>4 DEF SendResponse, Success
<1>5. ASSUME SendResponse(no, NoData) PROVE inbox' = Status("6985")
  BY <1>2, <1>5 DEF SendResponse, Status
<1>6. CASE RejectTransaction \/ RejectMessage \/ RejectAddress
  <2>1. inbox' = Status("6985")
    BY <1>5, <1>6 DEF RejectTransaction, RejectMessage, RejectAddress
  <2> QED BY <1>1, <1>2, <1>3, <2>1, OfferIsOnDeal
<1>7. CASE SingAndSend
  <2>1. SendResponse(yes, SignatureMade) /\ ux.flow = "tx"
    BY <1>7 DEF SingAndSend, Validates
  <2> DEFINE deal == SignDeal(session.tx, session.account, session.network)
  <2>2. Signable /\ deal \in DealsOn(asked) /\ deal.offer = OnOffer
    BY <1>1, <2>1, DealOnShow
  <2>3. deal.reply = Success(SignatureMade)
    BY <2>2, SignableIsWhole DEF Signable, SignDeal
  <2>4. inbox' = Success(SignatureMade)
    BY <1>4, <2>1
  <2> HIDE DEF deal
  <2> QED BY <1>1, <1>2, <1>3, <2>2, <2>3, <2>4
<1>8. CASE TouchSignMessageOk(buffer)
  <2> DEFINE data == [account |-> messageAccount, message |-> buffer,
                      bytes |-> (EnvelopeBytes + messageBytes) % Mod8]
             deal == MessageDeal(messageAccount, buffer)
  <2>1. SendResponse(yes, data) /\ ux.flow = "message"
    BY <1>8 DEF TouchSignMessageOk, Validates
  <2>2. deal \in DealsOn(asked) /\ deal.offer = OnOffer
    BY <1>1, <2>1, DealOnShow
  <2>3. messageBytes = BytesOf[buffer]
    BY <1>1, <2>1 DEF DeviceInv, MatchInv, ConfirmMatches
  <2>4. deal.reply = Success(data)
    BY <2>3 DEF MessageDeal
  <2>5. inbox' = Success(data)
    BY <1>4, <2>1
  <2> HIDE DEF deal, data
  <2> QED BY <1>1, <1>2, <1>3, <2>2, <2>4, <2>5
<1>9. CASE ApproveAddress
  <2>1. SendResponse(yes, AddressReply(address)) /\ ux.flow = "address"
    BY <1>9 DEF ApproveAddress, Validates
  <2>2. /\ AddressDeal(address) \in DealsOn(asked)
        /\ AddressDeal(address).offer = OnOffer
    BY <1>1, <2>1, DealOnShow
  <2>3. AddressDeal(address).reply = inbox'
    BY <1>4, <2>1 DEF AddressDeal
  <2> QED BY <1>1, <1>2, <1>3, <2>2, <2>3
<1> QED BY <1>6, <1>7, <1>8, <1>9 DEF ScreenAnswers

(* Every step is one of the abstract device or a stutter.                   *)
LEMMA Next_IsDevice ==
  ASSUME HostFollowsProtocol, ~Faults, DeviceInv, [AppNext]_appVars
  PROVE  Promise!Next \/ UNCHANGED <<asked, OnOffer, inbox, chosen>>
<1>1. DeviceInv' /\ AppInv /\ AppInv'
  BY Next_DeviceInv DEF DeviceInv, QuietInv
<1>2. /\ ~pending => OnOffer = None
      /\ ~pending' => OnOffer' = None
      /\ pending' => \E deal \in DealsOn(asked') : deal.offer = OnOffer'
  BY <1>1, OfferIsOnDeal, OfferIsOnDealNext
<1>3. CASE Launch
  <2>1. ~pending /\ ~pending' /\ inbox' = None /\ asked' = asked /\ chosen' = chosen
    BY <1>1, <1>3, ResetType, AppInvParts
       DEF Launch, StartUx, NothingArrives, DeviceInv, MatchInv, AnswerAhead,
           OwedReplyOnShow
  <2> QED BY <1>2, <2>1, DeviceSteps
<1>4. CASE Quit \/ PowerLoss \/ IoReset
  <2>1. ~pending' /\ inbox' = None /\ asked' = None /\ chosen' = chosen
    BY <1>4, ResetType
       DEF Quit, PowerLoss, Stop, Relaunch, IoReset, StartUx, Disconnected
  <2> QED BY <1>2, <2>1, DeviceSteps
<1>5. CASE Exchange
  <2>1. UNCHANGED <<pending, chosen>>
    BY <1>5 DEF Exchange, globals
  <2>2. CASE staged /\ ~flags
    <3>1. /\ ~pending /\ asked # None
          /\ [sw |-> result, data |-> answer] \in ToldTo(asked, chosen)
      BY <1>1, <1>5, <2>2, AppInvParts
         DEF OwedReplyOnShow, DeviceInv, QuietInv, StagedTold, Exchange
    <3>2. inbox' = [sw |-> result, data |-> answer] /\ asked' = None
      BY <1>5, <2>2 DEF Exchange, Delivered
    <3> QED BY <1>2, <2>1, <3>1, <3>2, DeviceSteps
  <2>3. CASE ~(staged /\ ~flags)
    <3>1. asked' = asked /\ inbox' = None
      BY <1>5, <2>3 DEF Exchange, NothingArrives
    <3>2. OnOffer' = OnOffer
      BY <1>5 DEF Exchange, globals, signVars, messageVars, OnOffer, Seen, Offered
    <3> QED BY <2>1, <3>1, <3>2, DeviceSteps
  <2> QED BY <2>2, <2>3
<1>6. CASE HandleApdu
  <2>1. /\ Receives /\ LoopTypeOK /\ ACommand
    BY <1>1, <1>6, Commanded, AppInvParts
  <2>2. asked = None /\ ~pending
    BY <1>1, <2>1, AppInvParts DEF Receives, OwedReplyOnShow
  <2>3. asked' \in Request /\ inbox' = None /\ chosen' = chosen
    BY <2>1, CommandedLoop
  <2>4. OnOffer' = None \/ \E deal \in DealsOn(asked') : deal.offer = OnOffer'
    BY <1>2
  <2> QED BY <1>2, <2>2, <2>3, <2>4, DeviceSteps
<1>7. CASE ScreenAnswers
  <2>1. OnOffer' = None
    BY <1>2, <1>7, ScreenAnswersEnds
  <2> QED BY <1>7, <2>1, ScreenAnswers_IsDecision, DeviceSteps
<1>8. ~ScreenFails
  BY QuietScreens DEF DeviceInv
<1>9. CASE Look
  <2>1. /\ ux'.flow = ux.flow /\ UNCHANGED pending
    BY <1>1, <1>9, MoveType, AppInvParts DEF Look
  <2>2. /\ UNCHANGED <<signVars, messageVars, address, chosen, asked>>
        /\ inbox' = None
    BY <1>9 DEF Look, NothingArrives
  <2>3. OnOffer' = OnOffer
    BY <2>1, <2>2 DEF signVars, messageVars, OnOffer, Seen, Offered
  <2> QED BY <2>2, <2>3, DeviceSteps
<1>10. CASE UseMenu
  <2>1. ~pending /\ ~pending'
    BY <1>1, <1>10, UseMenuScreens, AppInvParts DEF OwedReplyOnShow
  <2>2. asked' = asked /\ inbox' = None
    BY <1>10 DEF UseMenu, NothingArrives
  <2>3. chosen' \in UserSettings
    BY <1>1, AppInvParts DEF LoopTypeOK, UserSettings
  <2> QED BY <1>2, <2>1, <2>2, <2>3, DeviceSteps
<1>11. CASE UNCHANGED appVars
  BY <1>11 DEF appVars, globals, signVars, messageVars, hostVars, OnOffer, Seen,
               Offered
<1> QED BY <1>3, <1>4, <1>5, <1>6, <1>7, <1>8, <1>9, <1>10, <1>11 DEF AppNext

(* All commands, screens, menus, resets and restarts together keep what the *)
(* device promises: the user approves what the host asked for, the host     *)
(* gets what the user approved, and the settings are the user's.            *)
THEOREM ApplicationIsDevice ==
  ASSUME HostFollowsProtocol, ~Faults PROVE AppSpec => ActsAsDevice
<1>1. DeviceInv /\ [AppNext]_appVars => DeviceInv'
  BY Next_DeviceInv
<1>2. DeviceInv /\ [AppNext]_appVars
        => [Promise!Next]_<<asked, OnOffer, inbox, chosen>>
  BY Next_IsDevice
<1>3. AppSpec => Promise!Init /\ [][Promise!Next]_<<asked, OnOffer, inbox, chosen>>
  BY <1>1, <1>2, Init_DeviceInv, Init_IsDevice, PTL DEF AppSpec
<1> QED BY <1>3 DEF ActsAsDevice, Promise!Spec, Promise!device
=============================================================================
