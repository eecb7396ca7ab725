------------------------------ MODULE GetAddress ------------------------------
(***************************************************************************)
(* The GET ADDRESS command: the address of an account, answered at once or  *)
(* after the user has compared it with the screen.  An address is           *)
(* represented by the account it is derived from.                           *)
(***************************************************************************)
EXTENDS Globals

CONSTANT NoAddress  \* an empty address buffer

ASSUME AddressAssumption == NoAddress \notin Accounts

VARIABLE address  \* the buffer that is displayed and answered

AddressInit == address = NoAddress
AddressZeroed == address' = NoAddress
AddressTypeOK == address \in Accounts \cup {NoAddress}

AddressReply(account) == [address |-> account]

GetAddressAtOnce(account) ==
  /\ address' = account
  /\ Reply(AddressReply(account))

GetAddressConfirmed(account) ==
  /\ address' = account
  /\ Confirm("address")

(* The key cannot be derived: nothing is written, nothing displayed.        *)
GetAddressThrows ==
  /\ Throw("68xx")
  /\ UNCHANGED address

ApproveAddress ==
  /\ Validates("address", ApproveStep("address"))
  /\ SendResponse(TRUE, AddressReply(address))
  /\ UNCHANGED address

RejectAddress ==
  /\ Validates("address", RejectStep("address"))
  /\ SendResponse(FALSE, NoData)
  /\ UNCHANGED address
=============================================================================
