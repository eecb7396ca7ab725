-------------------------------- MODULE Device --------------------------------
(***************************************************************************)
(* What the application promises to its host and its user: a command is     *)
(* answered once, either told something at once or with what the user had   *)
(* on show and approved; and the settings are the user's.                   *)
(***************************************************************************)
CONSTANTS
  Requests,   \* what a host may ask
  Settings,   \* what a user may choose
  Told(_, _), \* the replies to a request under a choice, if not left to the user
  Deals(_),   \* what a request may put on offer, and the reply if approved
  Rejection,  \* the reply if the user rejects
  Nothing     \* no request, no offer, no reply

VARIABLES
  request,    \* what the host waits for
  offer,      \* what the user is asked to approve
  reply,      \* what just reached the host
  settings

device == <<request, offer, reply, settings>>

Init ==
  /\ request = Nothing /\ offer = Nothing /\ reply = Nothing
  /\ settings \in Settings

Ask ==
  /\ request = Nothing /\ offer = Nothing
  /\ request' \in Requests
  /\ offer' \in {Nothing} \cup {deal.offer : deal \in Deals(request')}
  /\ reply' = Nothing
  /\ UNCHANGED settings

Tell ==
  /\ request # Nothing /\ offer = Nothing
  /\ reply' \in Told(request, settings)
  /\ request' = Nothing
  /\ UNCHANGED <<offer, settings>>

(* The user decides on what is on offer.                                    *)
Approve ==
  /\ request # Nothing
  /\ \E deal \in Deals(request) : deal.offer = offer /\ reply' = deal.reply
  /\ request' = Nothing /\ offer' = Nothing
  /\ UNCHANGED settings

Reject ==
  /\ request # Nothing
  /\ \E deal \in Deals(request) : deal.offer = offer
  /\ reply' = Rejection
  /\ request' = Nothing /\ offer' = Nothing
  /\ UNCHANGED settings

(* The connection is lost, and all that depends on it.                      *)
Disconnect ==
  /\ request' = Nothing /\ offer' = Nothing /\ reply' = Nothing
  /\ UNCHANGED settings

(* The host has had its reply; the user may choose settings meanwhile, but  *)
(* not while there is an offer.                                             *)
Collect == reply' = Nothing /\ UNCHANGED <<request, offer, settings>>

Choose ==
  /\ offer = Nothing
  /\ settings' \in Settings
  /\ reply' = Nothing
  /\ UNCHANGED <<request, offer>>

Next ==
  \/ Ask \/ Tell \/ Approve \/ Reject
  \/ Disconnect \/ Collect \/ Choose

Spec == Init /\ [][Next]_device
=============================================================================
