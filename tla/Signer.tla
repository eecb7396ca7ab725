------------------------------- MODULE Signer -------------------------------
(***************************************************************************)
(* What a signing device promises: an order is offered to the user, who     *)
(* approves it or not, and only an order on offer is ever signed.           *)
(***************************************************************************)
CONSTANTS
  Orders,   \* what a user can be asked to approve
  Nothing   \* no order: none of them

VARIABLES
  offer,    \* the order the user is looking at
  signed    \* the order signed in the last answer, if it has a signature

Init == offer = Nothing /\ signed = Nothing

Present(order) ==
  /\ offer = Nothing
  /\ offer' = order
  /\ signed' = Nothing

Approve ==
  /\ offer # Nothing
  /\ signed' = offer
  /\ offer' = Nothing

(* The user rejects, or the offer is lost before its signature is out.      *)
Withdraw ==
  /\ offer # Nothing
  /\ offer' = Nothing
  /\ UNCHANGED signed

(* The host has had the signature.                                          *)
Collect ==
  /\ signed # Nothing
  /\ signed' = Nothing
  /\ UNCHANGED offer

Next ==
  \/ \E order \in Orders : Present(order)
  \/ Approve
  \/ Withdraw
  \/ Collect

Spec == Init /\ [][Next]_<<offer, signed>>
=============================================================================
