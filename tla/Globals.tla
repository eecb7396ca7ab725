------------------------------- MODULE Globals -------------------------------
(***************************************************************************)
(* What the command handlers of the application share: the screen (the UX   *)
(* flow on show), the outcome of the handler that ran last, and the reply   *)
(* that a confirmation screen still owes to the host.                       *)
(***************************************************************************)
EXTENDS Integers

CONSTANTS
  Accounts,  \* account numbers a host may ask for
  NoData     \* a reply that is a status word only

ASSUME AccountsAssumption == Accounts \subseteq Nat /\ 0 \in Accounts

VARIABLES
  ux,      \* the flow on show, the step it stands at, the furthest step seen
  result,  \* what the last handler or screen callback answered
  answer,  \* the data of that answer, if it has any
  pending  \* a confirmation screen was opened and has not answered yet

globals == <<ux, result, answer, pending>>

(* Steps of each UX flow and entries of each menu list, in display order.   *)
FlowLength ==
  [idle |-> 4, address |-> 3, tx |-> 7, message |-> 4,
   settings |-> 3, contractData |-> 3, displayData |-> 3]

Flows == DOMAIN FlowLength
ConfirmFlows == {"address", "tx", "message"}

(* The step that approves is the last but one of a confirmation flow, the   *)
(* step that rejects the last.                                              *)
ApproveStep(flow) == FlowLength[flow] - 1
RejectStep(flow) == FlowLength[flow]

Screen == [flow : Flows, at : 1..7, far : 1..7]

Show(flow, step) == [flow |-> flow, at |-> step, far |-> step]
UiIdle == Show("idle", 1)

(* The status words of the application; "async" is a command that is left   *)
(* to a confirmation screen, "none" the outcome before any command.         *)
StatusWords ==
  {"9000", "6985", "6A80", "6B00", "6D00", "6E00", "6982", "68xx"}
Outcomes == StatusWords \cup {"async", "none"}

GlobalsTypeOK ==
  /\ ux \in Screen
  /\ ux.at <= ux.far /\ ux.far <= FlowLength[ux.flow]
  /\ result \in Outcomes
  /\ pending \in BOOLEAN

GlobalsInit ==
  /\ ux = UiIdle
  /\ result = "none" /\ answer = NoData
  /\ pending = FALSE

(* A handler that throws: handleApdu turns the exception into the answer.   *)
Throw(sw) ==
  /\ result' = sw /\ answer' = NoData
  /\ UNCHANGED <<ux, pending>>

(* A handler that leaves its reply in the buffer and throws 0x9000.         *)
Reply(data) ==
  /\ result' = "9000" /\ answer' = data
  /\ UNCHANGED <<ux, pending>>

(* A handler that opens a confirmation screen and answers later.            *)
Confirm(flow) ==
  /\ ux' = Show(flow, 1)
  /\ result' = "async" /\ answer' = NoData
  /\ pending' = TRUE

(* Slip: a reply that leaves its confirmation on the screen.                *)
SendResponseOnly(approve, data) ==
  /\ result' = IF approve THEN "9000" ELSE "6985"
  /\ answer' = data
  /\ pending' = FALSE
  /\ UNCHANGED ux

(* Slip: a rejection is reported as success.                                *)
SendResponseAlike(approve, data) ==
  /\ result' = "9000"
  /\ answer' = data
  /\ pending' = FALSE
  /\ ux' = UiIdle

(* sendResponse: the answer of a confirmation screen, then the idle screen. *)
SendResponse(approve, data) ==
  /\ result' = IF approve THEN "9000" ELSE "6985"
  /\ answer' = data
  /\ pending' = FALSE
  /\ ux' = UiIdle

(* A screen callback that throws inside io_exchange: sample_main answers    *)
(* with the error and gives up the pending reply; the screen stays.         *)
CallbackThrows(sw) ==
  /\ result' = sw /\ answer' = NoData
  /\ pending' = FALSE
  /\ UNCHANGED ux

(* Left and right buttons: flows and menu lists do not wrap around.  How    *)
(* far the user came matters in confirmation flows only.                    *)
ShowStep(step) ==
  /\ step \in 1..FlowLength[ux.flow]
  /\ ux' = [ux EXCEPT !.at = step,
                      !.far = IF ux.flow \in ConfirmFlows /\ step < ux.far
                                THEN ux.far ELSE step]
  /\ UNCHANGED <<result, answer, pending>>

MoveLeft == ShowStep(ux.at - 1)
MoveRight == ShowStep(ux.at + 1)

(* A menu entry that leads to another flow or list.                         *)
GoTo(screen) ==
  /\ ux' = screen
  /\ UNCHANGED <<result, answer, pending>>

(* Both buttons on a step with a callback.                                  *)
Validates(flow, step) == ux.flow = flow /\ ux.at = step

(* The transport was reset: main() starts the UX and the idle screen again, *)
(* and whatever was owed to the host is forgotten.                          *)
ResetScreen ==
  /\ ux' = UiIdle
  /\ pending' = FALSE
  /\ result' = "none" /\ answer' = NoData
=============================================================================
