-------------------------------- MODULE MCApp --------------------------------
(***************************************************************************)
(* Small instances of the application.                                      *)
(***************************************************************************)
EXTENDS App, MCLayouts

(* Lengths of messages that fit the uint8_t and that do not.                *)
AllLengths == [hello |-> 5, essay |-> 240]
Lengths == [m \in Messages |-> AllLengths[m]]
=============================================================================
