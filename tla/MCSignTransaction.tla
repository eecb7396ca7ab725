-------------------------- MODULE MCSignTransaction --------------------------
(***************************************************************************)
(* Small instances of SignTransaction.  Only 2^32 is scaled down to what    *)
(* TLC can count.                                                           *)
(***************************************************************************)
EXTENDS SignTransaction, MCLayouts
=============================================================================
