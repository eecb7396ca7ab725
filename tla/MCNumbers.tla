------------------------------ MODULE MCNumbers ------------------------------
(***************************************************************************)
(* Numbers to print: all that are made of a few words.                      *)
(***************************************************************************)
EXTENDS ToString

CONSTANTS
  Words,     \* bound: the words that 128-bit numbers are made of
  LongWords  \* bound: the words that 256-bit numbers are made of

Pairs(words) == words \X words
PrintedOfWords ==
  [width : {128}, n : Pairs(Words)]
    \cup [width : {256}, n : Pairs(LongWords) \X Pairs(LongWords)]
=============================================================================
