------------------------------- MODULE MCFleet -------------------------------
(***************************************************************************)
(* Two buses of which one exists, with a trip; two requests at a time.     *)
(***************************************************************************)
EXTENDS Fleet, TLC

WorkersAlike == Permutations(Workers)
=============================================================================
