----------------------------- MODULE MCAccounts -----------------------------
(***************************************************************************)
(* Four accounts, two companies of which one exists, two requests at a     *)
(* time.                                                                   *)
(***************************************************************************)
EXTENDS Accounts
=============================================================================
