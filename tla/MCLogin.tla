------------------------------ MODULE MCLogin ------------------------------
(***************************************************************************)
(* Login for TLC.  Browsers, accounts and logins are interchangeable: they *)
(* are compared for equality only.                                         *)
(***************************************************************************)
EXTENDS LoginConsent, TLC

Symmetry == Permutations(Browsers) \cup Permutations(Accounts) \cup Permutations(Flows)
=============================================================================
