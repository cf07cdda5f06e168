---------------------------- MODULE MCMonthlyJob ----------------------------
(***************************************************************************)
(* MonthlyJob for TLC.  Runs and users are interchangeable: the            *)
(* specification compares them for equality only.                          *)
(***************************************************************************)
EXTENDS MonthlyJobInvariant, TLC

Symmetry == Permutations(Users) \cup Permutations(Jobs)
=============================================================================
