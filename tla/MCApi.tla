------------------------------- MODULE MCApi -------------------------------
(***************************************************************************)
(* Api for TLC.  Requests are interchangeable.                             *)
(***************************************************************************)
EXTENDS ApiExchange, TLC

Symmetry == Permutations(Requests)
=============================================================================
