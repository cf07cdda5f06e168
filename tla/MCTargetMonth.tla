--------------------------- MODULE MCTargetMonth ---------------------------
(***************************************************************************)
(* TargetMonth from a December to the end of the year after it.            *)
(***************************************************************************)
EXTENDS TargetMonth

December == [year |-> 1, month |-> 12]
=============================================================================
