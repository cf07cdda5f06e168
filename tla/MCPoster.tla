------------------------------ MODULE MCPoster ------------------------------
(***************************************************************************)
(* Poster for TLC: canvases are followed up to a number of texts.          *)
(***************************************************************************)
EXTENDS Poster

CONSTANT LastText    \* a bound: a goroutine is followed up to this text

FirstTexts == \A u \in Users : pos[u] <= LastText
=============================================================================
