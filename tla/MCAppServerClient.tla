------------------------- MODULE MCAppServerClient -------------------------
(***************************************************************************)
(* Two goroutines and two working directories for TLC.                     *)
(***************************************************************************)
EXTENDS AppServerClient, TLC

CONSTANTS a, b, x, y
MCCallers == {a, b}
MCCwds == {x, y}
Symmetric == Permutations(MCCallers) \union Permutations(MCCwds)
=============================================================================
