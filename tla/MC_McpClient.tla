---------------------------- MODULE MC_McpClient ----------------------------
(***************************************************************************)
(* The symmetry TLC may use for McpClient.                                 *)
(***************************************************************************)
EXTENDS McpClient, TLC

\* Calls are interchangeable; not used where liveness is checked.
Symmetry == Permutations(Callers)
=============================================================================
