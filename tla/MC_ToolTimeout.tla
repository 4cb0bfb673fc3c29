--------------------------- MODULE MC_ToolTimeout ---------------------------
(***************************************************************************)
(* Values for the constants of ToolTimeout and the symmetry TLC may use.   *)
(***************************************************************************)
EXTENDS ToolTimeout, TLC

\* Slow tools have an entry in cfg.ToolTimeouts, twice the default.
CONSTANT Slow
MCToolTimeouts == [t \in Tools |-> IF t \in Slow THEN 2 * DefaultTimeout ELSE 0]

\* Calls are interchangeable; not used where liveness is checked.
Symmetry == Permutations(Calls)
=============================================================================
