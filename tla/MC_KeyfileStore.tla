-------------------------- MODULE MC_KeyfileStore ---------------------------
(***************************************************************************)
(* Values for the constants of KeyfileStore and the symmetry TLC may use.  *)
(***************************************************************************)
EXTENDS KeyfileStore, TLC

\* k expires during the run, every other key after it.
CONSTANT ShortLived
MCExpires == [k \in Keys |-> IF k \in ShortLived THEN MaxClock ELSE MaxClock + 1]

\* Requests are interchangeable, and so are the background goroutines; not
\* used where liveness is checked.
Symmetry == Permutations(Requests) \cup Permutations(Retriers)
=============================================================================
