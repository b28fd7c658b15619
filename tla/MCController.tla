---------------------------- MODULE MCController ----------------------------
(* Small instances of Controller for TLC. *)
EXTENDS Controller, TLC

\* Experiments, workers and retriers are interchangeable. Used by the runs that
\* check safety only.
Symmetry ==
    Permutations(Experiments) \cup Permutations(Workers) \cup Permutations(Retriers)
=============================================================================
