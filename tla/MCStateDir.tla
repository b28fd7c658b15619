----------------------------- MODULE MCStateDir -----------------------------
(* Instance of StateDir: installations and policies are interchangeable.     *)
EXTENDS StateDir, TLC

Symmetry == Permutations(Installers) \cup Permutations(Policies)
=============================================================================
