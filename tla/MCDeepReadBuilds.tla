-------------------------- MODULE MCDeepReadBuilds --------------------------
(* Instances of DeepReadBuilds for TLC. *)
EXTENDS DeepReadBuilds, TLC

Symmetry == Permutations(Commands)
=============================================================================
