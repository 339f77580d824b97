------------------------------ MODULE MCOrgCache ------------------------------
(* Instances of OrgCache for TLC. *)
EXTENDS OrgCache, TLC

Symmetry ==
    Permutations(Procs) \cup Permutations(Keys) \cup Permutations(Readers) \cup Permutations(Writers)
==============================================================================
