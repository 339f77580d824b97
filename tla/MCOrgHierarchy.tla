--------------------------- MODULE MCOrgHierarchy ---------------------------
(* Instances of OrgHierarchy for TLC. *)
EXTENDS OrgHierarchy, TLC

Symmetry == Permutations(Nodes \ {Root})
=============================================================================
