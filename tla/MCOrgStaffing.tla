---------------------------- MODULE MCOrgStaffing ----------------------------
(* Instances of OrgStaffing for TLC. *)
EXTENDS OrgStaffing, TLC

Symmetry == Permutations(People) \cup Permutations(Positions)
=============================================================================
