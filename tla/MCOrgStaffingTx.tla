--------------------------- MODULE MCOrgStaffingTx ---------------------------
(* Instances of OrgStaffingTx for TLC. *)
EXTENDS OrgStaffingTx, TLC

Symmetry == Permutations(Txs) \cup Permutations(People)
=============================================================================
