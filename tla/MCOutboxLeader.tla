--------------------------- MODULE MCOutboxLeader ---------------------------
(* Small instances of OutboxLeader for TLC. *)
EXTENDS OutboxLeader, TLC

Symmetry == Permutations(Relays) \cup Permutations(Msgs)
=============================================================================
