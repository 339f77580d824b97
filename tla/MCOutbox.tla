------------------------------ MODULE MCOutbox ------------------------------
(* Small instances of Outbox for TLC. *)
EXTENDS Outbox, TLC

\* Relays are interchangeable, and so are rows of the same kind.
RelaySymmetry == Permutations(Relays)
Symmetry == Permutations(Relays) \cup Permutations(Msgs)
=============================================================================
