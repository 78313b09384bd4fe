------------------------------ MODULE MCOutbox ------------------------------
(* Instances of Outbox for TLC. *)
EXTENDS Outbox, TLC

Interchangeable == Permutations(Rows) \cup Permutations(Workers)
=============================================================================
