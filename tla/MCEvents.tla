------------------------------ MODULE MCEvents ------------------------------
(* Instances of Events for TLC. *)
EXTENDS Events, TLC

Interchangeable == Permutations(Users) \cup Permutations(Slots)

One == {1}
Two == {2}
OneOrTwo == {1, 2}
=============================================================================
