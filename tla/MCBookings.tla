----------------------------- MODULE MCBookings -----------------------------
(* Instances of Bookings for TLC. *)
EXTENDS Bookings, TLC

Interchangeable == Permutations(Users) \cup Permutations(Slots)

One == {1}
OneOrTwo == {1, 2}
=============================================================================
