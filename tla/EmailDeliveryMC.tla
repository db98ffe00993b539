-------------------------- MODULE EmailDeliveryMC --------------------------
(* Instances of EmailDelivery.tla for TLC. *)
EXTENDS EmailDelivery, TLC

Alike == Permutations(Replicas) \cup Permutations(Bookings)

=============================================================================
