----------------------------- MODULE BookingMC -----------------------------
(* Instances of Booking.tla for TLC. *)
EXTENDS Booking, TLC

(* One ticket more than the largest order. *)
TightStock == [e \in Events |-> 3]

Buyers == Permutations(Requests)

=============================================================================
