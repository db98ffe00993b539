--------------------------- MODULE ConfirmationMC ---------------------------
(* Instances of Confirmation.tla for TLC. *)
EXTENDS Confirmation

=============================================================================
