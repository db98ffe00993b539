------------------------------ MODULE OutboxMC ------------------------------
(* An instance of Outbox.tla for TLC.  No symmetry: liveness is checked. *)
EXTENDS Outbox

=============================================================================
