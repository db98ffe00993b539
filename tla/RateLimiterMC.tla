--------------------------- MODULE RateLimiterMC ---------------------------
(* Instances of RateLimiter.tla for TLC. *)
EXTENDS RateLimiter, TLC

CONSTANTS login, register

Limits == (login :> 2) @@ (register :> 1)

Alike == Permutations(Requests)

=============================================================================
