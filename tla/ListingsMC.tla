---------------------------- MODULE ListingsMC ----------------------------
(* Instances of Listings.tla for TLC. *)
EXTENDS Listings, TLC

Alike == Permutations(Items)

=============================================================================
