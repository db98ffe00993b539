----------------------------- MODULE RedLockMC -----------------------------
(* Instances of RedLock.tla for TLC. *)
EXTENDS RedLock, TLC

CONSTANT p1

(* All requests are served by one replica. *)
SharedReplica == [r \in Requests |-> p1]

(* The requests of one replica, and the reliable masters, are alike. *)
Alike ==
  {f @@ g : f \in Permutations(Requests), g \in Permutations(Masters \ Faulty)}

=============================================================================
