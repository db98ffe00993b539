----------------------------- MODULE AccountsMC -----------------------------
(* Instances of Accounts.tla for TLC. *)
EXTENDS Accounts, TLC

Alike ==
  {f @@ g @@ h : f \in Permutations(Registrations),
                 g \in Permutations(Logins), h \in Permutations(Calls)}

=============================================================================
