--------------------------- MODULE PurchaseFlowMC ---------------------------
(* Instances of PurchaseFlow.tla for TLC. *)
EXTENDS PurchaseFlow

CONSTANTS e1, p1

ASSUME FlowInstance == FlowAssumption

TightStock == [e \in Events |-> 3]

SharedReplica == [r \in Requests |-> p1]

=============================================================================
