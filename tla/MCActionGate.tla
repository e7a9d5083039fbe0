------------------------------ MODULE MCActionGate ------------------------------
(* Instances of ActionGate for TLC. *)
EXTENDS ActionGate, TLC

CONSTANT i1  \* the item on the menu

PlanOf(tool, service) ==
  [tool |-> tool, product |-> i1, service |-> service, wellformed |-> TRUE]

(* The brain of this release orders for pickup or delivery and does nothing else. *)
RuleBasedBrain == {PlanOf("create_order", service) : service \in {"pickup", "delivery"}}

(* One plan for each tool that writes. *)
WriteBrain == {PlanOf(tool, "pickup") : tool \in WriteTool}

(* Any brain on the AgentBrain port may plan any tool, also one nobody knows. *)
AnyBrain ==
  {PlanOf(tool, "pickup") :
     tool \in {"create_order", "make_reservation", "cancel_order", "check_availability", "unlisted"}}

Symmetry == Permutations(Turn)
================================================================================
