----------------------------- MODULE ModelGateway -----------------------------
(***************************************************************************)
(* GovernedModelGateway.complete with the static policy, budget guard and  *)
(* router.  The three checks run in order and in one synchronous stretch   *)
(* before the provider is awaited, so together they are one predicate of   *)
(* the request: AdmitsModelRequest.  Each refusal is an exception of its   *)
(* own type; every caller in this repository handles them alike.           *)
(*                                                                         *)
(* A model request is a record [policy_ref, data_classification,           *)
(* requested_max_tokens, budget].                                          *)
(***************************************************************************)
EXTENDS ExecutionBudget

CONSTANTS
  AllowedPolicyRefs,          \* StaticModelPolicy's allowed_policy_refs
  MaximumDataClassification,  \* and its maximum_data_classification
  Routes,                     \* the route ids that have a provider adapter
  PolicyRoutes                \* StaticModelRouter's policy_ref -> route_id

Rank == [PUBLIC |-> 0, INTERNAL |-> 1, CONFIDENTIAL |-> 2, RESTRICTED |-> 3]

ASSUME MaximumAssumption == MaximumDataClassification \in DOMAIN Rank

\* StaticModelPolicy.authorize
Authorizes(r) ==
  /\ r.policy_ref \in AllowedPolicyRefs
  /\ Rank[r.data_classification] <= Rank[MaximumDataClassification]

\* ExecutionBudgetGuard.validate
WithinBudget(r) == Within(r.requested_max_tokens, r.budget["max_tokens"])

\* StaticModelRouter.route finds an adapter
Routable(r) ==
  /\ r.policy_ref \in DOMAIN PolicyRoutes
  /\ PolicyRoutes[r.policy_ref] \in Routes

AdmitsModelRequest(r) == Authorizes(r) /\ WithinBudget(r) /\ Routable(r)
=============================================================================
