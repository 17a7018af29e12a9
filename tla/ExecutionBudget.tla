--------------------------- MODULE ExecutionBudget ---------------------------
(***************************************************************************)
(* The eight nullable limits of genesis.runtime.limits.ExecutionBudget, as *)
(* a function from the name of a limit to its value.  NoLimit is Python's  *)
(* None: the budget says nothing about that quantity.  Amounts are         *)
(* naturals; max_cost, a float in the code, is only ever compared.         *)
(***************************************************************************)
EXTENDS Naturals

CONSTANT NoLimit

ASSUME NoLimitAssumption == NoLimit \notin Nat

Limits == {"max_tokens", "max_cost", "max_steps", "max_tool_calls",
           "max_children", "max_depth", "timeout_seconds", "concurrency_limit"}

Budgets == [Limits -> Nat \cup {NoLimit}]

\* The limits a Field(ge=1) keeps from being zero.
AtLeastOne == {"max_tokens", "max_steps", "timeout_seconds", "concurrency_limit"}

\* What model_validate accepts: every bound of a field, and at least one limit.
ValidBudget(b) ==
  /\ \A f \in AtLeastOne : b[f] # 0
  /\ \E f \in Limits : b[f] # NoLimit

\* n respects a limit that may be absent.
Within(n, limit) == limit # NoLimit => n <= limit

\* parent.contains(child): a child may leave open only what its parent does.
Contains(parent, child) ==
  \A f \in Limits :
    parent[f] # NoLimit => child[f] # NoLimit /\ child[f] <= parent[f]
=============================================================================
