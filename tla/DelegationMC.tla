----------------------------- MODULE DelegationMC -----------------------------
(***************************************************************************)
(* Two roots of different tenants and up to three delegated runs: enough   *)
(* for a chain of two delegations with a sibling, and for a request that   *)
(* names the other tenant's run as its parent.                             *)
(***************************************************************************)
EXTENDS Delegation, TLC

CONSTANTS root1, root2, run1, run2, run3, unset

MCRoots == {root1, root2}
MCRunIds == {root1, root2, run1, run2, run3}
MCAgents == {"planner", "analyst", "writer"}

Envelope(tenant, permissions) ==
  [tenant_id |-> tenant, workspace_id |-> "workspace", permission_refs |-> permissions,
   scope_refs |-> {"scope"}, allowed_tool_ids |-> {"tool"}]

MCAuthorities ==
  {Envelope("tenant1", {"read", "write"}), Envelope("tenant1", {"read"}),
   Envelope("tenant2", {"read"})}

Tokens(n, steps) ==
  [f \in Limits |-> IF f = "max_tokens" THEN n ELSE IF f = "max_steps" THEN steps ELSE unset]

MCChildBudgets == {Tokens(1, 2), Tokens(2, unset), Tokens(unset, 1)}

MCRootRuns ==
  (root1 :> [agent_id |-> "planner", authority |-> Envelope("tenant1", {"read", "write"}),
             budget |-> Tokens(2, unset)])
  @@ (root2 :> [agent_id |-> "writer", authority |-> Envelope("tenant2", {"read"}),
                budget |-> Tokens(1, 2)])

MCPolicy == [max_depth |-> 2, max_children |-> 2, timeout_seconds |-> 1]

Symmetry == Permutations({run1, run2, run3})
=============================================================================
