---------------------------- MODULE AgentRuntimeMC ----------------------------
(***************************************************************************)
(* A small instance of AgentRuntime: one attempt under every kind of       *)
(* invocation, next to a Backend that may execute its calls late.  The     *)
(* engine keeps nothing between calls of run(), so attempts meet nowhere.  *)
(***************************************************************************)
EXTENDS AgentRuntime

CONSTANTS a1, unset, nobudget

\* Plans of at most this many tool calls: one more than MCBudget allows.
MaxPlan == 3

Sometimes(budget) == [f \in Limits |-> IF f \in DOMAIN budget THEN budget[f] ELSE unset]

MCBudget == Sometimes([max_tokens |-> 2, max_cost |-> 1, max_steps |-> 3,
                       max_tool_calls |-> 2, timeout_seconds |-> 1])

MCInvocation ==
  [definition |-> [agent |-> "agent", capability_ids |-> {"capability"},
                   allowed_tool_ids |-> {"read", "write", "undelegated"},
                   model_policy_ref |-> "policy", input_schema |-> {"input"},
                   output_schema |-> {"output"}],
   request |-> [run_id |-> "run", agent |-> "agent", capability_id |-> "capability",
                requested_tool_ids |-> {"read", "write", "undefined", "undelegated"},
                input |-> "input", correlation_id |-> "corr", data_classification |-> "INTERNAL",
                execution_budget |-> MCBudget, canonical |-> TRUE],
   authorization |-> [run_id |-> "run", lifecycle_state |-> "TEST_AUTHORIZED",
                      allowed_tool_ids |-> {"read", "write"}]]

MCTools == {"read", "write", "undefined", "undelegated", "unrequested"}

With(budget) == [MCInvocation EXCEPT !.request.execution_budget = budget]

\* MCInvocation, and one departure from it for each check of the engine and the gateway.
MCInvocations ==
  {MCInvocation,
   [MCInvocation EXCEPT !.request.canonical = FALSE],
   [MCInvocation EXCEPT !.authorization.run_id = "other run"],
   [MCInvocation EXCEPT !.definition.agent = "other agent"],
   [MCInvocation EXCEPT !.request.capability_id = "other capability"],
   [MCInvocation EXCEPT !.request.input = "other input"],
   [MCInvocation EXCEPT !.definition.model_policy_ref = "other policy"],
   [MCInvocation EXCEPT !.definition.model_policy_ref = "unrouted policy"],
   [MCInvocation EXCEPT !.request.data_classification = "RESTRICTED"],
   With(nobudget),
   With(Sometimes([max_steps |-> 0])),
   With([MCBudget EXCEPT !["max_steps"] = 2]),
   With([MCBudget EXCEPT !["max_tool_calls"] = 0]),
   With([MCBudget EXCEPT !["max_tokens"] = unset]),
   With([MCBudget EXCEPT !["timeout_seconds"] = unset]),
   With(Sometimes([max_tokens |-> 1]))}

MCPlans == UNION {[1..n -> MCTools] : n \in 0..MaxPlan}

MCModelResponses ==
  [is_json : {TRUE}, output : {"output", "other output"}, cost : {unset, 1, 2},
   output_tokens : {2, 3}]
    \cup [is_json : {FALSE}, output : {""}, cost : {unset}, output_tokens : {2}]

MCCorrelationIds == {"corr", "other corr"}
MCPolicyRoutes == [policy |-> "route"]
=============================================================================
