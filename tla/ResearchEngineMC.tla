---------------------------- MODULE ResearchEngineMC ----------------------------
(***************************************************************************)
(* Requests with a bundle and without, for each classification and for     *)
(* each kind of budget; bundles of the right and of the wrong identity and *)
(* correlation, with no evidence, with two references and with two         *)
(* references of one id; drafts that cite known and unknown evidence.      *)
(***************************************************************************)
EXTENDS ResearchEngine

CONSTANTS unset, nobudget

Reference(id, content) == [evidence_id |-> id, content |-> content]

MCEvidence ==
  {<<>>, <<Reference("e1", "old")>>, <<Reference("e1", "old"), Reference("e2", "old")>>,
   <<Reference("e1", "old"), Reference("e1", "new")>>}

MCBundles ==
  [identity : {"ours", "theirs"}, correlation_id : {"corr", "other corr"},
   evidence_refs : MCEvidence]

MCOutputs == MCBundles \cup {NoBundle}

Budget(tokens) ==
  [f \in Limits |-> IF f = "max_tokens" THEN tokens ELSE IF f = "max_steps" THEN 2 ELSE unset]

MCExecutionContexts ==
  [identity : {"ours"}, correlation_id : {"corr"}, data_classification : {"INTERNAL", "RESTRICTED"},
   execution_budget : {nobudget} \cup {Budget(n) : n \in {unset, 0, 1000, 3000}}]

\* Nothing compares a request's own correlation id with that of its execution context.
MCRequests ==
  [correlation_id : {"corr", "other corr"}, execution_context : MCExecutionContexts,
   context_bundle : MCOutputs]

MCDrafts ==
  [readable : {TRUE}, findings : {{}, {{"e1"}}, {{"e1"}, {"e1", "e2"}}, {{"e1"}, {"e3"}}},
   recommendations : {{{}}, {{"e2"}}}]
  \cup [readable : {FALSE}, findings : {{}}, recommendations : {{}}]

MCPolicyRoutes == [p \in {PolicyRef} |-> "route"]
=============================================================================
