--------------------------- MODULE CapabilityFactory ---------------------------
(***************************************************************************)
(* CapabilityFactory.analyze: what GENESIS proposes for a requirement,     *)
(* given the catalog snapshot that the Backend sent along.                 *)
(***************************************************************************)
EXTENDS CapabilityResolver

\* The capability draft; the agent draft proposes the same scopes, tools and permissions.
Draft(requirement, catalog) ==
  LET risk == Risk(requirement.statement) tools == RequiredTools(requirement, catalog) IN
  [capability_type |-> RecommendedType(requirement), risk_level |-> risk,
   scope_refs |-> requirement.scope_refs, tool_ids |-> tools,
   permission_refs |-> RequiredPermissions(requirement, catalog),
   evidence_requirements |-> EvidenceRequirements(requirement.statement),
   test_requirements |-> TestRequirements(risk, tools # {})]

AgentDraft(requirement, catalog) ==
  [draft |-> [Draft(requirement, catalog) EXCEPT !.capability_type = "AGENT"],
   model_policy_ref |-> IF Risk(requirement.statement) = "HIGH" THEN "model-policy.critical-v1"
                        ELSE "model-policy.standard-v1"]

\* analyze(); a part of the result that is None is an empty set.
Analysis(requirement, catalog) ==
  IF Decision(requirement, catalog) = "REUSE"
  THEN [decision |-> "REUSE", existing |-> Resolved(requirement, catalog),
        capability_draft |-> {}, agent_draft |-> {}, missing |-> {}, operations |-> {}]
  ELSE [decision |-> "CREATE", existing |-> {},
        capability_draft |-> {Draft(requirement, catalog)},
        agent_draft |-> IF RequiresAgent(requirement) THEN {AgentDraft(requirement, catalog)}
                        ELSE {},
        missing |-> Missing(requirement, catalog),
        operations |-> {"REGISTER_CAPABILITY_DRAFT"} \cup
                       IF RequiresAgent(requirement)
                       THEN {"REGISTER_AGENT_DRAFT", "START_GOVERNANCE"} ELSE {}]
=============================================================================
