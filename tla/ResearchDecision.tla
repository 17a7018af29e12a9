---------------------------- MODULE ResearchDecision ----------------------------
(***************************************************************************)
(* ExternalResearchDecider.decide: from where the evidence for a question  *)
(* is to come, given the candidates at hand and the boundary the Backend   *)
(* set.  A function; retrieval is only proposed.                           *)
(***************************************************************************)
EXTENDS Naturals

CONSTANTS
  Tools, Permissions, Scopes, NoTool

\* classification_rank: public, internal, confidential, restricted.
Classifications == 0..3
Restricted == 3

EvidenceCandidates ==
  [channel : {"INTERNAL_SOURCE", "MEMORY"}, freshness : {"CURRENT", "STALE", "UNKNOWN"},
   reliability : {"HIGH", "MEDIUM", "LOW", "UNVERIFIED"}, available : BOOLEAN,
   scope_refs : SUBSET Scopes, data_classification : Classifications]

ExternalBoundaries ==
  [enabled : BOOLEAN, tool_id : Tools, permission_ref : Permissions, estimated_cost : Nat]

DecisionRequests ==
  [risk : {"LOW", "MEDIUM", "HIGH", "CRITICAL"}, data_classification : Classifications,
   scope_refs : SUBSET Scopes, permission_refs : SUBSET Permissions,
   tool_ids : SUBSET Tools, evidence : SUBSET EvidenceCandidates,
   information_complete : BOOLEAN, external : ExternalBoundaries, maximum_cost : Nat]

\* _validate_evidence_scope; of several denials the caller's order of the evidence picks one.
EvidenceDenials(request) ==
  {"RESEARCH_EVIDENCE_SCOPE_DENIED" :
     e \in {x \in request.evidence : ~ x.scope_refs \subseteq request.scope_refs}}
  \cup {"RESEARCH_EVIDENCE_CLASSIFICATION_DENIED" :
          e \in {x \in request.evidence : /\ x.scope_refs \subseteq request.scope_refs
                                          /\ x.data_classification > request.data_classification}}

\* As if whatever is current could be relied upon.
CurrentAnyReliability(request) ==
  {e \in request.evidence : e.available /\ e.freshness = "CURRENT"}

Current(request) ==
  {e \in request.evidence : /\ e.available /\ e.freshness = "CURRENT"
                            /\ e.reliability \notin {"UNVERIFIED", "LOW"}}

Of(channel, request) == {e \in Current(request) : e.channel = channel}

ExternalDenied(request) ==
  \/ ~ request.external.enabled
  \/ request.data_classification = Restricted
  \/ request.external.tool_id \notin request.tool_ids
  \/ request.external.permission_ref \notin request.permission_refs
  \/ request.external.estimated_cost > request.maximum_cost

ResearchDecisionOf(kind, selected, tool) ==
  [decision |-> kind, selected |-> selected, retrieval |-> tool]

\* The first channel that will do, in the order of decide().
Decide(request) ==
  IF ~ request.information_complete
  THEN ResearchDecisionOf("NEEDS_INFORMATION", {}, NoTool)
  ELSE IF Of("INTERNAL_SOURCE", request) # {}
  THEN ResearchDecisionOf("USE_INTERNAL_SOURCE", Of("INTERNAL_SOURCE", request), NoTool)
  ELSE IF Of("MEMORY", request) # {} /\ request.risk \in {"LOW", "MEDIUM"}
  THEN ResearchDecisionOf("USE_MEMORY", Of("MEMORY", request), NoTool)
  ELSE IF ~ ExternalDenied(request)
  THEN ResearchDecisionOf("REQUEST_EXTERNAL_RESEARCH", {}, request.external.tool_id)
  ELSE ResearchDecisionOf("INSUFFICIENT_EVIDENCE", {}, NoTool)
=============================================================================
