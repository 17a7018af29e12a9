--------------------------- MODULE CapabilityResolver ---------------------------
(***************************************************************************)
(* CapabilityResolver: what a statement asks for, by the words it holds,   *)
(* and which entries of the Backend's catalog answer it.  Both are         *)
(* functions; nothing is registered.                                       *)
(*                                                                         *)
(* A statement is the set of the words below that occur in it.  A word     *)
(* stands for all those of the tables that are listed with it everywhere   *)
(* it is listed: "task" also for tugas, overdue and terlambat.  Domains    *)
(* and the rationale decide nothing and are left out.                      *)
(***************************************************************************)
EXTENDS Sequences, FiniteSets, Naturals

CONSTANTS CapabilityIds, Tools, Permissions, Scopes

CapabilityTypes ==
  {"AGENT", "SKILL", "WORKFLOW", "RULE", "VALIDATOR", "REPORT", "HUMAN_TASK", "SCHEDULE",
   "EVENT_HANDLER", "CONNECTOR_REQUIREMENT", "TOOL_REQUIREMENT", "COMPOSITE"}

\* By severity; nothing is ever rated CRITICAL.
RiskLevels == <<"LOW", "MEDIUM", "HIGH">>

DocumentIds == {"document.search", "document.read"}

\* "kontrak" is a document here, as "contract" is, but not to the evidence that is required.
CapabilityHints ==
  [task |-> {"task.list", "task.read"}, finding |-> {"finding.create"},
   document |-> DocumentIds, kontrak |-> DocumentIds, policy |-> DocumentIds,
   compare |-> {"document.compare"}, project |-> {"project.list", "project.read"},
   report |-> {"report.generate"}, approval |-> {"approval.request"}]

TypeHints ==
  <<[words |-> {"agent"}, type |-> "AGENT"],
    [words |-> {"human task", "manual review"}, type |-> "HUMAN_TASK"],
    [words |-> {"rule", "policy"}, type |-> "RULE"],
    [words |-> {"workflow"}, type |-> "WORKFLOW"],
    [words |-> {"validate"}, type |-> "VALIDATOR"],
    [words |-> {"schedule"}, type |-> "SCHEDULE"],
    [words |-> {"report"}, type |-> "REPORT"]>>

\* payment, pembayaran, release, approve
GravestWord == "payment"

FallbackIds == {"global.search", "organization.context.read"}

\* Ids that end in .read, .list or .search.
ReadingIds ==
  FallbackIds \cup DocumentIds \cup {"task.list", "task.read", "project.list", "project.read"}

HintWords ==
  DOMAIN CapabilityHints \cup {GravestWord} \cup UNION {TypeHints[n].words : n \in DOMAIN TypeHints}

\* A statement that mentions a human task mentions a task.
IsStatement(words) == words \subseteq HintWords /\ ("human task" \in words => "task" \in words)

ASSUME CapabilityIdsAssumption ==
  FallbackIds \cup UNION {CapabilityHints[w] : w \in DOMAIN CapabilityHints} \subseteq CapabilityIds

\* permission_refs and scope_refs are those of the requesting actor.
Requirements ==
  {r \in [statement : SUBSET HintWords, preferred_capability_type : CapabilityTypes \cup {"none"},
          permission_refs : SUBSET Permissions, scope_refs : (SUBSET Scopes) \ {{}}] :
     IsStatement(r.statement)}

CatalogItems ==
  [capability_id : CapabilityIds, version : Nat,
   availability : {"AVAILABLE", "UNAVAILABLE", "DEGRADED"},
   configuration_status : {"CONFIGURED", "NEEDS_CONFIGURATION", "NOT_APPLICABLE"},
   backing_tool_ids : SUBSET Tools, permission_refs : SUBSET Permissions]
-----------------------------------------------------------------------------
(* understand *)

Candidates(statement) ==
  LET hinted == UNION {CapabilityHints[w] : w \in statement \cap DOMAIN CapabilityHints} IN
  IF hinted = {} THEN FallbackIds ELSE hinted

\* The first type whose words occur.
ClassifyType(statement) ==
  LET matching == {n \in DOMAIN TypeHints : TypeHints[n].words \cap statement # {}} IN
  IF matching # {} THEN TypeHints[CHOOSE n \in matching : \A m \in matching : n <= m].type
  ELSE IF Cardinality(Candidates(statement)) > 3 THEN "COMPOSITE" ELSE "SKILL"

RecommendedType(requirement) ==
  IF requirement.preferred_capability_type # "none" THEN requirement.preferred_capability_type
  ELSE ClassifyType(requirement.statement)

RequiresAgent(requirement) == RecommendedType(requirement) \in {"AGENT", "COMPOSITE"}

\* As if one capability that reads made all of them harmless.
RiskOfBest(statement) ==
  IF GravestWord \in statement THEN "HIGH"
  ELSE IF Candidates(statement) \cap ReadingIds = {} THEN "MEDIUM" ELSE "LOW"

Risk(statement) ==
  IF GravestWord \in statement THEN "HIGH"
  ELSE IF ~ Candidates(statement) \subseteq ReadingIds THEN "MEDIUM" ELSE "LOW"
-----------------------------------------------------------------------------
(* resolve *)

Usable(item) ==
  item.availability = "AVAILABLE" /\ item.configuration_status # "NEEDS_CONFIGURATION"

\* Entries that only share words with the statement are ranked, and then left out.
Resolved(requirement, catalog) ==
  {item \in catalog : item.capability_id \in Candidates(requirement.statement)}

Missing(requirement, catalog) ==
  Candidates(requirement.statement) \ {item.capability_id : item \in catalog}

\* As if an entry were as good as a capability.
DecisionOfMissing(requirement, catalog) ==
  IF Missing(requirement, catalog) # {} THEN "CREATE" ELSE "REUSE"

Decision(requirement, catalog) ==
  IF \/ Missing(requirement, catalog) # {}
     \/ \E item \in Resolved(requirement, catalog) : ~ Usable(item)
  THEN "CREATE" ELSE "REUSE"

RequiredTools(requirement, catalog) ==
  UNION {item.backing_tool_ids : item \in Resolved(requirement, catalog)}

\* As if a proposal carried over what its requester may do.
RequestersPermissions(requirement, catalog) ==
  requirement.permission_refs
    \cup UNION {item.permission_refs : item \in Resolved(requirement, catalog)}

RequiredPermissions(requirement, catalog) ==
  UNION {item.permission_refs : item \in Resolved(requirement, catalog)}

EvidenceRequirements(statement) ==
  {"citation", "lineage", "review"} \cup IF "document" \in statement THEN {"source version"} ELSE {}

TestRequirements(risk, uses_tools) ==
  {"positive", "negative", "contract"}
    \cup (IF uses_tools \/ risk # "LOW" THEN {"security", "recovery"} ELSE {})
    \cup (IF risk = "HIGH" THEN {"regression"} ELSE {})
=============================================================================
