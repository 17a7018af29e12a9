-------------------------- MODULE InternalBoundaryMC --------------------------
(***************************************************************************)
(* Two calls at a time, under configurations with and without a token and  *)
(* contracts; every kind of token, of body and of correlation header, also of *)
(* ids with some bytes and with no byte that is ASCII; for the factory     *)
(* catalogs with usable, unusable, several and no entries of the two       *)
(* capabilities asked for, and statements of each risk and type; for research *)
(* every way in which the boundary can forbid retrieval, and evidence of each *)
(* kind.                                                                   *)
(***************************************************************************)
EXTENDS InternalBoundary, TLC

CONSTANTS c1, c2, h1, h2,
  mixed,    \* c1 with some bytes that are not ASCII
  foreign   \* an id without an ASCII byte

MCSymmetry == Permutations(Handlers)

MCAsciiOf ==
  [id \in CorrelationIds |-> CASE id = mixed -> c1 [] id = foreign -> EmptyId [] OTHER -> id]

MCSettings ==
  {[APP_ENV |-> "production", token_configured |-> TRUE, contracts_path |-> TRUE],
   [APP_ENV |-> "production", token_configured |-> TRUE, contracts_path |-> FALSE],
   [APP_ENV |-> "staging", token_configured |-> FALSE, contracts_path |-> TRUE],
   [APP_ENV |-> "development", token_configured |-> FALSE, contracts_path |-> TRUE]}

External == "research.external.retrieve"

Item(id, version, availability, configuration, permission) ==
  [capability_id |-> id, version |-> version, availability |-> availability,
   configuration_status |-> configuration, backing_tool_ids |-> {id},
   permission_refs |-> {permission}]

List == Item("task.list", 1, "AVAILABLE", "CONFIGURED", "task.read")
Read == Item("task.read", 1, "AVAILABLE", "NOT_APPLICABLE", "task.read")
OldRead == Item("task.read", 0, "DEGRADED", "CONFIGURED", "task.read")
Unready == Item("task.read", 1, "AVAILABLE", "NEEDS_CONFIGURATION", "task.read")
Other == Item("report.generate", 1, "AVAILABLE", "CONFIGURED", "report.write")

Catalogs == {{}, {List, Other}, {List, Read}, {List, Read, OldRead}, {List, Unready, Other}}

FactoryPayload(statement, type, catalog) ==
  [correlation_id |-> c1,
   requirement |-> [statement |-> statement, preferred_capability_type |-> type,
                    permission_refs |-> {"document.read"}, scope_refs |-> {"s1"}],
   capability_catalog |-> catalog]

ResearchPayload(external, permissions, tools, classification) ==
  [correlation_id |-> c1, external |-> external, permission_refs |-> permissions,
   tool_ids |-> tools, scope_refs |-> {"s1"}, data_classification |-> classification,
   max_cost |-> 0]

Call(endpoint, header, token, body, payload) ==
  [endpoint |-> endpoint, header |-> header, token |-> token, body |-> body,
   payload |-> payload]

\* Words of one kind alone, and together with words of others.
Statements ==
  {{}, {"payment"}, {"human task", "task", "document"}, {"task", "report"}, {"kontrak", "rule"},
   {"document", "compare", "project"}, {"task", "agent", "payment"}, {"approval", "workflow"}}

AnyFactory == FactoryPayload({"task", "agent", "payment"}, "none", {List, Other})
Granted == ResearchPayload(TRUE, {"research.external.read"}, {External}, 1)

MCHttpCalls ==
  {Call("integration", header, token, "valid", None) :
     header \in {c1, c2, Absent, EmptyId, mixed, foreign}, token \in {"matching", "other"}}
  \cup {Call("info", c1, token, "valid", None) : token \in {"matching", "other"}}
  \cup {Call("ready", header, "other", "valid", None) : header \in {c1, Absent}}
  \cup {Call("factory", header, token, body, AnyFactory) :
          header \in {c1, foreign}, token \in {"matching", "other", "not ASCII"},
          body \in {"valid", "unreadable", "malformed", "invalid"}}
  \cup {Call("factory", c1, "matching", "valid", payload) : payload \in
          {FactoryPayload({"task"}, type, catalog) : type \in {"AGENT", "none"}, catalog \in Catalogs}
          \cup {FactoryPayload(statement, type, {List, Other}) :
                  statement \in Statements, type \in {"SKILL", "none"}}}
  \cup {Call("factory", mixed, "matching", "valid", payload) :
          payload \in {AnyFactory, [AnyFactory EXCEPT !.correlation_id = mixed]}}
  \cup {Call("research", header, "matching", "valid", Granted) : header \in {c1, c2, Absent, mixed}}
  \cup {Call("research", c1, "matching", "valid", payload) : payload \in
          {ResearchPayload(FALSE, {"research.external.read"}, {External}, 1),
           ResearchPayload(TRUE, {"research.external.read"}, {External}, 3),
           ResearchPayload(TRUE, {}, {External}, 1),
           ResearchPayload(TRUE, {"research.external.read"}, {}, 1)}}

Evidence(channel, freshness, reliability, scope, classification) ==
  [channel |-> channel, freshness |-> freshness, reliability |-> reliability,
   available |-> TRUE, scope_refs |-> {scope}, data_classification |-> classification]

MCEvidence ==
  {{}, {Evidence("INTERNAL_SOURCE", "CURRENT", "HIGH", "s1", 1),
        Evidence("INTERNAL_SOURCE", "STALE", "HIGH", "s1", 1)},
   {Evidence("MEMORY", "CURRENT", "MEDIUM", "s1", 0),
    Evidence("INTERNAL_SOURCE", "CURRENT", "LOW", "s1", 1)},
   {[Evidence("INTERNAL_SOURCE", "CURRENT", "HIGH", "s1", 1) EXCEPT !.available = FALSE]},
   {Evidence("MEMORY", "CURRENT", "HIGH", "s1", 2), Evidence("MEMORY", "CURRENT", "HIGH", "s2", 1)}}

MCDecideCalls ==
  [endpoint : {"decide"},
   payload : [risk : {"MEDIUM", "HIGH"}, data_classification : {1}, scope_refs : {{"s1"}},
              permission_refs : {{"research.external.read"}}, tool_ids : {{External}},
              evidence : MCEvidence, information_complete : BOOLEAN,
              external : [enabled : {TRUE}, tool_id : {External},
                          permission_ref : {"research.external.read"}, estimated_cost : {0, 5}],
              maximum_cost : {0}]]
=============================================================================
