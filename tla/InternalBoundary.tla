---------------------------- MODULE InternalBoundary ----------------------------
(***************************************************************************)
(* The internal HTTP boundary: calls of /internal/v1 handled concurrently  *)
(* by one process, each behind the correlation middleware and the service  *)
(* token, with the endpoints that propose something: factory/analyze and   *)
(* research.  ExternalResearchDecider can also be called in process.       *)
(*                                                                         *)
(* A handler is suspended while it reads the body and while it sends the   *)
(* response; in between it runs to the end.  The correlation id is bound   *)
(* to the handler's task by a ContextVar.                                  *)
(*                                                                         *)
(* Ids that clients send are model values, generated ones are numbers.     *)
(* An id may have bytes that are not ASCII: what is left of it without     *)
(* them may be the id of another client, or nothing.                       *)
(* Contracts live in another repository: whether they accept a payload or  *)
(* a result is a free choice.  A response is told by its code: its status  *)
(* and "retryable" follow from that.                                       *)
(***************************************************************************)
EXTENDS CapabilityFactory

CONSTANTS
  NoTool,
  Handlers,           \* calls the process handles, by HTTP or in process
  CorrelationIds,     \* what clients send, in the header or in a payload
  AsciiOf,            \* raw.decode("ascii", errors="ignore"), of each of them
  Absent,             \* no X-Correlation-ID
  EmptyId,            \* the empty string
  None,
  HttpCalls,          \* [endpoint, header, token, body, payload]
  DecideCalls,        \* [endpoint, payload]: decide(request) in process
  SettingsSet         \* configurations the process may be started with

D == INSTANCE ResearchDecision

FactoryPayloads ==
  [correlation_id : CorrelationIds, requirement : Requirements,
   capability_catalog : SUBSET CatalogItems]

ResearchPayloads ==
  [correlation_id : CorrelationIds, external : BOOLEAN, permission_refs : SUBSET Permissions,
   tool_ids : SUBSET Tools, scope_refs : SUBSET Scopes, data_classification : D!Classifications,
   max_cost : Nat]

Settings ==
  [APP_ENV : {"development", "test", "staging", "production"}, token_configured : BOOLEAN,
   contracts_path : BOOLEAN]

\* FastAPI cannot read a body ("unreadable"), cannot parse it ("malformed"), or finds that it
\* is not what the endpoint declares ("invalid"); a GET has none to object to.
Bodies == {"valid", "unreadable", "malformed", "invalid"}
HttpCallsOf(endpoints, bodies, payloads) ==
  [endpoint : endpoints, header : CorrelationIds \cup {Absent, EmptyId},
   token : {"matching", "other", "not ASCII"}, body : bodies, payload : payloads]

ASSUME HttpCallsAssumption ==
  HttpCalls \subseteq HttpCallsOf({"ready", "info", "integration"}, {"valid"}, {None}) \cup
                      HttpCallsOf({"factory"}, Bodies, FactoryPayloads) \cup
                      HttpCallsOf({"research"}, Bodies, ResearchPayloads)
ASSUME DecideCallsAssumption ==
  DecideCalls \subseteq [endpoint : {"decide"}, payload : D!DecisionRequests]
ASSUME SettingsAssumption == SettingsSet \subseteq Settings
ASSUME IdsAssumption ==
  /\ \A id \in CorrelationIds \cup {None, Absent, EmptyId} : id \notin Nat
  /\ \A id \in {None, Absent, EmptyId} : id \notin CorrelationIds
  /\ None # Absent /\ None # EmptyId /\ Absent # EmptyId
  /\ AsciiOf \in [CorrelationIds -> CorrelationIds \cup {EmptyId}]
  /\ \A id \in CorrelationIds : AsciiOf[id] # EmptyId => AsciiOf[AsciiOf[id]] = AsciiOf[id]
  /\ NoTool \notin Tools

VARIABLES
  settings,
  pc,                   \* "idle", suspended in "reading" or "sending", or "ended"
  call,                 \* what the handler was called with
  correlation_id,       \* the middleware's local variable
  correlation_context,  \* the ContextVar, as the handler's task sees it
  minted,               \* how many ids were generated and used
  response              \* [code, header, body_id, result], what the client or the caller gets

vars == <<settings, pc, call, correlation_id, correlation_context, minted, response>>
-----------------------------------------------------------------------------
(* Helpers of the endpoints *)

\* As if only production needed a token.
AuthErrorInProduction(c) ==
  IF c.endpoint = "ready" \/ (c.token = "matching" /\ settings.token_configured) THEN {}
  ELSE IF settings.token_configured THEN {"INTERNAL_AUTH_DENIED"}
  ELSE IF settings.APP_ENV = "production" THEN {"INTERNAL_AUTH_NOT_CONFIGURED"} ELSE {}

\* verify_service_token, on which all but /health and /ready depend: the error it raises, if any.
AuthError(c) ==
  IF c.endpoint = "ready" THEN {}
  ELSE IF ~ settings.token_configured
  THEN IF settings.APP_ENV \in {"development", "test"} THEN {}
       ELSE {"INTERNAL_AUTH_NOT_CONFIGURED"}
  ELSE IF c.token = "matching" THEN {} ELSE {"INTERNAL_AUTH_DENIED"}

\* compare_digest does not take a string with other characters than ASCII.
AuthBreaks(c) == c.endpoint # "ready" /\ settings.token_configured /\ c.token = "not ASCII"

CurrentCorrelationId(h) ==
  IF correlation_context[h] = EmptyId THEN minted + 1 ELSE correlation_context[h]

\* An id that an endpoint generates to compare it with the payload's matches none.
Mismatch(h) == call[h].payload.correlation_id # correlation_context[h]

\* The request the research endpoint makes of its payload.
DecisionRequest(payload) ==
  [risk |-> "MEDIUM", data_classification |-> payload.data_classification,
   scope_refs |-> payload.scope_refs, permission_refs |-> payload.permission_refs,
   tool_ids |-> payload.tool_ids, evidence |-> {}, information_complete |-> TRUE,
   external |-> [enabled |-> payload.external, tool_id |-> "research.external.retrieve",
                 permission_ref |-> "research.external.read", estimated_cost |-> 0],
   maximum_cost |-> payload.max_cost]
-----------------------------------------------------------------------------
Init ==
  /\ settings \in SettingsSet
  /\ pc = [h \in Handlers |-> "idle"]
  /\ call = [h \in Handlers |-> None]
  /\ correlation_id = [h \in Handlers |-> None]
  /\ correlation_context = [h \in Handlers |-> None]
  /\ minted = 0
  /\ response = [h \in Handlers |-> None]

\* As if the id were bound to the process.
BindForAll(h, id) == correlation_context' = [g \in Handlers |-> id]

Bind(h, id) == correlation_context' = [correlation_context EXCEPT ![h] = id]

\* The middleware binds the ASCII part of the id that the client sent, also if nothing is left;
\* if the client sent none or an empty one, it binds a new id.
ReceiveCall(h, c) ==
  LET unnamed == c.header \in {Absent, EmptyId}
      id == IF unnamed THEN minted + 1 ELSE AsciiOf[c.header] IN
  /\ pc[h] = "idle"
  /\ pc' = [pc EXCEPT ![h] = "reading"]
  /\ call' = [call EXCEPT ![h] = c]
  /\ minted' = IF unnamed THEN minted + 1 ELSE minted
  /\ correlation_id' = [correlation_id EXCEPT ![h] = id]
  /\ Bind(h, id)
  /\ UNCHANGED <<settings, response>>

\* send_with_header: every response goes out with the middleware's id.
Respond(h, code, body_id, result) ==
  /\ pc[h] = "reading"
  /\ pc' = [pc EXCEPT ![h] = "sending"]
  /\ response' = [response EXCEPT ![h] =
       [code |-> code, header |-> correlation_id[h], body_id |-> body_id, result |-> result]]
  /\ minted' = IF body_id = minted + 1 THEN minted + 1 ELSE minted
  /\ UNCHANGED <<settings, call, correlation_id, correlation_context>>

\* The exception handlers of main.py.
RespondError(h, code) == Respond(h, code, CurrentCorrelationId(h), None)

\* The body is parsed before the dependencies run, and validated after them.
Reject(h) ==
  LET c == call[h] IN
  /\ pc[h] = "reading"
  /\ \/ c.body = "unreadable" /\ Respond(h, "BODY_UNREADABLE", None, None)
     \/ c.body = "malformed" /\ RespondError(h, "REQUEST_VALIDATION_FAILED")
     \/ /\ c.body \in {"valid", "invalid"}
        /\ ~ AuthBreaks(c)
        /\ \E code \in AuthError(c) : RespondError(h, code)
     \/ c.body = "invalid" /\ AuthError(c) = {} /\ RespondError(h, "REQUEST_VALIDATION_FAILED")

Accepted(h, endpoint) ==
  /\ pc[h] = "reading"
  /\ call[h].endpoint = endpoint /\ call[h].body = "valid" /\ AuthError(call[h]) = {}

\* Endpoints that answer constants: /health and /ready; /internal/v1/health and /system/info.
SystemStatus(h) ==
  \E endpoint \in {"ready", "info"} : Accepted(h, endpoint) /\ Respond(h, "OK", None, None)

IntegrationDiagnostic(h) ==
  Accepted(h, "integration") /\ Respond(h, "OK", CurrentCorrelationId(h), None)

AnalyzeFactory(h) ==
  LET payload == call[h].payload IN
  /\ Accepted(h, "factory")
  /\ \/ Mismatch(h) /\ RespondError(h, "CORRELATION_ID_MISMATCH")
     \/ /\ ~ Mismatch(h) /\ ~ settings.contracts_path
        /\ RespondError(h, "CONTRACT_CATALOG_NOT_CONFIGURED")
     \/ /\ ~ Mismatch(h) /\ settings.contracts_path
        /\ \/ RespondError(h, "FACTORY_CONTRACT_INVALID")
           \/ Respond(h, "OK", payload.correlation_id,
                      Analysis(payload.requirement, payload.capability_catalog))

\* The contract is checked before the id; no evidence, so that no denial of it is possible.
DecideResearchSource(h) ==
  LET payload == call[h].payload IN
  /\ Accepted(h, "research")
  /\ \/ /\ ~ settings.contracts_path
        /\ RespondError(h, "CONTRACT_CATALOG_NOT_CONFIGURED")
     \/ /\ settings.contracts_path
        /\ \/ RespondError(h, "RESEARCH_CONTRACT_INVALID")
           \/ Mismatch(h) /\ RespondError(h, "CORRELATION_ID_MISMATCH")
           \/ /\ ~ Mismatch(h)
              /\ \/ RespondError(h, "RESEARCH_DECISION_CONTRACT_INVALID")
                 \/ Respond(h, "OK", correlation_context[h],
                            D!Decide(DecisionRequest(payload)))

\* An exception nobody handles (in the token's comparison; schemas that cannot be read; a
\* budget that is no number) passes the middleware: the 500 is sent outside of it.
Break(h) ==
  /\ pc[h] = "reading" /\ call[h].body \in {"valid", "invalid"}
  /\ \/ AuthBreaks(call[h])
     \/ /\ \E endpoint \in {"factory", "research"} : Accepted(h, endpoint)
        /\ settings.contracts_path
        /\ call[h].endpoint = "factory" => ~ Mismatch(h)
  /\ pc' = [pc EXCEPT ![h] = "ended"]
  /\ response' = [response EXCEPT ![h] =
       [code |-> "INTERNAL_SERVER_ERROR", header |-> Absent, body_id |-> None, result |-> None]]
  /\ Bind(h, None)
  /\ UNCHANGED <<settings, call, correlation_id, minted>>

\* As if the middleware had no finally.
LeaveBound(h) == UNCHANGED correlation_context

Reset(h) == Bind(h, None)

\* The response was sent, or the client is gone.
Finish(h) ==
  /\ pc[h] = "sending"
  /\ pc' = [pc EXCEPT ![h] = "ended"]
  /\ Reset(h)
  /\ UNCHANGED <<settings, call, correlation_id, minted, response>>

\* decide(), called in process; of several denials the order of the evidence picks one.
DecideInProcess(h, c) ==
  LET denials == D!EvidenceDenials(c.payload) IN
  /\ pc[h] = "idle"
  /\ pc' = [pc EXCEPT ![h] = "ended"]
  /\ call' = [call EXCEPT ![h] = c]
  /\ \E answer \in [code : IF denials = {} THEN {"RESEARCH_DECISION_CONTRACT_INVALID"} ELSE denials,
                    result : {None}]
                   \cup [code : {"OK"}, result : IF denials = {} THEN {D!Decide(c.payload)} ELSE {}] :
       response' = [response EXCEPT ![h] =
         [code |-> answer.code, header |-> Absent, body_id |-> None, result |-> answer.result]]
  /\ UNCHANGED <<settings, correlation_id, correlation_context, minted>>

Next ==
  \E h \in Handlers :
    \/ \E c \in HttpCalls : ReceiveCall(h, c)
    \/ \E c \in DecideCalls : DecideInProcess(h, c)
    \/ Reject(h)
    \/ SystemStatus(h)
    \/ IntegrationDiagnostic(h)
    \/ AnalyzeFactory(h)
    \/ DecideResearchSource(h)
    \/ Break(h)
    \/ Finish(h)

Spec == Init /\ [][Next]_vars
-----------------------------------------------------------------------------
Ids == CorrelationIds \cup {EmptyId} \cup 1..minted

\* Types; and an id is bound in a handler's task exactly while the call is handled, and only
\* then (observability/correlation.py: set before, reset in finally).
TypeOK ==
  /\ settings \in SettingsSet
  /\ pc \in [Handlers -> {"idle", "reading", "sending", "ended"}]
  /\ minted \in Nat
  /\ \A h \in Handlers :
       /\ IF pc[h] = "idle" THEN call[h] = None ELSE call[h] \in HttpCalls \cup DecideCalls
       /\ correlation_id[h] \in Ids \cup {None}
       /\ correlation_context[h] \in Ids <=> pc[h] \in {"reading", "sending"}
       /\ correlation_context[h] \in Ids \cup {None}
       /\ pc[h] \in {"idle", "reading"} => response[h] = None

Responded(h) == pc[h] \in {"sending", "ended"}
RespondedTo(h, endpoint) == Responded(h) /\ call[h].endpoint = endpoint
SeenByMiddleware(h) == Responded(h) /\ response[h].header # Absent

\* However calls interleave, a client finds the ASCII part of the id it sent, and so an ASCII id
\* itself, in the header and in the body of its own response; if nothing is left of the id, the
\* header is empty and the body has a new id.  One that sent no id or an empty one finds an id
\* that no other response has.  A result answers a payload whose id is the ASCII part of the one
\* in the header, which need not be the id in the header (observability/correlation.py 21,
\* api/routes.py, main.py: current_correlation_id).
AnswersOwnCall ==
  \A h \in Handlers : SeenByMiddleware(h) =>
    LET r == response[h]
        sent == call[h].header
        named == sent \in CorrelationIds
    IN
    /\ named /\ AsciiOf[sent] # EmptyId =>
         r.header = AsciiOf[sent] /\ r.body_id \in {AsciiOf[sent], None}
    /\ named /\ AsciiOf[sent] = EmptyId => r.header = EmptyId /\ r.body_id \in Nat \cup {None}
    /\ ~ named => r.header \in Nat /\ r.body_id \in {r.header, None}
    /\ r.result # None => named /\ AsciiOf[sent] = call[h].payload.correlation_id
    /\ \A g \in Handlers \ {h} : SeenByMiddleware(g) =>
         {r.header, r.body_id} \cap {response[g].header, response[g].body_id} \cap Nat = {}

\* All that a client without the service token is told of its payload (unless, in development and
\* test, no token is configured) is whether it can be read and whether it can be parsed, which
\* FastAPI finds out before the token is looked at, and main.py 67-90 answers with the place of
\* the error.  It gets no result, and what the payload holds, whether it is valid and what the
\* contracts make of it decide nothing (api/auth.py and the dependencies of the router).
OnlyAuthenticated ==
  \A h \in Handlers :
    /\ Responded(h) /\ call[h].endpoint \notin {"decide", "ready"}
    /\ IF settings.token_configured THEN call[h].token # "matching"
       ELSE settings.APP_ENV \in {"staging", "production"}
    => /\ response[h].result = None
       /\ response[h].code = "BODY_UNREADABLE" <=> call[h].body = "unreadable"
       /\ response[h].code = "REQUEST_VALIDATION_FAILED" <=> call[h].body = "malformed"
       /\ call[h].body \in {"valid", "invalid"} =>
            \/ response[h].code \in {"INTERNAL_AUTH_DENIED", "INTERNAL_AUTH_NOT_CONFIGURED"}
            \/ response[h].code = "INTERNAL_SERVER_ERROR" /\ call[h].token = "not ASCII"

AnalysisOf(h) == response[h].result
Analyzed(h) == RespondedTo(h, "factory") /\ response[h].code = "OK"

\* Reuse is advised only if each capability asked for has an entry in the catalog and all its
\* entries are usable, and creation only if that is not so; advice to reuse proposes nothing
\* to register (resolver/service.py resolve, factory/service.py analyze).
ReuseIsUsable ==
  \A h \in Handlers : Analyzed(h) =>
    LET asked == Candidates(call[h].payload.requirement.statement)
        entries(id) == {item \in call[h].payload.capability_catalog : item.capability_id = id}
        usable(id) == entries(id) # {} /\ \A item \in entries(id) :
                        /\ item.availability = "AVAILABLE"
                        /\ item.configuration_status \in {"CONFIGURED", "NOT_APPLICABLE"}
    IN
    /\ AnalysisOf(h).decision = "REUSE" <=> \A id \in asked : usable(id)
    /\ AnalysisOf(h).decision = "REUSE" <=> AnalysisOf(h).operations = {}
    /\ AnalysisOf(h).decision = "REUSE" => asked = {i.capability_id : i \in AnalysisOf(h).existing}
    /\ \A id \in AnalysisOf(h).missing : entries(id) = {}

\* Drafts propose the scopes of the request, and only tools and permissions that the catalog
\* has for a capability asked for, whatever the requester may do; an agent draft proposes no
\* more than the capability draft beside it and always comes with its governance
\* (factory/service.py analyze and _agent_draft).
ProposalBounded ==
  \A h \in Handlers : Analyzed(h) =>
    LET requirement == call[h].payload.requirement
        offered == {i \in call[h].payload.capability_catalog :
                      i.capability_id \in Candidates(requirement.statement)}
        agents == {a.draft : a \in AnalysisOf(h).agent_draft}
    IN
    /\ \A draft \in AnalysisOf(h).capability_draft \cup agents :
         /\ draft.scope_refs = requirement.scope_refs
         /\ \A tool \in draft.tool_ids : \E i \in offered : tool \in i.backing_tool_ids
         /\ \A p \in draft.permission_refs : \E i \in offered : p \in i.permission_refs
    /\ \A draft \in agents : \E c \in AnalysisOf(h).capability_draft :
         /\ draft.tool_ids \subseteq c.tool_ids
         /\ draft.permission_refs \subseteq c.permission_refs
    /\ agents # {} <=> "START_GOVERNANCE" \in AnalysisOf(h).operations

\* The requirement asks for an agent, by its statement or by the type it prefers.
AsksForAgent(requirement) ==
  \/ requirement.preferred_capability_type \in {"AGENT", "COMPOSITE"}
  \/ requirement.preferred_capability_type = "none" /\ "agent" \in requirement.statement

Severity(risk) == CHOOSE n \in DOMAIN RiskLevels : RiskLevels[n] = risk

\* What a requirement says more never makes its drafts less careful: whatever else the statement
\* holds, and whatever type is preferred, they are rated at least as a part of it that names a
\* capability would be, with its tests and its evidence; with tools or any risk at all they are
\* tested for escalation and failure; and an agent's model policy is the critical one exactly if
\* its tests hold it to a baseline.  Who asks for an agent, and prefers nothing else, gets its
\* draft with its governance, whatever else the statement says (resolver/service.py 109-220,
\* factory/service.py 116-135 and 154-176).
CareNeverTalkedDown ==
  \A h \in Handlers : Analyzed(h) =>
    LET statement == call[h].payload.requirement.statement
        parts == {part \in SUBSET statement :
                    IsStatement(part) /\ part \cap DOMAIN CapabilityHints # {}}
        agents == {a.draft : a \in AnalysisOf(h).agent_draft}
    IN
    /\ \A draft \in AnalysisOf(h).capability_draft \cup agents :
         /\ \A part \in parts :
              /\ Severity(Risk(part)) <= Severity(draft.risk_level)
              /\ TestRequirements(Risk(part), FALSE) \subseteq draft.test_requirements
              /\ EvidenceRequirements(part) \subseteq draft.evidence_requirements
         /\ draft.tool_ids # {} \/ draft.risk_level # "LOW" =>
              {"security", "recovery"} \subseteq draft.test_requirements
    /\ \A a \in AnalysisOf(h).agent_draft :
         a.model_policy_ref = "model-policy.critical-v1"
           <=> "regression" \in a.draft.test_requirements
    /\ AnalysisOf(h).decision = "CREATE" /\ AsksForAgent(call[h].payload.requirement) =>
         /\ agents # {}
         /\ {"REGISTER_AGENT_DRAFT", "START_GOVERNANCE"} \subseteq AnalysisOf(h).operations

Decided(h) ==
  (RespondedTo(h, "research") \/ RespondedTo(h, "decide")) /\ response[h].code = "OK"
RequestOf(h) ==
  IF call[h].endpoint = "decide" THEN call[h].payload ELSE DecisionRequest(call[h].payload)

\* Evidence is selected from one channel, and only if it is current, reliable, at hand and
\* within scope and classification; memory only for modest risks and without an internal source;
\* and retrieval is proposed only without such evidence and within the Backend's allowlist,
\* permissions, cost and classification (research/decision.py decide).
DecisionJustified ==
  \A h \in Handlers : Decided(h) =>
    LET d == response[h].result
        request == RequestOf(h)
        good == {e \in request.evidence :
                   e.available /\ e.freshness = "CURRENT" /\ e.reliability \in {"HIGH", "MEDIUM"}}
        internal == {e \in good : e.channel = "INTERNAL_SOURCE"}
    IN
    /\ \A e \in d.selected : /\ e \in good
                             /\ e.scope_refs \subseteq request.scope_refs
                             /\ e.data_classification <= request.data_classification
    /\ d.decision = "USE_INTERNAL_SOURCE" => d.selected = internal /\ internal # {}
    /\ d.decision = "USE_MEMORY" => /\ d.selected = good /\ good # {} /\ internal = {}
                                    /\ request.risk \notin {"HIGH", "CRITICAL"}
    /\ d.decision = "REQUEST_EXTERNAL_RESEARCH" <=> d.retrieval # NoTool
    /\ d.retrieval # NoTool =>
         /\ d.selected = {} /\ internal = {}
         /\ request.external.enabled /\ request.data_classification # D!Restricted
         /\ d.retrieval \in request.tool_ids
         /\ request.external.permission_ref \in request.permission_refs
         /\ request.external.estimated_cost <= request.maximum_cost
    /\ call[h].endpoint = "research" =>
         d.decision \in {"REQUEST_EXTERNAL_RESEARCH", "INSUFFICIENT_EVIDENCE"}
=============================================================================
