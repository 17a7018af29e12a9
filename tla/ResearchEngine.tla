----------------------------- MODULE ResearchEngine -----------------------------
(***************************************************************************)
(* One ResearchEngine.research: a question is answered from one context    *)
(* bundle, which the caller supplies or BackendContextProvider.retrieve    *)
(* fetches with a tool call, by one call of the model whose every citation *)
(* must be evidence of that bundle.                                        *)
(*                                                                         *)
(* The code between two awaits is one action.  The engine has no timeout   *)
(* of its own and catches nothing but an unreadable draft: whatever is     *)
(* raised below leaves research() as it is.                                *)
(*                                                                         *)
(* Tenant, organization, workspace and actor are one identity.  Contracts  *)
(* live in another repository: whether they accept a document is a free    *)
(* choice.                                                                 *)
(***************************************************************************)
EXTENDS ModelGateway, BackendToolClient, Sequences

CONSTANTS
  Identities, EvidenceIds,
  Contents,        \* what a reference may say apart from its id
  Requests,        \* ResearchRequests a caller may pass to research()
  Outputs,         \* ContextBundles a ToolResult may carry
  Drafts,          \* what a provider may answer
  NoBundle,        \* no bundle, or an output that is not an object
  NoBudget         \* the execution_budget of a context that carries none

\* content stands for all that a canonical reference says of its source.
EvidenceRefs == [evidence_id : EvidenceIds, content : Contents]

ContextBundles ==
  [identity : Identities, correlation_id : CorrelationIds, evidence_refs : Seq(EvidenceRefs)]

ExecutionContexts ==
  [identity : Identities, correlation_id : CorrelationIds, data_classification : DOMAIN Rank,
   execution_budget : Budgets \cup {NoBudget}]

ResearchRequests ==
  [correlation_id : CorrelationIds, execution_context : ExecutionContexts,
   context_bundle : ContextBundles \cup {NoBundle}]

\* A _ResearchDraft: each finding and each recommendation is the set of ids it cites.
ResearchDrafts ==
  [readable : BOOLEAN, findings : SUBSET ((SUBSET EvidenceIds) \ {{}}),
   recommendations : SUBSET SUBSET EvidenceIds]

ASSUME RequestsAssumption == Requests \subseteq ResearchRequests
ASSUME OutputsAssumption == Outputs \subseteq ContextBundles \cup {NoBundle}
ASSUME DraftsAssumption == Drafts \subseteq ResearchDrafts
ASSUME AbsentAssumption == NoBundle \notin ContextBundles /\ NoBudget \notin Budgets

VARIABLES
  has_provider,  \* whether the engine was built with a context provider
  request,       \* the payload
  pc,            \* "received", suspended in "retrieving" or "reasoning", or "ended"
  sent,          \* tool ids POSTed to the Backend
  asked,         \* what the provider was asked, in order
  outcome        \* what research() returned or raised

vars == <<has_provider, request, pc, sent, asked, outcome>>

SearchContext == "source.search_context"
PolicyRef == "policy.evidence-bound-research.v1"
-----------------------------------------------------------------------------
(* Requests and results *)

Context == request.execution_context

\* As if the engine had no bound of its own.
MaxTokensOfBudget ==
  IF Context.execution_budget = NoBudget THEN NoLimit ELSE Context.execution_budget["max_tokens"]

\* The smaller of 2000 and the budget's max_tokens; the other limits are not looked at.
MaxTokens ==
  IF Context.execution_budget = NoBudget THEN 2000
  ELSE LET limit == Context.execution_budget["max_tokens"] IN
       IF limit # NoLimit /\ limit <= 2000 THEN limit ELSE 2000

\* The budget is made for this request: it has the same max_tokens.
ModelRequest ==
  [policy_ref |-> PolicyRef,
   data_classification |-> Context.data_classification,
   requested_max_tokens |-> MaxTokens,
   budget |-> [f \in Limits |-> IF f = "max_tokens" THEN MaxTokens
                                ELSE IF f = "max_steps" THEN 1 ELSE NoLimit]]

\* As if it were enough that the bundle has the right owner.
SameOwner(bundle) == bundle.identity = Context.identity

\* _validate_context_identity; neither the run nor the scope is compared.
SameIdentity(bundle) ==
  bundle.identity = Context.identity /\ bundle.correlation_id = Context.correlation_id

EvidenceIdsOf(bundle) == {bundle.evidence_refs[k].evidence_id : k \in DOMAIN bundle.evidence_refs}

\* The values of evidence_by_id: of several references with one id the last one.
EvidenceOf(bundle) ==
  LET refs == bundle.evidence_refs IN
  {refs[k] : k \in {i \in DOMAIN refs :
                      \A j \in DOMAIN refs : refs[j].evidence_id = refs[i].evidence_id => j <= i}}

References(ids, bundle) == {e \in EvidenceOf(bundle) : e.evidence_id \in ids}

Cited(draft) == UNION (draft.findings \cup draft.recommendations)

\* As if one known citation vouched for the others.
CitesNothingKnown(draft, bundle) ==
  Cited(draft) # {} /\ Cited(draft) \cap EvidenceIdsOf(bundle) = {}

CitesUnknown(draft, bundle) == ~ Cited(draft) \subseteq EvidenceIdsOf(bundle)

ResearchResult(draft, bundle) ==
  [status |-> "NEEDS_REVIEW",
   correlation_id |-> request.correlation_id,
   findings |-> {References(ids, bundle) : ids \in draft.findings},
   recommendations |-> {References(ids, bundle) : ids \in draft.recommendations},
   evidence_bundle |-> EvidenceOf(bundle)]

Pending == [status |-> "PENDING"]
Raised(exception) == [status |-> exception]
-----------------------------------------------------------------------------
(* From one await to the next *)

Raise(exception) ==
  pc' = "ended" /\ outcome' = Raised(exception) /\ UNCHANGED <<sent, asked>>

\* BackendContextProvider.retrieve up to the POST.
CallBackend ==
  \/ Raise("ToolContractError")            \* ToolRequest contract
  \/ /\ pc' = "retrieving" /\ sent' = Append(sent, SearchContext)
     /\ UNCHANGED <<asked, outcome>>

\* What research() does with a bundle, up to the await of the provider.
UseBundle(bundle) ==
  \/ Raise("ContractValidationError")      \* ContextBundle contract
  \/ /\ ~ SameIdentity(bundle) \/ EvidenceIdsOf(bundle) = {}
     /\ Raise("ResearchOutputInvalid")
  \/ /\ SameIdentity(bundle) /\ EvidenceIdsOf(bundle) # {}
     /\ \/ MaxTokens = 0 /\ Raise("ValidationError")     \* ExecutionBudget(max_tokens=0)
        \/ MaxTokens # 0 /\ ~ AdmitsModelRequest(ModelRequest) /\ Raise("ModelGatewayError")
        \/ /\ MaxTokens # 0 /\ AdmitsModelRequest(ModelRequest)
           /\ pc' = "reasoning"
           /\ asked' = Append(asked, [bundle |-> bundle, max_tokens |-> MaxTokens])
           /\ UNCHANGED <<sent, outcome>>

Init ==
  /\ has_provider \in BOOLEAN /\ request \in Requests
  /\ pc = "received" /\ sent = <<>> /\ asked = <<>> /\ outcome = Pending

Research ==
  /\ pc = "received"
  /\ \/ Raise("ContractValidationError")   \* ResearchRequest contract
     \/ request.context_bundle # NoBundle /\ UseBundle(request.context_bundle)
     \/ request.context_bundle = NoBundle /\ has_provider /\ CallBackend
     \/ request.context_bundle = NoBundle /\ ~ has_provider /\ Raise("ResearchOutputInvalid")
  /\ UNCHANGED <<has_provider, request>>

\* As if a call that broke down were sent again.
ContextReturnsOrRetries(reply, output) ==
  /\ pc = "retrieving"
  /\ \/ reply.kind \in {"timeout", "unavailable", "http_5xx"} /\ CallBackend
     \/ /\ Returns(reply, Context.correlation_id) /\ output # NoBundle
        /\ UseBundle(output)
  /\ UNCHANGED <<has_provider, request>>

\* The rest of retrieve, and what research() does with its result.
ContextReturns(reply, output) ==
  /\ pc = "retrieving"
  /\ \/ ~ Returns(reply, Context.correlation_id) /\ Raise("BackendToolClientError")
     \/ /\ Returns(reply, Context.correlation_id)
        /\ reply.status # "SUCCESS" \/ output = NoBundle
        /\ Raise("ContextRetrievalError")
     \/ /\ Returns(reply, Context.correlation_id)
        /\ reply.status = "SUCCESS" /\ output # NoBundle
        /\ \/ Raise("ContractValidationError")           \* ContextBundle contract
           \/ /\ output.correlation_id # Context.correlation_id
              /\ Raise("ContextRetrievalError")
           \/ output.correlation_id = Context.correlation_id /\ UseBundle(output)
  /\ UNCHANGED <<has_provider, request>>

ModelReturns(draft) ==
  /\ pc = "reasoning"
  /\ LET bundle == asked[1].bundle IN
     \/ /\ ~ draft.readable \/ CitesUnknown(draft, bundle)
        /\ Raise("ResearchOutputInvalid")
     \/ /\ draft.readable /\ ~ CitesUnknown(draft, bundle)
        /\ \/ Raise("ContractValidationError")           \* ResearchResult contract
           \/ /\ pc' = "ended" /\ outcome' = ResearchResult(draft, bundle)
              /\ UNCHANGED <<sent, asked>>
  /\ UNCHANGED <<has_provider, request>>

ModelRaises == pc = "reasoning" /\ Raise("ProviderError") /\ UNCHANGED <<has_provider, request>>

\* The caller cancels the task.
Cancel ==
  /\ pc \in {"retrieving", "reasoning"}
  /\ Raise("CancelledError")
  /\ UNCHANGED <<has_provider, request>>

Next ==
  \/ Research
  \/ \E reply \in Replies, output \in Outputs : ContextReturns(reply, output)
  \/ \E draft \in Drafts : ModelReturns(draft)
  \/ ModelRaises
  \/ Cancel

Spec == Init /\ [][Next]_vars
-----------------------------------------------------------------------------
(* Properties *)

Exceptions ==
  {"ContractValidationError", "ResearchOutputInvalid", "ToolContractError",
   "BackendToolClientError", "ContextRetrievalError", "ValidationError", "ModelGatewayError",
   "ProviderError", "CancelledError"}

ResearchResults ==
  [status : {"NEEDS_REVIEW"}, correlation_id : CorrelationIds,
   findings : SUBSET SUBSET EvidenceRefs, recommendations : SUBSET SUBSET EvidenceRefs,
   evidence_bundle : SUBSET EvidenceRefs]

\* The type invariant: the model is asked with a positive number of tokens and about a bundle,
\* once, and the call has an outcome exactly when it has ended.
TypeOK ==
  /\ has_provider \in BOOLEAN /\ request \in Requests
  /\ pc \in {"received", "retrieving", "reasoning", "ended"}
  /\ sent \in Seq({SearchContext})
  /\ asked \in Seq([bundle : ContextBundles, max_tokens : Nat \ {0}])
  /\ Len(asked) <= 1 /\ (pc = "reasoning" => Len(asked) = 1)
  /\ outcome \in ResearchResults \cup {Raised(e) : e \in Exceptions} \cup {Pending}
  /\ (pc = "ended") <=> (outcome # Pending)

\* "ResearchEngine yang hanya menggunakan ContextBundle": wherever the bundle came from, what the
\* model reads belongs to the identity and the correlation of the execution context and holds
\* evidence, the classification is one the policy admits, and the tokens asked for are within
\* the engine's bound and the caller's (service.py 100-151, backend.py 59-80).
ModelReadsOwnContext ==
  \A k \in DOMAIN asked :
    LET bundle == asked[k].bundle IN
    /\ bundle.identity = Context.identity
    /\ bundle.correlation_id = Context.correlation_id
    /\ bundle.evidence_refs # <<>>
    /\ Rank[Context.data_classification] <= Rank[MaximumDataClassification]
    /\ asked[k].max_tokens <= 2000
    /\ Context.execution_budget # NoBudget =>
         Within(asked[k].max_tokens, Context.execution_budget["max_tokens"])

\* "memvalidasi evidence citation": every finding of a result cites something, all that findings
\* and recommendations cite is in the result's evidence bundle, one reference to an id, and
\* that bundle is of the context the model has read and leaves out none of its ids
\* (service.py 115-117, 152-192, 199-208).
EvidenceBound ==
  outcome \in ResearchResults =>
    /\ Len(asked) = 1
    /\ {} \notin outcome.findings
    /\ UNION (outcome.findings \cup outcome.recommendations) \subseteq outcome.evidence_bundle
    /\ \A e \in outcome.evidence_bundle : \E k \in DOMAIN asked[1].bundle.evidence_refs :
         e = asked[1].bundle.evidence_refs[k]
    /\ \A e, f \in outcome.evidence_bundle : e.evidence_id = f.evidence_id => e = f
    /\ EvidenceIdsOf(asked[1].bundle) = {e.evidence_id : e \in outcome.evidence_bundle}
-----------------------------------------------------------------------------
(* The abstract specification this module implements *)

Mandate(r, provider) ==
  [tools |-> IF r.context_bundle = NoBundle /\ provider THEN {SearchContext} ELSE {},
   calls |-> 1, steps |-> 2, consult |-> TRUE]

Mandates == {Mandate(r, p) : r \in Requests, p \in BOOLEAN}

Verdict(o) ==
  IF o = Pending THEN [status |-> "RUNNING", reported |-> 0]
  ELSE IF o \in ResearchResults THEN [status |-> "COMPLETED", reported |-> Len(sent)]
  ELSE [status |-> "RAISED", reported |-> 0]

Governed ==
  INSTANCE GovernedRun WITH
    Attempts <- {"research"},
    Tools <- {SearchContext},
    Mandates <- Mandates,
    mandate <- [a \in {"research"} |-> Mandate(request, has_provider)],
    issued <- [a \in {"research"} |-> sent],
    answered <- [a \in {"research"} |-> IF asked = <<>> THEN 0 ELSE Len(sent)],
    consulted <- [a \in {"research"} |-> asked # <<>>],
    verdict <- [a \in {"research"} |-> Verdict(outcome)]

\* Research is a governed run, like that of an agent: only the one search a request without a
\* bundle needs is sent, once; the model is asked at most once and only after the answer; a
\* result needs both (service.py 96-192).
ImplementsGovernedRun == Governed!Spec
=============================================================================
