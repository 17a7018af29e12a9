# GENESIS in TLA+

A TLA+ model of the parts of GENESIS (the governed AI control plane of ALOS) whose behaviour is
hard to test: the agent runtime and its Backend calls, delegation, context assembly, skill
loading, evidence-bound research, document analysis and the internal HTTP boundary. Every
definition is translated from the Python source; `PROJECT.json` gives the lines of each one
(`map`), the runs, the mutants that show that every property can fail, the hazards and the
theorems. Paths below are relative to `src/src/genesis` unless they start with `docs/` or
`README.md` (of the repository).

Run TLC with `tlc -config X.cfg M` and the proofs with `tlapm M.tla`, both in this directory.

## 1. Inventory of the system

GENESIS is one asyncio process. It decides nothing on its own authority: the Backend supplies
scopes, permissions, tools and budgets, executes business tools and owns the registries.
GENESIS plans, calls tools through the Backend, asks a model through a gateway, and returns
results, drafts and decisions.

| Component | State | Operations | Talks to | Hard to get right |
|---|---|---|---|---|
| Agent runtime engine `runtime/agentic/engine.py` | the local variables of `run()`: plan, tool results, budget used; nothing between calls | `run` | planner, tool client, model gateway | timeout against a late answer, partial plans, effects without a record, exceptions of callees |
| Backend tool client `runtime/execution/tool_client.py` | none | `execute` | Backend over HTTP | timeouts, foreign correlation, invalid documents, errors of every status |
| Execution limits `runtime/limits`, `runtime/budget` | none | `contains`, guards | runtime, delegation, gateway | limits left open, off-by-one, transitivity |
| Model gateway `model_gateway/*` | policy and route tables | `complete` | provider | which requests reach a provider at all |
| Delegation guard `orchestration/delegation` | none; it sees snapshots of the parent | `validate` | the orchestrator that starts children (not in the repository) | stale snapshots, self-reported ancestry, chains of legal grants |
| Context manager `runtime/context` | none | `build` | context boundary from the Backend | five levels of scope, greedy selection to the last character |
| Skill runtime `skills/*` but the evaluator | the package directory, which deployments change | `discover`, `select`, `load`, `prepare` | file system | files that change between two reads, one of several packages failing |
| Research engine `research/engine/service.py`, `memory/retrieval/backend.py` | none between calls | `research`, `retrieve` | tool client, model gateway | foreign evidence, invented citations, ambiguous evidence ids |
| Research decision `research/decision.py` | none | `decide` | research endpoint | order of the channels, five conditions on external retrieval |
| Capability resolver and factory `capabilities/resolver`, `control_plane/factory` | none | `understand`, `resolve`, `analyze` | factory endpoint | word lists that overlap and contain each other, several catalog entries of one capability, what a draft may propose |
| Internal API `api/*`, `main.py`, `observability/correlation.py` | a `ContextVar` with the correlation id | the `/internal/v1` endpoints | all of the above | concurrent calls that share the process, order of token, body and payload checks |
| Skill evaluator `skills/evaluator` | none | `evaluate_applicability`, `evaluate_result` | outcomes of skill selection, results of research | a check that passes because nothing was compared, an excuse that covers too much |
| Document intelligence `research/engine/document_intelligence.py` | none between calls | `analyze` | model gateway | citations before, after and across the ends of a document |
| Document comparison `research/engine/comparison.py` | none | `compare` | - | duplicate ids, hashes and keys in any order |
| Evidence ranking `runtime/context/manager.py`, `memory/ranking` | none | `_canonical_bundle`, `rank` | readers of a context | items and references cut by different rules |
| Taxonomies, contract catalog, adapters, review and evaluation models | constants | - | - | - |

What makes each correct:

* *Runtime*: a tool is sent only if request, definition and Backend snapshot all allow it;
  limits hold whatever the planner plans; the model is asked once and only after a finished plan;
  a result reports all that was recorded and, but for the one call in flight, all that happened.
* *Delegation*: no run exceeds, in authority or in any limit, any run above it; depth and lineage
  are real; no agent works below itself.
* *Context*: nothing beyond the Backend's boundary or the task's scope enters; what is required
  enters; a less important segment never displaces a more important one; evidence stays traceable
  into the bundle and through its ranking.
* *Skills*: only a skill that Backend and agent both name at its exact version is loaded; every
  skill considered is answered for exactly once; a ready context is complete; an outcome passes
  its evaluation only if it was granted; the call ends.
* *Research*: the model reads evidence of its own identity and correlation only, and a result
  cites nothing else; an analysis cites lines of its document and no others; a comparison finds
  what a look at every pair of documents would.
* *Boundary*: an answer carries its own call's correlation id; without a token nobody learns more
  of a payload than whether it can be read and parsed; drafts and decisions rest on the catalog, the evidence and the
  Backend's grants; more words in a statement never make its treatment less careful, and an agent that
  is asked for comes with its governance.

## 2. Modules

An arrow points to a module that extends or instantiates the one before it.

```
ExecutionBudget    -> ModelGateway, Delegation
ModelGateway       -> AgentRuntime, ResearchEngine, DocumentIntelligence
BackendToolClient  -> AgentRuntime, ResearchEngine
GovernedRun        -> AgentRuntime, ResearchEngine, ResearchDesk   (all implement it)
AgentRuntime       -> AgentRuntimeMC
                   -> AgentRuntimeProofs -> AgentEffectsProofs
Delegation         -> DelegationMC, DelegationProofs
Ordering           -> EvidenceRanking, DocumentComparison
                   -> OrderingProofs -> ContextManagerProofs, SkillRuntimeProofs,
                                        ResearchEngineProofs
ContextManager     -> EvidenceRanking -> ContextManagerMC, ContextManagerProofs
SkillEvaluator     -> SkillRuntime, ResearchDesk
SkillRuntime       -> SkillRuntimeMC, SkillRuntimeProofs
ResearchEngine, DocumentIntelligence, DocumentComparison
                   -> ResearchDesk -> ResearchDeskMC, ResearchEngineProofs
ResearchEngine     -> ResearchEngineMC -> ResearchDeskMC
CapabilityResolver -> CapabilityFactory -> InternalBoundary;  ResearchDecision -> InternalBoundary
InternalBoundary   -> InternalBoundaryMC, InternalBoundaryProofs
```

**ExecutionBudget** - the eight nullable limits of `runtime/limits/models.py`, their validation
and `contains`. Only budgets that pydantic accepts are members of `Budgets`; what the engine
refuses later (`timeout_seconds` of zero) is a predicate.

**ModelGateway** - what `GovernedModelGateway.complete` asks before it awaits the provider:
allowed policy, classification, token budget, route. The provider itself may answer or raise
anything.

**BackendToolClient** - every ending of one tool call: a valid document of some status and
correlation, a structured error, or a breakdown (timeout, no connection, 5xx, unreadable body).

**GovernedRun** - the abstract specification: an attempt works under a mandate that never
changes, issues tools of the mandate one at a time within its limits, consults the model at most
once and only when every call has been answered, and ends once, reporting every answer it got.

**AgentRuntime** - `AgentRuntimeEngine.run` from await to await. `pc` is the await an attempt is
suspended at; `Run` is everything up to the first await (request, authorization, budget, input
schema), `PlanReturns`/`PlanRaises`, `HttpEnds` and `ToolReturns` (recording a result and going
on to the next tool, with its checks, or to the model), `ModelReturns`/`ModelRaises` (cost, JSON
and output schema). `RunTimeout` and `Cancel` strike at any await. The Backend is a process of
its own: a call that was sent may be lost, executed long after the attempt ended, and answered
with anything; it reports success only for what it executed. `sent`, `executed` and `inbox` exist
to state properties.

**Delegation** - `DelegationGuard.validate` (`Grant`) against a snapshot of the parent that may
be older than the tree, and the orchestrator that starts granted children (`Start`, external).
The history of a run (`ancestors`) is kept beside what requests claim.

**ContextManager** - `ContextManager.build`: the guards in the order of `context/safety.py`
(`ValidateContext`, `ValidateSegment` one segment at a time), then the selection of
`budgeting.py` one segment at a time (`Keep`, `Drop`).

**Ordering** - what `sorted()` returns for any order: an element's place follows from how many
come before it. Ranking, canonical bundles and comparison all sort, each by a key of its own.

**EvidenceRanking** - what becomes of the evidence of a selection: `CanonicalBundle` keeps the
selected segments that carry some, `Rank` orders its items by the terms of a query, cuts them and
filters the references.

**SkillRuntime** - `SkillRuntime.prepare` one file access at a time: list the directories, read
each manifest, select, open each `SKILL.md`, read it, read the data files. `Deploy` installs,
replaces or removes a package between any two of them. **SkillEvaluator** has the two
evaluations as records of checks; every outcome of `prepare` is put to the first of them.

**ResearchEngine** - `research()` with `BackendContextProvider.retrieve`: use a bundle from the
caller or call the Backend once, ask the model once, and turn its draft's citations into
references to the bundle.

**DocumentIntelligence** - `analyze` from await to await: one request to the gateway with a budget
of its own, and an answer that is refused unless it has the headings and cites lines of the
document. **DocumentComparison** - `compare` as the one pass with dictionaries the code makes, and
`ComparisonIsPairwise`, what a look at every pair of documents finds. Each loop over a dictionary
is a recursive function of how many entries it has gone through; the two levels of keys of
`key_values` are one level of pairs.

**ResearchDesk** - a research call and an analysis, interleaved on one gateway, with the second
evaluation of `SkillEvaluator` applied to what research returns. `DeskIsGoverned` says that each
of the two implements `GovernedRun`, whatever the other does: research under a mandate of one
tool, the analysis under a mandate of none.

**CapabilityResolver**, **CapabilityFactory**, **ResearchDecision** - `understand` and `resolve`,
`analyze`, and `decide` as operators. A statement is the set of the words of the code's tables
that occur in it; words that every table lists together are one.

**InternalBoundary** - concurrent HTTP calls. `ReceiveCall` is the correlation middleware up to
the body; it binds what is left of the header's id without the bytes that are not ASCII (`AsciiOf`),
which may be another client's id, or nothing; `Reject`, `SystemStatus` (health, readiness, information), `IntegrationDiagnostic`,
`AnalyzeFactory` and `DecideResearchSource` are what a handler does once it has the body, in
FastAPI's order (parse, token, validate, endpoint); `Break` is an exception that nobody handles,
which passes the middleware without a header; `Finish` resets the `ContextVar`.
`DecideInProcess` is `decide()` with evidence, which the endpoint never passes.

Texts, names, digests, logging and the wording of messages are left out. Contract schemas belong
to another repository: whether a document satisfies one is a free choice, or a field of the
document when the code's decision depends on it twice. Definitions whose comment begins with
"As if" are the mutated forms that `PROJECT.json` lists; nothing in the modules uses them.

## 3. Runs

| Run | Distinct states | Shows |
|---|---|---|
| `agent_runtime` | 35,131 | authorization, limits, correlation, reporting of effects and of what is left unreported, finality, that a timed attempt ends, and that `AgentRuntime` implements `GovernedRun` |
| `delegation` | 2,735 | authority, budget, depth and lineage along every chain; no agent below itself if requests tell their ancestry truthfully |
| `context_manager` | 48,626 | what enters a context, that the selection fits, what is dropped for room, and that evidence stays traceable into the bundle and through every ranking of it |
| `skill_runtime` | 297,038 | who is selected, answered for and loaded while packages change, what an evaluation says of each outcome, and that the call ends |
| `research_engine` | 35,412 | what the model reads, what a result and an analysis cite, what an evaluation of the result says, what a comparison finds, and that research and the analysis beside it each implement `GovernedRun` |
| `internal_boundary` | 276,003 | whose id an answer carries, what is answered without a token, what reuse, drafts and decisions rest on, how careful a draft is |
| `timeout_blame`, `token_budget`, `delegation_cycle`, `delegation_children`, `segment_tools`, `skill_instructions` | violated | the findings of section 5 |

Bounds, and why they suffice:

* `agent_runtime`: one attempt, since the engine keeps nothing between calls and attempts meet
  nowhere; plans of up to three calls (`MaxPlan`) of five tools against a budget of two, so that
  both limits are met and passed; sixteen invocations, one for each check of engine and gateway
  and one sound one.
* `delegation`: two roots of different tenants and three delegated runs: a chain of two under a
  `max_depth` of two with a sibling, and a request that names the other tenant's run. The three
  delegated runs are symmetric; the run checks invariants only.
* `context_manager`: a call for each guard that fails alone; all lists of up to four segments of
  five kinds (priority, size, requiredness, shared id) under four allowances, so that two fit, one
  does not and a smaller one after it does; all lists of up to four segments that carry evidence,
  two of which share an evidence id, each ranked for every query of two terms and up to three
  items.
* `skill_runtime`: three directories, eight packages with each defect the loader looks for, one
  deployment during the call (`MaximumDeploys`): each race of the code is between one deployment
  and two reads. `MaximumLoaded` is two, below and above what may be selected.
* `research_engine`: bundles of up to two references, also two of one id; budgets absent, unset,
  zero, below and above 2000 tokens; analyses of one document of two lines, which has a line
  before, at, between and after the ends of a citation; comparisons of up to three of six documents
  that share hashes, ids, keys and years, the smallest number in which a key can agree in two and
  differ from a third.
* `internal_boundary`: two calls, the smallest number that can mix up ids, four configurations,
  each kind of endpoint, token and body, headers with an ASCII id, an id that is ASCII in part (what
  is left is the other client's), an id without an ASCII byte, an empty one and none, five catalogs, eight statements: words of each
  table alone and next to words of the others. The two handlers are symmetric; the run checks
  invariants only.

`CHECK_DEADLOCK FALSE` stands in every configuration because calls end and the process then has
nothing to do. A state in which nothing may happen before a call has ended would show up as a
violation of `TimedAttemptEnds`, or as an action that never fires.

**Fairness.** `AgentRuntime`: weak fairness of `RunTimeout`, the timer of `asyncio.timeout`, which
the event loop runs once it is due. The planner, the Backend, the provider and the caller may be
silent for ever; therefore only attempts with a `timeout_seconds` are claimed to end
(`TimedAttemptEnds`). `SkillRuntime`: weak fairness of `prepare`'s own steps (`Prepare`), which
await nothing but local files; deployments are not fair and need not happen (`PrepareEnds`). No
other module has a liveness property: delegation, context assembly and the operators are single
calls without an await, and in research, analysis and the boundary an await of the Backend, the
provider or the client can last for ever.

**Mutants.** For every property of every passing run `PROJECT.json` names a definition and the
plausible bug that breaks the property: a snapshot not consulted, an off-by-one in a limit, a
correlation not compared, a binding for the whole process, a missing reset.

## 4. What is proved

TLAPS proves the following for every value of the constants that satisfies the named assumptions
of the modules: what requests, plans, budgets, packages, evidence and compared documents look like
(`PlansAssumption`, `InvocationsAssumption`, `RequestsAssumption`, `ComparedDocumentsAssumption`,
...), that values which stand for "absent" are not
ordinary ones (`NoLimitAssumption`, `AbsentAssumption`), that ids are different where the boundary
tells them apart and that decoding what has been decoded changes nothing (`IdsAssumption`), and that directories and terms are finite. TLC evaluates each
of them on the runs.

* **AgentRuntimeProofs** - `TypeCorrect`, `AuthorizedAlways`, `BudgetKeptAlways`,
  `CorrelationKeptAlways`, `EndIsFinalAlways`. The invariants are not inductive: that the next
  tool is within the limits follows only from how far the plan has been worked off. `IInv` adds,
  for each attempt, that what was sent is a prefix of the plan, that results are as many as the
  await implies, and that a request past its checks was accepted (`Orderly`). One lemma for each
  way a step can go on (`ContinueKeeps`) or fail (`FailKeeps`), and `OthersUntouched` for the
  other attempts and the Backend.
* **AgentEffectsProofs** - `ModelSeesCompletedPlanAlways`, `EffectsReportedAlways`,
  `HiddenEffectsAdmittedAlways`. What the result tells depends on the calls under way, which
  `IInv` does not speak of. `Known` adds that a call is in the inbox or executed only if it was
  sent, that a call whose answer is recorded or has arrived is no longer in the inbox and, if the
  answer reports success, is executed (`Answered`, `Underway`); that whoever asked the model has
  worked off the plan (`Completed`); and what every way to fail leaves recorded (`Told`). `RuntimeImplementsGovernedRun` is here too: only steps that send a tool call, ask
  the model or end an attempt are steps of `GovernedRun`; the rest stutters. It rests on `Known`
  for the number of answers an end reports, and on `Orderly` for the limits.
* **DelegationProofs** - `DelegationTypeCorrect`, `NothingExpandsAlways`, `DepthIsRealAlways`, and
  `NoAgentBelowItselfAlways` for requests with truthful ancestries. `IInv` says what a grant
  implies of the parent, that granted runs have different ids, and what every run satisfies along
  its whole chain; a snapshot may be stale because the fields a grant relies on never change. It
  rests on the transitivity of containment of budgets and authorities, which has lemmas of its own.
* **OrderingProofs** - lemmas on sorting any finite set by any order, which the next three modules
  cite. That every place of the sorted sequence is taken, by one element each (`InOrderSorts`), and
  that no other sequence of the same elements is sorted (`InOrderIsUnique`), would be inductions
  over the length; `LeastNumber` (a set of numbers that is not empty has a least one) and
  counting who comes before whom give them instead, and need no operator as a parameter. `BestOfRanking`: the first
  `n` of a ranking are `n`, or all.
* **ContextManagerProofs** - `TypeCorrect`, `AuthorityIsKept`, `TheSelectionFits`,
  `DroppingIsForRoom`, `EvidenceIsTraceable`. `AuthorityIsKept` bounds both levels: the execution
  context by the boundary (identity, scope, permissions, tools, roles, authority level,
  classification) and each segment by task, execution context and boundary. `IInv` keeps, beside the types, which guards the call
  has passed at its place (`Guarded`). That a selection fits is not inductive: the code adds sizes
  up in a counter, and the property is about the segments. `Measured` says that the counter is the
  sum of what is selected and that what is required fits from the start. `DroppedForRoom`
  speaks of a finished selection; `DroppedInOrder` says of one under way that whatever has been
  looked at comes before whatever has not, so that no later choice takes room from a segment that
  was dropped for want of it. `EvidenceTraceable` is about any bundle, query and cut: it rests on `InOrderSorts` for the
  selection, the ranking by scores and the references that are kept, and on `NumbersInOrder` for
  ranking what is ranked already, which changes nothing.
* **SkillRuntimeProofs** - `TypeCorrect`, `AuthorizedOnly`, `EverySkillAnsweredOnce`,
  `AllOrNothingLoaded`, `ApplicableByGrant`, `BestOnlySelected`, for any number of deployments.
  `IInv`: a skill is described once, selected only from descriptors and by both authorizations,
  loaded only from what is selected. Of an evaluation only one direction holds: what passes was
  granted. An outcome that was refused earlier passes the check of its tools without their having
  been compared. `BestOnlySelected` rests on `BestOfRanking` of OrderingProofs, which needs no induction: the last of the selected has fewer than `n` ahead
  of it, the first that is left out has at least `n`, and everybody ahead of either is selected.
* **ResearchEngineProofs** - `TypeCorrect`, `OwnContextOnly`, `ResultsAreEvidenceBound`, and
  `ResearchIsGoverned`: initial states map to initial states of `GovernedRun` and each step to a
  step or a stutter. `IInv` ties the context the model reads, the outcome and the place of the
  call together. For the desk, where research and an analysis interleave: `AnalysesAreBound` from
  where an analysis stands with the model (`AnalysisProgress`), and `EvaluationsAreEarned`, for
  which `IInv` is enough: what research cites it was supplied, and it uses one authorized tool.
  `DeskGoverned`: each of the desk's two calls implements `GovernedRun`; that the desk is a research
  call to whoever looks at research alone (`DeskRunsResearch`) is only a lemma on the way. `ComparesPairwise`: for every list of
  documents, duplicates of ids, hashes and keys included, the passes of `compare` report what a
  look at every pair does. What a dictionary holds after so many documents is shown by the least
  number of documents after which it would not (`KeyValuesPass`, `GatheredPass`); that a dictionary
  sorts a list of ids as the list of their places is sorted, by `InOrderIsUnique` (`SortedIds`).
* **InternalBoundaryProofs** - all seven invariants of the boundary, for any number of concurrent
  calls and every payload, catalog and configuration: `TypeCorrect`, `CorrelationsKept`,
  `StrangersLearnOfParsingOnly`, `ReuseOnlyOfUsable`, `ProposalsBounded`, `CareKept`,
  `DecisionsJustified`. `IInv` says of each handler what its `ContextVar` holds (`Identified`) and
  what the answer it is about to send rests on (`Earned`), and that ids made up for calls without
  one are different numbers (`Numbers`). `CareKept` is monotonicity of every table of words,
  and `AskedIsRequired`: no word that is listed after "agent" takes an agent away that was asked for.

Every invariant, action property and refinement that a passing run checks is stated by a theorem.
Only model-checked are `TimedAttemptEnds` and `PrepareEnds`: both are liveness under fairness,
which needs `ENABLED` and is out of the prover's reach. The six claims of section 5 are refuted by
TLC's counterexamples; there is nothing to prove about them.

## 5. Where code and documents disagree

1. `runtime/agentic/engine.py:87` takes every `TimeoutError` for the authorized timeout, also one
   of the planner or the provider (`timeout_blame`).
2. `docs/MVP1_RUNTIME_SPLIT.md:39` promises that the token budget is kept; output tokens are
   compared with nothing (`token_budget`).
3. `docs/ORCHESTRATION.md:17` promises cycle prevention by ancestry; the guard believes the
   ancestry in the child's own request (`delegation_cycle`).
4. `README.md:85` and `docs/ORCHESTRATION.md:16` call `max_children` a hard limit; children
   granted from one snapshot exceed it (`delegation_children`).
5. `runtime/context/models.py:146` says that a segment cannot add tools; it is compared with the
   boundary, not with the execution context (`segment_tools`).
6. `docs/SKILL_SYSTEM.md:49-50` promises the instructions of the selected package and no other
   version; `SKILL.md` is read later than the manifest (`skill_instructions`).

Further observations, without a document to measure the code by and without a property:

* `runtime/agentic/engine.py:258`: a tool call id is a digest of run id, index and tool id; a second
  attempt of a run repeats the ids of the first.
* `orchestration/delegation/guard.py:41`: each child's budget is compared with the whole budget of
  its parent; siblings together may be given more than the parent has.
* `runtime/context/budgeting.py:50`: the reasons are keyed by `segment_id`, which nothing makes
  unique; of two segments with one id only one reason survives.
* `runtime/context/manager.py:280`: `context_id` is a digest that leaves out the contents of the
  segments, the budget and the permissions; different contexts may have one id.
* `skills/loader/filesystem.py:52`: one invalid package ends discovery for every caller.
* `memory/retrieval/backend.py:60` and `runtime/agentic/engine.py:147`: a tool result with status
  `COMPLETED` is a success to the engine and a failure to the retrieval.
* `research/engine/service.py:185`: a bundle's run id and the request's own correlation id are not
  among the fields that are compared.
* `observability/correlation.py:21`: every byte of a correlation header that is not ASCII is dropped.
  The id may come back shortened, be the id of another client, or match the id of a payload that it
  did not equal; if nothing is left, each later look at it makes up another id. `AnswersOwnCall`
  states what comes of it.
* `main.py:67-90`: FastAPI parses the body before the token is looked at, and what it could not parse
  is answered, with the place of the error, to clients without a token. `OnlyAuthenticated` states
  that this is all they learn of a payload.
* `capabilities/resolver/service.py:122`: a preferred type decides alone, so that it drops the agent,
  and with it the governance, of a statement that asks for one; and a word of another type's list
  does the same to an agent that only the number of capabilities would call for.
* `research/engine/document_intelligence.py:31`: the prompt asks for a citation of every material
  finding; the code wants one citation in all, and takes the word in it for the heading "sumber".
* `capabilities/resolver/service.py:73`: of several entries of one capability, one that cannot be
  used makes the resolver ask for a new capability. `ReuseIsUsable` states that all must be usable.

## 6. What is not modelled, and why

* Texts, digests, domains, rationales and the wording of drafts, reports and prompts.
* The contract catalog: the schemas are elsewhere, so validation is a free choice.
* `control_plane/service.py`: one pure function of two conditions over a draft.
* Research taxonomy, data models and protocols: constants and types without behaviour.
* LangGraph, MCP and PydanticAI adapters: they pass calls through and keep no state.
* The Backend, the providers, the planner and the orchestrator that starts children are
  environment: they may do anything their interfaces allow.

## 7. Plan

The order followed importance; all of it is done but for the last entry.

1. `ExecutionBudget`, `ModelGateway`, `BackendToolClient`, `AgentRuntime`, `GovernedRun`: the
   governed run, its invariants and its refinement. All proved but the liveness property.
2. `Delegation`: the tree of runs. All invariants proved.
3. `ContextManager`: guards and selection; `EvidenceRanking`. All invariants proved.
4. `SkillRuntime` beside deployments, with `SkillEvaluator`. All but liveness proved.
5. `ResearchEngine`: evidence-bound research. Proved, with its refinement.
6. `InternalBoundary` with `CapabilityResolver`, `CapabilityFactory` and `ResearchDecision`. All
   invariants proved.
7. `DocumentIntelligence`, `DocumentComparison` and `ResearchDesk`: an analysis and a comparison
   beside research. Proved, with the refinement of both calls.
8. Left: what holds of `GovernedRun` itself (issued calls within the mandate, at most one
   consultation, a verdict that stays) as theorems of the abstract specification, to be inherited
   by whatever implements it.
