----------------------------- MODULE AgentRuntime -----------------------------
(***************************************************************************)
(* AgentRuntimeEngine.run: attempts to execute one bounded Agent run, each *)
(* a coroutine that awaits the planner, the Backend tool boundary and the  *)
(* model provider, next to the Backend that executes the tool calls it     *)
(* receives.                                                               *)
(*                                                                         *)
(* The code between two awaits is one action.  An attempt is suspended in  *)
(* "planning" (await planner.plan), "calling" (await tool_client.execute)  *)
(* or "completing" (await model_gateway.complete); only there can the run  *)
(* timeout or the caller's cancellation reach it.  A reply that has        *)
(* arrived is not yet a reply the coroutine has seen: reply[a] holds it    *)
(* until ToolReturns, and the timeout may come first.                      *)
(*                                                                         *)
(* A JSON schema is the set of payloads it accepts.  The canonical         *)
(* contracts live in another repository: whether they accept a ToolRequest *)
(* or an AgentRunResult is a free choice.                                  *)
(***************************************************************************)
EXTENDS ModelGateway, BackendToolClient, Sequences

CONSTANTS
  Attempts,       \* calls of run(); several may carry the same run_id
  Tools,          \* tool ids a plan may name
  Plans,          \* the tool_calls a planner may return, as sequences of tool ids
  Invocations,    \* [definition, request, authorization] a caller may pass to run()
  ModelResponses, \* [is_json, output, cost, output_tokens] a provider may return
  NoBudget        \* the execution_budget of a context that carries none

ASSUME PlansAssumption == Plans \subseteq Seq(Tools)
ASSUME InvocationsAssumption ==
  \A i \in Invocations :
    /\ i.request.execution_budget \in Budgets \cup {NoBudget}
    /\ i.request.correlation_id \in CorrelationIds
ASSUME ModelResponsesAssumption == \A r \in ModelResponses : r.output_tokens \in Nat
ASSUME NoBudgetAssumption == NoBudget \notin Budgets

VARIABLES
  pc,            \* where each attempt is suspended
  invocation,    \* the arguments of the call
  plan,          \* the tool_calls of the planner's ExecutionPlan
  tool_results,  \* the ToolResult documents recorded so far
  reply,         \* the ending of the tool call in flight, once it has arrived
  sent,          \* the tool ids POSTed to the Backend, in order
  asked,         \* how often the provider was called
  outcome,       \* what run() returned or raised
  inbox,         \* calls <<attempt, index>> the Backend has not handled
  executed       \* calls <<attempt, index>> the Backend has executed

attemptVars == <<pc, plan, tool_results, reply, sent, asked, outcome>>
vars == <<pc, invocation, plan, tool_results, reply, sent, asked, outcome, inbox, executed>>

Suspended == {"planning", "calling", "completing"}
-----------------------------------------------------------------------------
(* Requests, budgets and results *)

Request(a) == invocation[a].request
Budget(a) == Request(a).execution_budget

Failure(code, retryable, output_state) ==
  [code |-> code, retryable |-> retryable, output_state |-> output_state]

Blocked(code) == Failure(code, FALSE, "BLOCKED")

\* As if the catch-all clause reported a state of its own.
UnexpectedUnnamedState == Failure("RUNTIME_EXECUTION_FAILED", FALSE, "FAILED")

\* As if a call whose ending is unknown could be made again.
UnexpectedRetryable == Failure("RUNTIME_EXECUTION_FAILED", TRUE, "NEEDS_REVIEW")

\* The three except clauses of run().
Timeout == Failure("RUNTIME_TIMEOUT", TRUE, "BLOCKED")
Unexpected == Failure("RUNTIME_EXECUTION_FAILED", FALSE, "NEEDS_REVIEW")
Caught(exception) == IF exception = "TimeoutError" THEN Timeout ELSE Unexpected

FailureResult(a, failure, results) ==
  [status |-> "FAILED", output_state |-> failure.output_state, code |-> failure.code,
   retryable |-> failure.retryable, tool_results |-> results,
   correlation_id |-> Request(a).correlation_id]

SuccessResult(a, response) ==
  [status |-> "COMPLETED", output_state |-> "AI_INFERRED", tool_results |-> tool_results[a],
   correlation_id |-> Request(a).correlation_id, output_tokens |-> response.output_tokens]

Pending == [status |-> "PENDING"]

\* run() ended in an exception instead of a result.
Raised(exception) == [status |-> exception]

\* The checks are made in order: the code is that of the first that denies.
AuthorizationDenial(i) ==
  IF i.authorization.run_id # i.request.run_id THEN "RUN_AUTHORIZATION_MISMATCH"
  ELSE IF i.authorization.lifecycle_state \notin {"ACTIVE", "TEST_AUTHORIZED"}
    THEN "AGENT_LIFECYCLE_DENIED"
  ELSE IF i.definition.agent # i.request.agent THEN "AGENT_VERSION_MISMATCH"
  ELSE IF i.request.capability_id \notin i.definition.capability_ids THEN "CAPABILITY_MISMATCH"
  ELSE IF i.request.execution_budget = NoBudget THEN "BUDGET_REQUIRED"
  ELSE "GRANTED"

\* As if the model call were not counted as a step.
PlanDenialModelIsFree(p, budget) ==
  IF ~ Within(Len(p), budget["max_steps"]) THEN "BUDGET_STEPS_EXCEEDED"
  ELSE IF ~ Within(Len(p), budget["max_tool_calls"]) THEN "BUDGET_TOOL_CALLS_EXCEEDED"
  ELSE "GRANTED"

\* As if max_tool_calls were not looked at.
PlanDenialStepsOnly(p, budget) ==
  IF ~ Within(Len(p) + 1, budget["max_steps"]) THEN "BUDGET_STEPS_EXCEEDED" ELSE "GRANTED"

PlanDenial(p, budget) ==
  IF ~ Within(Len(p) + 1, budget["max_steps"]) THEN "BUDGET_STEPS_EXCEEDED"
  ELSE IF ~ Within(Len(p), budget["max_tool_calls"]) THEN "BUDGET_TOOL_CALLS_EXCEEDED"
  ELSE "GRANTED"

\* As if the Backend's snapshot were left to the Backend.
ToolDenialWithoutSnapshot(i, t) ==
  IF t \notin i.request.requested_tool_ids THEN "TOOL_NOT_REQUESTED"
  ELSE IF t \notin i.definition.allowed_tool_ids THEN "TOOL_NOT_DEFINED"
  ELSE "GRANTED"

ToolDenial(i, t) ==
  IF t \notin i.request.requested_tool_ids THEN "TOOL_NOT_REQUESTED"
  ELSE IF t \notin i.definition.allowed_tool_ids THEN "TOOL_NOT_DEFINED"
  ELSE IF t \notin i.authorization.allowed_tool_ids THEN "TOOL_NOT_AUTHORIZED"
  ELSE "GRANTED"

ModelRequest(a) ==
  [policy_ref |-> invocation[a].definition.model_policy_ref,
   data_classification |-> Request(a).data_classification,
   requested_max_tokens |-> Budget(a)["max_tokens"],
   budget |-> Budget(a)]

CostExceeded(budget, response) ==
  /\ budget["max_cost"] # NoLimit
  /\ response.cost # NoLimit
  /\ response.cost > budget["max_cost"]

-----------------------------------------------------------------------------
(* The end of an attempt *)

\* As if the result were returned while the coroutine runs on.
EndWithoutStopping(a, result) ==
  /\ outcome' = [outcome EXCEPT ![a] = result]
  /\ UNCHANGED <<pc, sent, asked, inbox>>

End(a, result) ==
  /\ pc' = [pc EXCEPT ![a] = "done"]
  /\ outcome' = [outcome EXCEPT ![a] = result]
  /\ UNCHANGED <<sent, asked, inbox>>

\* As if tool_results were local to _execute.
FailForgettingResults(a, failure, results) == End(a, FailureResult(a, failure, <<>>))

\* run() builds the failed AgentRunResult outside its try block: a result that
\* the contract refuses leaves run() as ContractValidationError.
Fail(a, failure, results) ==
  \/ End(a, FailureResult(a, failure, results))
  \/ End(a, Raised("ContractValidationError"))
-----------------------------------------------------------------------------
(* From one await to the next *)

\* _tool_request and BackendToolClient.execute up to the POST.
CallTool(a, t, results) ==
  \/ /\ ToolDenial(invocation[a], t) # "GRANTED"
     /\ Fail(a, Blocked(ToolDenial(invocation[a], t)), results)
  \/ /\ ToolDenial(invocation[a], t) = "GRANTED"
     /\ Fail(a, Unexpected, results)      \* ToolRequest contract: ToolContractError
  \/ /\ ToolDenial(invocation[a], t) = "GRANTED"
     /\ pc' = [pc EXCEPT ![a] = "calling"]
     /\ sent' = [sent EXCEPT ![a] = Append(@, t)]
     /\ inbox' = inbox \cup {<<a, Len(sent[a]) + 1>>}
     /\ UNCHANGED <<asked, outcome>>

\* All tools have answered: the model request, up to the await of the provider.
AskModel(a, results) ==
  \/ /\ Budget(a)["max_tokens"] = NoLimit
     /\ Fail(a, Blocked("BUDGET_REQUIRED"), results)
  \/ /\ Budget(a)["max_tokens"] # NoLimit
     /\ ~ AdmitsModelRequest(ModelRequest(a))
     /\ Fail(a, Unexpected, results)
  \/ /\ Budget(a)["max_tokens"] # NoLimit
     /\ AdmitsModelRequest(ModelRequest(a))
     /\ pc' = [pc EXCEPT ![a] = "completing"]
     /\ asked' = [asked EXCEPT ![a] = @ + 1]
     /\ UNCHANGED <<sent, outcome, inbox>>

\* As if the loop stopped one intent short.
ContinueOneShort(a, p, results) ==
  IF Len(results) + 1 < Len(p)
  THEN CallTool(a, p[Len(results) + 1], results)
  ELSE AskModel(a, results)

\* The loop over plan.tool_calls, resumed with these results recorded.
Continue(a, p, results) ==
  IF Len(results) < Len(p)
  THEN CallTool(a, p[Len(results) + 1], results)
  ELSE AskModel(a, results)
-----------------------------------------------------------------------------
(* Actions of an attempt *)

Init ==
  /\ pc = [a \in Attempts |-> "idle"]
  /\ invocation \in [Attempts -> Invocations]
  /\ plan = [a \in Attempts |-> <<>>]
  /\ tool_results = [a \in Attempts |-> <<>>]
  /\ reply = [a \in Attempts |-> NoReply]
  /\ sent = [a \in Attempts |-> <<>>]
  /\ asked = [a \in Attempts |-> 0]
  /\ outcome = [a \in Attempts |-> Pending]
  /\ inbox = {}
  /\ executed = {}

\* run() up to the await of the planner.
Run(a) ==
  /\ pc[a] = "idle"
  /\ \/ /\ ~ Request(a).canonical
        /\ End(a, Raised("RuntimeRequestRejected"))
     \/ /\ Request(a).canonical
        /\ LET denial == AuthorizationDenial(invocation[a]) IN
           \/ /\ denial # "GRANTED"
              /\ Fail(a, Blocked(denial), <<>>)
           \/ /\ denial = "GRANTED"
              /\ ~ ValidBudget(Budget(a))
              /\ Fail(a, Unexpected, <<>>)
           \/ /\ denial = "GRANTED"
              /\ ValidBudget(Budget(a))
              /\ Request(a).input \notin invocation[a].definition.input_schema
              /\ Fail(a, Blocked("INPUT_SCHEMA_INVALID"), <<>>)
           \/ /\ denial = "GRANTED"
              /\ ValidBudget(Budget(a))
              /\ Request(a).input \in invocation[a].definition.input_schema
              /\ pc' = [pc EXCEPT ![a] = "planning"]
              /\ UNCHANGED <<sent, asked, outcome, inbox>>
  /\ UNCHANGED <<invocation, plan, tool_results, reply, executed>>

PlanReturns(a, p) ==
  /\ pc[a] = "planning"
  /\ LET denial == PlanDenial(p, Budget(a)) IN
     \/ /\ denial # "GRANTED"
        /\ Fail(a, Blocked(denial), <<>>)
        /\ UNCHANGED plan
     \/ /\ denial = "GRANTED"
        /\ plan' = [plan EXCEPT ![a] = p]
        /\ Continue(a, p, <<>>)
  /\ UNCHANGED <<invocation, tool_results, reply, executed>>

PlanRaises(a, exception) ==
  /\ pc[a] = "planning"
  /\ Fail(a, Caught(exception), <<>>)
  /\ UNCHANGED <<invocation, plan, tool_results, reply, executed>>

\* httpx gives up on the call; the Backend may have received it or not.
HttpEnds(a, breakdown) ==
  /\ pc[a] = "calling"
  /\ reply[a] = NoReply
  /\ reply' = [reply EXCEPT ![a] = breakdown]
  /\ UNCHANGED <<pc, invocation, plan, tool_results, sent, asked, outcome, inbox, executed>>

\* tool_client.execute resumes with the ending of the call: the document is
\* recorded before its status is looked at.
ToolReturns(a) ==
  /\ pc[a] = "calling"
  /\ reply[a] # NoReply
  /\ reply' = [reply EXCEPT ![a] = NoReply]
  /\ \/ /\ ~ Returns(reply[a], Request(a).correlation_id)
        /\ Fail(a, Unexpected, tool_results[a])
        /\ UNCHANGED tool_results
     \/ /\ Returns(reply[a], Request(a).correlation_id)
        /\ LET results == Append(tool_results[a], reply[a]) IN
           /\ tool_results' = [tool_results EXCEPT ![a] = results]
           /\ \/ /\ ~ Successful(reply[a])
                 /\ Fail(a, Failure(reply[a].error.code, reply[a].error.retryable, "BLOCKED"),
                         results)
              \/ /\ Successful(reply[a])
                 /\ Continue(a, plan[a], results)
  /\ UNCHANGED <<invocation, plan, executed>>

ModelReturns(a, response) ==
  /\ pc[a] = "completing"
  /\ \/ /\ CostExceeded(Budget(a), response)
        /\ Fail(a, Blocked("BUDGET_COST_EXCEEDED"), tool_results[a])
     \/ /\ ~ CostExceeded(Budget(a), response)
        /\ ~ response.is_json
        /\ Fail(a, Failure("MODEL_OUTPUT_INVALID_JSON", FALSE, "NEEDS_REVIEW"), tool_results[a])
     \/ /\ ~ CostExceeded(Budget(a), response)
        /\ response.is_json
        /\ response.output \notin invocation[a].definition.output_schema
        /\ Fail(a, Blocked("OUTPUT_SCHEMA_INVALID"), tool_results[a])
     \/ /\ ~ CostExceeded(Budget(a), response)
        /\ response.is_json
        /\ response.output \in invocation[a].definition.output_schema
        /\ \/ End(a, SuccessResult(a, response))
           \/ Fail(a, Unexpected, tool_results[a])   \* AgentRunResult contract
  /\ UNCHANGED <<invocation, plan, tool_results, reply, executed>>

ModelRaises(a, exception) ==
  /\ pc[a] = "completing"
  /\ Fail(a, Caught(exception), tool_results[a])
  /\ UNCHANGED <<invocation, plan, tool_results, reply, executed>>

\* As if only the tool calls were inside asyncio.timeout.
RunTimeoutOfCalls(a) ==
  /\ pc[a] = "calling"
  /\ Budget(a)["timeout_seconds"] # NoLimit
  /\ Fail(a, Timeout, tool_results[a])
  /\ UNCHANGED <<invocation, plan, tool_results, reply, executed>>

\* asyncio.timeout cancels the coroutine where it is suspended, also when what
\* it waits for has already arrived.
RunTimeout(a) ==
  /\ pc[a] \in Suspended
  /\ Budget(a)["timeout_seconds"] # NoLimit
  /\ Fail(a, Timeout, tool_results[a])
  /\ UNCHANGED <<invocation, plan, tool_results, reply, executed>>

\* The caller cancels the task: CancelledError passes all except clauses.
Cancel(a) ==
  /\ pc[a] \in Suspended
  /\ End(a, Raised("CancelledError"))
  /\ UNCHANGED <<invocation, plan, tool_results, reply, executed>>
-----------------------------------------------------------------------------
(* The ALOS Backend, which is not in this repository *)

\* It handles a call it received, however late, and answers.  It may execute
\* the tool and still answer with an error; it reports success only when it did.
BackendAnswers(a, k, answer, effect) ==
  /\ <<a, k>> \in inbox
  /\ answer.kind = "document" /\ Successful(answer) => effect
  /\ inbox' = inbox \ {<<a, k>>}
  /\ executed' = IF effect THEN executed \cup {<<a, k>>} ELSE executed
  /\ reply' = IF pc[a] = "calling" /\ k = Len(sent[a]) /\ reply[a] = NoReply
              THEN [reply EXCEPT ![a] = answer]
              ELSE reply
  /\ UNCHANGED <<pc, invocation, plan, tool_results, sent, asked, outcome>>

\* The call is lost on its way.
BackendMisses(a, k) ==
  /\ <<a, k>> \in inbox
  /\ inbox' = inbox \ {<<a, k>>}
  /\ UNCHANGED <<attemptVars, invocation, executed>>

Exceptions == {"TimeoutError", "Exception"}
ClientBreakdowns == {b \in Breakdowns : b.kind \in {"timeout", "unavailable"}}
BackendAnswerSet == Replies \ ClientBreakdowns

Attempt(a) ==
  \/ Run(a)
  \/ \E p \in Plans : PlanReturns(a, p)
  \/ \E e \in Exceptions : PlanRaises(a, e) \/ ModelRaises(a, e)
  \/ \E b \in ClientBreakdowns : HttpEnds(a, b)
  \/ ToolReturns(a)
  \/ \E r \in ModelResponses : ModelReturns(a, r)
  \/ RunTimeout(a)
  \/ Cancel(a)

Backend(a) ==
  \E k \in DOMAIN sent[a] :
    \/ BackendMisses(a, k)
    \/ \E answer \in BackendAnswerSet, effect \in BOOLEAN : BackendAnswers(a, k, answer, effect)

Next == \E a \in Attempts : Attempt(a) \/ Backend(a)

\* The event loop runs the timer of asyncio.timeout.  Nothing is assumed of the
\* planner, the Backend, the provider or the caller.
Fairness == \A a \in Attempts : WF_vars(RunTimeout(a))

Spec == Init /\ [][Next]_vars
FairSpec == Spec /\ Fairness
-----------------------------------------------------------------------------
(* Properties *)

CallIds == Attempts \X Nat

Codes ==
  {"RUN_AUTHORIZATION_MISMATCH", "AGENT_LIFECYCLE_DENIED", "AGENT_VERSION_MISMATCH",
   "CAPABILITY_MISMATCH", "BUDGET_REQUIRED", "INPUT_SCHEMA_INVALID", "BUDGET_STEPS_EXCEEDED",
   "BUDGET_TOOL_CALLS_EXCEEDED", "TOOL_NOT_REQUESTED", "TOOL_NOT_DEFINED",
   "TOOL_NOT_AUTHORIZED", "TOOL_EXECUTION_BLOCKED", "BUDGET_COST_EXCEEDED",
   "MODEL_OUTPUT_INVALID_JSON", "OUTPUT_SCHEMA_INVALID", "RUNTIME_TIMEOUT",
   "RUNTIME_EXECUTION_FAILED"} \cup ToolErrorCodes

Failures ==
  [status : {"FAILED"}, output_state : {"BLOCKED", "NEEDS_REVIEW"}, code : Codes,
   retryable : BOOLEAN, tool_results : Seq(Documents), correlation_id : CorrelationIds]

Successes ==
  [status : {"COMPLETED"}, output_state : {"AI_INFERRED"}, tool_results : Seq(Documents),
   correlation_id : CorrelationIds, output_tokens : Nat]

Results == Failures \cup Successes

Exits == {Raised("RuntimeRequestRejected"), Raised("ContractValidationError"),
          Raised("CancelledError")}

\* The type invariant: every variable has its shape.
TypeOK ==
  /\ pc \in [Attempts -> Suspended \cup {"idle", "done"}]
  /\ invocation \in [Attempts -> Invocations]
  /\ plan \in [Attempts -> Plans \cup {<<>>}]
  /\ tool_results \in [Attempts -> Seq(Documents)]
  /\ reply \in [Attempts -> Replies \cup {NoReply}]
  /\ sent \in [Attempts -> Seq(Tools)]
  /\ asked \in [Attempts -> Nat]
  /\ outcome \in [Attempts -> Results \cup Exits \cup {Pending}]
  /\ inbox \subseteq CallIds
  /\ executed \subseteq CallIds

Accepted(i) ==
  /\ i.request.canonical
  /\ AuthorizationDenial(i) = "GRANTED"
  /\ ValidBudget(i.request.execution_budget)

\* "Tool harus lolos tiga batas sebelum dikirim": a tool is sent to the Backend only if the
\* request asked for it, the definition allows it and the Backend's snapshot allows it, and
\* only for a request whose run, agent and capability were checked (engine.py 125-145, 199-230).
AuthorizedAttempt(a) ==
  \A k \in DOMAIN sent[a] :
    /\ Accepted(invocation[a])
    /\ sent[a][k] \in Request(a).requested_tool_ids
    /\ sent[a][k] \in invocation[a].definition.allowed_tool_ids
    /\ sent[a][k] \in invocation[a].authorization.allowed_tool_ids

Authorized == \A a \in Attempts : AuthorizedAttempt(a)

\* Whatever the planner plans, the calls that leave the process stay within max_tool_calls
\* and, with the model call, within max_steps; the provider is called at most once, and only
\* by a request whose policy, classification, token budget and route the gateway admits
\* (engine.py 166-180, 232-240; model_gateway/service.py 17-21).
BudgetKeptBy(a) ==
  /\ asked[a] <= 1
  /\ sent[a] # <<>> => /\ Within(Len(sent[a]), Budget(a)["max_tool_calls"])
                       /\ Within(Len(sent[a]) + 1, Budget(a)["max_steps"])
  /\ asked[a] = 1 => /\ Budget(a)["max_tokens"] # NoLimit
                     /\ AdmitsModelRequest(ModelRequest(a))

BudgetKept == \A a \in Attempts : BudgetKeptBy(a)

\* The model reasons only over a finished plan: once it has been asked, every tool of the plan
\* was executed by the Backend, in the plan's order, and its success is recorded; so a
\* COMPLETED result rests on all of them (engine.py 125-164, 280-313).
ModelSeesCompletedPlan ==
  \A a \in Attempts : asked[a] > 0 =>
    /\ sent[a] = plan[a]
    /\ Len(tool_results[a]) = Len(plan[a])
    /\ \A k \in DOMAIN plan[a] : <<a, k>> \in executed /\ Successful(tool_results[a][k])

\* A result tells all but at most one of the Backend's effects: when an attempt ends, by
\* whatever path and however late the Backend still executes a call, only the call whose await
\* the end interrupted can have an effect the AgentRunResult does not report; a COMPLETED
\* result reports all, and a success it reports did happen (engine.py 63, 87-102, 146).
EffectsReported ==
  \A a \in Attempts : outcome[a] \in Results =>
    LET reported == outcome[a].tool_results
        effects == {k \in DOMAIN sent[a] : <<a, k>> \in executed}
    IN /\ effects \ DOMAIN reported \subseteq {Len(sent[a])}
       /\ outcome[a].status = "COMPLETED" => effects = DOMAIN reported
       /\ \A k \in DOMAIN reported : Successful(reported[k]) => k \in effects

\* What a result leaves out, it admits: if a call that a FAILED result does not report has had
\* an effect, or may still have one, the result says that time ran out, or that something
\* unexpected happened that wants a review and is not to be repeated.  A refusal, also one that
\* is found only when all tools have run (no max_tokens, cost, output), hides nothing
\* (engine.py 87-102, 146-153, 166-186).
HiddenEffectsAdmitted ==
  \A a \in Attempts : outcome[a] \in Failures =>
    \/ {k \in DOMAIN sent[a] : <<a, k>> \in executed \cup inbox}
         \subseteq DOMAIN outcome[a].tool_results
    \/ outcome[a].code = "RUNTIME_TIMEOUT"
    \/ /\ outcome[a].code = "RUNTIME_EXECUTION_FAILED" /\ ~ outcome[a].retryable
       /\ outcome[a].output_state = "NEEDS_REVIEW"

\* No result of a run with another correlation id is ever recorded for this one or shown to
\* its model (tool_client.py 116-123, engine.py 123, 142-146).
CorrelationKept ==
  \A a \in Attempts : \A k \in DOMAIN tool_results[a] :
    tool_results[a][k].correlation_id = Request(a).correlation_id

\* An attempt that has ended stays ended: an answer, a timeout or a cancellation that comes
\* late changes neither its result nor what it sends (engine.py 77-102).
LeavesEndedAlone ==
  \A a \in Attempts : outcome[a] # Pending =>
    /\ outcome'[a] = outcome[a]
    /\ tool_results'[a] = tool_results[a]
    /\ sent'[a] = sent[a]
    /\ asked'[a] = asked[a]

EndIsFinal == [][LeavesEndedAlone]_vars

\* An attempt whose budget has a timeout ends, even if the planner, the Backend and the
\* provider never answer (engine.py 66-77).
TimedAttemptEnds ==
  \A a \in Attempts :
    (pc[a] \in Suspended /\ Budget(a)["timeout_seconds"] # NoLimit) ~> pc[a] = "done"

\* What the runtime says when it blames the authorized timeout: engine.py 90, "Agent runtime
\* exceeded the authorized execution timeout."
TimeoutWasAuthorized ==
  \A a \in Attempts :
    outcome[a] \in Failures /\ outcome[a].code = "RUNTIME_TIMEOUT" =>
      Budget(a)["timeout_seconds"] # NoLimit

\* docs/MVP1_RUNTIME_SPLIT.md 39 says of the runtime: "Budget token, cost, steps, tool calls,
\* dan timeout dipertahankan secara deterministic."  Of the tokens: a COMPLETED result reports
\* no more output tokens than max_tokens.
TokenBudgetKept ==
  \A a \in Attempts :
    outcome[a] \in Successes => Within(outcome[a].output_tokens, Budget(a)["max_tokens"])

-----------------------------------------------------------------------------
(* The abstract specification this module implements *)

Mandate(i) ==
  [tools |-> i.request.requested_tool_ids \cap i.definition.allowed_tool_ids
               \cap i.authorization.allowed_tool_ids,
   calls |-> IF Accepted(i) THEN i.request.execution_budget["max_tool_calls"] ELSE 0,
   steps |-> IF Accepted(i) THEN i.request.execution_budget["max_steps"] ELSE 0,
   consult |-> Accepted(i) /\ i.request.execution_budget["max_tokens"] # NoLimit]

Verdict(o) ==
  IF o = Pending THEN [status |-> "RUNNING", reported |-> 0]
  ELSE IF o \in Exits THEN [status |-> "RAISED", reported |-> 0]
  ELSE [status |-> o.status, reported |-> Len(o.tool_results)]

Governed ==
  INSTANCE GovernedRun WITH
    Mandates <- {Mandate(i) : i \in Invocations},
    mandate <- [a \in Attempts |-> Mandate(invocation[a])],
    issued <- sent,
    answered <- [a \in Attempts |-> Len(tool_results[a])],
    consulted <- [a \in Attempts |-> asked[a] > 0],
    verdict <- [a \in Attempts |-> Verdict(outcome[a])]

\* The engine implements GovernedRun.
ImplementsGovernedRun == Governed!Spec
=============================================================================
