-------------------------- MODULE AgentRuntimeProofs --------------------------
(***************************************************************************)
(* What holds of AgentRuntime for every set of attempts, tools, plans,     *)
(* invocations and replies.                                                *)
(***************************************************************************)
EXTENDS AgentRuntime, TLAPS

-----------------------------------------------------------------------------
(* The operators of the model *)

\* Every check yields the name of a denial, or grants.
LEMMA AuthorizationDenialType ==
  ASSUME NEW i, AuthorizationDenial(i) # "GRANTED"
  PROVE  AuthorizationDenial(i) \in Codes
BY DEF AuthorizationDenial, Codes

\* Likewise for a plan.
LEMMA PlanDenialType ==
  ASSUME NEW p, NEW b, PlanDenial(p, b) # "GRANTED"
  PROVE  PlanDenial(p, b) \in Codes
BY DEF PlanDenial, Codes

\* Likewise for a tool.
LEMMA ToolDenialType ==
  ASSUME NEW i, NEW t, ToolDenial(i, t) # "GRANTED"
  PROVE  ToolDenial(i, t) \in Codes
BY DEF ToolDenial, Codes

\* A tool that is granted is in all three allowlists.
LEMMA ToolGranted ==
  ASSUME NEW i, NEW t, ToolDenial(i, t) = "GRANTED"
  PROVE  /\ t \in i.request.requested_tool_ids
         /\ t \in i.definition.allowed_tool_ids
         /\ t \in i.authorization.allowed_tool_ids
BY DEF ToolDenial

\* Failures of the engine are results of the contract's shape.
LEMMA FailureResultType ==
  ASSUME InvocationsAssumption, TypeOK, NEW a \in Attempts,
         NEW code \in Codes, NEW retryable \in BOOLEAN,
         NEW state \in {"BLOCKED", "NEEDS_REVIEW"}, NEW results \in Seq(Documents)
  PROVE  FailureResult(a, Failure(code, retryable, state), results) \in Results
BY DEF InvocationsAssumption, TypeOK, FailureResult, Failure, Results, Failures, Request

\* The variables that the end of an attempt, or a step to its next await, may change.
Moved ==
  /\ pc' \in [Attempts -> Suspended \cup {"idle", "done"}]
  /\ outcome' \in [Attempts -> Results \cup Exits \cup {Pending}]
  /\ sent' \in [Attempts -> Seq(Tools)]
  /\ asked' \in [Attempts -> Nat]
  /\ inbox' \subseteq CallIds

\* Every end has the right types, whichever result or exception it leaves.
LEMMA EndType ==
  ASSUME TypeOK, NEW a \in Attempts, NEW result \in Results \cup Exits, End(a, result)
  PROVE  Moved
BY DEF Moved, End, TypeOK

\* So has every failure.
LEMMA FailType ==
  ASSUME TypeOK, NEW a \in Attempts,
         NEW code \in Codes, NEW retryable \in BOOLEAN,
         NEW state \in {"BLOCKED", "NEEDS_REVIEW"}, NEW results \in Seq(Documents),
         Fail(a, Failure(code, retryable, state), results)
  PROVE  Moved
<1>1. FailureResult(a, Failure(code, retryable, state), results) \in Results
  BY FailureResultType, InvocationsAssumption
<1>2. Raised("ContractValidationError") \in Exits
  BY DEF Exits
<1>3. QED
  BY <1>1, <1>2, EndType DEF Fail

\* A denial ends an attempt in a well-formed failure.
LEMMA BlockedType ==
  ASSUME TypeOK, NEW a \in Attempts, NEW code \in Codes, NEW results \in Seq(Documents),
         Fail(a, Blocked(code), results)
  PROVE  Moved
BY FailType DEF Blocked

\* So does an exception the engine does not know.
LEMMA UnexpectedType ==
  ASSUME TypeOK, NEW a \in Attempts, NEW results \in Seq(Documents),
         Fail(a, Unexpected, results)
  PROVE  Moved
BY FailType DEF Unexpected, Codes

\* And one that may be a TimeoutError.
LEMMA CaughtType ==
  ASSUME TypeOK, NEW a \in Attempts, NEW exception, NEW results \in Seq(Documents),
         Fail(a, Caught(exception), results)
  PROVE  Moved
BY FailType, UnexpectedType DEF Caught, Timeout, Codes

\* The stretch from one await to the next keeps the types.
LEMMA ContinueType ==
  ASSUME TypeOK, NEW a \in Attempts, NEW p \in Seq(Tools), NEW results \in Seq(Documents),
         Continue(a, p, results)
  PROVE  Moved
<1>1. CASE Len(results) < Len(p)
  <2> DEFINE t == p[Len(results) + 1]
  <2>1. t \in Tools
    BY <1>1
  <2>2. CallTool(a, t, results)
    BY <1>1 DEF Continue
  <2>4. CASE /\ ToolDenial(invocation[a], t) # "GRANTED"
             /\ Fail(a, Blocked(ToolDenial(invocation[a], t)), results)
    BY <2>4, BlockedType, ToolDenialType
  <2>5. CASE Fail(a, Unexpected, results)
    BY <2>5, UnexpectedType
  <2>6. CASE /\ pc' = [pc EXCEPT ![a] = "calling"]
             /\ sent' = [sent EXCEPT ![a] = Append(@, t)]
             /\ inbox' = inbox \cup {<<a, Len(sent[a]) + 1>>}
             /\ UNCHANGED <<asked, outcome>>
    <3>1. sent[a] \in Seq(Tools)
      BY DEF TypeOK
    <3>2. Append(sent[a], t) \in Seq(Tools) /\ Len(sent[a]) + 1 \in Nat
      BY <2>1, <3>1
    <3>3. QED
      BY <2>6, <3>2 DEF Moved, TypeOK, Suspended, CallIds
  <2>7. QED
    BY <2>2, <2>4, <2>5, <2>6 DEF CallTool
<1>2. CASE ~ (Len(results) < Len(p))
  <2>1. AskModel(a, results)
    BY <1>2 DEF Continue
  <2>2. CASE Fail(a, Blocked("BUDGET_REQUIRED"), results)
    BY <2>2, BlockedType DEF Codes
  <2>3. CASE Fail(a, Unexpected, results)
    BY <2>3, UnexpectedType
  <2>4. CASE /\ pc' = [pc EXCEPT ![a] = "completing"]
             /\ asked' = [asked EXCEPT ![a] = @ + 1]
             /\ UNCHANGED <<sent, outcome, inbox>>
    BY <2>4 DEF Moved, TypeOK, Suspended
  <2>5. QED
    BY <2>1, <2>2, <2>3, <2>4 DEF AskModel
<1>3. QED
  BY <1>1, <1>2
-----------------------------------------------------------------------------
(* Type correctness *)

\* Every step keeps every variable in its shape.
LEMMA TypeStep == TypeOK /\ [Next]_vars => TypeOK'
<1> SUFFICES ASSUME TypeOK, [Next]_vars PROVE TypeOK'
  OBVIOUS
<1>1. ASSUME NEW a \in Attempts, Run(a) PROVE TypeOK'
  <2>1. Moved
    <3> <<>> \in Seq(Documents)
      OBVIOUS
    <3>1. CASE End(a, Raised("RuntimeRequestRejected"))
      BY <3>1, EndType DEF Exits
    <3>2. CASE /\ AuthorizationDenial(invocation[a]) # "GRANTED"
               /\ Fail(a, Blocked(AuthorizationDenial(invocation[a])), <<>>)
      BY <3>2, BlockedType, AuthorizationDenialType
    <3>3. CASE Fail(a, Unexpected, <<>>)
      BY <3>3, UnexpectedType
    <3>4. CASE Fail(a, Blocked("INPUT_SCHEMA_INVALID"), <<>>)
      BY <3>4, BlockedType DEF Codes
    <3>5. CASE pc' = [pc EXCEPT ![a] = "planning"] /\ UNCHANGED <<sent, asked, outcome, inbox>>
      BY <3>5 DEF Moved, TypeOK, Suspended
    <3>6. QED
      BY <1>1, <3>1, <3>2, <3>3, <3>4, <3>5 DEF Run
  <2>2. QED
    BY <1>1, <2>1 DEF Run, Moved, TypeOK
<1>2. ASSUME NEW a \in Attempts, NEW p \in Plans, PlanReturns(a, p) PROVE TypeOK'
  <2>1. p \in Seq(Tools)
    BY PlansAssumption DEF PlansAssumption
  <2>2. Moved
    <3> <<>> \in Seq(Documents)
      OBVIOUS
    <3>1. CASE /\ PlanDenial(p, Budget(a)) # "GRANTED"
               /\ Fail(a, Blocked(PlanDenial(p, Budget(a))), <<>>)
      BY <3>1, BlockedType, PlanDenialType
    <3>2. CASE Continue(a, p, <<>>)
      BY <2>1, <3>2, ContinueType
    <3>3. QED
      BY <1>2, <3>1, <3>2 DEF PlanReturns
  <2>3. plan' \in [Attempts -> Plans \cup {<<>>}]
    BY <1>2 DEF PlanReturns, TypeOK
  <2>4. QED
    BY <1>2, <2>2, <2>3 DEF PlanReturns, Moved, TypeOK
<1>3. ASSUME NEW a \in Attempts, NEW e \in Exceptions, PlanRaises(a, e) PROVE TypeOK'
  <2>1. <<>> \in Seq(Documents)
    OBVIOUS
  <2>2. Moved
    BY <1>3, <2>1, CaughtType DEF PlanRaises
  <2>3. QED
    BY <1>3, <2>2 DEF PlanRaises, Moved, TypeOK
<1>4. ASSUME NEW a \in Attempts, NEW b \in ClientBreakdowns, HttpEnds(a, b) PROVE TypeOK'
  BY <1>4 DEF HttpEnds, ClientBreakdowns, Replies, TypeOK
<1>5. ASSUME NEW a \in Attempts, ToolReturns(a) PROVE TypeOK'
  <2>1. tool_results[a] \in Seq(Documents) /\ reply[a] \in Replies
    BY <1>5 DEF ToolReturns, TypeOK
  <2>2. Moved /\ tool_results' \in [Attempts -> Seq(Documents)]
    <3>1. CASE /\ Fail(a, Unexpected, tool_results[a])
               /\ UNCHANGED tool_results
      BY <2>1, <3>1, UnexpectedType DEF TypeOK
    <3>2. CASE Returns(reply[a], Request(a).correlation_id)
      <4> DEFINE results == Append(tool_results[a], reply[a])
      <4>1. reply[a] \in Documents
        BY <2>1, <3>2 DEF Returns, Replies, Breakdowns
      <4>2. results \in Seq(Documents)
        BY <2>1, <4>1
      <4>3. tool_results' = [tool_results EXCEPT ![a] = results]
        BY <1>5, <3>2 DEF ToolReturns
      <4>4. CASE ~ Successful(reply[a])
        <5>1. /\ reply[a].error.code \in Codes
              /\ reply[a].error.retryable \in BOOLEAN
          BY <4>1, <4>4 DEF Documents, Successful, Codes
        <5>2. Fail(a, Failure(reply[a].error.code, reply[a].error.retryable, "BLOCKED"),
                   results)
          BY <1>5, <3>2, <4>4 DEF ToolReturns
        <5>3. Moved
          BY <4>2, <5>1, <5>2, FailType
        <5>4. QED
          BY <4>2, <4>3, <5>3 DEF TypeOK
      <4>5. CASE Successful(reply[a])
        <5>1. Continue(a, plan[a], results)
          BY <1>5, <3>2, <4>5 DEF ToolReturns
        <5>2. plan[a] \in Seq(Tools)
          <6>1. plan[a] \in Plans \cup {<<>>}
            BY DEF TypeOK
          <6>2. Plans \subseteq Seq(Tools) /\ <<>> \in Seq(Tools)
            BY PlansAssumption DEF PlansAssumption
          <6>3. QED
            BY <6>1, <6>2
        <5>3. Moved
          BY <4>2, <5>1, <5>2, ContinueType
        <5>4. QED
          BY <4>2, <4>3, <5>3 DEF TypeOK
      <4>6. QED
        BY <4>4, <4>5
    <3>3. QED
      BY <1>5, <3>1, <3>2 DEF ToolReturns
  <2>3. QED
    BY <1>5, <2>2 DEF ToolReturns, Moved, TypeOK
<1>6. ASSUME NEW a \in Attempts, NEW r \in ModelResponses, ModelReturns(a, r) PROVE TypeOK'
  <2>1. tool_results[a] \in Seq(Documents)
    BY DEF TypeOK
  <2>2. Moved
    <3>1. CASE Fail(a, Blocked("BUDGET_COST_EXCEEDED"), tool_results[a])
      BY <2>1, <3>1, BlockedType DEF Codes
    <3>2. CASE Fail(a, Failure("MODEL_OUTPUT_INVALID_JSON", FALSE, "NEEDS_REVIEW"),
                    tool_results[a])
      BY <2>1, <3>2, FailType DEF Codes
    <3>3. CASE Fail(a, Blocked("OUTPUT_SCHEMA_INVALID"), tool_results[a])
      BY <2>1, <3>3, BlockedType DEF Codes
    <3>4. CASE End(a, SuccessResult(a, r))
      <4>1. SuccessResult(a, r) \in Results
        <5>1. Request(a).correlation_id \in CorrelationIds
          BY InvocationsAssumption DEF Request, TypeOK, InvocationsAssumption
        <5>2. r.output_tokens \in Nat
          BY ModelResponsesAssumption
        <5>3. QED
          BY <2>1, <5>1, <5>2 DEF SuccessResult, Results, Successes
      <4>2. QED
        BY <3>4, <4>1, EndType
    <3>5. CASE Fail(a, Unexpected, tool_results[a])
      BY <2>1, <3>5, UnexpectedType
    <3>6. QED
      BY <1>6, <3>1, <3>2, <3>3, <3>4, <3>5 DEF ModelReturns
  <2>3. QED
    BY <1>6, <2>2 DEF ModelReturns, Moved, TypeOK
<1>7. ASSUME NEW a \in Attempts, NEW e \in Exceptions, ModelRaises(a, e) PROVE TypeOK'
  BY <1>7, CaughtType DEF ModelRaises, Moved, TypeOK
<1>8. ASSUME NEW a \in Attempts, RunTimeout(a) PROVE TypeOK'
  <2>1. tool_results[a] \in Seq(Documents)
    BY DEF TypeOK
  <2>2. Moved
    BY <1>8, <2>1, FailType DEF RunTimeout, Timeout, Codes
  <2>3. QED
    BY <1>8, <2>2 DEF RunTimeout, Moved, TypeOK
<1>9. ASSUME NEW a \in Attempts, Cancel(a) PROVE TypeOK'
  BY <1>9, EndType DEF Cancel, Exits, Moved, TypeOK
<1>10. ASSUME NEW a \in Attempts, Backend(a) PROVE TypeOK'
  <2>1. ASSUME NEW k \in DOMAIN sent[a], BackendMisses(a, k) PROVE TypeOK'
    BY <2>1 DEF BackendMisses, attemptVars, TypeOK
  <2>2. ASSUME NEW k \in DOMAIN sent[a], NEW answer \in BackendAnswerSet,
               NEW effect \in BOOLEAN, BackendAnswers(a, k, answer, effect)
        PROVE  TypeOK'
    <3>1. <<a, k>> \in CallIds
      BY <2>2 DEF BackendAnswers, TypeOK
    <3>2. reply' \in [Attempts -> Replies \cup {NoReply}]
      BY <2>2 DEF BackendAnswers, BackendAnswerSet, TypeOK
    <3>3. QED
      BY <2>2, <3>1, <3>2 DEF BackendAnswers, TypeOK
  <2>3. QED
    BY <1>10, <2>1, <2>2 DEF Backend
<1>11. CASE UNCHANGED vars
  BY <1>11 DEF vars, TypeOK
<1>12. QED
  BY <1>1, <1>2, <1>3, <1>4, <1>5, <1>6, <1>7, <1>8, <1>9, <1>10, <1>11 DEF Next, Attempt

\* Every variable keeps its shape.
THEOREM TypeCorrect == Spec => []TypeOK
<1>1. Init => TypeOK
  BY DEF Init, TypeOK, Pending
<1>2. QED
  BY <1>1, TypeStep, PTL DEF Spec
-----------------------------------------------------------------------------
(* The inductive invariant *)

\* What holds of an attempt at each place where it can be suspended.
Conduct(a) ==
  /\ pc[a] = "idle" => /\ sent[a] = <<>> /\ tool_results[a] = <<>>
                       /\ asked[a] = 0 /\ outcome[a] = Pending
  /\ pc[a] \in Suspended => Accepted(invocation[a]) /\ outcome[a] = Pending
  /\ pc[a] = "planning" => sent[a] = <<>> /\ tool_results[a] = <<>> /\ asked[a] = 0
  /\ pc[a] = "calling" => /\ PlanDenial(plan[a], Budget(a)) = "GRANTED"
                          /\ Len(sent[a]) = Len(tool_results[a]) + 1
                          /\ Len(sent[a]) <= Len(plan[a])
                          /\ asked[a] = 0
  /\ pc[a] = "completing" => /\ Len(sent[a]) = Len(plan[a])
                             /\ Len(sent[a]) = Len(tool_results[a])
  /\ pc[a] = "done" => outcome[a] # Pending

CorrelationKeptBy(a) ==
  \A k \in DOMAIN tool_results[a] :
    tool_results[a][k].correlation_id = Request(a).correlation_id

Orderly(a) ==
  Conduct(a) /\ AuthorizedAttempt(a) /\ BudgetKeptBy(a) /\ CorrelationKeptBy(a)

IInv == TypeOK /\ \A a \in Attempts : Orderly(a)

\* An attempt none of whose variables change keeps its part of the invariant.
LEMMA Untouched ==
  ASSUME NEW b \in Attempts, Orderly(b), invocation'[b] = invocation[b],
         pc'[b] = pc[b], plan'[b] = plan[b], tool_results'[b] = tool_results[b],
         sent'[b] = sent[b], asked'[b] = asked[b], outcome'[b] = outcome[b]
  PROVE  Orderly(b)'
BY DEF Orderly, Conduct, AuthorizedAttempt, BudgetKeptBy, CorrelationKeptBy,
       Request, Budget, ModelRequest

\* Of a budget the engine has accepted, every limit is a natural or absent.
LEMMA AcceptedBudget ==
  ASSUME TypeOK, NEW a \in Attempts, Accepted(invocation[a])
  PROVE  Budget(a) \in Budgets
<1>1. Budget(a) \in Budgets \cup {NoBudget}
  BY InvocationsAssumption DEF InvocationsAssumption, TypeOK, Budget, Request
<1>2. Budget(a) # NoBudget
  BY DEF Accepted, AuthorizationDenial, Budget, Request
<1>3. QED
  BY <1>1, <1>2

\* A plan within the limits has only prefixes within the limits.
LEMMA PlanPrefix ==
  ASSUME NEW b \in Budgets, NEW p \in Seq(Tools), NEW n \in Nat, n <= Len(p),
         PlanDenial(p, b) = "GRANTED"
  PROVE  Within(n, b["max_tool_calls"]) /\ Within(n + 1, b["max_steps"])
<1>1. /\ b["max_tool_calls"] \in Nat \cup {NoLimit}
      /\ b["max_steps"] \in Nat \cup {NoLimit}
  BY DEF Budgets, Limits
<1>2. Within(Len(p), b["max_tool_calls"]) /\ Within(Len(p) + 1, b["max_steps"])
  BY DEF PlanDenial
<1>3. Len(p) \in Nat
  OBVIOUS
<1>4. QED
  BY <1>1, <1>2, <1>3 DEF Within

\* An attempt ends in order, provided that what it recorded last is its own.
LEMMA EndKeeps ==
  ASSUME TypeOK, NEW a \in Attempts, Orderly(a), NEW result, result # Pending, End(a, result),
         UNCHANGED invocation, CorrelationKeptBy(a)'
  PROVE  Orderly(a)'
BY DEF Orderly, Conduct, AuthorizedAttempt, BudgetKeptBy, Request, Budget, ModelRequest,
       End, TypeOK, Suspended

\* So it does in a failure.
LEMMA FailKeeps ==
  ASSUME TypeOK, NEW a \in Attempts, Orderly(a), NEW failure, NEW results,
         Fail(a, failure, results), UNCHANGED invocation, CorrelationKeptBy(a)'
  PROVE  Orderly(a)'
<1>1. FailureResult(a, failure, results) # Pending
  <2>1. FailureResult(a, failure, results).status # Pending.status
    BY DEF FailureResult, Pending
  <2>2. QED
    BY <2>1
<1>2. Raised("ContractValidationError") # Pending
  <2>1. Raised("ContractValidationError").status # Pending.status
    BY DEF Raised, Pending
  <2>2. QED
    BY <2>1
<1>3. QED
  BY <1>1, <1>2, EndKeeps DEF Fail

\* The stretch to the next await keeps order when every call so far is answered.
LEMMA ContinueKeeps ==
  ASSUME TypeOK, NEW a \in Attempts, Orderly(a), pc[a] \in Suspended, asked[a] = 0,
         NEW p \in Seq(Tools), NEW results \in Seq(Documents),
         PlanDenial(p, Budget(a)) = "GRANTED",
         Len(sent[a]) = Len(results), Len(results) <= Len(p),
         Continue(a, p, results), UNCHANGED invocation,
         plan'[a] = p, tool_results'[a] = results, CorrelationKeptBy(a)'
  PROVE  Orderly(a)'
<1>1. Accepted(invocation[a]) /\ outcome[a] = Pending
  BY DEF Orderly, Conduct
<1>2. Budget(a) \in Budgets
  BY <1>1, AcceptedBudget
<1>3. /\ Budget(a)' = Budget(a)
      /\ Request(a)' = Request(a)
      /\ ModelRequest(a)' = ModelRequest(a)
  BY DEF Budget, Request, ModelRequest
<1>4. CASE Len(results) < Len(p)
  <2> DEFINE t == p[Len(results) + 1]
  <2>1. CallTool(a, t, results)
    BY <1>4 DEF Continue
  <2>2. CASE \E failure : Fail(a, failure, results)
    BY <2>2, FailKeeps
  <2>3. CASE /\ ToolDenial(invocation[a], t) = "GRANTED"
             /\ pc' = [pc EXCEPT ![a] = "calling"]
             /\ sent' = [sent EXCEPT ![a] = Append(@, t)]
             /\ UNCHANGED <<asked, outcome>>
    <3>1. sent[a] \in Seq(Tools) /\ t \in Tools /\ pc'[a] = "calling" /\ asked'[a] = 0
      BY <1>4, <2>3 DEF TypeOK
    <3>2. sent'[a] = Append(sent[a], t)
      BY <2>3 DEF TypeOK
    <3>3. /\ Len(sent'[a]) = Len(results) + 1 /\ Len(sent'[a]) \in Nat
          /\ Len(sent'[a]) <= Len(p)
      BY <1>4, <3>1, <3>2
    <3>4. Conduct(a)'
      BY <1>1, <1>3, <2>3, <3>1, <3>3 DEF Conduct, Suspended, TypeOK
    <3>5. AuthorizedAttempt(a)'
      <4> SUFFICES ASSUME NEW k \in DOMAIN sent'[a]
                   PROVE  /\ sent'[a][k] \in Request(a).requested_tool_ids
                          /\ sent'[a][k] \in invocation[a].definition.allowed_tool_ids
                          /\ sent'[a][k] \in invocation[a].authorization.allowed_tool_ids
        BY <1>1, <1>3 DEF AuthorizedAttempt
      <4>1. CASE k \in DOMAIN sent[a]
        BY <3>1, <3>2, <4>1 DEF Orderly, AuthorizedAttempt
      <4>2. CASE k = Len(sent[a]) + 1
        BY <2>3, <3>1, <3>2, <4>2, ToolGranted DEF Request
      <4>3. QED
        BY <3>1, <3>2, <4>1, <4>2
    <3>6. BudgetKeptBy(a)'
      BY <1>2, <1>3, <3>1, <3>3, PlanPrefix DEF BudgetKeptBy
    <3>7. QED
      BY <3>4, <3>5, <3>6 DEF Orderly
  <2>4. QED
    BY <2>1, <2>2, <2>3 DEF CallTool
<1>5. CASE ~ (Len(results) < Len(p))
  <2>1. AskModel(a, results)
    BY <1>5 DEF Continue
  <2>2. CASE \E failure : Fail(a, failure, results)
    BY <2>2, FailKeeps
  <2>3. CASE /\ Budget(a)["max_tokens"] # NoLimit
             /\ AdmitsModelRequest(ModelRequest(a))
             /\ pc' = [pc EXCEPT ![a] = "completing"]
             /\ asked' = [asked EXCEPT ![a] = @ + 1]
             /\ UNCHANGED <<sent, outcome>>
    <3>1. pc'[a] = "completing" /\ asked'[a] = 1 /\ sent'[a] = sent[a]
      BY <2>3 DEF TypeOK
    <3>2. Len(results) = Len(p)
      BY <1>5
    <3>3. Conduct(a)'
      BY <1>1, <1>3, <2>3, <3>1, <3>2 DEF Conduct, Suspended
    <3>4. AuthorizedAttempt(a)'
      BY <1>1, <1>3, <3>1 DEF Orderly, AuthorizedAttempt
    <3>5. BudgetKeptBy(a)'
      BY <1>3, <2>3, <3>1 DEF Orderly, BudgetKeptBy
    <3>6. QED
      BY <3>3, <3>4, <3>5 DEF Orderly
  <2>4. QED
    BY <2>1, <2>2, <2>3 DEF AskModel
<1>6. QED
  BY <1>4, <1>5

\* An action of one attempt leaves the others alone.
LEMMA OthersUntouched ==
  ASSUME TypeOK, NEW a \in Attempts, Attempt(a), NEW b \in Attempts, b # a, Orderly(b)
  PROVE  Orderly(b)'
<1> DEFINE Same == /\ invocation'[b] = invocation[b] /\ pc'[b] = pc[b] /\ plan'[b] = plan[b]
                   /\ tool_results'[b] = tool_results[b] /\ sent'[b] = sent[b]
                   /\ asked'[b] = asked[b] /\ outcome'[b] = outcome[b]
<1>1. ASSUME Run(a) PROVE Same
  BY <1>1 DEF Run, Fail, End, TypeOK
<1>2. ASSUME NEW p, NEW results, Continue(a, p, results)
      PROVE  pc'[b] = pc[b] /\ sent'[b] = sent[b] /\ asked'[b] = asked[b] /\ outcome'[b] = outcome[b]
  BY <1>2 DEF Continue, CallTool, AskModel, Fail, End, TypeOK
<1>3. ASSUME NEW p \in Plans, PlanReturns(a, p) PROVE Same
  BY <1>2, <1>3 DEF PlanReturns, Fail, End, TypeOK
<1>4. ASSUME NEW e, PlanRaises(a, e) \/ ModelRaises(a, e) PROVE Same
  BY <1>4 DEF PlanRaises, ModelRaises, Fail, End, TypeOK
<1>5. ASSUME NEW breakdown, HttpEnds(a, breakdown) PROVE Same
  BY <1>5 DEF HttpEnds
<1>6. ASSUME ToolReturns(a) PROVE Same
  BY <1>2, <1>6 DEF ToolReturns, Fail, End, TypeOK
<1>7. ASSUME NEW r, ModelReturns(a, r) PROVE Same
  BY <1>7 DEF ModelReturns, Fail, End, TypeOK
<1>8. ASSUME RunTimeout(a) \/ Cancel(a) PROVE Same
  BY <1>8 DEF RunTimeout, Cancel, Fail, End, TypeOK
<1>9. Same
  BY <1>1, <1>3, <1>4, <1>5, <1>6, <1>7, <1>8 DEF Attempt
<1>10. QED
  BY <1>9, Untouched

\* Every action of an attempt keeps its part of the invariant.
LEMMA AttemptKeepsOrder ==
  ASSUME TypeOK, NEW a \in Attempts, Orderly(a), Attempt(a)
  PROVE  Orderly(a)'
<1>1. CASE Run(a)
  <2>1. pc[a] = "idle" /\ UNCHANGED <<invocation, tool_results, plan>>
    BY <1>1 DEF Run
  <2>2. CorrelationKeptBy(a)'
    BY <2>1 DEF Orderly, CorrelationKeptBy, Request
  <2>3. CASE \E failure : Fail(a, failure, <<>>)
    BY <2>1, <2>2, <2>3, FailKeeps
  <2>4. CASE End(a, Raised("RuntimeRequestRejected"))
    <3>1. Raised("RuntimeRequestRejected").status # Pending.status
      BY DEF Raised, Pending
    <3>2. QED
      BY <2>1, <2>2, <2>4, <3>1, EndKeeps
  <2>5. CASE /\ Accepted(invocation[a])
             /\ pc' = [pc EXCEPT ![a] = "planning"]
             /\ UNCHANGED <<sent, asked, outcome>>
    BY <2>1, <2>2, <2>5
       DEF Orderly, Conduct, AuthorizedAttempt, BudgetKeptBy, Request, Budget, ModelRequest,
           TypeOK, Suspended
  <2>6. QED
    BY <1>1, <2>3, <2>4, <2>5 DEF Run, Accepted, Request, Budget
<1>2. ASSUME NEW p \in Plans, PlanReturns(a, p) PROVE Orderly(a)'
  <2>1. /\ pc[a] = "planning" /\ UNCHANGED <<invocation, tool_results>>
        /\ sent[a] = <<>> /\ tool_results[a] = <<>> /\ asked[a] = 0
    BY <1>2 DEF PlanReturns, Orderly, Conduct
  <2>2. CorrelationKeptBy(a)'
    BY <2>1 DEF CorrelationKeptBy, Orderly, Request
  <2>3. CASE \E failure : Fail(a, failure, <<>>)
    BY <2>1, <2>2, <2>3, FailKeeps
  <2>4. CASE /\ PlanDenial(p, Budget(a)) = "GRANTED"
             /\ plan' = [plan EXCEPT ![a] = p]
             /\ Continue(a, p, <<>>)
    <3>1. p \in Seq(Tools) /\ <<>> \in Seq(Documents) /\ Len(<<>>) = 0 /\ Len(p) \in Nat
      BY PlansAssumption DEF PlansAssumption
    <3>2. plan'[a] = p /\ tool_results'[a] = <<>> /\ Len(sent[a]) = Len(<<>>)
      BY <2>1, <2>4 DEF TypeOK
    <3>3. pc[a] \in Suspended
      BY <2>1 DEF Suspended
    <3>4. Len(<<>>) <= Len(p) /\ asked[a] = 0 /\ UNCHANGED invocation
      BY <2>1, <3>1
    <3>5. PlanDenial(p, Budget(a)) = "GRANTED" /\ Continue(a, p, <<>>)
      BY <2>4
    <3>6. QED
      BY ONLY TypeOK, Orderly(a), <2>2, <3>1, <3>2, <3>3, <3>4, <3>5, ContinueKeeps
  <2>5. QED
    BY <1>2, <2>3, <2>4 DEF PlanReturns
<1>3. ASSUME NEW e \in Exceptions, PlanRaises(a, e) \/ ModelRaises(a, e) PROVE Orderly(a)'
  <2>1. UNCHANGED <<invocation, tool_results>>
    BY <1>3 DEF PlanRaises, ModelRaises
  <2>2. CorrelationKeptBy(a)'
    BY <2>1 DEF CorrelationKeptBy, Orderly, Request
  <2>3. QED
    BY <1>3, <2>1, <2>2, FailKeeps DEF PlanRaises, ModelRaises
<1>4. ASSUME NEW b \in ClientBreakdowns, HttpEnds(a, b) PROVE Orderly(a)'
  BY <1>4, Untouched DEF HttpEnds
<1>5. CASE ToolReturns(a)
  <2>1. /\ pc[a] = "calling" /\ reply[a] \in Replies /\ tool_results[a] \in Seq(Documents)
        /\ UNCHANGED <<invocation, plan>>
    BY <1>5 DEF ToolReturns, TypeOK
  <2>2. Request(a)' = Request(a)
    BY <2>1 DEF Request
  <2>3. CASE /\ Fail(a, Unexpected, tool_results[a])
             /\ UNCHANGED tool_results
    BY <2>1, <2>2, <2>3, FailKeeps DEF Orderly, CorrelationKeptBy
  <2>4. CASE Returns(reply[a], Request(a).correlation_id)
    <3> DEFINE results == Append(tool_results[a], reply[a])
    <3>1. reply[a] \in Documents
      BY <2>1, <2>4 DEF Returns, Replies, Breakdowns
    <3>2. results \in Seq(Documents) /\ Len(results) = Len(tool_results[a]) + 1
      BY <2>1, <3>1
    <3>3. tool_results'[a] = results
      BY <1>5, <2>4 DEF ToolReturns, TypeOK
    <3>4. CorrelationKeptBy(a)'
      <4> SUFFICES ASSUME NEW k \in DOMAIN results
                   PROVE  results[k].correlation_id = Request(a).correlation_id
        BY <2>2, <3>3 DEF CorrelationKeptBy
      <4>1. CASE k \in DOMAIN tool_results[a]
        BY <2>1, <3>1, <4>1 DEF Orderly, CorrelationKeptBy
      <4>2. CASE k = Len(tool_results[a]) + 1
        BY <2>1, <2>4, <3>1, <4>2 DEF Returns
      <4>3. QED
        BY <2>1, <3>1, <3>2, <4>1, <4>2
    <3>5. CASE \E failure : Fail(a, failure, results)
      BY <2>1, <3>4, <3>5, FailKeeps
    <3>6. CASE Continue(a, plan[a], results)
      <4>1. plan[a] \in Seq(Tools)
        <5>1. plan[a] \in Plans \cup {<<>>}
          BY DEF TypeOK
        <5>2. Plans \subseteq Seq(Tools) /\ <<>> \in Seq(Tools)
          BY PlansAssumption DEF PlansAssumption
        <5>3. QED
          BY <5>1, <5>2
      <4>2. /\ PlanDenial(plan[a], Budget(a)) = "GRANTED" /\ asked[a] = 0
            /\ Len(sent[a]) = Len(results) /\ Len(results) <= Len(plan[a])
        BY <2>1, <3>2 DEF Orderly, Conduct
      <4>3. pc[a] \in Suspended /\ plan'[a] = plan[a]
        BY <2>1 DEF Suspended
      <4>4. QED
        BY <2>1, <3>2, <3>3, <3>4, <3>6, <4>1, <4>2, <4>3, ContinueKeeps
    <3>7. QED
      BY <1>5, <2>4, <3>5, <3>6 DEF ToolReturns
  <2>5. QED
    BY <1>5, <2>3, <2>4 DEF ToolReturns
<1>6. ASSUME NEW r \in ModelResponses, ModelReturns(a, r) PROVE Orderly(a)'
  <2>1. UNCHANGED <<invocation, tool_results>>
    BY <1>6 DEF ModelReturns
  <2>2. CorrelationKeptBy(a)'
    BY <2>1 DEF CorrelationKeptBy, Orderly, Request
  <2>3. CASE \E failure : Fail(a, failure, tool_results[a])
    BY <2>1, <2>2, <2>3, FailKeeps
  <2>4. CASE End(a, SuccessResult(a, r))
    <3>1. SuccessResult(a, r).status # Pending.status
      BY DEF SuccessResult, Pending
    <3>2. QED
      BY <2>1, <2>2, <2>4, <3>1, EndKeeps
  <2>5. QED
    BY <1>6, <2>3, <2>4 DEF ModelReturns
<1>7. CASE RunTimeout(a)
  <2>1. UNCHANGED <<invocation, tool_results>>
    BY <1>7 DEF RunTimeout
  <2>2. CorrelationKeptBy(a)'
    BY <2>1 DEF CorrelationKeptBy, Orderly, Request
  <2>3. QED
    BY <1>7, <2>1, <2>2, FailKeeps DEF RunTimeout
<1>8. CASE Cancel(a)
  <2>1. UNCHANGED <<invocation, tool_results>>
    BY <1>8 DEF Cancel
  <2>2. CorrelationKeptBy(a)'
    BY <2>1 DEF CorrelationKeptBy, Orderly, Request
  <2>3. Raised("CancelledError").status # Pending.status
    BY DEF Raised, Pending
  <2>4. QED
    BY <1>8, <2>1, <2>2, <2>3, EndKeeps DEF Cancel
<1>9. QED
  BY <1>1, <1>2, <1>3, <1>4, <1>5, <1>6, <1>7, <1>8 DEF Attempt

\* IInv is inductive.
LEMMA OrderStep == IInv /\ [Next]_vars => IInv'
<1> SUFFICES ASSUME IInv, [Next]_vars PROVE IInv'
  OBVIOUS
<1>1. TypeOK /\ TypeOK'
  BY TypeStep DEF IInv
<1>2. ASSUME NEW a \in Attempts, Attempt(a), NEW b \in Attempts PROVE Orderly(b)'
  BY <1>1, <1>2, AttemptKeepsOrder, OthersUntouched DEF IInv
<1>3. ASSUME NEW a \in Attempts, Backend(a), NEW b \in Attempts PROVE Orderly(b)'
  BY <1>3, Untouched DEF IInv, Backend, BackendMisses, BackendAnswers, attemptVars
<1>4. ASSUME UNCHANGED vars, NEW b \in Attempts PROVE Orderly(b)'
  BY <1>4, Untouched DEF IInv, vars
<1>5. QED
  BY <1>1, <1>2, <1>3, <1>4 DEF IInv, Next

\* Every reachable state is in order.
LEMMA OrderAlways == Spec => []IInv
<1>1. Init => IInv
  <2> SUFFICES ASSUME Init PROVE IInv
    OBVIOUS
  <2>1. TypeOK
    BY DEF Init, TypeOK, Pending
  <2>2. ASSUME NEW a \in Attempts PROVE Orderly(a)
    BY DEF Init, Orderly, Conduct, AuthorizedAttempt, BudgetKeptBy, CorrelationKeptBy, Suspended
  <2>3. QED
    BY <2>1, <2>2 DEF IInv
<1>2. QED
  BY <1>1, OrderStep, PTL DEF Spec
-----------------------------------------------------------------------------
(* The properties of the runs *)

\* For every planner, Backend and provider: nothing is sent to the Backend that the request,
\* the definition and the Backend's snapshot do not all allow.
THEOREM AuthorizedAlways == Spec => []Authorized
<1>1. IInv => Authorized
  BY DEF IInv, Orderly, Authorized
<1>2. QED
  BY <1>1, OrderAlways, PTL

\* And never more than the budget and the gateway allow.
THEOREM BudgetKeptAlways == Spec => []BudgetKept
<1>1. IInv => BudgetKept
  BY DEF IInv, Orderly, BudgetKept
<1>2. QED
  BY <1>1, OrderAlways, PTL

\* And no ToolResult of another correlation is ever recorded.
THEOREM CorrelationKeptAlways == Spec => []CorrelationKept
<1>1. IInv => CorrelationKept
  BY DEF IInv, Orderly, CorrelationKept, CorrelationKeptBy
<1>2. QED
  BY <1>1, OrderAlways, PTL

\* An attempt that has ended is left alone by every later step.
THEOREM EndIsFinalAlways == Spec => EndIsFinal
<1>1. IInv /\ [Next]_vars => [LeavesEndedAlone]_vars
  <2> SUFFICES ASSUME IInv, Next, NEW a \in Attempts, outcome[a] # Pending
               PROVE  /\ outcome'[a] = outcome[a] /\ sent'[a] = sent[a] /\ asked'[a] = asked[a]
                      /\ tool_results'[a] = tool_results[a]
    BY DEF LeavesEndedAlone
  <2>1. pc[a] = "done" /\ TypeOK
    BY DEF IInv, Orderly, Conduct, TypeOK, Suspended
  <2>2. ASSUME NEW b \in Attempts, Attempt(b) PROVE b # a
    BY <2>1, <2>2 DEF Attempt, Run, PlanReturns, PlanRaises, HttpEnds, ToolReturns, ModelReturns,
                      ModelRaises, RunTimeout, Cancel, Suspended
  <2>3. ASSUME NEW b \in Attempts, Attempt(b)
        PROVE  /\ outcome'[a] = outcome[a] /\ sent'[a] = sent[a] /\ asked'[a] = asked[a]
               /\ tool_results'[a] = tool_results[a]
    BY <2>1, <2>2, <2>3
       DEF Attempt, Run, PlanReturns, PlanRaises, HttpEnds, ToolReturns, ModelReturns, ModelRaises,
           RunTimeout, Cancel, Continue, CallTool, AskModel, Fail, End, TypeOK
  <2>4. ASSUME NEW b \in Attempts, Backend(b)
        PROVE  UNCHANGED <<outcome, sent, asked, tool_results>>
    BY <2>4 DEF Backend, BackendMisses, BackendAnswers, attemptVars
  <2>5. QED
    BY <2>3, <2>4 DEF Next
<1>2. QED
  BY <1>1, OrderAlways, PTL DEF Spec, EndIsFinal
=============================================================================
