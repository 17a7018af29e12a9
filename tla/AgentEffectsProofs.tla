-------------------------- MODULE AgentEffectsProofs --------------------------
(***************************************************************************)
(* What an attempt of AgentRuntime tells of the Backend's effects, and     *)
(* that AgentRuntime implements GovernedRun, for every set of attempts,    *)
(* tools, plans, invocations and replies.                                  *)
(*                                                                         *)
(* The invariant of AgentRuntimeProofs says where an attempt stands; it is *)
(* strengthened here by the calls under way between the attempt and the    *)
(* Backend: a call is in the inbox or executed only once it was sent, and  *)
(* a call whose answer is recorded, or has arrived, is not in the inbox.   *)
(***************************************************************************)
EXTENDS AgentRuntimeProofs

\* The calls of an attempt, and the answers it has recorded.
Answered(a) ==
  /\ Len(tool_results[a]) <= Len(sent[a])
  /\ Len(sent[a]) <= Len(tool_results[a]) + 1
  /\ \A k \in Nat : <<a, k>> \in inbox \cup executed => k \in DOMAIN sent[a]
  /\ \A k \in DOMAIN tool_results[a] :
       /\ <<a, k>> \notin inbox
       /\ Successful(tool_results[a][k]) => <<a, k>> \in executed

\* Whoever has asked the model has completed the plan.
Completed(a) ==
  asked[a] > 0 => /\ sent[a] = plan[a]
                  /\ Len(tool_results[a]) = Len(plan[a])
                  /\ \A k \in DOMAIN tool_results[a] : Successful(tool_results[a][k])

\* An attempt under way has seen successes only, and an answer that has arrived is the answer
\* to its last call.
Underway(a) ==
  /\ pc[a] \in {"idle", "planning"} => reply[a] = NoReply
  /\ pc[a] \in Suspended => \A k \in DOMAIN tool_results[a] : Successful(tool_results[a][k])
  /\ pc[a] = "completing" => asked[a] > 0
  /\ pc[a] = "calling" =>
       /\ \A k \in DOMAIN sent[a] : sent[a][k] = plan[a][k]
       /\ reply[a].kind = "document" =>
            /\ <<a, Len(sent[a])>> \notin inbox
            /\ Successful(reply[a]) => <<a, Len(sent[a])>> \in executed

\* A failure that admits a call whose ending is not known.
Admits(failure) ==
  \/ failure.code = "RUNTIME_TIMEOUT"
  \/ /\ failure.code = "RUNTIME_EXECUTION_FAILED" /\ ~ failure.retryable
     /\ failure.output_state = "NEEDS_REVIEW"

\* What the result of an attempt tells.
Told(a) ==
  outcome[a].status \in {"FAILED", "COMPLETED"} =>
    /\ outcome[a].tool_results = tool_results[a]
    /\ outcome[a].status = "COMPLETED" => asked[a] > 0
    /\ outcome[a].status = "FAILED" =>
         Len(sent[a]) = Len(tool_results[a]) \/ Admits(outcome[a])

Recorded(a) == Answered(a) /\ Completed(a) /\ Underway(a) /\ Told(a)

Known == IInv /\ \A a \in Attempts : Recorded(a)
-----------------------------------------------------------------------------
(* The steps of an attempt *)

\* An attempt none of whose variables and calls change keeps its record.
LEMMA RecordUntouched ==
  ASSUME NEW b \in Attempts, Recorded(b),
         pc'[b] = pc[b], plan'[b] = plan[b], tool_results'[b] = tool_results[b],
         reply'[b] = reply[b], sent'[b] = sent[b], asked'[b] = asked[b],
         outcome'[b] = outcome[b],
         \A k \in Nat : /\ <<b, k>> \in inbox' <=> <<b, k>> \in inbox
                        /\ <<b, k>> \in executed' <=> <<b, k>> \in executed,
         TypeOK
  PROVE  Recorded(b)'
<1>1. sent[b] \in Seq(Tools) /\ tool_results[b] \in Seq(Documents)
  BY DEF TypeOK
<1>2. Len(sent[b]) \in Nat /\ DOMAIN tool_results[b] \subseteq Nat
  BY <1>1
<1>3. Answered(b)'
  BY <1>2 DEF Recorded, Answered
<1>4. Completed(b)' /\ Told(b)'
  BY DEF Recorded, Completed, Told, Admits
<1>5. Underway(b)'
  BY <1>2 DEF Recorded, Underway
<1>6. QED
  BY <1>3, <1>4, <1>5 DEF Recorded

\* An attempt that ends with what it has recorded, in a result that tells it, keeps its record.
LEMMA EndRecords ==
  ASSUME TypeOK, NEW a \in Attempts, NEW result, End(a, result),
         Answered(a)', Completed(a)',
         result.status \in {"FAILED", "COMPLETED"} =>
           /\ result.tool_results = tool_results'[a]
           /\ result.status = "COMPLETED" => asked[a] > 0
           /\ result.status = "FAILED" =>
                Len(sent[a]) = Len(tool_results'[a]) \/ Admits(result)
  PROVE  Recorded(a)'
<1>1. pc'[a] = "done" /\ outcome'[a] = result /\ UNCHANGED <<sent, asked>>
  BY DEF End, TypeOK
<1>2. Underway(a)'
  BY <1>1 DEF Underway, Suspended
<1>3. Told(a)'
  BY <1>1 DEF Told
<1>4. QED
  BY <1>2, <1>3 DEF Recorded

\* So does one that fails, if every call is answered or the failure admits that one is not.
LEMMA FailRecords ==
  ASSUME TypeOK, NEW a \in Attempts, NEW failure, Fail(a, failure, tool_results'[a]),
         Answered(a)', Completed(a)',
         Len(sent[a]) = Len(tool_results'[a]) \/ Admits(failure)
  PROVE  Recorded(a)'
<1> DEFINE result == FailureResult(a, failure, tool_results'[a])
<1>1. /\ result.status = "FAILED" /\ result.tool_results = tool_results'[a]
      /\ result.code = failure.code /\ result.retryable = failure.retryable
      /\ result.output_state = failure.output_state
  BY DEF FailureResult
<1>2. Admits(failure) => Admits(result)
  BY <1>1 DEF Admits
<1>3. CASE End(a, result)
  BY ONLY TypeOK, <1>1, <1>2, <1>3, EndRecords, a \in Attempts, Answered(a)', Completed(a)',
          Len(sent[a]) = Len(tool_results'[a]) \/ Admits(failure)
<1>4. CASE End(a, Raised("ContractValidationError"))
  <2>1. Raised("ContractValidationError").status = "ContractValidationError"
    BY DEF Raised
  <2>2. QED
    BY <1>4, <2>1, EndRecords
<1>5. QED
  BY <1>3, <1>4 DEF Fail

\* Equal elements make equal sequences.
LEMMA SameCalls ==
  ASSUME NEW s \in Seq(Tools), NEW t \in Seq(Tools), Len(s) = Len(t),
         \A k \in DOMAIN s : s[k] = t[k]
  PROVE  s = t
OBVIOUS

\* The stretch to the next await keeps the record when every call so far has succeeded.
LEMMA ContinueRecords ==
  ASSUME TypeOK, NEW a \in Attempts, asked[a] = 0,
         NEW p \in Seq(Tools), NEW results \in Seq(Documents),
         Len(sent[a]) = Len(results), Len(results) <= Len(p),
         \A k \in DOMAIN sent[a] : sent[a][k] = p[k],
         \A k \in DOMAIN results : Successful(results[k]),
         \A k \in Nat : <<a, k>> \in inbox \cup executed => k \in DOMAIN sent[a],
         \A k \in DOMAIN results : <<a, k>> \notin inbox /\ <<a, k>> \in executed,
         outcome[a] = Pending,
         Continue(a, p, results), UNCHANGED executed,
         plan'[a] = p, tool_results'[a] = results, reply'[a] = NoReply
  PROVE  Recorded(a)'
<1>1. /\ sent[a] \in Seq(Tools) /\ Len(sent[a]) \in Nat
      /\ Len(results) \in Nat /\ Len(p) \in Nat
      /\ DOMAIN results = 1 .. Len(results) /\ DOMAIN sent[a] = 1 .. Len(sent[a])
  BY DEF TypeOK
<1>2. Pending.status = "PENDING" /\ NoReply.kind = "none"
  BY DEF Pending, NoReply
<1>3. ASSUME NEW failure, Fail(a, failure, results) PROVE Recorded(a)'
  <2>1. UNCHANGED <<sent, asked, inbox>>
    BY <1>3 DEF Fail, End
  <2>2. Answered(a)' /\ Completed(a)'
    BY <1>1, <2>1 DEF Answered, Completed
  <2>3. QED
    BY <1>3, <2>2, FailRecords
<1>4. CASE Len(results) < Len(p)
  <2> DEFINE t == p[Len(results) + 1]
  <2>1. CallTool(a, t, results)
    BY <1>4 DEF Continue
  <2>2. CASE /\ pc' = [pc EXCEPT ![a] = "calling"]
             /\ sent' = [sent EXCEPT ![a] = Append(@, t)]
             /\ inbox' = inbox \cup {<<a, Len(sent[a]) + 1>>}
             /\ UNCHANGED <<asked, outcome>>
    <3>1. /\ pc'[a] = "calling" /\ sent'[a] = Append(sent[a], t) /\ t \in Tools
          /\ asked'[a] = 0 /\ outcome'[a] = Pending
      BY <1>4, <2>2 DEF TypeOK
    <3>2. /\ Len(sent'[a]) = Len(results) + 1
          /\ DOMAIN sent'[a] = 1 .. (Len(results) + 1)
          /\ \A k \in DOMAIN sent'[a] : sent'[a][k] = p[k]
      BY <1>1, <1>4, <3>1
    <3>3. Answered(a)'
      <4>1. ASSUME NEW k \in Nat, <<a, k>> \in inbox' \cup executed'
            PROVE  k \in DOMAIN sent'[a]
        BY <1>1, <2>2, <3>2, <4>1
      <4>2. ASSUME NEW k \in DOMAIN results PROVE <<a, k>> \notin inbox' /\ <<a, k>> \in executed'
        BY <1>1, <2>2
      <4>3. QED
        BY <1>1, <3>2, <4>1, <4>2 DEF Answered
    <3>4. Completed(a)' /\ Told(a)'
      BY <1>2, <3>1 DEF Completed, Told
    <3>5. Underway(a)'
      BY <1>2, <3>1, <3>2 DEF Underway
    <3>6. QED
      BY <3>3, <3>4, <3>5 DEF Recorded
  <2>3. QED
    BY <1>3, <2>1, <2>2 DEF CallTool
<1>5. CASE ~ (Len(results) < Len(p))
  <2>1. AskModel(a, results) /\ Len(results) = Len(p)
    BY <1>1, <1>5 DEF Continue
  <2>2. CASE /\ pc' = [pc EXCEPT ![a] = "completing"]
             /\ asked' = [asked EXCEPT ![a] = @ + 1]
             /\ UNCHANGED <<sent, outcome, inbox>>
    <3>1. /\ pc'[a] = "completing" /\ sent'[a] = sent[a] /\ outcome'[a] = Pending
          /\ asked'[a] = 1
      BY <2>2 DEF TypeOK
    <3>2. sent[a] = p
      BY <1>1, <2>1, SameCalls
    <3>3. Answered(a)'
      BY <1>1, <2>2, <3>1 DEF Answered
    <3>4. Completed(a)' /\ Underway(a)' /\ Told(a)'
      BY <1>2, <2>1, <3>1, <3>2 DEF Completed, Underway, Told
    <3>5. QED
      BY <3>3, <3>4 DEF Recorded
  <2>3. QED
    BY <1>3, <2>1, <2>2 DEF AskModel
<1>6. QED
  BY <1>4, <1>5

\* An action of one attempt leaves the record of the others alone.
LEMMA OthersRecorded ==
  ASSUME TypeOK, NEW a \in Attempts, Attempt(a), NEW b \in Attempts, b # a, Recorded(b)
  PROVE  Recorded(b)'
<1> DEFINE Same == /\ pc'[b] = pc[b] /\ plan'[b] = plan[b] /\ reply'[b] = reply[b]
                   /\ tool_results'[b] = tool_results[b] /\ sent'[b] = sent[b]
                   /\ asked'[b] = asked[b] /\ outcome'[b] = outcome[b]
                   /\ executed' = executed
                   /\ \A k \in Nat : <<b, k>> \in inbox' <=> <<b, k>> \in inbox
<1>1. ASSUME Run(a) PROVE Same
  BY <1>1 DEF Run, Fail, End, TypeOK
<1>2. ASSUME NEW p, NEW results, Continue(a, p, results)
      PROVE  /\ pc'[b] = pc[b] /\ sent'[b] = sent[b] /\ asked'[b] = asked[b]
             /\ outcome'[b] = outcome[b]
             /\ \A k \in Nat : <<b, k>> \in inbox' <=> <<b, k>> \in inbox
  BY <1>2 DEF Continue, CallTool, AskModel, Fail, End, TypeOK
<1>3. ASSUME NEW p \in Plans, PlanReturns(a, p) PROVE Same
  BY <1>2, <1>3 DEF PlanReturns, Fail, End, TypeOK
<1>4. ASSUME NEW e, PlanRaises(a, e) \/ ModelRaises(a, e) PROVE Same
  BY <1>4 DEF PlanRaises, ModelRaises, Fail, End, TypeOK
<1>5. ASSUME NEW breakdown, HttpEnds(a, breakdown) PROVE Same
  BY <1>5 DEF HttpEnds, TypeOK
<1>6. ASSUME ToolReturns(a) PROVE Same
  BY <1>2, <1>6 DEF ToolReturns, Fail, End, TypeOK
<1>7. ASSUME NEW r, ModelReturns(a, r) PROVE Same
  BY <1>7 DEF ModelReturns, Fail, End, TypeOK
<1>8. ASSUME RunTimeout(a) \/ Cancel(a) PROVE Same
  BY <1>8 DEF RunTimeout, Cancel, Fail, End, TypeOK
<1>9. Same
  BY <1>1, <1>3, <1>4, <1>5, <1>6, <1>7, <1>8 DEF Attempt
<1>10. QED
  BY <1>9, RecordUntouched

\* An end that records nothing more keeps the calls and the plan as they were.
LEMMA RecordKeptByEnd ==
  ASSUME TypeOK, NEW a \in Attempts, Recorded(a),
         UNCHANGED <<plan, tool_results, sent, asked, inbox, executed>>
  PROVE  Answered(a)' /\ Completed(a)'
BY DEF Recorded, Answered, Completed

\* Every action of an attempt keeps its record.
LEMMA AttemptRecords ==
  ASSUME TypeOK, NEW a \in Attempts, Orderly(a), Recorded(a), Attempt(a)
  PROVE  Recorded(a)'
<1>1. /\ tool_results[a] \in Seq(Documents) /\ sent[a] \in Seq(Tools)
      /\ Len(tool_results[a]) \in Nat /\ Len(sent[a]) \in Nat
      /\ DOMAIN sent[a] = 1 .. Len(sent[a])
      /\ DOMAIN tool_results[a] = 1 .. Len(tool_results[a])
  BY DEF TypeOK
<1>2. Len(<<>>) = 0 /\ <<>> \in Seq(Documents) /\ DOMAIN <<>> = {}
  OBVIOUS
<1>3. ASSUME NEW failure, Fail(a, failure, tool_results[a]),
             UNCHANGED <<plan, tool_results, executed>>,
             Len(sent[a]) = Len(tool_results[a]) \/ Admits(failure)
      PROVE  Recorded(a)'
  <2>1. Answered(a)' /\ Completed(a)'
    BY <1>3, RecordKeptByEnd DEF Fail, End
  <2>2. QED
    BY <1>3, <2>1, FailRecords
<1>4. Admits(Timeout) /\ Admits(Unexpected)
  BY DEF Admits, Timeout, Unexpected, Failure
<1>5. CASE Run(a)
  <2>1. /\ pc[a] = "idle" /\ tool_results[a] = <<>> /\ sent[a] = <<>> /\ asked[a] = 0
        /\ outcome[a] = Pending
        /\ UNCHANGED <<plan, tool_results, reply, executed>>
    BY <1>5 DEF Run, Orderly, Conduct
  <2>2. CASE \E failure : Fail(a, failure, <<>>)
    BY <1>3, <2>1, <2>2
  <2>3. CASE End(a, Raised("RuntimeRequestRejected"))
    <3>1. Answered(a)' /\ Completed(a)'
      BY <2>1, <2>3, RecordKeptByEnd DEF End
    <3>2. Raised("RuntimeRequestRejected").status = "RuntimeRequestRejected"
      BY DEF Raised
    <3>3. QED
      BY <2>3, <3>1, <3>2, EndRecords
  <2>4. CASE /\ pc' = [pc EXCEPT ![a] = "planning"]
             /\ UNCHANGED <<sent, asked, outcome, inbox>>
    <3>1. pc'[a] = "planning"
      BY <2>4 DEF TypeOK
    <3>2. Answered(a)' /\ Completed(a)'
      BY <2>1, <2>4, RecordKeptByEnd
    <3>3. Underway(a)'
      BY <2>1, <3>1 DEF Underway, Recorded
    <3>4. Told(a)'
      BY <2>1, <2>4 DEF Told, Pending
    <3>5. QED
      BY <3>2, <3>3, <3>4 DEF Recorded
  <2>5. QED
    BY <1>5, <2>2, <2>3, <2>4 DEF Run
<1>6. ASSUME NEW p \in Plans, PlanReturns(a, p) PROVE Recorded(a)'
  <2>1. /\ pc[a] = "planning" /\ tool_results[a] = <<>> /\ sent[a] = <<>> /\ asked[a] = 0
        /\ outcome[a] = Pending /\ reply[a] = NoReply
        /\ UNCHANGED <<tool_results, reply, executed>>
    BY <1>6 DEF PlanReturns, Orderly, Conduct, Suspended, Recorded, Underway
  <2>2. CASE UNCHANGED plan /\ \E failure : Fail(a, failure, <<>>)
    BY <1>3, <2>1, <2>2
  <2>3. CASE /\ plan' = [plan EXCEPT ![a] = p]
             /\ Continue(a, p, <<>>)
    <3>1. p \in Seq(Tools) /\ Len(p) \in Nat
      BY PlansAssumption DEF PlansAssumption
    <3>2. plan'[a] = p
      BY <2>3 DEF TypeOK
    <3>3. \A k \in Nat : <<a, k>> \in inbox \cup executed => k \in DOMAIN sent[a]
      BY DEF Recorded, Answered
    <3>4. /\ Len(sent[a]) = Len(<<>>) /\ Len(<<>>) <= Len(p)
          /\ \A k \in DOMAIN sent[a] : sent[a][k] = p[k]
      BY <2>1, <3>1
    <3>5. QED
      BY <1>2, <2>1, <2>3, <3>1, <3>2, <3>3, <3>4, ContinueRecords
  <2>4. QED
    BY <1>6, <2>2, <2>3 DEF PlanReturns
<1>7. ASSUME NEW e \in Exceptions, PlanRaises(a, e) PROVE Recorded(a)'
  <2>1. tool_results[a] = <<>> /\ sent[a] = <<>>
    BY <1>7 DEF PlanRaises, Orderly, Conduct
  <2>2. QED
    BY <1>3, <1>7, <2>1 DEF PlanRaises
<1>8. ASSUME NEW b \in ClientBreakdowns, HttpEnds(a, b) PROVE Recorded(a)'
  <2>1. reply'[a] = b /\ b.kind # "document" /\ pc[a] = "calling"
    BY <1>8 DEF HttpEnds, ClientBreakdowns, TypeOK
  <2>2. Answered(a)' /\ Completed(a)' /\ Told(a)'
    BY <1>8 DEF HttpEnds, Recorded, Answered, Completed, Told, Admits
  <2>3. Underway(a)'
    BY <1>8, <2>1 DEF HttpEnds, Recorded, Underway
  <2>4. QED
    BY <2>2, <2>3 DEF Recorded
<1>9. CASE ToolReturns(a)
  <2>1. /\ pc[a] = "calling" /\ reply[a] \in Replies /\ reply'[a] = NoReply
        /\ asked[a] = 0 /\ outcome[a] = Pending
        /\ Len(sent[a]) = Len(tool_results[a]) + 1 /\ Len(sent[a]) <= Len(plan[a])
        /\ UNCHANGED <<invocation, plan, executed>>
    BY <1>9 DEF ToolReturns, TypeOK, Orderly, Conduct, Suspended
  <2>2. CASE /\ Fail(a, Unexpected, tool_results[a])
             /\ UNCHANGED tool_results
    BY <1>3, <1>4, <2>1, <2>2
  <2>3. CASE Returns(reply[a], Request(a).correlation_id)
    <3> DEFINE results == Append(tool_results[a], reply[a])
    <3>1. reply[a] \in Documents /\ reply[a].kind = "document"
      BY <2>1, <2>3 DEF Returns, Replies, Breakdowns
    <3>2. /\ results \in Seq(Documents) /\ Len(results) = Len(sent[a])
          /\ DOMAIN results = 1 .. Len(sent[a])
          /\ results[Len(sent[a])] = reply[a]
          /\ \A k \in DOMAIN tool_results[a] : results[k] = tool_results[a][k]
          /\ \A k \in DOMAIN results : k \in DOMAIN tool_results[a] \/ k = Len(sent[a])
      BY <1>1, <2>1, <3>1
    <3>3. tool_results'[a] = results
      BY <1>9, <2>3 DEF ToolReturns, TypeOK
    <3>4. \A k \in DOMAIN results : /\ <<a, k>> \notin inbox
                                    /\ Successful(results[k]) => <<a, k>> \in executed
      BY <2>1, <3>1, <3>2 DEF Recorded, Answered, Underway
    <3>5. \A k \in Nat : <<a, k>> \in inbox \cup executed => k \in DOMAIN sent[a]
      BY DEF Recorded, Answered
    <3>6. ASSUME NEW failure, Fail(a, failure, results) PROVE Recorded(a)'
      <4>1. UNCHANGED <<sent, asked, inbox>>
        BY <3>6 DEF Fail, End
      <4>2. Answered(a)' /\ Completed(a)'
        BY <1>1, <2>1, <3>2, <3>3, <3>4, <3>5, <4>1 DEF Answered, Completed
      <4>3. QED
        BY <3>2, <3>3, <3>6, <4>2, FailRecords
    <3>7. CASE Successful(reply[a]) /\ Continue(a, plan[a], results)
      <4>1. plan[a] \in Seq(Tools)
        <5>1. plan[a] \in Plans \cup {<<>>}
          BY DEF TypeOK
        <5>2. Plans \subseteq Seq(Tools) /\ <<>> \in Seq(Tools)
          BY PlansAssumption DEF PlansAssumption
        <5>3. QED
          BY <5>1, <5>2
      <4>2. \A k \in DOMAIN results : Successful(results[k])
        BY <2>1, <3>2, <3>7 DEF Recorded, Underway, Suspended
      <4>3. \A k \in DOMAIN results : <<a, k>> \notin inbox /\ <<a, k>> \in executed
        BY <3>4, <4>2
      <4>4. \A k \in DOMAIN sent[a] : sent[a][k] = plan[a][k]
        BY <2>1 DEF Recorded, Underway
      <4>5. plan'[a] = plan[a] /\ Len(results) <= Len(plan[a])
        BY <2>1, <3>2
      <4>6. QED
        BY ONLY TypeOK, a \in Attempts, <2>1, <3>2, <3>3, <3>5, <3>7, <4>1, <4>2, <4>3, <4>4,
                <4>5, ContinueRecords
    <3>8. QED
      BY <1>9, <2>3, <3>6, <3>7 DEF ToolReturns
  <2>4. QED
    BY <1>9, <2>2, <2>3 DEF ToolReturns
<1>10. ASSUME NEW r \in ModelResponses, ModelReturns(a, r) PROVE Recorded(a)'
  <2>1. /\ pc[a] = "completing" /\ Len(sent[a]) = Len(tool_results[a])
        /\ UNCHANGED <<plan, tool_results, executed>>
    BY <1>10 DEF ModelReturns, Orderly, Conduct
  <2>2. CASE \E failure : Fail(a, failure, tool_results[a])
    BY <1>3, <2>1, <2>2
  <2>3. CASE End(a, SuccessResult(a, r))
    <3>1. asked[a] > 0
      BY <2>1 DEF Recorded, Underway
    <3>2. Answered(a)' /\ Completed(a)'
      BY <2>1, <2>3, RecordKeptByEnd DEF End
    <3>3. /\ SuccessResult(a, r).status = "COMPLETED"
          /\ SuccessResult(a, r).tool_results = tool_results[a]
      BY DEF SuccessResult
    <3>4. QED
      BY <2>1, <2>3, <3>1, <3>2, <3>3, EndRecords
  <2>4. QED
    BY <1>10, <2>2, <2>3 DEF ModelReturns
<1>11. ASSUME NEW e \in Exceptions, ModelRaises(a, e) PROVE Recorded(a)'
  <2>1. Len(sent[a]) = Len(tool_results[a])
    BY <1>11 DEF ModelRaises, Orderly, Conduct
  <2>2. QED
    BY <1>3, <1>11, <2>1 DEF ModelRaises
<1>12. CASE RunTimeout(a)
  BY <1>3, <1>4, <1>12 DEF RunTimeout
<1>13. CASE Cancel(a)
  <2>1. Answered(a)' /\ Completed(a)'
    BY <1>13, RecordKeptByEnd DEF Cancel, End
  <2>2. Raised("CancelledError").status = "CancelledError"
    BY DEF Raised
  <2>3. QED
    BY <1>13, <2>1, <2>2, EndRecords DEF Cancel
<1>14. QED
  BY <1>5, <1>6, <1>7, <1>8, <1>9, <1>10, <1>11, <1>12, <1>13 DEF Attempt

\* The Backend's steps, and its silence, keep every record.
LEMMA BackendRecords ==
  ASSUME TypeOK, NEW a \in Attempts, Backend(a), NEW b \in Attempts, Recorded(b)
  PROVE  Recorded(b)'
<1> PICK k \in DOMAIN sent[a] :
      \/ BackendMisses(a, k)
      \/ \E answer \in BackendAnswerSet, effect \in BOOLEAN : BackendAnswers(a, k, answer, effect)
  BY DEF Backend
<1>1. /\ tool_results[b] \in Seq(Documents) /\ sent[b] \in Seq(Tools)
      /\ DOMAIN sent[b] = 1 .. Len(sent[b]) /\ Len(sent[b]) \in Nat
      /\ DOMAIN tool_results[b] = 1 .. Len(tool_results[b]) /\ Len(tool_results[b]) \in Nat
  BY DEF TypeOK
<1>2. /\ UNCHANGED <<pc, plan, tool_results, sent, asked, outcome>>
      /\ <<a, k>> \in inbox /\ inbox' \subseteq inbox
      /\ executed \subseteq executed' /\ executed' \subseteq executed \cup {<<a, k>>}
  BY DEF BackendMisses, BackendAnswers, attemptVars
<1>3. Answered(b)'
  <2>1. ASSUME NEW n \in Nat, <<b, n>> \in inbox' \cup executed' PROVE n \in DOMAIN sent[b]
    <3>1. <<b, n>> \in inbox \cup executed
      BY <1>2, <2>1
    <3>2. QED
      BY <3>1 DEF Recorded, Answered
  <2>2. QED
    BY <1>1, <1>2, <2>1 DEF Recorded, Answered
<1>4. Completed(b)' /\ Told(b)'
  BY <1>2 DEF Recorded, Completed, Told, Admits
<1>5. Underway(b)'
  <2>1. CASE reply'[b] = reply[b]
    BY <1>2, <2>1 DEF Recorded, Underway
  <2>2. CASE reply'[b] # reply[b]
    <3>1. PICK answer \in BackendAnswerSet, effect \in BOOLEAN : BackendAnswers(a, k, answer, effect)
      BY <2>2 DEF BackendMisses, attemptVars
    <3>2. /\ a = b /\ k = Len(sent[b]) /\ pc[b] = "calling" /\ reply'[b] = answer
          /\ inbox' = inbox \ {<<a, k>>}
      BY <2>2, <3>1 DEF BackendAnswers, TypeOK
    <3>3. answer.kind = "document" /\ Successful(answer) => <<b, Len(sent[b])>> \in executed'
      BY <3>1, <3>2 DEF BackendAnswers
    <3>4. QED
      BY <1>2, <3>2, <3>3 DEF Recorded, Underway
  <2>3. QED
    BY <2>1, <2>2
<1>6. QED
  BY <1>3, <1>4, <1>5 DEF Recorded

\* Known is inductive.
LEMMA KnownStep == Known /\ [Next]_vars => Known'
<1> SUFFICES ASSUME Known, [Next]_vars PROVE Known'
  OBVIOUS
<1>1. IInv' /\ TypeOK
  BY OrderStep DEF Known, IInv
<1>2. ASSUME NEW a \in Attempts, Attempt(a), NEW b \in Attempts PROVE Recorded(b)'
  BY <1>1, <1>2, AttemptRecords, OthersRecorded DEF Known, IInv
<1>3. ASSUME NEW a \in Attempts, Backend(a), NEW b \in Attempts PROVE Recorded(b)'
  BY <1>1, <1>3, BackendRecords DEF Known
<1>4. ASSUME UNCHANGED vars, NEW b \in Attempts PROVE Recorded(b)'
  BY <1>1, <1>4, RecordUntouched DEF Known, vars
<1>5. QED
  BY <1>1, <1>2, <1>3, <1>4 DEF Known, Next

\* Every reachable state is known.
LEMMA KnownAlways == Spec => []Known
<1>1. Init => Known
  <2> SUFFICES ASSUME Init PROVE Known
    OBVIOUS
  <2>1. IInv
    <3>1. TypeOK
      BY DEF Init, TypeOK, Pending
    <3>2. ASSUME NEW a \in Attempts PROVE Orderly(a)
      BY DEF Init, Orderly, Conduct, AuthorizedAttempt, BudgetKeptBy, CorrelationKeptBy, Suspended
    <3>3. QED
      BY <3>1, <3>2 DEF IInv
  <2>2. ASSUME NEW a \in Attempts PROVE Recorded(a)
    BY DEF Init, Recorded, Answered, Completed, Underway, Told, Pending, Suspended
  <2>3. QED
    BY <2>1, <2>2 DEF Known
<1>2. QED
  BY <1>1, KnownStep, PTL DEF Spec
-----------------------------------------------------------------------------
(* The properties of the run *)

\* For every planner, Backend and provider: the model is asked only when every tool of the plan
\* was executed, in order, and its success recorded.
THEOREM ModelSeesCompletedPlanAlways == Spec => []ModelSeesCompletedPlan
<1>1. Known => ModelSeesCompletedPlan
  <2> SUFFICES ASSUME Known, NEW a \in Attempts, asked[a] > 0
               PROVE  /\ sent[a] = plan[a]
                      /\ Len(tool_results[a]) = Len(plan[a])
                      /\ \A k \in DOMAIN plan[a] :
                           <<a, k>> \in executed /\ Successful(tool_results[a][k])
    BY DEF ModelSeesCompletedPlan
  <2>1. /\ sent[a] = plan[a] /\ Len(tool_results[a]) = Len(plan[a])
        /\ \A k \in DOMAIN tool_results[a] : Successful(tool_results[a][k])
    BY DEF Known, Recorded, Completed
  <2>2. DOMAIN plan[a] = DOMAIN tool_results[a]
    BY <2>1 DEF Known, IInv, TypeOK
  <2>3. QED
    BY <2>1, <2>2 DEF Known, Recorded, Answered
<1>2. QED
  BY <1>1, KnownAlways, PTL

\* The status of a result, and of what is none.
LEMMA ResultStatus ==
  ASSUME NEW o \in Results
  PROVE  o.status \in {"FAILED", "COMPLETED"} /\ (o \in Failures => o.status = "FAILED")
BY DEF Results, Failures, Successes

\* A result tells all of the Backend's effects but that of the call it interrupted, and no
\* success that did not happen.
THEOREM EffectsReportedAlways == Spec => []EffectsReported
<1>1. Known => EffectsReported
  <2> SUFFICES ASSUME Known, NEW a \in Attempts, outcome[a] \in Results
               PROVE  LET reported == outcome[a].tool_results
                          effects == {k \in DOMAIN sent[a] : <<a, k>> \in executed}
                      IN /\ effects \ DOMAIN reported \subseteq {Len(sent[a])}
                         /\ outcome[a].status = "COMPLETED" => effects = DOMAIN reported
                         /\ \A k \in DOMAIN reported : Successful(reported[k]) => k \in effects
    BY DEF EffectsReported
  <2>1. /\ tool_results[a] \in Seq(Documents) /\ sent[a] \in Seq(Tools)
        /\ DOMAIN sent[a] = 1 .. Len(sent[a]) /\ Len(sent[a]) \in Nat
        /\ DOMAIN tool_results[a] = 1 .. Len(tool_results[a]) /\ Len(tool_results[a]) \in Nat
    BY DEF Known, IInv, TypeOK
  <2>2. Told(a) /\ Answered(a) /\ Completed(a)
    BY DEF Known, Recorded
  <2>3. /\ outcome[a].tool_results = tool_results[a]
        /\ outcome[a].status = "COMPLETED" => asked[a] > 0
    BY <2>2, ResultStatus DEF Told
  <2>4. {k \in DOMAIN sent[a] : <<a, k>> \in executed} \ DOMAIN tool_results[a]
          \subseteq {Len(sent[a])}
    BY <2>1, <2>2 DEF Answered
  <2>5. \A k \in DOMAIN tool_results[a] :
          Successful(tool_results[a][k]) => k \in DOMAIN sent[a] /\ <<a, k>> \in executed
    BY <2>1, <2>2 DEF Answered
  <2>6. asked[a] > 0 =>
          {k \in DOMAIN sent[a] : <<a, k>> \in executed} = DOMAIN tool_results[a]
    BY <2>1, <2>2, <2>5 DEF Completed
  <2>7. QED
    BY <2>3, <2>4, <2>5, <2>6
<1>2. QED
  BY <1>1, KnownAlways, PTL

\* Every effect a failed result leaves out, had or still to be had, it admits.
THEOREM HiddenEffectsAdmittedAlways == Spec => []HiddenEffectsAdmitted
<1>1. Known => HiddenEffectsAdmitted
  <2> SUFFICES ASSUME Known, NEW a \in Attempts, outcome[a] \in Failures, ~ Admits(outcome[a])
               PROVE  DOMAIN sent[a] \subseteq DOMAIN outcome[a].tool_results
    BY DEF HiddenEffectsAdmitted, Admits
  <2>1. outcome[a].tool_results = tool_results[a] /\ Len(sent[a]) = Len(tool_results[a])
    BY ResultStatus DEF Results, Known, Recorded, Told
  <2>2. QED
    BY <2>1 DEF Known, IInv, TypeOK
<1>2. QED
  BY <1>1, KnownAlways, PTL

-----------------------------------------------------------------------------
(* The implementation of GovernedRun: only steps that send a tool call, ask the model or end an *)
(* attempt are steps of it; the planner's start, the ending of a call and the Backend's work   *)
(* stutter.                                                                                    *)

\* An attempt without an outcome is running.
LEMMA PendingRuns == Verdict(Pending) = Governed!Running
BY DEF Verdict, Governed!Running

\* Results are neither pending nor exceptions.
LEMMA VerdictOfResult ==
  ASSUME NEW o, o.status \in {"FAILED", "COMPLETED"}
  PROVE  Verdict(o) = [status |-> o.status, reported |-> Len(o.tool_results)]
<1>1. /\ Pending.status = "PENDING"
      /\ \A e : Raised(e).status = e
  BY DEF Pending, Raised
<1>2. o # Pending /\ o \notin Exits
  BY <1>1 DEF Exits
<1>3. QED
  BY <1>2 DEF Verdict

\* Exceptions report nothing.
LEMMA VerdictOfExit ==
  ASSUME NEW o \in Exits
  PROVE  Verdict(o) = [status |-> "RAISED", reported |-> 0]
<1>1. /\ Pending.status = "PENDING"
      /\ \A e : Raised(e).status = e
  BY DEF Pending, Raised
<1>2. o # Pending
  BY <1>1 DEF Exits
<1>3. QED
  BY <1>2 DEF Verdict

\* The initial states are initial states of GovernedRun.
LEMMA RefinesInit == Init => Governed!Init
<1> SUFFICES ASSUME Init PROVE Governed!Init
  OBVIOUS
<1>1. \A a \in Attempts : /\ Len(tool_results[a]) = 0 /\ ~ (asked[a] > 0)
                          /\ Verdict(outcome[a]) = Governed!Running
                          /\ Mandate(invocation[a]) \in {Mandate(i) : i \in Invocations}
  BY PendingRuns DEF Init
<1>2. [a \in Attempts |-> asked[a] > 0] = [a \in Attempts |-> FALSE]
  <2>1. \A a \in Attempts : (asked[a] > 0) = FALSE
    BY <1>1
  <2>2. QED
    BY ONLY <2>1, Zenon
<1>3. [a \in Attempts |-> Len(tool_results[a])] = [a \in Attempts |-> 0]
  BY ONLY <1>1
<1>4. [a \in Attempts |-> Verdict(outcome[a])] = [a \in Attempts |-> Governed!Running]
  BY <1>1
<1>5. [a \in Attempts |-> Mandate(invocation[a])]
        \in [Attempts -> {Mandate(i) : i \in Invocations}]
  BY <1>1
<1>6. sent = [a \in Attempts |-> <<>>]
  BY DEF Init
<1>7. QED
  BY <1>2, <1>3, <1>4, <1>5, <1>6 DEF Governed!Init

\* An attempt that ends is an attempt that concludes.
LEMMA RefinesEnd ==
  ASSUME TypeOK, NEW a \in Attempts, outcome[a] = Pending, NEW result, End(a, result),
         UNCHANGED invocation, NEW results \in Seq(Documents),
         tool_results' = [tool_results EXCEPT ![a] = results],
         Len(results) \in {Len(tool_results[a]), Len(sent[a])},
         \/ result \in Exits
         \/ /\ result.status \in {"FAILED", "COMPLETED"} /\ result.tool_results = results
            /\ result.status = "COMPLETED" => asked[a] > 0 /\ Len(results) = Len(sent[a])
  PROVE  Governed!Next
<1> DEFINE status == IF result \in Exits THEN "RAISED" ELSE result.status
           reported == IF result \in Exits THEN 0 ELSE Len(results)
<1>1. Verdict(result) = [status |-> status, reported |-> reported]
  BY VerdictOfResult, VerdictOfExit
<1>2. /\ UNCHANGED <<sent, asked>>
      /\ \A b \in Attempts : outcome'[b] = IF b = a THEN result ELSE outcome[b]
      /\ \A b \in Attempts : tool_results'[b] = IF b = a THEN results ELSE tool_results[b]
  BY DEF End, TypeOK
<1>3. [b \in Attempts |-> Verdict(outcome'[b])]
        = [[b \in Attempts |-> Verdict(outcome[b])]
             EXCEPT ![a] = [status |-> status, reported |-> reported]]
  BY <1>1, <1>2
<1>4. [b \in Attempts |-> Len(tool_results'[b])]
        = [[b \in Attempts |-> Len(tool_results[b])] EXCEPT ![a] = Len(results)]
  <2>1. \A b \in Attempts : /\ Len(tool_results'[b]) \in Nat /\ Len(tool_results[b]) \in Nat
                            /\ Len(tool_results'[b])
                                 = IF b = a THEN Len(results) ELSE Len(tool_results[b])
    BY <1>2 DEF TypeOK
  <2>2. QED
    BY ONLY <2>1, a \in Attempts
<1>5. Governed!Conclude(a, status)
  <2>1. Verdict(outcome[a]) = Governed!Running
    BY PendingRuns
  <2>2. status = "COMPLETED" => asked[a] > 0 /\ Len(results) = Len(sent[a])
    OBVIOUS
  <2>3. /\ reported \in {0, Len(results)}
        /\ status \in {"COMPLETED", "FAILED"} => reported = Len(results)
    OBVIOUS
  <2>4. QED
    BY ONLY <1>2, <1>3, <1>4, <2>1, <2>2, <2>3, a \in Attempts, UNCHANGED invocation,
            Len(results) \in {Len(tool_results[a]), Len(sent[a])}
       DEF Governed!Conclude
<1>6. status \in {"COMPLETED", "FAILED", "RAISED"}
  OBVIOUS
<1>7. QED
  BY <1>5, <1>6 DEF Governed!Next

\* So is one that fails.
LEMMA RefinesFail ==
  ASSUME TypeOK, NEW a \in Attempts, outcome[a] = Pending, NEW failure,
         NEW results \in Seq(Documents), Fail(a, failure, results),
         UNCHANGED invocation,
         tool_results' = [tool_results EXCEPT ![a] = results],
         Len(results) \in {Len(tool_results[a]), Len(sent[a])}
  PROVE  Governed!Next
<1>1. /\ FailureResult(a, failure, results).status = "FAILED"
      /\ FailureResult(a, failure, results).tool_results = results
  BY DEF FailureResult
<1>2. CASE End(a, FailureResult(a, failure, results))
  BY <1>1, <1>2, RefinesEnd
<1>3. CASE End(a, Raised("ContractValidationError"))
  <2>1. Raised("ContractValidationError") \in Exits
    BY DEF Exits
  <2>2. QED
    BY <1>3, <2>1, RefinesEnd
<1>4. QED
  BY <1>2, <1>3 DEF Fail

\* A tool call that leaves is a tool issued under the mandate.
LEMMA RefinesIssue ==
  ASSUME TypeOK, NEW a \in Attempts, outcome[a] = Pending, asked[a] = 0, NEW t \in Tools,
         Accepted(invocation[a]), ToolDenial(invocation[a], t) = "GRANTED",
         Within(Len(sent[a]) + 1, Budget(a)["max_tool_calls"]),
         Within(Len(sent[a]) + 2, Budget(a)["max_steps"]),
         sent' = [sent EXCEPT ![a] = Append(@, t)],
         NEW results \in Seq(Documents), Len(results) = Len(sent[a]),
         tool_results' = [tool_results EXCEPT ![a] = results],
         UNCHANGED <<invocation, asked, outcome>>
  PROVE  Governed!Next
<1>1. t \in Mandate(invocation[a]).tools
  BY ToolGranted DEF Mandate
<1>2. /\ Mandate(invocation[a]).calls = Budget(a)["max_tool_calls"]
      /\ Mandate(invocation[a]).steps = Budget(a)["max_steps"]
  BY DEF Mandate, Budget, Request
<1>3. /\ Governed!AtMost(Len(sent[a]) + 1, Mandate(invocation[a]).calls)
      /\ Governed!AtMost(Len(sent[a]) + 2, Mandate(invocation[a]).steps)
  BY <1>2 DEF Governed!AtMost, Within
<1>4. Verdict(outcome[a]) = Governed!Running /\ ~ (asked[a] > 0)
  BY PendingRuns
<1>5. [b \in Attempts |-> Len(tool_results'[b])]
        = [[b \in Attempts |-> Len(tool_results[b])] EXCEPT ![a] = Len(sent[a])]
  <2>1. \A b \in Attempts : /\ Len(tool_results'[b]) \in Nat /\ Len(tool_results[b]) \in Nat
                            /\ Len(tool_results'[b])
                                 = IF b = a THEN Len(sent[a]) ELSE Len(tool_results[b])
    BY DEF TypeOK
  <2>2. QED
    BY ONLY <2>1, a \in Attempts
<1>6. Governed!Issue(a, t)
  BY ONLY <1>1, <1>3, <1>4, <1>5, a \in Attempts,
          sent' = [sent EXCEPT ![a] = Append(@, t)], UNCHANGED <<invocation, asked, outcome>>
     DEF Governed!Issue
<1>7. QED
  BY <1>6 DEF Governed!Next

\* A request that reaches the provider is a consultation.
LEMMA RefinesConsult ==
  ASSUME TypeOK, NEW a \in Attempts, outcome[a] = Pending, asked[a] = 0,
         Accepted(invocation[a]), Budget(a)["max_tokens"] # NoLimit,
         asked' = [asked EXCEPT ![a] = @ + 1],
         NEW results \in Seq(Documents), Len(results) = Len(sent[a]),
         tool_results' = [tool_results EXCEPT ![a] = results],
         UNCHANGED <<invocation, sent, outcome>>
  PROVE  Governed!Next
<1>1. Mandate(invocation[a]).consult
  BY DEF Mandate, Budget, Request
<1>2. Verdict(outcome[a]) = Governed!Running /\ ~ (asked[a] > 0)
  BY PendingRuns
<1>3. [b \in Attempts |-> Len(tool_results'[b])]
        = [[b \in Attempts |-> Len(tool_results[b])] EXCEPT ![a] = Len(sent[a])]
  <2>1. \A b \in Attempts : /\ Len(tool_results'[b]) \in Nat /\ Len(tool_results[b]) \in Nat
                            /\ Len(tool_results'[b])
                                 = IF b = a THEN Len(sent[a]) ELSE Len(tool_results[b])
    BY DEF TypeOK
  <2>2. QED
    BY ONLY <2>1, a \in Attempts
<1>4. [b \in Attempts |-> asked'[b] > 0]
        = [[b \in Attempts |-> asked[b] > 0] EXCEPT ![a] = TRUE]
  <2>1. asked'[a] > 0 /\ \A b \in Attempts : b # a => asked'[b] = asked[b]
    BY DEF TypeOK
  <2>2. (asked'[a] > 0) = TRUE
    BY <2>1
  <2>3. QED
    BY ONLY <2>1, <2>2, a \in Attempts, Zenon
<1>5. Governed!Consult(a)
  BY ONLY <1>1, <1>2, <1>3, <1>4, a \in Attempts, UNCHANGED <<invocation, sent, outcome>>
     DEF Governed!Consult
<1>6. QED
  BY <1>5 DEF Governed!Next

\* The stretch to the next await is one step of GovernedRun.
LEMMA RefinesContinue ==
  ASSUME TypeOK, NEW a \in Attempts, outcome[a] = Pending, asked[a] = 0,
         Accepted(invocation[a]), NEW p \in Seq(Tools), PlanDenial(p, Budget(a)) = "GRANTED",
         NEW results \in Seq(Documents), Len(sent[a]) = Len(results), Len(results) <= Len(p),
         Continue(a, p, results),
         tool_results' = [tool_results EXCEPT ![a] = results],
         UNCHANGED invocation
  PROVE  Governed!Next
<1>1. /\ sent[a] \in Seq(Tools) /\ Len(sent[a]) \in Nat
      /\ Len(results) \in Nat /\ Len(p) \in Nat
  BY DEF TypeOK
<1>2. ASSUME NEW failure, Fail(a, failure, results) PROVE Governed!Next
  BY <1>2, RefinesFail
<1>3. CASE Len(results) < Len(p)
  <2> DEFINE t == p[Len(results) + 1]
  <2>1. CallTool(a, t, results) /\ t \in Tools
    BY <1>1, <1>3 DEF Continue
  <2>2. CASE /\ ToolDenial(invocation[a], t) = "GRANTED"
             /\ sent' = [sent EXCEPT ![a] = Append(@, t)]
             /\ UNCHANGED <<asked, outcome>>
    <3>1. Budget(a) \in Budgets
      BY AcceptedBudget
    <3>2. /\ Within(Len(sent[a]) + 1, Budget(a)["max_tool_calls"])
          /\ Within((Len(sent[a]) + 1) + 1, Budget(a)["max_steps"])
      BY <1>1, <1>3, <3>1, PlanPrefix
    <3>3. Within(Len(sent[a]) + 2, Budget(a)["max_steps"])
      BY <1>1, <3>2 DEF Within
    <3>4. QED
      BY <2>1, <2>2, <3>2, <3>3, RefinesIssue
  <2>3. QED
    BY <1>2, <2>1, <2>2 DEF CallTool
<1>4. CASE ~ (Len(results) < Len(p))
  <2>1. AskModel(a, results)
    BY <1>4 DEF Continue
  <2>2. CASE /\ Budget(a)["max_tokens"] # NoLimit
             /\ asked' = [asked EXCEPT ![a] = @ + 1]
             /\ UNCHANGED <<sent, outcome>>
    BY <2>2, RefinesConsult
  <2>3. QED
    BY <1>2, <2>1, <2>2 DEF AskModel
<1>5. QED
  BY <1>3, <1>4
-----------------------------------------------------------------------------
(* The refinement *)

\* Steps that change nothing GovernedRun sees.
LEMMA RefinesStutter ==
  ASSUME UNCHANGED <<invocation, sent, tool_results, asked, outcome>>
  PROVE  UNCHANGED Governed!vars
BY DEF Governed!vars

\* Every action of an attempt is a step of GovernedRun or stutters.
LEMMA RefinesAttempt ==
  ASSUME TypeOK, NEW a \in Attempts, Orderly(a), Recorded(a), Attempt(a)
  PROVE  Governed!Next \/ UNCHANGED Governed!vars
<1>1. /\ tool_results[a] \in Seq(Documents) /\ sent[a] \in Seq(Tools)
      /\ tool_results = [tool_results EXCEPT ![a] = tool_results[a]]
      /\ <<>> \in Seq(Documents) /\ Len(<<>>) = 0
  BY DEF TypeOK
<1>2. pc[a] \in Suspended \cup {"idle"} => outcome[a] = Pending
  BY DEF Orderly, Conduct
<1>3. ASSUME NEW failure, Fail(a, failure, tool_results[a]), outcome[a] = Pending,
             UNCHANGED <<invocation, tool_results>>
      PROVE  Governed!Next
  BY <1>1, <1>3, RefinesFail
<1>4. ASSUME NEW exit \in Exits, End(a, exit), outcome[a] = Pending,
             UNCHANGED <<invocation, tool_results>>
      PROVE  Governed!Next
  BY <1>1, <1>4, RefinesEnd
<1>5. CASE Run(a)
  <2>1. /\ pc[a] = "idle" /\ tool_results[a] = <<>> /\ UNCHANGED <<invocation, tool_results>>
    BY <1>5 DEF Run, Orderly, Conduct
  <2>2. CASE \E failure : Fail(a, failure, <<>>)
    BY <1>2, <1>3, <2>1, <2>2
  <2>3. CASE End(a, Raised("RuntimeRequestRejected"))
    BY <1>2, <1>4, <2>1, <2>3 DEF Exits
  <2>4. CASE UNCHANGED <<sent, asked, outcome>>
    BY <2>1, <2>4, RefinesStutter
  <2>5. QED
    BY <1>5, <2>2, <2>3, <2>4 DEF Run
<1>6. ASSUME NEW p \in Plans, PlanReturns(a, p) PROVE Governed!Next
  <2>1. /\ pc[a] = "planning" /\ tool_results[a] = <<>> /\ sent[a] = <<>> /\ asked[a] = 0
        /\ outcome[a] = Pending /\ Accepted(invocation[a])
        /\ UNCHANGED <<invocation, tool_results>>
    BY <1>6 DEF PlanReturns, Orderly, Conduct, Suspended
  <2>2. CASE \E failure : Fail(a, failure, <<>>)
    BY <1>3, <2>1, <2>2
  <2>3. CASE PlanDenial(p, Budget(a)) = "GRANTED" /\ Continue(a, p, <<>>)
    <3>1. p \in Seq(Tools) /\ Len(p) \in Nat
      BY PlansAssumption DEF PlansAssumption
    <3>2. Len(sent[a]) = Len(<<>>) /\ Len(<<>>) <= Len(p)
      BY <2>1, <3>1
    <3>3. tool_results' = [tool_results EXCEPT ![a] = <<>>]
      BY <1>1, <2>1
    <3>4. QED
      BY <1>1, <2>1, <2>3, <3>1, <3>2, <3>3, RefinesContinue
  <2>4. QED
    BY <1>6, <2>2, <2>3 DEF PlanReturns
<1>7. ASSUME NEW e \in Exceptions, PlanRaises(a, e) PROVE Governed!Next
  <2>1. tool_results[a] = <<>>
    BY <1>7 DEF PlanRaises, Orderly, Conduct
  <2>2. QED
    BY <1>2, <1>3, <1>7, <2>1 DEF PlanRaises, Suspended
<1>8. ASSUME NEW b \in ClientBreakdowns, HttpEnds(a, b) PROVE UNCHANGED Governed!vars
  BY <1>8, RefinesStutter DEF HttpEnds
<1>9. CASE ToolReturns(a)
  <2>1. /\ pc[a] = "calling" /\ reply[a] \in Replies /\ UNCHANGED <<invocation, plan>>
        /\ outcome[a] = Pending /\ asked[a] = 0 /\ Accepted(invocation[a])
        /\ PlanDenial(plan[a], Budget(a)) = "GRANTED"
        /\ Len(sent[a]) = Len(tool_results[a]) + 1 /\ Len(sent[a]) <= Len(plan[a])
    BY <1>9 DEF ToolReturns, TypeOK, Orderly, Conduct, Suspended
  <2>2. CASE Fail(a, Unexpected, tool_results[a]) /\ UNCHANGED tool_results
    BY <1>3, <2>1, <2>2
  <2>3. CASE Returns(reply[a], Request(a).correlation_id)
    <3> DEFINE results == Append(tool_results[a], reply[a])
    <3>1. reply[a] \in Documents
      BY <2>1, <2>3 DEF Returns, Replies, Breakdowns
    <3>2. results \in Seq(Documents) /\ Len(results) = Len(sent[a])
      BY <1>1, <2>1, <3>1
    <3>3. tool_results' = [tool_results EXCEPT ![a] = results]
      BY <1>9, <2>3 DEF ToolReturns
    <3>4. CASE \E failure : Fail(a, failure, results)
      BY <2>1, <3>2, <3>3, <3>4, RefinesFail
    <3>5. CASE Continue(a, plan[a], results)
      <4>1. plan[a] \in Seq(Tools)
        <5>1. plan[a] \in Plans \cup {<<>>}
          BY DEF TypeOK
        <5>2. Plans \subseteq Seq(Tools) /\ <<>> \in Seq(Tools)
          BY PlansAssumption DEF PlansAssumption
        <5>3. QED
          BY <5>1, <5>2
      <4>2. Len(results) <= Len(plan[a])
        BY <2>1, <3>2
      <4>3. QED
        BY ONLY TypeOK, a \in Attempts, <2>1, <3>2, <3>3, <3>5, <4>1, <4>2, RefinesContinue
    <3>6. QED
      BY <1>9, <2>3, <3>4, <3>5 DEF ToolReturns
  <2>4. QED
    BY <1>9, <2>2, <2>3 DEF ToolReturns
<1>10. ASSUME NEW r \in ModelResponses, ModelReturns(a, r) PROVE Governed!Next
  <2>1. /\ outcome[a] = Pending /\ Len(sent[a]) = Len(tool_results[a])
        /\ UNCHANGED <<invocation, tool_results>>
    BY <1>10 DEF ModelReturns, Orderly, Conduct, Suspended
  <2>2. CASE \E failure : Fail(a, failure, tool_results[a])
    BY <1>3, <2>1, <2>2
  <2>3. CASE End(a, SuccessResult(a, r))
    <3>1. /\ SuccessResult(a, r).status = "COMPLETED"
          /\ SuccessResult(a, r).tool_results = tool_results[a]
      BY DEF SuccessResult
    <3>2. asked[a] > 0
      BY <1>10 DEF ModelReturns, Recorded, Underway
    <3>3. QED
      BY <1>1, <2>1, <2>3, <3>1, <3>2, RefinesEnd
  <2>4. QED
    BY <1>10, <2>2, <2>3 DEF ModelReturns
<1>11. ASSUME NEW e \in Exceptions, ModelRaises(a, e) PROVE Governed!Next
  BY <1>2, <1>3, <1>11 DEF ModelRaises, Suspended
<1>12. CASE RunTimeout(a)
  BY <1>2, <1>3, <1>12 DEF RunTimeout
<1>13. CASE Cancel(a)
  BY <1>2, <1>4, <1>13 DEF Cancel, Exits
<1>14. QED
  BY <1>5, <1>6, <1>7, <1>8, <1>9, <1>10, <1>11, <1>12, <1>13 DEF Attempt

\* The runtime implements GovernedRun: whatever the planner, the Backend and the provider do,
\* an attempt works under its mandate, consults the model at most once and last, ends once, and
\* reports every answer it has.
THEOREM RuntimeImplementsGovernedRun == Spec => ImplementsGovernedRun
<1>1. Known /\ [Next]_vars => [Governed!Next]_(Governed!vars)
  <2> SUFFICES ASSUME Known, [Next]_vars PROVE Governed!Next \/ UNCHANGED Governed!vars
    OBVIOUS
  <2>1. ASSUME NEW a \in Attempts, Attempt(a) PROVE Governed!Next \/ UNCHANGED Governed!vars
    BY <2>1, RefinesAttempt DEF Known, IInv
  <2>2. ASSUME NEW a \in Attempts, Backend(a) PROVE UNCHANGED Governed!vars
    BY <2>2, RefinesStutter DEF Backend, BackendMisses, BackendAnswers, attemptVars
  <2>3. CASE UNCHANGED vars
    BY <2>3, RefinesStutter DEF vars
  <2>4. QED
    BY <2>1, <2>2, <2>3 DEF Next
<1>2. QED
  BY <1>1, RefinesInit, KnownAlways, PTL DEF Spec, ImplementsGovernedRun, Governed!Spec
=============================================================================
