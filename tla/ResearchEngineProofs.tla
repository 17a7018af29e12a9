-------------------------- MODULE ResearchEngineProofs --------------------------
(***************************************************************************)
(* What holds of research() for every request, bundle, draft and ending of *)
(* the tool call, and that it implements GovernedRun; of an analysis       *)
(* beside it; and of a comparison, for every list of documents.            *)
(***************************************************************************)
EXTENDS ResearchDesk, OrderingProofs

-----------------------------------------------------------------------------
(* The evidence of a bundle *)

\* A set of indices that is not empty has a last one.
LEMMA LastIndex ==
  ASSUME NEW n \in Nat, NEW T \in SUBSET (1..n), T # {}
  PROVE  \E m \in T : \A k \in T : k <= m
<1> DEFINE U == {u \in Nat : \E k \in T : u = n - k}
<1>1. U # {}
  <2>1. PICK k \in T : TRUE
    OBVIOUS
  <2>2. n - k \in Nat
    OBVIOUS
  <2>3. QED
    BY <2>1, <2>2
<1>2. PICK x \in U : \A y \in U : x <= y
  BY <1>1, LeastNumber
<1>3. PICK m \in T : x = n - m
  OBVIOUS
<1>4. ASSUME NEW k \in T PROVE k <= m
  <2>1. n - k \in U
    OBVIOUS
  <2>2. n - m <= n - k
    BY <1>2, <1>3, <2>1
  <2>3. QED
    BY <2>2
<1>5. QED
  BY <1>4

\* The only element of a sequence of one.
LEMMA FirstOfOne == ASSUME NEW S, NEW s \in Seq(S), Len(s) = 1 PROVE s[1] \in S
OBVIOUS

\* The values of evidence_by_id are references of the bundle, one for each id in it.
LEMMA EvidenceOfBundle ==
  ASSUME NEW bundle \in ContextBundles
  PROVE  /\ EvidenceOf(bundle) \subseteq EvidenceRefs
         /\ \A e \in EvidenceOf(bundle) : \E k \in DOMAIN bundle.evidence_refs :
              e = bundle.evidence_refs[k]
         /\ \A e, f \in EvidenceOf(bundle) : e.evidence_id = f.evidence_id => e = f
         /\ EvidenceIdsOf(bundle) = {e.evidence_id : e \in EvidenceOf(bundle)}
<1> DEFINE refs == bundle.evidence_refs
           Last(i) == \A j \in DOMAIN refs : refs[j].evidence_id = refs[i].evidence_id => j <= i
<1>1. refs \in Seq(EvidenceRefs)
  BY DEF ContextBundles
<1>2. /\ Len(refs) \in Nat /\ DOMAIN refs = 1..Len(refs)
      /\ \A k \in DOMAIN refs : refs[k] \in EvidenceRefs
  BY <1>1
<1>3. EvidenceOf(bundle) = {refs[k] : k \in {i \in DOMAIN refs : Last(i)}}
  BY DEF EvidenceOf
<1>4. \A e \in EvidenceOf(bundle) : \E k \in DOMAIN refs : e = refs[k] /\ Last(k)
  BY <1>3
<1>5. \A e, f \in EvidenceOf(bundle) : e.evidence_id = f.evidence_id => e = f
  <2>1. SUFFICES ASSUME NEW e \in EvidenceOf(bundle), NEW f \in EvidenceOf(bundle),
                        e.evidence_id = f.evidence_id
                 PROVE  e = f
    OBVIOUS
  <2>2. PICK i \in DOMAIN refs : e = refs[i] /\ Last(i)
    BY <1>4
  <2>3. PICK j \in DOMAIN refs : f = refs[j] /\ Last(j)
    BY <1>4
  <2>4. j <= i /\ i <= j
    BY <2>1, <2>2, <2>3
  <2>5. i = j
    BY <2>4, <1>2
  <2>6. QED
    BY <2>2, <2>3, <2>5
<1>6. ASSUME NEW k \in DOMAIN refs
      PROVE  \E e \in EvidenceOf(bundle) : e.evidence_id = refs[k].evidence_id
  <2> DEFINE T == {i \in DOMAIN refs : refs[i].evidence_id = refs[k].evidence_id}
  <2>1. T \in SUBSET (1..Len(refs)) /\ T # {}
    BY <1>2
  <2>2. PICK m \in T : \A i \in T : i <= m
    BY <2>1, <1>2, LastIndex
  <2>3. Last(m)
    BY <2>2
  <2>4. refs[m] \in EvidenceOf(bundle)
    BY <2>3, <1>3
  <2>5. QED
    BY <2>4
<1>7. EvidenceIdsOf(bundle) = {refs[k].evidence_id : k \in DOMAIN refs}
  BY DEF EvidenceIdsOf
<1>8. EvidenceIdsOf(bundle) \subseteq {e.evidence_id : e \in EvidenceOf(bundle)}
  BY <1>6, <1>7
<1>9. {e.evidence_id : e \in EvidenceOf(bundle)} \subseteq EvidenceIdsOf(bundle)
  BY <1>4, <1>7
<1>10. QED
  BY <1>2, <1>3, <1>4, <1>5, <1>8, <1>9

\* A draft without an unknown citation yields references for all it cites.
LEMMA ReferencesOfCited ==
  ASSUME NEW bundle \in ContextBundles, NEW draft \in ResearchDrafts,
         ~ CitesUnknown(draft, bundle), NEW ids \in draft.findings
  PROVE  References(ids, bundle) # {}
<1>1. PICK id \in ids : TRUE
  BY DEF ResearchDrafts
<1>2. id \in EvidenceIdsOf(bundle)
  BY <1>1 DEF CitesUnknown, Cited
<1>3. PICK e \in EvidenceOf(bundle) : e.evidence_id = id
  BY <1>2, EvidenceOfBundle
<1>4. QED
  BY <1>1, <1>3 DEF References
-----------------------------------------------------------------------------
(* The inductive invariant *)

\* How far the call has come says what has been sent and asked.
Progress ==
  /\ pc = "received" => sent = <<>> /\ asked = <<>>
  /\ pc = "retrieving" =>
       /\ sent = <<SearchContext>> /\ asked = <<>>
       /\ request.context_bundle = NoBundle /\ has_provider
  /\ pc \in {"received", "retrieving"} => outcome = Pending

IInv == TypeOK /\ ModelReadsOwnContext /\ EvidenceBound /\ Progress

\* The tokens asked for are a number within both bounds.
LEMMA MaxTokensType ==
  ASSUME TypeOK
  PROVE  /\ MaxTokens \in Nat /\ MaxTokens <= 2000
         /\ Context.execution_budget # NoBudget =>
              Within(MaxTokens, Context.execution_budget["max_tokens"])
<1>1. Context \in ExecutionContexts
  BY RequestsAssumption DEF TypeOK, RequestsAssumption, ResearchRequests, Context
<1>2. CASE Context.execution_budget = NoBudget
  BY <1>2 DEF MaxTokens
<1>3. CASE Context.execution_budget # NoBudget
  <2>1. Context.execution_budget["max_tokens"] \in Nat \cup {NoLimit}
    BY <1>1, <1>3 DEF ExecutionContexts, Budgets, Limits
  <2>2. QED
    BY <1>3, <2>1, NoLimitAssumption DEF MaxTokens, Within, NoLimitAssumption
<1>4. QED
  BY <1>2, <1>3

\* An end in an exception keeps everything.
LEMMA RaiseKeeps ==
  ASSUME IInv, NEW exception \in Exceptions, Raise(exception),
         UNCHANGED <<has_provider, request>>
  PROVE  IInv'
<1>1. outcome' \notin ResearchResults /\ outcome' # Pending
  BY DEF Raise, Raised, Exceptions, ResearchResults, Pending
<1>2. TypeOK'
  BY <1>1 DEF IInv, TypeOK, Raise
<1>3. ModelReadsOwnContext'
  BY DEF IInv, Raise, ModelReadsOwnContext, Context
<1>4. EvidenceBound'
  BY <1>1 DEF EvidenceBound
<1>5. Progress'
  BY DEF Raise, Progress
<1>6. QED
  BY <1>2, <1>3, <1>4, <1>5 DEF IInv

\* Whatever the bundle is, it is asked about only after its checks.
LEMMA UseBundleKeeps ==
  ASSUME IInv, NEW bundle \in ContextBundles, UseBundle(bundle),
         pc \in {"received", "retrieving"}, UNCHANGED <<has_provider, request>>
  PROVE  IInv'
<1>1. CASE \E e \in Exceptions : Raise(e)
  BY <1>1, RaiseKeeps
<1>2. CASE /\ SameIdentity(bundle) /\ EvidenceIdsOf(bundle) # {}
           /\ MaxTokens # 0 /\ AdmitsModelRequest(ModelRequest)
           /\ pc' = "reasoning"
           /\ asked' = Append(asked, [bundle |-> bundle, max_tokens |-> MaxTokens])
           /\ UNCHANGED <<sent, outcome>>
  <2> DEFINE prompt == [bundle |-> bundle, max_tokens |-> MaxTokens]
  <2>1. asked = <<>> /\ outcome = Pending
    BY DEF IInv, Progress
  <2>2. asked' = <<prompt>>
    BY <1>2, <2>1
  <2>3. prompt \in [bundle : ContextBundles, max_tokens : Nat \ {0}]
    BY <1>2, MaxTokensType DEF IInv
  <2>4. Pending \notin ResearchResults
    BY DEF Pending, ResearchResults
  <2>5. TypeOK'
    <3>1. asked' \in Seq([bundle : ContextBundles, max_tokens : Nat \ {0}]) /\ Len(asked') = 1
      BY <2>2, <2>3
    <3>2. QED
      BY <1>2, <2>1, <3>1 DEF IInv, TypeOK
  <2>6. ModelReadsOwnContext'
    <3>1. bundle.evidence_refs # <<>>
      BY <1>2 DEF EvidenceIdsOf
    <3>2. Rank[Context.data_classification] <= Rank[MaximumDataClassification]
      BY <1>2 DEF AdmitsModelRequest, Authorizes, ModelRequest
    <3>3. /\ DOMAIN asked' = {1} /\ asked'[1] = prompt
      BY <2>2
    <3>4. Context' = Context
      BY DEF Context
    <3>5. QED
      BY <1>2, <3>1, <3>2, <3>3, <3>4, MaxTokensType
         DEF ModelReadsOwnContext, SameIdentity, IInv
  <2>7. EvidenceBound'
    BY <1>2, <2>1, <2>4 DEF EvidenceBound
  <2>8. Progress'
    BY <1>2 DEF Progress
  <2>9. QED
    BY <2>5, <2>6, <2>7, <2>8 DEF IInv
<1>3. QED
  BY <1>1, <1>2 DEF UseBundle, Exceptions

\* A tool call is sent by a request without a bundle only.
LEMMA CallBackendKeeps ==
  ASSUME IInv, CallBackend, pc = "received", request.context_bundle = NoBundle, has_provider,
         UNCHANGED <<has_provider, request>>
  PROVE  IInv'
<1>1. CASE Raise("ToolContractError")
  BY <1>1, RaiseKeeps DEF Exceptions
<1>2. CASE /\ pc' = "retrieving" /\ sent' = Append(sent, SearchContext)
           /\ UNCHANGED <<asked, outcome>>
  <2>1. sent = <<>> /\ asked = <<>> /\ outcome = Pending
    BY DEF IInv, Progress
  <2>2. sent' = <<SearchContext>>
    BY <1>2, <2>1
  <2>3. sent' \in Seq({SearchContext})
    BY <2>2
  <2>4. TypeOK'
    BY <1>2, <2>1, <2>3 DEF IInv, TypeOK
  <2>5. ModelReadsOwnContext'
    BY <1>2, <2>1 DEF ModelReadsOwnContext
  <2>6. EvidenceBound'
    BY <1>2, <2>1 DEF EvidenceBound, Pending, ResearchResults
  <2>7. Progress'
    BY <1>2, <2>1, <2>2 DEF Progress
  <2>8. QED
    BY <2>4, <2>5, <2>6, <2>7 DEF IInv
<1>3. QED
  BY <1>1, <1>2 DEF CallBackend

\* Every step of the call keeps the invariant.
LEMMA StepKeeps == ASSUME IInv, [Next]_vars PROVE IInv'
<1>1. CASE UNCHANGED vars
  BY <1>1 DEF vars, IInv, TypeOK, ModelReadsOwnContext, EvidenceBound, Progress, Context
<1>2. CASE Research
  <2>1. request \in ResearchRequests
    BY RequestsAssumption DEF IInv, TypeOK, RequestsAssumption
  <2>2. CASE \E e \in Exceptions : Raise(e)
    BY <1>2, <2>2, RaiseKeeps DEF Research
  <2>3. CASE request.context_bundle # NoBundle /\ UseBundle(request.context_bundle)
    <3>1. request.context_bundle \in ContextBundles
      BY <2>1, <2>3 DEF ResearchRequests
    <3>2. QED
      BY <1>2, <2>3, <3>1, UseBundleKeeps DEF Research
  <2>4. CASE request.context_bundle = NoBundle /\ has_provider /\ CallBackend
    BY <1>2, <2>4, CallBackendKeeps DEF Research
  <2>5. QED
    BY <1>2, <2>2, <2>3, <2>4 DEF Research, Exceptions
<1>3. ASSUME NEW reply \in Replies, NEW output \in Outputs, ContextReturns(reply, output)
      PROVE  IInv'
  <2>1. CASE \E e \in Exceptions : Raise(e)
    BY <1>3, <2>1, RaiseKeeps DEF ContextReturns
  <2>2. CASE output # NoBundle /\ UseBundle(output)
    <3>1. output \in ContextBundles
      BY <2>2, OutputsAssumption DEF OutputsAssumption
    <3>2. QED
      BY <1>3, <2>2, <3>1, UseBundleKeeps DEF ContextReturns
  <2>3. QED
    BY <1>3, <2>1, <2>2 DEF ContextReturns, Exceptions
<1>4. ASSUME NEW draft \in Drafts, ModelReturns(draft) PROVE IInv'
  <2> DEFINE bundle == asked[1].bundle
  <2>1. bundle \in ContextBundles /\ Len(asked) = 1
    <3>1. /\ asked \in Seq([bundle : ContextBundles, max_tokens : Nat \ {0}])
          /\ Len(asked) = 1
      BY <1>4 DEF IInv, TypeOK, ModelReturns
    <3>2. asked[1] \in [bundle : ContextBundles, max_tokens : Nat \ {0}]
      BY <3>1, FirstOfOne
    <3>3. QED
      BY <3>1, <3>2
  <2>2. CASE \E e \in Exceptions : Raise(e)
    BY <1>4, <2>2, RaiseKeeps DEF ModelReturns
  <2>3. CASE /\ ~ CitesUnknown(draft, bundle)
             /\ pc' = "ended" /\ outcome' = ResearchResult(draft, bundle)
             /\ UNCHANGED <<sent, asked>>
    <3>1. draft \in ResearchDrafts
      BY DraftsAssumption DEF DraftsAssumption
    <3>2. EvidenceOf(bundle) \subseteq EvidenceRefs
      BY <2>1, EvidenceOfBundle
    <3>3. /\ outcome'.findings = {References(ids, bundle) : ids \in draft.findings}
          /\ outcome'.recommendations = {References(ids, bundle) : ids \in draft.recommendations}
          /\ outcome'.evidence_bundle = EvidenceOf(bundle)
      BY <2>3 DEF ResearchResult
    <3>4. outcome' \in ResearchResults
      <4>1. \A ids : References(ids, bundle) \in SUBSET EvidenceRefs
        BY <3>2 DEF References
      <4>2. request.correlation_id \in CorrelationIds
        BY RequestsAssumption DEF IInv, TypeOK, RequestsAssumption, ResearchRequests
      <4>3. QED
        BY <2>3, <3>2, <4>1, <4>2 DEF ResearchResult, ResearchResults
    <3>5. TypeOK'
      <4>1. outcome' # Pending
        BY <2>3 DEF ResearchResult, Pending
      <4>2. QED
        BY <1>4, <2>3, <3>4, <4>1 DEF IInv, TypeOK, ModelReturns
    <3>6. ModelReadsOwnContext'
      BY <1>4, <2>3 DEF IInv, ModelReadsOwnContext, ModelReturns, Context
    <3>7. EvidenceBound'
      <4>1. {} \notin outcome'.findings
        BY <2>1, <2>3, <3>1, <3>3, ReferencesOfCited
      <4>2. \A ids : References(ids, bundle) \subseteq EvidenceOf(bundle)
        BY DEF References
      <4>3. UNION (outcome'.findings \cup outcome'.recommendations) \subseteq EvidenceOf(bundle)
        BY <3>3, <4>2
      <4>4. asked' = asked
        BY <2>3
      <4>5. /\ \A e \in EvidenceOf(bundle) : \E k \in DOMAIN bundle.evidence_refs :
                 e = bundle.evidence_refs[k]
            /\ \A e, f \in EvidenceOf(bundle) : e.evidence_id = f.evidence_id => e = f
            /\ EvidenceIdsOf(bundle) = {e.evidence_id : e \in EvidenceOf(bundle)}
        BY <2>1, EvidenceOfBundle
      <4>6. EvidenceIdsOf(asked'[1].bundle) = EvidenceIdsOf(bundle)
        BY <4>4
      <4>7. QED
        BY <2>1, <3>3, <4>1, <4>3, <4>4, <4>5, <4>6 DEF EvidenceBound
    <3>8. Progress'
      BY <2>3 DEF Progress
    <3>9. QED
      BY <3>5, <3>6, <3>7, <3>8 DEF IInv
  <2>4. QED
    BY <1>4, <2>2, <2>3 DEF ModelReturns, Exceptions
<1>5. CASE ModelRaises \/ Cancel
  BY <1>5, RaiseKeeps DEF ModelRaises, Cancel, Exceptions
<1>6. QED
  BY <1>1, <1>2, <1>3, <1>4, <1>5 DEF Next

\* A request that has just arrived satisfies the invariant.
LEMMA InitHolds == ASSUME Init PROVE IInv
<1>1. Pending \notin ResearchResults
  BY DEF Pending, ResearchResults
<1>2. <<>> \in Seq({SearchContext})
      /\ <<>> \in Seq([bundle : ContextBundles, max_tokens : Nat \ {0}]) /\ Len(<<>>) = 0
  OBVIOUS
<1>3. QED
  BY <1>1, <1>2 DEF Init, IInv, TypeOK, ModelReadsOwnContext, EvidenceBound, Progress

\* The inductive invariant holds throughout.
THEOREM Invariant == Spec => []IInv
BY InitHolds, StepKeeps, PTL DEF Spec

\* Every reachable state of a call has the shape of the models.
THEOREM TypeCorrect == Spec => []TypeOK
<1>1. IInv => TypeOK
  BY DEF IInv
<1>2. QED
  BY <1>1, Invariant, PTL

\* The model never reads a bundle of another identity or correlation, or one without evidence,
\* and is never asked for more tokens than both bounds allow.
THEOREM OwnContextOnly == Spec => []ModelReadsOwnContext
<1>1. IInv => ModelReadsOwnContext
  BY DEF IInv
<1>2. QED
  BY <1>1, Invariant, PTL

\* A result cites only evidence of the bundle the model has read, and carries that evidence.
THEOREM ResultsAreEvidenceBound == Spec => []EvidenceBound
<1>1. IInv => EvidenceBound
  BY DEF IInv
<1>2. QED
  BY <1>1, Invariant, PTL
-----------------------------------------------------------------------------
(* The refinement *)

Answered == IF asked = <<>> THEN 0 ELSE Len(sent)

\* A function on the one run, and its update.
LEMMA OneRun ==
  ASSUME NEW x, NEW y
  PROVE  /\ [a \in {"research"} |-> x]["research"] = x
         /\ [[a \in {"research"} |-> x] EXCEPT !["research"] = y] = [a \in {"research"} |-> y]
OBVIOUS

\* A run concludes when its verdict does, with every answer it knows of.
LEMMA Concludes ==
  ASSUME NEW status, NEW n \in {Answered, Len(sent)}, NEW reported \in {0, n},
         status \in {"COMPLETED", "FAILED"} => reported = n,
         status = "COMPLETED" => asked # <<>> /\ n = Len(sent),
         Verdict(outcome) = [status |-> "RUNNING", reported |-> 0],
         Verdict(outcome)' = [status |-> status, reported |-> reported],
         Answered' = n, UNCHANGED <<has_provider, request, sent, asked>>
  PROVE  Governed!Conclude("research", status)
<1> DEFINE answered == [a \in {"research"} |-> Answered]
           verdict == [a \in {"research"} |-> Verdict(outcome)]
           next == [status |-> status, reported |-> reported]
<1>1. answered' = [answered EXCEPT !["research"] = n]
  BY OneRun
<1>2. verdict' = [verdict EXCEPT !["research"] = next]
  BY OneRun
<1>3. verdict["research"] = Governed!Running
  BY OneRun DEF Governed!Running
<1>4. answered["research"] = Answered
  BY OneRun
<1>5. UNCHANGED <<[a \in {"research"} |-> Mandate(request, has_provider)],
                  [a \in {"research"} |-> sent], [a \in {"research"} |-> asked # <<>>]>>
  BY DEF Mandate
<1>6. /\ [a \in {"research"} |-> sent]["research"] = sent
      /\ [a \in {"research"} |-> asked # <<>>]["research"] = (asked # <<>>)
  OBVIOUS
<1> HIDE DEF answered, verdict, next
<1>7. QED
  BY <1>1, <1>2, <1>3, <1>4, <1>5, <1>6
     DEF Governed!Conclude, answered, verdict, next, Answered

\* A call that ends in an exception concludes its run, raised.
LEMMA RaiseConcludes ==
  ASSUME IInv, pc # "ended", NEW exception \in Exceptions, Raise(exception),
         UNCHANGED <<has_provider, request>>
  PROVE  Governed!Conclude("research", "RAISED")
<1>1. outcome = Pending
  BY DEF IInv, TypeOK
<1>2. Verdict(outcome) = [status |-> "RUNNING", reported |-> 0]
  BY <1>1 DEF Verdict
<1>3. Verdict(outcome)' = [status |-> "RAISED", reported |-> 0]
  <2>1. outcome' # Pending /\ outcome' \notin ResearchResults
    BY DEF Raise, Raised, Exceptions, Pending, ResearchResults
  <2>2. QED
    BY <2>1 DEF Verdict
<1>4. UNCHANGED <<has_provider, request, sent, asked>>
  BY DEF Raise
<1>5. Answered' = Answered
  BY <1>4 DEF Answered
<1>6. QED
  BY <1>2, <1>3, <1>4, <1>5, Concludes

\* A call that is up to something has no verdict yet.
LEMMA Running ==
  ASSUME IInv, pc # "ended"
  PROVE  /\ outcome = Pending
         /\ Verdict(outcome) = [status |-> "RUNNING", reported |-> 0]
BY DEF IInv, TypeOK, Verdict

\* The search is the one tool call of a run whose mandate has it.
LEMMA CallIssues ==
  ASSUME IInv, CallBackend, pc = "received", request.context_bundle = NoBundle, has_provider,
         UNCHANGED <<has_provider, request>>
  PROVE  Governed!Next
<1>1. CASE Raise("ToolContractError")
  BY <1>1, RaiseConcludes DEF Governed!Next, Exceptions
<1>2. CASE /\ pc' = "retrieving" /\ sent' = Append(sent, SearchContext)
           /\ UNCHANGED <<asked, outcome>>
  <2> DEFINE m == Mandate(request, has_provider)
  <2>1. sent = <<>> /\ asked = <<>> /\ outcome = Pending
    BY DEF IInv, Progress
  <2>2. Verdict(outcome) = Governed!Running
    BY Running DEF Governed!Running
  <2>3. Verdict(outcome)' = Verdict(outcome)
    BY <1>2, <2>1 DEF Verdict
  <2>4. SearchContext \in m.tools /\ m.calls = 1 /\ m.steps = 2
    BY DEF Mandate
  <2>5. Len(sent) = 0 /\ Answered = 0 /\ Answered' = 0
    BY <1>2, <2>1 DEF Answered
  <2>6. m' = m
    BY DEF Mandate
  <2> HIDE DEF m
  <2>7. Governed!Issue("research", SearchContext)
    <3>1. /\ [a \in {"research"} |-> Verdict(outcome)]["research"] = Governed!Running
          /\ [a \in {"research"} |-> Verdict(outcome)]' = [a \in {"research"} |-> Verdict(outcome)]
      BY <2>2, <2>3
    <3>2. /\ [a \in {"research"} |-> asked # <<>>]["research"] = FALSE
          /\ [a \in {"research"} |-> asked # <<>>]' = [a \in {"research"} |-> asked # <<>>]
      BY <1>2, <2>1
    <3>3. /\ [a \in {"research"} |-> m]["research"] = m
          /\ [a \in {"research"} |-> m]' = [a \in {"research"} |-> m]
      BY <2>6
    <3>4. /\ [a \in {"research"} |-> sent]["research"] = sent
          /\ [a \in {"research"} |-> sent]'
               = [[a \in {"research"} |-> sent] EXCEPT !["research"] = Append(@, SearchContext)]
      BY <1>2
    <3>5. [a \in {"research"} |-> Answered]'
            = [[a \in {"research"} |-> Answered] EXCEPT !["research"] = Len(sent)]
      BY <2>5
    <3>6. Governed!AtMost(1, 1) /\ Governed!AtMost(2, 2)
      BY DEF Governed!AtMost
    <3>7. Len(sent) + 1 = 1 /\ Len(sent) + 2 = 2
      BY <2>5
    <3>8. QED
      BY <2>4, <3>1, <3>2, <3>3, <3>4, <3>5, <3>6, <3>7 DEF Governed!Issue, m, Answered
  <2>8. QED
    BY <2>7 DEF Governed!Next
<1>3. QED
  BY <1>1, <1>2 DEF CallBackend

\* The model is consulted once every tool call has its answer.
LEMMA UseBundleConsults ==
  ASSUME IInv, NEW bundle \in ContextBundles, UseBundle(bundle),
         pc \in {"received", "retrieving"}, UNCHANGED <<has_provider, request>>
  PROVE  Governed!Next
<1>1. CASE \E e \in Exceptions : Raise(e)
  BY <1>1, RaiseConcludes DEF Governed!Next
<1>2. CASE /\ pc' = "reasoning"
           /\ asked' = Append(asked, [bundle |-> bundle, max_tokens |-> MaxTokens])
           /\ UNCHANGED <<sent, outcome>>
  <2> DEFINE m == Mandate(request, has_provider)
  <2>1. asked = <<>> /\ outcome = Pending
    BY DEF IInv, Progress
  <2>2. asked' # <<>>
    BY <1>2, <2>1
  <2>3. Verdict(outcome) = Governed!Running /\ Verdict(outcome)' = Verdict(outcome)
    BY <1>2, <2>1 DEF Verdict, Governed!Running
  <2>4. m.consult /\ m' = m
    BY DEF Mandate
  <2>5. Answered' = Len(sent)
    BY <1>2, <2>2 DEF Answered
  <2> HIDE DEF m
  <2>6. Governed!Consult("research")
    <3>1. /\ [a \in {"research"} |-> Verdict(outcome)]["research"] = Governed!Running
          /\ [a \in {"research"} |-> Verdict(outcome)]' = [a \in {"research"} |-> Verdict(outcome)]
      BY <2>3
    <3>2. /\ [a \in {"research"} |-> asked # <<>>]["research"] = FALSE
          /\ [a \in {"research"} |-> asked # <<>>]'
               = [[a \in {"research"} |-> asked # <<>>] EXCEPT !["research"] = TRUE]
      BY <2>1, <2>2
    <3>3. /\ [a \in {"research"} |-> m]["research"] = m
          /\ [a \in {"research"} |-> m]' = [a \in {"research"} |-> m]
      BY <2>4
    <3>4. /\ [a \in {"research"} |-> sent]["research"] = sent
          /\ [a \in {"research"} |-> sent]' = [a \in {"research"} |-> sent]
      BY <1>2
    <3>5. [a \in {"research"} |-> Answered]'
            = [[a \in {"research"} |-> Answered] EXCEPT !["research"] = Len(sent)]
      BY <2>5
    <3>6. QED
      BY <2>4, <3>1, <3>2, <3>3, <3>4, <3>5 DEF Governed!Consult, m, Answered
  <2>7. QED
    BY <2>6 DEF Governed!Next
<1>3. QED
  BY <1>1, <1>2 DEF UseBundle, Exceptions

\* One call is a call.
LEMMA EmptyIsNotOne == Len(asked) = 1 => asked # <<>>
OBVIOUS

\* Every step of research() is a step of the governed run, or none.
LEMMA StepIsGoverned == ASSUME IInv, [Next]_vars PROVE [Governed!Next]_(Governed!vars)
<1>1. CASE UNCHANGED vars
  BY <1>1 DEF vars, Governed!vars, Verdict, Mandate
<1>2. CASE Research
  <2>1. request \in ResearchRequests
    BY RequestsAssumption DEF IInv, TypeOK, RequestsAssumption
  <2>2. CASE \E e \in Exceptions : Raise(e)
    BY <1>2, <2>2, RaiseConcludes DEF Research, Governed!Next
  <2>3. CASE request.context_bundle # NoBundle /\ UseBundle(request.context_bundle)
    <3>1. request.context_bundle \in ContextBundles
      BY <2>1, <2>3 DEF ResearchRequests
    <3>2. QED
      BY <1>2, <2>3, <3>1, UseBundleConsults DEF Research
  <2>4. CASE request.context_bundle = NoBundle /\ has_provider /\ CallBackend
    BY <1>2, <2>4, CallIssues DEF Research
  <2>5. QED
    BY <1>2, <2>2, <2>3, <2>4 DEF Research, Exceptions
<1>3. ASSUME NEW reply \in Replies, NEW output \in Outputs, ContextReturns(reply, output)
      PROVE  Governed!Next
  <2>1. CASE \E e \in Exceptions : Raise(e)
    BY <1>3, <2>1, RaiseConcludes DEF ContextReturns, Governed!Next
  <2>2. CASE output # NoBundle /\ UseBundle(output)
    <3>1. output \in ContextBundles
      BY <2>2, OutputsAssumption DEF OutputsAssumption
    <3>2. QED
      BY <1>3, <2>2, <3>1, UseBundleConsults DEF ContextReturns
  <2>3. QED
    BY <1>3, <2>1, <2>2 DEF ContextReturns, Exceptions
<1>4. ASSUME NEW draft \in Drafts, ModelReturns(draft) PROVE Governed!Next
  <2> DEFINE bundle == asked[1].bundle
  <2>1. CASE \E e \in Exceptions : Raise(e)
    BY <1>4, <2>1, RaiseConcludes DEF ModelReturns, Governed!Next
  <2>2. CASE outcome' = ResearchResult(draft, bundle) /\ UNCHANGED <<sent, asked>>
    <3>1. IInv'
      BY <1>4, StepKeeps DEF Next
    <3>2. pc' = "ended"
      BY <1>4, <2>2 DEF ModelReturns, Raise
    <3>3. outcome' \in ResearchResults /\ outcome' # Pending
      BY <2>2, <3>1, <3>2 DEF IInv, TypeOK, ResearchResult, Raised, Exceptions, Pending
    <3>4. asked # <<>> /\ pc # "ended"
      <4>1. pc = "reasoning" /\ Len(asked) = 1
        BY <1>4 DEF IInv, TypeOK, ModelReturns
      <4>2. QED
        BY <4>1, EmptyIsNotOne
    <3>5. Verdict(outcome) = [status |-> "RUNNING", reported |-> 0]
      BY <3>4, Running
    <3>6. Verdict(outcome)' = [status |-> "COMPLETED", reported |-> Len(sent)]
      BY <2>2, <3>3 DEF Verdict
    <3>7. Answered = Len(sent) /\ Answered' = Len(sent)
      BY <2>2, <3>4 DEF Answered
    <3>8. Governed!Conclude("research", "COMPLETED")
      BY <1>4, <2>2, <3>4, <3>5, <3>6, <3>7, Concludes DEF ModelReturns
    <3>9. QED
      BY <3>8 DEF Governed!Next
  <2>3. QED
    BY <1>4, <2>1, <2>2 DEF ModelReturns, Exceptions
<1>5. CASE ModelRaises \/ Cancel
  BY <1>5, RaiseConcludes DEF ModelRaises, Cancel, Exceptions, Governed!Next
<1>6. QED
  BY <1>1, <1>2, <1>3, <1>4, <1>5 DEF Next

\* research() begins as a governed run does.
LEMMA InitIsGoverned == ASSUME Init PROVE Governed!Init
<1>1. request \in Requests /\ has_provider \in BOOLEAN
  BY DEF Init
<1>2. sent = <<>> /\ asked = <<>> /\ Verdict(outcome) = Governed!Running
  BY DEF Init, Verdict, Governed!Running
<1>3. Mandate(request, has_provider) \in Mandates
  BY <1>1 DEF Mandates
<1>4. [a \in {"research"} |-> Mandate(request, has_provider)] \in [{"research"} -> Mandates]
  BY <1>3
<1>5. /\ [a \in {"research"} |-> sent] = [a \in {"research"} |-> <<>>]
      /\ [a \in {"research"} |-> IF asked = <<>> THEN 0 ELSE Len(sent)]
           = [a \in {"research"} |-> 0]
      /\ [a \in {"research"} |-> asked # <<>>] = [a \in {"research"} |-> FALSE]
      /\ [a \in {"research"} |-> Verdict(outcome)] = [a \in {"research"} |-> Governed!Running]
  BY <1>2
<1>6. QED
  BY <1>4, <1>5 DEF Governed!Init

\* Research is a governed run: it sends the one search its mandate allows, asks the model at most
\* once and only after the answer, and ends once.
THEOREM ResearchIsGoverned == Spec => ImplementsGovernedRun
<1>1. Init => Governed!Init
  BY InitIsGoverned
<1>2. IInv /\ [Next]_vars => [Governed!Next]_(Governed!vars)
  BY StepIsGoverned
<1>3. QED
  BY <1>1, <1>2, Invariant, PTL DEF Spec, ImplementsGovernedRun, Governed!Spec
-----------------------------------------------------------------------------
(* The desk *)

\* Where an analysis stands with the model.
AnalysisProgress ==
  /\ Len(analysis_asked) <= 1
  /\ analysis_pc = "received" => analysis_asked = <<>>
  /\ analysis_pc = "reasoning" => Len(analysis_asked) = 1
  /\ analysis_asked # <<>> => Analysis!AdmitsModelRequest(Analysis!ModelRequest)

AnalysisInv == AnalysisTypeOK /\ AnalysisProgress /\ AnalysisBound

\* What an analysis ends in is a draft, an exception or nothing yet, and never two of them.
LEMMA AnalysisOutcomes ==
  /\ Analysis!Pending \notin Analysis!DocumentAnalysisDrafts
  /\ \A e \in Analysis!Exceptions : /\ Analysis!Raised(e) \notin Analysis!DocumentAnalysisDrafts
                                    /\ Analysis!Raised(e) # Analysis!Pending
<1>1. /\ Analysis!Pending.output_state = "PENDING"
      /\ \A e : Analysis!Raised(e).output_state = e
      /\ \A d \in Analysis!DocumentAnalysisDrafts : d.output_state = "AI_INFERRED"
  BY DEF Analysis!Pending, Analysis!Raised, Analysis!DocumentAnalysisDrafts
<1>2. QED
  BY <1>1 DEF Analysis!Exceptions

\* An analysis that raises keeps its bounds.
LEMMA AnalysisRaiseKeeps ==
  ASSUME AnalysisInv, NEW e \in Analysis!Exceptions, Analysis!Raise(e)
  PROVE  AnalysisInv'
<1>1. /\ analysis_pc' = "ended" /\ analysis_outcome' = Analysis!Raised(e)
      /\ UNCHANGED <<analysis_request, analysis_asked>>
  BY DEF Analysis!Raise
<1>2. AnalysisTypeOK'
  BY <1>1, AnalysisOutcomes DEF AnalysisInv, AnalysisTypeOK, Analysis!TypeOK, Analysis!ModelRequest
<1>3. AnalysisProgress'
  BY <1>1 DEF AnalysisInv, AnalysisProgress, Analysis!ModelRequest
<1>4. AnalysisBound'
  BY <1>1, AnalysisOutcomes DEF AnalysisInv, AnalysisBound, Analysis!AnalysisBound
<1>5. QED
  BY <1>2, <1>3, <1>4 DEF AnalysisInv

\* A citation within the source is a range of its lines.
LEMMA CitedLines ==
  ASSUME NEW lines \in Nat, NEW c \in [start : Nat, end : Nat], Analysis!WithinSource(c, lines)
  PROVE  c.start..c.end \subseteq 1..lines /\ c.start..c.end # {}
<1>1. c.start \in Nat /\ c.end \in Nat /\ c.start >= 1 /\ c.end >= c.start /\ c.end <= lines
  BY DEF Analysis!WithinSource
<1>2. c.start \in c.start..c.end
  BY <1>1
<1>3. QED
  BY <1>1, <1>2

\* One request is a request.
LEMMA OneRequest == Len(analysis_asked) = 1 => analysis_asked # <<>>
OBVIOUS

\* A draft is bound to its request.
LEMMA AnalysisReturnKeeps ==
  ASSUME AnalysisInv, NEW answer \in AnalysisAnswers, Analysis!ModelReturns(answer)
  PROVE  AnalysisInv'
<1>1. CASE Analysis!Raise("SemanticAnswerInvalid")
  BY <1>1, AnalysisRaiseKeeps DEF Analysis!Exceptions
<1>2. CASE /\ Analysis!ValidAnswer(answer, analysis_request.source.lines)
           /\ analysis_pc' = "ended"
           /\ analysis_outcome' = Analysis!DocumentAnalysisDraft(answer)
           /\ UNCHANGED <<analysis_request, analysis_asked>>
  <2>1. /\ analysis_request \in Analysis!DocumentAnalysisRequests
        /\ answer \in Analysis!SemanticAnswers
    BY AnalysisAssumption DEF AnalysisAssumption, AnalysisInv, AnalysisTypeOK, Analysis!TypeOK
  <2>2. /\ analysis_request.correlation_id \in CorrelationIds
        /\ analysis_request.source.source_id \in SourceIds
        /\ analysis_request.source.lines \in Nat
    BY <2>1 DEF Analysis!DocumentAnalysisRequests, Analysis!DocumentSources
  <2>3. Analysis!DocumentAnalysisDraft(answer) \in Analysis!DocumentAnalysisDrafts
    BY <2>1, <2>2 DEF Analysis!DocumentAnalysisDraft, Analysis!DocumentAnalysisDrafts
  <2>4. Len(analysis_asked) = 1 /\ analysis_asked # <<>>
    <3>1. analysis_pc = "reasoning"
      BY <1>2 DEF Analysis!ModelReturns
    <3>2. Len(analysis_asked) = 1
      BY <3>1 DEF AnalysisInv, AnalysisProgress
    <3>3. QED
      BY <3>2, OneRequest
  <2>5. AnalysisTypeOK'
    BY <1>2, <2>3, AnalysisOutcomes
       DEF AnalysisInv, AnalysisTypeOK, Analysis!TypeOK, Analysis!ModelRequest
  <2>6. AnalysisProgress'
    BY <1>2 DEF AnalysisInv, AnalysisProgress, Analysis!ModelRequest
  <2>7. /\ answer.citations # {}
        /\ \A c \in answer.citations :
             c.start..c.end \subseteq 1..analysis_request.source.lines /\ c.start..c.end # {}
    BY <1>2, <2>1, <2>2, CitedLines DEF Analysis!ValidAnswer, Analysis!SemanticAnswers
  <2>8. /\ analysis_outcome'.correlation_id = analysis_request.correlation_id
        /\ analysis_outcome'.source_id = analysis_request.source.source_id
        /\ analysis_outcome'.answer = answer
    BY <1>2 DEF Analysis!DocumentAnalysisDraft
  <2>9. AnalysisBound'
    BY <1>2, <2>4, <2>7, <2>8 DEF AnalysisInv, AnalysisBound, Analysis!AnalysisBound
  <2>10. QED
    BY <2>5, <2>6, <2>9 DEF AnalysisInv
<1>3. QED
  BY <1>1, <1>2 DEF Analysis!ModelReturns

\* Every step of an analysis keeps its bounds.
LEMMA AnalysisStepKeeps == ASSUME AnalysisInv, Analysis!Next PROVE AnalysisInv'
<1>1. CASE Analysis!Analyze
  <2>1. CASE Analysis!Raise("ModelGatewayError")
    BY <2>1, AnalysisRaiseKeeps DEF Analysis!Exceptions
  <2>2. CASE /\ Analysis!AdmitsModelRequest(Analysis!ModelRequest)
             /\ analysis_pc' = "reasoning"
             /\ analysis_asked' = Append(analysis_asked, Analysis!ModelRequest)
             /\ UNCHANGED <<analysis_request, analysis_outcome>>
    <3>1. analysis_asked = <<>> /\ analysis_pc = "received"
      BY <1>1 DEF Analysis!Analyze, AnalysisInv, AnalysisProgress
    <3>2. analysis_asked' = <<Analysis!ModelRequest>> /\ Len(analysis_asked') = 1
      BY <2>2, <3>1
    <3>3. Analysis!ModelRequest' = Analysis!ModelRequest
      BY <2>2 DEF Analysis!ModelRequest
    <3>4. analysis_outcome = Analysis!Pending
      BY <3>1 DEF AnalysisInv, AnalysisTypeOK, Analysis!TypeOK
    <3>5. AnalysisTypeOK'
      BY <2>2, <3>2, <3>3, <3>4 DEF AnalysisInv, AnalysisTypeOK, Analysis!TypeOK
    <3>6. AnalysisProgress'
      BY <2>2, <3>2, <3>3 DEF AnalysisProgress
    <3>7. /\ analysis_request.policy_ref \in AllowedPolicyRefs
          /\ Analysis!Rank[analysis_request.source.data_classification]
               <= Analysis!Rank[MaximumDataClassification]
      BY <2>2 DEF Analysis!AdmitsModelRequest, Analysis!Authorizes, Analysis!ModelRequest
    <3>8. AnalysisBound'
      BY <2>2, <3>2, <3>4, <3>7, AnalysisOutcomes DEF AnalysisBound, Analysis!AnalysisBound
    <3>9. QED
      BY <3>5, <3>6, <3>8 DEF AnalysisInv
  <2>3. QED
    BY <1>1, <2>1, <2>2 DEF Analysis!Analyze
<1>2. ASSUME NEW answer \in AnalysisAnswers, Analysis!ModelReturns(answer) PROVE AnalysisInv'
  BY <1>2, AnalysisReturnKeeps
<1>3. CASE Analysis!ModelRaises \/ Analysis!Cancel
  BY <1>3, AnalysisRaiseKeeps DEF Analysis!ModelRaises, Analysis!Cancel, Analysis!Exceptions
<1>4. QED
  BY <1>1, <1>2, <1>3 DEF Analysis!Next

\* Both halves of the desk keep their invariants, whatever the other does.
LEMMA DeskAlways == DeskSpec => [](IInv /\ AnalysisInv)
<1>1. DeskInit => IInv /\ AnalysisInv
  <2> SUFFICES ASSUME DeskInit PROVE AnalysisInv
    BY InitHolds DEF DeskInit
  <2>1. /\ analysis_request \in AnalysisRequests /\ analysis_pc = "received"
        /\ analysis_asked = <<>> /\ analysis_outcome = Analysis!Pending
    BY DEF DeskInit, Analysis!Init
  <2>2. QED
    BY <2>1, AnalysisOutcomes
       DEF AnalysisInv, AnalysisTypeOK, Analysis!TypeOK, AnalysisProgress, AnalysisBound,
           Analysis!AnalysisBound
<1>2. IInv /\ AnalysisInv /\ [DeskNext]_deskVars => (IInv /\ AnalysisInv)'
  <2> SUFFICES ASSUME IInv, AnalysisInv, [DeskNext]_deskVars PROVE IInv' /\ AnalysisInv'
    OBVIOUS
  <2>1. IInv'
    BY StepKeeps DEF DeskNext, deskVars
  <2>2. ASSUME UNCHANGED <<analysis_request, analysis_pc, analysis_asked, analysis_outcome>>
        PROVE  AnalysisInv'
    BY <2>2
       DEF AnalysisInv, AnalysisTypeOK, Analysis!TypeOK, AnalysisProgress, AnalysisBound,
           Analysis!AnalysisBound, Analysis!ModelRequest
  <2>3. QED
    BY <2>1, <2>2, AnalysisStepKeeps DEF DeskNext, deskVars
<1>3. QED
  BY <1>1, <1>2, PTL DEF DeskSpec

\* For every document, policy and answer: a draft cites lines of its own source and no others.
THEOREM AnalysesAreBound == DeskSpec => [](AnalysisTypeOK /\ AnalysisBound)
<1>1. AnalysisInv => AnalysisTypeOK /\ AnalysisBound
  BY DEF AnalysisInv
<1>2. QED
  BY <1>1, DeskAlways, PTL

\* Something is cited exactly if there is a finding or a recommendation with a citation.
LEMMA SomethingCited ==
  ASSUME NEW F, NEW R, {} \notin F
  PROVE  UNION (F \cup R) # {} <=> F # {} \/ UNION R # {}
<1>1. ASSUME UNION (F \cup R) # {} PROVE F # {} \/ UNION R # {}
  <2> PICK x \in UNION (F \cup R) : TRUE
    BY <1>1
  <2>1. PICK y \in F \cup R : x \in y
    OBVIOUS
  <2>2. CASE y \in F
    BY <2>2
  <2>3. CASE y \in R
    <3>1. x \in UNION R
      BY <2>1, <2>3
    <3>2. QED
      BY <3>1
  <2>4. QED
    BY <2>2, <2>3
<1>2. ASSUME F # {} PROVE UNION (F \cup R) # {}
  <2>1. PICK y \in F : y # {}
    BY <1>2
  <2>2. PICK x \in y : TRUE
    BY <2>1
  <2>3. x \in UNION (F \cup R)
    BY <2>2
  <2>4. QED
    BY <2>3
<1>3. ASSUME UNION R # {} PROVE UNION (F \cup R) # {}
  <2> PICK x \in UNION R : TRUE
    BY <1>3
  <2>1. PICK y \in R : x \in y
    OBVIOUS
  <2>2. x \in UNION (F \cup R)
    BY <2>1
  <2>3. QED
    BY <2>2
<1>4. QED
  BY <1>1, <1>2, <1>3

\* For every bundle and draft: what the engine returns passes an evaluation exactly on its own
\* merits.
THEOREM EvaluationsAreEarned == DeskSpec => []EvaluationEarned
<1>1. IInv => EvaluationEarned
  <2> SUFFICES ASSUME IInv, outcome \in ResearchResults,
                      NEW contract \in BOOLEAN, NEW required \in BOOLEAN, NEW limitations \in BOOLEAN
               PROVE  LET evaluation == Evaluated(outcome, contract, required, limitations) IN
                      /\ evaluation.checks.evidence_refs_authorized
                      /\ evaluation.checks.tool_usage_authorized
                      /\ evaluation.passed <=>
                           /\ contract
                           /\ required => outcome.findings # {} \/ UNION outcome.recommendations # {}
    BY DEF EvaluationEarned
  <2> DEFINE cited == CitedIn(outcome)
             supplied == EvidenceIdsOf(asked[1].bundle)
             used == {sent[k] : k \in DOMAIN sent}
  <2>1. cited \ supplied = {}
    BY DEF IInv, EvidenceBound, CitedIn, EvidenceIdsIn
  <2>2. used \ {SearchContext} = {}
    BY DEF IInv, TypeOK
  <2>3. cited # {} <=> outcome.findings # {} \/ UNION outcome.recommendations # {}
    <3> DEFINE references == UNION (outcome.findings \cup outcome.recommendations)
    <3>1. cited # {} <=> references # {}
      BY DEF CitedIn, EvidenceIdsIn
    <3>2. {} \notin outcome.findings
      BY DEF IInv, EvidenceBound
    <3>3. QED
      BY <3>1, <3>2, SomethingCited
  <2>4. Evaluated(outcome, contract, required, limitations)
          = EvaluateResult(contract, required, cited, supplied, used, {SearchContext}, limitations)
    BY DEF Evaluated
  <2> HIDE DEF cited, supplied, used
  <2> DEFINE checks == [output_contract |-> contract,
                        required_evidence_present |-> ~ required \/ cited # {},
                        evidence_refs_authorized |-> cited \ supplied = {},
                        tool_usage_authorized |-> used \ {SearchContext} = {},
                        failure_or_limitations_explicit |->
                          ((~ required \/ cited # {}) /\ cited \ supplied = {}
                             /\ used \ {SearchContext} = {}) \/ limitations]
  <2>5. Evaluated(outcome, contract, required, limitations)
          = [checks |-> checks, passed |-> \A check \in DOMAIN checks : checks[check]]
    BY <2>4 DEF EvaluateResult, Evaluation
  <2>6. (\A check \in DOMAIN checks : checks[check]) <=> contract /\ (~ required \/ cited # {})
    <3>1. DOMAIN checks = {"output_contract", "required_evidence_present",
                           "evidence_refs_authorized", "tool_usage_authorized",
                           "failure_or_limitations_explicit"}
      OBVIOUS
    <3>2. /\ checks["output_contract"] = contract
          /\ checks["required_evidence_present"] = (~ required \/ cited # {})
          /\ checks["evidence_refs_authorized"] = (cited \ supplied = {})
          /\ checks["tool_usage_authorized"] = (used \ {SearchContext} = {})
          /\ checks["failure_or_limitations_explicit"] =
               (((~ required \/ cited # {}) /\ cited \ supplied = {}
                  /\ used \ {SearchContext} = {}) \/ limitations)
      OBVIOUS
    <3> HIDE DEF checks
    <3>3. QED
      BY <2>1, <2>2, <3>1, <3>2
  <2>7. checks.evidence_refs_authorized /\ checks.tool_usage_authorized
    BY <2>1, <2>2
  <2> HIDE DEF checks
  <2>8. QED
    BY <2>3, <2>5, <2>6, <2>7
<1>2. QED
  BY <1>1, DeskAlways, PTL

-----------------------------------------------------------------------------
(* The desk implements two governed runs *)

\* A function on the one analysis, and its update.
LEMMA OneAnalysis ==
  ASSUME NEW x, NEW y
  PROVE  /\ [a \in {"analysis"} |-> x]["analysis"] = x
         /\ [[a \in {"analysis"} |-> x] EXCEPT !["analysis"] = y] = [a \in {"analysis"} |-> y]
OBVIOUS

\* An analysis that ends concludes its run, which has no answers of tools to report.
LEMMA AnalysisConcludes ==
  ASSUME NEW status, AnalysisVerdict(analysis_outcome) = GovernedAnalysis!Running,
         AnalysisVerdict(analysis_outcome)' = [status |-> status, reported |-> 0],
         status = "COMPLETED" => analysis_asked # <<>>,
         UNCHANGED <<analysis_request, analysis_asked>>
  PROVE  GovernedAnalysis!Conclude("analysis", status)
<1> DEFINE answered == [a \in {"analysis"} |-> 0]
           verdict == [a \in {"analysis"} |-> AnalysisVerdict(analysis_outcome)]
           next == [status |-> status, reported |-> 0]
<1>1. /\ verdict["analysis"] = GovernedAnalysis!Running
      /\ verdict' = [verdict EXCEPT !["analysis"] = next]
  BY OneAnalysis
<1>2. /\ answered["analysis"] = 0
      /\ answered' = [answered EXCEPT !["analysis"] = 0]
  BY OneAnalysis
<1>3. /\ [a \in {"analysis"} |-> <<>>]["analysis"] = <<>>
      /\ Len(<<>>) = 0
      /\ [a \in {"analysis"} |-> analysis_asked # <<>>]["analysis"] = (analysis_asked # <<>>)
  OBVIOUS
<1>4. UNCHANGED <<[a \in {"analysis"} |-> AnalysisMandate(analysis_request)],
                  [a \in {"analysis"} |-> <<>>], [a \in {"analysis"} |-> analysis_asked # <<>>]>>
  BY DEF AnalysisMandate
<1> HIDE DEF answered, verdict, next
<1>5. QED
  BY <1>1, <1>2, <1>3, <1>4 DEF GovernedAnalysis!Conclude, answered, verdict, next

\* An analysis that has not ended has no verdict.
LEMMA AnalysisRunning ==
  ASSUME AnalysisInv, analysis_pc # "ended"
  PROVE  /\ analysis_outcome = Analysis!Pending
         /\ AnalysisVerdict(analysis_outcome) = GovernedAnalysis!Running
BY DEF AnalysisInv, AnalysisTypeOK, Analysis!TypeOK, AnalysisVerdict, GovernedAnalysis!Running

\* An analysis that raises concludes its run, raised.
LEMMA AnalysisRaiseConcludes ==
  ASSUME AnalysisInv, analysis_pc # "ended", NEW e \in Analysis!Exceptions, Analysis!Raise(e)
  PROVE  GovernedAnalysis!Next
<1>1. AnalysisVerdict(analysis_outcome) = GovernedAnalysis!Running
  BY AnalysisRunning
<1>2. AnalysisVerdict(analysis_outcome)' = [status |-> "RAISED", reported |-> 0]
  BY AnalysisOutcomes DEF Analysis!Raise, AnalysisVerdict
<1>3. UNCHANGED <<analysis_request, analysis_asked>>
  BY DEF Analysis!Raise
<1>4. GovernedAnalysis!Conclude("analysis", "RAISED")
  BY <1>1, <1>2, <1>3, AnalysisConcludes
<1>5. QED
  BY <1>4 DEF GovernedAnalysis!Next

\* An analysis that asks the model consults it.
LEMMA AnalysisConsults ==
  ASSUME AnalysisInv, analysis_pc = "received",
         Analysis!AdmitsModelRequest(Analysis!ModelRequest),
         analysis_asked' = Append(analysis_asked, Analysis!ModelRequest),
         UNCHANGED <<analysis_request, analysis_outcome>>
  PROVE  GovernedAnalysis!Next
<1> DEFINE m == AnalysisMandate(analysis_request)
<1>1. analysis_asked = <<>> /\ analysis_asked' # <<>>
  BY DEF AnalysisInv, AnalysisProgress
<1>2. /\ AnalysisVerdict(analysis_outcome) = GovernedAnalysis!Running
      /\ AnalysisVerdict(analysis_outcome)' = AnalysisVerdict(analysis_outcome)
  BY AnalysisRunning DEF AnalysisVerdict
<1>3. m.consult /\ m' = m
  <2>1. Analysis!Authorizes(Analysis!ModelRequest)
    BY DEF Analysis!AdmitsModelRequest
  <2>2. m.consult
    BY <2>1 DEF Analysis!Authorizes, Analysis!ModelRequest, AnalysisMandate, Rank, Analysis!Rank
  <2>3. m' = m
    BY DEF AnalysisMandate
  <2>4. QED
    BY <2>2, <2>3
<1> HIDE DEF m
<1>4. GovernedAnalysis!Consult("analysis")
  <2>1. /\ [a \in {"analysis"} |-> AnalysisVerdict(analysis_outcome)]["analysis"]
             = GovernedAnalysis!Running
        /\ [a \in {"analysis"} |-> AnalysisVerdict(analysis_outcome)]'
             = [a \in {"analysis"} |-> AnalysisVerdict(analysis_outcome)]
    BY <1>2
  <2>2. /\ [a \in {"analysis"} |-> analysis_asked # <<>>]["analysis"] = FALSE
        /\ [a \in {"analysis"} |-> analysis_asked # <<>>]'
             = [[a \in {"analysis"} |-> analysis_asked # <<>>] EXCEPT !["analysis"] = TRUE]
    BY <1>1
  <2>3. /\ [a \in {"analysis"} |-> m]["analysis"] = m
        /\ [a \in {"analysis"} |-> m]' = [a \in {"analysis"} |-> m]
    BY <1>3
  <2>4. /\ [a \in {"analysis"} |-> <<>>]["analysis"] = <<>> /\ Len(<<>>) = 0
        /\ [a \in {"analysis"} |-> <<>>]' = [a \in {"analysis"} |-> <<>>]
        /\ [a \in {"analysis"} |-> 0]' = [[a \in {"analysis"} |-> 0] EXCEPT !["analysis"] = 0]
    OBVIOUS
  <2>5. QED
    BY <1>3, <2>1, <2>2, <2>3, <2>4 DEF GovernedAnalysis!Consult, m
<1>5. QED
  BY <1>4 DEF GovernedAnalysis!Next

\* Every step of an analysis is a step of its governed run.
LEMMA AnalysisStepIsGoverned == ASSUME AnalysisInv, Analysis!Next PROVE GovernedAnalysis!Next
<1>1. CASE Analysis!Analyze
  <2>1. CASE Analysis!Raise("ModelGatewayError")
    BY <1>1, <2>1, AnalysisRaiseConcludes DEF Analysis!Analyze, Analysis!Exceptions
  <2>2. CASE ~ Analysis!Raise("ModelGatewayError")
    BY <1>1, <2>2, AnalysisConsults DEF Analysis!Analyze
  <2>3. QED
    BY <2>1, <2>2
<1>2. ASSUME NEW answer \in AnalysisAnswers, Analysis!ModelReturns(answer)
      PROVE  GovernedAnalysis!Next
  <2>1. analysis_pc = "reasoning" /\ analysis_asked # <<>>
    BY <1>2, OneRequest DEF Analysis!ModelReturns, AnalysisInv, AnalysisProgress
  <2>2. CASE Analysis!Raise("SemanticAnswerInvalid")
    BY <2>1, <2>2, AnalysisRaiseConcludes DEF Analysis!Exceptions
  <2>3. CASE /\ analysis_pc' = "ended"
             /\ analysis_outcome' = Analysis!DocumentAnalysisDraft(answer)
             /\ UNCHANGED <<analysis_request, analysis_asked>>
    <3>1. AnalysisInv'
      BY <1>2, AnalysisReturnKeeps
    <3>2. analysis_outcome' # Analysis!Pending
      BY <2>3, <3>1 DEF AnalysisInv, AnalysisTypeOK, Analysis!TypeOK
    <3>3. \A e : analysis_outcome' = Analysis!Raised(e) => e = "AI_INFERRED"
      BY <2>3 DEF Analysis!DocumentAnalysisDraft, Analysis!Raised
    <3>4. analysis_outcome' \in Analysis!DocumentAnalysisDrafts
      BY <3>1, <3>2, <3>3
         DEF AnalysisInv, AnalysisTypeOK, Analysis!TypeOK, Analysis!Exceptions
    <3>5. AnalysisVerdict(analysis_outcome)' = [status |-> "COMPLETED", reported |-> 0]
      BY <3>2, <3>4 DEF AnalysisVerdict
    <3>6. AnalysisVerdict(analysis_outcome) = GovernedAnalysis!Running
      BY <2>1, AnalysisRunning
    <3>7. GovernedAnalysis!Conclude("analysis", "COMPLETED")
      BY <2>1, <2>3, <3>5, <3>6, AnalysisConcludes
    <3>8. QED
      BY <3>7 DEF GovernedAnalysis!Next
  <2>4. QED
    BY <1>2, <2>2, <2>3 DEF Analysis!ModelReturns
<1>3. CASE Analysis!ModelRaises \/ Analysis!Cancel
  BY <1>3, AnalysisRaiseConcludes DEF Analysis!ModelRaises, Analysis!Cancel, Analysis!Exceptions
<1>4. QED
  BY <1>1, <1>2, <1>3 DEF Analysis!Next

\* Beside an analysis research does what it does alone: each behaviour of the desk is one of Spec,
\* so that what is proved of research() holds at the desk.
LEMMA DeskRunsResearch == DeskSpec => Spec
<1>1. DeskInit => Init
  BY DEF DeskInit
<1>2. [DeskNext]_deskVars => [Next]_vars
  BY DEF DeskNext, deskVars
<1>3. QED
  BY <1>1, <1>2, PTL DEF DeskSpec, Spec

\* Research and an analysis are governed runs, whatever the other does: DeskIsGoverned
\* (service.py 96-192, document_intelligence.py 104-139).
THEOREM DeskGoverned == DeskSpec => DeskIsGoverned
<1>1. DeskInit => GovernedAnalysis!Init
  <2> SUFFICES ASSUME DeskInit PROVE GovernedAnalysis!Init
    OBVIOUS
  <2>1. /\ analysis_request \in AnalysisRequests /\ analysis_asked = <<>>
        /\ analysis_outcome = Analysis!Pending
    BY DEF DeskInit, Analysis!Init
  <2>2. [a \in {"analysis"} |-> AnalysisMandate(analysis_request)]
          \in [{"analysis"} -> {AnalysisMandate(r) : r \in AnalysisRequests}]
    BY <2>1
  <2>3. AnalysisVerdict(analysis_outcome) = GovernedAnalysis!Running
    BY <2>1 DEF AnalysisVerdict, GovernedAnalysis!Running
  <2>4. /\ [a \in {"analysis"} |-> analysis_asked # <<>>] = [a \in {"analysis"} |-> FALSE]
        /\ [a \in {"analysis"} |-> AnalysisVerdict(analysis_outcome)]
             = [a \in {"analysis"} |-> GovernedAnalysis!Running]
    BY <2>1, <2>3
  <2>5. QED
    BY <2>2, <2>4 DEF GovernedAnalysis!Init
<1>2. AnalysisInv /\ [DeskNext]_deskVars => [GovernedAnalysis!Next]_(GovernedAnalysis!vars)
  <2> SUFFICES ASSUME AnalysisInv, [DeskNext]_deskVars
               PROVE  GovernedAnalysis!Next \/ UNCHANGED GovernedAnalysis!vars
    OBVIOUS
  <2>1. CASE UNCHANGED <<analysis_request, analysis_pc, analysis_asked, analysis_outcome>>
    BY <2>1 DEF GovernedAnalysis!vars, AnalysisMandate, AnalysisVerdict
  <2>2. CASE Analysis!Next
    BY <2>2, AnalysisStepIsGoverned
  <2>3. QED
    BY <2>1, <2>2 DEF DeskNext, deskVars
<1>3. DeskSpec => GovernedAnalysis!Spec
  BY <1>1, <1>2, DeskAlways, PTL DEF DeskSpec, GovernedAnalysis!Spec
<1>4. QED
  BY <1>3, DeskRunsResearch, ResearchIsGoverned DEF DeskIsGoverned

-----------------------------------------------------------------------------
(* The comparison's passes *)

\* The pass over the lines exists.
LEMMA KeyValuesPass ==
  ASSUME NEW lines, Len(lines) \in Nat
  PROVE  \E v : /\ v = [n \in 0..Len(lines) |->
                          IF n = 0 THEN Empty
                          ELSE Assigned(v[n - 1], lines[n].key, lines[n].value)]
                /\ KeyValues(lines) = v[Len(lines)]
<1> DEFINE Pass(v, m) ==
             v = [n \in 0..m |-> IF n = 0 THEN Empty
                                 ELSE Assigned(v[n - 1], lines[n].key, lines[n].value)]
           Lacking == {m \in Nat : ~ \E v : Pass(v, m)}
<1>1. Lacking = {}
  <2> SUFFICES ASSUME Lacking # {} PROVE FALSE
    OBVIOUS
  <2>1. PICK m \in Lacking : \A k \in Lacking : m <= k
    BY LeastNumber
  <2>2. CASE m = 0
    <3>1. Pass([n \in 0..m |-> Empty], m)
      BY <2>2
    <3> HIDE DEF Pass
    <3>2. QED
      BY <3>1
  <2>3. CASE m # 0
    <3>1. m - 1 \in Nat /\ m - 1 \notin Lacking
      <4> HIDE DEF Pass
      <4>1. QED
        BY <2>1, <2>3
    <3>2. PICK v : Pass(v, m - 1)
      <4> HIDE DEF Pass
      <4>1. QED
        BY <3>1
    <3> DEFINE last == Assigned(v[m - 1], lines[m].key, lines[m].value)
               w == [n \in 0..m |-> IF n = m THEN last ELSE v[n]]
    <3>3. ASSUME NEW n \in 0..m
          PROVE  w[n] = IF n = 0 THEN Empty ELSE Assigned(w[n - 1], lines[n].key, lines[n].value)
      <4>1. CASE n = 0
        BY <2>3, <3>2, <4>1
      <4>2. CASE n = m
        <5>1. w[n - 1] = v[m - 1]
          BY <2>3, <4>2
        <5>2. QED
          BY <2>3, <4>2, <5>1
      <4>3. CASE n # 0 /\ n # m
        <5>1. n - 1 \in 0..m /\ n - 1 # m /\ n \in 0..m - 1
          BY <4>3
        <5>2. w[n - 1] = v[n - 1] /\ w[n] = v[n]
          BY <4>3, <5>1
        <5>3. v[n] = Assigned(v[n - 1], lines[n].key, lines[n].value)
          BY <3>2, <4>3, <5>1
        <5>4. QED
          BY <4>3, <5>2, <5>3
      <4>4. QED
        BY <4>1, <4>2, <4>3
    <3>4. w = [n \in 0..m |-> w[n]]
      OBVIOUS
    <3>5. Pass(w, m)
      <4> HIDE DEF w
      <4>1. QED
        BY <3>3, <3>4
    <3> HIDE DEF Pass, w
    <3>6. QED
      BY <2>1, <3>5
  <2>4. QED
    BY <2>2, <2>3
<1>2. \E v : Pass(v, Len(lines))
  <2> HIDE DEF Pass
  <2>1. QED
    BY <1>1
<1>3. Pass(CHOOSE v : Pass(v, Len(lines)), Len(lines))
  <2> HIDE DEF Pass
  <2>1. QED
    BY <1>2
<1>4. KeyValues(lines) = (CHOOSE v : Pass(v, Len(lines)))[Len(lines)]
  BY DEF KeyValues
<1>5. QED
  BY <1>3, <1>4

\* Of each key that a line states, the last line that is about it counts.
LEMMA KeyValuesAreLast ==
  ASSUME NEW d, IsDocument(d)
  PROVE  /\ Len(d.lines) \in Nat /\ DOMAIN d.lines = 1..Len(d.lines)
         /\ DOMAIN KeyValues(d.lines) = {d.lines[i].key : i \in DOMAIN d.lines}
         /\ \A k \in DOMAIN KeyValues(d.lines) : States(d, k, KeyValues(d.lines)[k])
<1> DEFINE lines == d.lines
           N == Len(lines)
<1>1. /\ N \in Nat /\ DOMAIN lines = 1..N
      /\ \A i \in 1..N : lines[i] = [key |-> lines[i].key, value |-> lines[i].value]
  <2>1. PICK S : /\ lines \in Seq(S) /\ \A x \in S : x = [key |-> x.key, value |-> x.value]
    <3>1. lines \in Seq({[key |-> lines[i].key, value |-> lines[i].value] : i \in DOMAIN lines})
      BY DEF IsDocument
    <3>2. \A x \in {[key |-> lines[i].key, value |-> lines[i].value] : i \in DOMAIN lines} :
            x = [key |-> x.key, value |-> x.value]
      OBVIOUS
    <3>3. QED
      BY <3>1, <3>2
  <2>2. QED
    BY <2>1
<1> HIDE DEF N
<1>2. PICK v : /\ v = [n \in 0..N |-> IF n = 0 THEN Empty
                                      ELSE Assigned(v[n - 1], lines[n].key, lines[n].value)]
               /\ KeyValues(lines) = v[N]
  BY <1>1, KeyValuesPass DEF N
<1> DEFINE Last(n, k, value) ==
             \E i \in 1..n : /\ lines[i] = [key |-> k, value |-> value]
                             /\ \A j \in 1..n : j > i => lines[j].key # k
           Good(n) == /\ DOMAIN v[n] = {lines[i].key : i \in 1..n}
                      /\ \A k \in DOMAIN v[n] : Last(n, k, v[n][k])
           Bad == {n \in 0..N : ~ Good(n)}
<1>3. /\ v[0] = Empty
      /\ \A n \in 1..N : v[n] = Assigned(v[n - 1], lines[n].key, lines[n].value)
  <2>1. \A n \in 0..N : v[n] = IF n = 0 THEN Empty
                               ELSE Assigned(v[n - 1], lines[n].key, lines[n].value)
    BY <1>2
  <2>2. 0 \in 0..N /\ \A n \in 1..N : n \in 0..N /\ n # 0
    BY <1>1
  <2>3. QED
    BY <2>1, <2>2
<1>4. Good(0)
  <2>1. DOMAIN Empty = {}
    BY DEF Empty
  <2>2. QED
    BY <1>3, <2>1
<1>5. ASSUME NEW n \in 1..N, Good(n - 1) PROVE Good(n)
  <2> DEFINE key == lines[n].key  value == lines[n].value
  <2>0. n \in Nat /\ n - 1 \in Nat /\ 1..n = (1..n - 1) \cup {n}
    BY <1>1
  <2>1. v[n] = [k \in DOMAIN v[n - 1] \cup {key} |-> IF k = key THEN value ELSE v[n - 1][k]]
    BY <1>3 DEF Assigned
  <2>2. DOMAIN v[n] = {lines[i].key : i \in 1..n}
    BY <1>5, <2>0, <2>1
  <2>3. ASSUME NEW k \in DOMAIN v[n] PROVE Last(n, k, v[n][k])
    <3>1. CASE k = key
      <4>1. v[n][k] = value /\ lines[n] = [key |-> k, value |-> value]
        BY <1>1, <2>1, <3>1
      <4>2. \A j \in 1..n : ~ (j > n)
        BY <2>0
      <4>3. n \in 1..n
        BY <2>0
      <4>4. QED
        BY <4>1, <4>2, <4>3
    <3>2. CASE k # key
      <4>1. k \in DOMAIN v[n - 1] /\ v[n][k] = v[n - 1][k]
        BY <2>1, <2>3, <3>2
      <4>2. Last(n - 1, k, v[n][k])
        BY <1>5, <4>1
      <4>3. QED
        BY <2>0, <3>2, <4>2
    <3>3. QED
      BY <3>1, <3>2
  <2>4. QED
    BY <2>2, <2>3
<1>6. Bad = {}
  <2> SUFFICES ASSUME Bad # {} PROVE FALSE
    OBVIOUS
  <2> HIDE DEF Good
  <2>1. PICK n \in Bad : \A k \in Bad : n <= k
    <3>1. Bad \subseteq Nat
      BY <1>1
    <3>2. QED
      BY <3>1, LeastNumber
  <2>2. n # 0
    BY <1>4
  <2>3. n \in 1..N /\ n - 1 \in 0..N /\ n - 1 \notin Bad
    BY <1>1, <2>1, <2>2
  <2>4. QED
    BY <1>5, <2>1, <2>3
<1>7. Good(N)
  <2> HIDE DEF Good
  <2>1. QED
    BY <1>1, <1>6
<1>8. QED
  BY <1>1, <1>2, <1>7 DEF States, N

\* The pass over the documents exists.
LEMMA GatheredPass ==
  ASSUME NEW documents, NEW keys, Len(documents) \in Nat
  PROVE  \E v : /\ v = [n \in 0..Len(documents) |->
                          IF n = 0 THEN Empty
                          ELSE Appended(v[n - 1], keys[n], documents[n].source_id)]
                /\ Gathered(documents, keys) = v[Len(documents)]
<1> DEFINE Pass(v, m) ==
             v = [n \in 0..m |-> IF n = 0 THEN Empty
                                 ELSE Appended(v[n - 1], keys[n], documents[n].source_id)]
           Lacking == {m \in Nat : ~ \E v : Pass(v, m)}
<1>1. Lacking = {}
  <2> SUFFICES ASSUME Lacking # {} PROVE FALSE
    OBVIOUS
  <2>1. PICK m \in Lacking : \A k \in Lacking : m <= k
    BY LeastNumber
  <2>2. CASE m = 0
    <3>1. Pass([n \in 0..m |-> Empty], m)
      BY <2>2
    <3> HIDE DEF Pass
    <3>2. QED
      BY <3>1
  <2>3. CASE m # 0
    <3>1. m - 1 \in Nat /\ m - 1 \notin Lacking
      <4> HIDE DEF Pass
      <4>1. QED
        BY <2>1, <2>3
    <3>2. PICK v : Pass(v, m - 1)
      <4> HIDE DEF Pass
      <4>1. QED
        BY <3>1
    <3> DEFINE last == Appended(v[m - 1], keys[m], documents[m].source_id)
               w == [n \in 0..m |-> IF n = m THEN last ELSE v[n]]
    <3>3. ASSUME NEW n \in 0..m
          PROVE  w[n] = IF n = 0 THEN Empty ELSE Appended(w[n - 1], keys[n], documents[n].source_id)
      <4>1. CASE n = 0
        BY <2>3, <3>2, <4>1
      <4>2. CASE n = m
        <5>1. w[n - 1] = v[m - 1]
          BY <2>3, <4>2
        <5>2. QED
          BY <2>3, <4>2, <5>1
      <4>3. CASE n # 0 /\ n # m
        <5>1. n - 1 \in 0..m /\ n - 1 # m /\ n \in 0..m - 1
          BY <4>3
        <5>2. w[n - 1] = v[n - 1] /\ w[n] = v[n]
          BY <4>3, <5>1
        <5>3. v[n] = Appended(v[n - 1], keys[n], documents[n].source_id)
          BY <3>2, <4>3, <5>1
        <5>4. QED
          BY <4>3, <5>2, <5>3
      <4>4. QED
        BY <4>1, <4>2, <4>3
    <3>4. w = [n \in 0..m |-> w[n]]
      OBVIOUS
    <3>5. Pass(w, m)
      <4> HIDE DEF w
      <4>1. QED
        BY <3>3, <3>4
    <3> HIDE DEF Pass, w
    <3>6. QED
      BY <2>1, <3>5
  <2>4. QED
    BY <2>2, <2>3
<1>2. \E v : Pass(v, Len(documents))
  <2> HIDE DEF Pass
  <2>1. QED
    BY <1>1
<1>3. Pass(CHOOSE v : Pass(v, Len(documents)), Len(documents))
  <2> HIDE DEF Pass
  <2>1. QED
    BY <1>2
<1>4. Gathered(documents, keys) = (CHOOSE v : Pass(v, Len(documents)))[Len(documents)]
  BY DEF Gathered
<1>5. QED
  BY <1>3, <1>4


-----------------------------------------------------------------------------
(* The ids under a key *)

\* The ids of these positions, in the order of the positions.
IdsAt(documents, positions) ==
  [m \in 1..Cardinality(positions) |-> documents[SortedSet(positions)[m]].source_id]

\* What a later document adds to the ids.
LEMMA IdAppended ==
  ASSUME NEW documents, NEW P \in SUBSET Nat, IsFiniteSet(P), NEW x \in Nat, \A y \in P : y < x
  PROVE  IdsAt(documents, P \cup {x}) = Append(IdsAt(documents, P), documents[x].source_id)
<1> DEFINE N == Cardinality(P)
           f == SortedSet(P)
           g == SortedSet(P \cup {x})
           s == IdsAt(documents, P)
           id == documents[x].source_id
           Ids == {documents[i].source_id : i \in P}
<1>1. /\ N \in Nat /\ Cardinality(P \cup {x}) = N + 1
      /\ g = [n \in 1..N + 1 |-> IF n = N + 1 THEN x ELSE f[n]]
  BY LargestComesLast DEF SortedSet
<1>2. f \in [1..N -> P]
  BY InOrderSorts, AscendingIsOrder DEF SortedSet
<1>3. s = [m \in 1..N |-> documents[f[m]].source_id]
  BY DEF IdsAt
<1>4. IdsAt(documents, P \cup {x}) = [m \in 1..N + 1 |-> documents[g[m]].source_id]
  BY <1>1 DEF IdsAt
<1> HIDE DEF N, f, g, s
<1>5. s \in Seq(Ids) /\ Len(s) = N
  <2>1. s \in [1..N -> Ids]
    BY <1>2, <1>3
  <2>2. QED
    BY <1>1, <2>1
<1>6. /\ DOMAIN Append(s, id) = 1..N + 1
      /\ \A m \in 1..N : Append(s, id)[m] = s[m]
      /\ Append(s, id)[N + 1] = id
      /\ Append(s, id) \in Seq(Ids \cup {id})
  BY <1>1, <1>5
<1>7. Append(s, id) = [m \in 1..N + 1 |-> Append(s, id)[m]]
  <2> DEFINE t == Append(s, id)
  <2>1. t \in Seq(Ids \cup {id}) /\ DOMAIN t = 1..N + 1
    BY <1>6
  <2> HIDE DEF t
  <2>2. t = [m \in DOMAIN t |-> t[m]]
    BY <2>1
  <2>3. QED
    BY <2>1, <2>2 DEF t
<1>8. \A m \in 1..N + 1 : Append(s, id)[m] = documents[g[m]].source_id
  <2> TAKE m \in 1..N + 1
  <2>1. CASE m = N + 1
    BY <1>1, <1>6, <2>1
  <2>2. CASE m # N + 1
    <3>1. m \in 1..N
      BY <1>1, <2>2
    <3>2. QED
      BY <1>1, <1>3, <1>6, <2>2, <3>1
  <2>3. QED
    BY <2>1, <2>2
<1>9. QED
  BY <1>4, <1>7, <1>8 DEF s

\* The positions of what is under a key.
Under(keys, k) == {i \in DOMAIN keys : k \in keys[i]}

\* A key collects the ids of all documents that are under it, in their order.
LEMMA GatheredIds ==
  ASSUME NEW documents, NEW keys, Len(documents) \in Nat, DOMAIN keys = 1..Len(documents)
  PROVE  /\ DOMAIN Gathered(documents, keys) = UNION {keys[i] : i \in DOMAIN keys}
         /\ \A k \in DOMAIN Gathered(documents, keys) :
              Gathered(documents, keys)[k] = IdsAt(documents, Under(keys, k))
<1> DEFINE N == Len(documents)
<1>1. PICK v : /\ v = [n \in 0..N |-> IF n = 0 THEN Empty
                                      ELSE Appended(v[n - 1], keys[n], documents[n].source_id)]
               /\ Gathered(documents, keys) = v[N]
  BY GatheredPass
<1> HIDE DEF N
<1>2. N \in Nat
  BY DEF N
<1>3. /\ v[0] = Empty
      /\ \A n \in 1..N : v[n] = Appended(v[n - 1], keys[n], documents[n].source_id)
  <2>1. \A n \in 0..N : v[n] = IF n = 0 THEN Empty
                               ELSE Appended(v[n - 1], keys[n], documents[n].source_id)
    BY <1>1
  <2>2. 0 \in 0..N /\ \A n \in 1..N : n \in 0..N /\ n # 0
    BY <1>2
  <2>3. QED
    BY <2>1, <2>2
<1> DEFINE Before(n, k) == {i \in 1..n : k \in keys[i]}
           Good(n) == /\ DOMAIN v[n] = UNION {keys[i] : i \in 1..n}
                      /\ \A k \in DOMAIN v[n] : v[n][k] = IdsAt(documents, Before(n, k))
           Bad == {n \in 0..N : ~ Good(n)}
<1>4. Good(0)
  <2>1. DOMAIN Empty = {}
    BY DEF Empty
  <2>2. QED
    BY <1>3, <2>1
<1>5. ASSUME NEW n \in 1..N, Good(n - 1) PROVE Good(n)
  <2> DEFINE id == documents[n].source_id
  <2>1. n \in Nat /\ n - 1 \in Nat /\ 1..n = (1..n - 1) \cup {n} /\ n \notin 1..n - 1
    BY <1>2
  <2>2. v[n] = [k \in DOMAIN v[n - 1] \cup keys[n] |->
                  IF k \notin keys[n] THEN v[n - 1][k]
                  ELSE IF k \in DOMAIN v[n - 1] THEN Append(v[n - 1][k], id) ELSE <<id>>]
    BY <1>3 DEF Appended
  <2>3. DOMAIN v[n] = UNION {keys[i] : i \in 1..n}
    BY <1>5, <2>1, <2>2
  <2>4. ASSUME NEW k \in DOMAIN v[n] PROVE v[n][k] = IdsAt(documents, Before(n, k))
    <3>1. CASE k \notin keys[n]
      <4>1. k \in DOMAIN v[n - 1] /\ v[n][k] = v[n - 1][k]
        BY <2>2, <2>4, <3>1
      <4>2. Before(n, k) = Before(n - 1, k)
        BY <2>1, <3>1
      <4>3. QED
        BY <1>5, <4>1, <4>2
    <3>2. CASE k \in keys[n]
      <4> DEFINE P == Before(n - 1, k)
      <4>1. Before(n, k) = P \cup {n}
        BY <2>1, <3>2
      <4>2. P \in SUBSET Nat /\ IsFiniteSet(P) /\ \A y \in P : y < n
        <5>1. IsFiniteSet(1..n - 1) /\ P \in SUBSET (1..n - 1)
          <6>1. 1 \in Int /\ n - 1 \in Int
            BY <2>1
          <6>2. QED
            BY <6>1, FS_Interval
        <5>2. IsFiniteSet(P)
          BY <5>1, FS_Subset
        <5>3. QED
          BY <2>1, <5>1, <5>2
      <4>3. IdsAt(documents, Before(n, k)) = Append(IdsAt(documents, P), id)
        <5> HIDE DEF P
        <5>1. QED
          BY <2>1, <4>1, <4>2, IdAppended
      <4>4. CASE k \in DOMAIN v[n - 1]
        <5>1. v[n][k] = Append(v[n - 1][k], id) /\ v[n - 1][k] = IdsAt(documents, P)
          BY <1>5, <2>2, <3>2, <4>4
        <5>2. QED
          BY <4>3, <5>1
      <4>5. CASE k \notin DOMAIN v[n - 1]
        <5>1. v[n][k] = <<id>>
          BY <2>2, <3>2, <4>5
        <5>2. P = {}
          BY <1>5, <4>5
        <5>3. IdsAt(documents, P) = <<>>
          <6>1. Cardinality(P) = 0
            BY <5>2, FS_EmptySet
          <6> HIDE DEF P
          <6>2. IdsAt(documents, P) = [m \in 1..0 |-> documents[SortedSet(P)[m]].source_id]
            BY <6>1 DEF IdsAt
          <6>3. 1..0 = {}
            OBVIOUS
          <6>4. \A t : DOMAIN t = {} /\ t = [m \in DOMAIN t |-> t[m]] => t = <<>>
            OBVIOUS
          <6>5. QED
            BY <6>2, <6>3, <6>4
        <5>4. Append(<<>>, id) = <<id>>
          OBVIOUS
        <5>5. QED
          BY <4>3, <5>1, <5>3, <5>4
      <4>6. QED
        BY <4>4, <4>5
    <3>3. QED
      BY <3>1, <3>2
  <2>5. QED
    BY <2>3, <2>4
<1>6. Bad = {}
  <2> SUFFICES ASSUME Bad # {} PROVE FALSE
    OBVIOUS
  <2> HIDE DEF Good
  <2>1. PICK n \in Bad : \A k \in Bad : n <= k
    <3>1. Bad \subseteq Nat
      BY <1>2
    <3>2. QED
      BY <3>1, LeastNumber
  <2>2. n # 0
    BY <1>4
  <2>3. n \in 1..N /\ n - 1 \in 0..N /\ n - 1 \notin Bad
    BY <1>2, <2>1, <2>2
  <2>4. QED
    BY <1>5, <2>1, <2>3
<1>7. Good(N)
  <2> HIDE DEF Good
  <2>1. QED
    BY <1>2, <1>6
<1>8. \A k : Before(N, k) = Under(keys, k)
  BY DEF Under, N
<1> HIDE DEF Before
<1>9. QED
  BY <1>1, <1>7, <1>8 DEF N

\* The order by ids is an order.
LEMMA IdOrderIsOrder ==
  ASSUME NEW ids, NEW S \in SUBSET Nat, \A i \in S : ids[i] \in Nat
  PROVE  IsOrder(S, IdOrder(ids, S))
BY DEF IsOrder, IdOrder

\* Sorting the ids in the order of their positions sorts the positions by their ids.
LEMMA SortedIds ==
  ASSUME NEW documents, NEW P \in SUBSET Nat, IsFiniteSet(P),
         \A i \in P : documents[i].source_id \in Nat
  PROVE  Sorted(IdsAt(documents, P)) = IdsOf(documents, P)
<1> DEFINE N == Cardinality(P)
           e == SortedSet(P)
           s == IdsAt(documents, P)
           ids == [i \in P |-> documents[i].source_id]
           R == IdOrder(s, 1..N)
           Q == IdOrder(ids, P)
           o == InOrder(1..N, R)
           t == [n \in 1..N |-> e[o[n]]]
<1>1. /\ N \in Nat /\ e \in [1..N -> P]
      /\ \A i \in P : \E n \in 1..N : e[n] = i
      /\ \A m, n \in 1..N : m < n => <<e[m], e[n]>> \in AscendingOrder(P)
  BY InOrderSorts, AscendingIsOrder DEF SortedSet
<1>2. s = [m \in 1..N |-> documents[e[m]].source_id]
  BY DEF IdsAt
<1>3. Sorted(s) = [n \in 1..N |-> s[o[n]]]
  <2>1. DOMAIN s = 1..N
    BY <1>2
  <2> HIDE DEF s
  <2>2. QED
    BY <2>1 DEF Sorted
<1>4. IdsOf(documents, P) = [n \in 1..N |-> ids[InOrder(P, Q)[n]]]
  BY DEF IdsOf
<1> HIDE DEF N, e, s
<1>5. IsFiniteSet(1..N) /\ Cardinality(1..N) = N
  BY <1>1, FS_Interval
<1>6. IsOrder(1..N, R)
  <2>1. \A m \in 1..N : s[m] \in Nat
    BY <1>1, <1>2
  <2>2. 1..N \in SUBSET Nat
    BY <1>1
  <2>3. QED
    BY <2>1, <2>2, IdOrderIsOrder
<1>7. IsOrder(P, Q)
  <2>1. \A i \in P : ids[i] \in Nat
    OBVIOUS
  <2>2. QED
    BY <2>1, IdOrderIsOrder
<1> HIDE DEF R
<1>8. /\ o \in [1..N -> 1..N]
      /\ \A m \in 1..N : \E n \in 1..N : o[n] = m
      /\ \A m, n \in 1..N : m < n => <<o[m], o[n]>> \in R
  <2> DEFINE S == 1..N
  <2>1. IsFiniteSet(S) /\ IsOrder(S, R) /\ Cardinality(S) = N /\ o = InOrder(S, R)
    BY <1>5, <1>6 DEF o
  <2> HIDE DEF S, o
  <2>2. /\ o \in [1..Cardinality(S) -> S]
        /\ \A m \in S : \E n \in 1..Cardinality(S) : o[n] = m
        /\ \A m, n \in 1..Cardinality(S) : m < n => <<o[m], o[n]>> \in R
    BY <2>1, InOrderSorts
  <2>3. QED
    BY <2>1, <2>2 DEF S
<1> HIDE DEF o
<1>9. t \in [1..N -> P]
  BY <1>1, <1>8
<1>10. ASSUME NEW i \in P PROVE \E n \in 1..N : t[n] = i
  <2>1. PICK m \in 1..N : e[m] = i
    BY <1>1
  <2>2. PICK n \in 1..N : o[n] = m
    BY <1>8
  <2>3. QED
    BY <2>1, <2>2
<1>11. ASSUME NEW m \in 1..N, NEW n \in 1..N, m < n PROVE <<t[m], t[n]>> \in Q
  <2> DEFINE x == o[m]  y == o[n]
  <2>1. x \in 1..N /\ y \in 1..N /\ <<x, y>> \in R
    BY <1>8, <1>11
  <2> HIDE DEF x, y
  <2>2. s[x] < s[y] \/ (s[x] = s[y] /\ x < y)
    BY <2>1 DEF R, IdOrder
  <2>3. x < y => e[x] < e[y]
    BY <1>1, <2>1 DEF AscendingOrder
  <2>4. /\ e[x] \in P /\ e[y] \in P
        /\ ids[e[x]] = s[x] /\ ids[e[y]] = s[y]
    BY <1>1, <1>2, <2>1
  <2>5. <<e[x], e[y]>> \in Q
    <3> HIDE DEF ids
    <3>1. QED
      BY <2>2, <2>3, <2>4 DEF IdOrder
  <2>6. t[m] = e[x] /\ t[n] = e[y]
    BY DEF x, y
  <2> HIDE DEF t, Q
  <2>7. QED
    BY <2>5, <2>6
<1>12. t = InOrder(P, Q)
  <2> HIDE DEF t, Q
  <2>1. QED
    BY <1>7, <1>9, <1>10, <1>11, InOrderIsUnique DEF N
<1>13. \A n \in 1..N : s[o[n]] = ids[t[n]]
  BY <1>1, <1>2, <1>8
<1> HIDE DEF t, Q, ids
<1>14. QED
  BY <1>3, <1>4, <1>12, <1>13 DEF s

\* The ids are those of the positions, and there are as many.
LEMMA IdsOfPositions ==
  ASSUME NEW documents, NEW P \in SUBSET Nat, IsFiniteSet(P)
  PROVE  /\ Len(IdsAt(documents, P)) = Cardinality(P)
         /\ {IdsAt(documents, P)[n] : n \in DOMAIN IdsAt(documents, P)}
              = {documents[i].source_id : i \in P}
<1> DEFINE N == Cardinality(P)
           e == SortedSet(P)
           s == IdsAt(documents, P)
<1>1. /\ N \in Nat /\ e \in [1..N -> P]
      /\ \A i \in P : \E n \in 1..N : e[n] = i
  BY InOrderSorts, AscendingIsOrder DEF SortedSet
<1>2. s = [m \in 1..N |-> documents[e[m]].source_id]
  BY DEF IdsAt
<1> HIDE DEF N, e, s
<1>3. Len(s) = N
  BY <1>1, <1>2
<1>4. {s[n] : n \in DOMAIN s} = {documents[i].source_id : i \in P}
  BY <1>1, <1>2
<1>5. QED
  BY <1>3, <1>4 DEF N, s

-----------------------------------------------------------------------------
(* One document and two *)

\* A document states one value of a key it mentions, the one that is kept.
LEMMA KeptIsStated ==
  ASSUME NEW d, IsDocument(d)
  PROVE  /\ \A k : Mentions(d, k) <=> k \in DOMAIN KeyValues(d.lines)
         /\ \A k, value : States(d, k, value)
                            <=> k \in DOMAIN KeyValues(d.lines) /\ value = KeyValues(d.lines)[k]
<1> DEFINE kept == KeyValues(d.lines)
<1>1. /\ Len(d.lines) \in Nat /\ DOMAIN d.lines = 1..Len(d.lines)
      /\ DOMAIN kept = {d.lines[i].key : i \in DOMAIN d.lines}
      /\ \A k \in DOMAIN kept : States(d, k, kept[k])
  BY KeyValuesAreLast
<1> HIDE DEF kept
<1>2. \A k : Mentions(d, k) <=> k \in DOMAIN kept
  BY <1>1 DEF Mentions
<1>3. ASSUME NEW k, NEW value, States(d, k, value)
      PROVE  k \in DOMAIN kept /\ value = kept[k]
  <2>1. PICK i \in DOMAIN d.lines :
          /\ d.lines[i] = [key |-> k, value |-> value]
          /\ \A j \in DOMAIN d.lines : j > i => d.lines[j].key # k
    BY <1>3 DEF States
  <2>2. k \in DOMAIN kept
    BY <1>1, <2>1
  <2>3. PICK m \in DOMAIN d.lines :
          /\ d.lines[m] = [key |-> k, value |-> kept[k]]
          /\ \A j \in DOMAIN d.lines : j > m => d.lines[j].key # k
    BY <1>1, <2>2 DEF States
  <2>4. i = m
    BY <1>1, <2>1, <2>3
  <2>5. QED
    BY <2>1, <2>2, <2>3, <2>4
<1>4. QED
  BY <1>1, <1>2, <1>3 DEF kept

\* Documents disagree on a key if the values they keep differ.
LEMMA DisagreeIsDiffer ==
  ASSUME NEW d, IsDocument(d), NEW e, IsDocument(e), NEW k
  PROVE  Disagree(d, e, k) <=> /\ k \in DOMAIN KeyValues(d.lines) \cap DOMAIN KeyValues(e.lines)
                               /\ KeyValues(d.lines)[k] # KeyValues(e.lines)[k]
<1>1. /\ Mentions(d, k) <=> k \in DOMAIN KeyValues(d.lines)
      /\ Mentions(e, k) <=> k \in DOMAIN KeyValues(e.lines)
      /\ \A value : States(d, k, value)
                       <=> k \in DOMAIN KeyValues(d.lines) /\ value = KeyValues(d.lines)[k]
      /\ \A value : States(e, k, value)
                       <=> k \in DOMAIN KeyValues(e.lines) /\ value = KeyValues(e.lines)[k]
  BY KeptIsStated
<1>2. ASSUME k \in DOMAIN KeyValues(d.lines)
      PROVE  \E i \in DOMAIN d.lines : d.lines[i].value = KeyValues(d.lines)[k]
  <2>1. States(d, k, KeyValues(d.lines)[k])
    BY <1>1, <1>2
  <2>2. QED
    BY <2>1 DEF States
<1>3. QED
  BY <1>1, <1>2 DEF Disagree

-----------------------------------------------------------------------------
(* The findings *)

\* A conflict for every field that two documents disagree on, naming all that mention it.
LEMMA ConflictsFound ==
  ASSUME NEW documents, Len(documents) \in Nat, DOMAIN documents = 1..Len(documents),
         \A i \in DOMAIN documents : IsDocument(documents[i])
  PROVE  Conflicts(documents)
           = {Finding("CONFLICT",
                      SortedSet({documents[i].source_id : i \in Mentioning(documents, k)}), k)
                : k \in {f \in UNION {{documents[i].lines[n].key : n \in DOMAIN documents[i].lines} :
                                       i \in DOMAIN documents} :
                           \E i, j \in DOMAIN documents : Disagree(documents[i], documents[j], f)}}
<1> DEFINE D == DOMAIN documents
           K(i) == KeyValues(documents[i].lines)
           keys == [n \in D |-> {<<k, K(n)[k]>> : k \in DOMAIN K(n)}]
           kv == SourcesOfValues(documents)
           Values(k) == {v \in DOMAIN kv : v[1] = k}
           Sources(k) == UNION {{kv[v][n] : n \in DOMAIN kv[v]} : v \in Values(k)}
           Fields == UNION {{documents[i].lines[n].key : n \in DOMAIN documents[i].lines} : i \in D}
           Ids(k) == {documents[i].source_id : i \in Mentioning(documents, k)}
           Disputed(k) == \E i, j \in D : Disagree(documents[i], documents[j], k)
           Found(v) == Finding("CONFLICT", SortedSet(Sources(v[1])), v[1])
           Wanted(k) == Finding("CONFLICT", SortedSet(Ids(k)), k)
           X == {v \in DOMAIN kv : \E w \in Values(v[1]) : w # v}
           Y == {k \in Fields : Disputed(k)}
<1>1. /\ DOMAIN kv = UNION {keys[i] : i \in D}
      /\ \A v \in DOMAIN kv : kv[v] = IdsAt(documents, Under(keys, v))
  <2>1. kv = Gathered(documents, keys)
    BY DEF SourcesOfValues
  <2>2. Len(documents) \in Nat /\ DOMAIN keys = 1..Len(documents) /\ DOMAIN keys = D
    OBVIOUS
  <2> HIDE DEF kv, keys, D
  <2>3. QED
    BY <2>1, <2>2, GatheredIds
<1>2. Conflicts(documents) = {Found(v) : v \in X}
  BY DEF Conflicts
<1>3. D \in SUBSET Nat /\ IsFiniteSet(D)
  BY FS_Interval
<1>4. \A i \in D : IsDocument(documents[i])
  OBVIOUS
<1> HIDE DEF D, kv, K
<1>5. /\ \A i \in D : \A v : v \in keys[i] <=> \E k \in DOMAIN K(i) : v = <<k, K(i)[k]>>
      /\ \A i, v : i \in Under(keys, v) <=> i \in D /\ v \in keys[i]
  BY DEF Under
<1>6. \A v \in DOMAIN kv :
        {kv[v][n] : n \in DOMAIN kv[v]}
          = {documents[i].source_id : i \in Under(keys, v)}
  <2> TAKE v \in DOMAIN kv
  <2> DEFINE P == Under(keys, v)
  <2>1. P \in SUBSET Nat /\ IsFiniteSet(P)
    <3>1. P \in SUBSET D
      BY <1>5
    <3>2. QED
      BY <1>3, <3>1, FS_Subset
  <2>2. kv[v] = IdsAt(documents, P)
    BY <1>1
  <2> HIDE DEF P
  <2>3. {kv[v][n] : n \in DOMAIN kv[v]} = {documents[i].source_id : i \in P}
    <3> DEFINE s == IdsAt(documents, P)
    <3>1. {s[n] : n \in DOMAIN s} = {documents[i].source_id : i \in P}
      BY <2>1, IdsOfPositions
    <3>2. kv[v] = s
      BY <2>2
    <3> HIDE DEF s
    <3>3. QED
      BY <3>1, <3>2
  <2>4. QED
    BY <2>3 DEF P
<1> HIDE DEF keys
<1>7. /\ \A i \in D : \A k : Mentions(documents[i], k) <=> k \in DOMAIN K(i)
      /\ \A i, k : i \in Mentioning(documents, k) <=> i \in D /\ k \in DOMAIN K(i)
  <2>1. \A i \in D : \A k : Mentions(documents[i], k) <=> k \in DOMAIN K(i)
    BY <1>4, KeptIsStated DEF K
  <2>2. QED
    BY <2>1 DEF Mentioning, D
<1>8. \A i, j \in D : \A k : Disagree(documents[i], documents[j], k)
                           <=> k \in DOMAIN K(i) /\ k \in DOMAIN K(j) /\ K(i)[k] # K(j)[k]
  BY <1>4, DisagreeIsDiffer DEF K
<1>9. ASSUME NEW k PROVE Sources(k) = Ids(k)
  <2>1. ASSUME NEW id \in Sources(k) PROVE id \in Ids(k)
    <3>1. PICK v \in Values(k) : id \in {kv[v][n] : n \in DOMAIN kv[v]}
      BY <2>1
    <3>2. PICK i \in D : v \in keys[i] /\ id = documents[i].source_id
      BY <1>5, <1>6, <3>1
    <3>3. k \in DOMAIN K(i)
      BY <1>5, <3>1, <3>2
    <3>4. QED
      BY <1>7, <3>2, <3>3
  <2>2. ASSUME NEW id \in Ids(k) PROVE id \in Sources(k)
    <3>1. PICK i \in D : k \in DOMAIN K(i) /\ id = documents[i].source_id
      BY <1>7, <2>2
    <3> DEFINE v == <<k, K(i)[k]>>
    <3>2. v \in keys[i] /\ v[1] = k
      BY <1>5, <3>1
    <3> HIDE DEF v
    <3>3. v \in DOMAIN kv
      BY <1>1, <3>1, <3>2
    <3>4. id \in {kv[v][n] : n \in DOMAIN kv[v]}
      BY <1>5, <1>6, <3>1, <3>2, <3>3
    <3>5. v \in Values(k)
      BY <3>2, <3>3
    <3>6. QED
      BY <3>4, <3>5
  <2>3. QED
    BY <2>1, <2>2
<1>10. ASSUME NEW v \in X PROVE v[1] \in Y
  <2>1. PICK w \in DOMAIN kv : w[1] = v[1] /\ w # v
    OBVIOUS
  <2>2. PICK i \in D : v \in keys[i]
    BY <1>1, <1>10
  <2>3. PICK j \in D : w \in keys[j]
    BY <1>1, <2>1
  <2>4. /\ v[1] \in DOMAIN K(i) /\ v = <<v[1], K(i)[v[1]]>>
        /\ v[1] \in DOMAIN K(j) /\ w = <<v[1], K(j)[v[1]]>>
    BY <1>5, <2>1, <2>2, <2>3
  <2>5. K(i)[v[1]] # K(j)[v[1]]
    BY <2>1, <2>4
  <2>6. Disputed(v[1])
    BY <1>8, <2>4, <2>5
  <2>7. v[1] \in Fields
    BY <1>7, <2>4 DEF Mentions
  <2>8. QED
    BY <2>6, <2>7
<1>11. ASSUME NEW k \in Y PROVE \E v \in X : v[1] = k
  <2>1. PICK i \in D, j \in D : /\ k \in DOMAIN K(i) /\ k \in DOMAIN K(j)
                                /\ K(i)[k] # K(j)[k]
    BY <1>8, <1>11
  <2> DEFINE v == <<k, K(i)[k]>>  w == <<k, K(j)[k]>>
  <2>2. v \in keys[i] /\ w \in keys[j] /\ v # w /\ v[1] = k /\ w[1] = k
    BY <1>5, <2>1
  <2> HIDE DEF v, w
  <2>3. v \in DOMAIN kv /\ w \in DOMAIN kv
    BY <1>1, <2>1, <2>2
  <2>4. v \in X
    BY <2>2, <2>3
  <2>5. QED
    BY <2>2, <2>4
<1>12. \A v : Found(v) = Wanted(v[1])
  BY <1>9
<1> HIDE DEF X, Y, Found, Wanted
<1>13. {Found(v) : v \in X} = {Wanted(k) : k \in Y}
  BY <1>10, <1>11, <1>12
<1>14. QED
  BY <1>2, <1>13 DEF Wanted, Y, D

\* A duplicate for every hash that two documents share, with the ids of all that have it.
LEMMA DuplicatesFound ==
  ASSUME NEW documents, Len(documents) \in Nat, DOMAIN documents = 1..Len(documents),
         \A i \in DOMAIN documents : IsDocument(documents[i])
  PROVE  Duplicates(documents)
           = {Finding("DUPLICATE", IdsOf(documents, Sharing(documents, documents[i].content_hash)), "")
                : i \in {x \in DOMAIN documents :
                           \E j \in DOMAIN documents :
                             x < j /\ documents[x].content_hash = documents[j].content_hash}}
<1> DEFINE D == DOMAIN documents
           Hash(i) == documents[i].content_hash
           keys == [n \in D |-> {documents[n].content_hash}]
           hashes == Hashes(documents)
           X == {h \in DOMAIN hashes : Len(hashes[h]) > 1}
           Y == {x \in D : \E j \in D : x < j /\ Hash(x) = Hash(j)}
           Found(h) == Finding("DUPLICATE", Sorted(hashes[h]), "")
           Wanted(h) == Finding("DUPLICATE", IdsOf(documents, Sharing(documents, h)), "")
<1>1. /\ DOMAIN hashes = UNION {keys[i] : i \in D}
      /\ \A h \in DOMAIN hashes : hashes[h] = IdsAt(documents, Under(keys, h))
  <2>1. hashes = Gathered(documents, keys)
    BY DEF Hashes
  <2>2. Len(documents) \in Nat /\ DOMAIN keys = 1..Len(documents) /\ DOMAIN keys = D
    OBVIOUS
  <2> HIDE DEF hashes, keys, D
  <2>3. QED
    BY <2>1, <2>2, GatheredIds
<1>2. D \in SUBSET Nat /\ IsFiniteSet(D) /\ \A i \in D : documents[i].source_id \in Nat
  <2>1. \A i \in D : documents[i].source_id \in Nat
    BY DEF IsDocument
  <2>2. Len(documents) \in Nat /\ D = 1..Len(documents)
    OBVIOUS
  <2> HIDE DEF D
  <2>3. D \in SUBSET Nat /\ IsFiniteSet(D)
    BY <2>2, FS_Interval
  <2>4. QED
    BY <2>1, <2>3
<1>3. Duplicates(documents) = {Found(h) : h \in X}
  BY DEF Duplicates
<1> HIDE DEF D, hashes
<1>4. \A h : /\ Under(keys, h) = Sharing(documents, h)
            /\ \A i : i \in Sharing(documents, h) <=> i \in D /\ Hash(i) = h
  <2>1. \A h : Sharing(documents, h) = {i \in D : Hash(i) = h}
    BY DEF Sharing, D
  <2>2. \A h : Under(keys, h) = {i \in D : Hash(i) = h}
    BY DEF Under
  <2>3. QED
    BY <2>1, <2>2
<1>5. DOMAIN hashes = {Hash(i) : i \in D}
  BY <1>1
<1>6. \A h \in DOMAIN hashes : hashes[h] = IdsAt(documents, Sharing(documents, h))
  BY <1>1, <1>4
<1>7. \A h : Sharing(documents, h) \in SUBSET Nat /\ IsFiniteSet(Sharing(documents, h))
  <2>1. \A h : Sharing(documents, h) \in SUBSET D
    BY <1>4
  <2>2. QED
    BY <1>2, <2>1, FS_Subset
<1>8. \A h \in DOMAIN hashes :
        /\ Found(h) = Wanted(h)
        /\ Len(hashes[h]) = Cardinality(Sharing(documents, h))
  <2> TAKE h \in DOMAIN hashes
  <2>1. \A i \in Sharing(documents, h) : documents[i].source_id \in Nat
    BY <1>2, <1>4
  <2>2. Sorted(hashes[h]) = IdsOf(documents, Sharing(documents, h))
    BY <1>6, <1>7, <2>1, SortedIds
  <2>3. Len(hashes[h]) = Cardinality(Sharing(documents, h))
    BY <1>6, <1>7, IdsOfPositions
  <2>4. QED
    BY <2>2, <2>3
<1>9. ASSUME NEW h \in X PROVE \E i \in Y : Hash(i) = h
  <2> DEFINE S == Sharing(documents, h)
  <2>1. IsFiniteSet(S) /\ Cardinality(S) \in Nat /\ Cardinality(S) > 1
    BY <1>7, <1>8, FS_CardinalityType
  <2>2. PICK i \in S : TRUE
    BY <2>1, FS_EmptySet
  <2>3. PICK j \in S : j # i
    <3> HIDE DEF S
    <3>1. S # {i}
      BY <2>1, FS_Singleton
    <3>2. QED
      BY <2>2, <3>1
  <2>4. /\ i \in D /\ j \in D /\ Hash(i) = h /\ Hash(j) = h
        /\ i < j \/ j < i
    <3>1. i \in D /\ j \in D /\ Hash(i) = h /\ Hash(j) = h
      BY <1>4, <2>2, <2>3
    <3> HIDE DEF D
    <3>2. i \in Nat /\ j \in Nat
      BY <1>2, <3>1
    <3>3. i < j \/ j < i
      BY <2>3, <3>2
    <3>4. QED
      BY <3>1, <3>3
  <2>5. CASE i < j
    BY <2>4, <2>5
  <2>6. CASE j < i
    BY <2>4, <2>6
  <2>7. QED
    BY <2>4, <2>5, <2>6
<1>10. ASSUME NEW i \in Y PROVE Hash(i) \in X
  <2> DEFINE h == Hash(i)  S == Sharing(documents, h)
  <2>1. PICK j \in D : i < j /\ Hash(j) = h
    OBVIOUS
  <2>2. h \in DOMAIN hashes
    BY <1>5
  <2>3. i \in S /\ j \in S /\ i # j
    <3>1. i \in D /\ i \in Nat
      BY <1>2
    <3>2. i # j
      BY <2>1, <3>1
    <3>3. QED
      BY <1>4, <2>1, <3>1, <3>2
  <2>4. IsFiniteSet(S) /\ Cardinality(S) \in Nat
    BY <1>7, FS_CardinalityType
  <2>5. Len(hashes[h]) = Cardinality(S)
    BY <1>8, <2>2
  <2> HIDE DEF S, h
  <2>6. Cardinality(S) # 0 /\ Cardinality(S) # 1
    <3>1. S # {} /\ \A x : S # {x}
      BY <2>3
    <3>2. QED
      BY <2>4, <3>1, FS_EmptySet, FS_Singleton
  <2>7. Len(hashes[h]) > 1
    BY <2>4, <2>5, <2>6
  <2>8. QED
    BY <2>2, <2>7 DEF h
<1>11. X \subseteq DOMAIN hashes
  OBVIOUS
<1> HIDE DEF X, Y, Found, Wanted, Hash
<1>12. {Found(h) : h \in X} = {Wanted(Hash(i)) : i \in Y}
  BY <1>8, <1>9, <1>10, <1>11
<1>13. QED
  BY <1>3, <1>12 DEF Wanted, Y, Hash, D

\* What is missing or outdated is found document by document.
LEMMA FoundInOne ==
  ASSUME NEW d, IsDocument(d), NEW required_fields, NEW current_year \in Nat
  PROVE  /\ Missing(d, required_fields)
              = {Finding("MISSING_FIELD", <<d.source_id>>, f) :
                   f \in {x \in required_fields : ~ Mentions(d, x)}}
         /\ Outdated(d, current_year)
              = IF ~ \A year \in d.years : year >= current_year
                THEN {Finding("OUTDATED_REFERENCE", <<d.source_id>>, "")} ELSE {}
<1>1. required_fields \ DOMAIN KeyValues(d.lines) = {x \in required_fields : ~ Mentions(d, x)}
  BY KeptIsStated
<1>2. (\E year \in d.years : year < current_year) <=> ~ \A year \in d.years : year >= current_year
  BY DEF IsDocument
<1>3. QED
  BY <1>1, <1>2 DEF Missing, Outdated

\* One pass finds what a look at every pair of documents would: ComparisonIsPairwise
\* (comparison.py 47-99).
THEOREM ComparesPairwise == ComparisonIsPairwise
<1> SUFFICES ASSUME NEW documents \in ComparedDocuments
             PROVE  Compare(documents, RequiredFields, CurrentYear)
                      = Expected(documents, RequiredFields, CurrentYear)
  BY DEF ComparisonIsPairwise
<1> DEFINE D == DOMAIN documents
           Missed(i) == Missing(documents[i], RequiredFields)
           Old(i) == Outdated(documents[i], CurrentYear)
           MissedOf(p) == Finding("MISSING_FIELD", <<documents[p[1]].source_id>>, p[2])
           OldOf(i) == Finding("OUTDATED_REFERENCE", <<documents[i].source_id>>, "")
           Lacks == {q \in D \X RequiredFields : ~ Mentions(documents[q[1]], q[2])}
           Ageing == {x \in D : ~ \A year \in documents[x].years : year >= CurrentYear}
<1>1. /\ Len(documents) \in Nat /\ D = 1..Len(documents)
      /\ \A i \in D : IsDocument(documents[i])
      /\ CurrentYear \in Nat
  <2>1. documents \in Seq({documents[i] : i \in D}) /\ \A i \in D : IsDocument(documents[i])
    BY ComparedDocumentsAssumption
  <2>2. QED
    BY <2>1, ComparedDocumentsAssumption
<1>2. \A i \in D : /\ \A x : x \in Missed(i) <=> \E f \in RequiredFields :
                                ~ Mentions(documents[i], f) /\ x = MissedOf(<<i, f>>)
                   /\ \A x : x \in Old(i) <=> i \in Ageing /\ x = OldOf(i)
  <2> TAKE i \in D
  <2> DEFINE d == documents[i]
  <2>1. /\ Missed(i) = {Finding("MISSING_FIELD", <<d.source_id>>, f) :
                           f \in {x \in RequiredFields : ~ Mentions(d, x)}}
        /\ Old(i) = IF ~ \A year \in d.years : year >= CurrentYear
                    THEN {Finding("OUTDATED_REFERENCE", <<d.source_id>>, "")} ELSE {}
    BY <1>1, FoundInOne
  <2>2. \A f : MissedOf(<<i, f>>) = Finding("MISSING_FIELD", <<d.source_id>>, f)
    OBVIOUS
  <2>3. OldOf(i) = Finding("OUTDATED_REFERENCE", <<d.source_id>>, "")
    OBVIOUS
  <2>4. i \in Ageing <=> ~ \A year \in d.years : year >= CurrentYear
    OBVIOUS
  <2> HIDE DEF Missed, Old, MissedOf, OldOf, Ageing, d
  <2>5. ASSUME NEW x
        PROVE  x \in Missed(i) <=> \E f \in RequiredFields :
                                      ~ Mentions(d, f) /\ x = MissedOf(<<i, f>>)
    BY <2>1, <2>2
  <2>6. ASSUME NEW x PROVE x \in Old(i) <=> i \in Ageing /\ x = OldOf(i)
    BY <2>1, <2>3, <2>4
  <2>7. QED
    BY <2>5, <2>6 DEF d
<1> HIDE DEF Missed, Old, MissedOf, OldOf
<1>3. UNION {Missed(i) \cup Old(i) : i \in D}
        = {MissedOf(p) : p \in Lacks} \cup {OldOf(i) : i \in Ageing}
  <2>1. ASSUME NEW i \in D, NEW x \in Missed(i) PROVE \E p \in Lacks : x = MissedOf(p)
    BY <1>2, <2>1
  <2>2. ASSUME NEW i \in D, NEW x \in Old(i) PROVE i \in Ageing /\ x = OldOf(i)
    BY <1>2, <2>2
  <2>3. ASSUME NEW p \in Lacks PROVE p[1] \in D /\ MissedOf(p) \in Missed(p[1])
    BY <1>2, <2>3
  <2>4. ASSUME NEW i \in Ageing PROVE i \in D /\ OldOf(i) \in Old(i)
    BY <1>2, <2>4
  <2> HIDE DEF Lacks, Ageing
  <2>5. QED
    BY <2>1, <2>2, <2>3, <2>4
<1>4. Compare(documents, RequiredFields, CurrentYear)
        = Duplicates(documents) \cup Conflicts(documents)
          \cup UNION {Missed(i) \cup Old(i) : i \in D}
  BY DEF Compare, Missed, Old
<1>5. Expected(documents, RequiredFields, CurrentYear)
        = Conflicts(documents) \cup Duplicates(documents)
          \cup {MissedOf(p) : p \in Lacks} \cup {OldOf(i) : i \in Ageing}
  <2> DEFINE Conflicting ==
               {Finding("CONFLICT", SortedSet({documents[i].source_id : i \in Mentioning(documents, k)}), k)
                  : k \in {f \in UNION {{documents[i].lines[n].key : n \in DOMAIN documents[i].lines} :
                                         i \in D} :
                             \E i, j \in D : Disagree(documents[i], documents[j], f)}}
             Doubled ==
               {Finding("DUPLICATE", IdsOf(documents, Sharing(documents, documents[i].content_hash)), "")
                  : i \in {x \in D :
                             \E j \in D :
                               x < j /\ documents[x].content_hash = documents[j].content_hash}}
  <2>1. Expected(documents, RequiredFields, CurrentYear)
          = Conflicting \cup Doubled
            \cup {MissedOf(p) : p \in Lacks} \cup {OldOf(i) : i \in Ageing}
    BY DEF Expected, MissedOf, OldOf
  <2>2. Conflicts(documents) = Conflicting
    BY <1>1, ConflictsFound
  <2>3. Duplicates(documents) = Doubled
    BY <1>1, DuplicatesFound
  <2>4. QED
    BY <2>1, <2>2, <2>3
<1>6. QED
  BY <1>3, <1>4, <1>5

\* The comparison keeps no state: DeskComparesPairwise (comparison.py 37-99).
THEOREM DeskComparesPairwiseAlways == DeskSpec => []DeskComparesPairwise
<1>1. DeskComparesPairwise
  BY ComparesPairwise DEF DeskComparesPairwise
<1>2. QED
  BY <1>1, PTL
=============================================================================
