------------------------------ MODULE ResearchDesk ------------------------------
(***************************************************************************)
(* What works on evidence, side by side on one model gateway: a            *)
(* ResearchEngine call, whose result a SkillEvaluator may look at, and a   *)
(* DocumentIntelligence call.  Both are coroutines of one event loop: each *)
(* step is a step of one of them.                                          *)
(***************************************************************************)
EXTENDS ResearchEngine, SkillEvaluator, DocumentComparison

CONSTANTS AnalysisRequests, AnalysisAnswers, PolicyRefs, SourceIds

VARIABLES analysis_request, analysis_pc, analysis_asked, analysis_outcome

Analysis ==
  INSTANCE DocumentIntelligence WITH
    Requests <- AnalysisRequests, Answers <- AnalysisAnswers,
    request <- analysis_request, pc <- analysis_pc,
    asked <- analysis_asked, outcome <- analysis_outcome

ASSUME AnalysisAssumption ==
  /\ AnalysisRequests \subseteq Analysis!DocumentAnalysisRequests
  /\ AnalysisAnswers \subseteq Analysis!SemanticAnswers

deskVars == <<vars, analysis_request, analysis_pc, analysis_asked, analysis_outcome>>

DeskInit == Init /\ Analysis!Init

DeskNext ==
  \/ Next /\ UNCHANGED <<analysis_request, analysis_pc, analysis_asked, analysis_outcome>>
  \/ Analysis!Next /\ UNCHANGED vars

DeskSpec == DeskInit /\ [][DeskNext]_deskVars

-----------------------------------------------------------------------------
(* Evaluation of a research result *)

EvidenceIdsIn(references) == {e.evidence_id : e \in references}

CitedIn(result) == EvidenceIdsIn(UNION (result.findings \cup result.recommendations))

\* evaluate_result of what research() returned, against what was supplied to it and sent by it.
Evaluated(result, contract_satisfied, evidence_required, limitations) ==
  EvaluateResult(contract_satisfied, evidence_required, CitedIn(result),
                 EvidenceIdsOf(asked[1].bundle), {sent[k] : k \in DOMAIN sent}, {SearchContext},
                 limitations)
-----------------------------------------------------------------------------
(* Properties *)

\* The type invariant of the analysis.
AnalysisTypeOK == Analysis!TypeOK

\* An analysis stays with its source, its correlation and its classification.
AnalysisBound == Analysis!AnalysisBound

\* No stated limitation and no accepted output contract excuses a result: a result of the engine
\* passes an evaluation exactly if its contract is satisfied and it cites what the skill wants
\* evidence for, and the engine never cites or uses what an evaluation would call unknown
\* (evaluator/service.py 99-157, engine/service.py 150-206).
EvaluationEarned ==
  outcome \in ResearchResults =>
    \A contract, required, limitations \in BOOLEAN :
      LET evaluation == Evaluated(outcome, contract, required, limitations) IN
      /\ evaluation.checks.evidence_refs_authorized /\ evaluation.checks.tool_usage_authorized
      /\ evaluation.passed <=>
           /\ contract
           /\ required => outcome.findings # {} \/ UNION outcome.recommendations # {}

\* The comparison keeps no state: whenever research() is called, ComparisonIsPairwise holds of it
\* (comparison.py 37-99).
DeskComparesPairwise == pc = "received" => ComparisonIsPairwise
-----------------------------------------------------------------------------
(* The desk implements two governed runs *)

\* An analysis has no tools, and asks the model only about what the gateway admits.
AnalysisMandate(r) ==
  [tools |-> {}, calls |-> 0, steps |-> 1,
   consult |-> /\ r.policy_ref \in AllowedPolicyRefs
               /\ Rank[r.source.data_classification] <= Rank[MaximumDataClassification]]

AnalysisVerdict(o) ==
  [status |-> IF o = Analysis!Pending THEN "RUNNING"
              ELSE IF o \in Analysis!DocumentAnalysisDrafts THEN "COMPLETED" ELSE "RAISED",
   reported |-> 0]

GovernedAnalysis ==
  INSTANCE GovernedRun WITH
    Attempts <- {"analysis"},
    Tools <- {},
    Mandates <- {AnalysisMandate(r) : r \in AnalysisRequests},
    mandate <- [a \in {"analysis"} |-> AnalysisMandate(analysis_request)],
    issued <- [a \in {"analysis"} |-> <<>>],
    answered <- [a \in {"analysis"} |-> 0],
    consulted <- [a \in {"analysis"} |-> analysis_asked # <<>>],
    verdict <- [a \in {"analysis"} |-> AnalysisVerdict(analysis_outcome)]

\* However research and an analysis interleave, each is a governed run: the analysis calls no tool
\* and asks the model at most once, about a source the policy admits, and completes only with its
\* answer (document_intelligence.py 104-139); research is as in ImplementsGovernedRun.
DeskIsGoverned == ImplementsGovernedRun /\ GovernedAnalysis!Spec
=============================================================================
