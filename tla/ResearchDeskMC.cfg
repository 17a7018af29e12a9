SPECIFICATION DeskSpec
CONSTANTS
  unset = unset
  nobudget = nobudget
  NoBundle = NoBundle
  NoLimit = unset
  NoBudget = nobudget
  Identities = {"ours", "theirs"}
  EvidenceIds = {"e1", "e2", "e3"}
  Contents = {"old", "new"}
  CorrelationIds = {"corr", "other corr"}
  ToolErrorCodes = {"SOURCE_DENIED"}
  Requests <- MCRequests
  Outputs <- MCOutputs
  Drafts <- MCDrafts
  AllowedPolicyRefs = {"policy.evidence-bound-research.v1"}
  MaximumDataClassification = "INTERNAL"
  Routes = {"route"}
  PolicyRoutes <- MCPolicyRoutes
  PolicyRefs = {"policy.evidence-bound-research.v1", "policy.unknown"}
  SourceIds = {"policy"}
  AnalysisRequests <- MCAnalysisRequests
  AnalysisAnswers <- MCAnalysisAnswers
  ComparedDocuments <- MCComparedDocuments
  RequiredFields = {"owner", "approval"}
  CurrentYear = 2026
INVARIANTS TypeOK ModelReadsOwnContext EvidenceBound AnalysisBound EvaluationEarned DeskComparesPairwise
PROPERTY DeskIsGoverned
CHECK_DEADLOCK FALSE
