SPECIFICATION FairSpec
CONSTANTS
  a1 = a1
  unset = unset
  nobudget = nobudget
  NoLimit = unset
  NoBudget = nobudget
  Attempts = {a1}
  Tools <- MCTools
  Plans <- MCPlans
  Invocations <- MCInvocations
  ModelResponses <- MCModelResponses
  CorrelationIds <- MCCorrelationIds
  ToolErrorCodes = {"TOOL_DENIED"}
  AllowedPolicyRefs = {"policy", "unrouted policy"}
  MaximumDataClassification = "INTERNAL"
  Routes = {"route"}
  PolicyRoutes <- MCPolicyRoutes
INVARIANTS TypeOK Authorized BudgetKept ModelSeesCompletedPlan EffectsReported HiddenEffectsAdmitted CorrelationKept
PROPERTIES EndIsFinal TimedAttemptEnds ImplementsGovernedRun
CHECK_DEADLOCK FALSE
