SPECIFICATION Spec
CONSTANTS
  root1 = root1
  root2 = root2
  run1 = run1
  run2 = run2
  run3 = run3
  unset = unset
  NoLimit = unset
  RunIds <- MCRunIds
  Roots <- MCRoots
  Agents <- MCAgents
  RootRuns <- MCRootRuns
  Authorities <- MCAuthorities
  ChildBudgets <- MCChildBudgets
  Timeouts = {1, 2}
  Policy <- MCPolicy
  TruthfulAncestry = FALSE
SYMMETRY Symmetry
INVARIANT NoAgentBelowItself
CHECK_DEADLOCK FALSE
