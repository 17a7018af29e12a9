SPECIFICATION Spec
CONSTANTS
  h1 = h1
  h2 = h2
  c1 = c1
  c2 = c2
  Absent = Absent
  EmptyId = EmptyId
  None = None
  NoTool = NoTool
  Handlers = {h1, h2}
  mixed = mixed
  foreign = foreign
  CorrelationIds = {c1, c2, mixed, foreign}
  AsciiOf <- MCAsciiOf
  CapabilityIds = {"task.list", "task.read", "finding.create", "document.search", "document.read",
    "document.compare", "project.list", "project.read", "report.generate", "approval.request",
    "global.search", "organization.context.read"}
  Tools = {"task.list", "task.read", "report.generate", "research.external.retrieve"}
  Permissions = {"task.read", "report.write", "document.read", "research.external.read"}
  Scopes = {"s1", "s2"}
  HttpCalls <- MCHttpCalls
  DecideCalls <- MCDecideCalls
  SettingsSet <- MCSettings
SYMMETRY MCSymmetry
INVARIANTS TypeOK AnswersOwnCall OnlyAuthenticated ReuseIsUsable ProposalBounded CareNeverTalkedDown DecisionJustified
CHECK_DEADLOCK FALSE
