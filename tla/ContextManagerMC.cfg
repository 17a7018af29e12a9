SPECIFICATION Spec
CONSTANTS
  Calls <- MCCalls
  SystemSegments <- MCSystemSegments
  Identities = {"ours", "theirs"}
  Roles = {"runner", "approver"}
  Levels = {"SYSTEM", "DIRECTOR"}
  Scopes = {"division", "project", "other"}
  Permissions = {"read", "approve"}
  Tools <- MCTools
  Correlations = {"this", "other"}
  EvidenceIds = {"e1", "e2", "e3"}
  Words = {"finance", "legal"}
  Queries <- MCQueries
INVARIANTS TypeOK AuthorityKept SelectionFits DroppedForRoom EvidenceTraceable
CHECK_DEADLOCK FALSE
