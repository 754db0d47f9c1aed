SPECIFICATION Spec
CONSTANTS
  Employments = {"demo-logistics", "demo-systems"}
  ExitIssues = {"issue-exit-date"}
  LegacyIssues = {"issue-legacy-record"}
  Related <- MCRelated
  SeedRequests <- MCSeedRequests
  NewRequestIds = {r1, r2}
  NoIssue = NoIssue
  MaxResets = 1
INVARIANTS
  RequestFollowsMarkExit
