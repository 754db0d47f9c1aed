SPECIFICATION Spec
CONSTANTS
  Employments = {"demo-systems"}
  ExitIssues = {"issue-exit-date"}
  LegacyIssues = {"issue-legacy-record"}
  Related <- MCRelated
  SeedRequests <- MCSeedRequests
  NewRequestIds = {r1}
  NoIssue = NoIssue
  Absent = Absent
  Unreadable = Unreadable
  NoCopy = NoCopy
  Visitors = {judgeA}
  Calls = {c1, c2, c3}
  MaxOutstanding = 2
  Patient = TRUE
SYMMETRY MCSymmetry
CHECK_DEADLOCK FALSE
INVARIANTS
  AcknowledgedIsDurable
