SPECIFICATION AskFairSpec
CONSTANTS
  Employments = {"demo-systems"}
  ExitIssues = {"issue-exit-date"}
  LegacyIssues = {"issue-legacy-record"}
  Related <- MCRelated
  SeedRequests <- MCSeedRequests
  NewRequestIds = {r1}
  NoIssue = NoIssue
  Absent = Absent
  Unreadable = Unreadable
  NoCopy = NoCopy
  Asker = judgeA
  Questions = {"help me", "my PF status"}
  Matches <- MCMatches
  ModelIntents = {"FINAL_SETTLEMENT"}
  NoQuestion = NoQuestion
  Visitors = {judgeA}
  Calls = {c1, c2}
  MaxOutstanding = 1
  Patient = TRUE
CHECK_DEADLOCK FALSE
INVARIANTS
  AcknowledgedIsDurable
  AnswerIsFromTheRecord
PROPERTIES
  ImplementsAtomicSession
  EveryCallIsAnswered
  EveryQuestionIsAnswered
