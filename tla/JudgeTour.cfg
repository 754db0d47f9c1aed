SPECIFICATION TourFairSpec
CONSTANTS
  Employments = {"demo-logistics", "demo-systems"}
  ExitIssues = {"issue-exit-date"}
  LegacyIssues = {"issue-legacy-record"}
  Related <- MCRelated
  SeedRequests <- MCSeedRequests
  NewRequestIds = {r1, r2}
  NoIssue = NoIssue
  MaxResets = 1
INVARIANTS
  TourTypeOK
  ClaimMatchesReadiness
  IssueMatchesRequest
  RecordMatchesIssue
  DecisionsExplained
  HistoryIsThePath
  PaymentNeedsBothParties
  RailShowsWhatIsDone
  OffersAreExact
  OneSideHasTheTurn
PROPERTIES
  SettlesUnlessRejected
  OnlyResetUndoes
  ImplementsJourney
  DoneStaysDone
