SPECIFICATION FairSpec
CONSTANTS
  Rupee = 2
  Opening = 4
  Unconsolidated = 2
  OpeningWage = 1
  Postings <- MCPostings
  Goals = {"MEDICAL", "HOUSING"}
  Multiple <- MCMultiple
  RequiredMonths <- MCRequiredMonths
  ServiceMonths = 108
  SeedGoal = "MEDICAL"
  SeedRequest = 1
  Amounts = {0, 1, 3, 9}
INVARIANTS
  TypeOK
  AdvanceIsCovered
  BooksAgree
  LedgerPagesGoOn
PROPERTIES
  TransferCompletes
  ImplementsAccount
