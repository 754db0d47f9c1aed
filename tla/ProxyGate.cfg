SPECIFICATION FairSpec
CONSTANTS
  Tabs = {t1, t2}
  SessionIds = {id1, id2}
  NoId = NoId
  FirstAlone = TRUE
INVARIANTS
  TypeOK
  OneScenario
  RoleMatchesPage
PROPERTIES
  NavigationSettles
