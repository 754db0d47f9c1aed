SPECIFICATION Spec
CONSTANTS
  Tabs = {t1, t2}
  SessionIds = {id1, id2}
  NoId = NoId
  FirstAlone = FALSE
SYMMETRY MCSymmetry
INVARIANTS
  OneScenario
