SPECIFICATION Spec
CONSTANTS
  NumPages = 3
  Saved <- MCSaved
  Views = {w1, w2, w3}
  None = None
  MaxStrokes = 4
  MaxHistory = 1
  Budgets = {3, 6}
INVARIANTS
  TypeOK
  ListsMatchDocument
  InkIsKept
  InkOnItsPage
  DiesOnlyOfLateLoad
PROPERTIES
  ListsCatchUp
ACTION_CONSTRAINT Scenario
CHECK_DEADLOCK FALSE
