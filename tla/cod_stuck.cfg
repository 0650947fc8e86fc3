SPECIFICATION FairSpec
CONSTANTS
  Templates = {tA, tB}
  MaxRevision = 5
  HistoryLimit = 1
  MaxLag = 1
  Edits = 1
  Degrades = 0
  Touches = 1
  Faults = 0
  Budget <- MCBudget
  InitialGroups <- MCTransition
PROPERTIES NewestActiveSupersedes
CHECK_DEADLOCK FALSE
