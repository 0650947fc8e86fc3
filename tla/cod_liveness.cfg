SPECIFICATION FairSpec
CONSTANTS
  Templates = {tA, tB}
  MaxRevision = 3
  HistoryLimit = 0
  MaxLag = 1
  Edits = 1
  Degrades = 1
  Touches = 0
  Faults = 1
  Budget <- MCBudget
  InitialGroups <- MCFresh
PROPERTIES StatusConverges TemplateStamped NewestSupersedes
CHECK_DEADLOCK FALSE
