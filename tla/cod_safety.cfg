SPECIFICATION Spec
CONSTANTS
  Templates = {tA, tB}
  MaxRevision = 3
  HistoryLimit = 1
  MaxLag = 2
  Edits = 2
  Degrades = 0
  Touches = 0
  Faults = 1
  Budget <- MCBudget
  InitialGroups <- MCFresh
SYMMETRY Symmetry
INVARIANTS NoGap
PROPERTIES FreshTemplate PruneRetains RolloutStaysAvailable ImplementsHistory
CHECK_DEADLOCK FALSE
