SPECIFICATION Spec
CONSTANTS
  Templates = {tA, tB}
  MaxRevision = 3
  HistoryLimit = 1
  MaxLag = 1
  Edits = 0
  Degrades = 0
  Touches = 1
  Faults = 0
  Budget <- MCBudget
  InitialGroups <- MCAdopting
SYMMETRY Symmetry
INVARIANTS TypeOK SupersededBySuccess
CHECK_DEADLOCK FALSE
