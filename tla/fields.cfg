SPECIFICATION Spec
CONSTANTS
  MaxLag = 3
  Budgets <- TwoDisturbances
INVARIANT TypeOK
INVARIANT AppliesAdmitted
PROPERTY FinalizerKept
PROPERTY OwnershipSettles
CHECK_DEADLOCK FALSE
