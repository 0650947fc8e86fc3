SPECIFICATION Spec
CONSTANTS
  MaxInFlight = 1
  Budget <- Disturb
INVARIANT TypeOK
INVARIANT StepsPerformed
INVARIANT ActionsApply
INVARIANT DoneMeansRolledOut
PROPERTY DialogCompletes
CHECK_DEADLOCK FALSE
