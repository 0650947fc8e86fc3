SPECIFICATION Spec
CONSTANTS
  Missing = Missing
  Unowned = Unowned
  Foreign = Foreign
  Other = Other
  Revs = {1, 2}
  Objects = {1, 2}
  Phases <- Nested
  Gates = {2}
  AdoptsFree = FALSE
  MaxLag = 1
  Budget <- Incidents
PROPERTY RolloutCompletes
PROPERTY RetiredIsReleased
CHECK_DEADLOCK FALSE
