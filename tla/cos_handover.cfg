SPECIFICATION Spec
CONSTANTS
  Missing = Missing
  Unowned = Unowned
  Foreign = Foreign
  Other = Other
  Revs = {1, 2}
  Objects = {1, 2}
  Phases <- Swapped
  Gates = {}
  AdoptsFree = TRUE
  MaxLag = 1
  Budget <- Handover
PROPERTY PhaseOrder
PROPERTY SharedKept
PROPERTY ImplementsOwnership
CHECK_DEADLOCK FALSE
