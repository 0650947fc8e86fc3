SPECIFICATION Spec
CONSTANTS
  Missing = Missing
  Unowned = Unowned
  Foreign = Foreign
  Other = Other
  Revs = {1}
  Objects = {1, 2, 3}
  Phases <- Single
  Gates = {1}
  AdoptsFree = FALSE
  MaxLag = 1
  Budget <- Everything
INVARIANT TypeOK
INVARIANT NoLeak
INVARIANT EarnedCompletion
PROPERTY PhaseOrder
PROPERTY TeardownReverse
PROPERTY TeardownIsMeant
CHECK_DEADLOCK FALSE
