SPECIFICATION Spec
CONSTANTS
  Missing = Missing
  Unowned = Unowned
  Foreign = Foreign
  Other = Other
  Revs = {1, 2}
  Objects = {1}
  Phases <- Same
  Gates = {}
  AdoptsFree = FALSE
  MaxLag = 1
  Budget <- OnlyUsers
INVARIANT NoLastingGap
CHECK_DEADLOCK FALSE
