SPECIFICATION Spec
CONSTANTS
  dA = dA
  dB = dB
  s = s
  Data = {dA, dB}
  Garbage = Garbage
  Gone = Gone
  Inline = Inline
  Failure = Failure
  Never = Never
  None = None
  Phases <- TwoPhases
  SliceOf <- OneSlice
  Manifest <- Inlined
  Gates = {1, 2}
  Versions <- SliceVersions
  Spread = 2
  ProbeMessage = 3
  MaxMessage = 2
  Minutes = 1
  Unit = 2
  Width = 4
  Budgets <- TwoDrifts
INVARIANT MessagesFit
CHECK_DEADLOCK FALSE
