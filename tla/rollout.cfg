SPECIFICATION Spec
CONSTANTS
  dA = dA
  dB = dB
  s = s
  Data = {dA, dB}
  Garbage = Garbage
  Gone = Gone
  Inline = Inline
  Failure = Failure
  Never = Never
  None = None
  Phases <- TwoPhases
  SliceOf <- OneSlice
  Manifest <- Inlined
  Gates = {1}
  Versions <- SliceVersions
  Spread = 1
  ProbeMessage = 3
  MaxMessage = 2
  Minutes = 1
  Unit = 2
  Width = 4
  Budgets <- Everything
INVARIANT TypeOK
INVARIANT StatusAdmitted
PROPERTY PinnedContent
PROPERTY CountsTruthful
PROPERTY DeadlineKept
PROPERTY DeadlineNoticed
PROPERTY SubstitutionDetected
PROPERTY TornDownWithoutSlices
CHECK_DEADLOCK FALSE
