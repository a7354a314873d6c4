CONSTANTS
  Fades = {f1, f2}
  Sets = {d1}
  Targets = {t1}
  CommandCapacity = 1
  MaxSteps = 2
  None = None
SPECIFICATION Spec
SYMMETRY MCSymmetry
INVARIANTS
  TypeOK
  RunningIsRegistered
  EndpointIsLast
  OnlyStepsAreUnseen
PROPERTIES
  FailsForCause
  NoWriteAfterReturn
