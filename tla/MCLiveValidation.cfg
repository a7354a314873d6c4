CONSTANTS
  WordSize = 64
  MaxPort = 2
  Step = 3
  MaxFade = 14
  MaxLate = 7
  FadeTime = 14
  Reach <- MCReach
  Full <- MCFull
  Originals <- MCOriginals
SPECIFICATION FairSpec
INVARIANTS
  TypeOK
  WithinReach
  ExitIsTrue
  RateCapped
  BackoffInRange
PROPERTIES
  FadesForward
  Terminates
