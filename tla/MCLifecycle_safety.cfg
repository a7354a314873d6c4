CONSTANTS
  Calls = {c1, c2}
  Stoppers = {s1, s2}
  Requests <- MCAll
  CommandCapacity = 1
  MaxAttempt = 1
  None = None
SPECIFICATION Spec
SYMMETRY MCSymmetry
INVARIANTS
  TypeOK
  ReadyIsFresh
  AppliedAtMostOnce
  RefusedWritesNothing
  WritesAreVisible
  BatchReportIsTrue
  AbandonedMeansShutdown
  NoPanic
  ShutdownJoins
PROPERTIES
  GatesAgree
  CommandsKept
  FadesFit
