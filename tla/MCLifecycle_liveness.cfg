CONSTANTS
  Calls = {c1, c2}
  Stoppers = {s1, s2}
  Requests <- MCLoud
  CommandCapacity = 1
  MaxAttempt = 1
  None = None
SPECIFICATION MCRecoveringSpec
PROPERTIES
  CallsAreAnswered
  ShutdownCompletes
