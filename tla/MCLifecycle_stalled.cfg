CONSTANTS
  Calls = {c1}
  Stoppers = {s1}
  Requests <- MCApply
  CommandCapacity = 1
  MaxAttempt = 1
  None = None
SPECIFICATION StalledSpec
PROPERTY ShutdownCompletes
