CONSTANTS
  Calls = {c1, c2}
  Stoppers = {s1}
  Requests <- MCWrites
  CommandCapacity = 1
  MaxAttempt = 1
  None = None
SPECIFICATION Spec
INVARIANT NeverReplayed
