CONSTANTS
  Calls = {c1, c2}
  Stoppers = {s1}
  Requests <- MCRefresh
  CommandCapacity = 1
  MaxAttempt = 1
  None = None
SPECIFICATION FairSpec
PROPERTY CommandsAreAnswered
