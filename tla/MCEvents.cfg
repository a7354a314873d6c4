CONSTANTS
  Subscribers = {u1}
  EventCapacity = 3
  MaxSnapshots = 2
SPECIFICATION FairSpec
INVARIANTS
  TypeOK
  NeverAhead
  CaughtUp
  ReadyAfterSnapshot
  FirstIsSnapshot
  ShutdownIsLast
PROPERTIES
  KeepsUp
  EndIsSeen
