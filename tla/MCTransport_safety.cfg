CONSTANTS
  Parts = 2
  MaxId = 13
  MaxVersion = 2
  MaxInbox = 4
SPECIFICATION Spec
INVARIANTS
  TypeOK
  InFlightIdsDistinct
PROPERTIES
  SnapshotIsCurrent
  NoWriteOutstanding
