CONSTANTS
  Parts = 2
  MaxId = 8
  MaxVersion = 1
  MaxInbox = 3
SPECIFICATION Spec
INVARIANT SnapshotIsSynchronized
