SPECIFICATION Spec
CONSTANTS
  Addr = {"a", "b"}
  CloseSecs = {2}
  ListSecs = 2
  MAX_ENTRIES = 1
  StartTime = 3
  MaxTime = 10
  ImportedSeen <- MCImportedSeen
INVARIANT NothingMissed
PROPERTY SessionsDisjoint
