SPECIFICATION MainFairSpec
CONSTANTS
  Packet = {p1, p2}
  ExportSet = TRUE
  MaxSignals = 3
INVARIANTS DiscardedIsSaved RequestIsServed ResetIsServed NothingLostAtExit
PROPERTIES ShutdownEnds RequestsEnd
