SPECIFICATION FairSpec
CONSTANTS
  MaxSignals = 0
PROPERTY StopReturns
