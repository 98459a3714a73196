SPECIFICATION FairSpec
CONSTANTS
  MaxSignals = 2
INVARIANTS MessagesApart PidfileIsRight ReportIsRight
PROPERTIES StarterEnds NobodyStays
