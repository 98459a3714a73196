SPECIFICATION FairSpec
CONSTANTS
  Addr = {a1, a2, a3}
  SockMax = 1
INVARIANTS AskedOnce TreeIsOutstanding OutstandingHasNoName
PROPERTIES LookupsEnd StopEnds
