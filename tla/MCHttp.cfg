SPECIFICATION FairSpec
CONSTANTS
  Conn = {1, 2}
  Requests <- MCRequests
  HeaderLen = 2
  PageLen = 2
  MAX_REQUEST_LENGTH = 2
  idletime = 2
  linux = FALSE
  NoTimeout = NoTimeout
  NoConn = NoConn
INVARIANTS PollIsSafe ClientGetsPrefix HeaderFitsReply
PROPERTY ConnectionsEnd
