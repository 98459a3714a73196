SPECIFICATION Spec
CONSTANTS
  Wrap = 65536
  Length <- MCLength
  NumIfs = 2
  linktype <- MClinktype
  opt_want_pppoe = FALSE
  opt_want_snaplen <- MCunset
  opt_wait_secs = 1
  a = a
  b = b
  r = r
  Addr = {a, b}
  AddrLists <- MCAddrLists
  Packet <- MCPacket
  DaySecs = 2
  BufMax = 2
  MaxReal = 3
  MaxMono = 2
  MaxChanges = 2
INVARIANTS DaylogIsRight AllDispatched LocalIsCurrent NoOverread SnaplenIsEnough
