SPECIFICATION Spec
CONSTANTS
  l1 = l1
  l2 = l2
  r1 = r1
  r2 = r2
  NULL = NULL
  Addr <- MCAddr
  Local <- MCLocal
  Proto <- MCProto
  Packet <- MCPacket
  hosts_max = 2
  hosts_keep = 1
  ports_max = 2
  ports_keep = 1
  highest_port = 3
  Imported <- MCImported
  MaxPackets = 4
INVARIANTS NoDangling HostsBounded HostsAddUp PortsWithinProtos
