SPECIFICATION Spec
CONSTANTS
  Addr = {"a", "b"}
  Names = {"n"}
  Traffic <- MCTraffic
  Times = {3}
  Offsets = {1, 4}
  OldVersions = {1, 2, 3}
  MaxBytes = 2
  PortsMax = {0, 1, 2, 3}
  PortsKeep = 1
  PortLimit = 3
  ProtoLimit = 2
  IPPROTO_INVALID = 1
  Garbage = 9
INVARIANTS ImportedHostsAreExported FailedImportIsEmpty AbortsOnlyAtTheEnds
