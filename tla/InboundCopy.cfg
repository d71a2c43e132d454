SPECIFICATION StoredSpec
CONSTANTS
  r1 = r1
  r2 = r2
  r3 = r3
  p1 = p1
  p2 = p2
  a = a
  b = b
  None = None
  Unseen = Unseen
  Pending = Pending
  Servers = {1, 2}
  Source = 1
  Target = 2
  Revs = {r1, r2, r3}
  Unusable = {}
  HostOf <- MCHostOf
  Callers = {}
  MaxWrites = 1
  Groups <- MCGroups
  Panels = {p1, p2}
  PanelOf <- MCPanelOf
  StoredInbounds <- MCStoredInbounds
  StoredRecords <- MCStoredRecords
CHECK_DEADLOCK FALSE
INVARIANTS CopyIsComplete NothingLeftSilently
PROPERTIES RemovesOnlyItsInbound RemovesOnlyItsRecords
