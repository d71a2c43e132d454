SPECIFICATION FairSpec
CONSTANTS
  r1 = r1
  r2 = r2
  r3 = r3
  w = w
  loop = loop
  now = now
  None = None
  Unseen = Unseen
  Pending = Pending
  Servers = {1}
  Revs = {r1, r2}
  Unusable = {}
  HostOf <- MCHostOf
  Callers = {1}
  MaxWrites = 1
  Refreshers = {loop, now}
  Loop = loop
  Holders = {r1, r2}
  MaxFaults = 1
  Changing = {r2}
  MaxMoves = 1
INVARIANTS TriggersSettle
PROPERTIES ServersStayPublished Converges
