SPECIFICATION Spec
CONSTANTS
  r1 = r1
  r2 = r2
  r3 = r3
  w = w
  loop = loop
  now = now
  None = None
  Unseen = Unseen
  Pending = Pending
  Servers = {1}
  Revs = {r1, r2, r3}
  Unusable = {r3}
  HostOf <- MCHostOf
  Callers = {1, w}
  MaxWrites = 2
  Refreshers = {loop}
  Loop = loop
  Holders = {r1, r2}
  MaxFaults = 1
  Changing = {}
  MaxMoves = 0
SYMMETRY MCSymmetry
INVARIANTS ClientMatchesRow CacheFenced InventoryMatchesEpoch
PROPERTIES PublishedIsCurrent ImplementsConnections
