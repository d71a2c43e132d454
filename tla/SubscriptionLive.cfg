SPECIFICATION StoredFairSpec
CONSTANTS
  r1 = r1
  r2 = r2
  q1 = q1
  q2 = q2
  loop = loop
  None = None
  Unseen = Unseen
  Pending = Pending
  Servers = {1}
  Revs = {r1, r2}
  Unusable = {}
  HostOf <- MCHostOf
  Callers = {1, q1, q2}
  MaxWrites = 1
  Refreshers = {loop}
  Loop = loop
  Holders = {r1}
  MaxFaults = 0
  Changing = {}
  MaxMoves = 0
  Resolvers = {q1, q2}
CHECK_DEADLOCK FALSE
PROPERTIES EveryRequestAnswered
