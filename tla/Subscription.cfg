SPECIFICATION StoredSpec
CONSTANTS
  r1 = r1
  r2 = r2
  q1 = q1
  q2 = q2
  loop = loop
  None = None
  Unseen = Unseen
  Pending = Pending
  Servers = {1, 2}
  Revs = {r1, r2}
  Unusable = {}
  HostOf <- MCHostOf
  Callers = {1, 2, q1}
  MaxWrites = 1
  Refreshers = {loop}
  Loop = loop
  Holders = {r1}
  MaxFaults = 1
  Changing = {r1, r2}
  MaxMoves = 1
  Resolvers = {q1}
CHECK_DEADLOCK FALSE
INVARIANTS LinksOfListedRow FailureIsFlagged
PROPERTIES AbsenceJustified
