SPECIFICATION StoredSpec
CONSTANTS
  r1 = r1
  r2 = r2
  p1 = p1
  p2 = p2
  o1 = o1
  o2 = o2
  i1 = i1
  i2 = i2
  a = a
  b = b
  None = None
  Unseen = Unseen
  Pending = Pending
  Servers = {1}
  Revs = {r1, r2}
  Unusable = {}
  HostOf <- MCHostOf
  Callers = {}
  MaxWrites = 1
  Ops = {o1, o2}
  Subs = {a, b}
  Inbounds = {i1, i2}
  VLESS = {i1, i2}
  Panels = {p1, p2}
  PanelOf <- MCPanelOf
  Base <- MCBase
  Stored <- MCStored
  Plans <- MCPlans
  MaxStarts = 2
  MaxUpsets = 1
SYMMETRY MCSymmetry
INVARIANTS SuccessHolds RetryCreatesOnce SnapshotShowsSuccess
PROPERTIES ConfirmedIsCurrent
CHECK_DEADLOCK FALSE
