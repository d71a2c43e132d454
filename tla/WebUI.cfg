SPECIFICATION MCSpec
CONSTANTS
  None = None
  q1 = q1
  q2 = q2
  root = root
  ann = ann
  bob = bob
  Requests = {q1, q2}
  People = {root, ann, bob}
  Operator = root
  Logins = {"admin", "user", "user2"}
  AdminLogin = "admin"
  Addresses = {"a1"}
  Tokens = {"t1"}
  MaxUsers = 3
  MaxInvites = 1
  MaxServers = 1
  k1 = k1
  k2 = k2
  Keys = {k1, k2}
  MaxArg = 1
  PeriodArg = 2
  BurstArg = 2
  DefaultPeriod = 1
  NoBucket = NoBucket
  MaxTime = 10
  MaxClients = 7
  PageSize = 2
  MaxPages = 3
  Habits = {"pages", "whole", "overstates"}
  NoReply = NoReply
  MaxTurns = 2
  Nil = Nil
  a1 = a1
  e1 = e1
  u1 = u1
  u2 = u2
  s1 = s1
  s2 = s2
  x = x
  y = y
  n1 = n1
  Users = {u1, u2}
  Visitors = {u1}
  Names = {n1}
  Subs = {x, y}
  MaxGroups = 3
  Plans = {a1}
  Edits = {e1}
  Inbounds = {s1, s2}
  OwnerOf <- MCOwner
  Groups0 <- MCGroups
  Held0 <- MCHeld
  Selections <- MCSelections
  MaxChanges = 1
SYMMETRY MCSymmetry
INVARIANTS SessionIsOwn AdminStays WindowBound QuietListIsExact MissesOnlyByRemoval PostedOnce FailsForAReason AttachesOnlyChosen GroupAnswersTrue
PROPERTIES CollectionInvisible
