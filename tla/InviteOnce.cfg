SPECIFICATION Spec
CONSTANTS
  None = None
  q1 = q1
  q2 = q2
  root = root
  ann = ann
  bob = bob
  Requests = {q1, q2}
  People = {root, ann, bob}
  Operator = root
  Logins = {"admin", "user", "user2"}
  AdminLogin = "admin"
  Addresses = {"a1", "a2"}
  Tokens = {"t1", "t2"}
  MaxUsers = 3
  MaxInvites = 1
  MaxServers = 1
INVARIANTS InviteOnce
