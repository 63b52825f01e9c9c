CONSTANTS
  Users = {u1}
  Vms = {v1, v2}
  Requests = {h1, h2}
  Quota = 1
  NoUser = NoUser
  Logins = {l1, l2}
  Runs = {j1, j2}
SPECIFICATION AccountsFairSpec
INVARIANTS AccountsTypeOK OverrunBounded
PROPERTIES ListedMachinesKept DeletionEnds
CHECK_DEADLOCK FALSE
