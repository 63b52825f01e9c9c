CONSTANTS
  Messages = {m1}
  Replicas = {r1}
  Requests = {s1}
  CronRuns = {s1}
  Reconnects = {t1}
  Conns = {c1, c2}
  NoConn = NoConn
  NoMsg = NoMsg
  MaxLosses = 1
  MaxFailures = 0
SPECIFICATION Spec
INVARIANT PublishedIsOnItsWay
