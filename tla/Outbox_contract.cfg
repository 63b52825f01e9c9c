CONSTANTS
  Messages = {m1, m2}
  Replicas = {r1}
  Requests = {s1}
  CronRuns = {s1}
  Reconnects = {t1}
  Conns = {c1, c2}
  NoConn = NoConn
  NoMsg = NoMsg
  MaxLosses = 0
  MaxFailures = 2
SPECIFICATION FairSpec
INVARIANT PublishedWasWritten
PROPERTY ImplementsContract
