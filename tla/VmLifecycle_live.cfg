CONSTANTS
  Vms = {v1}
  Requests = {r1}
  Callbacks = {r1, r2}
  ExpiryRuns = {x1, r2}
  CaptureRuns = {r1}
  Ips = {ip1}
  NoIp = NoIp
  NoVm = NoVm
  MaxAborts = 0
SPECIFICATION FairSpec
PROPERTIES ExpiredVmsAreDestroyed RunningGetsMetered
