CONSTANTS
  Vms = {v1}
  Requests = {h1}
  Callbacks = {h1}
  ExpiryRuns = {h1}
  CaptureRuns = {}
  Ips = {ip1}
  NoIp = NoIp
  NoVm = NoVm
  MaxAborts = 1
SPECIFICATION Spec
INVARIANT DestroyIntentRecorded
