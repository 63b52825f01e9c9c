CONSTANTS
  Vms = {v1}
  Requests = {h1, h2}
  Callbacks = {h1, h2}
  ExpiryRuns = {}
  CaptureRuns = {}
  Ips = {ip1}
  NoIp = NoIp
  NoVm = NoVm
  MaxAborts = 0
SPECIFICATION Spec
PROPERTY DestroyIntentKept
