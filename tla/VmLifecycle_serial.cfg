SPECIFICATION Spec
CONSTANTS
  Vms = {v1, v2}
  Requests = {h1}
  Callbacks = {h1}
  ExpiryRuns = {h1}
  CaptureRuns = {h1}
  Ips = {ip1}
  NoIp = NoIp
  NoVm = NoVm
  MaxAborts = 1
PROPERTIES ImplementsPhases DestroyIntentKept
SYMMETRY VmSymmetry
