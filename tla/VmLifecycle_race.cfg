CONSTANTS
  Vms = {v1}
  Requests = {h1, h2}
  Callbacks = {h1, h2}
  ExpiryRuns = {h1, h2}
  CaptureRuns = {h1, h2}
  Ips = {ip1}
  NoIp = NoIp
  NoVm = NoVm
  MaxAborts = 0
SPECIFICATION Spec
SYMMETRY HandlerSymmetry
INVARIANTS TypeOK AddressStartsClock DestroyedOnlyOnRequest StaysCounted RunningIsMetered DestroyIntentRecorded
