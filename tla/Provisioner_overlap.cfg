CONSTANTS
  Requests = {q1, q2}
  NoJob = NoJob
  BackoffLimit = 0
  MaxFaults = 0
SPECIFICATION Spec
INVARIANT OneRunner
