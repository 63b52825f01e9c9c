CONSTANTS
  Requests = {q1, q2, q3}
  NoJob = NoJob
  BackoffLimit = 1
  MaxFaults = 1
SPECIFICATION PipelineSpec
SYMMETRY Symmetry
VIEW Machinery
INVARIANTS TypeOK NoStrayMachine OneMachine DestroyedMeansGone
PROPERTY ImplementsOneTerraform
