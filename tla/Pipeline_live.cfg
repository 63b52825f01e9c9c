CONSTANTS
  Requests = {q1, q2}
  NoJob = NoJob
  BackoffLimit = 0
  MaxFaults = 1
SPECIFICATION PipelineFairSpec
INVARIANTS NoRequestDropped ServedHasResult NeverSettledUnanswered LinesWereRequested
PROPERTIES EveryRequestServed DestroyEnds EveryResultAnswered ImplementsPhases
