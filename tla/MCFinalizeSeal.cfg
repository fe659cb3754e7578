SPECIFICATION RetrySpec
CONSTANTS
  Callers = {cA, cB}
  Lockers = {l1}
  Uploads = {u1}
  MaxFaults = 1
  MaxCrashes = 1
INVARIANTS TypeOK SealedMatchesChain AnchoredIsStored AnswerIsTrue
PROPERTIES ImplementsLife PipelineEnds LockedIsAnchored
