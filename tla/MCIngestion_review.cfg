CONSTANTS
  Run = {r1}
  Worker = {w1}
  Reviewer = {x1}
  MaxFaults = 1
  None = None
SPECIFICATION IngestSpec
CHECK_DEADLOCK FALSE
INVARIANTS
  PublishedWasShown
