CONSTANTS
  Run = {r1, r2}
  Worker = {w1, w2}
  Reviewer = {x1}
  MaxFaults = 1
  None = None
SPECIFICATION IngestFairSpec
CHECK_DEADLOCK FALSE
INVARIANTS
  IngestTypeOK
  ReviewedRunHasDraft
  MapVersionsContiguous
  SearchableIffApproved
  StrandedOnlyByMishap
PROPERTIES
  RunsSettle
