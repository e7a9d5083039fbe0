CONSTANTS
  MaxPlan = 2
  MaxAttempts = 1
SPECIFICATION ExecutionSpec
CHECK_DEADLOCK FALSE
INVARIANT PlanRolledBack
