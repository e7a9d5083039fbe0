CONSTANTS
  Turn = {t1, t2}
  Staff = {}
  None = None
  i1 = i1
  Product = {i1}
  Price = {1}
  Fee = {0}
  TTL = 1
  MinDelivery = 1
  MaxOrder = 2
  MaxActions = 1
  BrainPlans <- RuleBasedBrain
  MaxTime = 0
  MaxEdits = 1
SPECIFICATION FairSpec
CHECK_DEADLOCK FALSE
PROPERTIES
  KillSwitchStopsNextTurn
