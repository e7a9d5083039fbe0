CONSTANTS
  Turn = {t1, t2, t3}
  Staff = {s1}
  None = None
  i1 = i1
  Product = {i1}
  Price = {1}
  Fee = {0}
  TTL = 1
  MinDelivery = 1
  MaxOrder = 2
  MaxActions = 1
  BrainPlans <- AnyBrain
  MaxTime = 0
  MaxEdits = 0
SPECIFICATION FairSpec
CHECK_DEADLOCK FALSE
PROPERTIES
  RequestsFinish
