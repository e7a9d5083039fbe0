CONSTANTS
  Turn = {t1, t2}
  Staff = {}
  None = None
  i1 = i1
  Product = {i1}
  Price = {1, 2, 3}
  Fee = {0, 1}
  TTL = 1
  MinDelivery = 2
  MaxOrder = 2
  MaxActions = 1
  BrainPlans <- RuleBasedBrain
  MaxTime = 1
  MaxEdits = 2
SPECIFICATION Spec
CHECK_DEADLOCK FALSE
SYMMETRY Symmetry
PROPERTIES
  OrderedWasOnOffer
