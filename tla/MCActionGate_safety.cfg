CONSTANTS
  Turn = {t1, t2, t3, t4}
  Staff = {}
  None = None
  i1 = i1
  Product = {i1}
  Price = {1}
  Fee = {0}
  TTL = 0
  MinDelivery = 1
  MaxOrder = 2
  MaxActions = 1
  BrainPlans <- WriteBrain
  MaxTime = 1
  MaxEdits = 0
SPECIFICATION Spec
CHECK_DEADLOCK FALSE
SYMMETRY Symmetry
INVARIANTS
  GateTypeOK
  OneEffectPerAction
  AuditMatchesEffects
PROPERTIES
  AnsweredIsFinal
  ConsentedSpec
