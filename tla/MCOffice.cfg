CONSTANTS
  Client = {q1, q2, q3, q4, q5}
  Email = {e1}
  TokenTTL = 0
  MaxAuthTime = 1
  NoToken = NoToken
  Actor = {a1, a2, a3, a4, a5}
  MaxTrace = 3
  MaxSelectors = 2
  MaxPlan = 2
  MaxAttempts = 3
  Capacity = 3
  RefillPerSecond = 2
  Budget = 3
  WindowSeconds = 1
  CooldownSeconds = 1
  Cost = {1, 3}
  MaxTime = 3
  MaxInFlight = 2
  MaxCalls = 4
  Turn = {t1}
  Order = {o1}
  Owned = {t1, o1}
  Restaurant = {x1}
  Eraser = {d1}
  DefaultDays = 2
  Ceiling = 2
  Override = {NoOverride, 0, 1, 9}
  NoOverride = NoOverride
  MaxDay = 4
  SlotsPerDay = 3
  Subtotal = {0, 1, 5, 99, 100, 250}
  RuleValue <- MCRuleValue
  Fee = {0, 7}
  MaxZones = 2
  ItemName = {n1, n2}
  Category = {c1}
  NoPrice = NoPrice
  NoCategory = NoCategory
  NoName = NoName
  OfferList <- MCOfferList
  WordSet <- MCWordSet
  Crawl <- MCCrawl
  OldMenu <- MCOldMenu
  MaxOperations = 2
  User = {u1, u2}
  PlatformAdmin = {u2}
  ApiKey = {k1}
  Tenant = {h1, h2}
  NoTenant = NoTenant
  Founder = u1
  FirstHouse = h1
  Dish = {p1, p2}
  FirstDish = p1
  Session = {s1, s2}
  Granted = {"manager", "viewer"}
  Site = {v1, v2}
  Page <- MCPage
  Word = {"hot", "tea", "24", "30"}
  Number = {"24", "30"}
  Synonyms <- MCSynonyms
  WindowSize <- MCWindow
  K = {1, 2}
  CandidateMultiplier = 1
  Damping = 60
SPECIFICATION OfficeSpec
CHECK_DEADLOCK FALSE
INVARIANTS
  OfficeTypeOK
  OneAccountPerEmail
  SplitOnlyByOverlap
  LogoutEndsFamily
  LiveWasVerified
  KillSwitchHolds
  SubmitsOnlyConfirmed
  PaymentFormsUntouched
  SuccessIsReal
  OrdersNeverLost
  TwiceOnlyAfterLostAnswer
  NeverOverRate
  RetryAfterSuffices
  ClosedWithinBudget
  ErasedIsGone
  ExpiredWhenDue
  HoursAgree
  TotalsSound
  ZoneIsCheapest
  ReviewerSeesDoubt
  ChangesExplainMenu
  CapabilityMapSound
  TenantsKeptApart
  AnsweredFromOwnPage
