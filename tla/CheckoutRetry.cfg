\* Overlapping charges of two orders, listings and retries, any lost answers, two
\* failures.
SPECIFICATION Spec
CONSTANTS
  h1 = h1
  h2 = h2
  o1 = o1
  o2 = o2
  Nil = Nil
  CurrencyCodes <- Codes
  Handlers = {h1, h2}
  Orders = {o1, o2}
  InitGateways <- OnlyCards
  InitCurrencies <- Table
  InitPlan <- ThePlan
  GatewayVersions <- NoRows
  CurrencyVersions <- NoRows
  PlanVersions <- NoRows
  Displays = {"USD"}
  Countries = {"de"}
  OtherCharges <- Asks
  MaxRequests = 3
  MaxFaults = 2
  MaxWrites = 0
CHECK_DEADLOCK FALSE
SYMMETRY Symmetry
INVARIANTS
  NoOrphanSession
  AnswersBacked
PROPERTIES
  ChargeBookSpec
