\* A list of methods, and charges from its cards, while the tables change.
SPECIFICATION FairSpec
CONSTANTS
  h1 = h1
  h2 = h2
  o1 = o1
  o2 = o2
  Nil = Nil
  CurrencyCodes <- Codes
  Handlers = {h1}
  Orders = {o1}
  InitGateways <- OneOfEach
  InitCurrencies <- Table
  InitPlan <- ThePlan
  GatewayVersions <- NewRows
  CurrencyVersions <- NewRates
  PlanVersions <- NewPlans
  Displays = {"EUR", "BRL", "XYZ"}
  Countries = {"br", "de"}
  OtherCharges <- OldAsk
  MaxRequests = 2
  MaxFaults = 1
  MaxWrites = 1
CHECK_DEADLOCK FALSE
INVARIANTS
  TypeOK
  OfferHonoured
  CardsTellThePrice
  SessionsVouched
PROPERTIES
  AlwaysAnswered
