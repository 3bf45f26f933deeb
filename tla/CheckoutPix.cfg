\* A PIX gateway that accepts USD.
SPECIFICATION Spec
CONSTANTS
  h1 = h1
  h2 = h2
  o1 = o1
  o2 = o2
  Nil = Nil
  CurrencyCodes <- Codes
  Handlers = {h1}
  Orders = {o1}
  InitGateways <- Abacate
  InitCurrencies <- Table
  InitPlan <- ThePlan
  GatewayVersions <- NoRows
  CurrencyVersions <- NoRows
  PlanVersions <- NoRows
  Displays = {"USD"}
  Countries = {"br"}
  OtherCharges <- AbacateAsk
  MaxRequests = 1
  MaxFaults = 0
  MaxWrites = 0
CHECK_DEADLOCK FALSE
INVARIANTS
  PixChargesBRL
