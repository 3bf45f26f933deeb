\* Two deliveries in flight, a Stripe and a Woovi payment, every kind of fault.
SPECIFICATION Spec
CONSTANTS
  h1 = h1
  h2 = h2
  k1 = k1
  k2 = k2
  g1 = g1
  g2 = g2
  Handlers = {h1, h2}
  Events <- TwoProviders
  Secrets = {k1}
  EndpointKeys <- AllKeys1
  GatewayIds = {g1, g2}
  InitGateways <- StripeAndWoovi
  CallbackConfigured = TRUE
  NoRequest = NoRequest
  MaxFaults = 3
  MaxWrites = 0
SYMMETRY Symmetry
INVARIANTS
  TypeOK
  NoDoubleFire
  FireBudget
  LedgerAccounts
  NoSilentLoss
  RepeatsPaidFor
PROPERTY NoticeSpec
CHECK_DEADLOCK FALSE
