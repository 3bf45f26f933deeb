\* Secrets rotated, gateways added, deactivated and removed under a delivery in flight.
SPECIFICATION FairSpec
CONSTANTS
  h1 = h1
  h2 = h2
  k1 = k1
  k2 = k2
  g1 = g1
  g2 = g2
  Handlers = {h1}
  Events <- OneStripe
  Secrets = {k1, k2}
  EndpointKeys <- RollingKeys
  GatewayIds = {g1, g2}
  InitGateways <- StripeGateway
  CallbackConfigured = TRUE
  NoRequest = NoRequest
  MaxFaults = 1
  MaxWrites = 2
CHECK_DEADLOCK FALSE
INVARIANT SecretsVouched
PROPERTIES AuthenticCallbacks PaidEventuallyPosted
