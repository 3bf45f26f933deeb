\* The handler's comment: after a failed insert the next delivery takes the lock.
SPECIFICATION FairSpec
CONSTANTS
  h1 = h1
  h2 = h2
  k1 = k1
  k2 = k2
  g1 = g1
  g2 = g2
  Handlers = {h1}
  Events <- OneStripe
  Secrets = {k1}
  EndpointKeys <- AllKeys1
  GatewayIds = {g1}
  InitGateways <- StripeGateway
  CallbackConfigured = TRUE
  NoRequest = NoRequest
  MaxFaults = 1
  MaxWrites = 0
CHECK_DEADLOCK FALSE
PROPERTY NextDeliveryTakesTheLock
