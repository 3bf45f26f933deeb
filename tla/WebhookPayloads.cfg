\* One delivery at a time, bodies of every kind from every provider.
SPECIFICATION Spec
CONSTANTS
  h1 = h1
  h2 = h2
  k1 = k1
  k2 = k2
  g1 = g1
  g2 = g2
  Handlers = {h1}
  Events <- Payloads
  Secrets = {k1}
  EndpointKeys <- AllKeys1
  GatewayIds = {"stripe", "heleket", "woovi", "abacatepay"}
  InitGateways <- EveryProvider
  CallbackConfigured = TRUE
  NoRequest = NoRequest
  MaxFaults = 0
  MaxWrites = 0
CHECK_DEADLOCK FALSE
INVARIANTS
  SettledExactly
  CalledBackExactly
