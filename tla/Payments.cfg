\* A charge, its retry, and their webhooks, over a table that changes.
SPECIFICATION FairSpec
CONSTANTS
  c1 = c1
  d1 = d1
  k1 = k1
  k2 = k2
  Nil = Nil
  NoRequest = NoRequest
  CurrencyCodes = {"BRL"}
  Chargers = {c1}
  Receivers = {d1}
  Orders = {"o1"}
  Secrets = {k1, k2}
  StripeRows <- Versions
  InitGateways <- Cards
  Asks <- ByCard
  MaxRequests = 2
  MaxFaults = 1
  MaxWrites = 1
CHECK_DEADLOCK FALSE
INVARIANTS
  NoticesKnown
PROPERTIES
  PaidOrdersSpec
  PaidIsAnnounced
