\* Two requests at once on two rows of the monolith and one new one.
SPECIFICATION Spec
CONSTANTS
  a1 = a1
  a2 = a2
  g1 = g1
  g2 = g2
  g3 = g3
  Nil = Nil
  NoRow = NoRow
  Admins = {a1, a2}
  Ids = {g1, g2, g3}
  CurrencyCodes <- Codes
  Names <- AllNames
  ProviderNames <- AllProviders
  Configs <- AllConfigs
  Lists <- AllLists
  CreateInputs <- Creates
  UpdateInputs <- Updates
  LegacyRows <- Legacy
  MaxRequests = 4
  MaxFaults = 1
CHECK_DEADLOCK FALSE
SYMMETRY Symmetry
INVARIANTS
  TypeOK
  RowsUsable
  ListsCanonical
PROPERTIES
  IdentityKept
  AnswersTruthful
  UpdatesAsked
