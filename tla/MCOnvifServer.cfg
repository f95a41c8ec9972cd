\* Every order of two clients' requests, and of the owner's Start and Stop.
SPECIFICATION Spec
CONSTANTS
  OwnTokens = FALSE
  c1 = c1
  c2 = c2
  Clients <- TwoClients
  Scenarios <- SixScenarios
  MaxPosted = 1
INVARIANTS
  HeadStillOrDriven
  TokensHonoured
PROPERTIES
  EveryClientServed
