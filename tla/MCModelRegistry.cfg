SPECIFICATION RegistrySpec
CONSTANTS
  m1 = m1
  m2 = m2
  None = None
  NumProviders = 2
  Models <- OneModel
  Catalog <- OneCatalog
  Configured <- OneConfigured
  PoolOff <- MCPoolOff
  OwnOff <- MCOwnOff
  MaxGen = 3
  MaxFaults = 1
INVARIANTS
  TypeOK
  SettledBound
  IndexAgrees
PROPERTIES
  ReplacementKeepsService
  SettlesOnLive
