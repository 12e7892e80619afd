SPECIFICATION RegistrySpec
CONSTANTS
  m1 = m1
  m2 = m2
  None = None
  NumProviders = 2
  Models <- MCModels
  Catalog <- MCCatalog
  Configured <- MCConfigured
  PoolOff <- MCPoolOff
  OwnOff <- NoOwnOff
  MaxGen = 2
  MaxFaults = 0
INVARIANT PoolSwitchHonoured
