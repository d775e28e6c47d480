SPECIFICATION FairSpec
CONSTANTS
  r1 = r1
  r2 = r2
  k1 = k1
  k2 = k2
  k3 = k3
  d1 = d1
  Requests <- MCRequests
  MintKeys <- MCMintKeys
  DirectKeys <- MCDirectKeys
  MaxFlights = 1
  Nobody = Nobody
  NoKey = NoKey
INVARIANTS
  TypeOK
  NoNeedlessMint
  SlotsConserved
  UnauthorizedOnlyTwice
  RetryWithAnotherKey
PROPERTIES
  EveryRequestProgresses
  ImplementsStore
  ImplementsSlots
