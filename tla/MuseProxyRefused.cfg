SPECIFICATION Spec
CONSTANTS
  r1 = r1
  r2 = r2
  k1 = k1
  k2 = k2
  k3 = k3
  d1 = d1
  Requests <- MCRequests
  MintKeys <- MCThreeKeys
  DirectKeys <- MCNoDirectKeys
  MaxFlights = 2
  Nobody = Nobody
  NoKey = NoKey
INVARIANT RefusedKeyIsDropped
