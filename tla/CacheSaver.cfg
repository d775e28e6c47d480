SPECIFICATION FairSpec
CONSTANTS
  w1 = w1  w2 = w2  u1 = u1  u2 = u2  u3 = u3
  Writers <- MCWriters
  Updates <- MCUpdates
  Signed <- MCSigned
  garbage = garbage
  Torn <- MCTorn
  MaxMishaps = 2
INVARIANTS
  SaverInv
PROPERTIES
  ImplementsSnapshot AskedInTimeIsSaved
CHECK_DEADLOCK FALSE
