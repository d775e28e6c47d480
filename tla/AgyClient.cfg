SPECIFICATION FairSpec
CONSTANTS
  r1 = r1  r2 = r2  t1 = t1  t2 = t2
  Requests <- MCRequests
  Tokens <- MCTokens
  Nobody = Nobody  NoToken = NoToken  NoCred = NoCred
INVARIANTS
  TypeOK UnauthorizedOnlyTwice LockDiscipline
PROPERTIES
  ReportedNeverSent EveryRequestProgresses
