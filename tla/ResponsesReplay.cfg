SPECIFICATION Spec
CONSTANTS
  u = u  v = v  s1 = s1  s2 = s2
  UpstreamIds = {u, v}
  NoId = NoId
  Sigs = {s1, s2}
  NoSig = NoSig
  Marker = Marker
  MaxIndex = 3
  MaxSize = 2
  MaxOthers = 2
  Contexts <- MCContexts
  Answers <- MCAnswers
  Deviations = {"no reasoning", "no signatures", "no item ids", "text altered", "first altered", "last altered", "ids mixed up", "injected", "foreign", "repeated", "result by item", "result by upstream id", "last unanswered"}
  MaxDeviations = 2
INVARIANTS
  TypeOK FaithfulReplayAccepted AlteredNeverSent InjectedNeverBorrows OwnSignature AcceptedIsPaired TextSignatureOwn
VIEW View
CHECK_DEADLOCK FALSE
