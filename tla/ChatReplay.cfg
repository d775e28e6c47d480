SPECIFICATION Spec
CONSTANTS
  u = u  v = v  s1 = s1  s2 = s2
  UpstreamIds = {u, v}
  NoId = NoId
  Sigs = {s1, s2}
  NoSig = NoSig
  Marker = Marker
  MaxIndex = 3
  MaxSize = 2
  MaxOthers = 2
  Contexts <- MCContexts
  Answers <- MCAnswers
  Deviations = {"text altered", "first altered", "last altered", "injected", "foreign", "repeated", "last unanswered", "result by upstream id"}
  MaxDeviations = 2
INVARIANTS
  TypeOK StoredTextIsWhole FaithfulChatAccepted KnownSentAsKnown InjectedNeverBorrows
VIEW View
CHECK_DEADLOCK FALSE
