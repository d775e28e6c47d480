SPECIFICATION Spec
CONSTANTS
  u = u  s1 = s1  s2 = s2
  UpstreamIds = {u}
  NoId = NoId
  Sigs = {s1, s2}
  NoSig = NoSig
  Reasons = {"STOP", "MAX_TOKENS"}
  NoReason = "none"
  Shapes <- Worded
  MaxParts = 4
  MaxChunk = 2
INVARIANTS
  TypeOK StreamedIsFinal SameAsUnstreamed NothingLost SignaturesLand
PROPERTIES
  ImplementsItemStream
CHECK_DEADLOCK FALSE
