SPECIFICATION Spec
CONSTANTS
  u = u  s1 = s1  s2 = s2
  UpstreamIds = {u}
  NoId = NoId
  Sigs = {s1, s2}
  NoSig = NoSig
  Reasons = {"STOP", "MAX_TOKENS"}
  NoReason = "none"
  Shapes <- Wordless
  MaxParts = 3
  MaxChunk = 2
INVARIANT FinalAtSameIndex
CHECK_DEADLOCK FALSE
