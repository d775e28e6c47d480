SPECIFICATION Spec
CONSTANTS
  MaxSize = 2
  x = x  y = y  i = i  t = t  u = u  s1 = s1  s2 = s2
  c1 = c1  c2 = c2  c3 = c3  m1 = m1  m2 = m2  m3 = m3
  NoCall = NoCall  NoSig = NoSig  Marker = Marker
  Ids <- MCIds
  Calls <- MCCalls
  Sigs <- MCSigs
  Contexts <- MCContexts
  Messages <- MCMessages
  OldFiles <- MCOldFiles
  LegacyFiles <- MCLegacyFiles
CONSTRAINTS OneTable OneSignature
INVARIANTS
  TypeOK TablesAgree LookupNamesClaimant ContextAgreed
PROPERTIES
  LookupsNeverRetargeted KnownSignatureKept
SYMMETRY Symmetry
