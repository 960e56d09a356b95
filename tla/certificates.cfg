SPECIFICATION Spec
CONSTANTS
  Site = {s1, s2}
  MaxKey = 4
  Null = Null
INVARIANTS
  CertificatesTypeOK
  PairMatches
  SavedIsTrusted
PROPERTY RootKept
