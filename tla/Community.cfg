SPECIFICATION Community
CONSTANTS
  User = {a, b}
  MaxFollows = 2
  MaxMessages = 2
  Report = {p1}
  Warning = {w1, w2}
  Req = {r1, r2}
  None = None
INVARIANTS CommunityTypeOK TalkNeedsConsent
PROPERTIES SanctionsKept
SYMMETRY Sym
