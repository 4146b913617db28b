SPECIFICATION Spec
CONSTANTS
  Users = {u1}
  Clients = {k1, k2}
  Codes = {c1}
  Pairs = {p1, p2, p3}
  Requests = {r1, r2}
  Scopes = {profile, offline}
  Offline = offline
  NoPair = NoPair
  MaxFaults = 1
  Challenges = {h1, h2}
  Browsers = {b1}
  NoUser = NoUser
SYMMETRY Symmetry
INVARIANTS TokensTypeOK SpentOnce OneLiveRefresh ScopesOnlyNarrow
PROPERTIES RevokedTogether
CHECK_DEADLOCK FALSE
