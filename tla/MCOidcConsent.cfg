SPECIFICATION Spec
CONSTANTS
  Users = {u1, u2}
  Clients = {k1}
  Codes = {c1, c2}
  Pairs = {}
  Requests = {}
  Scopes = {profile, offline}
  Offline = offline
  NoPair = NoPair
  MaxFaults = 0
  Challenges = {h1, h2, h3, h4}
  Browsers = {b1, b2}
  NoUser = NoUser
SYMMETRY Symmetry
INVARIANTS TypeOK OneCodePerLogin CodeIsConsented SkipWasAgreed
CHECK_DEADLOCK FALSE
