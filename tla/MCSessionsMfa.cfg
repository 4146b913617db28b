SPECIFICATION Spec
CONSTANTS
  Users = {u1}
  Sessions = {s1, s2, s3}
  Calls = {c1, c2}
  NoUser = NoUser
  NoSession = NoSession
  MaxTime = 1
  MaxFaults = 0
SYMMETRY Symmetry
INVARIANTS SuperPassedMfa
