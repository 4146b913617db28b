SPECIFICATION Spec
CONSTANTS
  Users = {u1}
  Sessions = {s1, s2}
  Calls = {c1, c2}
  NoUser = NoUser
  NoSession = NoSession
  MaxTime = 3
  MaxFaults = 1
SYMMETRY Symmetry
INVARIANTS TypeOK EndedUnlessBetween
PROPERTIES ImplementsChain
