SPECIFICATION Spec
CONSTANTS
  Calls = {c1, c2}
  Roles = {r1}
  SystemRoles = {}
  Targets = {r1}
  Keys = {k1}
  Instances = {i1, i2}
  None = None
  Ttl = 1
  MaxTime = 1
  MaxRows = 2
SYMMETRY Symmetry
INVARIANTS TypeOK EntitledWithinTtl OnlyWhatWasAsked ChainIntact
