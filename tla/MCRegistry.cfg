SPECIFICATION Spec
CONSTANTS
  Services = {s1, s2}
  TheCode = k1
  Codes = {k1}
  CodeOf <- OneCode
  Evidences = {e1}
  Levels = {"online", "once_only"}
  Measures = {1}
  Calls = {c1, c2}
  None = None
  Gone = Gone
  MaxVersions = 2
SYMMETRY Symmetry
INVARIANTS TypeOK CatalogueFollows MeasuredAgainstFirst DeclaredHonestly
