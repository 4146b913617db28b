SPECIFICATION Spec
CONSTANTS
  Requests = {r1}
  Platforms = {p1, p2}
  Workers = {w1}
  Clients = {c1, c2}
  Verdicts = {"done"}
  Readings = {3}
  MaxAnswers = 1
  MaxFaults = 0
  MaxDeletes = 0
SYMMETRY Symmetry
INVARIANTS AnsweredMeansFulfilled
