SPECIFICATION Spec
CONSTANTS
  Requests = {r1}
  Platforms = {p1, p2}
  Workers = {w1, w2}
  Clients = {c1, c2}
  Verdicts = {"done"}
  Readings = {3}
  MaxAnswers = 1
  MaxFaults = 0
  MaxDeletes = 1
SYMMETRY Symmetry
INVARIANTS TypeOK FulfilledWasAnswered BreachToldOnce
PROPERTIES FulfilledIsFinal ImplementsContract
