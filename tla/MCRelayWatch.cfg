SPECIFICATION FairSpec
CONSTANTS
  Requests = {r1}
  Platforms = {p1, p2}
  Workers = {w1}
  Clients = {c1}
  Verdicts = {"done"}
  Readings = {2, 4}
  MaxAnswers = 1
  MaxFaults = 1
  MaxDeletes = 0
INVARIANTS RemindedOncePerThreshold AnsweredMeansFulfilled
PROPERTIES UnansweredIsEscalated
