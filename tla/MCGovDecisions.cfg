SPECIFICATION Spec
CONSTANTS
  Applications = {a1, a2}
  Legacy = {a1}
  Officers = {o1, o2}
  Workers = {w1, w2}
  AutoCases = {a2}
  Discretion = {}
  Documents = {a1, a2}
  Timed = {a1}
  Tacit = {a1}
  Sla = 1
  Admins = {a1, a2}
  RlsEnforced = TRUE
  MaxTime = 3
  MaxFaults = 1
SYMMETRY Symmetry
INVARIANTS TypeOK BreachIsAgencyTime OneOutput ToldAtMostOnce
PROPERTIES FollowsLifecycle DecidedOnce
