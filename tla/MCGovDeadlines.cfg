SPECIFICATION FairSpec
CONSTANTS
  Applications = {a1, a2}
  Legacy = {}
  Officers = {o1}
  Workers = {w1}
  AutoCases = {}
  Discretion = {}
  Documents = {}
  Timed = {a1, a2}
  Tacit = {a2}
  Sla = 1
  Admins = {}
  RlsEnforced = FALSE
  MaxTime = 2
  MaxFaults = 1
PROPERTIES LateIsMarked SilenceGrants
