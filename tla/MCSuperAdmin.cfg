SPECIFICATION Spec
CONSTANTS
  Users = {u1}
  Emails = {e1}
  TheEmail = e1
  EmailOf <- OneEmail
  People = {p1, p2}
  Wizards = {t1}
  Tokens = {m1}
  Secrets = {k1, k2}
  Codes = {B1}
  Calls = {c1, c2}
  None = None
  MaxTries = 1
  MaxFaults = 1
SYMMETRY Symmetry
INVARIANTS TypeOK OnlyDoor AttemptsAreCounted AcceptedMadeOne
