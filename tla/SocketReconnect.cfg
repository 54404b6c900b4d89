SPECIFICATION Spec
CONSTANTS
  Logging = {t1}
  Visiting = {}
  MaxVisits = 0
  MaxFds = 2
  ResetAfter = 20
INVARIANTS StreamAsReference
