SPECIFICATION Spec
CONSTANTS
  Logging = {t1}
  Visiting = {t2}
  MaxVisits = 1
  MaxFds = 2
  ResetAfter = 20
INVARIANTS StreamReadable OutgrownOnlyAfterReset NoDescriptorLost FewLostInARow
PROPERTIES Recovers
