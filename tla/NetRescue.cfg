CONSTANTS
  Servers = {s1, s2}
  Addresses = {a1}
  Nics = 2
  MaxRetries = 2
  MaxWait = 2
  Budget = 4
  MaxStrays = 1
  Noisy = FALSE
  MaxAcquires = 2
  MaxClock = 8
SPECIFICATION FairSpec
INVARIANTS
  TypeOK
  BudgetKept
  LeaseIsRequested
  ApprovedImage
PROPERTY AcquireEnds
