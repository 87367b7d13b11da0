CONSTANTS
  Servers = {s1, s2}
  Addresses = {a1}
  Nics = 1
  MaxRetries = 2
  MaxWait = 2
  Budget = 4
  MaxStrays = 0
  Noisy = TRUE
  MaxAcquires = 1
  MaxClock = 8
SPECIFICATION FairSpec
PROPERTY NoisyLanEnds
