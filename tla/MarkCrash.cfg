CONSTANTS
  Gens = {g1, g2}
  NONE = NONE
  AutomaticRollback = TRUE
SPECIFICATION CrashSpec
SYMMETRY Symmetry
PROPERTY FailureMeansFailedBoot
