CONSTANTS
  Gens = {g1, g2}
  NONE = NONE
  AutomaticRollback = TRUE
SPECIFICATION HSpec
SYMMETRY Symmetry
PROPERTY OnlyRunningIsTested
