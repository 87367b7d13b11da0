CONSTANTS
  Gens = {g1, g2}
  NONE = NONE
  AutomaticRollback = TRUE
SPECIFICATION ForcedRescueSpec
SYMMETRY Symmetry
PROPERTY FirstAttemptBeforeRollback
