CONSTANTS
  Gens = {g1, g2}
  NONE = NONE
  AutomaticRollback = TRUE
  Good = {g1}
SPECIFICATION RSpec
PROPERTY BadGenerationReplaced
PROPERTY HealthyGenerationConfirmed
CHECK_DEADLOCK FALSE
