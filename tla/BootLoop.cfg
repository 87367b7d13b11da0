CONSTANTS
  Gens = {g1, g2}
  NONE = NONE
  AutomaticRollback = TRUE
SPECIFICATION HSpec
SYMMETRY Symmetry
INVARIANTS
  TypeOK
  SelectedHaveBundles
  AttemptIsRunning
  BootLoopBounded
PROPERTIES
  ImplementsSelection
  CalmFirstAttempt
  CalmFailure
  CalmRollback
