CONSTANTS
  MaxKeys = 2
  MaxVolumes = 1
SPECIFICATION Spec
INVARIANT EarlyKeyVetoes
CHECK_DEADLOCK FALSE
