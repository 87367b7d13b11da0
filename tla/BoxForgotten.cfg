CONSTANTS
  MaxKeys = 5
  MaxVolumes = 2
SPECIFICATION Spec
INVARIANT CheckedShowsSelector
CHECK_DEADLOCK FALSE
