CONSTANTS
  MaxKeys = 4
  MaxVolumes = 2
SPECIFICATION FairSpec
INVARIANT TypeOK
INVARIANT ReadKeyVetoes
INVARIANT KeysKept
PROPERTY UnattendedBoots
CHECK_DEADLOCK FALSE
