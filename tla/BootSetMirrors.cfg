CONSTANTS
  a1 = a1
  b1 = b1
  a2 = a2
  k1 = k1
  k2 = k2
  NONE = NONE
  Bundles = {a1, b1}
  Slot <- MCSlot
  Key <- MCKey
  Size <- MCUnitSize
  Need <- MCNeed
  Extra = 1
  NRoots = 2
  Capacity = 4
  Journaled = FALSE
  LateFailure = FALSE
  MutableSpool = FALSE
SPECIFICATION Spec
INVARIANT SelectedBootable
INVARIANT AcknowledgedIsInstalled
INVARIANT CanRetry
