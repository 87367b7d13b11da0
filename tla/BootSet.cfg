CONSTANTS
  a1 = a1
  b1 = b1
  a2 = a2
  k1 = k1
  k2 = k2
  NONE = NONE
  Bundles = {a1, b1, a2}
  Slot <- MCSlot
  Key <- MCKey
  Size <- MCSize
  Need <- MCNeed
  Extra = 1
  NRoots = 1
  Capacity = 5
  Journaled = TRUE
  LateFailure = TRUE
  MutableSpool = TRUE
SPECIFICATION Spec
INVARIANT TypeOK
INVARIANT HasRoom
PROPERTY ImplementsRegister
