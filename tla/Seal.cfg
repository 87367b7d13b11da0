SPECIFICATION Spec
CONSTANTS
  m1 = m1
  m2 = m2
  Mappers = {m1, m2}
  Root = m1
  Boxes <- AllBoxes
  Faults = {"cap", "close", "append", "rewrite", "modules", "panic", "power"}
INVARIANT TypeOK
INVARIANT InteractiveIsCapped
INVARIANT InteractiveHasNoMapper
INVARIANT RescueBounded
PROPERTY RequestIsHonoured
