SPECIFICATION Spec
CONSTANTS
  m1 = m1
  m2 = m2
  Mappers = {m1}
  Root = m1
  Boxes <- Server
  Faults = {}
PROPERTY RefusalIsHonoured
