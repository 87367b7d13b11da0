SPECIFICATION HSpec
CONSTANTS
  y1 = y1
  y2 = y2
  y3 = y3
  NONE = NONE
  LATEST = LATEST
  TORN = TORN
  Systems = {y1, y2, y3}
  MaxGen = 3
  RingSize = 2
  MaxAttempts = 1
  Reuse = FALSE
  Commands = {"delete", "switch"}
  Faults = {}
INVARIANT KnownGoodIsTried
