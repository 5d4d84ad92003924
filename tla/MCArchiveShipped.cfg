SPECIFICATION Spec
CONSTANTS
  s1 = s1
  s2 = s2
  Sessions <- MCSessions
  None = None
  MaxTip = 2
  MaxPr = 1
  MaxCalls = 2
INVARIANT ShippedIsReleased
CHECK_DEADLOCK FALSE
