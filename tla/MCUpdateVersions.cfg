SPECIFICATION CheckerSpec
CONSTANTS
  k1 = k1
  k2 = k2
  Check <- MCCheck
  Release <- MCRelease
  NoCheck = NoCheck
  BodySize = 1
  MaxPart = 1
  Unparsable = Unparsable
INVARIANT ComparesAsDocumented
CHECK_DEADLOCK FALSE
