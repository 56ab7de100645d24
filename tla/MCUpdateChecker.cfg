SPECIFICATION FairCheckerSpec
CONSTANTS
  k1 = k1
  k2 = k2
  Check <- MCCheck
  Release <- MCRelease
  NoCheck = NoCheck
  BodySize = 2
  MaxPart = 1
  Unparsable = Unparsable
INVARIANTS
  BoxesTellTheTruth
  BusyIsTheOnlyExcuse
  HandlesGivenBack
PROPERTIES
  ChecksEnd
CHECK_DEADLOCK FALSE
