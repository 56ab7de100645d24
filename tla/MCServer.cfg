SPECIFICATION FairServerSpec
CONSTANTS
  a1 = a1
  a2 = a2
  none = none
  opus = opus
  Address <- MCAddress
  Compression <- MCCompression
  Listener <- MCListener
  ServerListener = "server"
  AppListener = "app"
  NoClient = NoClient
  NotListening = NotListening
  Timeout = 3
  MaintenancePeriod = 2
INVARIANTS
  
  GoneInTime
  HeardInTime
  FarewellComplete
PROPERTIES
  LeavesForAReason
  KeepsPromise
  SilentClientLeaves
