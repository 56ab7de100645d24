SPECIFICATION AppSpec
CONSTANTS
  d1 = d1
  d2 = d2
  c1 = c1
  Device <- MCDevice
  ClientId <- MCClientId
  NoDevice = NoDevice
  NoPipe = NoPipe
  PowerEvents = TRUE
  MaxPosted = 2
INVARIANT IoThreadNotStuck
CHECK_DEADLOCK FALSE
