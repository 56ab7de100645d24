SPECIFICATION FairAppSpec
CONSTANTS
  d1 = d1
  d2 = d2
  c1 = c1
  Device <- MCDevice
  ClientId <- MCClientId
  NoDevice = NoDevice
  NoPipe = NoPipe
  PowerEvents = FALSE
  MaxPosted = 2
INVARIANTS
  ListenersKnowClients
PROPERTIES
  SelectionTakesEffect
  CloseEnds
