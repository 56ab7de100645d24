SPECIFICATION ReceiveSpec
CONSTANTS
  a1 = a1
  Address <- MCAddress
  Compression <- AudioCompression
  Listener <- MCListener
  ServerListener = "server"
  AppListener = "app"
  NoClient = NoClient
  NotListening = NotListening
  Timeout = 0
  MaintenancePeriod = 1
  InputPacketSize = 9
  Datagram <- MCDatagram
  SequenceNumber <- MCSequenceNumber
  AudioData <- MCAudioData
INVARIANTS
  WireTellsSent
  KeysComeUp
  TypedAsAsked
PROPERTIES
  OnlyWholeRequests
  ImplementsServer
