SPECIFICATION CaptureSpec
CONSTANTS
  none = none
  opus = opus
  Compression <- MCCompression
  Uncompressed = none
  FrameSize = 2
  PacketSize <- MCPacketSize
  BufferDuration = 3
  HeldBack = 1
  SequenceModulus = 3
  MaxReady = 2
  MaxCaptured = 6
  MaxPipes = 2
INVARIANTS
  WaitsForOneTimer
  BufferGivenBack
  SilenceKeepsUp
  
  AudioInOrder
  FramesOfOnePipe
  NumbersFollow
