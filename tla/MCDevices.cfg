SPECIFICATION DevicesSpec
CONSTANTS
  p1 = p1
  p2 = p2
  r1 = r1
  Playback <- MCPlayback
  Recording <- MCRecording
  NoId = NoId
  DeviceFirst = FALSE
  MaxEvents = 3

SYMMETRY Symmetry
INVARIANTS
  ListCatchesUp
  CaptureCatchesUp
  ShownIsCurrent
  SelectionIsSaved
PROPERTY
  SelectionStaysPut
