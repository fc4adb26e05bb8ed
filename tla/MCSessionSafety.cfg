SPECIFICATION Spec
CONSTANTS
  N = 3
  SwapWaitsForGpu = FALSE
  MayHide = TRUE
INVARIANTS
  TypeOK
  ImportedNotCaptured
  Conservation
  OneFrameInFlight
  NoMutualWait
PROPERTIES
  FramesShownInOrder
  WindsDown
  UsesDevice
  UsesWindow
