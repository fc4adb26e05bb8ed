SPECIFICATION LiveSpec
CONSTANTS
  N = 2
  SwapWaitsForGpu = TRUE
  MayHide = TRUE
PROPERTIES
  StopEndsSession
