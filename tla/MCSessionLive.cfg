SPECIFICATION LiveSpec
CONSTANTS
  N = 2
  SwapWaitsForGpu = TRUE
  MayHide = FALSE
INVARIANTS
  GpuDoneBeforeRequeue
PROPERTIES
  StopEndsSession
  CloseEndsSession
  OneExitEndsBoth
  AckWaitEnds
  Contract
