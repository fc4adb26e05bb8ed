SPECIFICATION Spec
CONSTANTS
  N = 2
  SwapWaitsForGpu = FALSE
  MayHide = FALSE
INVARIANTS
  GpuDoneBeforeRequeue
