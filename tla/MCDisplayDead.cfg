SPECIFICATION LiveSpec
CONSTANTS
  Pings = {}
  Configures = {c1}
  Close = close
PROPERTIES
  DeadCompositorEnds
