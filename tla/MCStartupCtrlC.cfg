SPECIFICATION LiveSpec
CONSTANTS
  Fg = fg
  Extra = {}
  Bg = bg
  Rivals = {}
  Nobody = nobody
  Backlog = 1
PROPERTIES
  CtrlCStopsAll
