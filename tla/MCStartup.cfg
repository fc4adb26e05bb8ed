SPECIFICATION LiveSpec
CONSTANTS
  Fg = fg
  Extra = {e1}
  Bg = bg
  Rivals = {r1}
  Nobody = nobody
  Backlog = 0
INVARIANTS
  TypeOK
  Reachable
  OneServed
  NothingLeftBehind
PROPERTIES
  CtrlCStopsSession
  QueuedReleased
