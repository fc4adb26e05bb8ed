SPECIFICATION LiveSpec
CONSTANTS
  Pings = {p1}
  Configures = {c1, c2}
  Close = close
INVARIANTS
  TypeOK
  ConfiguredBeforeFrame
  ReleasedInOrder
  AllReleased
PROPERTIES
  PingAnswered
  EndsWhenAsked
  ProvidesWindow
