SPECIFICATION Spec
CONSTANTS
  MaxCount = 4
  SendMax = 3
  RecvMax = 2
  Widths <- MCWidths
  Heights <- MCHeights
  Pads <- MCPads
  IntMod = 64
INVARIANTS
  TypeOK
  CompleteOrRejected
  ChromaWhereWritten
  ShownRight
