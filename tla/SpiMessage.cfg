SPECIFICATION Spec
CONSTANTS
  Bits = 8
  HeaderLen = 9
  BufSize = 18
  ChipSelect = 1
  Controls <- ControlsAll
  Widths <- WidthsAll
  Lengths <- LengthsAll
  Groups <- GroupsAll
  MaxWrites = 2
  Payloads <- PayloadsAll
INVARIANTS
  WireComplete
  ReplyInPlace
  InBounds
\* the bounded number of writes has been made
CHECK_DEADLOCK FALSE
