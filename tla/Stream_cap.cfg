SPECIFICATION StrSpec
CONSTANTS
  StrPollers = {p1}
  StrSizes <- McSizes
  MaxBuffer = 4
  IdleTtl = 1
  MaxLines = 5
INVARIANT BufferWithinCap
CHECK_DEADLOCK FALSE
