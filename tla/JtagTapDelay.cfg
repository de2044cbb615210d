CONSTANTS
  ByteBits = 8
  Lengths = {32, 35}
  Delays = {TRUE}
SPECIFICATION TapSpec
INVARIANTS AllCaptured
