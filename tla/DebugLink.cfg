CONSTANTS
  Page = 8
  MemSize = 16
  Holes <- MCHoles
  MaxSpoiled = 2
  DebugPorts = 2
  AccessPorts = 2
  MaxInvalid = 2
  MaxProbed = 2
  Chains <- MCChains
  Given <- MCGiven
  MaxDevs = 3
  MaxIrLen = 4
  DrBits = 3
  ByteBits = 8
  Lengths = {1, 4, 7, 8, 9, 32, 35}
  Delays = {FALSE}
  DataBits = 33
SPECIFICATION LinkSpec
INVARIANTS
  NoStrayWrite Exact ScanExact ChainExact AllCaptured InStep
