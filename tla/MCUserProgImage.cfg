CONSTANTS
  W = 1024
  Page = 16
  Align = 1
  HeapStart = 70
  MinStart = 96
  HeapLimit = 352
  MaxBlocks = 20
  TestSizes <- MCTestSizes
  ImageStart = 200
  ImageArea = 24
  StackSize = 19
  ProgName = 901
  user_phdrs = 902
  random_bytes = 903
  GatewayRegs <- MCGatewayRegs
SPECIFICATION Spec
CHECK_DEADLOCK FALSE
INVARIANT
  FreshImage
