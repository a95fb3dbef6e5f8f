CONSTANTS
  MemSize = 5
  ByteW = 4
  Byte = {0, 1, 3}
  IntArg <- MCIntArg
  IntW = 32
  LongW = 256
  HexDigits = 2
  Calls <- MCCalls
SPECIFICATION LibrarySpec
CHECK_DEADLOCK FALSE
INVARIANT
  TypeOK
  MemoryAsSpecified
  
  FormatTypeOK
  
  NumbersAsSpecified
PROPERTY
  CallsReturn
