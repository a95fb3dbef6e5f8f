CONSTANTS
  Char <- MCChar
  MainText <- MCMainText
  IrqText <- MCIrqText
  Depth = 2
  MaxIrqs = 3
SPECIFICATION FairSpec
CHECK_DEADLOCK FALSE
INVARIANT
  TypeOK
  NothingLost
  InOrder
  HandlerUninterrupted
PROPERTY
  AllDelivered
