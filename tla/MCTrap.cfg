CONSTANTS
  W = 3
  SyscallLimit = 2
  MaxPc = 2
  InitRegs <- MCInitRegs
  Faults <- MCFaults
SPECIFICATION FairSpec
CHECK_DEADLOCK FALSE
INVARIANT
  TypeOK
  InterruptsMasked
  ContextKept
PROPERTY
  Transparent
  ImplementsAtomicTrap
  InterruptServed
