CONSTANTS
  W = 3
  SyscallLimit = 2
  MaxPc = 2
  InitRegs <- MCInitRegs
  Faults <- MCFaults
SPECIFICATION Spec
CHECK_DEADLOCK FALSE
INVARIANT
  UnknownSyscallRefused
