----------------------------- MODULE AtomicTrap -----------------------------
(***************************************************************************)
(* What the trap path of src/src/exception promises the code it interrupts *)
(* or serves, with no trap path in sight: a timer interrupt only withdraws *)
(* the request, a breakpoint only steps over the instruction, a system     *)
(* call only answers in a0, and any other exception stops the hart.        *)
(* Module Trap implements this specification.                              *)
(***************************************************************************)
EXTENDS Naturals

CONSTANTS
  Val,        \* what a register can hold
  InitRegs,   \* the register contents the program may start with
  MaxPc       \* the length of the program

VARIABLES
  regs,           \* the registers of the program, sp excluded
  sp,             \* its stack pointer
  pc,             \* the instruction it executes next
  sie,            \* are interrupts enabled?
  timerPending,   \* does the timer request an interrupt?
  halted          \* has an exception stopped the hart?

vars == <<regs, sp, pc, sie, timerPending, halted>>

Init ==
  /\ regs \in InitRegs
  /\ sp = 0
  /\ pc = 0
  /\ sie = FALSE
  /\ timerPending = FALSE
  /\ halted = FALSE

(***************************************************************************)
(* The program executes an instruction that writes one register.           *)
(***************************************************************************)
Instruction ==
  /\ ~halted
  /\ pc < MaxPc
  /\ pc' = pc + 1
  /\ \E r \in DOMAIN regs, v \in Val : regs' = [regs EXCEPT ![r] = v]
  /\ UNCHANGED <<sp, sie, timerPending, halted>>

EnableInterrupts ==
  /\ ~halted
  /\ sie' = TRUE
  /\ UNCHANGED <<regs, sp, pc, timerPending, halted>>

TimerExpires ==
  /\ timerPending' = TRUE
  /\ UNCHANGED <<regs, sp, pc, sie, halted>>

(***************************************************************************)
(* A timer interrupt leaves no trace in the program.                       *)
(***************************************************************************)
Interrupt ==
  /\ ~halted
  /\ sie
  /\ timerPending
  /\ timerPending' = FALSE
  /\ UNCHANGED <<regs, sp, pc, sie, halted>>

Breakpoint ==
  /\ ~halted
  /\ pc < MaxPc
  /\ pc' = pc + 1
  /\ UNCHANGED <<regs, sp, sie, timerPending, halted>>

SystemCall ==
  /\ ~halted
  /\ pc < MaxPc
  /\ pc' = pc + 1
  /\ \E v \in Val : regs' = [regs EXCEPT !["a0"] = v]
  /\ UNCHANGED <<sp, sie, timerPending, halted>>

Halt ==
  /\ ~halted
  /\ halted' = TRUE
  /\ UNCHANGED <<regs, sp, pc, sie, timerPending>>

Next ==
  \/ Instruction
  \/ EnableInterrupts
  \/ TimerExpires
  \/ Interrupt
  \/ Breakpoint
  \/ SystemCall
  \/ Halt

Spec == Init /\ [][Next]_vars

=============================================================================
