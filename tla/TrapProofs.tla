----------------------------- MODULE TrapProofs -----------------------------
(***************************************************************************)
(* Theorems about the trap path, for every register width, program length  *)
(* and set of unhandled exceptions.                                        *)
(***************************************************************************)
EXTENDS Trap, TLAPS

(***************************************************************************)
(* The three invariants need each other: the frame pointer stays in the    *)
(* memory because only a faulting handler traps again, the saved sstatus   *)
(* masks interrupts because the trap path runs with interrupts masked, and *)
(* interrupts stay masked because that sstatus is what the path restores.  *)
(***************************************************************************)
TrapInv == TypeOK /\ InterruptsMasked /\ ContextKept

LEMMA TimerCause ==
  ASSUME NEW cause, HandlerOf(cause) = "timer_handler"
  PROVE  cause = S_TIMER
BY DEF HandlerOf

LEMMA InitTrapInv == ASSUME Init PROVE TrapInv
<1>1. /\ regs \in [Reg -> Val]
      /\ 0 \in Pc /\ 0 \in 0 .. 2 /\ 0 <= MaxPc
      /\ BREAKPOINT \in Cause
  BY TrapAssumption DEF Init, Pc, Cause
<1>2. \A d \in 1 .. 2 : mem[d] \in Frame
  BY <1>1 DEF Init, Frame
<1>3. TypeOK
  BY <1>1, <1>2 DEF Init, TypeOK, Stage, Frame, Context
<1>4. InterruptsMasked /\ ContextKept
  BY <1>1 DEF Init, InterruptsMasked, ContextKept
<1>5. QED
  BY <1>3, <1>4 DEF TrapInv

LEMMA ProgramStep ==
  ASSUME TrapInv, Instruction \/ EnableInterrupts \/ TimerExpires
  PROVE  TrapInv'
<1> USE DEF TrapInv, TypeOK, InterruptsMasked, ContextKept, Entered, Saved,
          Handled, ResumePc, Unchanged
<1>1. CASE Instruction
  BY <1>1, TrapAssumption DEF Instruction, Pc
<1>2. CASE EnableInterrupts
  BY <1>2 DEF EnableInterrupts
<1>3. CASE TimerExpires
  BY <1>3 DEF TimerExpires
<1>4. QED
  BY <1>1, <1>2, <1>3

LEMMA EntryStep ==
  ASSUME TrapInv, Interrupt \/ Exception \/ SyscallFaults
  PROVE  TrapInv'
<1> USE DEF TrapInv, TypeOK, InterruptsMasked, ContextKept, Entered, Saved,
          Handled, ResumePc, Unchanged, TakeTrap, Stage, Pc, KernelPc, Cause,
          Context, S_TIMER, BREAKPOINT, LOAD_ACCESS, SUPERVISOR_ECALL
<1>1. CASE Interrupt
  BY <1>1, TrapAssumption DEF Interrupt
<1>2. CASE Exception
  <2>1. PICK cause \in Cause \ {S_TIMER} : TakeTrap(cause)
    BY <1>2 DEF Exception
  <2>2. TypeOK' /\ InterruptsMasked'
    BY <1>2, <2>1, TrapAssumption DEF Exception
  <2>3. ContextKept'
    BY <1>2, <2>1, TrapAssumption DEF Exception
  <2>4. QED
    BY <2>2, <2>3
<1>3. CASE SyscallFaults
  <2>1. sp = 1 /\ TakeTrap(LOAD_ACCESS) /\ stage = "handle_syscall"
    BY <1>3 DEF SyscallFaults
  <2>2. LOAD_ACCESS \in Cause /\ KernelPc \in Pc
    BY TrapAssumption
  <2>3. TypeOK' /\ InterruptsMasked'
    BY <2>1, <2>2
  <2>4. ContextKept'
    BY <2>1
  <2>5. QED
    BY <2>3, <2>4
<1>4. QED
  BY <1>1, <1>2, <1>3

LEMMA SaveStep ==
  ASSUME TrapInv, SaveRegisters \/ SaveState \/ Dispatch
  PROVE  TrapInv'
<1> USE DEF TrapInv, TypeOK, InterruptsMasked, ContextKept, Entered, Saved,
          Handled, ResumePc, Unchanged, Stage, Pc, Frame, GPR, Reg,
          StoreGPR, StoreState
<1>1. CASE SaveRegisters
  BY <1>1, TrapAssumption DEF SaveRegisters
<1>2. CASE SaveState
  <2>1. sp \in 1 .. 2 /\ ~SIE
    BY <1>2 DEF SaveState
  <2>2. StoreState(mem[sp]) \in Frame
    BY <2>1
  <2>3. TypeOK' /\ InterruptsMasked'
    BY <1>2, <2>1, <2>2, TrapAssumption DEF SaveState
  <2>4. CASE sp = 1
    <3>1. mem'[1] = StoreState(mem[1]) /\ stage' = "handle_trap" /\ sp' = 1
      BY <1>2, <2>4 DEF SaveState
    <3>2. Entered /\ entry' = entry /\ scause' = scause /\ entry.sp = 0
      BY <1>2, <2>4 DEF SaveState
    <3>3. entry.regs \in [Reg -> Val] /\ mem[1].regs \in [Reg -> Val]
      BY <2>4 DEF Context
    <3>4. mem'[1].regs = entry'.regs
      BY <1>2, <2>4, <3>1, <3>2, <3>3 DEF SaveState
    <3>5. Saved'
      BY <1>2, <2>1, <2>4, <3>1, <3>2, <3>4 DEF SaveState
    <3>6. QED
      BY <1>2, <3>1, <3>2, <3>5 DEF SaveState
  <2>5. CASE sp = 2
    BY <1>2, <2>5 DEF SaveState
  <2>6. QED
    BY <2>1, <2>3, <2>4, <2>5
<1>3. CASE Dispatch
  <2>1. TypeOK' /\ InterruptsMasked'
    BY <1>3, TrapAssumption DEF Dispatch
  <2>2. UNCHANGED <<sp, timerPending, mem, entry>> /\ stage = "handle_trap"
    BY <1>3 DEF Dispatch
  <2>3. CASE scause = SUPERVISOR_ECALL
    <3>1. sp = 1 /\ Saved /\ entry.cause = SUPERVISOR_ECALL
      BY <2>2, <2>3 DEF SUPERVISOR_ECALL, LOAD_ACCESS
    <3>2. stage' = "handle_syscall"
      BY <1>3, <2>3 DEF Dispatch
    <3>3. QED
      BY <2>1, <2>2, <3>1, <3>2
  <2>4. CASE scause # SUPERVISOR_ECALL
    <3>1. stage' = "handle_exception"
      BY <1>3, <2>4 DEF Dispatch
    <3>2. QED
      BY <2>1, <2>2, <2>4, <3>1
  <2>5. QED
    BY <2>3, <2>4
<1>4. QED
  BY <1>1, <1>2, <1>3

LEMMA HandleStep ==
  ASSUME TrapInv,
         HandleTimer \/ HandleBreakpoint \/ HandleFatal \/ HandleSyscall
  PROVE  TrapInv'
<1> USE DEF TrapInv, TypeOK, InterruptsMasked, ContextKept, Entered, Saved,
          Handled, ResumePc, Unchanged, Stage, Pc, Frame, GPR, Reg, CCode,
          CallerSaved, Change, HandlerOf,
          S_TIMER, BREAKPOINT, LOAD_ACCESS, SUPERVISOR_ECALL
<1>1. CASE HandleTimer
  <2>1. /\ sp \in {1, 2}
        /\ mem[sp].scause \in Cause
        /\ stage = "handle_exception"
    BY <1>1 DEF HandleTimer
  <2>2. mem[sp].scause = S_TIMER
    BY <1>1, <2>1, TimerCause DEF HandleTimer
  <2>3. sp = 1 /\ Saved /\ entry.cause = S_TIMER
    BY <2>1, <2>2
  <2>4. regs' \in [Reg -> Val]
    BY <1>1 DEF HandleTimer
  <2>5. TypeOK' /\ InterruptsMasked'
    BY <1>1, <2>4 DEF HandleTimer
  <2>6. ContextKept'
    BY <1>1, <2>3 DEF HandleTimer
  <2>7. QED
    BY <2>5, <2>6
<1>2. CASE HandleBreakpoint
  BY <1>2, TrapAssumption DEF HandleBreakpoint
<1>3. CASE HandleFatal
  BY <1>3, TrapAssumption DEF HandleFatal
<1>4. CASE HandleSyscall
  <2>1. sp = 1 /\ Saved /\ entry.cause = SUPERVISOR_ECALL
    BY <1>4 DEF HandleSyscall
  <2>2. PICK ret \in SyscallResults(mem[1].regs["a7"], mem[1].regs["a0"]) :
          mem' = [mem EXCEPT ![1] = Change(mem[1],
                    [mem[1].regs EXCEPT !["a0"] = ret], mem[1].sepc + 1)]
    BY <1>4, <2>1 DEF HandleSyscall
  <2>3. ret \in Val
    BY <2>2, TrapAssumption
       DEF SyscallResults, DefaultSyscall, MinusOne, Val
  <2>4. TypeOK' /\ InterruptsMasked'
    BY <1>4, <2>1, <2>2, <2>3, TrapAssumption DEF HandleSyscall
  <2>5. ContextKept'
    BY <1>4, <2>1, <2>2 DEF HandleSyscall
  <2>6. QED
    BY <2>4, <2>5
<1>5. QED
  BY <1>1, <1>2, <1>3, <1>4

LEMMA RestoreStep ==
  ASSUME TrapInv, RestoreState \/ RestoreRegisters \/ Sret
  PROVE  TrapInv'
<1> USE DEF TrapInv, TypeOK, InterruptsMasked, ContextKept, Entered, Saved,
          Handled, ResumePc, Unchanged, Stage, Pc, Frame, GPR, Reg, Context
<1>1. CASE RestoreState
  BY <1>1, TrapAssumption DEF RestoreState
<1>2. CASE RestoreRegisters
  BY <1>2, TrapAssumption DEF RestoreRegisters
<1>3. CASE Sret
  BY <1>3, TrapAssumption DEF Sret
<1>4. QED
  BY <1>1, <1>2, <1>3

LEMMA TrapInvStep == ASSUME TrapInv, [Next]_vars PROVE TrapInv'
<1>1. CASE UNCHANGED vars
  BY <1>1 DEF vars, TrapInv, TypeOK, InterruptsMasked, ContextKept, Entered,
              Saved, Handled, ResumePc, Unchanged
<1>2. CASE Next
  BY <1>2, ProgramStep, EntryStep, SaveStep, HandleStep, RestoreStep
     DEF Next, TrapPath
<1>3. QED
  BY <1>1, <1>2

(***************************************************************************)
(* The inductive invariant: on every step of exception.S and of the C      *)
(* handlers the context is kept and interrupts are masked.                 *)
(***************************************************************************)
THEOREM TrapInvariant == Spec => []TrapInv
<1>1. Init => TrapInv
  BY InitTrapInv
<1>2. TrapInv /\ [Next]_vars => TrapInv'
  BY TrapInvStep
<1>3. QED
  BY <1>1, <1>2, PTL DEF Spec

(***************************************************************************)
(* The trap path keeps its registers, its CSRs and its stack within their  *)
(* types: in particular it never needs a third trap frame.                 *)
(***************************************************************************)
THEOREM TypeCorrect == Spec => []TypeOK
<1>1. TrapInv => TypeOK
  BY DEF TrapInv
<1>2. QED
  BY <1>1, TrapInvariant, PTL

(***************************************************************************)
(* No interrupt can be taken between trap entry and sret.                  *)
(***************************************************************************)
THEOREM TrapPathMasked == Spec => []InterruptsMasked
<1>1. TrapInv => InterruptsMasked
  BY DEF TrapInv
<1>2. QED
  BY <1>1, TrapInvariant, PTL

(***************************************************************************)
(* At each stage the frame, the registers and the CSRs together hold the   *)
(* interrupted context.                                                    *)
(***************************************************************************)
THEOREM ContextCorrect == Spec => []ContextKept
<1>1. TrapInv => ContextKept
  BY DEF TrapInv
<1>2. QED
  BY <1>1, TrapInvariant, PTL

LEMMA OnlySretReturns ==
  ASSUME TrapInv, [Next]_vars, stage # "main", stage' = "main"
  PROVE  Sret /\ UNCHANGED <<regs, sp, entry>>
BY DEF TrapInv, InterruptsMasked, Next, TrapPath, vars, Instruction,
  EnableInterrupts, TimerExpires, Interrupt, Exception, TakeTrap,
  SaveRegisters, SaveState, Dispatch, HandleTimer, HandleBreakpoint,
  HandleFatal, HandleSyscall, SyscallFaults, RestoreState, RestoreRegisters,
  Sret

(***************************************************************************)
(* A trap that returns gives the program back every register, its stack    *)
(* pointer and its interrupt enable, and resumes it where it should.       *)
(***************************************************************************)
THEOREM TrapsAreTransparent == Spec => Transparent
<1>1. ASSUME TrapInv, [Next]_vars, stage # "main", stage' = "main"
      PROVE  /\ Unchanged(regs', Reg)
             /\ sp' = entry.sp
             /\ SIE' = entry.sie
             /\ pc' = ResumePc
  <2>1. Sret /\ UNCHANGED <<regs, sp, entry>>
    BY <1>1, OnlySretReturns
  <2>2. /\ entry.sp = 0 /\ sp = 0 /\ Unchanged(regs, Reg)
        /\ sepc = ResumePc /\ SPIE = entry.sie
    BY <1>1, <2>1 DEF TrapInv, ContextKept, Sret
  <2>3. QED
    BY <2>1, <2>2 DEF Sret, Unchanged
<1>2. QED
  BY <1>1, TrapInvariant, PTL DEF Spec, Transparent

(***************************************************************************)
(* The refinement.  While the trap path runs, the program stands where it  *)
(* was interrupted; a trap takes effect when sret returns, except that a   *)
(* timer request is withdrawn by its handler.                              *)
(***************************************************************************)
LEMMA SretRefines ==
  ASSUME TrapInv, Sret
  PROVE  [Atomic!Next]_Atomic!vars
<1>1. /\ stage = "sret" /\ stage' = "main"
      /\ sp = 0 /\ Unchanged(regs, Reg)
      /\ sepc = ResumePc /\ SPIE = entry.sie
      /\ entry.sp = 0
      /\ entry.cause # S_TIMER => entry.pc < MaxPc
  BY DEF Sret, TrapInv, ContextKept
<1>2. regs \in [Reg -> Val] /\ entry.regs \in [Reg -> Val]
  BY DEF TrapInv, TypeOK, Context
<1>3. UNCHANGED <<regs, sp, timerPending, entry>> /\ pc' = sepc /\ SIE' = SPIE
  BY DEF Sret
<1>4. CASE entry.cause = SUPERVISOR_ECALL
  <2>1. regs = [entry.regs EXCEPT !["a0"] = regs["a0"]] /\ regs["a0"] \in Val
    BY <1>1, <1>2, <1>4 DEF Unchanged, Reg, GPR
  <2>2. pc' = entry.pc + 1 /\ entry.pc < MaxPc
    BY <1>1, <1>3, <1>4 DEF ResumePc, S_TIMER, SUPERVISOR_ECALL
  <2>3. Atomic!SystemCall
    BY <1>1, <1>3, <2>1, <2>2 DEF Atomic!SystemCall
  <2>4. QED
    BY <2>3 DEF Atomic!Next
<1>5. CASE entry.cause # SUPERVISOR_ECALL
  <2>1. regs = entry.regs
    BY <1>1, <1>2, <1>5 DEF Unchanged
  <2>2. CASE entry.cause = S_TIMER
    BY <1>1, <1>3, <2>1, <2>2 DEF ResumePc, Atomic!vars
  <2>3. CASE entry.cause # S_TIMER
    <3>1. pc' = entry.pc + 1 /\ entry.pc < MaxPc
      BY <1>1, <1>3, <2>3 DEF ResumePc
    <3>2. Atomic!Breakpoint
      BY <1>1, <1>3, <2>1, <3>1 DEF Atomic!Breakpoint
    <3>3. QED
      BY <3>2 DEF Atomic!Next
  <2>4. QED
    BY <2>2, <2>3
<1>6. QED
  BY <1>4, <1>5

LEMMA HandlersRefine ==
  ASSUME TrapInv,
         HandleTimer \/ HandleBreakpoint \/ HandleFatal \/ HandleSyscall
  PROVE  [Atomic!Next]_Atomic!vars
<1>1. CASE HandleTimer
  <2>1. entry.cause = S_TIMER /\ stage = "handle_exception"
    <3>1. /\ sp \in {1, 2}
          /\ mem[sp].scause \in Cause
          /\ stage = "handle_exception"
      BY <1>1 DEF HandleTimer, TrapInv, TypeOK, ContextKept, Frame
    <3>2. mem[sp].scause = S_TIMER
      BY <1>1, <3>1, TimerCause DEF HandleTimer
    <3>3. QED
      BY <3>1, <3>2
         DEF TrapInv, ContextKept, Saved, S_TIMER, LOAD_ACCESS
  <2>2. entry.sie /\ timerPending
    BY <2>1 DEF TrapInv, ContextKept
  <2>3. /\ stage' = "restore_registers"
        /\ timerPending' = FALSE
        /\ entry' = entry
    BY <1>1 DEF HandleTimer
  <2>4. Atomic!Interrupt
    BY <2>1, <2>2, <2>3 DEF Atomic!Interrupt
  <2>5. QED
    BY <2>4 DEF Atomic!Next
<1>2. CASE HandleBreakpoint
  BY <1>2 DEF HandleBreakpoint, Atomic!vars
<1>3. CASE HandleFatal
  <2>1. Atomic!Halt
    BY <1>3 DEF HandleFatal, Atomic!Halt
  <2>2. QED
    BY <2>1 DEF Atomic!Next
<1>4. CASE HandleSyscall
  BY <1>4 DEF HandleSyscall, Atomic!vars
<1>5. QED
  BY <1>1, <1>2, <1>3, <1>4

LEMMA ProgramRefines ==
  ASSUME TrapInv, Instruction \/ EnableInterrupts \/ TimerExpires
  PROVE  [Atomic!Next]_Atomic!vars
<1>1. CASE Instruction
  <2>1. Atomic!Instruction
    BY <1>1 DEF Instruction, Atomic!Instruction, TrapInv, TypeOK
  <2>2. QED
    BY <2>1 DEF Atomic!Next
<1>2. CASE EnableInterrupts
  <2>1. Atomic!EnableInterrupts
    BY <1>2 DEF EnableInterrupts, Atomic!EnableInterrupts
  <2>2. QED
    BY <2>1 DEF Atomic!Next
<1>3. CASE TimerExpires
  <2>1. Atomic!TimerExpires
    BY <1>3 DEF TimerExpires, Atomic!TimerExpires
  <2>2. QED
    BY <2>1 DEF Atomic!Next
<1>4. QED
  BY <1>1, <1>2, <1>3

LEMMA OtherStepsStutter ==
  ASSUME TrapInv,
         \/ Interrupt \/ Exception \/ SyscallFaults
         \/ SaveRegisters \/ SaveState \/ Dispatch
         \/ RestoreState \/ RestoreRegisters
         \/ UNCHANGED vars
  PROVE  UNCHANGED Atomic!vars
BY DEF TrapInv, InterruptsMasked, Interrupt, Exception, SyscallFaults,
  TakeTrap, SaveRegisters, SaveState, Dispatch, RestoreState,
  RestoreRegisters, vars, Atomic!vars

(***************************************************************************)
(* The trap path implements the specification in which a trap is one       *)
(* atomic step of the program.                                             *)
(***************************************************************************)
THEOREM TrapPathIsAtomic == Spec => ImplementsAtomicTrap
<1>1. Init => Atomic!Init
  BY DEF Init, Atomic!Init
<1>2. TrapInv /\ [Next]_vars => [Atomic!Next]_Atomic!vars
  BY SretRefines, HandlersRefine, ProgramRefines, OtherStepsStutter
     DEF Next, TrapPath
<1>3. QED
  BY <1>1, <1>2, TrapInvariant, PTL
     DEF Spec, Atomic!Spec, ImplementsAtomicTrap

=============================================================================
