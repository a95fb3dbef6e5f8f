-------------------------------- MODULE Trap --------------------------------
(***************************************************************************)
(* The trap path of the kernel (src/src/exception/exception.S and          *)
(* exception.c) on its one hart: the hardware's trap entry, the assembly   *)
(* that saves the interrupted context on the current stack, the C code     *)
(* that dispatches and handles the trap, the assembly that restores the    *)
(* context, and sret.  The interrupted program is any S-mode code; module  *)
(* Kernel says which code the kernel really runs.                          *)
(*                                                                         *)
(* The 32 integer registers are represented by one of each kind the trap   *)
(* path treats differently.  The stack pointer counts trap frames, since   *)
(* C code leaves it as it found it.                                        *)
(***************************************************************************)
EXTENDS Integers

CONSTANTS
  W,              \* a register holds 0 .. W-1 (64 bits in the code)
  SyscallLimit,   \* the length of syscall_handlers (256 in the code)
  InitRegs,       \* the register contents the program may start with
  Faults,         \* exception codes nobody registered a handler for
  MaxPc           \* bound: the length of the interrupted program

Val == 0 .. W-1

(***************************************************************************)
(* ra is written by calls, t0 and t1 by the assembly itself, a0, a1 and a7 *)
(* carry arguments, s0 is preserved by C code, f0 and fcsr are the         *)
(* floating-point state.                                                   *)
(***************************************************************************)
GPR == {"ra", "t0", "t1", "a0", "a1", "a7", "s0"}
Reg == GPR \cup {"f0", "fcsr"}
CallerSaved == Reg \ {"s0"}

ASSUME TrapAssumption ==
  /\ W \in Nat /\ W > 1
  /\ SyscallLimit \in Nat
  /\ InitRegs \subseteq [Reg -> Val]
  /\ Faults \subseteq Nat \ {3, 5, 9}
  /\ MaxPc \in Nat

BREAKPOINT == [irq |-> FALSE, code |-> 3]
LOAD_ACCESS == [irq |-> FALSE, code |-> 5]
SUPERVISOR_ECALL == [irq |-> FALSE, code |-> 9]
S_TIMER == [irq |-> TRUE, code |-> 5]
Cause ==
  {BREAKPOINT, LOAD_ACCESS, SUPERVISOR_ECALL, S_TIMER}
    \cup [irq : {FALSE}, code : Faults]

KernelPc == MaxPc + 1   \* any address in the kernel's own text
Pc == 0 .. MaxPc + 1

(***************************************************************************)
(* The struct trap_frame_t, in the order of the assembly: x and f          *)
(* registers with fcsr, then sepc, scause and the two bits of sstatus that *)
(* a trap changes.                                                         *)
(***************************************************************************)
Frame == [regs : [Reg -> Val], sp : 0 .. 2, sepc : Pc, scause : Cause,
          sie : BOOLEAN, spie : BOOLEAN]

Stage ==
  {"main", "trap_handler", "save_state", "handle_trap", "handle_exception",
   "handle_syscall", "restore_registers", "restore_gpr", "sret", "halted"}

VARIABLES
  stage,          \* the part of the trap path being executed, "main" if none
  regs,           \* the registers of the hart, sp excluded
  sp,             \* the stack pointer: trap frames below the program's stack
  pc,             \* the program's next instruction while stage = "main"
  SIE,            \* sstatus.SIE
  SPIE,           \* sstatus.SPIE
  sepc,           \* CSR
  scause,         \* CSR
  timerPending,   \* sip.STIP
  mem,            \* the stack memory: the trap frames at depth 1 and 2
  entry           \* history: the context the program was in when it trapped

vars == <<stage, regs, sp, pc, SIE, SPIE, sepc, scause, timerPending, mem,
          entry>>

Context == [regs : [Reg -> Val], sp : 0 .. 2, pc : Pc, sie : BOOLEAN,
            cause : Cause]

TypeOK ==
  /\ stage \in Stage
  /\ regs \in [Reg -> Val]
  /\ sp \in 0 .. 2
  /\ pc \in Pc
  /\ SIE \in BOOLEAN
  /\ SPIE \in BOOLEAN
  /\ sepc \in Pc
  /\ scause \in Cause
  /\ timerPending \in BOOLEAN
  /\ mem \in [1 .. 2 -> Frame]
  /\ entry \in Context

-----------------------------------------------------------------------------

Init ==
  /\ stage = "main"
  /\ regs \in InitRegs
  /\ sp = 0
  /\ pc = 0
  /\ SIE = FALSE
  /\ SPIE = FALSE
  /\ sepc = 0
  /\ scause = BREAKPOINT
  /\ timerPending = FALSE
  /\ mem = [d \in 1 .. 2 |->
              [regs |-> regs, sp |-> 0, sepc |-> 0, scause |-> BREAKPOINT,
               sie |-> FALSE, spie |-> FALSE]]
  /\ entry = [regs |-> regs, sp |-> 0, pc |-> 0, sie |-> FALSE,
              cause |-> BREAKPOINT]

(***************************************************************************)
(* The interrupted program.                                                *)
(***************************************************************************)

Instruction ==
  /\ stage = "main"
  /\ pc < MaxPc
  /\ pc' = pc + 1
  /\ \E r \in Reg, v \in Val : regs' = [regs EXCEPT ![r] = v]
  /\ UNCHANGED <<stage, sp, SIE, SPIE, sepc, scause, timerPending, mem, entry>>

(* kernel_main sets sstatus.SIE once; nothing in the kernel clears it.     *)
EnableInterrupts ==
  /\ stage = "main"
  /\ SIE' = TRUE
  /\ UNCHANGED <<stage, regs, sp, pc, SPIE, sepc, scause, timerPending, mem,
                 entry>>

TimerExpires ==
  /\ timerPending' = TRUE
  /\ UNCHANGED <<stage, regs, sp, pc, SIE, SPIE, sepc, scause, mem, entry>>

(***************************************************************************)
(* The hardware enters trap_vector, which jumps to trap_handler.           *)
(***************************************************************************)
TakeTrap(cause) ==
  /\ stage' = "trap_handler"
  /\ sepc' = IF stage = "main" THEN pc ELSE KernelPc
  /\ scause' = cause
  /\ SPIE' = SIE
  /\ SIE' = FALSE
  /\ entry' = IF stage = "main"
              THEN [regs |-> regs, sp |-> sp, pc |-> pc, sie |-> SIE,
                    cause |-> cause]
              ELSE entry
  /\ UNCHANGED <<regs, sp, pc, timerPending, mem>>

(* The hardware takes an enabled interrupt wherever the hart is.           *)
Interrupt ==
  /\ SIE
  /\ timerPending
  /\ TakeTrap(S_TIMER)

(* The program executes ebreak or ecall, or faults.                        *)
Exception ==
  /\ stage = "main"
  /\ pc < MaxPc
  /\ \E cause \in Cause \ {S_TIMER} : TakeTrap(cause)

StoreGPR(frame, values, stackPointer) ==
  [regs |-> [r \in Reg |-> IF r \in GPR THEN values[r] ELSE frame.regs[r]],
   sp |-> stackPointer,
   sepc |-> frame.sepc, scause |-> frame.scause,
   sie |-> frame.sie, spie |-> frame.spie]

StoreState(frame) ==
  [regs |-> [r \in Reg |-> IF r \in GPR THEN frame.regs[r] ELSE regs[r]],
   sp |-> frame.sp,
   sepc |-> sepc, scause |-> scause, sie |-> SIE, spie |-> SPIE]

(* Mutant: the saved sp is not corrected for the frame just allocated.     *)
SaveRegisters_AdjustedSp ==
  /\ stage = "trap_handler"
  /\ sp' = sp + 1
  /\ mem' = [mem EXCEPT ![sp + 1] = StoreGPR(@, regs, sp + 1)]
  /\ \E address \in Val : regs' = [regs EXCEPT !["t0"] = address]
  /\ stage' = "save_state"
  /\ UNCHANGED <<pc, SIE, SPIE, sepc, scause, timerPending, entry>>

(* Mutant: t0 computes the interrupted sp before it is saved itself.       *)
SaveRegisters_LateT0 ==
  /\ stage = "trap_handler"
  /\ sp' = sp + 1
  /\ \E address \in Val :
       /\ regs' = [regs EXCEPT !["t0"] = address]
       /\ mem' = [mem EXCEPT
            ![sp + 1] = StoreGPR(@, [regs EXCEPT !["t0"] = address], sp)]
  /\ stage' = "save_state"
  /\ UNCHANGED <<pc, SIE, SPIE, sepc, scause, timerPending, entry>>

(***************************************************************************)
(* trap_handler allocates a frame, stores the x registers in it and then   *)
(* replaces the adjusted sp it stored by the interrupted one, through t0.  *)
(***************************************************************************)
SaveRegisters ==
  /\ stage = "trap_handler"
  /\ sp' = sp + 1
  /\ mem' = [mem EXCEPT ![sp + 1] = StoreGPR(@, regs, sp)]
  /\ \E address \in Val : regs' = [regs EXCEPT !["t0"] = address]
  /\ stage' = "save_state"
  /\ UNCHANGED <<pc, SIE, SPIE, sepc, scause, timerPending, entry>>

(* The f registers, the CSRs (through t0) and fcsr follow.                 *)
SaveState ==
  /\ stage = "save_state"
  /\ mem' = [mem EXCEPT ![sp] = StoreState(@)]
  /\ \E v \in Val : regs' = [regs EXCEPT !["t0"] = v]
  /\ stage' = "handle_trap"
  /\ UNCHANGED <<sp, pc, SIE, SPIE, sepc, scause, timerPending, entry>>

(* handle_trap passes the frame in a0 and calls one of two C functions.    *)
Dispatch ==
  /\ stage = "handle_trap"
  /\ stage' = IF scause = SUPERVISOR_ECALL
              THEN "handle_syscall"
              ELSE "handle_exception"
  /\ \E v \in Val :
       regs' = [r \in Reg |->
                  IF r \in {"a0", "t0", "t1", "ra"} THEN v ELSE regs[r]]
  /\ UNCHANGED <<sp, pc, SIE, SPIE, sepc, scause, timerPending, mem, entry>>

(***************************************************************************)
(* The C handlers.  They leave the caller-saved registers with anything.   *)
(***************************************************************************)
CCode ==
  \E v \in Val :
    regs' = [r \in Reg |-> IF r \in CallerSaved THEN v ELSE regs[r]]

(***************************************************************************)
(* What handle_exception finds in its tables as exception_init leaves      *)
(* them: the default handlers in every slot but that of the breakpoint,    *)
(* and for every cause past the 16 slots.  default_interrupt_handler sends *)
(* the timer interrupt, the only one the kernel enables in sie, on to      *)
(* timer_handler.                                                          *)
(***************************************************************************)
HandlerOf(cause) ==
  CASE cause = S_TIMER -> "timer_handler"
    [] cause = BREAKPOINT -> "ebreak_handler"
    [] OTHER -> "default_exception_handler"

(* What a handler writes to the frame it is given.                         *)
Change(frame, values, next) ==
  [regs |-> values, sp |-> frame.sp, sepc |-> next, scause |-> frame.scause,
   sie |-> frame.sie, spie |-> frame.spie]

(* Mutant: timer_handler returns without programming the next deadline.    *)
HandleTimer_NotRearmed ==
  /\ stage = "handle_exception"
  /\ HandlerOf(mem[sp].scause) = "timer_handler"
  /\ stage' = "restore_registers"
  /\ CCode
  /\ UNCHANGED <<sp, pc, SIE, SPIE, sepc, scause, timerPending, mem, entry>>

(* timer_handler: programming the next deadline withdraws the request.     *)
HandleTimer ==
  /\ stage = "handle_exception"
  /\ HandlerOf(mem[sp].scause) = "timer_handler"
  /\ timerPending' = FALSE
  /\ stage' = "restore_registers"
  /\ CCode
  /\ UNCHANGED <<sp, pc, SIE, SPIE, sepc, scause, mem, entry>>

HandleBreakpoint ==
  /\ stage = "handle_exception"
  /\ HandlerOf(mem[sp].scause) = "ebreak_handler"
  /\ mem' = [mem EXCEPT ![sp] = Change(@, @.regs, @.sepc + 1)]
  /\ stage' = "restore_registers"
  /\ CCode
  /\ UNCHANGED <<sp, pc, SIE, SPIE, sepc, scause, timerPending, entry>>

(* default_exception_handler never returns.                                *)
HandleFatal ==
  /\ stage = "handle_exception"
  /\ HandlerOf(mem[sp].scause) = "default_exception_handler"
  /\ stage' = "halted"
  /\ CCode
  /\ UNCHANGED <<sp, pc, SIE, SPIE, sepc, scause, timerPending, mem, entry>>

(***************************************************************************)
(* System calls.  Numbers 0 and 1 are registered by kernel_main; every     *)
(* other slot, and every number past the table, is the default handler,    *)
(* which looks for a call number in its first argument.                    *)
(***************************************************************************)
MinusOne == W - 1

DefaultSyscall(arg0) ==
  IF arg0 \in {0, 1} THEN {0} ELSE {MinusOne}

SyscallResults(num, arg0) ==
  CASE num = 0 /\ num < SyscallLimit -> {0}      \* sys_putchar
    [] num = 1 /\ num < SyscallLimit -> Val      \* sys_puts: strlen(str)
    [] OTHER -> DefaultSyscall(arg0)

(* The handlers that dereference a pointer argument of the caller.         *)
ReadsString(num, arg0) ==
  IF num \in {0, 1} /\ num < SyscallLimit THEN num = 1 ELSE arg0 = 1

(* Mutant: the saved sepc still points at the ecall.                       *)
HandleSyscall_SamePc ==
  /\ stage = "handle_syscall"
  /\ \E ret \in SyscallResults(mem[sp].regs["a7"], mem[sp].regs["a0"]) :
       mem' = [mem EXCEPT
         ![sp] = Change(@, [mem[sp].regs EXCEPT !["a0"] = ret], @.sepc)]
  /\ stage' = "restore_registers"
  /\ CCode
  /\ UNCHANGED <<sp, pc, SIE, SPIE, sepc, scause, timerPending, entry>>

HandleSyscall ==
  /\ stage = "handle_syscall"
  /\ \E ret \in SyscallResults(mem[sp].regs["a7"], mem[sp].regs["a0"]) :
       mem' = [mem EXCEPT
         ![sp] = Change(@, [mem[sp].regs EXCEPT !["a0"] = ret], @.sepc + 1)]
  /\ stage' = "restore_registers"
  /\ CCode
  /\ UNCHANGED <<sp, pc, SIE, SPIE, sepc, scause, timerPending, entry>>

(* The string argument is not readable: the handler itself traps.          *)
SyscallFaults ==
  /\ stage = "handle_syscall"
  /\ ReadsString(mem[sp].regs["a7"], mem[sp].regs["a0"])
  /\ TakeTrap(LOAD_ACCESS)

(* Mutant: sstatus is written with interrupts enabled ahead of sret.       *)
RestoreState_EnabledEarly ==
  /\ stage = "restore_registers"
  /\ sepc' = mem[sp].sepc
  /\ SIE' = mem[sp].spie
  /\ SPIE' = mem[sp].spie
  /\ \E v \in Val :
       regs' = [regs EXCEPT !["t0"] = v, !["fcsr"] = mem[sp].regs["fcsr"]]
  /\ stage' = "restore_gpr"
  /\ UNCHANGED <<sp, pc, scause, timerPending, mem, entry>>

(***************************************************************************)
(* restore_registers: sepc, sstatus and fcsr through t0, then the f and x  *)
(* registers, sp last, and sret.                                           *)
(***************************************************************************)
RestoreState ==
  /\ stage = "restore_registers"
  /\ sepc' = mem[sp].sepc
  /\ SIE' = mem[sp].sie
  /\ SPIE' = mem[sp].spie
  /\ \E v \in Val :
       regs' = [regs EXCEPT !["t0"] = v, !["fcsr"] = mem[sp].regs["fcsr"]]
  /\ stage' = "restore_gpr"
  /\ UNCHANGED <<sp, pc, scause, timerPending, mem, entry>>

RestoreRegisters ==
  /\ stage = "restore_gpr"
  /\ regs' = [r \in Reg |-> IF r = "fcsr" THEN regs[r] ELSE mem[sp].regs[r]]
  /\ sp' = mem[sp].sp
  /\ stage' = "sret"
  /\ UNCHANGED <<pc, SIE, SPIE, sepc, scause, timerPending, mem, entry>>

Sret ==
  /\ stage = "sret"
  /\ pc' = sepc
  /\ SIE' = SPIE
  /\ SPIE' = TRUE
  /\ stage' = "main"
  /\ UNCHANGED <<regs, sp, sepc, scause, timerPending, mem, entry>>

TrapPath ==
  \/ SaveRegisters
  \/ SaveState
  \/ Dispatch
  \/ HandleTimer
  \/ HandleBreakpoint
  \/ HandleFatal
  \/ HandleSyscall
  \/ SyscallFaults
  \/ RestoreState
  \/ RestoreRegisters
  \/ Sret

Next ==
  \/ Instruction
  \/ EnableInterrupts
  \/ TimerExpires
  \/ Interrupt
  \/ Exception
  \/ TrapPath

Spec == Init /\ [][Next]_vars

(***************************************************************************)
(* The hart executes one instruction after the other, in the trap path as  *)
(* anywhere else.  The hardware evaluates pending interrupts in bounded    *)
(* time and after every sret, so that other traps cannot keep one waiting. *)
(* The program and the timer need not do anything.                         *)
(***************************************************************************)
Fairness ==
  /\ SF_vars(Interrupt)
  /\ WF_vars(TrapPath)

FairSpec == Spec /\ Fairness

-----------------------------------------------------------------------------

(***************************************************************************)
(* The one frame of the design stays the only copy of the interrupted      *)
(* context: between trap entry and sret no interrupt is taken, although    *)
(* nothing but the sstatus value saved by the assembly, and written back   *)
(* some sixty instructions before sret, keeps interrupts off.              *)
(***************************************************************************)
InterruptsMasked == stage # "main" => ~SIE

(***************************************************************************)
(* Where the program continues: after ebreak and ecall (handlers add 4 to  *)
(* the saved sepc), at the interrupted instruction after an interrupt.     *)
(***************************************************************************)
ResumePc == IF entry.cause = S_TIMER THEN entry.pc ELSE entry.pc + 1

(* Only a system call answers the program, in a0.                          *)
Unchanged(rs, S) ==
  \A r \in S :
    \/ rs[r] = entry.regs[r]
    \/ r = "a0" /\ entry.cause = SUPERVISOR_ECALL

(***************************************************************************)
(* Once the trap returns, the program finds its registers, its stack       *)
(* pointer, its interrupt enable and its next instruction as they were:    *)
(* trap_handler's save and restore_registers' restore are inverse, in      *)
(* spite of what the assembly (t0, t1, a0, ra) and the C code clobber.     *)
(***************************************************************************)
Transparent ==
  [][stage # "main" /\ stage' = "main"
       => /\ Unchanged(regs', Reg)
          /\ sp' = entry.sp
          /\ SIE' = entry.sie
          /\ pc' = ResumePc]_vars

(***************************************************************************)
(* A timer request that finds interrupts enabled is served and withdrawn,  *)
(* unless the program faults for good first: no chain of other traps keeps *)
(* it waiting, since each sret enables interrupts again.                   *)
(***************************************************************************)
InterruptServed ==
  timerPending /\ SIE ~> ~timerPending \/ stage = "halted"

(***************************************************************************)
(* The inductive invariant: what the registers, the frame and the CSRs     *)
(* hold at each stage.  sp tells the trap of the program (frame 1) from    *)
(* the trap of a faulting handler (frame 2), which can only halt.          *)
(***************************************************************************)
Entered ==   \* the CSRs, at the first trap's entry
  sepc = entry.pc /\ scause = entry.cause /\ SPIE = entry.sie

Saved ==   \* the complete frame
  /\ mem[1].regs = entry.regs
  /\ mem[1].sp = 0
  /\ mem[1].sepc = entry.pc
  /\ mem[1].scause = entry.cause
  /\ ~mem[1].sie
  /\ mem[1].spie = entry.sie

Handled ==   \* the frame after the handler's changes to it
  /\ Unchanged(mem[1].regs, Reg)
  /\ mem[1].sp = 0
  /\ mem[1].sepc = ResumePc
  /\ ~mem[1].sie
  /\ mem[1].spie = entry.sie

ContextKept ==
  /\ stage = "main" => sp = 0 /\ pc <= MaxPc
  /\ stage # "main" =>
       /\ entry.sp = 0
       /\ entry.pc <= MaxPc
       /\ entry.cause # S_TIMER => entry.pc < MaxPc
  /\ stage \in {"trap_handler", "save_state", "handle_trap",
               "handle_exception"} =>
       (entry.cause = S_TIMER => entry.sie /\ timerPending)
  /\ stage = "trap_handler" =>
       \/ sp = 0 /\ Entered /\ regs = entry.regs
       \/ sp = 1 /\ scause = LOAD_ACCESS
  /\ stage = "save_state" =>
       \/ /\ sp = 1 /\ Entered
          /\ mem[1].sp = 0
          /\ \A r \in GPR : mem[1].regs[r] = entry.regs[r]
          /\ \A r \in Reg \ GPR : regs[r] = entry.regs[r]
       \/ sp = 2 /\ scause = LOAD_ACCESS
  /\ stage = "handle_trap" =>
       \/ sp = 1 /\ Saved /\ scause = entry.cause
       \/ sp = 2 /\ scause = LOAD_ACCESS /\ mem[2].scause = LOAD_ACCESS
  /\ stage = "handle_exception" =>
       \/ sp = 1 /\ Saved /\ entry.cause # SUPERVISOR_ECALL
       \/ sp = 2 /\ mem[2].scause = LOAD_ACCESS
  /\ stage = "handle_syscall" =>
       sp = 1 /\ Saved /\ entry.cause = SUPERVISOR_ECALL
  /\ stage = "restore_registers" => sp = 1 /\ Handled
  /\ stage = "restore_gpr" =>
       /\ sp = 1 /\ Handled
       /\ sepc = ResumePc /\ SPIE = entry.sie
       /\ regs["fcsr"] = entry.regs["fcsr"]
  /\ stage = "sret" =>
       /\ sp = 0 /\ Unchanged(regs, Reg)
       /\ sepc = ResumePc /\ SPIE = entry.sie

(***************************************************************************)
(* The refinement: while the trap path runs, the program is in the context *)
(* it was interrupted in, and it sees the trap's effect at sret.           *)
(***************************************************************************)
Atomic == INSTANCE AtomicTrap WITH
  regs <- IF stage = "main" THEN regs ELSE entry.regs,
  sp <- IF stage = "main" THEN sp ELSE entry.sp,
  pc <- IF stage = "main" THEN pc ELSE entry.pc,
  sie <- IF stage = "main" THEN SIE ELSE entry.sie,
  halted <- stage = "halted"

(* The whole trap path is one atomic step of the program, or none.         *)
ImplementsAtomicTrap == Atomic!Spec

(***************************************************************************)
(* A call number without a registered handler is refused with -1, as the   *)
(* comment on default_syscall_handler's first argument (the call number)   *)
(* has it.  handle_syscall passes the caller's a0 there instead.           *)
(***************************************************************************)
UnknownSyscallRefused ==
  stage = "restore_registers" /\ entry.cause = SUPERVISOR_ECALL =>
    (entry.regs["a7"] >= 2 => mem[sp].regs["a0"] = MinusOne)

=============================================================================
