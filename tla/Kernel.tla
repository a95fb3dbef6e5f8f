------------------------------- MODULE Kernel -------------------------------
(***************************************************************************)
(* The life of the kernel: boot.S and kernel_main bring the hart up in a   *)
(* fixed order, the shell runs with interrupts disabled and may jump back  *)
(* to _start, and the idle loop after it takes the timer interrupts that   *)
(* timer.c counts.  The registers a trap saves are the subject of module   *)
(* Trap; here a timer interrupt is the sequence of timer_handler's steps.  *)
(*                                                                         *)
(* Time is relative: deadline is the time left until the comparator of the *)
(* firmware fires, age the time since the last READ_TIME, gap the time     *)
(* since the last tick was counted (or since clear_bss).  All three stop   *)
(* at Interval, where nothing in the code tells them apart any more.       *)
(***************************************************************************)
EXTENDS Integers

CONSTANTS
  W,                    \* the counters count modulo W (2^64 in the code)
  TIMER_FREQUENCY_HZ,   \* ticks per second (100 in the code)
  TIMER_TICK_MS,        \* milliseconds per tick (10 in the code)
  Interval              \* g_timer_frequency / TIMER_FREQUENCY_HZ

ASSUME KernelAssumption ==
  /\ W \in Nat \ {0}
  /\ TIMER_FREQUENCY_HZ \in Nat \ {0}
  /\ TIMER_FREQUENCY_HZ < W
  /\ TIMER_TICK_MS \in Nat
  /\ Interval \in Nat \ {0}

Word == 0 .. W-1
Time == 0 .. Interval

(* The comparator before the first SBI call.                               *)
Never == Interval + 1

(***************************************************************************)
(* Where the hart is in the code that is not an interrupt handler: the     *)
(* calls of _start and kernel_main in their order, then the shell.         *)
(***************************************************************************)
Boot ==
  {"_start", "early_uart_init", "clear_bss", "mem_init", "kernel_main",
   "exception_init", "timer_init", "timer_enable", "sbi_set_timer",
   "set_stie", "register_syscalls"}
Main == Boot \cup {"shell", "user_prog", "exit", "halted", "set_sie", "idle"}

(* Where it is in the interrupt handler.                                   *)
Irq == {"none", "timer_handler", "schedule_next_tick", "sbi_set_timer",
        "sret"}

VARIABLES
  main,
  irq,
  a0,             \* what register a0 holds while booting
  stvec,          \* does stvec hold trap_vector?
  FS,             \* is the floating-point unit on (sstatus.FS)?
  handlers,       \* exception_handlers, interrupt_handlers, syscall_handlers
  SIE,            \* sstatus.SIE
  STIE,           \* sie.STIE
  deadline,       \* time left until the comparator fires; 0: sip.STIP is set
  age,            \* time since READ_TIME, in timer_set_next_interrupt
  gap,            \* history: time since the last tick or since clear_bss
  ticks,          \* g_system_ticks
  tick_counter,   \* g_tick_counter
  seconds,        \* g_uptime_seconds
  stats           \* g_timer_stats

hart == <<main, irq, a0, stvec, FS, handlers, SIE, STIE>>
clock == <<deadline, age, gap>>
counters == <<ticks, tick_counter, seconds, stats>>
vars == <<hart, clock, counters>>

Stats == [total_interrupts : Word, total_seconds : Word,
          last_interrupt_time : Word]

TypeOK ==
  /\ main \in Main
  /\ irq \in Irq
  /\ a0 \in {"hart_id", "other"}
  /\ stvec \in BOOLEAN
  /\ FS \in BOOLEAN
  /\ handlers \in {"garbage", "null", "default", "ready"}
  /\ SIE \in BOOLEAN
  /\ STIE \in BOOLEAN
  /\ deadline \in Time \cup {Never}
  /\ age \in Time
  /\ gap \in Time
  /\ ticks \in Word
  /\ tick_counter \in Word
  /\ seconds \in Word
  /\ stats \in Stats

NoStats == [total_interrupts |-> 0, total_seconds |-> 0,
            last_interrupt_time |-> 0]

(***************************************************************************)
(* The firmware enters _start with the hart id in a0 and interrupts        *)
(* disabled.  .bss holds whatever the memory held.                         *)
(***************************************************************************)
Init ==
  /\ main = "_start"
  /\ irq = "none"
  /\ a0 = "hart_id"
  /\ stvec = FALSE
  /\ FS = FALSE
  /\ handlers = "garbage"
  /\ SIE = FALSE
  /\ STIE \in BOOLEAN
  /\ deadline = Never
  /\ age = 0
  /\ gap = 0
  /\ ticks \in Word
  /\ tick_counter \in Word
  /\ seconds \in Word
  /\ stats = NoStats

-----------------------------------------------------------------------------
(***************************************************************************)
(* boot.S.                                                                 *)
(***************************************************************************)

GoTo(from, to) ==
  /\ main = from
  /\ irq = "none"
  /\ main' = to
  /\ UNCHANGED irq

(* sie is cleared; of sip, the code can clear nothing that is set here.    *)
MaskInterrupts ==
  /\ GoTo("_start", "early_uart_init")
  /\ STIE' = FALSE
  /\ UNCHANGED <<a0, stvec, FS, handlers, SIE, clock, counters>>

(* early_uart_init writes "Boot" through t0 and t1; stvec follows.         *)
SetTrapVector ==
  /\ GoTo("early_uart_init", "clear_bss")
  /\ stvec' = TRUE
  /\ UNCHANGED <<a0, FS, handlers, SIE, STIE, clock, counters>>

ClearBss ==
  /\ GoTo("clear_bss", "mem_init")
  /\ handlers' = "null"
  /\ ticks' = 0
  /\ tick_counter' = 0
  /\ seconds' = 0
  /\ stats' = NoStats
  /\ gap' = 0
  /\ UNCHANGED <<a0, stvec, FS, SIE, STIE, deadline, age>>

(* The C function mem_init prints through a0; module Heap has its state.   *)
MemInit ==
  /\ GoTo("mem_init", "kernel_main")
  /\ a0' = "other"
  /\ UNCHANGED <<stvec, FS, handlers, SIE, STIE, clock, counters>>

(***************************************************************************)
(* kernel_main.                                                            *)
(***************************************************************************)

(* Mutant: the floating-point unit stays off.                              *)
EnableFpu_Off ==
  /\ GoTo("kernel_main", "exception_init")
  /\ UNCHANGED <<a0, stvec, FS, handlers, SIE, STIE, clock, counters>>

EnableFpu ==
  /\ GoTo("kernel_main", "exception_init")
  /\ FS' = TRUE
  /\ UNCHANGED <<a0, stvec, handlers, SIE, STIE, clock, counters>>

ExceptionInit ==
  /\ GoTo("exception_init", "timer_init")
  /\ handlers' = "default"
  /\ UNCHANGED <<a0, stvec, FS, SIE, STIE, clock, counters>>

timer_disable == STIE' = FALSE

timer_reset_stats == stats' = NoStats

TimerInit ==
  /\ GoTo("timer_init", "timer_enable")
  /\ timer_disable
  /\ timer_reset_stats
  /\ UNCHANGED <<a0, stvec, FS, handlers, SIE, clock, ticks, tick_counter,
                 seconds>>

(***************************************************************************)
(* timer_set_next_interrupt reads the time and then asks the firmware, in  *)
(* an ecall, for an interrupt Interval after the time it read.             *)
(***************************************************************************)
ReadTime ==
  /\ age' = 0
  /\ UNCHANGED <<deadline, gap>>

SbiSetTimer ==
  /\ deadline' = Interval - age
  /\ UNCHANGED <<age, gap>>

TimerEnable ==
  /\ GoTo("timer_enable", "sbi_set_timer")
  /\ ReadTime
  /\ UNCHANGED <<a0, stvec, FS, handlers, SIE, STIE, counters>>

(* Mutant: timer_enable leaves a comparator that is armed already.         *)
FirstDeadline_Stale ==
  /\ GoTo("sbi_set_timer", "set_stie")
  /\ IF deadline = Never THEN SbiSetTimer ELSE UNCHANGED clock
  /\ UNCHANGED <<a0, stvec, FS, handlers, SIE, STIE, counters>>

FirstDeadline ==
  /\ GoTo("sbi_set_timer", "set_stie")
  /\ SbiSetTimer
  /\ UNCHANGED <<a0, stvec, FS, handlers, SIE, STIE, counters>>

(* Mutant: timer_enable writes back the sie it read.                       *)
SetStie_Masked ==
  /\ GoTo("set_stie", "register_syscalls")
  /\ UNCHANGED <<a0, stvec, FS, handlers, SIE, STIE, clock, counters>>

SetStie ==
  /\ GoTo("set_stie", "register_syscalls")
  /\ STIE' = TRUE
  /\ UNCHANGED <<a0, stvec, FS, handlers, SIE, clock, counters>>

RegisterSyscalls ==
  /\ GoTo("register_syscalls", "shell")
  /\ handlers' = "ready"
  /\ UNCHANGED <<a0, stvec, FS, SIE, STIE, clock, counters>>

(* quit: kernel_main enables interrupts and enters the WFI loop.           *)
EnableInterrupts ==
  /\ GoTo("set_sie", "idle")
  /\ SIE' = TRUE
  /\ UNCHANGED <<a0, stvec, FS, handlers, STIE, clock, counters>>

(***************************************************************************)
(* The shell's commands that change more than the console: reboot jumps to *)
(* _start with whatever is in a0, run calls the user program, which        *)
(* returns, makes the exit call (the gateway handler spins) or faults.     *)
(***************************************************************************)

(* Mutant: reboot also leaves the idle loop.                               *)
Reboot_FromIdle ==
  /\ GoTo("shell", "_start") \/ GoTo("idle", "_start")
  /\ a0' = "other"
  /\ UNCHANGED <<stvec, FS, handlers, SIE, STIE, clock, counters>>

Reboot ==
  /\ GoTo("shell", "_start")
  /\ a0' = "other"
  /\ UNCHANGED <<stvec, FS, handlers, SIE, STIE, clock, counters>>

Quit ==
  /\ GoTo("shell", "set_sie")
  /\ UNCHANGED <<a0, stvec, FS, handlers, SIE, STIE, clock, counters>>

RunUserProg ==
  /\ GoTo("shell", "user_prog")
  /\ UNCHANGED <<a0, stvec, FS, handlers, SIE, STIE, clock, counters>>

UserProgEnds ==
  /\ \E to \in {"shell", "exit", "halted"} : GoTo("user_prog", to)
  /\ UNCHANGED <<a0, stvec, FS, handlers, SIE, STIE, clock, counters>>

-----------------------------------------------------------------------------
(***************************************************************************)
(* The timer interrupt.                                                    *)
(***************************************************************************)

Handler(from, to) ==
  /\ irq = from
  /\ irq' = to
  /\ UNCHANGED main

Interrupt ==
  /\ SIE
  /\ STIE
  /\ deadline = 0
  /\ Handler("none", "timer_handler")
  /\ SIE' = FALSE
  /\ UNCHANGED <<a0, stvec, FS, handlers, STIE, clock, counters>>

(* Mutant: the second is counted one tick late.                            *)
CountTick_OffByOne ==
  /\ Handler("timer_handler", "schedule_next_tick")
  /\ ticks' = (ticks + 1) % W
  /\ IF tick_counter + 1 > TIMER_FREQUENCY_HZ
     THEN /\ seconds' = (seconds + 1) % W
          /\ tick_counter' = 0
     ELSE /\ tick_counter' = tick_counter + 1
          /\ UNCHANGED seconds
  /\ stats' = [total_interrupts |-> (stats.total_interrupts + 1) % W,
               total_seconds |-> seconds',
               last_interrupt_time |-> (ticks' * TIMER_TICK_MS) % W]
  /\ gap' = 0
  /\ UNCHANGED <<a0, stvec, FS, handlers, SIE, STIE, deadline, age>>

(* Mutant: g_tick_counter is not reset.                                    *)
CountTick_NoReset ==
  /\ Handler("timer_handler", "schedule_next_tick")
  /\ ticks' = (ticks + 1) % W
  /\ tick_counter' = tick_counter + 1
  /\ IF tick_counter' >= TIMER_FREQUENCY_HZ
     THEN seconds' = (seconds + 1) % W
     ELSE UNCHANGED seconds
  /\ stats' = [total_interrupts |-> (stats.total_interrupts + 1) % W,
               total_seconds |-> seconds',
               last_interrupt_time |-> (ticks' * TIMER_TICK_MS) % W]
  /\ gap' = 0
  /\ UNCHANGED <<a0, stvec, FS, handlers, SIE, STIE, deadline, age>>

(***************************************************************************)
(* timer_handler's counters.  The uptime in milliseconds is computed from  *)
(* the tick just counted.                                                  *)
(***************************************************************************)
CountTick ==
  /\ Handler("timer_handler", "schedule_next_tick")
  /\ ticks' = (ticks + 1) % W
  /\ IF tick_counter + 1 >= TIMER_FREQUENCY_HZ
     THEN /\ seconds' = (seconds + 1) % W
          /\ tick_counter' = 0
     ELSE /\ tick_counter' = tick_counter + 1
          /\ UNCHANGED seconds
  /\ stats' = [total_interrupts |-> (stats.total_interrupts + 1) % W,
               total_seconds |-> IF tick_counter' = 0
                                 THEN seconds'
                                 ELSE stats.total_seconds,
               last_interrupt_time |-> (ticks' * TIMER_TICK_MS) % W]
  /\ gap' = 0
  /\ UNCHANGED <<a0, stvec, FS, handlers, SIE, STIE, deadline, age>>

ScheduleNextTick ==
  /\ Handler("schedule_next_tick", "sbi_set_timer")
  /\ ReadTime
  /\ UNCHANGED <<a0, stvec, FS, handlers, SIE, STIE, counters>>

NextDeadline ==
  /\ Handler("sbi_set_timer", "sret")
  /\ SbiSetTimer
  /\ UNCHANGED <<a0, stvec, FS, handlers, SIE, STIE, counters>>

Sret ==
  /\ Handler("sret", "none")
  /\ SIE' = TRUE
  /\ UNCHANGED <<a0, stvec, FS, handlers, STIE, clock, counters>>

-----------------------------------------------------------------------------

(* One unit of time passes, while the hart is anywhere.                    *)
TimePasses ==
  /\ deadline' = IF deadline \in 1 .. Interval THEN deadline - 1 ELSE deadline
  /\ age' = IF age < Interval THEN age + 1 ELSE age
  /\ gap' = IF gap < Interval THEN gap + 1 ELSE gap
  /\ UNCHANGED <<hart, counters>>

BootStep ==
  \/ MaskInterrupts
  \/ SetTrapVector
  \/ ClearBss
  \/ MemInit
  \/ EnableFpu
  \/ ExceptionInit
  \/ TimerInit
  \/ TimerEnable
  \/ FirstDeadline
  \/ SetStie
  \/ RegisterSyscalls
  \/ EnableInterrupts

Command ==
  \/ Reboot
  \/ Quit
  \/ RunUserProg
  \/ UserProgEnds

HandlerStep ==
  \/ CountTick
  \/ ScheduleNextTick
  \/ NextDeadline
  \/ Sret

Next ==
  \/ BootStep
  \/ Command
  \/ Interrupt
  \/ HandlerStep
  \/ TimePasses

Spec == Init /\ [][Next]_vars

(***************************************************************************)
(* The hart executes its instructions, time passes, and the hardware takes *)
(* an interrupt that stays pending and enabled.  Nobody has to type a      *)
(* command.                                                                *)
(***************************************************************************)
Fairness ==
  /\ WF_vars(BootStep)
  /\ WF_vars(HandlerStep)
  /\ WF_vars(Interrupt)
  /\ WF_vars(TimePasses)

FairSpec == Spec /\ Fairness

-----------------------------------------------------------------------------

(***************************************************************************)
(* Whenever a trap can be taken (an interrupt, or an exception of the      *)
(* shell's exception command or of the user program) the trap path is set  *)
(* up: stvec, the floating-point unit its fsd instructions need and the    *)
(* handler tables.  reboot clears the tables with the vector in place.     *)
(***************************************************************************)
TrapReady ==
  (SIE /\ STIE) \/ main \in {"shell", "user_prog"}
    => stvec /\ FS /\ handlers = "ready"

(***************************************************************************)
(* _start masks interrupts in sie but never touches sstatus.SIE: that no   *)
(* interrupt disturbs the boot relies on reboot being a command of the     *)
(* shell, which runs before sstatus.SIE is set for good.                   *)
(***************************************************************************)
BootUndisturbed == main # "idle" => ~SIE /\ irq = "none"

(***************************************************************************)
(* g_system_ticks = 100 * g_uptime_seconds + g_tick_counter, across wraps  *)
(* of the 64-bit counters, and g_timer_stats agrees with them, once        *)
(* clear_bss has run.                                                      *)
(***************************************************************************)
Accounting ==
  main \notin {"_start", "early_uart_init", "clear_bss"} =>
    /\ ticks = (TIMER_FREQUENCY_HZ * seconds + tick_counter) % W
    /\ tick_counter < TIMER_FREQUENCY_HZ
    /\ stats = [total_interrupts |-> ticks,
                total_seconds |-> seconds,
                last_interrupt_time |-> (ticks * TIMER_TICK_MS) % W]

(***************************************************************************)
(* The uptime never runs fast: at least one interval passes before each    *)
(* tick, also between clear_bss and the first tick of a boot that finds    *)
(* the comparator of an earlier boot expired.                              *)
(***************************************************************************)
NoEarlyTick == [][ticks' # ticks /\ irq = "timer_handler" => gap = Interval]_vars

(***************************************************************************)
(* Once idle, the clock never stops: every tick is followed by another,    *)
(* which takes the handler to have armed the comparator again.             *)
(***************************************************************************)
TicksForever ==
  \A n \in Word : (main = "idle" /\ ticks = n) ~> (ticks # n)

(***************************************************************************)
(* boot.S says that nothing has changed a0 since the firmware entered      *)
(* _start, so that kernel_main gets the hart id.  mem_init changes it.     *)
(***************************************************************************)
HartIdPassed == main = "kernel_main" => a0 = "hart_id"

=============================================================================
