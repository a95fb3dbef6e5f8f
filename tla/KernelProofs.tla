---------------------------- MODULE KernelProofs ----------------------------
(***************************************************************************)
(* Theorems about the boot sequence and the timer, for every tick rate,    *)
(* interval and width of the counters.                                     *)
(***************************************************************************)
EXTENDS Kernel, TLAPS

(***************************************************************************)
(* What a stage of the boot puts in place stays there: reboot goes back to *)
(* the first stage without undoing anything.                               *)
(***************************************************************************)
InPlace ==
  /\ main \notin {"_start", "early_uart_init"} => stvec
  /\ main \notin {"_start", "early_uart_init", "clear_bss", "mem_init",
                  "kernel_main"} => FS
  /\ main \notin Boot => handlers = "ready"

KernelInv == TypeOK /\ BootUndisturbed /\ InPlace

LEMMA Remainder == ASSUME NEW n \in Nat PROVE n % W \in Word
  BY KernelAssumption DEF Word

LEMMA Product == ASSUME NEW m \in Nat, NEW n \in Nat PROVE m * n \in Nat
  OBVIOUS

LEMMA InitKernelInv == ASSUME Init PROVE KernelInv
<1>1. 0 \in Word /\ 0 \in Time
  BY KernelAssumption DEF Word, Time
<1>2. QED
  BY <1>1 DEF Init, KernelInv, TypeOK, BootUndisturbed, InPlace, Main, Boot,
              Irq, Stats, NoStats

LEMMA BootKeeps == ASSUME KernelInv, BootStep PROVE KernelInv'
<1> USE DEF KernelInv, TypeOK, BootUndisturbed, InPlace, GoTo, Main, Boot,
          clock, counters
<1>1. NoStats \in Stats /\ 0 \in Word /\ 0 \in Time
  BY KernelAssumption DEF Stats, NoStats, Word, Time
<1>2. CASE MaskInterrupts
  BY <1>2 DEF MaskInterrupts
<1>3. CASE SetTrapVector
  BY <1>3 DEF SetTrapVector
<1>4. CASE ClearBss
  BY <1>1, <1>4 DEF ClearBss
<1>5. CASE MemInit
  BY <1>5 DEF MemInit
<1>6. CASE EnableFpu
  BY <1>6 DEF EnableFpu
<1>7. CASE ExceptionInit
  BY <1>7 DEF ExceptionInit
<1>8. CASE TimerInit
  BY <1>1, <1>8 DEF TimerInit, timer_disable, timer_reset_stats
<1>9. CASE TimerEnable
  BY <1>1, <1>9 DEF TimerEnable, ReadTime
<1>10. CASE FirstDeadline
  BY <1>10, KernelAssumption DEF FirstDeadline, SbiSetTimer, Time
<1>11. CASE SetStie
  BY <1>11 DEF SetStie
<1>12. CASE RegisterSyscalls
  BY <1>12 DEF RegisterSyscalls
<1>13. CASE EnableInterrupts
  BY <1>13 DEF EnableInterrupts
<1>14. QED
  BY <1>2, <1>3, <1>4, <1>5, <1>6, <1>7, <1>8, <1>9, <1>10, <1>11, <1>12,
     <1>13 DEF BootStep

LEMMA CommandKeeps == ASSUME KernelInv, Command PROVE KernelInv'
<1> USE DEF KernelInv, TypeOK, BootUndisturbed, InPlace, GoTo, Main, Boot,
          clock, counters
<1>1. CASE Reboot
  BY <1>1 DEF Reboot
<1>2. CASE Quit
  BY <1>2 DEF Quit
<1>3. CASE RunUserProg
  BY <1>3 DEF RunUserProg
<1>4. CASE UserProgEnds
  BY <1>4 DEF UserProgEnds
<1>5. QED
  BY <1>1, <1>2, <1>3, <1>4 DEF Command

LEMMA CountKeepsTypes ==
  ASSUME KernelInv, CountTick
  PROVE  /\ ticks' \in Word /\ tick_counter' \in Word /\ seconds' \in Word
         /\ stats' \in Stats
<1>1. /\ ticks \in Nat /\ tick_counter \in Nat /\ seconds \in Nat
      /\ stats.total_interrupts \in Nat /\ stats.total_seconds \in Word
  BY DEF KernelInv, TypeOK, Word, Stats
<1>2. ticks' \in Word /\ (stats.total_interrupts + 1) % W \in Word
  BY <1>1, Remainder DEF CountTick
<1>3. seconds' \in Word
  BY <1>1, Remainder DEF CountTick, KernelInv, TypeOK
<1>4. tick_counter' \in Word
  BY <1>1, KernelAssumption DEF CountTick, Word
<1>5. (ticks' * TIMER_TICK_MS) % W \in Word
  <2>1. ticks' * TIMER_TICK_MS \in Nat
    <3>1. ticks' \in Nat
      BY <1>2 DEF Word
    <3>2. QED
      BY <3>1, KernelAssumption, Product
  <2>2. QED
    BY <2>1, Remainder
<1>6. stats' \in Stats
  <2> DEFINE s == IF tick_counter' = 0 THEN seconds' ELSE stats.total_seconds
  <2>1. s \in Word
    BY <1>1, <1>3
  <2>2. stats' = [total_interrupts |-> (stats.total_interrupts + 1) % W,
                  total_seconds |-> s,
                  last_interrupt_time |-> (ticks' * TIMER_TICK_MS) % W]
    BY DEF CountTick
  <2> HIDE DEF s
  <2>3. QED
    BY <1>2, <1>5, <2>1, <2>2 DEF Stats
<1>7. QED
  BY <1>2, <1>3, <1>4, <1>6

LEMMA HandlerKeeps == ASSUME KernelInv, Interrupt \/ HandlerStep PROVE KernelInv'
<1> USE DEF KernelInv, TypeOK, BootUndisturbed, InPlace, Handler, Irq,
          clock, counters
<1>1. 0 \in Time
  BY KernelAssumption DEF Time
<1>2. CASE Interrupt
  BY <1>2 DEF Interrupt
<1>3. CASE CountTick
  BY <1>1, <1>3, CountKeepsTypes DEF CountTick
<1>4. CASE ScheduleNextTick
  BY <1>1, <1>4 DEF ScheduleNextTick, ReadTime
<1>5. CASE NextDeadline
  BY <1>5, KernelAssumption DEF NextDeadline, SbiSetTimer, Time
<1>6. CASE Sret
  BY <1>6 DEF Sret
<1>7. QED
  BY <1>2, <1>3, <1>4, <1>5, <1>6 DEF HandlerStep

LEMMA TimeKeeps == ASSUME KernelInv, TimePasses PROVE KernelInv'
  BY KernelAssumption
     DEF KernelInv, TypeOK, BootUndisturbed, InPlace, TimePasses, Time, Never,
         hart, counters

LEMMA KernelInvStep == ASSUME KernelInv, [Next]_vars PROVE KernelInv'
<1>1. CASE UNCHANGED vars
  BY <1>1 DEF vars, hart, clock, counters, KernelInv, TypeOK, BootUndisturbed,
              InPlace
<1>2. CASE Next
  BY <1>2, BootKeeps, CommandKeeps, HandlerKeeps, TimeKeeps DEF Next
<1>3. QED
  BY <1>1, <1>2

(***************************************************************************)
(* The inductive invariant: what a boot has put in place stays in place,   *)
(* and nothing but the idle loop is interrupted.                           *)
(***************************************************************************)
THEOREM KernelInvariant == Spec => []KernelInv
<1>1. Init => KernelInv
  BY InitKernelInv
<1>2. KernelInv /\ [Next]_vars => KernelInv'
  BY KernelInvStep
<1>3. QED
  BY <1>1, <1>2, PTL DEF Spec

(***************************************************************************)
(* The hart's state, the comparator and timer_handler's counters stay      *)
(* within their types.                                                     *)
(***************************************************************************)
THEOREM TypeCorrect == Spec => []TypeOK
<1>1. KernelInv => TypeOK
  BY DEF KernelInv
<1>2. QED
  BY <1>1, KernelInvariant, PTL

(***************************************************************************)
(* Only the idle loop is ever interrupted: neither the shell nor a boot,   *)
(* be it the first or one that reboot starts.                              *)
(***************************************************************************)
THEOREM BootIsUndisturbed == Spec => []BootUndisturbed
<1>1. KernelInv => BootUndisturbed
  BY DEF KernelInv
<1>2. QED
  BY <1>1, KernelInvariant, PTL

(***************************************************************************)
(* A trap that can be taken finds the vector, the floating-point unit and  *)
(* the handler tables set up.                                              *)
(***************************************************************************)
THEOREM TrapPathIsReady == Spec => []TrapReady
<1>1. KernelInv => TrapReady
  BY DEF KernelInv, BootUndisturbed, InPlace, TrapReady, Boot
<1>2. QED
  BY <1>1, KernelInvariant, PTL

(***************************************************************************)
(* The clock.  Once this boot has armed the comparator, the time since the *)
(* last tick and the time that the comparator still waits make a whole     *)
(* interval, except while the handler is between a tick and the next       *)
(* deadline.  The deadline counts from READ_TIME, which follows the tick.  *)
(***************************************************************************)
Armed ==
  main \in {"set_stie", "register_syscalls", "shell", "user_prog", "exit",
            "halted", "set_sie", "idle"}

ClockInv ==
  /\ main = "sbi_set_timer" => age <= gap
  /\ irq = "sbi_set_timer" => age <= gap
  /\ irq = "timer_handler" => gap = Interval
  /\ Armed /\ irq \in {"none", "sret"} => gap + deadline >= Interval

LEMMA InitClockInv == ASSUME Init PROVE ClockInv
  BY DEF Init, ClockInv, Armed

LEMMA ClockInvStep ==
  ASSUME KernelInv, ClockInv, [Next]_vars PROVE ClockInv'
<1> USE DEF ClockInv, Armed, GoTo, clock, counters, hart
<1>1. /\ age \in Int /\ 0 <= age /\ age <= Interval
      /\ gap \in Int /\ 0 <= gap /\ gap <= Interval
      /\ deadline \in Int /\ 0 <= deadline /\ deadline <= Interval + 1
      /\ Interval \in Nat
  BY KernelAssumption DEF KernelInv, TypeOK, Time, Never
<1>2. main # "idle" => irq = "none" /\ ~SIE
  BY DEF KernelInv, BootUndisturbed
<1>3. CASE UNCHANGED vars
  BY <1>3 DEF vars
<1>4. CASE BootStep
  <2>1. CASE TimerEnable
    BY <1>1, <1>2, <2>1 DEF TimerEnable, ReadTime
  <2>2. CASE FirstDeadline
    BY <1>1, <1>2, <2>2 DEF FirstDeadline, SbiSetTimer
  <2>3. CASE ClearBss
    BY <1>1, <1>2, <2>3 DEF ClearBss
  <2>4. QED
    BY <1>2, <1>4, <2>1, <2>2, <2>3
       DEF BootStep, MaskInterrupts, SetTrapVector, MemInit, EnableFpu,
           ExceptionInit, TimerInit, SetStie, RegisterSyscalls,
           EnableInterrupts
<1>5. CASE Command
  BY <1>2, <1>5 DEF Command, Reboot, Quit, RunUserProg, UserProgEnds
<1>6. CASE Interrupt
  BY <1>1, <1>2, <1>6 DEF Interrupt, Handler
<1>7. CASE HandlerStep
  BY <1>1, <1>2, <1>7 DEF HandlerStep, CountTick, ScheduleNextTick, ReadTime,
                          NextDeadline, SbiSetTimer, Sret, Handler
<1>8. CASE TimePasses
  BY <1>1, <1>8 DEF TimePasses
<1>9. QED
  BY <1>3, <1>4, <1>5, <1>6, <1>7, <1>8 DEF Next

(***************************************************************************)
(* No two ticks, and no boot and its first tick, are less than an interval *)
(* apart, whatever deadline an earlier boot left in the comparator.        *)
(***************************************************************************)
THEOREM ClockNeverFast == Spec => NoEarlyTick
<1>1. Init => ClockInv
  BY InitClockInv
<1>2. KernelInv /\ ClockInv /\ [Next]_vars => ClockInv'
  BY ClockInvStep
<1>3. ClockInv => (ticks' # ticks /\ irq = "timer_handler" => gap = Interval)
  BY DEF ClockInv
<1>4. QED
  BY <1>1, <1>2, <1>3, KernelInvariant, PTL DEF Spec, NoEarlyTick

-----------------------------------------------------------------------------
(***************************************************************************)
(* The counters.  Division with remainder by W, and what it says of sums   *)
(* and products: the solver takes it from here.                            *)
(***************************************************************************)
LEMMA Division ==
  ASSUME NEW n \in Nat
  PROVE  \E q \in Nat : n = W * q + (n % W)
<1>1. W \in Nat /\ W > 0
  BY KernelAssumption
<1>2. n \div W \in Nat /\ n = W * (n \div W) + (n % W)
  BY <1>1, Z3
<1>3. QED
  BY <1>2

LEMMA Congruent ==
  ASSUME NEW a \in Nat, NEW b \in Nat, NEW q \in Nat, a = b + W * q
  PROVE  a % W = b % W
<1>1. PICK s \in Nat : a = W * s + (a % W)
  BY Division
<1>2. PICK t \in Nat : b = W * t + (b % W)
  BY Division
<1>3. /\ a % W \in Nat /\ a % W < W /\ b % W \in Nat /\ b % W < W
      /\ W \in Nat
  BY Remainder, KernelAssumption DEF Word
<1>4. s = t + q
  <2>1. \A k \in Nat : k >= 1 => W * k >= W /\ W * k \in Nat
    BY <1>3, Z3
  <2>2. CASE s > t + q
    <3>1. s - (t + q) \in Nat /\ s - (t + q) >= 1
      BY <2>2
    <3>2. W * (s - (t + q)) >= W
      BY <2>1, <3>1, Zenon
    <3>3. W * (s - (t + q)) = W * s - W * t - W * q
      BY <1>3, Z3
    <3>4. W * s \in Nat /\ W * t \in Nat /\ W * q \in Nat
      BY <1>3, Product
    <3>5. QED
      BY <1>1, <1>2, <1>3, <3>2, <3>3, <3>4
  <2>3. CASE s < t + q
    <3>1. t + q - s \in Nat /\ t + q - s >= 1
      BY <2>3
    <3>2. W * (t + q - s) >= W
      BY <2>1, <3>1, Zenon
    <3>3. W * (t + q - s) = W * t + W * q - W * s
      BY <1>3, Z3
    <3>4. W * s \in Nat /\ W * t \in Nat /\ W * q \in Nat
      BY <1>3, Product
    <3>5. QED
      BY <1>1, <1>2, <1>3, <3>2, <3>3, <3>4
  <2>4. QED
    BY <2>2, <2>3
<1>5. W * s = W * t + W * q
  BY <1>3, <1>4, Z3
<1>6. W * s \in Nat /\ W * t \in Nat /\ W * q \in Nat
  BY <1>3, Product
<1>7. QED
  BY <1>1, <1>2, <1>3, <1>5, <1>6

LEMMA Successor ==
  ASSUME NEW n \in Nat
  PROVE  ((n % W) + 1) % W = (n + 1) % W
<1>1. PICK q \in Nat : n = W * q + (n % W)
  BY Division
<1>2. n % W \in Nat
  BY Remainder DEF Word
<1>3. n + 1 = ((n % W) + 1) + W * q
  <2>1. W * q \in Nat
    BY KernelAssumption, Product
  <2>2. QED
    BY <1>1, <1>2, <2>1
<1>4. QED
  BY <1>2, <1>3, Congruent

LEMMA Multiple ==
  ASSUME NEW m \in Nat, NEW n \in Nat
  PROVE  (m * (n % W)) % W = (m * n) % W
<1>1. PICK q \in Nat : n = W * q + (n % W)
  BY Division
<1>2. n % W \in Nat /\ m * (n % W) \in Nat /\ m * n \in Nat /\ m * q \in Nat
  BY Remainder, Product DEF Word
<1>3. m * n = m * (n % W) + W * (m * q)
  <2>1. W \in Nat /\ n % W \in Nat
    BY <1>2, KernelAssumption
  <2>2. m * (W * q + (n % W)) = m * (n % W) + W * (m * q)
    BY <2>1, Z3
  <2>3. QED
    BY <1>1, <2>2
<1>4. QED
  BY <1>2, <1>3, Congruent

(***************************************************************************)
(* Every boot finds the counters at zero when timer_init resets the        *)
(* statistics: clear_bss has run and nothing is counted before the idle    *)
(* loop.                                                                   *)
(***************************************************************************)
CountInv ==
  /\ Accounting
  /\ main \notin {"_start", "early_uart_init", "clear_bss", "idle"} =>
       ticks = 0 /\ tick_counter = 0 /\ seconds = 0 /\ stats = NoStats

ZeroAccounts ==
  /\ 0 = (TIMER_FREQUENCY_HZ * 0 + 0) % W
  /\ 0 < TIMER_FREQUENCY_HZ
  /\ NoStats = [total_interrupts |-> 0, total_seconds |-> 0,
                last_interrupt_time |-> (0 * TIMER_TICK_MS) % W]

LEMMA Zero == ZeroAccounts
<1>1. 0 % W = 0
  BY KernelAssumption, Z3
<1>2. TIMER_FREQUENCY_HZ * 0 + 0 = 0 /\ 0 * TIMER_TICK_MS = 0
  BY KernelAssumption
<1>3. QED
  BY <1>1, <1>2, KernelAssumption DEF ZeroAccounts, NoStats

LEMMA TickAccounts ==
  ASSUME KernelInv, CountInv, CountTick PROVE CountInv'
<1> DEFINE F == TIMER_FREQUENCY_HZ
<1>1. /\ F \in Nat /\ F > 0 /\ W \in Nat \ {0}
      /\ tick_counter \in Nat /\ seconds \in Nat /\ ticks \in Nat
  BY KernelAssumption DEF KernelInv, TypeOK, Word
<1>2. main = "idle" /\ main' = main
  BY DEF KernelInv, BootUndisturbed, CountTick, Handler
<1>3. /\ ticks = (F * seconds + tick_counter) % W
      /\ tick_counter < F
      /\ stats = [total_interrupts |-> ticks,
                  total_seconds |-> seconds,
                  last_interrupt_time |-> (ticks * TIMER_TICK_MS) % W]
  BY <1>2 DEF CountInv, Accounting
<1>4. F * seconds \in Nat /\ F * (seconds + 1) \in Nat
      /\ F * (seconds + 1) = F * seconds + F
  BY <1>1, Product
<1>5. ticks' = (ticks + 1) % W
  BY DEF CountTick
<1>6. ticks' = (F * seconds + tick_counter + 1) % W
  <2> HIDE DEF F
  <2>1. F * seconds + tick_counter \in Nat
    BY <1>1, <1>4
  <2>2. QED
    BY <1>3, <1>5, <2>1, Successor
<1>7. /\ ticks' = (F * seconds' + tick_counter') % W
      /\ tick_counter' < F
      /\ tick_counter' # 0 => seconds' = seconds
  <2>1. CASE tick_counter + 1 >= F
    <3>1. seconds' = (seconds + 1) % W /\ tick_counter' = 0
      BY <2>1 DEF CountTick
    <3>2. tick_counter + 1 = F
      BY <1>1, <1>3, <2>1
    <3>3. ticks' = (F * (seconds + 1)) % W
      BY <1>1, <1>4, <1>6, <3>2
    <3>4. ticks' = (F * seconds') % W
      <4> HIDE DEF F
      <4>1. seconds + 1 \in Nat
        BY <1>1
      <4>2. QED
        BY <1>1, <3>1, <3>3, <4>1, Multiple
    <3>5. F * seconds' + 0 = F * seconds'
      <4>1. seconds' \in Nat
        BY <1>1, <3>1, Remainder DEF Word
      <4>2. QED
        BY <1>1, <4>1, Product
    <3>6. QED
      BY <1>1, <3>1, <3>4, <3>5
  <2>2. CASE ~(tick_counter + 1 >= F)
    <3>1. tick_counter' = tick_counter + 1 /\ seconds' = seconds
      BY <2>2 DEF CountTick
    <3>2. F * seconds + (tick_counter + 1) = F * seconds + tick_counter + 1
      BY <1>1, <1>4
    <3>3. QED
      BY <1>1, <1>6, <2>2, <3>1, <3>2
  <2>3. QED
    BY <2>1, <2>2
<1>8. stats' = [total_interrupts |-> ticks',
                total_seconds |-> seconds',
                last_interrupt_time |-> (ticks' * TIMER_TICK_MS) % W]
  <2>1. /\ stats.total_interrupts = ticks /\ stats.total_seconds = seconds
    BY <1>3
  <2>2. (IF tick_counter' = 0 THEN seconds' ELSE stats.total_seconds) = seconds'
    BY <1>7, <2>1
  <2>3. QED
    BY <1>5, <2>1, <2>2, Zenon DEF CountTick
<1>9. QED
  BY <1>2, <1>7, <1>8, Zenon DEF CountInv, Accounting

LEMMA CountInvStep ==
  ASSUME KernelInv, CountInv, [Next]_vars PROVE CountInv'
<1>1. CASE UNCHANGED vars \/ TimePasses \/ Interrupt \/ ScheduleNextTick
           \/ NextDeadline \/ Sret
  BY <1>1 DEF vars, hart, counters, TimePasses, Interrupt, ScheduleNextTick,
              NextDeadline, Sret, Handler, CountInv, Accounting
<1>2. CASE CountTick
  BY <1>2, TickAccounts
<1>3. CASE ClearBss \/ TimerInit
  <2>1. /\ main' \in {"mem_init", "timer_enable"}
        /\ ticks' = 0 /\ tick_counter' = 0 /\ seconds' = 0 /\ stats' = NoStats
    BY <1>3 DEF ClearBss, TimerInit, timer_reset_stats, GoTo, CountInv
  <2>2. Accounting'
    BY <2>1, Zero, Zenon DEF ZeroAccounts, Accounting
  <2>3. QED
    BY <2>1, <2>2 DEF CountInv
<1>4. CASE BootStep /\ ~ClearBss /\ ~TimerInit
  BY <1>4 DEF BootStep, MaskInterrupts, SetTrapVector, MemInit, EnableFpu,
              ExceptionInit, TimerEnable, FirstDeadline, SetStie,
              RegisterSyscalls, EnableInterrupts, GoTo, counters, CountInv,
              Accounting
<1>5. CASE Command
  BY <1>5 DEF Command, Reboot, Quit, RunUserProg, UserProgEnds, GoTo,
              counters, CountInv, Accounting
<1>6. QED
  BY <1>1, <1>2, <1>3, <1>4, <1>5 DEF Next, HandlerStep

(***************************************************************************)
(* timer_handler's counters and statistics agree with each other for every *)
(* tick rate and counter width, when each of them wraps around, and in     *)
(* every boot.                                                             *)
(***************************************************************************)
THEOREM CountersAgree == Spec => []Accounting
<1>1. Init => CountInv
  BY DEF Init, CountInv, Accounting
<1>2. KernelInv /\ CountInv /\ [Next]_vars => CountInv'
  BY CountInvStep
<1>3. CountInv => Accounting
  BY DEF CountInv
<1>4. QED
  BY <1>1, <1>2, <1>3, KernelInvariant, PTL DEF Spec

=============================================================================
