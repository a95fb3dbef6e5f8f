------------------------------ MODULE Console ------------------------------
(***************************************************************************)
(* The serial console once kernel_main has enabled interrupts: its last    *)
(* messages, and those that handle_exception and timer_handler print at a  *)
(* timer interrupt, go through the same polling dw_uart_putchar into the   *)
(* transmitter's FIFO.  Each poll and each write is a step, and the        *)
(* interrupt comes between any two steps of kernel_main; the handler runs  *)
(* with interrupts masked.                                                 *)
(***************************************************************************)
EXTENDS Integers, Sequences

CONSTANTS
  Char,       \* the characters
  MainText,   \* what kernel_main prints after setting sstatus.SIE
  IrqText,    \* what one interrupt prints
  Depth,      \* the characters the transmitter holds
  MaxIrqs     \* bound: the number of interrupts

(***************************************************************************)
(* The kernel leaves the FIFO as the firmware set it up (uart_init is not  *)
(* called), and needs it to hold two characters: see NothingLost.          *)
(***************************************************************************)
ASSUME ConsoleAssumption ==
  /\ "\r" \in Char
  /\ MainText \in Seq(Char) /\ IrqText \in Seq(Char)
  /\ Depth \in Nat /\ Depth >= 2
  /\ MaxIrqs \in Nat

Context == {"kernel_main", "handler"}

Text == [c \in Context |-> IF c = "handler" THEN IrqText ELSE MainText]

VARIABLES
  running,   \* the context that executes
  pos,       \* per context: the character it prints next
  cr,        \* per context: has it sent the '\r' before this '\n'?
  ready,     \* per context: did its last poll of LSR find THRE set?
  irqs,      \* the number of interrupts so far
  fifo,      \* the transmitter
  wire,      \* what has left it
  lost       \* history: was a character written to a full transmitter?

vars == <<running, pos, cr, ready, irqs, fifo, wire, lost>>

(* A character with its origin: 0 for kernel_main, n for interrupt n.      *)
Sent == [from : Nat, char : Char]

TypeOK ==
  /\ running \in Context
  /\ pos \in [Context -> Nat \ {0}]
  /\ cr \in [Context -> BOOLEAN]
  /\ ready \in [Context -> BOOLEAN]
  /\ irqs \in Nat
  /\ fifo \in Seq(Sent)
  /\ wire \in Seq(Sent)
  /\ lost \in BOOLEAN
  /\ \A c \in Context : pos[c] <= Len(Text[c]) + 1

Init ==
  /\ running = "kernel_main"
  /\ pos = [c \in Context |-> 1]
  /\ cr = [c \in Context |-> FALSE]
  /\ ready = [c \in Context |-> FALSE]
  /\ irqs = 0
  /\ fifo = <<>>
  /\ wire = <<>>
  /\ lost = FALSE

(* Mutant: the handler runs with interrupts enabled, kernel_main resumes.  *)
Printing_Preempted(c) ==
  /\ pos[c] <= Len(Text[c])
  /\ c = "handler" => irqs > 0

Printing(c) == running = c /\ pos[c] <= Len(Text[c])

(* Mutant: putchar does not wait.                                          *)
Poll_NoWait(c) ==
  /\ Printing(c)
  /\ ~ready[c]
  /\ ready' = [ready EXCEPT ![c] = TRUE]
  /\ UNCHANGED <<running, pos, cr, irqs, fifo, wire, lost>>

(***************************************************************************)
(* dw_uart_tx_ready: THRE says that the transmitter is empty.  A poll that *)
(* finds it occupied is repeated.                                          *)
(***************************************************************************)
Poll(c) ==
  /\ Printing(c)
  /\ ~ready[c]
  /\ fifo = <<>>
  /\ ready' = [ready EXCEPT ![c] = TRUE]
  /\ UNCHANGED <<running, pos, cr, irqs, fifo, wire, lost>>

(***************************************************************************)
(* The write to THR that follows: of '\n' in two characters.               *)
(***************************************************************************)
Put(c, char) ==
  IF Len(fifo) < Depth
  THEN /\ fifo' = Append(fifo, [from |-> IF c = "handler" THEN irqs ELSE 0,
                                char |-> char])
       /\ UNCHANGED lost
  ELSE /\ lost' = TRUE
       /\ UNCHANGED fifo

WriteCR(c) ==
  /\ Printing(c)
  /\ ready[c]
  /\ Text[c][pos[c]] = "\n"
  /\ ~cr[c]
  /\ Put(c, "\r")
  /\ cr' = [cr EXCEPT ![c] = TRUE]
  /\ ready' = [ready EXCEPT ![c] = FALSE]
  /\ UNCHANGED <<running, pos, irqs, wire>>

(* Mutant: '\n' may go out without '\r'.                                    *)
WriteChar_NoCR(c) ==
  /\ Printing(c)
  /\ ready[c]
  /\ Put(c, Text[c][pos[c]])
  /\ pos' = [pos EXCEPT ![c] = @ + 1]
  /\ cr' = [cr EXCEPT ![c] = FALSE]
  /\ ready' = [ready EXCEPT ![c] = FALSE]
  /\ UNCHANGED <<running, irqs, wire>>

(* Mutant: the string is advanced by the characters sent, '\r' included.    *)
WriteChar_AdvancesCR(c) ==
  /\ Printing(c)
  /\ ready[c]
  /\ Text[c][pos[c]] = "\n" => cr[c]
  /\ Put(c, Text[c][pos[c]])
  /\ pos' = [pos EXCEPT ![c] = IF cr[c] THEN @ + 2 ELSE @ + 1]
  /\ cr' = [cr EXCEPT ![c] = FALSE]
  /\ ready' = [ready EXCEPT ![c] = FALSE]
  /\ UNCHANGED <<running, irqs, wire>>

WriteChar(c) ==
  /\ Printing(c)
  /\ ready[c]
  /\ Text[c][pos[c]] = "\n" => cr[c]
  /\ Put(c, Text[c][pos[c]])
  /\ pos' = [pos EXCEPT ![c] = @ + 1]
  /\ cr' = [cr EXCEPT ![c] = FALSE]
  /\ ready' = [ready EXCEPT ![c] = FALSE]
  /\ UNCHANGED <<running, irqs, wire>>

Interrupt ==
  /\ running = "kernel_main"
  /\ irqs < MaxIrqs
  /\ irqs' = irqs + 1
  /\ running' = "handler"
  /\ pos' = [pos EXCEPT !["handler"] = 1]
  /\ UNCHANGED <<cr, ready, fifo, wire, lost>>

(* Mutant: the handler waits for a character after the end of its text.    *)
Return_Waits ==
  /\ running = "handler"
  /\ pos["handler"] > Len(IrqText) + 1
  /\ running' = "kernel_main"
  /\ UNCHANGED <<pos, cr, ready, irqs, fifo, wire, lost>>

Return ==
  /\ running = "handler"
  /\ pos["handler"] > Len(IrqText)
  /\ running' = "kernel_main"
  /\ UNCHANGED <<pos, cr, ready, irqs, fifo, wire, lost>>

(* The UART shifts a character out.                                        *)
Transmit ==
  /\ fifo # <<>>
  /\ wire' = Append(wire, Head(fifo))
  /\ fifo' = Tail(fifo)
  /\ UNCHANGED <<running, pos, cr, ready, irqs, lost>>

Hart ==
  \/ \E c \in Context : Poll(c)
  \/ \E c \in Context : WriteCR(c)
  \/ \E c \in Context : WriteChar(c)
  \/ Return

Next ==
  \/ Hart
  \/ Interrupt
  \/ Transmit

Spec == Init /\ [][Next]_vars

(* The hart runs and the UART transmits; interrupts need not come.         *)
Fairness == WF_vars(Hart) /\ WF_vars(Transmit)

FairSpec == Spec /\ Fairness

-----------------------------------------------------------------------------

Output == wire \o fifo

(***************************************************************************)
(* The reference: what printing a text means, written as one function of   *)
(* the text instead of polls and writes.                                   *)
(***************************************************************************)
Rendered(text) ==
  LET out[n \in 0 .. Len(text)] ==
        IF n = 0 THEN <<>>
        ELSE out[n - 1] \o (IF text[n] = "\n" THEN <<"\r", "\n">>
                                              ELSE <<text[n]>>)
  IN out[Len(text)]

(* What was printed with origin n.                                         *)
CharsOf(out, n) ==
  LET part[k \in 0 .. Len(out)] ==
        IF k = 0 THEN <<>>
        ELSE IF out[k].from = n THEN Append(part[k - 1], out[k].char)
        ELSE part[k - 1]
  IN part[Len(out)]

From(n) == CharsOf(Output, n)

IsPrefixOf(s, t) == Len(s) <= Len(t) /\ s = SubSeq(t, 1, Len(s))

(***************************************************************************)
(* Between the poll and the write of kernel_main an interrupt may print a  *)
(* whole message, so that the write finds the transmitter occupied by the  *)
(* last character of it: a transmitter of two characters suffices, and no  *)
(* character of either is ever dropped.                                    *)
(***************************************************************************)
NothingLost == ~lost

(* What each context printed comes out in its order, newlines rendered.    *)
InOrder ==
  /\ IsPrefixOf(From(0), Rendered(MainText))
  /\ \A n \in 1 .. irqs :
       /\ IsPrefixOf(From(n), Rendered(IrqText))
       /\ n < irqs => From(n) = Rendered(IrqText)

(***************************************************************************)
(* An interrupt's message comes out in one piece, although kernel_main's   *)
(* may be cut anywhere, even between '\r' and '\n'.                        *)
(***************************************************************************)
HandlerUninterrupted ==
  \A i, j \in DOMAIN Output :
    /\ i < j
    /\ Output[i].from = Output[j].from
    /\ Output[i].from # 0
    => \A k \in i .. j : Output[k].from = Output[i].from

(***************************************************************************)
(* Once the interrupts stop, everything printed reaches the wire.          *)
(***************************************************************************)
AllDelivered ==
  <>[](/\ wire = Output
       /\ From(0) = Rendered(MainText))

=============================================================================
