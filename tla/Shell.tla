------------------------------- MODULE Shell -------------------------------
(***************************************************************************)
(* The interactive shell of src/src/entry.c and the two line readers it is *)
(* built with: dw_uart_gets and, for a PL011, generic_uart_gets.  Keys wait*)
(* in the receiver's FIFO, each is read and echoed by one iteration of the *)
(* reader, and the completed line is trimmed and looked up.  screen is what*)
(* a terminal makes of the characters sent.                                *)
(***************************************************************************)
EXTENDS Integers, Sequences

CONSTANTS
  Key,        \* the keys pressed: characters of one column, Erase, Enter
  Size,       \* sizeof(cmd_buffer)
  Stale,      \* what the stack may hold where cmd_buffer comes to lie
  Prompt,     \* "testos> "
  RxDepth,    \* the keys the receiver holds
  MaxKeys     \* bound: the keys pressed

NUL == "NUL"
Erase == {"BS", "DEL"}
Enter == {"\r", "\n"}
Blank == {" ", "\t"}
Index == 0 .. Size-1
Buffer == [Index -> Key \cup {NUL}]

ASSUME ShellAssumption ==
  /\ Size \in Nat /\ Size > 1
  /\ Key \in SUBSET STRING /\ {NUL, "\t"} \cap Key = {}
  /\ Prompt \in Seq(STRING)
  /\ \A k \in 1 .. Len(Prompt) : Prompt[k] \notin Erase \cup Enter
  /\ Stale \subseteq Buffer
  /\ RxDepth \in Nat \ {0} /\ MaxKeys \in Nat

VARIABLES
  driver,   \* the reader that the build selects
  stage,    \* where the hart is
  rx,       \* the receiver's FIFO
  buf,      \* cmd_buffer
  i,        \* the reader's i, then the shell's len
  screen,   \* the terminal's current row and its column
  keys,     \* history: the keys read
  given     \* history: the commands that process_command looked up

vars == <<driver, stage, rx, buf, i, screen, keys, given>>

(* What the first n elements of the buffer hold.                           *)
Text(n) == [k \in 1 .. n |-> buf[k - 1]]

(* The C string in buffer b.                                               *)
CString(b) ==
  LET n == CHOOSE n \in Index : b[n] = NUL /\ \A k \in 0 .. n-1 : b[k] # NUL
  IN [k \in 1 .. n |-> b[k - 1]]

Terminated(b) == \E n \in Index : b[n] = NUL

TypeOK ==
  /\ driver \in {"dw", "pl011"}
  /\ stage \in {"boot", "prompt", "gets", "command", "idle"}
  /\ rx \in Seq(Key) /\ Len(rx) <= RxDepth
  /\ buf \in Buffer
  /\ i \in Index
  /\ screen.col \in Nat /\ screen.col <= Len(screen.row)
  /\ keys \in Seq(Key)
  /\ stage = "command" => Terminated(buf)

-----------------------------------------------------------------------------

Blanks(n) == [k \in 1 .. n |-> " "]

(* The terminal receives one character.                                    *)
Show(s, c) ==
  CASE c = "\r" -> [s EXCEPT !.col = 0]
    [] c = "\n" -> [s EXCEPT !.row = Blanks(s.col)]
    [] c = "BS" -> [s EXCEPT !.col = IF s.col = 0 THEN 0 ELSE s.col - 1]
    [] OTHER ->
         [row |-> SubSeq(s.row, 1, s.col) \o <<c>>
                    \o SubSeq(s.row, s.col + 2, Len(s.row)),
          col |-> s.col + 1]

ShowAll(s, text) ==
  LET shown[n \in 0 .. Len(text)] ==
        IF n = 0 THEN s ELSE Show(shown[n-1], text[n])
  IN shown[Len(text)]

(* dw_uart_putchar sends "\r" before "\n"; pl011_putchar sends c only.     *)
putchar(s, c) ==
  IF driver = "dw" /\ c = "\n" THEN ShowAll(s, <<"\r", "\n">>) ELSE Show(s, c)

(* dw echoes the key that ends a line before it sends "\n", pl011 sends "\r".*)
EchoOfEnter(k) == IF driver = "dw" THEN k ELSE "\r"

Rubbed(s) == ShowAll(s, <<"BS", " ", "BS">>)

-----------------------------------------------------------------------------

Init ==
  /\ driver \in {"dw", "pl011"}
  /\ stage = "boot"
  /\ rx = <<>>
  /\ buf \in Stale
  /\ i = 0
  /\ screen = [row |-> <<>>, col |-> 0]
  /\ keys = <<>>
  /\ given = <<>>

(* A key pressed while the receiver is full is lost: nothing holds it.     *)
Press ==
  /\ Len(rx) < RxDepth
  /\ Len(keys) + Len(rx) < MaxKeys
  /\ \E k \in Key : rx' = Append(rx, k)
  /\ UNCHANGED <<driver, stage, buf, i, screen, keys, given>>

(***************************************************************************)
(* The boot, of which the shell's stack frame and the keys typed ahead are *)
(* left: the receiver is not initialised again.                            *)
(***************************************************************************)
Boot ==
  /\ stage = "boot"
  /\ stage' = "prompt"
  /\ buf' \in Stale
  /\ UNCHANGED <<driver, rx, i, screen, keys, given>>

(* What was printed since the last line ends in "\r\n".                    *)
ShowPrompt ==
  /\ stage = "prompt"
  /\ stage' = "gets"
  /\ i' = 0
  /\ screen' = ShowAll([row |-> <<>>, col |-> 0], Prompt)
  /\ UNCHANGED <<driver, rx, buf, keys, given>>

-----------------------------------------------------------------------------

(* The loop continues while i < buffer_size - 1.                           *)
Reading_WholeBuffer == stage = "gets" /\ i <= Size - 1

Reading == stage = "gets" /\ i < Size - 1

(* getchar: a key of the set leaves the receiver.                          *)
GetChar(set) ==
  /\ rx # <<>>
  /\ Head(rx) \in set
  /\ rx' = Tail(rx)
  /\ keys' = Append(keys, Head(rx))

(* Mutant: the erase sequence is sent for an empty line too.               *)
EraseKey_Always ==
  /\ Reading
  /\ GetChar(Erase)
  /\ i' = IF i > 0 THEN i - 1 ELSE i
  /\ screen' = Rubbed(screen)
  /\ UNCHANGED <<driver, stage, buf, given>>

EraseKey ==
  /\ Reading
  /\ GetChar(Erase)
  /\ IF i > 0
     THEN i' = i - 1 /\ screen' = Rubbed(screen)
     ELSE UNCHANGED <<i, screen>>
  /\ UNCHANGED <<driver, stage, buf, given>>

(* Mutant: the terminator is written one byte too far.                     *)
EnterKey_OffByOne ==
  /\ Reading
  /\ GetChar(Enter)
  /\ stage' = "command"
  /\ buf' = [buf EXCEPT ![i + 1] = NUL]
  /\ screen' = putchar(putchar(screen, "\r"), "\n")
  /\ UNCHANGED <<driver, i, given>>

EnterKey ==
  /\ Reading
  /\ GetChar(Enter)
  /\ stage' = "command"
  /\ buf' = [buf EXCEPT ![i] = NUL]
  /\ screen' = putchar(putchar(screen, EchoOfEnter(Head(rx))), "\n")
  /\ UNCHANGED <<driver, i, given>>

CharKey ==
  /\ Reading
  /\ GetChar(Key \ (Erase \cup Enter))
  /\ buf' = [buf EXCEPT ![i] = Head(rx)]
  /\ i' = i + 1
  /\ screen' = putchar(screen, Head(rx))
  /\ UNCHANGED <<driver, stage, given>>

(* Mutant: the reader waits for Enter although the buffer is full.         *)
Full_Waits ==
  /\ stage = "gets"
  /\ i = Size - 1
  /\ rx # <<>>
  /\ Head(rx) \in Enter
  /\ buf' = [buf EXCEPT ![i] = NUL]
  /\ stage' = "command"
  /\ UNCHANGED <<driver, rx, i, screen, keys, given>>

(* The buffer is full: the line ends without Enter.                        *)
Full ==
  /\ stage = "gets"
  /\ ~Reading
  /\ buf' = [buf EXCEPT ![i] = NUL]
  /\ stage' = "command"
  /\ UNCHANGED <<driver, rx, i, screen, keys, given>>

-----------------------------------------------------------------------------

(* The shell's loop over trailing blanks: len goes down to n.              *)
TrimmedLen ==
  CHOOSE n \in 0 .. i :
    /\ \A k \in n .. i-1 : buf[k] \in Blank
    /\ n > 0 => buf[n-1] \notin Blank

Trim ==
  [k \in Index |-> IF k \in TrimmedLen .. i-1 THEN NUL ELSE buf[k]]

RebootCommand == {<<"r">>, <<"r", "e", "b", "o", "o", "t">>}
QuitCommand == {<<"q">>, <<"q", "u", "i", "t">>}

(* process_command: only reboot and quit leave the loop.                   *)
StageAfter(cmd) ==
  CASE cmd \in RebootCommand -> "boot"
    [] cmd \in QuitCommand -> "idle"
    [] OTHER -> "prompt"

(* An empty line is not looked up.                                         *)
RunCommand ==
  /\ stage = "command"
  /\ IF i = 0
     THEN stage' = "prompt" /\ UNCHANGED <<buf, i, given>>
     ELSE LET cmd == CString(Trim) IN
            /\ buf' = Trim
            /\ i' = TrimmedLen
            /\ given' = IF cmd = <<>> THEN given ELSE Append(given, cmd)
            /\ stage' = StageAfter(cmd)
  /\ UNCHANGED <<driver, rx, screen, keys>>

ShellStep ==
  Boot \/ ShowPrompt \/ EraseKey \/ EnterKey \/ CharKey \/ Full \/ RunCommand

Next == Press \/ ShellStep

(* The hart runs the shell whenever it can; nobody has to press a key.     *)
Spec == Init /\ [][Next]_vars /\ WF_vars(ShellStep)

-----------------------------------------------------------------------------

(***************************************************************************)
(* The row of the terminal shows the prompt and the line that Enter would  *)
(* give, and nothing else: erasing takes exactly what was echoed off the   *)
(* screen and never touches the prompt, in either reader.                  *)
(***************************************************************************)
ScreenShowsLine ==
  stage = "gets" =>
    /\ screen.col = Len(Prompt) + i
    /\ SubSeq(screen.row, 1, screen.col) = Prompt \o Text(i)
    /\ \A k \in screen.col + 1 .. Len(screen.row) : screen.row[k] = " "

(***************************************************************************)
(* process_command gets exactly the lines typed, in order, whatever the    *)
(* buffer held before, through erasures, lines that fill the buffer, and   *)
(* reboots with keys typed ahead.                                          *)
(***************************************************************************)
Line ==
  CASE stage = "gets" -> Text(i)
    [] stage = "command" -> IF i = 0 THEN <<>> ELSE CString(buf)
    [] OTHER -> <<>>

L == INSTANCE LineEditor WITH
       line <- Line, complete <- (stage = "command"), Limit <- Size - 1

ImplementsLineEditor == L!Spec

(***************************************************************************)
(* Every key that the receiver took is read, unless the shell was left: no *)
(* line, however long, makes the reader stop reading.                      *)
(***************************************************************************)
EveryKeyRead ==
  \A n \in 1 .. MaxKeys :
    Len(keys) + Len(rx) >= n ~> (Len(keys) >= n \/ stage = "idle")

=============================================================================
