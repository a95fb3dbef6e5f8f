----------------------------- MODULE LineEditor -----------------------------
(***************************************************************************)
(* What somebody at the serial console relies on: a key adds a character   *)
(* to the line, an erase key takes the last one back, Enter or the key     *)
(* that makes Limit characters completes the line, and a completed line    *)
(* is given to the command interpreter without its trailing blanks.        *)
(* Module Shell implements this specification.                             *)
(***************************************************************************)
EXTENDS Integers, Sequences

CONSTANTS Key, Erase, Enter, Blank, Limit

VARIABLES
  keys,       \* the keys read, in order
  line,       \* the line
  complete,   \* is it complete?
  given       \* the commands given to the interpreter, in order

vars == <<keys, line, complete, given>>

Trimmed(text) ==
  SubSeq(text, 1,
         CHOOSE n \in 0 .. Len(text) :
           /\ \A k \in n+1 .. Len(text) : text[k] \in Blank
           /\ n > 0 => text[n] \notin Blank)

Init == keys = <<>> /\ line = <<>> /\ complete = FALSE /\ given = <<>>

Edited(k) ==
  IF k \notin Erase THEN Append(line, k)
  ELSE IF line = <<>> THEN line
  ELSE SubSeq(line, 1, Len(line) - 1)

ReadKey ==
  /\ ~complete
  /\ Len(line) < Limit
  /\ \E k \in Key :
       /\ keys' = Append(keys, k)
       /\ complete' = (k \in Enter)
       /\ line' = IF k \in Enter THEN line ELSE Edited(k)
  /\ UNCHANGED given

Full ==
  /\ ~complete
  /\ Len(line) = Limit
  /\ complete' = TRUE
  /\ UNCHANGED <<keys, line, given>>

(* A line of blanks is no command.                                         *)
Give ==
  /\ complete
  /\ given' = IF Trimmed(line) = <<>> THEN given ELSE Append(given, Trimmed(line))
  /\ line' = <<>>
  /\ complete' = FALSE
  /\ UNCHANGED keys

Next == ReadKey \/ Full \/ Give

Spec == Init /\ [][Next]_vars

=============================================================================
