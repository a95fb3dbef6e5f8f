---------------------------- MODULE ConsoleProofs ----------------------------
(***************************************************************************)
(* Theorems about the console, for all texts, every number of interrupts   *)
(* and every transmitter of two characters or more.                        *)
(***************************************************************************)
EXTENDS Console, Basics

(***************************************************************************)
(* What a successful poll is still worth when the write comes.  Nobody     *)
(* writes between the handler's poll and its write.  Between those of      *)
(* kernel_main the handler may, but only into a transmitter it has found   *)
(* empty: at most one of its characters is left when it returns.           *)
(***************************************************************************)
PollsHold ==
  /\ ready["handler"] =>
       /\ running = "handler"
       /\ pos["handler"] <= Len(IrqText)
       /\ Len(fifo) = 0
  /\ ready["kernel_main"] => Len(fifo) <= 1

ConsoleInv == TypeOK /\ NothingLost /\ PollsHold

LEMMA InitConsoleInv == ASSUME Init PROVE ConsoleInv
<1>1. /\ Len(IrqText) \in Nat /\ Len(MainText) \in Nat
      /\ \A c \in Context : 1 <= Len(Text[c]) + 1
  BY ConsoleAssumption DEF Text, Context
<1>2. <<>> \in Seq(Sent) /\ Len(<<>>) = 0
  OBVIOUS
<1>3. TypeOK
  <2>1. \A c \in Context : pos[c] = 1
    BY DEF Init
  <2>2. /\ pos \in [Context -> Nat \ {0}]
        /\ cr \in [Context -> BOOLEAN]
        /\ ready \in [Context -> BOOLEAN]
    BY DEF Init
  <2>3. /\ running \in Context /\ irqs \in Nat
        /\ fifo \in Seq(Sent) /\ wire \in Seq(Sent)
        /\ lost \in BOOLEAN
    BY <1>2 DEF Init, Context
  <2>4. QED
    BY <1>1, <2>1, <2>2, <2>3 DEF TypeOK
<1>4. NothingLost /\ PollsHold
  <2>1. \A c \in Context : ready[c] = FALSE
    BY DEF Init
  <2>2. ready["handler"] = FALSE /\ ready["kernel_main"] = FALSE
    BY <2>1 DEF Context
  <2>3. QED
    BY <2>2 DEF Init, NothingLost, PollsHold
<1>5. QED
  BY <1>3, <1>4 DEF ConsoleInv

LEMMA PollKeeps ==
  ASSUME ConsoleInv, NEW c \in Context, Poll(c) PROVE ConsoleInv'
  BY DEF ConsoleInv, TypeOK, NothingLost, PollsHold, Context, Text, Poll,
         Printing

(* The character at a context's position is a character of its text.       *)
LEMMA NextChar ==
  ASSUME ConsoleInv, NEW c \in Context, Printing(c)
  PROVE  Text[c][pos[c]] \in Char
<1>1. Text[c] \in Seq(Char)
  BY ConsoleAssumption DEF Text
<1>2. pos[c] \in 1 .. Len(Text[c])
  BY <1>1 DEF ConsoleInv, TypeOK, Printing
<1>3. QED
  BY <1>1, <1>2

LEMMA PutKeeps ==
  ASSUME ConsoleInv, NEW c \in Context, NEW char \in Char,
         ready[c], Put(c, char)
  PROVE  /\ fifo' \in Seq(Sent)
         /\ lost' = FALSE
         /\ c = "handler" => Len(fifo') <= 1
<1>1. fifo \in Seq(Sent) /\ irqs \in Nat /\ lost = FALSE
  BY DEF ConsoleInv, TypeOK, NothingLost
<1>2. Len(fifo) < Depth
  BY <1>1, ConsoleAssumption DEF ConsoleInv, PollsHold, Context
<1>3. [from |-> IF c = "handler" THEN irqs ELSE 0, char |-> char] \in Sent
  BY <1>1 DEF Sent
<1>4. /\ fifo' = Append(fifo, [from |-> IF c = "handler" THEN irqs ELSE 0,
                               char |-> char])
      /\ lost' = lost
  BY <1>2 DEF Put
<1>5. fifo' \in Seq(Sent) /\ Len(fifo') = Len(fifo) + 1
  BY <1>1, <1>3, <1>4
<1>6. c = "handler" => Len(fifo) = 0
  BY DEF ConsoleInv, PollsHold
<1>7. QED
  BY <1>1, <1>4, <1>5, <1>6

LEMMA WriteCRKeeps ==
  ASSUME ConsoleInv, NEW c \in Context, WriteCR(c) PROVE ConsoleInv'
<1>1. "\r" \in Char
  BY ConsoleAssumption
<1>2. /\ fifo' \in Seq(Sent)
      /\ lost' = FALSE
      /\ c = "handler" => Len(fifo') <= 1
  BY <1>1, PutKeeps DEF WriteCR
<1>3. QED
  BY <1>2 DEF ConsoleInv, TypeOK, NothingLost, PollsHold, Context, WriteCR,
              Printing

LEMMA WriteCharKeeps ==
  ASSUME ConsoleInv, NEW c \in Context, WriteChar(c) PROVE ConsoleInv'
<1>1. Text[c][pos[c]] \in Char
  BY NextChar DEF WriteChar
<1>2. /\ fifo' \in Seq(Sent)
      /\ lost' = FALSE
      /\ c = "handler" => Len(fifo') <= 1
  BY <1>1, PutKeeps DEF WriteChar
<1>3. Len(IrqText) \in Nat /\ Len(MainText) \in Nat
  BY ConsoleAssumption
<1>4. pos' \in [Context -> Nat \ {0}] /\ pos[c] <= Len(Text[c])
  BY DEF ConsoleInv, TypeOK, WriteChar, Printing
<1>5. \A d \in Context : pos'[d] <= Len(Text[d]) + 1
  <2>1. Len(Text[c]) \in Nat
    BY <1>3 DEF Text, Context
  <2>2. pos[c] \in Nat /\ pos'[c] = pos[c] + 1
    BY DEF ConsoleInv, TypeOK, WriteChar
  <2>3. \A d \in Context \ {c} : pos'[d] = pos[d]
    BY DEF ConsoleInv, TypeOK, WriteChar
  <2>4. \A d \in Context \ {c} : pos[d] <= Len(Text[d]) + 1
    BY DEF ConsoleInv, TypeOK
  <2>5. pos'[c] <= Len(Text[c]) + 1
    BY <1>4, <2>1, <2>2
  <2>6. QED
    BY <2>3, <2>4, <2>5
<1>6. TypeOK'
  BY <1>2, <1>4, <1>5 DEF ConsoleInv, TypeOK, WriteChar
<1>7. NothingLost' /\ PollsHold'
  BY <1>2 DEF ConsoleInv, TypeOK, NothingLost, PollsHold, Context, WriteChar,
              Printing
<1>8. QED
  BY <1>6, <1>7 DEF ConsoleInv

LEMMA SwitchKeeps ==
  ASSUME ConsoleInv, Interrupt \/ Return PROVE ConsoleInv'
<1>1. Len(IrqText) \in Nat /\ Len(MainText) \in Nat
  BY ConsoleAssumption
<1>2. QED
  BY <1>1 DEF ConsoleInv, TypeOK, NothingLost, PollsHold, Context, Text,
              Interrupt, Return

LEMMA TransmitKeeps == ASSUME ConsoleInv, Transmit PROVE ConsoleInv'
<1>1. fifo \in Seq(Sent) /\ fifo # <<>> /\ wire \in Seq(Sent)
  BY DEF ConsoleInv, TypeOK, Transmit
<1>2. /\ fifo' \in Seq(Sent) /\ Len(fifo') = Len(fifo) - 1
      /\ Len(fifo) >= 1
      /\ wire' \in Seq(Sent)
  BY <1>1 DEF Transmit
<1>3. QED
  BY <1>2 DEF ConsoleInv, TypeOK, NothingLost, PollsHold, Transmit

LEMMA ConsoleInvStep == ASSUME ConsoleInv, [Next]_vars PROVE ConsoleInv'
<1>1. CASE UNCHANGED vars
  BY <1>1 DEF vars, ConsoleInv, TypeOK, NothingLost, PollsHold
<1>2. CASE Next
  BY <1>2, PollKeeps, WriteCRKeeps, WriteCharKeeps, SwitchKeeps, TransmitKeeps
     DEF Next, Hart
<1>3. QED
  BY <1>1, <1>2

(***************************************************************************)
(* No character is ever written to a full transmitter, although            *)
(* dw_uart_putchar's test and its write may be any number of interrupts    *)
(* and messages apart.                                                     *)
(***************************************************************************)
THEOREM NoCharacterLost == Spec => []NothingLost
<1>1. Init => ConsoleInv
  BY InitConsoleInv
<1>2. ConsoleInv /\ [Next]_vars => ConsoleInv'
  BY ConsoleInvStep
<1>3. ConsoleInv => NothingLost
  BY DEF ConsoleInv
<1>4. QED
  BY <1>1, <1>2, <1>3, PTL DEF Spec

(***************************************************************************)
(* dw_uart_puts never runs past the end of its text, and the transmitter   *)
(* and the line hold characters of the texts.                              *)
(***************************************************************************)
THEOREM TypeCorrect == Spec => []TypeOK
<1>1. Init => ConsoleInv
  BY InitConsoleInv
<1>2. ConsoleInv /\ [Next]_vars => ConsoleInv'
  BY ConsoleInvStep
<1>3. ConsoleInv => TypeOK
  BY DEF ConsoleInv
<1>4. QED
  BY <1>1, <1>2, <1>3, PTL DEF Spec

-----------------------------------------------------------------------------
(***************************************************************************)
(* The messages of the interrupts.  While the handler runs, what it has    *)
(* printed is the end of the output; no character is from an interrupt     *)
(* that is still to come.                                                  *)
(***************************************************************************)
Pieces(out, n, busy) ==
  /\ \A k \in DOMAIN out : out[k].from <= n
  /\ busy => \A k \in DOMAIN out :
       out[k].from = n => \A l \in k .. Len(out) : out[l].from = n
  /\ \A k, l \in DOMAIN out :
       k < l /\ out[k].from = out[l].from /\ out[k].from # 0
         => \A m \in k .. l : out[m].from = out[k].from

PiecesInv ==
  /\ Pieces(Output, irqs, running = "handler")
  /\ running = "handler" => irqs # 0

LEMMA OriginIs ==
  ASSUME NEW out \in Seq(Sent)
  PROVE  \A k \in DOMAIN out : out[k].from \in Nat
<1>1. \A k \in DOMAIN out : out[k] \in Sent
  OBVIOUS
<1>2. QED
  BY <1>1 DEF Sent

LEMMA AppendPiece ==
  ASSUME NEW out \in Seq(Sent), NEW n \in Nat, NEW busy \in BOOLEAN,
         Pieces(out, n, busy), busy => n # 0,
         NEW x \in Sent, x.from = IF busy THEN n ELSE 0
  PROVE  Pieces(Append(out, x), n, busy)
<1> DEFINE new == Append(out, x)
<1>1. /\ Len(new) = Len(out) + 1 /\ DOMAIN new = 1 .. Len(out) + 1
      /\ DOMAIN out = 1 .. Len(out) /\ Len(out) \in Nat
      /\ new[Len(out) + 1] = x
      /\ \A k \in 1 .. Len(out) : new[k] = out[k]
  OBVIOUS
<1>2. \A k \in DOMAIN out : out[k].from \in Nat
  BY OriginIs
<1> HIDE DEF new
<1>3. \A k \in DOMAIN new : new[k].from <= n
  BY <1>1 DEF Pieces
<1>4. ASSUME busy, NEW k \in DOMAIN new, new[k].from = n, NEW l \in k .. Len(new)
      PROVE  new[l].from = n
  <2>1. CASE l = Len(out) + 1
    BY <1>1, <1>4, <2>1
  <2>2. CASE l \in 1 .. Len(out)
    BY <1>1, <1>4, <2>2 DEF Pieces
  <2>3. QED
    BY <1>1, <1>4, <2>1, <2>2
<1>5. ASSUME NEW k \in DOMAIN new, NEW l \in DOMAIN new, k < l,
             new[k].from = new[l].from, new[k].from # 0, NEW m \in k .. l
      PROVE  new[m].from = new[k].from
  <2>1. CASE l = Len(out) + 1
    <3>1. busy /\ new[k].from = n
      BY <1>1, <1>5, <2>1
    <3>2. QED
      BY <1>1, <1>4, <1>5, <2>1, <3>1
  <2>2. CASE l \in 1 .. Len(out)
    BY <1>1, <1>5, <2>2 DEF Pieces
  <2>3. QED
    BY <1>1, <1>5, <2>1, <2>2
<1>6. QED
  BY <1>3, <1>4, <1>5 DEF Pieces, new

LEMMA PutPiece ==
  ASSUME ConsoleInv, PiecesInv, NEW c \in Context, NEW char \in Char,
         running = c, Put(c, char), UNCHANGED <<running, irqs, wire>>
  PROVE  PiecesInv'
<1>1. /\ fifo \in Seq(Sent) /\ wire \in Seq(Sent) /\ irqs \in Nat
  BY DEF ConsoleInv, TypeOK
<1>2. CASE fifo' = fifo
  BY <1>2, Zenon DEF PiecesInv, Output
<1>3. CASE fifo' # fifo
  <2> DEFINE x == [from |-> IF c = "handler" THEN irqs ELSE 0, char |-> char]
  <2>1. x \in Sent
    BY <1>1 DEF Sent
  <2>2. fifo' = Append(fifo, x)
    BY <1>3 DEF Put
  <2>3. x.from = IF running = "handler" THEN irqs ELSE 0
    OBVIOUS
  <2> HIDE DEF x
  <2>4. Output' = Append(Output, x)
    BY <1>1, <2>1, <2>2 DEF Output
  <2>5. Output \in Seq(Sent)
    BY <1>1 DEF Output
  <2>6. Pieces(Output', irqs, running = "handler")
    BY <1>1, <2>1, <2>3, <2>4, <2>5, AppendPiece DEF PiecesInv
  <2>7. QED
    BY <2>6 DEF PiecesInv
<1>4. QED
  BY <1>2, <1>3

LEMMA PiecesInvStep ==
  ASSUME ConsoleInv, PiecesInv, [Next]_vars PROVE PiecesInv'
<1>1. /\ fifo \in Seq(Sent) /\ wire \in Seq(Sent) /\ irqs \in Nat
      /\ Output \in Seq(Sent)
  BY DEF ConsoleInv, TypeOK, Output
<1>2. CASE UNCHANGED vars \/ \E c \in Context : Poll(c)
  <2>1. Output' = Output /\ irqs' = irqs /\ running' = running
    BY <1>2 DEF vars, Poll, Output
  <2>2. QED
    BY <2>1, Zenon DEF PiecesInv
<1>3. ASSUME NEW c \in Context, WriteCR(c) PROVE PiecesInv'
  <2>1. "\r" \in Char
    BY ConsoleAssumption
  <2>2. QED
    BY <1>3, <2>1, PutPiece DEF WriteCR, Printing
<1>4. ASSUME NEW c \in Context, WriteChar(c) PROVE PiecesInv'
  <2>1. Text[c][pos[c]] \in Char
    BY <1>4, NextChar DEF WriteChar
  <2>2. QED
    BY <1>4, <2>1, PutPiece DEF WriteChar, Printing
<1>5. CASE Interrupt
  <2>1. /\ Output' = Output /\ irqs' = irqs + 1 /\ running' = "handler"
    BY <1>5 DEF Interrupt, Output
  <2>2. \A k \in DOMAIN Output : Output[k].from \in Nat /\ Output[k].from <= irqs
    BY <1>1, OriginIs DEF PiecesInv, Pieces
  <2>3. \A k \in DOMAIN Output :
          Output[k].from <= irqs + 1 /\ Output[k].from # irqs + 1
    BY <1>1, <2>2
  <2>4. Pieces(Output, irqs + 1, TRUE)
    BY <2>3 DEF PiecesInv, Pieces
  <2>5. (running = "handler")' = TRUE /\ irqs' # 0
    BY <1>1, <2>1
  <2>6. Pieces(Output, irqs, running = "handler")'
    BY <2>1, <2>4, <2>5 DEF Pieces
  <2>7. QED
    BY <2>5, <2>6, Zenon DEF PiecesInv
<1>6. CASE Return
  <2>1. Output' = Output /\ irqs' = irqs /\ running' = "kernel_main"
    BY <1>6 DEF Return, Output
  <2>2. Pieces(Output, irqs, FALSE)
    BY DEF PiecesInv, Pieces
  <2>3. (running = "handler")' = FALSE
    BY <2>1
  <2>4. Pieces(Output, irqs, running = "handler")'
    BY <2>1, <2>2, <2>3 DEF Pieces
  <2>5. (running = "handler" => irqs # 0)'
    BY <2>3
  <2>6. QED
    BY <2>4, <2>5, Zenon DEF PiecesInv
<1>7. CASE Transmit
  <2>1. fifo # <<>> /\ wire' = Append(wire, Head(fifo)) /\ fifo' = Tail(fifo)
    BY <1>7 DEF Transmit
  <2>2. Output' = Output
    BY <1>1, <2>1 DEF Output
  <2>3. QED
    BY <1>7, <2>2, Zenon DEF PiecesInv, Transmit
<1>8. QED
  BY <1>2, <1>3, <1>4, <1>5, <1>6, <1>7 DEF Next, Hart

(***************************************************************************)
(* The message of a timer interrupt is printed in one piece, for all texts *)
(* and any number of interrupts: handle_exception's and timer_handler's    *)
(* logging is never interleaved with anything.                             *)
(***************************************************************************)
THEOREM MessagesInOnePiece == Spec => []HandlerUninterrupted
<1>1. Init => ConsoleInv /\ PiecesInv
  <2>1. ASSUME Init PROVE PiecesInv
    <3>1. Output = <<>>
      BY <2>1 DEF Init, Output
    <3>2. QED
      BY <2>1, <3>1 DEF PiecesInv, Pieces, Init
  <2>2. QED
    BY <2>1, InitConsoleInv
<1>2. ConsoleInv /\ PiecesInv /\ [Next]_vars => (ConsoleInv /\ PiecesInv)'
  BY ConsoleInvStep, PiecesInvStep
<1>3. ConsoleInv /\ PiecesInv => HandlerUninterrupted
  BY DEF PiecesInv, Pieces, HandlerUninterrupted
<1>4. QED
  BY <1>1, <1>2, <1>3, PTL DEF Spec

-----------------------------------------------------------------------------
(* What printing a text means, character by character.                     *)

Piece(char) == IF char = "\n" THEN <<"\r", "\n">> ELSE <<char>>

(* g[n] is what printing the first n characters of the text means.         *)
Renders(g, text) ==
  /\ g[0] = <<>>
  /\ \A n \in 1 .. Len(text) : g[n] = g[n - 1] \o Piece(text[n])

LEMMA PieceIs ==
  ASSUME NEW char \in Char
  PROVE  Piece(char) \in Seq(Char)
<1>1. char = "\n" => <<"\r", "\n">> \in Seq(Char)
  BY ConsoleAssumption
<1> QED BY <1>1 DEF Piece

LEMMA RenderedIs ==
  ASSUME NEW text \in Seq(Char)
  PROVE  \E g \in [0 .. Len(text) -> Seq(Char)] :
           Renders(g, text) /\ Rendered(text) = g[Len(text)]
<1> DEFINE N == Len(text)
           Is(f) == f = [n \in 0 .. N |->
                           IF n = 0 THEN <<>> ELSE f[n - 1] \o Piece(text[n])]
           g == CHOOSE f : Is(f)
           step == [n \in 1 .. N |->
                      [s \in Seq(Char) |-> s \o Piece(text[n])]]
<1>0. N \in Nat /\ \A n \in 1 .. N : text[n] \in Char
  OBVIOUS
<1>1. Rendered(text) = g[N]
  BY DEF Rendered, Piece
<1> HIDE DEF N
<1>2. \A n \in 1 .. N : Piece(text[n]) \in Seq(Char)
  BY <1>0, PieceIs
<1>3. step \in [1 .. N -> [Seq(Char) -> Seq(Char)]]
  BY <1>2
<1>4. <<>> \in Seq(Char)
  OBVIOUS
<1>5. PICK f \in [0 .. N -> Seq(Char)] : Iterates(f, N, <<>>, step)
  <2> HIDE DEF step
  <2> QED BY <1>0, <1>3, <1>4, Recursion
<1>6. Is(f)
  <2>1. \A n \in 0 .. N : f[n] = IF n = 0 THEN <<>> ELSE step[n][f[n - 1]]
    <3> HIDE DEF step
    <3> QED BY <1>5 DEF Iterates
  <2>2. ASSUME NEW n \in 0 .. N
        PROVE  f[n] = IF n = 0 THEN <<>> ELSE f[n - 1] \o Piece(text[n])
    <3>1. CASE n = 0
      BY <2>1, <3>1
    <3>2. CASE n # 0
      <4>1. n \in 1 .. N /\ n - 1 \in 0 .. N /\ f[n - 1] \in Seq(Char)
        BY <1>0, <3>2
      <4> QED BY <2>1, <3>2, <4>1
    <3> QED BY <3>1, <3>2
  <2>3. f = [n \in 0 .. N |-> f[n]]
    BY <1>5
  <2> QED BY <2>2, <2>3
<1>7. Is(g)
  <2> HIDE DEF Is
  <2> QED BY <1>6
<1> HIDE DEF g
<1>8. \A n \in 0 .. N : g[n] = IF n = 0 THEN <<>> ELSE g[n - 1] \o Piece(text[n])
  BY <1>7
<1>9. g = [n \in 0 .. N |-> g[n]]
  BY <1>7
<1> HIDE DEF Is
<1>10. /\ g[0] = <<>>
       /\ \A n \in 1 .. N : g[n] = g[n - 1] \o Piece(text[n])
  <2>1. \A n \in 1 .. N : n \in 0 .. N /\ n # 0
    OBVIOUS
  <2>2. 0 \in 0 .. N
    BY <1>0
  <2> QED BY <1>8, <2>1, <2>2, Zenon
<1>11. \A n \in 0 .. N : g[n] \in Seq(Char)
  <2>1. \A n \in 1 .. N : g[n - 1] \in Seq(Char) => g[n] \in Seq(Char)
    <3> SUFFICES ASSUME NEW n \in 1 .. N, g[n - 1] \in Seq(Char)
                 PROVE  g[n] \in Seq(Char)
      OBVIOUS
    <3>1. Piece(text[n]) \in Seq(Char) /\ g[n] = g[n - 1] \o Piece(text[n])
      BY <1>2, <1>10
    <3> QED BY <3>1
  <2> QED BY <1>0, <1>4, <1>10, <2>1, AllAlong
<1>12. g \in [0 .. N -> Seq(Char)]
  BY <1>9, <1>11
<1> QED BY <1>1, <1>10, <1>12 DEF Renders, N

Rend(text) ==
  CHOOSE g \in [0 .. Len(text) -> Seq(Char)] :
    Renders(g, text) /\ Rendered(text) = g[Len(text)]

LEMMA RendIs ==
  ASSUME NEW text \in Seq(Char)
  PROVE  /\ Rend(text) \in [0 .. Len(text) -> Seq(Char)]
         /\ Renders(Rend(text), text)
         /\ Rendered(text) = Rend(text)[Len(text)]
  BY RenderedIs DEF Rend

-----------------------------------------------------------------------------
(* What was printed with one origin, and how a write adds to it.           *)

Selects(g, out, n) ==
  /\ g[0] = <<>>
  /\ \A k \in 1 .. Len(out) :
       g[k] = IF out[k].from = n THEN Append(g[k - 1], out[k].char) ELSE g[k - 1]

LEMMA CharsOfIs ==
  ASSUME NEW out \in Seq(Sent), NEW n
  PROVE  \E g \in [0 .. Len(out) -> Seq(Char)] :
           Selects(g, out, n) /\ CharsOf(out, n) = g[Len(out)]
<1> DEFINE N == Len(out)
           Is(f) == f = [k \in 0 .. N |->
                           IF k = 0 THEN <<>>
                           ELSE IF out[k].from = n
                                THEN Append(f[k - 1], out[k].char)
                           ELSE f[k - 1]]
           g == CHOOSE f : Is(f)
           step == [k \in 1 .. N |->
                      [s \in Seq(Char) |->
                         IF out[k].from = n THEN Append(s, out[k].char) ELSE s]]
<1>0. N \in Nat /\ \A k \in 1 .. N : out[k].char \in Char
  <2>1. \A k \in 1 .. N : out[k] \in Sent
    OBVIOUS
  <2> QED BY <2>1 DEF Sent
<1>1. CharsOf(out, n) = g[N]
  BY DEF CharsOf
<1> HIDE DEF N
<1>2. step \in [1 .. N -> [Seq(Char) -> Seq(Char)]]
  <2> SUFFICES ASSUME NEW k \in 1 .. N, NEW s \in Seq(Char)
               PROVE  Append(s, out[k].char) \in Seq(Char)
    OBVIOUS
  <2>1. out[k].char \in Char
    BY <1>0
  <2> QED BY <2>1
<1>3. <<>> \in Seq(Char)
  OBVIOUS
<1>4. PICK f \in [0 .. N -> Seq(Char)] : Iterates(f, N, <<>>, step)
  <2> HIDE DEF step
  <2> QED BY <1>0, <1>2, <1>3, Recursion
<1>5. Is(f)
  <2>1. \A k \in 0 .. N : f[k] = IF k = 0 THEN <<>> ELSE step[k][f[k - 1]]
    <3> HIDE DEF step
    <3> QED BY <1>4 DEF Iterates
  <2>2. ASSUME NEW k \in 0 .. N
        PROVE  f[k] = IF k = 0 THEN <<>>
                      ELSE IF out[k].from = n
                           THEN Append(f[k - 1], out[k].char)
                      ELSE f[k - 1]
    <3>1. CASE k = 0
      BY <2>1, <3>1
    <3>2. CASE k # 0
      <4>1. k \in 1 .. N /\ k - 1 \in 0 .. N /\ f[k - 1] \in Seq(Char)
        BY <1>0, <3>2
      <4> QED BY <2>1, <3>2, <4>1
    <3> QED BY <3>1, <3>2
  <2>3. f = [k \in 0 .. N |-> f[k]]
    BY <1>4
  <2> QED BY <2>2, <2>3
<1>6. Is(g)
  <2> HIDE DEF Is
  <2> QED BY <1>5
<1> HIDE DEF g
<1>7. \A k \in 0 .. N : g[k] = IF k = 0 THEN <<>>
                               ELSE IF out[k].from = n
                                    THEN Append(g[k - 1], out[k].char)
                               ELSE g[k - 1]
  BY <1>6
<1>8. g = [k \in 0 .. N |-> g[k]]
  BY <1>6
<1> HIDE DEF Is
<1>9. Selects(g, out, n)
  <2>1. \A k \in 1 .. N : k \in 0 .. N /\ k # 0
    OBVIOUS
  <2>2. 0 \in 0 .. N
    BY <1>0
  <2>3. g[0] = <<>>
    BY <1>7, <2>2, Zenon
  <2>4. \A k \in 1 .. N :
          g[k] = IF out[k].from = n THEN Append(g[k - 1], out[k].char)
                 ELSE g[k - 1]
    BY <1>7, <2>1, Zenon
  <2> QED BY <2>3, <2>4 DEF Selects, N
<1>10. \A k \in 0 .. N : g[k] \in Seq(Char)
  <2>1. ASSUME NEW k \in 1 .. N, g[k - 1] \in Seq(Char)
        PROVE  g[k] \in Seq(Char)
    <3>1. /\ out[k].char \in Char
          /\ g[k] = IF out[k].from = n THEN Append(g[k - 1], out[k].char)
                    ELSE g[k - 1]
      BY <1>0, <1>9 DEF Selects, N
    <3>2. Append(g[k - 1], out[k].char) \in Seq(Char)
      BY <2>1, <3>1
    <3> QED BY <2>1, <3>1, <3>2
  <2>2. g[0] \in Seq(Char)
    BY <1>3, <1>9 DEF Selects
  <2> QED BY <1>0, <2>1, <2>2, AllAlong
<1>11. g \in [0 .. N -> Seq(Char)]
  BY <1>8, <1>10
<1> QED BY <1>1, <1>9, <1>11 DEF N

LEMMA NothingPrinted ==
  ASSUME NEW n
  PROVE  CharsOf(<<>>, n) = <<>>
<1>1. <<>> \in Seq(Sent) /\ Len(<<>>) = 0
  OBVIOUS
<1>2. PICK g \in [0 .. Len(<<>>) -> Seq(Char)] :
        Selects(g, <<>>, n) /\ CharsOf(<<>>, n) = g[Len(<<>>)]
  BY <1>1, CharsOfIs, Zenon
<1> QED BY <1>1, <1>2 DEF Selects

LEMMA OneMorePrinted ==
  ASSUME NEW out \in Seq(Sent), NEW x \in Sent, NEW n
  PROVE  /\ CharsOf(out, n) \in Seq(Char)
         /\ CharsOf(Append(out, x), n) =
              IF x.from = n THEN Append(CharsOf(out, n), x.char)
              ELSE CharsOf(out, n)
<1> DEFINE N == Len(out)
           new == Append(out, x)
<1>1. PICK g \in [0 .. N -> Seq(Char)] :
        Selects(g, out, n) /\ CharsOf(out, n) = g[N]
  BY CharsOfIs
<1>2. /\ new \in Seq(Sent) /\ Len(new) = N + 1
      /\ \A k \in 1 .. N : new[k] = out[k]
      /\ new[N + 1] = x
  BY AppendIs
<1> HIDE DEF new
<1>3. PICK h \in [0 .. N + 1 -> Seq(Char)] :
        Selects(h, new, n) /\ CharsOf(new, n) = h[N + 1]
  BY <1>2, CharsOfIs
<1>4. N \in Nat
  OBVIOUS
<1>5. /\ g[0] = <<>> /\ h[0] = <<>>
      /\ \A k \in 1 .. N :
           g[k] = IF out[k].from = n THEN Append(g[k - 1], out[k].char)
                  ELSE g[k - 1]
      /\ \A k \in 1 .. N + 1 :
           h[k] = IF new[k].from = n THEN Append(h[k - 1], new[k].char)
                  ELSE h[k - 1]
  BY <1>1, <1>2, <1>3 DEF Selects
<1> HIDE DEF N
<1> DEFINE T == {k \in 0 .. N : h[k] = g[k]}
<1>6. 0 .. N \subseteq T
  <2>1. 0 \in T
    BY <1>4, <1>5
  <2>2. ASSUME NEW k \in 0 .. N-1, k \in T PROVE k + 1 \in T
    <3>1. k + 1 \in 1 .. N /\ k + 1 \in 1 .. N + 1 /\ (k + 1) - 1 = k
          /\ k + 1 \in 0 .. N
      BY <1>4
    <3>2. h[k] = g[k] /\ new[k + 1] = out[k + 1]
      BY <1>2, <2>2, <3>1
    <3>3. h[k + 1] = g[k + 1]
      BY <1>5, <3>1, <3>2
    <3> QED BY <3>1, <3>3
  <2> HIDE DEF T
  <2> QED BY <1>4, <2>1, <2>2, SetInduction
<1>7. h[N] = g[N]
  BY <1>4, <1>6
<1>8. h[N + 1] = IF x.from = n THEN Append(h[N], x.char) ELSE h[N]
  <2>1. N + 1 \in 1 .. N + 1 /\ (N + 1) - 1 = N
    BY <1>4
  <2> QED BY <1>2, <1>5, <2>1
<1>9. g[N] \in Seq(Char)
  BY <1>1, <1>4
<1> QED BY <1>1, <1>3, <1>7, <1>8, <1>9 DEF new

-----------------------------------------------------------------------------
(* Prefixes.                                                               *)

Begins(s, t) == Len(s) <= Len(t) /\ \A k \in 1 .. Len(s) : s[k] = t[k]

LEMMA BeginsIsPrefix ==
  ASSUME NEW s \in Seq(Char), NEW t \in Seq(Char), Begins(s, t)
  PROVE  IsPrefixOf(s, t)
<1> DEFINE n == Len(s)
           u == SubSeq(t, 1, n)
<1>1. n \in 0 .. Len(t) /\ 1 \in Nat \ {0} /\ \A k \in 1 .. n : s[k] = t[k]
  BY DEF Begins
<1>2. /\ u \in Seq(Char)
      /\ Len(u) = IF 1 <= n THEN n - 1 + 1 ELSE 0
      /\ \A k \in 1 .. n - 1 + 1 : u[k] = t[1 + k - 1]
  BY <1>1, SubSeqIs
<1> HIDE DEF u
<1>3. Len(u) = n /\ \A k \in 1 .. n : u[k] = t[k]
  BY <1>1, <1>2
<1>4. u = s
  BY <1>1, <1>2, <1>3, SameSeq
<1> QED BY <1>1, <1>4 DEF IsPrefixOf, u

LEMMA BeginsConcat ==
  ASSUME NEW r, NEW s \in Seq(Char), NEW t \in Seq(Char), Begins(r, s),
         Len(r) \in Nat
  PROVE  Begins(r, s \o t)
<1>1. /\ Len(s \o t) = Len(s) + Len(t)
      /\ \A k \in 1 .. Len(s) : (s \o t)[k] = s[k]
  BY ConcatIs
<1>2. Len(s) \in Nat /\ Len(t) \in Nat
  OBVIOUS
<1> QED BY <1>1, <1>2 DEF Begins

LEMMA RendBegins ==
  ASSUME NEW text \in Seq(Char), NEW m \in 0 .. Len(text),
         NEW r \in Seq(Char), Begins(r, Rend(text)[m])
  PROVE  Begins(r, Rendered(text))
<1> DEFINE N == Len(text)
           g == Rend(text)
<1>1. /\ g \in [0 .. N -> Seq(Char)] /\ Rendered(text) = g[N]
      /\ \A n \in 1 .. N : g[n] = g[n - 1] \o Piece(text[n])
      /\ Begins(r, g[m])
  BY RendIs DEF Renders
<1>2. N \in Nat /\ \A n \in 1 .. N : text[n] \in Char
  OBVIOUS
<1>3. m \in 0 .. N
  OBVIOUS
<1> HIDE DEF N, g
<1> DEFINE T == {n \in 0 .. N : m <= n => Begins(r, g[n])}
<1>4. 0 .. N \subseteq T
  <2>1. 0 \in T
    BY <1>1, <1>2, <1>3
  <2>2. ASSUME NEW n \in 0 .. N-1, n \in T PROVE n + 1 \in T
    <3>1. n + 1 \in 1 .. N /\ (n + 1) - 1 = n /\ n + 1 \in 0 .. N /\ n \in 0 .. N
      BY <1>2
    <3>2. CASE m <= n
      <4>1. Begins(r, g[n]) /\ g[n] \in Seq(Char)
        BY <1>1, <2>2, <3>1, <3>2
      <4>2. Piece(text[n + 1]) \in Seq(Char)
        BY <1>2, <3>1, PieceIs
      <4>3. Begins(r, g[n] \o Piece(text[n + 1]))
        <5>1. Len(r) \in Nat
          OBVIOUS
        <5> QED BY <4>1, <4>2, <5>1, BeginsConcat
      <4>4. g[n + 1] = g[n] \o Piece(text[n + 1])
        BY <1>1, <3>1
      <4> QED BY <3>1, <4>3, <4>4
    <3>3. CASE ~(m <= n)
      <4>1. m <= n + 1 => m = n + 1
        BY <1>3, <3>1, <3>3
      <4> QED BY <1>1, <3>1, <4>1
    <3> QED BY <3>2, <3>3
  <2> HIDE DEF T
  <2> QED BY <1>2, <2>1, <2>2, SetInduction
<1>5. Begins(r, g[N])
  BY <1>2, <1>3, <1>4
<1> QED BY <1>1, <1>5

(***************************************************************************)
(* What a context has sent when it is to print character p of the text and *)
(* has (or has not) sent the '\r' before it.                               *)
(***************************************************************************)
Done(text, p, r) ==
  IF r THEN Append(Rend(text)[p - 1], "\r") ELSE Rend(text)[p - 1]

LEMMA DoneIs ==
  ASSUME NEW text \in Seq(Char), NEW p \in 1 .. Len(text) + 1,
         NEW r \in BOOLEAN, r => p <= Len(text) /\ text[p] = "\n"
  PROVE  Done(text, p, r) \in Seq(Char) /\ IsPrefixOf(Done(text, p, r), Rendered(text))
<1> DEFINE N == Len(text)
           g == Rend(text)
<1>1. /\ g \in [0 .. N -> Seq(Char)] /\ Rendered(text) = g[N]
      /\ \A n \in 1 .. N : g[n] = g[n - 1] \o Piece(text[n])
  BY RendIs DEF Renders
<1>2. N \in Nat /\ p - 1 \in 0 .. N /\ N \in 0 .. N
  OBVIOUS
<1>3. g[p - 1] \in Seq(Char) /\ Rendered(text) \in Seq(Char)
  BY <1>1, <1>2
<1> HIDE DEF g, N
<1>4. CASE ~r
  <2>1. Done(text, p, r) = g[p - 1]
    BY <1>4 DEF Done, g
  <2>2. Begins(g[p - 1], g[p - 1])
    BY <1>3 DEF Begins
  <2>3. Begins(g[p - 1], Rendered(text))
    BY <1>2, <1>3, <2>2, RendBegins DEF g, N
  <2> QED BY <1>3, <2>1, <2>3, BeginsIsPrefix
<1>5. CASE r
  <2> DEFINE s == g[p - 1]
             d == Append(s, "\r")
             e == s \o <<"\r", "\n">>
  <2>1. Done(text, p, r) = d
    BY <1>5 DEF Done, g
  <2>2. g[p] = e /\ p \in 1 .. N
    <3>1. p \in 1 .. N /\ text[p] = "\n"
      BY <1>2, <1>5 DEF N
    <3> QED BY <1>1, <3>1 DEF Piece
  <2>3. "\r" \in Char /\ <<"\r", "\n">> \in Seq(Char) /\ s \in Seq(Char)
    <3>1. "\n" \in Char
      BY <1>2, <1>5 DEF N
    <3> QED BY <1>3, <3>1, ConsoleAssumption
  <2> HIDE DEF s
  <2>4. /\ d \in Seq(Char) /\ Len(d) = Len(s) + 1
        /\ \A k \in 1 .. Len(s) : d[k] = s[k]
        /\ d[Len(s) + 1] = "\r"
    BY <2>3, AppendIs
  <2>5. /\ e \in Seq(Char) /\ Len(e) = Len(s) + 2
        /\ \A k \in 1 .. Len(s) : e[k] = s[k]
        /\ e[Len(s) + 1] = "\r"
    BY <2>3
  <2> HIDE DEF d, e
  <2>6. Begins(d, e)
    <3>1. Len(s) \in Nat
      BY <2>3
    <3> QED BY <2>4, <2>5, <3>1 DEF Begins
  <2>7. Begins(d, Rendered(text))
    <3>1. p \in 0 .. Len(text) /\ Begins(d, Rend(text)[p])
      BY <2>2, <2>6 DEF g, N
    <3> QED BY <2>4, <3>1, RendBegins
  <2> QED BY <1>3, <2>1, <2>4, <2>7, BeginsIsPrefix
<1> QED BY <1>4, <1>5

LEMMA DoneAll ==
  ASSUME NEW text \in Seq(Char)
  PROVE  Done(text, Len(text) + 1, FALSE) = Rendered(text)
<1>1. Len(text) + 1 - 1 = Len(text)
  OBVIOUS
<1> QED BY <1>1, RendIs DEF Done

LEMMA DoneNext ==
  ASSUME NEW text \in Seq(Char), NEW p \in 1 .. Len(text), NEW r \in BOOLEAN,
         r <=> text[p] = "\n"
  PROVE  Done(text, p + 1, FALSE) = Append(Done(text, p, r), text[p])
<1> DEFINE s == Rend(text)[p - 1]
<1>1. Rend(text)[p] = s \o Piece(text[p])
  BY RendIs DEF Renders
<1>2. s \in Seq(Char) /\ text[p] \in Char /\ p + 1 - 1 = p /\ "\r" \in Char
  <2>1. p - 1 \in 0 .. Len(text)
    OBVIOUS
  <2>2. Rend(text) \in [0 .. Len(text) -> Seq(Char)]
    BY RendIs
  <2>3. s \in Seq(Char)
    BY <2>1, <2>2
  <2> HIDE DEF s
  <2> QED BY <2>3, ConsoleAssumption
<1>3. Done(text, p + 1, FALSE) = s \o Piece(text[p])
  <2>1. Done(text, p + 1, FALSE) = Rend(text)[p + 1 - 1]
    BY DEF Done
  <2>2. p + 1 - 1 = p
    BY <1>2
  <2> QED BY <1>1, <2>1, <2>2
<1>4. Done(text, p, r) = IF r THEN Append(s, "\r") ELSE s
  BY DEF Done
<1> HIDE DEF s
<1>5. CASE r
  <2>1. Piece(text[p]) = <<"\r", "\n">> /\ text[p] = "\n"
    BY <1>5 DEF Piece
  <2>2. s \o <<"\r", "\n">> = Append(Append(s, "\r"), "\n")
    BY <1>2, <2>1
  <2> QED BY <1>3, <1>4, <1>5, <2>1, <2>2
<1>6. CASE ~r
  <2>1. Piece(text[p]) = <<text[p]>>
    BY <1>6 DEF Piece
  <2>2. s \o <<text[p]>> = Append(s, text[p])
    BY <1>2
  <2> QED BY <1>3, <1>4, <1>6, <2>1, <2>2
<1> QED BY <1>5, <1>6

-----------------------------------------------------------------------------
(***************************************************************************)
(* The order of the output.  Each context's part of it is what the context *)
(* has done of its text; the handler's is that of the last interrupt, also *)
(* after the handler has returned.                                         *)
(***************************************************************************)
CRHolds ==
  /\ \A c \in Context :
       cr[c] => pos[c] <= Len(Text[c]) /\ Text[c][pos[c]] = "\n"
  /\ running = "kernel_main" =>
       ~cr["handler"] /\ (irqs > 0 => pos["handler"] = Len(IrqText) + 1)
  /\ running = "handler" => irqs > 0

Printed(c) == Done(Text[c], pos[c], cr[c])

OrderInv ==
  /\ From(0) = Printed("kernel_main")
  /\ irqs > 0 => From(irqs) = Printed("handler")
  /\ \A n \in 1 .. irqs-1 : From(n) = Rendered(IrqText)
  /\ \A n \in Nat : n > irqs => From(n) = <<>>

LEMMA TextIs ==
  /\ \A c \in Context : Text[c] \in Seq(Char)
  /\ Text["handler"] = IrqText /\ Text["kernel_main"] = MainText
  /\ IrqText \in Seq(Char) /\ MainText \in Seq(Char)
  BY ConsoleAssumption DEF Text, Context

LEMMA CRHoldsStep ==
  ASSUME ConsoleInv, CRHolds, [Next]_vars PROVE CRHolds'
<1>1. /\ running \in Context /\ pos \in [Context -> Nat \ {0}]
      /\ cr \in [Context -> BOOLEAN] /\ irqs \in Nat
  BY DEF ConsoleInv, TypeOK
<1>2. "handler" \in Context /\ "kernel_main" \in Context /\ Text["handler"] = IrqText
      /\ "handler" # "kernel_main"
  BY TextIs DEF Context
<1>3. CASE UNCHANGED <<running, pos, cr, irqs>>
  BY <1>3 DEF CRHolds
<1>4. ASSUME NEW c \in Context, WriteCR(c) PROVE CRHolds'
  BY <1>1, <1>2, <1>4 DEF CRHolds, WriteCR, Printing
<1>5. ASSUME NEW c \in Context, WriteChar(c) PROVE CRHolds'
  BY <1>1, <1>2, <1>5 DEF CRHolds, WriteChar, Printing
<1>6. CASE Interrupt
  <2>1. /\ running = "kernel_main" /\ irqs' = irqs + 1 /\ running' = "handler"
        /\ pos' = [pos EXCEPT !["handler"] = 1] /\ cr' = cr
    BY <1>6 DEF Interrupt
  <2>2. ~cr["handler"]
    BY <2>1 DEF CRHolds
  <2>3. ASSUME NEW c \in Context, cr'[c]
        PROVE  pos'[c] <= Len(Text[c]) /\ Text[c][pos'[c]] = "\n"
    <3>1. c # "handler" /\ cr[c]
      BY <2>1, <2>2, <2>3
    <3>2. pos'[c] = pos[c]
      BY <1>1, <2>1, <3>1
    <3> QED BY <3>1, <3>2 DEF CRHolds
  <2>4. irqs' > 0 /\ running' # "kernel_main"
    BY <1>1, <2>1
  <2> QED BY <2>3, <2>4 DEF CRHolds
<1>7. CASE Return
  <2>1. pos["handler"] = Len(IrqText) + 1
    BY <1>1, <1>2, <1>7, TextIs DEF ConsoleInv, TypeOK, Return
  <2>2. ~cr["handler"]
    <3>1. pos["handler"] > Len(IrqText) /\ pos["handler"] \in Nat
      BY <1>1, <1>2, <1>7 DEF Return
    <3>2. Len(IrqText) \in Nat
      BY TextIs
    <3>3. ~(pos["handler"] <= Len(Text["handler"]))
      BY <1>2, <3>1, <3>2
    <3> QED BY <1>2, <3>3 DEF CRHolds
  <2> QED BY <1>1, <1>2, <1>7, <2>1, <2>2 DEF CRHolds, Return
<1>8. \A c \in Context : Poll(c) => UNCHANGED <<running, pos, cr, irqs>>
  BY DEF Poll
<1>9. Transmit \/ UNCHANGED vars => UNCHANGED <<running, pos, cr, irqs>>
  BY DEF Transmit, vars
<1> QED BY <1>3, <1>4, <1>5, <1>6, <1>7, <1>8, <1>9 DEF Next, Hart

(* What is sent is added to what its context printed, and to nothing else. *)
LEMMA PutAdds ==
  ASSUME ConsoleInv, NEW c \in Context, NEW char \in Char, ready[c],
         Put(c, char), wire' = wire
  PROVE  \A n : CharsOf(Output', n) =
                IF n = (IF c = "handler" THEN irqs ELSE 0)
                THEN Append(CharsOf(Output, n), char) ELSE CharsOf(Output, n)
<1> DEFINE o == IF c = "handler" THEN irqs ELSE 0
           x == [from |-> o, char |-> char]
<1>1. fifo \in Seq(Sent) /\ wire \in Seq(Sent) /\ irqs \in Nat
  BY DEF ConsoleInv, TypeOK
<1>2. Len(fifo) < Depth
  BY <1>1, ConsoleAssumption DEF ConsoleInv, PollsHold, Context
<1>3. fifo' = Append(fifo, x)
  BY <1>2 DEF Put
<1>4. x \in Sent /\ x.from = o /\ x.char = char
  BY <1>1 DEF Sent
<1> HIDE DEF x
<1>5. Output' = Append(Output, x) /\ Output \in Seq(Sent)
  BY <1>1, <1>3, <1>4 DEF Output
<1> HIDE DEF o
<1> SUFFICES ASSUME NEW n
             PROVE  CharsOf(Output', n) =
                      IF n = o THEN Append(CharsOf(Output, n), char)
                      ELSE CharsOf(Output, n)
  BY DEF o
<1> QED BY <1>4, <1>5, OneMorePrinted

LEMMA WriteInOrder ==
  ASSUME ConsoleInv, CRHolds, OrderInv, NEW c \in Context, running = c,
         NEW char \in Char, ready[c], Put(c, char), UNCHANGED <<irqs, wire>>,
         NEW p, NEW r, pos' = [pos EXCEPT ![c] = p], cr' = [cr EXCEPT ![c] = r],
         Done(Text[c], p, r) = Append(Printed(c), char)
  PROVE  OrderInv'
<1> DEFINE o == IF c = "handler" THEN irqs ELSE 0
           Old(n) == CharsOf(Output, n)
           New(n) == CharsOf(Output', n)
<1>1. \A n : New(n) = IF n = o THEN Append(Old(n), char) ELSE Old(n)
  BY PutAdds
<1>2. irqs \in Nat /\ c \in {"handler", "kernel_main"} /\ irqs' = irqs
      /\ (c = "handler" => irqs > 0)
  BY DEF ConsoleInv, TypeOK, Context, CRHolds
<1>3. \A d \in Context :
        Printed(d)' = IF d = c THEN Append(Printed(c), char) ELSE Printed(d)
  BY DEF ConsoleInv, TypeOK, Printed
<1>4. /\ Printed("handler")' = IF c = "handler" THEN Append(Printed(c), char)
                               ELSE Printed("handler")
      /\ Printed("kernel_main")' =
           IF c = "handler" THEN Printed("kernel_main")
           ELSE Append(Printed(c), char)
  BY <1>2, <1>3 DEF Context
<1>5. /\ Old(0) = Printed("kernel_main")
      /\ irqs > 0 => Old(irqs) = Printed("handler")
      /\ \A n \in 1 .. irqs-1 : Old(n) = Rendered(IrqText)
      /\ \A n \in Nat : n > irqs => Old(n) = <<>>
  BY DEF OrderInv, From
<1> HIDE DEF Old, New
<1>6. New(0) = Printed("kernel_main")'
  <2>1. New(0) = IF 0 = o THEN Append(Old(0), char) ELSE Old(0)
    BY <1>1
  <2>2. 0 = o <=> c # "handler"
    BY <1>2
  <2>3. c # "handler" => c = "kernel_main"
    BY <1>2
  <2> QED BY <1>4, <1>5, <2>1, <2>2, <2>3
<1>7. ASSUME irqs > 0 PROVE New(irqs) = Printed("handler")'
  <2>1. New(irqs) = IF irqs = o THEN Append(Old(irqs), char) ELSE Old(irqs)
    BY <1>1
  <2>2. irqs = o <=> c = "handler"
    BY <1>2, <1>7
  <2> QED BY <1>4, <1>5, <1>7, <2>1, <2>2
<1>8. ASSUME NEW n \in Nat, n # 0, n # irqs PROVE New(n) = Old(n)
  BY <1>1, <1>2, <1>8
<1>9. \A n \in 1 .. irqs-1 : New(n) = Rendered(IrqText)
  <2> SUFFICES ASSUME NEW n \in 1 .. irqs-1 PROVE New(n) = Old(n)
    BY <1>5
  <2>1. n \in Nat /\ n # 0 /\ n # irqs
    BY <1>2
  <2> QED BY <1>8, <2>1
<1>10. \A n \in Nat : n > irqs => New(n) = <<>>
  <2> SUFFICES ASSUME NEW n \in Nat, n > irqs PROVE New(n) = Old(n)
    BY <1>5
  <2>1. n # 0 /\ n # irqs
    BY <1>2
  <2> QED BY <1>8, <2>1
<1> QED BY <1>2, <1>6, <1>7, <1>9, <1>10 DEF OrderInv, From, New

LEMMA OrderInvStep ==
  ASSUME ConsoleInv, CRHolds, OrderInv, [Next]_vars PROVE OrderInv'
<1>1. /\ running \in Context /\ pos \in [Context -> Nat \ {0}]
      /\ cr \in [Context -> BOOLEAN] /\ irqs \in Nat
      /\ fifo \in Seq(Sent) /\ wire \in Seq(Sent)
  BY DEF ConsoleInv, TypeOK
<1>2. "handler" \in Context /\ "kernel_main" \in Context
      /\ "handler" # "kernel_main"
  BY DEF Context
<1>3. CASE Output' = Output /\ UNCHANGED <<pos, cr, irqs>>
  BY <1>3 DEF OrderInv, From, Printed
<1>4. ASSUME NEW c \in Context, WriteCR(c) PROVE OrderInv'
  <2>1. /\ running = c /\ ready[c] /\ Put(c, "\r") /\ UNCHANGED <<irqs, wire>>
        /\ ~cr[c] /\ "\r" \in Char
        /\ pos' = [pos EXCEPT ![c] = pos[c]] /\ cr' = [cr EXCEPT ![c] = TRUE]
    BY <1>1, <1>4, ConsoleAssumption DEF WriteCR, Printing
  <2>2. Done(Text[c], pos[c], TRUE) = Append(Printed(c), "\r")
    BY <2>1 DEF Done, Printed
  <2> QED BY <2>1, <2>2, WriteInOrder
<1>5. ASSUME NEW c \in Context, WriteChar(c) PROVE OrderInv'
  <2>1. Text[c][pos[c]] \in Char
    BY <1>5, NextChar DEF WriteChar
  <2>2. /\ running = c /\ ready[c] /\ Put(c, Text[c][pos[c]])
        /\ UNCHANGED <<irqs, wire>>
        /\ pos' = [pos EXCEPT ![c] = pos[c] + 1]
        /\ cr' = [cr EXCEPT ![c] = FALSE]
        /\ cr[c] \in BOOLEAN /\ (cr[c] <=> Text[c][pos[c]] = "\n")
        /\ pos[c] \in 1 .. Len(Text[c]) /\ Text[c] \in Seq(Char)
    BY <1>1, <1>5, TextIs DEF WriteChar, Printing, CRHolds
  <2>3. Done(Text[c], pos[c] + 1, FALSE) = Append(Printed(c), Text[c][pos[c]])
    BY <2>2, DoneNext DEF Printed
  <2> QED BY <2>1, <2>2, <2>3, WriteInOrder
<1>6. CASE Interrupt
  <2>1. /\ Output' = Output /\ irqs' = irqs + 1 /\ cr' = cr
        /\ pos' = [pos EXCEPT !["handler"] = 1]
        /\ running = "kernel_main"
    BY <1>6 DEF Interrupt, Output
  <2>2. Printed("kernel_main")' = Printed("kernel_main")
    BY <1>1, <1>2, <2>1 DEF Printed
  <2>3. Printed("handler")' = <<>>
    <3>1. pos'["handler"] = 1 /\ ~cr'["handler"]
      BY <1>1, <1>2, <2>1 DEF CRHolds
    <3>2. Rend(IrqText)[0] = <<>>
      BY RendIs, TextIs DEF Renders
    <3>3. Printed("handler")' = Rend(IrqText)[1 - 1]
      BY <3>1, TextIs DEF Printed, Done
    <3> QED BY <3>2, <3>3
  <2> DEFINE Old(n) == CharsOf(Output, n)
  <2>4. /\ Old(0) = Printed("kernel_main")
        /\ irqs > 0 => Old(irqs) = Printed("handler")
        /\ \A n \in 1 .. irqs-1 : Old(n) = Rendered(IrqText)
        /\ \A n \in Nat : n > irqs => Old(n) = <<>>
    BY DEF OrderInv, From
  <2> HIDE DEF Old
  <2>5. ASSUME irqs > 0 PROVE Old(irqs) = Rendered(IrqText)
    <3>1. pos["handler"] = Len(IrqText) + 1 /\ cr["handler"] = FALSE
      BY <1>1, <1>2, <2>1, <2>5 DEF CRHolds
    <3>2. Old(irqs) = Done(IrqText, Len(IrqText) + 1, FALSE)
      BY <2>4, <2>5, <3>1, TextIs DEF Printed
    <3> QED BY <3>2, TextIs, DoneAll
  <2>6. Old(irqs + 1) = <<>>
    BY <1>1, <2>4
  <2>7. \A n \in 1 .. irqs : Old(n) = Rendered(IrqText)
    <3> SUFFICES ASSUME NEW n \in 1 .. irqs PROVE Old(n) = Rendered(IrqText)
      OBVIOUS
    <3>1. n = irqs \/ n \in 1 .. irqs-1
      BY <1>1
    <3> QED BY <1>1, <2>4, <2>5, <3>1
  <2>8. \A n \in Nat : n > irqs + 1 => Old(n) = <<>>
    <3> SUFFICES ASSUME NEW n \in Nat, n > irqs + 1 PROVE Old(n) = <<>>
      OBVIOUS
    <3>1. n > irqs
      BY <1>1
    <3> QED BY <2>4, <3>1
  <2>9. irqs' - 1 = irqs
    BY <1>1, <2>1
  <2> DEFINE New(n) == CharsOf(Output', n)
  <2>10. \A n : New(n) = Old(n)
    BY <2>1 DEF Old
  <2> HIDE DEF New
  <2>11. New(0) = Printed("kernel_main")'
    BY <2>2, <2>4, <2>10
  <2>12. New(irqs') = Printed("handler")'
    BY <2>1, <2>3, <2>6, <2>10
  <2>13. \A n \in 1 .. irqs'-1 : New(n) = Rendered(IrqText)
    BY <2>7, <2>9, <2>10
  <2>14. \A n \in Nat : n > irqs' => New(n) = <<>>
    BY <2>1, <2>8, <2>10
  <2> QED BY <2>11, <2>12, <2>13, <2>14 DEF OrderInv, From, New
<1>7. CASE Return
  BY <1>3, <1>7 DEF Return, Output
<1>8. CASE Transmit
  <2>1. fifo # <<>> /\ wire' = Append(wire, Head(fifo)) /\ fifo' = Tail(fifo)
    BY <1>8 DEF Transmit
  <2>2. Output' = Output
    BY <1>1, <2>1 DEF Output
  <2> QED BY <1>3, <1>8, <2>2 DEF Transmit
<1>9. CASE UNCHANGED vars \/ \E c \in Context : Poll(c)
  BY <1>3, <1>9 DEF vars, Poll, Output
<1> QED BY <1>4, <1>5, <1>6, <1>7, <1>8, <1>9 DEF Next, Hart

LEMMA InitOrderInv == ASSUME Init PROVE CRHolds /\ OrderInv
<1>1. /\ running = "kernel_main" /\ irqs = 0 /\ Output = <<>>
      /\ \A c \in Context : pos[c] = 1 /\ cr[c] = FALSE
  BY DEF Init, Output
<1>2. CRHolds
  BY <1>1 DEF CRHolds, Context
<1>3. \A n : From(n) = <<>>
  BY <1>1, NothingPrinted DEF From
<1>4. Printed("kernel_main") = <<>>
  <2>1. Printed("kernel_main") = Rend(MainText)[1 - 1]
    BY <1>1, TextIs DEF Printed, Done, Context
  <2>2. Renders(Rend(MainText), MainText)
    BY RendIs, TextIs
  <2>3. Rend(MainText)[0] = <<>>
    BY <2>2 DEF Renders
  <2> QED BY <2>1, <2>3
<1> QED BY <1>1, <1>2, <1>3, <1>4 DEF OrderInv

LEMMA OrderInvInOrder ==
  ASSUME ConsoleInv, CRHolds, OrderInv PROVE InOrder
<1>1. irqs \in Nat /\ "handler" \in Context /\ "kernel_main" \in Context
  BY DEF ConsoleInv, TypeOK, Context
<1>2. \A c \in Context : IsPrefixOf(Printed(c), Rendered(Text[c]))
  <2> SUFFICES ASSUME NEW c \in Context
               PROVE  IsPrefixOf(Printed(c), Rendered(Text[c]))
    OBVIOUS
  <2>1. /\ Text[c] \in Seq(Char) /\ pos[c] \in 1 .. Len(Text[c]) + 1
        /\ cr[c] \in BOOLEAN
        /\ cr[c] => pos[c] <= Len(Text[c]) /\ Text[c][pos[c]] = "\n"
    BY TextIs DEF ConsoleInv, TypeOK, CRHolds
  <2> QED BY <2>1, DoneIs DEF Printed
<1>3. IsPrefixOf(From(0), Rendered(MainText))
  BY <1>1, <1>2, TextIs DEF OrderInv
<1>4. ASSUME NEW n \in 1 .. irqs
      PROVE  /\ IsPrefixOf(From(n), Rendered(IrqText))
             /\ n < irqs => From(n) = Rendered(IrqText)
  <2>1. CASE n = irqs
    BY <1>1, <1>2, <2>1, TextIs DEF OrderInv
  <2>2. CASE n # irqs
    <3>1. n \in 1 .. irqs-1
      BY <1>1, <2>2
    <3>2. From(n) = Rendered(IrqText)
      BY <3>1 DEF OrderInv
    <3>3. Rendered(IrqText) \in Seq(Char)
      <4>1. Len(IrqText) \in 0 .. Len(IrqText)
        BY TextIs
      <4>2. Rend(IrqText) \in [0 .. Len(IrqText) -> Seq(Char)]
            /\ Rendered(IrqText) = Rend(IrqText)[Len(IrqText)]
        BY RendIs, TextIs
      <4> QED BY <4>1, <4>2
    <3>4. Begins(Rendered(IrqText), Rendered(IrqText))
      BY <3>3 DEF Begins
    <3> QED BY <3>2, <3>3, <3>4, BeginsIsPrefix
  <2> QED BY <2>1, <2>2
<1> QED BY <1>3, <1>4 DEF InOrder

(***************************************************************************)
(* What each context prints comes out in its order with every newline      *)
(* rendered, for all texts: dw_uart_puts neither skips nor repeats a       *)
(* character nor loses a '\r', wherever interrupts cut it, and the message *)
(* of every interrupt but the last is complete.                            *)
(***************************************************************************)
THEOREM PrintedInOrder == Spec => []InOrder
<1>1. Init => ConsoleInv /\ CRHolds /\ OrderInv
  BY InitConsoleInv, InitOrderInv
<1>2. ConsoleInv /\ CRHolds /\ OrderInv /\ [Next]_vars
        => (ConsoleInv /\ CRHolds /\ OrderInv)'
  BY ConsoleInvStep, CRHoldsStep, OrderInvStep
<1>3. ConsoleInv /\ CRHolds /\ OrderInv => InOrder
  BY OrderInvInOrder
<1> QED BY <1>1, <1>2, <1>3, PTL DEF Spec

=============================================================================
