---------------------------- MODULE ShellProofs ----------------------------
(***************************************************************************)
(* Theorems about the line input, for every size of the buffer, whatever   *)
(* it held before, every prompt and every set of keys: the screen shows the*)
(* line, and the shell is the line editor of module LineEditor.            *)
(***************************************************************************)
EXTENDS Shell, Basics

-----------------------------------------------------------------------------
(* The terminal.                                                           *)

Char == Key \cup {Prompt[k] : k \in 1 .. Len(Prompt)}
        \cup {" ", "\r", "\n", "BS", "DEL"}

Screen == {s \in [row : Seq(Char), col : Nat] : s.col <= Len(s.row)}

(* Characters that take one column.                                        *)
Printing == Char \ {"\r", "\n", "BS"}

LEMMA BlanksIs ==
  ASSUME NEW n \in Nat
  PROVE  Blanks(n) \in Seq(Char) /\ Len(Blanks(n)) = n
<1>1. Blanks(n) \in [1 .. n -> Char]
  BY DEF Blanks, Char
<1> QED BY <1>1, FunctionIsSeq

(* A character put on a row.                                               *)
LEMMA RowIs ==
  ASSUME NEW row \in Seq(Char), NEW col \in 0 .. Len(row), NEW c \in Char
  PROVE  /\ Replaced(row, col, c) \in Seq(Char)
         /\ Len(Replaced(row, col, c)) = IF col = Len(row) THEN col + 1 ELSE Len(row)
         /\ \A k \in 1 .. Len(Replaced(row, col, c)) :
              Replaced(row, col, c)[k] = IF k = col + 1 THEN c ELSE row[k]
<1> DEFINE C == Char
<1>1. row \in Seq(C) /\ col \in 0 .. Len(row) /\ c \in C
  OBVIOUS
<1> HIDE DEF C
<1>2. /\ Replaced(row, col, c) \in Seq(C)
      /\ Len(Replaced(row, col, c)) = IF col = Len(row) THEN col + 1 ELSE Len(row)
      /\ \A k \in 1 .. Len(Replaced(row, col, c)) :
           Replaced(row, col, c)[k] = IF k = col + 1 THEN c ELSE row[k]
  BY <1>1, ReplaceIs
<1> QED BY <1>2 DEF C

(* What a printing character does to a row.                                *)
LEMMA ShowPrinting ==
  ASSUME NEW s \in Screen, NEW c \in Printing
  PROVE  /\ Show(s, c) \in Screen
         /\ Show(s, c).col = s.col + 1
         /\ Len(Show(s, c).row) = IF s.col = Len(s.row) THEN s.col + 1
                                  ELSE Len(s.row)
         /\ \A k \in 1 .. Len(Show(s, c).row) :
              Show(s, c).row[k] = IF k = s.col + 1 THEN c ELSE s.row[k]
<1>1. PICK row \in Seq(Char), col \in Nat :
        s = [row |-> row, col |-> col] /\ col \in 0 .. Len(row)
  BY DEF Screen
<1>2. c \in Char
  BY DEF Printing
<1>3. Show(s, c) = [row |-> Replaced(row, col, c), col |-> col + 1]
  BY <1>1 DEF Show, Printing, Replaced
<1>4. /\ Replaced(row, col, c) \in Seq(Char)
      /\ Len(Replaced(row, col, c)) = IF col = Len(row) THEN col + 1 ELSE Len(row)
      /\ \A k \in 1 .. Len(Replaced(row, col, c)) :
           Replaced(row, col, c)[k] = IF k = col + 1 THEN c ELSE row[k]
  <2>1. col \in 0 .. Len(row)
    BY <1>1
  <2> QED BY <1>2, <2>1, RowIs
<1>5. Show(s, c) \in Screen
  <2>1. col + 1 <= Len(Replaced(row, col, c))
    BY <1>1, <1>4
  <2> QED BY <1>3, <1>4, <2>1 DEF Screen
<1> QED BY <1>1, <1>3, <1>4, <1>5

LEMMA ShowKeeps ==
  ASSUME NEW s \in Screen, NEW c \in Char
  PROVE  Show(s, c) \in Screen
<1>1. s.row \in Seq(Char) /\ s.col \in 0 .. Len(s.row) /\ Len(s.row) \in Nat
      /\ s \in [row : Seq(Char), col : Nat]
  BY DEF Screen
<1>2. CASE c \in Printing
  BY <1>2, ShowPrinting
<1>3. CASE c = "\n"
  BY <1>1, <1>3, BlanksIs DEF Show, Screen
<1>4. CASE c = "\r"
  BY <1>1, <1>4 DEF Show, Screen
<1>5. CASE c = "BS"
  <2>1. Show(s, c) = [s EXCEPT !.col = IF s.col = 0 THEN 0 ELSE s.col - 1]
    BY <1>5 DEF Show
  <2>2. (IF s.col = 0 THEN 0 ELSE s.col - 1) \in 0 .. Len(s.row)
    BY <1>1
  <2> QED BY <1>1, <2>1, <2>2 DEF Screen
<1> QED BY <1>2, <1>3, <1>4, <1>5 DEF Printing

(* ShowAll's recursion: n characters of the text have been shown.          *)
Shown(f, s, text) ==
  f = [n \in 0 .. Len(text) |->
         IF n = 0 THEN s ELSE Show(f[n-1], text[n])]

LEMMA ShowAllIs ==
  ASSUME NEW s \in Screen, NEW text \in Seq(Char)
  PROVE  \E f \in [0 .. Len(text) -> Screen] :
           /\ f[0] = s
           /\ \A n \in 1 .. Len(text) : f[n] = Show(f[n-1], text[n])
           /\ ShowAll(s, text) = f[Len(text)]
<1> DEFINE N == Len(text)
           step == [n \in 1 .. N |-> [x \in Screen |-> Show(x, text[n])]]
           f == CHOOSE f : Shown(f, s, text)
<1>0. N \in Nat /\ \A n \in 1 .. N : text[n] \in Char
  OBVIOUS
<1> HIDE DEF N
<1>1. step \in [1 .. N -> [Screen -> Screen]]
  BY <1>0, ShowKeeps
<1>2. PICK g \in [0 .. N -> Screen] : Iterates(g, N, s, step)
  <2> HIDE DEF step
  <2> QED BY <1>0, <1>1, Recursion
<1>3. Shown(g, s, text)
  <2>1. \A n \in 0 .. N : g[n] = IF n = 0 THEN s ELSE step[n][g[n-1]]
    <3> HIDE DEF step
    <3> QED BY <1>2 DEF Iterates
  <2>2. ASSUME NEW n \in 0 .. N
        PROVE  g[n] = IF n = 0 THEN s ELSE Show(g[n-1], text[n])
    <3>1. CASE n = 0
      BY <2>1, <3>1
    <3>2. CASE n # 0
      <4>1. n \in 1 .. N /\ n - 1 \in 0 .. N /\ g[n-1] \in Screen
        BY <1>0, <3>2
      <4> QED BY <2>1, <3>2, <4>1
    <3> QED BY <3>1, <3>2
  <2>3. g = [n \in 0 .. N |-> g[n]]
    BY <1>2
  <2> QED BY <2>2, <2>3 DEF Shown, N
<1>4. Shown(f, s, text)
  BY <1>3
<1>5. ShowAll(s, text) = f[N]
  BY DEF ShowAll, Shown, N
<1> HIDE DEF f
<1>6. \A n \in 0 .. N : f[n] = IF n = 0 THEN s ELSE Show(f[n-1], text[n])
  BY <1>4 DEF Shown, N
<1>7. f = [n \in 0 .. N |-> f[n]]
  BY <1>4 DEF Shown, N
<1> DEFINE T == {n \in 0 .. N : f[n] \in Screen}
<1>8. 0 .. N \subseteq T
  <2>1. 0 \in T
    BY <1>0, <1>6
  <2>2. ASSUME NEW n \in 0 .. N-1, n \in T PROVE n + 1 \in T
    <3>1. n + 1 \in 1 .. N /\ n + 1 # 0 /\ (n + 1) - 1 = n /\ n + 1 \in 0 .. N
      BY <1>0
    <3>2. f[n + 1] = Show(f[n], text[n + 1]) /\ f[n] \in Screen
      BY <1>6, <2>2, <3>1
    <3> QED BY <1>0, <3>1, <3>2, ShowKeeps
  <2> HIDE DEF T
  <2> QED BY <1>0, <2>1, <2>2, SetInduction
<1>9. f \in [0 .. N -> Screen]
  BY <1>7, <1>8
<1>10. /\ f[0] = s
       /\ \A n \in 1 .. N : f[n] = Show(f[n-1], text[n])
  BY <1>0, <1>6
<1> QED BY <1>5, <1>9, <1>10 DEF N

LEMMA PromptIs ==
  /\ Prompt \in Seq(Char) /\ Len(Prompt) \in Nat
  /\ \A k \in 1 .. Len(Prompt) : Prompt[k] \in Printing
<1>1. Prompt \in Seq(STRING) /\ Len(Prompt) \in Nat
      /\ \A k \in 1 .. Len(Prompt) : Prompt[k] \notin Erase \cup Enter
  BY ShellAssumption
<1>2. Prompt \in [1 .. Len(Prompt) -> Char]
  <2>1. \A k \in 1 .. Len(Prompt) : Prompt[k] \in Char
    BY DEF Char
  <2>2. Prompt = [k \in 1 .. Len(Prompt) |-> Prompt[k]]
    BY <1>1
  <2> QED BY <2>1, <2>2
<1>3. Prompt \in Seq(Char)
  BY <1>1, <1>2, FunctionIsSeq
<1> QED BY <1>1, <1>2, <1>3 DEF Printing, Erase, Enter

LEMMA ShowOne ==
  ASSUME NEW s \in Screen
  PROVE  /\ Show(s, "BS") = [row |-> s.row,
                            col |-> IF s.col = 0 THEN 0 ELSE s.col - 1]
         /\ " " \in Printing /\ {" ", "BS", "\r", "\n"} \subseteq Char
  BY DEF Screen, Show, Printing, Char

LEMMA ShowTwo ==
  ASSUME NEW s \in Screen, NEW c \in Char, NEW d \in Char
  PROVE  ShowAll(s, <<c, d>>) = Show(Show(s, c), d)
<1> DEFINE text == <<c, d>>
<1>1. text \in Seq(Char) /\ Len(text) = 2 /\ text[1] = c /\ text[2] = d
  OBVIOUS
<1> HIDE DEF text
<1>2. PICK f \in [0 .. 2 -> Screen] :
        /\ f[0] = s
        /\ \A n \in 1 .. 2 : f[n] = Show(f[n-1], text[n])
        /\ ShowAll(s, text) = f[2]
  BY <1>1, ShowAllIs
<1>3. f[1] = Show(f[0], c) /\ f[2] = Show(f[1], d)
  BY <1>1, <1>2
<1> QED BY <1>2, <1>3 DEF text

LEMMA ShowThree ==
  ASSUME NEW s \in Screen, NEW c \in Char, NEW d \in Char, NEW e \in Char
  PROVE  ShowAll(s, <<c, d, e>>) = Show(Show(Show(s, c), d), e)
<1> DEFINE text == <<c, d, e>>
<1>1. /\ text \in Seq(Char) /\ Len(text) = 3
      /\ text[1] = c /\ text[2] = d /\ text[3] = e
  OBVIOUS
<1> HIDE DEF text
<1>2. PICK f \in [0 .. 3 -> Screen] :
        /\ f[0] = s
        /\ \A n \in 1 .. 3 : f[n] = Show(f[n-1], text[n])
        /\ ShowAll(s, text) = f[3]
  BY <1>1, ShowAllIs
<1>3. f[1] = Show(f[0], c) /\ f[2] = Show(f[1], d) /\ f[3] = Show(f[2], e)
  BY <1>1, <1>2
<1> QED BY <1>2, <1>3 DEF text

LEMMA PutCharKeeps ==
  ASSUME NEW s \in Screen, NEW c \in Char
  PROVE  putchar(s, c) \in Screen
  BY ShowKeeps, ShowOne, ShowTwo DEF putchar

-----------------------------------------------------------------------------
(* The row while a line is read: the prompt, n characters of buffer b, and *)
(* blanks where characters were erased.                                    *)

OnRow(k, n, b) ==
  IF k <= Len(Prompt) THEN Prompt[k]
  ELSE IF k <= Len(Prompt) + n THEN b[k - Len(Prompt) - 1] ELSE " "

Shows(s, n, b) ==
  /\ s \in Screen
  /\ s.col = Len(Prompt) + n
  /\ \A k \in 1 .. Len(s.row) : s.row[k] = OnRow(k, n, b)

LEMMA PromptShown ==
  ASSUME NEW b
  PROVE  Shows(ShowAll([row |-> <<>>, col |-> 0], Prompt), 0, b)
<1> DEFINE s == [row |-> <<>>, col |-> 0]
           N == Len(Prompt)
<1>1. s \in Screen /\ Len(s.row) = 0 /\ s.col = 0
  BY DEF Screen
<1> HIDE DEF s
<1>2. PICK f \in [0 .. N -> Screen] :
        /\ f[0] = s
        /\ \A n \in 1 .. N : f[n] = Show(f[n-1], Prompt[n])
        /\ ShowAll(s, Prompt) = f[N]
  BY <1>1, PromptIs, ShowAllIs
<1> HIDE DEF N
<1>3. N \in Nat /\ \A k \in 1 .. N : Prompt[k] \in Printing
  BY PromptIs DEF N
<1> DEFINE Good(n) == /\ f[n].col = n /\ Len(f[n].row) = n
                      /\ \A k \in 1 .. n : f[n].row[k] = Prompt[k]
           T == {n \in 0 .. N : Good(n)}
<1>4. 0 .. N \subseteq T
  <2>1. 0 \in T
    BY <1>1, <1>2, <1>3
  <2>2. ASSUME NEW n \in 0 .. N-1, n \in T PROVE n + 1 \in T
    <3>1. n \in Nat /\ n + 1 \in 1 .. N /\ n + 1 \in 0 .. N /\ n \in 0 .. N
          /\ (n + 1) - 1 = n
      BY <1>3
    <3>2. f[n+1] = Show(f[n], Prompt[n+1]) /\ f[n] \in Screen
          /\ Prompt[n+1] \in Printing
      BY <1>2, <1>3, <3>1
    <3>3. /\ f[n].col = n /\ Len(f[n].row) = n
          /\ \A k \in 1 .. n : f[n].row[k] = Prompt[k]
      BY <2>2
    <3>4. /\ f[n+1].col = n + 1
          /\ Len(f[n+1].row) = n + 1
          /\ \A k \in 1 .. n+1 :
               f[n+1].row[k] = IF k = n + 1 THEN Prompt[n+1] ELSE f[n].row[k]
      <4> DEFINE x == f[n]
                 c == Prompt[n+1]
                 y == Show(x, c)
      <4>1. x \in Screen /\ c \in Printing
        BY <3>2
      <4> HIDE DEF x, c
      <4>2. /\ y.col = x.col + 1
            /\ Len(y.row) = IF x.col = Len(x.row) THEN x.col + 1
                            ELSE Len(x.row)
            /\ \A k \in 1 .. Len(y.row) :
                 y.row[k] = IF k = x.col + 1 THEN c ELSE x.row[k]
        BY <4>1, ShowPrinting
      <4>3. f[n+1] = y /\ x.col = n /\ Len(x.row) = n
        BY <3>2, <3>3 DEF x, c
      <4> HIDE DEF y
      <4>4. /\ f[n+1].col = n + 1
            /\ Len(f[n+1].row) = n + 1
            /\ \A k \in 1 .. n+1 :
                 f[n+1].row[k] = IF k = n + 1 THEN c ELSE x.row[k]
        BY <3>1, <4>2, <4>3
      <4> QED BY <4>4 DEF x, c
    <3>5. ASSUME NEW k \in 1 .. n+1 PROVE f[n+1].row[k] = Prompt[k]
      BY <3>1, <3>3, <3>4
    <3> QED BY <3>1, <3>4, <3>5
  <2> HIDE DEF T
  <2> QED BY <1>3, <2>1, <2>2, SetInduction
<1>5. N \in T
  BY <1>3, <1>4
<1>6. f[N] \in Screen /\ Good(N)
  BY <1>2, <1>3, <1>5
<1> DEFINE r == f[N]
<1>7. /\ r \in Screen /\ r.col = N /\ Len(r.row) = N
      /\ \A k \in 1 .. N : r.row[k] = Prompt[k]
  BY <1>6
<1> HIDE DEF r
<1>8. Shows(r, 0, b)
  BY <1>3, <1>7 DEF Shows, OnRow, N
<1> QED BY <1>2, <1>8 DEF r, s, N

LEMMA TypedShown ==
  ASSUME NEW s, NEW n \in Nat, NEW b, Shows(s, n, b), NEW c \in Printing,
         NEW d, d[n] = c, \A k \in 0 .. n-1 : d[k] = b[k]
  PROVE  Shows(Show(s, c), n + 1, d)
<1> DEFINE y == Show(s, c)
           P == Len(Prompt)
           M == Len(s.row)
           N == Len(y.row)
<1>1. s \in Screen /\ s.col = P + n /\ P \in Nat /\ M \in Nat /\ P + n <= M
  BY PromptIs DEF Shows, Screen
<1>2. \A k \in 1 .. M : s.row[k] = OnRow(k, n, b)
  BY DEF Shows
<1>3. /\ y \in Screen /\ y.col = s.col + 1
      /\ N = IF s.col = M THEN s.col + 1 ELSE M
  BY <1>1, ShowPrinting
<1>4. \A k \in 1 .. N : y.row[k] = IF k = s.col + 1 THEN c ELSE s.row[k]
  BY <1>1, ShowPrinting
<1> HIDE DEF y, P, M, N
<1>5. y.col = P + (n + 1) /\ N = IF P + n = M THEN P + n + 1 ELSE M
  BY <1>1, <1>3
<1>6. ASSUME NEW k \in 1 .. N
      PROVE  y.row[k] = OnRow(k, n + 1, d)
  <2>1. k \in Int /\ k >= 1 /\ k <= N /\ P \in Int /\ n \in Int
    BY <1>1, <1>5
  <2>2. CASE k = P + n + 1
    <3>1. k - P - 1 = n /\ ~(k <= P) /\ k <= P + (n + 1)
      BY <2>1, <2>2
    <3>2. y.row[k] = c
      BY <1>1, <1>4, <2>2
    <3>3. OnRow(k, n + 1, d) = d[n]
      BY <3>1 DEF OnRow, P
    <3> QED BY <3>2, <3>3
  <2>3. CASE k # P + n + 1
    <3>1. k \in 1 .. M
      BY <1>1, <1>5, <2>1, <2>3
    <3>2. y.row[k] = OnRow(k, n, b)
      <4>1. y.row[k] = s.row[k]
        BY <1>1, <1>4, <2>3
      <4> QED BY <1>2, <3>1, <4>1
    <3>3. OnRow(k, n, b) = OnRow(k, n + 1, d)
      <4>1. CASE k <= P
        BY <4>1 DEF OnRow, P
      <4>2. CASE P < k /\ k <= P + n
        <5>1. k - P - 1 \in 0 .. n-1 /\ ~(k <= P) /\ k <= P + (n + 1)
          BY <2>1, <4>2
        <5>2. OnRow(k, n, b) = b[k - P - 1]
          BY <4>2, <5>1 DEF OnRow, P
        <5>3. OnRow(k, n + 1, d) = d[k - P - 1]
          BY <5>1 DEF OnRow, P
        <5> QED BY <5>1, <5>2, <5>3
      <4>3. CASE P + n < k
        <5>1. ~(k <= P) /\ ~(k <= P + n) /\ ~(k <= P + (n + 1))
          BY <2>1, <2>3, <4>3
        <5> QED BY <5>1 DEF OnRow, P
      <4> QED BY <2>1, <4>1, <4>2, <4>3
    <3> QED BY <3>2, <3>3
  <2> QED BY <2>2, <2>3
<1> QED BY <1>3, <1>5, <1>6 DEF Shows, y, P, N

LEMMA RubbedShown ==
  ASSUME NEW s, NEW n \in Nat, n > 0, NEW b, Shows(s, n, b)
  PROVE  Shows(Rubbed(s), n - 1, b)
<1> DEFINE x == Show(s, "BS")
           y == Show(x, " ")
           z == Show(y, "BS")
           P == Len(Prompt)
           M == Len(s.row)
<1>1. s \in Screen /\ s.col = P + n /\ P \in Nat /\ M \in Nat /\ P + n <= M
  BY PromptIs DEF Shows, Screen
<1>2. \A k \in 1 .. M : s.row[k] = OnRow(k, n, b)
  BY DEF Shows
<1>3. Rubbed(s) = z
  BY <1>1, ShowOne, ShowThree DEF Rubbed
<1>4. /\ x \in Screen
      /\ x = [row |-> s.row, col |-> IF s.col = 0 THEN 0 ELSE s.col - 1]
  <2>1. "BS" \in Char
    BY <1>1, ShowOne
  <2> QED BY <1>1, <2>1, ShowOne, ShowKeeps
<1> HIDE DEF x, P
<1>5. /\ y \in Screen /\ y.col = x.col + 1
      /\ Len(y.row) = IF x.col = Len(x.row) THEN x.col + 1 ELSE Len(x.row)
      /\ \A k \in 1 .. Len(y.row) :
            y.row[k] = IF k = x.col + 1 THEN " " ELSE x.row[k]
  <2>1. " " \in Printing
    BY <1>1, ShowOne
  <2> QED BY <1>4, <2>1, ShowPrinting
<1> HIDE DEF y
<1>6. x.row = s.row /\ x.col = IF s.col = 0 THEN 0 ELSE s.col - 1
  BY <1>4
<1>7. /\ z \in Screen
      /\ z = [row |-> y.row, col |-> IF y.col = 0 THEN 0 ELSE y.col - 1]
  <2>1. "BS" \in Char
    BY <1>1, ShowOne
  <2> QED BY <1>5, <2>1, ShowOne, ShowKeeps
<1> HIDE DEF z
<1>8. z.row = y.row /\ z.col = IF y.col = 0 THEN 0 ELSE y.col - 1
  BY <1>7
<1>9. x.col + 1 = P + n /\ z.col = P + (n - 1) /\ Len(y.row) = M
  <2>1. y.col = x.col + 1 /\ Len(x.row) = M
        /\ Len(y.row) = IF x.col = Len(x.row) THEN x.col + 1 ELSE Len(x.row)
    BY <1>5, <1>6
  <2> HIDE DEF M
  <2>2. x.col = P + n - 1
    BY <1>1, <1>6
  <2>3. y.col = P + n
    BY <1>1, <2>1, <2>2
  <2> QED BY <1>1, <1>8, <2>1, <2>2, <2>3
<1> HIDE DEF M
<1>10. ASSUME NEW k \in 1 .. Len(z.row)
       PROVE  z.row[k] = OnRow(k, n - 1, b)
  <2>1. k \in 1 .. M /\ k \in Int /\ P \in Int
    BY <1>1, <1>8, <1>9
  <2>2. z.row[k] = IF k = P + n THEN " " ELSE s.row[k]
    <3>1. y.row[k] = IF k = x.col + 1 THEN " " ELSE x.row[k]
      BY <1>5, <1>8
    <3> QED BY <1>6, <1>8, <1>9, <3>1
  <2>3. CASE k = P + n
    <3>1. ~(k <= P) /\ ~(k <= P + (n - 1))
      BY <2>1, <2>3
    <3> QED BY <2>2, <2>3, <3>1 DEF OnRow, P
  <2>4. CASE k # P + n
    <3>1. k <= P + n <=> k <= P + (n - 1)
      BY <2>1, <2>4
    <3>2. OnRow(k, n, b) = OnRow(k, n - 1, b)
      BY <3>1 DEF OnRow, P
    <3> QED BY <1>2, <2>1, <2>2, <2>4, <3>2
  <2> QED BY <2>3, <2>4
<1> QED BY <1>3, <1>7, <1>9, <1>10 DEF Shows, P

-----------------------------------------------------------------------------
(* The inductive invariant: the characters below i are those of the line,  *)
(* and the buffer ends where the line does once it is complete.            *)

Plain == Key \ (Erase \cup Enter)

LineTyped ==
  stage \in {"gets", "command"} => \A k \in 0 .. i-1 : buf[k] \in Plain

LineEnds == stage = "command" => buf[i] = NUL

LineShown == stage = "gets" => Shows(screen, i, buf)

ShellInv == TypeOK /\ screen \in Screen /\ LineTyped /\ LineEnds /\ LineShown

LEMMA SizeIs == Size \in Nat /\ Size > 1 /\ Index = 0 .. Size-1
  BY ShellAssumption DEF Index

LEMMA KeyIs ==
  /\ Key \subseteq Char /\ Plain \subseteq Printing /\ NUL \notin Key
  /\ Enter \cup {"\r", "\n"} \subseteq Char
  /\ Erase \cap Enter = {}
  BY ShellAssumption DEF Char, Plain, Printing, Erase, Enter

LEMMA ScreenIs ==
  ASSUME NEW s \in Screen
  PROVE  s.col \in Nat /\ s.col <= Len(s.row)
  BY DEF Screen

(* What getchar takes is a key of the set, and keys stay keys.             *)
LEMMA GetCharIs ==
  ASSUME NEW set, TypeOK, GetChar(set)
  PROVE  /\ Head(rx) \in set /\ Head(rx) \in Key
         /\ rx' \in Seq(Key) /\ Len(rx') <= RxDepth
         /\ keys' \in Seq(Key) /\ keys' = Append(keys, Head(rx))
<1>1. rx \in Seq(Key) /\ rx # <<>> /\ Len(rx) <= RxDepth /\ keys \in Seq(Key)
      /\ RxDepth \in Nat
  BY ShellAssumption DEF TypeOK, GetChar
<1>2. /\ Head(rx) \in Key
      /\ Tail(rx) \in Seq(Key) /\ Len(Tail(rx)) = Len(rx) - 1 /\ Len(rx) \in Nat
  BY <1>1, HeadTailProperties
<1> QED BY <1>1, <1>2 DEF GetChar

(* Where the loop over trailing blanks stops, and that it stops there only.*)
LEMMA TrimmedLenIs ==
  ASSUME i \in Nat
  PROVE  /\ TrimmedLen \in 0 .. i
         /\ \A k \in TrimmedLen .. i-1 : buf[k] \in Blank
         /\ TrimmedLen > 0 => buf[TrimmedLen - 1] \notin Blank
<1> DEFINE S == {n \in 0 .. i : \A k \in n .. i-1 : buf[k] \in Blank}
<1>1. S # {} /\ S \in SUBSET (0 .. i)
  <2>1. i \in S
    OBVIOUS
  <2> QED BY <2>1
<1>2. PICK n \in S : \A m \in S : n <= m
  <2> HIDE DEF S
  <2> QED BY <1>1, LeastElement
<1>3. ASSUME n > 0, buf[n-1] \in Blank PROVE FALSE
  <2>1. n \in 0 .. i /\ n - 1 \in 0 .. i
    BY <1>3
  <2>2. ASSUME NEW k \in n-1 .. i-1 PROVE buf[k] \in Blank
    <3>1. k = n - 1 \/ k \in n .. i-1
      BY <2>1
    <3> QED BY <1>3, <3>1
  <2>3. n - 1 \in S
    BY <2>1, <2>2
  <2> HIDE DEF S
  <2>4. n <= n - 1
    BY <1>2, <2>3
  <2> QED BY <2>1, <2>4
<1>4. n \in 0 .. i /\ (\A k \in n .. i-1 : buf[k] \in Blank)
      /\ (n > 0 => buf[n-1] \notin Blank)
  BY <1>3
<1> HIDE DEF S
<1> QED BY <1>4 DEF TrimmedLen

LEMMA InitInv == Init => ShellInv
<1> SUFFICES ASSUME Init PROVE ShellInv
  OBVIOUS
<1>1. screen \in Screen /\ screen.col \in Nat /\ screen.col <= Len(screen.row)
  <2>1. screen = [row |-> <<>>, col |-> 0]
    BY DEF Init
  <2> QED BY <2>1 DEF Screen
<1>2. rx \in Seq(Key) /\ Len(rx) <= RxDepth /\ keys \in Seq(Key)
  BY ShellAssumption DEF Init
<1>3. buf \in Buffer /\ i \in Index
  BY ShellAssumption, SizeIs DEF Init
<1> QED BY <1>1, <1>2, <1>3
        DEF Init, TypeOK, ShellInv, LineTyped, LineEnds, LineShown

LEMMA EraseKeyInv == ShellInv /\ EraseKey => ShellInv'
<1> SUFFICES ASSUME ShellInv, EraseKey PROVE ShellInv'
  OBVIOUS
<1>1. /\ TypeOK /\ screen \in Screen /\ i \in 0 .. Size-1 /\ Size \in Nat
      /\ Shows(screen, i, buf) /\ \A k \in 0 .. i-1 : buf[k] \in Plain
  BY SizeIs DEF ShellInv, TypeOK, LineTyped, LineShown, EraseKey, Reading
<1>2. /\ rx' \in Seq(Key) /\ Len(rx') <= RxDepth /\ keys' \in Seq(Key)
      /\ driver' = driver /\ stage' = stage /\ buf' = buf /\ stage = "gets"
  BY <1>1, GetCharIs DEF EraseKey, Reading
<1>3. /\ i' \in 0 .. Size-1 /\ i' <= i
      /\ Shows(screen', i', buf)
  <2>1. CASE i > 0
    <3>1. i' = i - 1 /\ screen' = Rubbed(screen)
      BY <2>1 DEF EraseKey
    <3>2. Shows(Rubbed(screen), i - 1, buf)
      BY <1>1, <2>1, RubbedShown
    <3> QED BY <1>1, <2>1, <3>1, <3>2
  <2>2. CASE ~(i > 0)
    <3>1. i' = i /\ screen' = screen
      BY <2>2 DEF EraseKey
    <3> QED BY <1>1, <3>1
  <2> QED BY <2>1, <2>2
<1>4. screen' \in Screen
  BY <1>3 DEF Shows
<1>5. screen'.col \in Nat /\ screen'.col <= Len(screen'.row)
  BY <1>4, ScreenIs
<1>6. \A k \in 0 .. i'-1 : buf[k] \in Plain
  <2>1. i \in Int /\ i' \in Int /\ i' <= i
    BY <1>1, <1>3
  <2> DEFINE j == i'
  <2>2. j \in Int /\ j <= i
    BY <2>1
  <2> HIDE DEF j
  <2>3. \A k \in 0 .. j-1 : k \in 0 .. i-1
    BY <2>1, <2>2
  <2>4. \A k \in 0 .. j-1 : buf[k] \in Plain
    BY <1>1, <2>3
  <2> QED BY <2>4 DEF j
<1> QED BY <1>1, <1>2, <1>3, <1>4, <1>5, <1>6, SizeIs
        DEF TypeOK, ShellInv, LineTyped, LineEnds, LineShown

LEMMA EnterKeyInv == ShellInv /\ EnterKey => ShellInv'
<1> SUFFICES ASSUME ShellInv, EnterKey PROVE ShellInv'
  OBVIOUS
<1>1. /\ TypeOK /\ screen \in Screen /\ i \in 0 .. Size-1 /\ Size \in Nat
      /\ \A k \in 0 .. i-1 : buf[k] \in Plain
      /\ buf \in Buffer
  BY SizeIs DEF ShellInv, TypeOK, LineTyped, EnterKey, Reading
<1>2. /\ rx' \in Seq(Key) /\ Len(rx') <= RxDepth /\ keys' \in Seq(Key)
      /\ Head(rx) \in Enter
      /\ driver' = driver /\ i' = i /\ stage' = "command"
      /\ buf' = [buf EXCEPT ![i] = NUL]
  BY <1>1, GetCharIs DEF EnterKey
<1>3. screen' \in Screen
  <2>1. EchoOfEnter(Head(rx)) \in Char /\ "\n" \in Char
    BY <1>2, KeyIs DEF EchoOfEnter
  <2>2. putchar(putchar(screen, EchoOfEnter(Head(rx))), "\n") \in Screen
    BY <1>1, <2>1, PutCharKeeps
  <2> QED BY <2>2 DEF EnterKey
<1>4. screen'.col \in Nat /\ screen'.col <= Len(screen'.row)
  BY <1>3, ScreenIs
<1>5. /\ buf' \in Buffer /\ buf'[i] = NUL
      /\ \A k \in 0 .. i-1 : buf'[k] = buf[k]
  BY <1>1, <1>2, SizeIs DEF Buffer
<1>6. Terminated(buf')
  BY <1>1, <1>5, SizeIs DEF Terminated
<1> QED BY <1>1, <1>2, <1>3, <1>4, <1>5, <1>6, SizeIs
        DEF TypeOK, ShellInv, LineTyped, LineEnds, LineShown

LEMMA CharKeyInv == ShellInv /\ CharKey => ShellInv'
<1> SUFFICES ASSUME ShellInv, CharKey PROVE ShellInv'
  OBVIOUS
<1>1. /\ TypeOK /\ screen \in Screen /\ i \in 0 .. Size-2 /\ Size \in Nat
      /\ Shows(screen, i, buf) /\ \A k \in 0 .. i-1 : buf[k] \in Plain
      /\ buf \in Buffer
  BY SizeIs DEF ShellInv, TypeOK, LineTyped, LineShown, CharKey, Reading
<1>2. /\ rx' \in Seq(Key) /\ Len(rx') <= RxDepth /\ keys' \in Seq(Key)
      /\ Head(rx) \in Plain /\ Head(rx) \in Printing
      /\ driver' = driver /\ i' = i + 1 /\ stage' = stage /\ stage = "gets"
      /\ buf' = [buf EXCEPT ![i] = Head(rx)]
      /\ screen' = Show(screen, Head(rx))
  <2>1. Head(rx) \in Key \ (Erase \cup Enter)
    BY <1>1, GetCharIs DEF CharKey
  <2>2. Head(rx) \in Plain /\ Head(rx) \in Printing /\ Head(rx) # "\n"
    BY <2>1, KeyIs DEF Plain, Enter
  <2> QED BY <1>1, <2>2, GetCharIs DEF CharKey, Reading, putchar
<1>3. /\ buf' \in Buffer /\ buf'[i] = Head(rx)
      /\ \A k \in 0 .. i-1 : buf'[k] = buf[k]
  BY <1>1, <1>2, SizeIs DEF Buffer, Plain
<1>4. Shows(screen', i', buf')
  <2> DEFINE c == Head(rx)
             d == buf'
  <2>1. i \in Nat /\ c \in Printing /\ d[i] = c
        /\ \A k \in 0 .. i-1 : d[k] = buf[k]
    BY <1>1, <1>2, <1>3
  <2> HIDE DEF c, d
  <2>2. Shows(Show(screen, c), i + 1, d)
    BY <1>1, <2>1, TypedShown
  <2> QED BY <1>2, <2>2 DEF c, d
<1>5. screen' \in Screen
  BY <1>4 DEF Shows
<1>6. screen'.col \in Nat /\ screen'.col <= Len(screen'.row)
  BY <1>5, ScreenIs
<1>7. i' \in 0 .. Size-1 /\ \A k \in 0 .. i'-1 : buf'[k] \in Plain
  BY <1>1, <1>2, <1>3
<1> QED BY <1>1, <1>2, <1>3, <1>4, <1>5, <1>6, <1>7, SizeIs
        DEF TypeOK, ShellInv, LineTyped, LineEnds, LineShown

LEMMA FullInv == ShellInv /\ Full => ShellInv'
<1> SUFFICES ASSUME ShellInv, Full PROVE ShellInv'
  OBVIOUS
<1>1. /\ TypeOK /\ screen \in Screen /\ i \in 0 .. Size-1
      /\ \A k \in 0 .. i-1 : buf[k] \in Plain
      /\ buf \in Buffer
  BY SizeIs DEF ShellInv, TypeOK, LineTyped, Full
<1>2. /\ buf' = [buf EXCEPT ![i] = NUL] /\ stage' = "command"
      /\ UNCHANGED <<driver, rx, i, screen, keys>>
  BY DEF Full
<1>3. /\ buf' \in Buffer /\ buf'[i] = NUL
      /\ \A k \in 0 .. i-1 : buf'[k] = buf[k]
  BY <1>1, <1>2, SizeIs DEF Buffer
<1>4. Terminated(buf')
  BY <1>1, <1>3, SizeIs DEF Terminated
<1> QED BY <1>1, <1>2, <1>3, <1>4
        DEF TypeOK, ShellInv, LineTyped, LineEnds, LineShown

LEMMA RunCommandInv == ShellInv /\ RunCommand => ShellInv'
<1> SUFFICES ASSUME ShellInv, RunCommand PROVE ShellInv'
  OBVIOUS
<1>1. /\ TypeOK /\ screen \in Screen /\ i \in 0 .. Size-1 /\ Size \in Nat
      /\ buf \in Buffer
  BY SizeIs DEF ShellInv, TypeOK
<1>2. /\ stage' \in {"boot", "prompt", "idle"}
      /\ UNCHANGED <<driver, rx, screen, keys>>
  BY DEF RunCommand, StageAfter
<1>3. buf' \in Buffer /\ i' \in Index
  <2>1. TrimmedLen \in 0 .. Size-1
    BY <1>1, TrimmedLenIs
  <2>2. Trim \in Buffer
    BY <1>1 DEF Trim, Buffer
  <2> QED BY <1>1, <2>1, <2>2, SizeIs DEF RunCommand
<1> QED BY <1>1, <1>2, <1>3
        DEF TypeOK, ShellInv, LineTyped, LineEnds, LineShown

LEMMA NextInv == ShellInv /\ [Next]_vars => ShellInv'
<1> SUFFICES ASSUME ShellInv, [Next]_vars PROVE ShellInv'
  OBVIOUS
<1> USE DEF ShellInv, LineTyped, LineEnds, LineShown
<1>1. CASE Press
  <2>1. /\ rx \in Seq(Key) /\ Len(rx) < RxDepth
        /\ UNCHANGED <<driver, stage, buf, i, screen, keys>>
    BY <1>1 DEF Press, TypeOK
  <2>2. PICK k \in Key : rx' = Append(rx, k)
    BY <1>1 DEF Press
  <2>3. rx' \in Seq(Key) /\ Len(rx') <= RxDepth
    BY <2>1, <2>2, ShellAssumption
  <2> QED BY <2>1, <2>3 DEF TypeOK
<1>2. CASE Boot
  BY <1>2, ShellAssumption DEF Boot, TypeOK
<1>3. CASE ShowPrompt
  <2>1. /\ stage' = "gets" /\ i' = 0
        /\ screen' = ShowAll([row |-> <<>>, col |-> 0], Prompt)
        /\ UNCHANGED <<driver, rx, buf, keys>>
    BY <1>3 DEF ShowPrompt
  <2>2. Shows(screen', 0, buf')
    BY <2>1, PromptShown
  <2>3. screen' \in Screen
    BY <2>2 DEF Shows
  <2>4. screen'.col \in Nat /\ screen'.col <= Len(screen'.row)
    BY <2>3, ScreenIs
  <2>5. i' \in Index
    BY <2>1, SizeIs
  <2> QED BY <2>1, <2>2, <2>3, <2>4, <2>5 DEF TypeOK
<1>4. CASE UNCHANGED vars
  BY <1>4 DEF vars, TypeOK
<1> QED BY <1>1, <1>2, <1>3, <1>4, EraseKeyInv, EnterKeyInv, CharKeyInv,
           FullInv, RunCommandInv DEF Next, ShellStep

LEMMA InvIsInvariant == Spec => []ShellInv
  BY InitInv, NextInv, PTL DEF Spec

-----------------------------------------------------------------------------

(***************************************************************************)
(* In every state of the line input its variables have their types: the    *)
(* reader's index stays in the buffer, the buffer is terminated when it is *)
(* looked up, and the column stays in the row.                             *)
(***************************************************************************)
THEOREM TypeCorrect == Spec => []TypeOK
  BY InvIsInvariant, PTL DEF ShellInv

(* The first n characters of buffer b.                                     *)
Chars(b, n) == [k \in 1 .. n |-> b[k - 1]]

LEMMA CharsIs ==
  ASSUME NEW S, NEW b, NEW n \in Nat, \A k \in 0 .. n-1 : b[k] \in S
  PROVE  Chars(b, n) \in Seq(S) /\ Len(Chars(b, n)) = n
<1>1. Chars(b, n) \in [1 .. n -> S]
  BY DEF Chars
<1> QED BY <1>1, FunctionIsSeq DEF Chars

LEMMA ShowsLine ==
  ASSUME NEW s, NEW n \in Nat, NEW b, Shows(s, n, b),
         \A k \in 0 .. n-1 : b[k] \in Plain
  PROVE  /\ s.col = Len(Prompt) + n
         /\ SubSeq(s.row, 1, s.col) = Prompt \o Chars(b, n)
         /\ \A k \in s.col + 1 .. Len(s.row) : s.row[k] = " "
<1> DEFINE P == Len(Prompt)
           text == Chars(b, n)
           M == Len(s.row)
           u == SubSeq(s.row, 1, P + n)
           v == Prompt \o text
<1>1. P \in Nat /\ M \in Nat /\ P + n <= M /\ s.row \in Seq(Char)
      /\ s.col = P + n
  BY PromptIs DEF Shows, Screen
<1>2. \A k \in 1 .. M : s.row[k] = OnRow(k, n, b)
  BY DEF Shows
<1>3. /\ text \in Seq(Char) /\ Len(text) = n
      /\ \A k \in 1 .. n : text[k] = b[k - 1]
  <2>1. \A k \in 0 .. n-1 : b[k] \in Char
    BY KeyIs DEF Plain
  <2>2. n \in Nat
    OBVIOUS
  <2>3. Chars(b, n) \in Seq(Char) /\ Len(Chars(b, n)) = n
    BY <2>1, <2>2, CharsIs
  <2>4. \A k \in 1 .. n : Chars(b, n)[k] = b[k - 1]
    BY DEF Chars
  <2> QED BY <2>3, <2>4
<1>4. /\ u \in Seq(Char) /\ Len(u) = P + n
      /\ \A k \in 1 .. P + n : u[k] = s.row[k]
  <2>1. P + n \in 0 .. Len(s.row) /\ 1 \in Nat \ {0}
    BY <1>1
  <2>2. /\ u \in Seq(Char)
        /\ Len(u) = IF 1 <= P + n THEN P + n - 1 + 1 ELSE 0
        /\ \A k \in 1 .. P + n - 1 + 1 : u[k] = s.row[1 + k - 1]
    BY <1>1, <2>1, SubSeqIs
  <2> HIDE DEF u, P
  <2> QED BY <1>1, <2>2
<1>5. /\ v \in Seq(Char) /\ Len(v) = P + n
      /\ \A k \in 1 .. P : v[k] = Prompt[k]
      /\ \A k \in 1 .. n : v[P + k] = text[k]
  <2> HIDE DEF text
  <2>1. /\ v \in Seq(Char) /\ Len(v) = Len(Prompt) + Len(text)
        /\ \A k \in 1 .. Len(Prompt) : v[k] = Prompt[k]
        /\ \A k \in 1 .. Len(text) : v[Len(Prompt) + k] = text[k]
    <3>1. Prompt \in Seq(Char) /\ text \in Seq(Char)
      BY <1>3, PromptIs
    <3> QED BY <3>1, ConcatIs
  <2> QED BY <1>3, <2>1
<1> HIDE DEF u, v, text
<1>6. ASSUME NEW k \in 1 .. P + n PROVE u[k] = v[k]
  <2> HIDE DEF P, M
  <2>1. k \in Int /\ k \in 1 .. M /\ u[k] = OnRow(k, n, b)
    BY <1>1, <1>2, <1>4
  <2>2. CASE k <= P
    <3>1. k \in 1 .. P
      BY <1>1, <2>1, <2>2
    <3>2. OnRow(k, n, b) = Prompt[k]
      BY <2>2 DEF OnRow, P
    <3> QED BY <1>5, <2>1, <3>1, <3>2
  <2>3. CASE ~(k <= P)
    <3>1. k - P \in 1 .. n /\ P + (k - P) = k /\ k <= P + n
      BY <1>1, <2>1, <2>3
    <3>2. OnRow(k, n, b) = b[k - P - 1]
      BY <2>3, <3>1 DEF OnRow, P
    <3>3. v[P + (k - P)] = text[k - P] /\ text[k - P] = b[k - P - 1]
      BY <1>3, <1>5, <3>1
    <3> QED BY <2>1, <3>1, <3>2, <3>3
  <2> QED BY <2>2, <2>3
<1>7. u = v
  BY <1>4, <1>5, <1>6, SameSeq
<1>8. ASSUME NEW k \in P + n + 1 .. M PROVE s.row[k] = " "
  <2> HIDE DEF P, M
  <2>1. k \in 1 .. M /\ ~(k <= P) /\ ~(k <= P + n)
    BY <1>1
  <2> QED BY <1>2, <2>1 DEF OnRow, P
<1> QED BY <1>1, <1>7, <1>8 DEF u, v, text

(***************************************************************************)
(* While a line is read the terminal's row shows the prompt and the line   *)
(* that Enter would give, and nothing else, however keys and erasures      *)
(* follow each other: EraseKey takes off the screen what CharKey echoed.   *)
(***************************************************************************)
THEOREM ScreenIsLine == Spec => []ScreenShowsLine
<1>1. ShellInv => ScreenShowsLine
  <2> SUFFICES ASSUME ShellInv, stage = "gets"
               PROVE  /\ screen.col = Len(Prompt) + i
                      /\ SubSeq(screen.row, 1, screen.col) = Prompt \o Text(i)
                      /\ \A k \in screen.col + 1 .. Len(screen.row) :
                            screen.row[k] = " "
    BY DEF ScreenShowsLine
  <2>1. /\ i \in Nat /\ Shows(screen, i, buf)
        /\ \A k \in 0 .. i-1 : buf[k] \in Plain
    BY SizeIs DEF ShellInv, TypeOK, LineTyped, LineShown
  <2>2. Text(i) = Chars(buf, i)
    BY DEF Text, Chars
  <2> QED BY <2>1, <2>2, ShowsLine
<1> QED BY <1>1, InvIsInvariant, PTL

-----------------------------------------------------------------------------
(* The line editor of module LineEditor.                                   *)

(* A buffer whose first NUL is at n holds the string of its first n.       *)
LEMMA CStringIs ==
  ASSUME NEW b, NEW n \in Index, b[n] = NUL, \A k \in 0 .. n-1 : b[k] # NUL
  PROVE  CString(b) = Chars(b, n)
<1> DEFINE Ends(m) == b[m] = NUL /\ \A k \in 0 .. m-1 : b[k] # NUL
           e == CHOOSE m \in Index : Ends(m)
<1>1. e \in Index /\ Ends(e)
  <2>1. Ends(n)
    OBVIOUS
  <2> HIDE DEF Ends
  <2> QED BY <2>1
<1>2. CString(b) = Chars(b, e)
  BY DEF CString, Chars
<1> HIDE DEF e
<1>3. e = n
  BY <1>1, SizeIs
<1> QED BY <1>2, <1>3

LEMMA LineIs ==
  ShellInv => Line = IF stage \in {"gets", "command"} THEN Chars(buf, i)
                     ELSE <<>>
<1> SUFFICES ASSUME ShellInv
             PROVE  Line = IF stage \in {"gets", "command"} THEN Chars(buf, i)
                           ELSE <<>>
  OBVIOUS
<1>1. CASE stage = "gets"
  BY <1>1 DEF Line, Text, Chars
<1>2. CASE stage = "command"
  <2>1. CASE i = 0
    <3>1. Chars(buf, 0) \in Seq(Plain) /\ Len(Chars(buf, 0)) = 0
      BY CharsIs
    <3>2. Chars(buf, 0) = <<>>
      BY <3>1
    <3> QED BY <1>2, <2>1, <3>2 DEF Line
  <2>2. CASE i # 0
    <3>1. /\ i \in Index /\ buf[i] = NUL
          /\ \A k \in 0 .. i-1 : buf[k] # NUL
      BY <1>2, KeyIs DEF ShellInv, TypeOK, LineTyped, LineEnds, Plain
    <3> QED BY <1>2, <2>2, <3>1, CStringIs DEF Line
  <2> QED BY <2>1, <2>2
<1>3. CASE stage \notin {"gets", "command"}
  BY <1>3 DEF Line
<1> QED BY <1>1, <1>2, <1>3

(* The command that the shell looks up is the trimmed line.                *)
LEMMA CommandIs ==
  ASSUME ShellInv, stage = "command"
  PROVE  CString(Trim) = L!Trimmed(Chars(buf, i))
<1> DEFINE t == Chars(buf, i)
           T == TrimmedLen
           Stops(n) == /\ \A k \in n+1 .. Len(t) : t[k] \in Blank
                       /\ n > 0 => t[n] \notin Blank
           m == CHOOSE n \in 0 .. Len(t) : Stops(n)
<1>1. /\ i \in Index /\ i \in Nat /\ buf[i] = NUL
      /\ \A k \in 0 .. i-1 : buf[k] \in Key /\ buf[k] # NUL
  BY SizeIs, KeyIs DEF ShellInv, TypeOK, LineTyped, LineEnds, Plain
<1>2. t \in Seq(Key) /\ Len(t) = i
  BY <1>1, CharsIs
<1>3. \A k \in 1 .. i : t[k] = buf[k - 1]
  BY DEF Chars
<1>4. /\ T \in 0 .. i
      /\ \A k \in T .. i-1 : buf[k] \in Blank
      /\ T > 0 => buf[T - 1] \notin Blank
  BY <1>1, TrimmedLenIs
<1> HIDE DEF t, T
<1>5. Stops(T)
  <2>1. ASSUME NEW k \in T+1 .. Len(t) PROVE t[k] \in Blank
    <3>1. k \in 1 .. i /\ k - 1 \in T .. i-1
      BY <1>1, <1>2, <1>4
    <3> QED BY <1>3, <1>4, <3>1
  <2>2. T > 0 => t[T] \notin Blank
    BY <1>1, <1>3, <1>4
  <2> QED BY <2>1, <2>2
<1>6. m \in 0 .. i /\ Stops(m)
  <2> HIDE DEF Stops
  <2> QED BY <1>2, <1>4, <1>5
<1>7. L!Trimmed(t) = SubSeq(t, 1, m)
  BY DEF L!Trimmed
<1> HIDE DEF m
<1>8. m = T
  <2>1. CASE m < T
    <3>1. T \in m+1 .. Len(t) /\ T > 0
      BY <1>1, <1>2, <1>4, <1>6, <2>1
    <3> QED BY <1>5, <1>6, <3>1
  <2>2. CASE T < m
    <3>1. m \in T+1 .. Len(t) /\ m > 0
      BY <1>1, <1>2, <1>4, <1>6, <2>2
    <3> QED BY <1>5, <1>6, <3>1
  <2> QED BY <1>1, <1>4, <1>6, <2>1, <2>2
<1>9. CString(Trim) = Chars(Trim, T)
  <2>1. T \in Index
    BY <1>1, <1>4, SizeIs
  <2>2. \A k \in Index : Trim[k] = IF k \in T .. i-1 THEN NUL ELSE buf[k]
    BY DEF Trim, T
  <2>3. Trim[T] = NUL
    BY <1>1, <1>4, <2>1, <2>2
  <2>4. ASSUME NEW k \in 0 .. T-1 PROVE Trim[k] # NUL
    <3>1. k \in Index /\ k \in 0 .. i-1 /\ k \notin T .. i-1
      BY <1>1, <1>4, SizeIs
    <3> QED BY <1>1, <2>2, <3>1
  <2> QED BY <2>1, <2>3, <2>4, CStringIs
<1>10. SubSeq(t, 1, T) = Chars(Trim, T)
  <2>1. \A k \in 0 .. T-1 : Trim[k] = buf[k] /\ buf[k] \in Key
    <3>1. \A k \in 0 .. T-1 : k \in Index /\ k \in 0 .. i-1 /\ k \notin T .. i-1
      BY <1>1, <1>4, SizeIs
    <3>2. \A k \in Index : Trim[k] = IF k \in T .. i-1 THEN NUL ELSE buf[k]
      BY DEF Trim, T
    <3> QED BY <1>1, <3>1, <3>2
  <2> DEFINE u == SubSeq(t, 1, T)
             v == Chars(Trim, T)
  <2>2. v \in Seq(Key) /\ Len(v) = T
    BY <1>4, <2>1, CharsIs
  <2>3. \A k \in 1 .. T : v[k] = Trim[k - 1]
    BY DEF Chars
  <2>4. /\ u \in Seq(Key) /\ Len(u) = T
        /\ \A k \in 1 .. T : u[k] = t[k]
    <3>1. T \in 0 .. Len(t) /\ 1 \in Nat \ {0}
      BY <1>2, <1>4
    <3>2. /\ u \in Seq(Key)
          /\ Len(u) = IF 1 <= T THEN T - 1 + 1 ELSE 0
          /\ \A k \in 1 .. T - 1 + 1 : u[k] = t[1 + k - 1]
      BY <1>2, <3>1, SubSeqIs
    <3> HIDE DEF u
    <3> QED BY <1>1, <1>4, <3>2
  <2> HIDE DEF u, v
  <2>5. ASSUME NEW k \in 1 .. T PROVE u[k] = v[k]
    <3>1. k \in 1 .. i /\ k - 1 \in 0 .. T-1
      BY <1>1, <1>4
    <3> QED BY <1>3, <2>1, <2>3, <2>4, <3>1
  <2>6. u = v
    BY <2>2, <2>4, <2>5, SameSeq
  <2> QED BY <2>6 DEF u, v
<1> QED BY <1>7, <1>8, <1>9, <1>10 DEF t

LEMMA InitLine == Init => L!Init
  BY DEF Init, L!Init, Line

(* Two buffers with the same first n characters.                           *)
LEMMA SameChars ==
  ASSUME NEW b, NEW d, NEW n \in Nat, \A k \in 0 .. n-1 : d[k] = b[k]
  PROVE  Chars(d, n) = Chars(b, n)
  BY DEF Chars

LEMMA OneMoreChar ==
  ASSUME NEW b, NEW d, NEW n \in Nat, NEW c \in Plain, d[n] = c,
         \A k \in 0 .. n-1 : d[k] = b[k] /\ b[k] \in Plain
  PROVE  Chars(d, n + 1) = Append(Chars(b, n), c)
<1> DEFINE t == Chars(b, n)
           u == Append(t, c)
           v == Chars(d, n + 1)
<1>1. t \in Seq(Plain) /\ Len(t) = n
  BY CharsIs
<1>2. \A k \in 1 .. n : t[k] = b[k - 1]
  BY DEF Chars
<1>3. v \in Seq(Plain) /\ Len(v) = n + 1
  <2>1. n + 1 \in Nat
    OBVIOUS
  <2>2. ASSUME NEW k \in 0 .. (n + 1) - 1 PROVE d[k] \in Plain
    <3>1. k = n \/ k \in 0 .. n-1
      OBVIOUS
    <3> QED BY <3>1
  <2> QED BY <2>1, <2>2, CharsIs
<1>4. \A k \in 1 .. n+1 : v[k] = d[k - 1]
  BY DEF Chars
<1> HIDE DEF t, v
<1>5. /\ u \in Seq(Plain) /\ Len(u) = n + 1
      /\ \A k \in 1 .. n : u[k] = t[k]
      /\ u[n + 1] = c
  BY <1>1, AppendIs
<1> HIDE DEF u
<1>6. ASSUME NEW k \in 1 .. n+1 PROVE v[k] = u[k]
  <2>1. CASE k = n + 1
    <3>1. k - 1 = n
      BY <2>1
    <3> QED BY <1>4, <1>5, <2>1, <3>1
  <2>2. CASE k # n + 1
    <3>1. k \in 1 .. n /\ k - 1 \in 0 .. n-1
      BY <2>2
    <3> QED BY <1>2, <1>4, <1>5, <3>1
  <2> QED BY <2>1, <2>2
<1>7. v = u
  BY <1>3, <1>5, <1>6, SameSeq
<1> QED BY <1>7 DEF t, u, v

LEMMA OneCharLess ==
  ASSUME NEW S, NEW b, NEW n \in Nat, n > 0, \A k \in 0 .. n-1 : b[k] \in S
  PROVE  SubSeq(Chars(b, n), 1, n - 1) = Chars(b, n - 1)
<1> DEFINE t == Chars(b, n)
           u == SubSeq(t, 1, n - 1)
           v == Chars(b, n - 1)
<1>1. t \in Seq(S) /\ Len(t) = n
  BY CharsIs
<1>2. \A k \in 1 .. n : t[k] = b[k - 1]
  BY DEF Chars
<1>3. v \in Seq(S) /\ Len(v) = n - 1
  <2>1. n - 1 \in Nat /\ \A k \in 0 .. (n - 1) - 1 : b[k] \in S
    OBVIOUS
  <2> QED BY <2>1, CharsIs
<1>4. \A k \in 1 .. n-1 : v[k] = b[k - 1]
  BY DEF Chars
<1> HIDE DEF t, v
<1>5. /\ u \in Seq(S) /\ Len(u) = n - 1
      /\ \A k \in 1 .. n-1 : u[k] = t[k]
  <2>1. n - 1 \in 0 .. Len(t) /\ 1 \in Nat \ {0}
    BY <1>1
  <2>2. /\ u \in Seq(S)
        /\ Len(u) = IF 1 <= n - 1 THEN n - 1 - 1 + 1 ELSE 0
        /\ \A k \in 1 .. n - 1 - 1 + 1 : u[k] = t[1 + k - 1]
    BY <1>1, <2>1, SubSeqIs
  <2> HIDE DEF u
  <2> QED BY <1>1, <2>2
<1> HIDE DEF u
<1>6. u = v
  <2>1. \A k \in 1 .. n-1 : u[k] = v[k]
    BY <1>2, <1>4, <1>5
  <2> QED BY <1>3, <1>5, <2>1, SameSeq
<1> QED BY <1>6 DEF t, u, v

(***************************************************************************)
(* Every step of the line input is a step of the line editor or leaves what*)
(* the editor speaks of alone.                                             *)
(***************************************************************************)
LEMMA StepLine ==
  ShellInv /\ ShellInv' /\ [Next]_vars => [L!Next]_(L!vars)
<1> SUFFICES ASSUME ShellInv, ShellInv', [Next]_vars PROVE [L!Next]_(L!vars)
  OBVIOUS
<1> DEFINE complete == stage = "command"
           LineNow == IF stage \in {"gets", "command"} THEN Chars(buf, i)
                      ELSE <<>>
<1>1. Line = LineNow
  BY LineIs
<1>2. Line' = IF stage' \in {"gets", "command"} THEN Chars(buf', i') ELSE <<>>
  <2>1. (ShellInv => Line = LineNow)'
    BY LineIs, PTL
  <2> QED BY <2>1 DEF Chars
<1>3. /\ TypeOK /\ i \in Nat /\ i \in 0 .. Size-1 /\ Size \in Nat
      /\ stage = "gets" => \A k \in 0 .. i-1 : buf[k] \in Plain
      /\ buf \in Buffer
  BY SizeIs DEF ShellInv, TypeOK, LineTyped
<1>4. stage = "gets" => Len(Line) = i /\ (Line = <<>> <=> i = 0)
  <2> SUFFICES ASSUME stage = "gets"
               PROVE  Len(Line) = i /\ (Line = <<>> <=> i = 0)
    OBVIOUS
  <2>1. Line \in Seq(Plain) /\ Len(Line) = i
    BY <1>1, <1>3, CharsIs
  <2> QED BY <2>1, <1>3
<1>5. CASE UNCHANGED <<keys, given, stage, buf, i>>
  <2>1. Line' = Line /\ (stage' = "command") = (stage = "command")
    BY <1>1, <1>2, <1>5
  <2> QED BY <1>5, <2>1 DEF L!vars
<1>6. CASE Boot \/ ShowPrompt
  <2>1. /\ stage \in {"boot", "prompt"} /\ stage' \in {"prompt", "gets"}
        /\ stage' = "gets" => i' = 0
        /\ UNCHANGED <<keys, given>>
    BY <1>6 DEF Boot, ShowPrompt
  <2>2. Line = <<>>
    BY <1>1, <2>1
  <2>3. Line' = <<>>
    <3>1. CASE stage' = "gets"
      <4>1. Chars(buf', 0) \in Seq(Plain) /\ Len(Chars(buf', 0)) = 0
        BY CharsIs
      <4>2. Chars(buf', 0) = <<>>
        BY <4>1
      <4> QED BY <1>2, <2>1, <3>1, <4>2
    <3> QED BY <1>2, <2>1, <3>1
  <2> QED BY <2>1, <2>2, <2>3 DEF L!vars
<1>7. CASE EraseKey
  <2>1. /\ stage = "gets" /\ stage' = "gets" /\ i < Size - 1 /\ buf' = buf
        /\ given' = given /\ i' = IF i > 0 THEN i - 1 ELSE i
    BY <1>7 DEF EraseKey, Reading
  <2>2. /\ Head(rx) \in Erase /\ Head(rx) \in Key
        /\ keys' = Append(keys, Head(rx))
    BY <1>3, <1>7, GetCharIs DEF EraseKey
  <2>3. Line' = L!Edited(Head(rx))
    <3>1. CASE i > 0
      <4>1. Line' = Chars(buf, i - 1) /\ Line = Chars(buf, i) /\ Line # <<>>
            /\ Len(Line) = i
        BY <1>1, <1>2, <1>4, <2>1, <3>1
      <4>2. SubSeq(Chars(buf, i), 1, i - 1) = Chars(buf, i - 1)
        BY <1>3, <2>1, <3>1, OneCharLess
      <4> QED BY <2>2, <4>1, <4>2 DEF L!Edited
    <3>2. CASE ~(i > 0)
      <4>1. Line' = Line /\ Line = <<>>
        BY <1>1, <1>2, <1>3, <1>4, <2>1, <3>2
      <4> QED BY <2>2, <4>1 DEF L!Edited
    <3> QED BY <3>1, <3>2
  <2>4. Head(rx) \notin Enter
    BY <2>2, KeyIs
  <2>5. Len(Line) < Size - 1
    BY <1>4, <2>1
  <2>6. L!ReadKey
    BY <2>1, <2>2, <2>3, <2>4, <2>5 DEF L!ReadKey
  <2> QED BY <2>6 DEF L!Next
<1>8. CASE EnterKey
  <2>1. /\ stage = "gets" /\ stage' = "command" /\ i < Size - 1 /\ i' = i
        /\ given' = given /\ buf' = [buf EXCEPT ![i] = NUL]
    BY <1>8 DEF EnterKey, Reading
  <2>2. /\ Head(rx) \in Enter /\ Head(rx) \in Key
        /\ keys' = Append(keys, Head(rx))
    BY <1>3, <1>8, GetCharIs DEF EnterKey
  <2>3. Line' = Line
    <3>1. \A k \in 0 .. i-1 : buf'[k] = buf[k]
      BY <1>3, <2>1, SizeIs DEF Buffer
    <3>2. Chars(buf', i) = Chars(buf, i)
      BY <1>3, <3>1, SameChars
    <3> QED BY <1>1, <1>2, <2>1, <3>2
  <2>4. Len(Line) < Size - 1
    BY <1>4, <2>1
  <2>5. L!ReadKey
    BY <2>1, <2>2, <2>3, <2>4 DEF L!ReadKey
  <2> QED BY <2>5 DEF L!Next
<1>9. CASE CharKey
  <2>1. /\ stage = "gets" /\ stage' = "gets" /\ i < Size - 1 /\ i' = i + 1
        /\ given' = given /\ buf' = [buf EXCEPT ![i] = Head(rx)]
    BY <1>9 DEF CharKey, Reading
  <2>2. /\ Head(rx) \in Plain /\ Head(rx) \in Key
        /\ Head(rx) \notin Erase /\ Head(rx) \notin Enter
        /\ keys' = Append(keys, Head(rx))
    BY <1>3, <1>9, GetCharIs DEF CharKey, Plain
  <2>3. Line' = Append(Line, Head(rx))
    <3>1. buf'[i] = Head(rx) /\ \A k \in 0 .. i-1 : buf'[k] = buf[k]
      BY <1>3, <2>1, SizeIs DEF Buffer
    <3> DEFINE c == Head(rx)
               d == buf'
    <3>2. /\ c \in Plain /\ d[i] = c
          /\ \A k \in 0 .. i-1 : d[k] = buf[k] /\ buf[k] \in Plain
      BY <1>3, <2>1, <2>2, <3>1
    <3> HIDE DEF c, d
    <3>3. Chars(d, i + 1) = Append(Chars(buf, i), c)
      BY <1>3, <3>2, OneMoreChar
    <3> QED BY <1>1, <1>2, <2>1, <3>3 DEF c, d
  <2>4. Len(Line) < Size - 1
    BY <1>4, <2>1
  <2>5. L!ReadKey
    BY <2>1, <2>2, <2>3, <2>4 DEF L!ReadKey, L!Edited
  <2> QED BY <2>5 DEF L!Next
<1>10. CASE Full
  <2>1. /\ stage = "gets" /\ stage' = "command" /\ ~(i < Size - 1) /\ i' = i
        /\ keys' = keys /\ given' = given /\ buf' = [buf EXCEPT ![i] = NUL]
    BY <1>10 DEF Full, Reading
  <2>2. Line' = Line
    <3>1. \A k \in 0 .. i-1 : buf'[k] = buf[k]
      BY <1>3, <2>1, SizeIs DEF Buffer
    <3>2. Chars(buf', i) = Chars(buf, i)
      BY <1>3, <3>1, SameChars
    <3> QED BY <1>1, <1>2, <2>1, <3>2
  <2>3. Len(Line) = Size - 1
    BY <1>3, <1>4, <2>1
  <2>4. L!Full
    BY <2>1, <2>2, <2>3 DEF L!Full
  <2> QED BY <2>4 DEF L!Next
<1>11. CASE RunCommand
  <2>1. stage = "command" /\ stage' # "command" /\ stage' # "gets"
        /\ keys' = keys
    BY <1>11 DEF RunCommand, StageAfter
  <2>2. Line' = <<>> /\ Line = Chars(buf, i)
    BY <1>1, <1>2, <2>1
  <2>3. CString(Trim) = L!Trimmed(Line)
    BY <2>1, <2>2, CommandIs
  <2>4. given' = IF CString(Trim) = <<>> THEN given
                 ELSE Append(given, CString(Trim))
    <3>1. CASE i = 0
      <4>1. TrimmedLen = 0
        BY <3>1, TrimmedLenIs
      <4>2. /\ buf[0] = NUL /\ 0 \in Index
        BY <2>1, <3>1, SizeIs DEF ShellInv, LineEnds
      <4>3. Trim[0] = NUL
        BY <3>1, <4>1, <4>2 DEF Trim
      <4>4. CString(Trim) = Chars(Trim, 0)
        BY <4>2, <4>3, CStringIs
      <4>5. Chars(Trim, 0) \in Seq(Plain) /\ Len(Chars(Trim, 0)) = 0
        BY CharsIs
      <4>6. CString(Trim) = <<>>
        BY <4>4, <4>5
      <4> QED BY <1>11, <3>1, <4>6 DEF RunCommand
    <3>2. CASE i # 0
      BY <1>11, <3>2 DEF RunCommand
    <3> QED BY <3>1, <3>2
  <2>5. L!Give
    BY <2>1, <2>2, <2>3, <2>4 DEF L!Give
  <2> QED BY <2>5 DEF L!Next
<1>12. Press => UNCHANGED <<keys, given, stage, buf, i>>
  BY DEF Press
<1>13. UNCHANGED vars => UNCHANGED <<keys, given, stage, buf, i>>
  BY DEF vars
<1> QED BY <1>5, <1>6, <1>7, <1>8, <1>9, <1>10, <1>11, <1>12, <1>13
        DEF Next, ShellStep

(***************************************************************************)
(* The shell is the line editor: process_command gets the lines typed, in  *)
(* order, edited and trimmed, whatever the buffer held, whether Enter ended*)
(* them or the buffer was full, and across reboots.                        *)
(***************************************************************************)
THEOREM ShellIsLineEditor == Spec => ImplementsLineEditor
<1>1. ShellInv /\ ShellInv' /\ [Next]_vars => [L!Next]_(L!vars)
  BY StepLine
<1> QED BY <1>1, InitLine, InvIsInvariant, PTL
        DEF Spec, ImplementsLineEditor, L!Spec

=============================================================================
