----------------------------- MODULE MCLibrary -----------------------------
(***************************************************************************)
(* Library for TLC.  The memory has 5 bytes of the values 0, 1 and 3 out of*)
(* 4, so that areas overlap in every way and 3 is a negative char.  An int *)
(* has 32 values and a long 256: the arguments have both signs, one to     *)
(* three digits, and the least int.  The buffers hold no character, a few, *)
(* or all of the text.                                                     *)
(***************************************************************************)
EXTENDS Library

MCIntArg == {0, 3, 5, -1}

Words == {0, 9, 10, 15, 16, 31, 100, 127, 129, 240, 255}
Strs == {<<>>, <<"a">>, <<"a", "%", "b">>}

Called(fn, items, args, size) ==
  [fn |-> fn, items |-> items, fmt |-> SpelledAll(items), args |-> args, size |-> size]

Num(w) == [word |-> w, str |-> <<>>]
Text(s) == [word |-> 0, str |-> s]

Fields == {0, 2, 5, 12}

NumberDirs ==
  {Dir(c, alt, left, zero, width, long) :
     c \in {"d", "u", "x"}, alt \in BOOLEAN, left \in BOOLEAN, zero \in BOOLEAN,
     width \in Fields, long \in 0 .. 2}

A == Lit("A")

NumberJobs ==
  {Called("my_vsnprintf", <<A, p[1], A>>, <<Num(p[2])>>, size) :
     p \in {q \in {it \in NumberDirs : Sensible(it)} \X Words : Fits(q[1], Num(q[2]))},
     size \in {1, 4, 20}}

StringJobs ==
  {Called("my_vsnprintf", <<A, Dir("s", FALSE, left, FALSE, width, 0), A>>,
       <<Text(s)>>, size) :
     left \in BOOLEAN, width \in {2, 5}, s \in Strs, size \in {1, 4, 20}}

Dirs2 ==
  {Dir("d", FALSE, FALSE, FALSE, 0, 0), Dir("x", TRUE, FALSE, FALSE, 0, 2),
   Dir("s", FALSE, FALSE, FALSE, 5, 0), Dir("c", FALSE, FALSE, FALSE, 0, 0),
   Dir("%", FALSE, FALSE, FALSE, 0, 0), Dir("p", FALSE, FALSE, FALSE, 5, 0)}

ArgOf(it, k) ==
  CASE it.conv \in {"d", "x", "p", "X"} -> <<Num(100 + k)>>
    [] it.conv = "s" -> <<Text(<<"s", "t">>)>>
    [] it.conv = "c" -> <<Text(<<"c">>)>>
    [] OTHER -> <<>>

PairJobs ==
  {Called("my_vsnprintf", <<p[1], A, p[2]>>, ArgOf(p[1], 1) \o ArgOf(p[2], 2), 20) :
     p \in Dirs2 \X Dirs2}

SimpleDirs ==
  {Dir(c, FALSE, FALSE, FALSE, 0, 0) : c \in {"d", "x", "X", "s", "c", "%"}}

SimpleJobs ==
  {Called("simple_sprintf", <<p[1], A, p[2]>>, ArgOf(p[1], 1) \o ArgOf(p[2], 2), 0) :
     p \in SimpleDirs \X SimpleDirs}
  \cup
  {Called("simple_sprintf", <<Dir(c, FALSE, FALSE, FALSE, 0, 0)>>, <<Num(w)>>, 0) :
     c \in {"d", "x", "X"}, w \in Words}

PrintJobs ==
  {Called(fn, <<>>, <<Num(w)>>, 0) :
     fn \in {"dw_uart_print_dec", "generic_uart_print_dec",
             "dw_uart_print_hex", "generic_uart_print_hex"}, w \in Words}

(* A numeral with blanks before it and something else after it.            *)
ReadJobs ==
  {[fn |-> fn, items |-> <<>>, args |-> <<Num(w)>>, size |-> 0,
    fmt |-> LET v == SignedWord(w, 256) IN
              before_ \o (IF v < 0 THEN <<"-">> ELSE plus)
                      \o Numeral(Abs(v), 10, digits) \o after] :
     fn \in {"atol", "atoi"}, w \in Words,
     before_ \in {<<>>, <<" ", "\t">>, <<"\n">>}, plus \in {<<>>, <<"+">>},
     after \in {<<>>, <<" ", "7">>, <<"-">>}}

MCCalls ==
  NumberJobs \cup StringJobs \cup PairJobs \cup SimpleJobs \cup PrintJobs
    \cup ReadJobs
=============================================================================
