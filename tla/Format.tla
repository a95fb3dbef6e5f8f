------------------------------- MODULE Format -------------------------------
(***************************************************************************)
(* The formatted output of the kernel: my_vsnprintf of src/src/lib/logger.c*)
(* under every log message, simple_sprintf and the number conversions of   *)
(* src/src/lib/string.c and of the two UART drivers.  One directive or     *)
(* flag of a format is a step; a conversion of a number is one step.       *)
(*                                                                         *)
(* A character is a one-character string.  An argument is the word of a    *)
(* register, from which va_arg takes what its type asks for, or a string.  *)
(***************************************************************************)
EXTENDS Integers, Sequences

SE == INSTANCE SequencesExt

CONSTANTS
  IntW,        \* the values of an int: 2^32
  LongW,       \* the values of a long, a long long and a pointer: 2^64
  HexDigits,   \* the hexadecimal digits of a long: 16
  Calls        \* the calls, members of Job

VARIABLES
  job,      \* the job
  pos,       \* the next character of its format
  arg,       \* the next of its arguments
  mode,      \* "text", "directive" (after '%'), "returned"
  props,     \* struct strprops, and nlong
  out,       \* the characters in the buffer, or sent
  returns     \* the value to return

formatVars == <<job, pos, arg, mode, props, out, returns>>

Power(base, n) ==
  LET p[k \in 0 .. n] == IF k = 0 THEN 1 ELSE base * p[k-1] IN p[n]

ASSUME WidthAssumption ==
  /\ IntW \in Nat \ {0} /\ LongW \in Nat \ {0}
  /\ LongW % IntW = 0 /\ IntW % 2 = 0
  /\ HexDigits \in Nat /\ Power(16, HexDigits) = LongW

digits == <<"0", "1", "2", "3", "4", "5", "6", "7", "8", "9",
            "a", "b", "c", "d", "e", "f">>
Upper == <<"0", "1", "2", "3", "4", "5", "6", "7", "8", "9",
           "A", "B", "C", "D", "E", "F">>

Decimal == {digits[k] : k \in 1 .. 10}

DigitValue(c) == (CHOOSE k \in 1 .. 10 : digits[k] = c) - 1

(* va_arg(va, type) for an unsigned and a signed type of w values.         *)
Unsigned(word, w) == word % w
SignedWord(word, w) ==
  IF word % w < w \div 2 THEN word % w ELSE (word % w) - w

-----------------------------------------------------------------------------
(***************************************************************************)
(* Numbers.  A loop takes the digits off the low end of n; the buffer is   *)
(* then reversed.  The least long is its own negation and is left out.     *)
(***************************************************************************)

LowFirst(n, base, table) ==
  LET rest[k \in Nat] ==
        IF k = 0 THEN <<>> ELSE <<table[(k % base) + 1]>> \o rest[k \div base]
  IN rest[n]

Abs(n) == IF n < 0 THEN -n ELSE n

(* print_int's buffer.                                                     *)
IntText(n, base) ==
  LET body == LowFirst(Abs(n), base, digits) IN
    SE!Reverse(IF n < 0 THEN Append(body, "-")
            ELSE IF body = <<>> THEN <<"0">> ELSE body)

(* do ... while: at least one digit; the sign is not reversed.             *)
itoa_decimal(value) ==
  LET body == LowFirst(Abs(value), 10, digits) IN
    (IF value < 0 THEN <<"-">> ELSE <<>>)
    \o SE!Reverse(IF body = <<>> THEN <<"0">> ELSE body)

itoa_hex(value, table) ==
  LET body == LowFirst(value, 16, table) IN
    <<"0", IF table = Upper THEN "X" ELSE "x">>
    \o SE!Reverse(IF body = <<>> THEN <<"0">> ELSE body)

(* Mutant: a loop that tests before the first digit.                       *)
dw_uart_print_dec_NoZero(value) ==
  LET body == LowFirst(Abs(value), 10, digits) IN
    SE!Reverse(IF value < 0 THEN Append(body, "-") ELSE body)

(* dw_uart_print_dec: sign and digits are reversed together.               *)
dw_uart_print_dec(value) ==
  LET body == LowFirst(Abs(value), 10, digits)
      number == IF body = <<>> THEN <<"0">> ELSE body
  IN SE!Reverse(IF value < 0 THEN Append(number, "-") ELSE number)

generic_uart_print_dec(value) ==
  IF value = 0 THEN <<"0">>
  ELSE (IF value < 0 THEN <<"-">> ELSE <<>>)
       \o SE!Reverse(LowFirst(Abs(value), 10, digits))

generic_uart_print_hex(value) ==
  [k \in 1 .. HexDigits |-> Upper[((value \div Power(16, HexDigits - k)) % 16) + 1]]

dw_uart_print_hex(value) == <<"0", "x">> \o generic_uart_print_hex(value)

(* The value of the digits at the start of a text, and how many they are.  *)
DigitsAt(text, from) ==
  LET run == CHOOSE n \in 0 .. Len(text) + 1 - from :
               /\ \A k \in from .. from + n - 1 : text[k] \in Decimal
               /\ from + n <= Len(text) => text[from + n] \notin Decimal
      num[k \in 0 .. run] ==
        IF k = 0 THEN 0 ELSE num[k-1] * 10 + DigitValue(text[from + k - 1])
  IN [len |-> run, num |-> num[run]]

At(text, k) == IF k <= Len(text) THEN text[k] ELSE "NUL"

Blank == {" ", "\t", "\n"}

atol(str) ==
  LET start == CHOOSE k \in 1 .. Len(str) + 1 :
                 /\ At(str, k) \notin Blank
                 /\ \A l \in 1 .. k-1 : At(str, l) \in Blank
      from == IF At(str, start) \in {"-", "+"} THEN start + 1 ELSE start
      number == DigitsAt(str, from).num
  IN SignedWord(IF At(str, start) = "-" THEN -number ELSE number, LongW)

atoi(str) == SignedWord(atol(str), IntW)

-----------------------------------------------------------------------------
(***************************************************************************)
(* Padding.  npad is negative for a field that is filled on the right.     *)
(***************************************************************************)

Times(n, c) == [k \in 1 .. n |-> c]

print_str(text, p) ==
  LET missing == Abs(p.npad) - Len(text)
      fill == IF missing > 0 THEN missing ELSE 0
  IN CASE p.npad > 0 -> Times(fill, p.pad) \o text
       [] p.npad < 0 -> text \o Times(fill, " ")
       [] OTHER -> text

print_int(n, base, p) == print_str(IntText(n, base), p)

(* Mutant: "0x" does not count for the width.                              *)
print_unsigned_PrefixNotCounted(n, base, p) ==
  LET body == SE!Reverse(LowFirst(n, base, digits)) IN
    CASE n = 0 -> print_str(<<"0">>, p)
      [] n # 0 /\ p.alternate /\ base = 16 -> <<"0", "x">> \o print_str(body, p)
      [] OTHER -> print_str(body, p)

(* Zeros come between "0x" and the digits, blanks before it.               *)
print_unsigned(n, base, p) ==
  LET body == SE!Reverse(LowFirst(n, base, digits))
      less == IF p.npad <= 0 THEN p.npad ELSE IF p.npad > 2 THEN p.npad - 2 ELSE 0
      prefixed == n # 0 /\ p.alternate /\ base = 16
  IN CASE n = 0 -> print_str(<<"0">>, p)
       [] prefixed /\ p.pad = "0" ->
            <<"0", "x">> \o print_str(body, [p EXCEPT !.npad = less])
       [] prefixed /\ p.pad # "0" -> print_str(<<"0", "x">> \o body, p)
       [] OTHER -> print_str(body, p)

-----------------------------------------------------------------------------

Formatter == {"my_vsnprintf", "simple_sprintf"}
DecimalPrinter == {"dw_uart_print_dec", "generic_uart_print_dec"}
Printer == DecimalPrinter \cup {"dw_uart_print_hex", "generic_uart_print_hex"}
Reader == {"atol", "atoi"}

NoProps == [pad |-> " ", npad |-> 0, alternate |-> FALSE, nlong |-> 0]

FormatInit ==
  /\ job \in Calls
  /\ pos = 1 /\ arg = 1
  /\ mode = "text"
  /\ props = NoProps
  /\ out = <<>> /\ returns = 0

(* No function runs.                                                       *)
FormatIdle ==
  /\ job = [fn |-> "none", items |-> <<>>, fmt |-> <<>>, args |-> <<>>, size |-> 0]
  /\ pos = 1 /\ arg = 1
  /\ mode = "returned"
  /\ props = NoProps
  /\ out = <<>> /\ returns = 0

Doing(fn, m) == job.fn = fn /\ mode = m

More == pos <= Len(job.fmt)
Char == job.fmt[pos]
Word == job.args[arg].word
Str == job.args[arg].str

Cut(text, n) == SubSeq(text, 1, IF n < Len(text) THEN n ELSE Len(text))

(* Mutant: remain starts at size.                                          *)
addchar_WholeBuffer(text) ==
  /\ out' = Cut(out \o text, job.size)
  /\ returns' = returns + Len(text)

(* addchar for each character: those that do not fit are counted only.     *)
addchar(text) ==
  /\ out' = Cut(out \o text, job.size - 1)
  /\ returns' = returns + Len(text)

Literal ==
  /\ Doing("my_vsnprintf", "text") /\ More
  /\ Char # "%"
  /\ addchar(<<Char>>)
  /\ pos' = pos + 1
  /\ UNCHANGED <<job, arg, mode, props>>

Percent ==
  /\ Doing("my_vsnprintf", "text") /\ More
  /\ Char = "%"
  /\ mode' = "directive"
  /\ props' = NoProps
  /\ pos' = pos + 1
  /\ UNCHANGED <<job, arg, out, returns>>

Hash ==
  /\ Doing("my_vsnprintf", "directive") /\ More
  /\ Char = "#"
  /\ props' = [props EXCEPT !.alternate = TRUE]
  /\ pos' = pos + 1
  /\ UNCHANGED <<job, arg, mode, out, returns>>

(* fmtnum, called at a '-', after a '0' or at another digit.               *)
Width ==
  /\ Doing("my_vsnprintf", "directive") /\ More
  /\ Char \in Decimal \cup {"-"}
  /\ LET start == IF Char = "0" THEN pos + 1 ELSE pos
         minus == At(job.fmt, start) = "-"
         number == DigitsAt(job.fmt, IF minus THEN start + 1 ELSE start)
     IN /\ props' = [props EXCEPT
                       !.pad = IF Char = "0" THEN "0" ELSE @,
                       !.npad = IF minus THEN -number.num ELSE number.num]
        /\ pos' = start + number.len + (IF minus THEN 1 ELSE 0)
  /\ UNCHANGED <<job, arg, mode, out, returns>>

Long ==
  /\ Doing("my_vsnprintf", "directive") /\ More
  /\ Char = "l"
  /\ props' = [props EXCEPT !.nlong = @ + 1]
  /\ pos' = pos + 1
  /\ UNCHANGED <<job, arg, mode, out, returns>>

ArgWidth == IF props.nlong = 0 THEN IntW ELSE LongW

Converted ==
  CASE Char = "d" -> print_int(SignedWord(Word, ArgWidth), 10, props)
    [] Char = "u" -> print_unsigned(Unsigned(Word, ArgWidth), 10, props)
    [] Char = "x" -> print_unsigned(Unsigned(Word, ArgWidth), 16, props)
    [] Char = "p" -> print_unsigned(Unsigned(Word, LongW), 16,
                                    [props EXCEPT !.alternate = TRUE])
    [] Char = "s" -> print_str(Str, props)
    [] Char = "c" -> Str
    [] OTHER -> <<Char>>

Convert ==
  /\ Doing("my_vsnprintf", "directive") /\ More
  /\ Char \notin Decimal \cup {"-", "#", "l"}
  /\ addchar(Converted)
  /\ arg' = IF Char \in {"d", "u", "x", "p", "s", "c"} THEN arg + 1 ELSE arg
  /\ mode' = "text"
  /\ pos' = pos + 1
  /\ UNCHANGED <<job, props>>

EndOfFormat ==
  /\ job.fn \in Formatter /\ mode # "returned"
  /\ ~More
  /\ mode' = "returned"
  /\ UNCHANGED <<job, pos, arg, props, out, returns>>

-----------------------------------------------------------------------------

append(text) == out' = out \o text /\ returns' = returns + Len(text)

(* simple_sprintf: '%' at the very end is a character like any other.      *)
SimpleText ==
  LET c == job.fmt[pos + 1] IN
    CASE c = "d" -> itoa_decimal(SignedWord(Word, IntW))
      [] c = "x" -> itoa_hex(Unsigned(Word, IntW), digits)
      [] c = "X" -> itoa_hex(Unsigned(Word, IntW), Upper)
      [] c \in {"s", "c"} -> Str
      [] c = "%" -> <<"%">>
      [] OTHER -> <<"%", c>>

SimpleLiteral ==
  /\ Doing("simple_sprintf", "text") /\ More
  /\ Char # "%" \/ pos = Len(job.fmt)
  /\ append(<<Char>>)
  /\ pos' = pos + 1
  /\ UNCHANGED <<job, arg, mode, props>>

SimpleDirective ==
  /\ Doing("simple_sprintf", "text") /\ More
  /\ Char = "%" /\ pos < Len(job.fmt)
  /\ append(SimpleText)
  /\ arg' = IF job.fmt[pos + 1] \in {"d", "x", "X", "s", "c"} THEN arg + 1 ELSE arg
  /\ pos' = pos + 2
  /\ UNCHANGED <<job, mode, props>>

(* The functions on one number.                                            *)
PrintNumber ==
  /\ mode = "text" /\ job.fn \in Printer
  /\ mode' = "returned"
  /\ out' = CASE job.fn = "dw_uart_print_dec" -> dw_uart_print_dec(SignedWord(Word, LongW))
              [] job.fn = "generic_uart_print_dec" -> generic_uart_print_dec(SignedWord(Word, LongW))
              [] job.fn = "dw_uart_print_hex" -> dw_uart_print_hex(Word)
              [] job.fn = "generic_uart_print_hex" -> generic_uart_print_hex(Word)
  /\ UNCHANGED <<job, pos, arg, props, returns>>

ReadNumber ==
  /\ mode = "text" /\ job.fn \in Reader
  /\ mode' = "returned"
  /\ returns' = IF job.fn = "atol" THEN atol(job.fmt) ELSE atoi(job.fmt)
  /\ UNCHANGED <<job, pos, arg, props, out>>

FormatNext ==
  \/ Literal \/ Percent \/ Hash \/ Width \/ Long \/ Convert \/ EndOfFormat
  \/ SimpleLiteral \/ SimpleDirective
  \/ PrintNumber \/ ReadNumber

-----------------------------------------------------------------------------
(***************************************************************************)
(* The reference: a format is written from items, each a literal or a      *)
(* directive, and every directive asks for one field.                      *)
(***************************************************************************)

Lit(c) ==
  [conv |-> "literal", char |-> c, alt |-> FALSE, left |-> FALSE,
   zero |-> FALSE, width |-> 0, long |-> 0]

Dir(conv, alt, left, zero, width, long) ==
  [conv |-> conv, char |-> "%", alt |-> alt, left |-> left,
   zero |-> zero, width |-> width, long |-> long]

(* Positional notation, the highest digit not zero.                        *)
Numeral(v, base, table) ==
  LET n == IF v = 0 THEN 1
           ELSE CHOOSE n \in 1 .. v :
                  Power(base, n-1) <= v /\ v < Power(base, n)
  IN [k \in 1 .. n |-> table[((v \div Power(base, n-k)) % base) + 1]]

Flag(on, c) == IF on THEN <<c>> ELSE <<>>

(* How an item is written in a format.                                     *)
Spelled(it) ==
  IF it.conv = "literal" THEN <<it.char>>
  ELSE <<"%">> \o Flag(it.alt, "#") \o Flag(it.zero, "0") \o Flag(it.left, "-")
       \o (IF it.width = 0 THEN <<>> ELSE Numeral(it.width, 10, digits))
       \o Times(it.long, "l") \o <<it.conv>>

SpelledUpto(items) ==
  LET text[k \in 0 .. Len(items)] ==
        IF k = 0 THEN <<>> ELSE text[k-1] \o Spelled(items[k])
  IN text

SpelledAll(items) == SpelledUpto(items)[Len(items)]

TakesArgument(it) == it.conv \in {"d", "u", "x", "X", "p", "s", "c"}

(* The arguments that the first k items take.                              *)
TakenUpto(items) ==
  LET n[k \in 0 .. Len(items)] ==
        IF k = 0 THEN 0 ELSE IF TakesArgument(items[k]) THEN n[k-1] + 1 ELSE n[k-1]
  IN n

(* The prefix and the rest of a field, before it is padded.                *)
Body(it, a) ==
  LET w == IF it.long = 0 /\ it.conv # "p" THEN IntW ELSE LongW
      v == IF it.conv = "d" THEN SignedWord(a.word, w) ELSE Unsigned(a.word, w)
      hex == (it.alt /\ v # 0) \/ job.fn = "simple_sprintf"
  IN CASE it.conv = "literal" -> <<<<>>, <<it.char>>>>
       [] it.conv = "d" -> <<Flag(v < 0, "-"), Numeral(Abs(v), 10, digits)>>
       [] it.conv = "u" -> <<<<>>, Numeral(v, 10, digits)>>
       [] it.conv = "x" -> <<IF hex THEN <<"0", "x">> ELSE <<>>, Numeral(v, 16, digits)>>
       [] it.conv = "X" -> <<<<"0", "X">>, Numeral(v, 16, Upper)>>
       [] it.conv = "p" -> <<IF v = 0 THEN <<>> ELSE <<"0", "x">>, Numeral(v, 16, digits)>>
       [] it.conv \in {"s", "c"} -> <<<<>>, a.str>>
       [] OTHER -> <<<<>>, <<it.conv>>>>

Field(it, a) ==
  LET b == Body(it, a)
      missing == it.width - Len(b[1]) - Len(b[2])
      fill == IF missing > 0 THEN missing ELSE 0
  IN CASE it.left -> b[1] \o b[2] \o Times(fill, " ")
       [] it.zero /\ ~it.left -> b[1] \o Times(fill, "0") \o b[2]
       [] OTHER -> Times(fill, " ") \o b[1] \o b[2]

NoArg == [word |-> 0, str |-> <<>>]

FieldOf(k) ==
  LET it == job.items[k] IN
    Field(it, IF TakesArgument(it) THEN job.args[TakenUpto(job.items)[k]] ELSE NoArg)

(* The fields of the first k items.                                        *)
TextUpto ==
  LET text[k \in 0 .. Len(job.items)] ==
        IF k = 0 THEN <<>> ELSE text[k-1] \o FieldOf(k)
  IN text

Expected == TextUpto[Len(job.items)]

(***************************************************************************)
(* The calls: a format is written from items, with an argument for each    *)
(* directive, of its type.  Flags are those that the C standard defines for*)
(* the directive; where the code knowingly does something else (zeros      *)
(* before a negative number, '#' with '0' and '-', the least long) there is*)
(* no call.                                                                *)
(***************************************************************************)
Item ==
  [conv : STRING, char : STRING, alt : BOOLEAN, left : BOOLEAN,
   zero : BOOLEAN, width : Nat, long : Nat]

Argument == [word : 0 .. LongW-1, str : Seq(STRING)]

Job ==
  [fn : STRING, items : Seq(Item), fmt : Seq(STRING), args : Seq(Argument),
   size : Nat]

Number == {"d", "u", "x"}

(* The directives of my_vsnprintf.                                         *)
Sensible(it) ==
  /\ it.conv \in Number \cup {"p", "s", "c", "%", "literal"}
  /\ it.conv = "literal" => it.char # "%"
  /\ it.alt => it.conv = "x" /\ ~(it.left /\ it.zero)
  /\ it.left => it.width > 0
  /\ it.zero \/ it.long > 0 => it.conv \in Number
  /\ it.width > 0 => it.conv \in Number \cup {"p", "s"}

(* Those of simple_sprintf have no flags.                                  *)
Plain(it) ==
  /\ it.conv \in {"d", "x", "X", "s", "c", "%", "literal"}
  /\ it.conv = "literal" => it.char # "%"
  /\ ~it.alt /\ ~it.left /\ ~it.zero /\ it.width = 0 /\ it.long = 0

Fits(it, a) ==
  LET w == IF it.long = 0 THEN IntW ELSE LongW IN
    it.conv = "d" =>
      /\ it.long > 0 => a.word # LongW \div 2
      /\ it.zero /\ ~it.left => SignedWord(a.word, w) >= 0

HasArguments(c) ==
  LET taken == TakenUpto(c.items) IN
    /\ taken[Len(c.items)] <= Len(c.args)
    /\ \A k \in 1 .. Len(c.items) :
         TakesArgument(c.items[k]) => Fits(c.items[k], c.args[taken[k]])

(* A numeral after b blanks, perhaps signed, and no digit behind it.       *)
HasNumeral(c) ==
  LET v == SignedWord(c.args[1].word, LongW)
      n == Numeral(Abs(v), 10, digits)
  IN \E b \in 0 .. Len(c.fmt) :
       \E sign \in IF v < 0 THEN {<<"-">>} ELSE {<<>>, <<"+">>} :
         LET s == b + Len(sign) IN
           /\ \A k \in 1 .. b : c.fmt[k] \in Blank
           /\ s + Len(n) <= Len(c.fmt)
           /\ SubSeq(c.fmt, b + 1, s + Len(n)) = sign \o n
           /\ At(c.fmt, s + Len(n) + 1) \notin Decimal

WellFormed(c) ==
  /\ c.fn \in Formatter => c.fmt = SpelledAll(c.items) /\ HasArguments(c)
  /\ c.fn = "my_vsnprintf" =>
       c.size > 0 /\ \A k \in 1 .. Len(c.items) : Sensible(c.items[k])
  /\ c.fn = "simple_sprintf" => \A k \in 1 .. Len(c.items) : Plain(c.items[k])
  /\ c.fn \in Printer => Len(c.args) = 1
  /\ c.fn \in DecimalPrinter \cup Reader => c.args[1].word # LongW \div 2
  /\ c.fn \in Reader => Len(c.args) = 1 /\ HasNumeral(c)

ASSUME CallsAssumption ==
  Calls \subseteq {c \in Job : c.fn \in Formatter \cup Printer \cup Reader
                             /\ WellFormed(c)}

-----------------------------------------------------------------------------

(***************************************************************************)
(* The text is the one printf's rules give the directives, each taking its *)
(* own argument at its own width; my_vsnprintf cuts it to the buffer and   *)
(* returns the length it would have had.                                   *)
(***************************************************************************)
FormatAsSpecified ==
  mode = "returned" =>
    /\ job.fn = "my_vsnprintf" =>
         out = Cut(Expected, job.size - 1) /\ returns = Len(Expected)
    /\ job.fn = "simple_sprintf" => out = Expected /\ returns = Len(Expected)

(***************************************************************************)
(* The number printers give the numeral of the value, the two drivers the  *)
(* same decimal one, and atol and atoi read a numeral back, whatever comes *)
(* before and after it.                                                    *)
(***************************************************************************)
NumbersAsSpecified ==
  LET v == SignedWord(job.args[1].word, LongW)
      hex == Numeral(job.args[1].word, 16, Upper)
      padded == Times(HexDigits - Len(hex), "0") \o hex
  IN mode = "returned" =>
       CASE job.fn \in DecimalPrinter ->
              out = Flag(v < 0, "-") \o Numeral(Abs(v), 10, digits)
         [] job.fn = "dw_uart_print_hex" -> out = <<"0", "x">> \o padded
         [] job.fn = "generic_uart_print_hex" -> out = padded
         [] job.fn = "atol" -> returns = v
         [] job.fn = "atoi" -> returns = SignedWord(v, IntW)
         [] OTHER -> TRUE

(* The buffer keeps room for the terminator at every step.                 *)
FormatTypeOK ==
  /\ pos \in 1 .. Len(job.fmt) + 1
  /\ arg \in 1 .. Len(job.args) + 1
  /\ mode \in {"text", "directive", "returned"}
  /\ props \in [pad : {" ", "0"}, npad : Int, alternate : BOOLEAN, nlong : Nat]
  /\ job.fn = "my_vsnprintf" => Len(out) < job.size
  /\ returns \in Int

=============================================================================
