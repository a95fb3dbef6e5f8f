------------------------------ MODULE Strings ------------------------------
(***************************************************************************)
(* The string and memory functions of src/src/lib/string.c, one iteration  *)
(* of a function's loop per step, on a memory of bytes.  A behaviour is one*)
(* call; it starts in any memory, so it is also any later call.            *)
(***************************************************************************)
EXTENDS Integers

CONSTANTS
  MemSize,   \* bytes of memory, at the addresses 1 .. MemSize
  ByteW,     \* the values of a byte: 2^8
  Byte,      \* those that occur
  IntArg     \* the int arguments of memset and memchr

ASSUME StringsAssumption ==
  /\ MemSize \in Nat /\ ByteW \in Nat \ {0}
  /\ 0 \in Byte /\ Byte \subseteq 0 .. ByteW-1
  /\ IntArg \subseteq Int

Addr == 1 .. MemSize
NULL == 0

VARIABLES
  mem,      \* the memory
  call,     \* the function called and its arguments, dst or s1 being d
  stage,    \* the loop that runs
  i,        \* the iterations of it
  j,        \* strstr's position in the haystack
  len,      \* what strlen returned to strcat or strstr
  result,   \* the value returned
  before    \* history: the memory at the call

vars == <<mem, call, stage, i, j, len, result, before>>

-----------------------------------------------------------------------------
(***************************************************************************)
(* The calls the C standard permits: areas lie in memory, strings end in   *)
(* it, and only memmove's areas overlap.                                   *)
(***************************************************************************)

Area(a, n) == a .. a + n - 1

Disjoint(S, T) == S \cap T = {}

EndsIn(m, a) == \E b \in Addr : b >= a /\ m[b] = 0

StrLen(m, a) ==
  CHOOSE n \in 0 .. MemSize : m[a + n] = 0 /\ \A k \in 0 .. n-1 : m[a + k] # 0

(* The string with its terminator.                                         *)
StrArea(m, a) == Area(a, StrLen(m, a) + 1)

Call == [fn : STRING, d : Nat, s : Nat, n : Nat, c : Int]

Args(fn, d, s, n, c) == [fn |-> fn, d |-> d, s |-> s, n |-> n, c |-> c]

Areas == {p \in Addr \X (0 .. MemSize) : p[1] + p[2] - 1 <= MemSize}

(* strncpy and strncmp look at n bytes unless the string ends before.      *)
Bounded(m, a, n) == a + n - 1 <= MemSize \/ EndsIn(m, a)

StrNArea(m, a, n) ==
  IF EndsIn(m, a) /\ StrLen(m, a) < n THEN StrArea(m, a) ELSE Area(a, n)

MemoryCalls ==
  {Args(fn, p[1], 0, p[2], c) : fn \in {"memset", "memchr"}, p \in Areas, c \in IntArg}
  \cup
  {Args(fn, p[1], s, p[2], 0) :
     fn \in {"memcpy", "memmove", "memcmp"}, p \in Areas, s \in Addr}

StringCalls(m) ==
  LET Strs == {a \in Addr : EndsIn(m, a)} IN
    {Args("strlen", 0, s, 0, 0) : s \in Strs}
    \cup {Args("strchr", 0, s, 0, c) : s \in Strs, c \in Byte}
    \cup {Args(fn, d, s, 0, 0) : fn \in {"strcmp", "strstr", "strcat"},
                                 d \in Strs, s \in Strs}
    \cup {Args("strcpy", d, s, 0, 0) : d \in Addr, s \in Strs}
    \cup {Args(fn, d, s, n, 0) : fn \in {"strncpy", "strncmp"},
                                 d \in Addr, s \in Addr, n \in 0 .. MemSize}

Legal(m, a) ==
  CASE a.fn \in {"memmove", "memcmp"} -> <<a.s, a.n>> \in Areas
    [] a.fn = "memcpy" ->
         <<a.s, a.n>> \in Areas /\ Disjoint(Area(a.d, a.n), Area(a.s, a.n))
    [] a.fn = "strcpy" ->
         LET D == Area(a.d, StrLen(m, a.s) + 1) IN
           D \subseteq Addr /\ Disjoint(D, StrArea(m, a.s))
    [] a.fn = "strcat" ->
         LET D == Area(a.d, StrLen(m, a.d) + StrLen(m, a.s) + 1) IN
           D \subseteq Addr /\ Disjoint(D, StrArea(m, a.s))
    [] a.fn = "strncpy" ->
         /\ Bounded(m, a.s, a.n) /\ <<a.d, a.n>> \in Areas
         /\ Disjoint(Area(a.d, a.n), StrNArea(m, a.s, a.n))
    [] a.fn = "strncmp" -> Bounded(m, a.d, a.n) /\ Bounded(m, a.s, a.n)
    [] OTHER -> TRUE

-----------------------------------------------------------------------------

FirstStage(fn) ==
  CASE fn = "strcat" -> "strlen(dst)"
    [] fn = "strstr" -> "strlen(needle)"
    [] fn = "memmove" -> "choose"
    [] OTHER -> "loop"

Init ==
  /\ mem \in [Addr -> Byte]
  /\ before = mem
  /\ call \in {a \in MemoryCalls \cup StringCalls(mem) : Legal(mem, a)}
  /\ stage = FirstStage(call.fn)
  /\ i = 0 /\ j = 0 /\ len = 0
  /\ result = NULL

(* No function runs.                                                       *)
Idle ==
  /\ mem = [a \in Addr |-> 0]
  /\ before = mem
  /\ call = Args("none", 0, 0, 0, 0)
  /\ stage = "returned"
  /\ i = 0 /\ j = 0 /\ len = 0
  /\ result = NULL

Running(fn, st) == call.fn = fn /\ stage = st

Step(st) == stage' = st /\ UNCHANGED <<call, result, before>>

Again == i' = i + 1 /\ UNCHANGED <<j, len>> /\ Step(stage)

Store(a, v) == mem' = [mem EXCEPT ![a] = v]

Return(v) ==
  /\ result' = v
  /\ stage' = "returned"
  /\ UNCHANGED <<mem, call, i, j, len, before>>

(* *a - *b of two unsigned chars. Mutant: of two signed ones.              *)
SignedByte(v) == IF v >= ByteW \div 2 THEN v - ByteW ELSE v
Difference_Signed(a, b) == SignedByte(mem[a]) - SignedByte(mem[b])

Difference(a, b) == mem[a] - mem[b]

-----------------------------------------------------------------------------

(* Mutant: the value is not cast to unsigned char.                         *)
memset_NoCast ==
  /\ Running("memset", "loop")
  /\ IF i < call.n
     THEN Store(call.d + i, call.c) /\ Again
     ELSE Return(call.d)

memset ==
  /\ Running("memset", "loop")
  /\ IF i < call.n
     THEN Store(call.d + i, call.c % ByteW) /\ Again
     ELSE Return(call.d)

(* n bytes, the first one first.                                           *)
CopyUp ==
  IF i < call.n
  THEN Store(call.d + i, mem[call.s + i]) /\ Again
  ELSE Return(call.d)

memcpy == Running("memcpy", "loop") /\ CopyUp

(* Mutant: memmove copies upwards whatever the order of its areas.         *)
memmove_choose_Up ==
  /\ Running("memmove", "choose")
  /\ Step("up")
  /\ UNCHANGED <<mem, i, j, len>>

memmove_choose ==
  /\ Running("memmove", "choose")
  /\ Step(IF call.d < call.s THEN "up" ELSE "down")
  /\ UNCHANGED <<mem, i, j, len>>

memmove_up == Running("memmove", "up") /\ CopyUp

memmove_down ==
  /\ Running("memmove", "down")
  /\ IF i < call.n
     THEN /\ Store(call.d + call.n - 1 - i, mem[call.s + call.n - 1 - i])
          /\ Again
     ELSE Return(call.d)

memcmp ==
  /\ Running("memcmp", "loop")
  /\ IF i < call.n
     THEN IF mem[call.d + i] # mem[call.s + i]
          THEN Return(Difference(call.d + i, call.s + i))
          ELSE Again /\ UNCHANGED mem
     ELSE Return(0)

memchr ==
  /\ Running("memchr", "loop")
  /\ IF i < call.n
     THEN IF mem[call.d + i] = call.c % ByteW
          THEN Return(call.d + i)
          ELSE Again /\ UNCHANGED mem
     ELSE Return(NULL)

-----------------------------------------------------------------------------

strlen ==
  /\ Running("strlen", "loop")
  /\ IF mem[call.s + i] # 0 THEN Again /\ UNCHANGED mem ELSE Return(i)

(* strcpy to address d: the terminator is the last byte copied.            *)
CopyString(d) ==
  /\ Store(d + i, mem[call.s + i])
  /\ IF mem[call.s + i] # 0
     THEN Again
     ELSE /\ result' = call.d
          /\ stage' = "returned"
          /\ UNCHANGED <<call, i, j, len, before>>

strcpy == Running("strcpy", "loop") /\ CopyString(call.d)

strcat_end ==
  /\ Running("strcat", "strlen(dst)")
  /\ IF mem[call.d + i] # 0
     THEN Again
     ELSE Step("loop") /\ len' = i /\ i' = 0 /\ UNCHANGED j
  /\ UNCHANGED mem

strcat == Running("strcat", "loop") /\ CopyString(call.d + len)

strncpy ==
  /\ Running("strncpy", "loop")
  /\ IF i < call.n /\ mem[call.s + i] # 0
     THEN Store(call.d + i, mem[call.s + i]) /\ Again
     ELSE Step("pad") /\ UNCHANGED <<mem, i, j, len>>

strncpy_pad ==
  /\ Running("strncpy", "pad")
  /\ IF i < call.n THEN Store(call.d + i, 0) /\ Again ELSE Return(call.d)

strcmp ==
  /\ Running("strcmp", "loop")
  /\ IF mem[call.d + i] # 0 /\ mem[call.d + i] = mem[call.s + i]
     THEN Again /\ UNCHANGED mem
     ELSE Return(Difference(call.d + i, call.s + i))

(* strncmp's test whether n bytes at a and at b are told apart at index i. *)
Differ(a, b) == mem[a + i] # mem[b + i] \/ mem[a + i] = 0

strncmp ==
  /\ Running("strncmp", "loop")
  /\ IF i < call.n
     THEN IF Differ(call.d, call.s)
          THEN Return(Difference(call.d + i, call.s + i))
          ELSE Again /\ UNCHANGED mem
     ELSE Return(0)

strchr ==
  /\ Running("strchr", "loop")
  /\ IF mem[call.s + i] # 0
     THEN IF mem[call.s + i] = call.c
          THEN Return(call.s + i)
          ELSE Again /\ UNCHANGED mem
     ELSE Return(IF call.c = 0 THEN call.s + i ELSE NULL)

-----------------------------------------------------------------------------
(* strstr(d, s): i counts within the needle, j within the haystack.        *)

strstr_needle ==
  /\ Running("strstr", "strlen(needle)")
  /\ IF mem[call.s + i] # 0
     THEN Again /\ UNCHANGED mem
     ELSE IF i = 0
          THEN Return(call.d)
          ELSE Step("haystack") /\ len' = i /\ UNCHANGED <<mem, i, j>>

strstr_haystack ==
  /\ Running("strstr", "haystack")
  /\ IF mem[call.d + j] # 0
     THEN Step("strncmp") /\ i' = 0 /\ UNCHANGED <<mem, j, len>>
     ELSE Return(NULL)

(* Mutant: the next comparison starts at the same place.                   *)
strstr_strncmp_Stays ==
  /\ Running("strstr", "strncmp")
  /\ IF i < len
     THEN IF Differ(call.d + j, call.s)
          THEN Step("haystack") /\ UNCHANGED <<mem, i, j, len>>
          ELSE Again /\ UNCHANGED mem
     ELSE Return(call.d + j)

strstr_strncmp ==
  /\ Running("strstr", "strncmp")
  /\ IF i < len
     THEN IF Differ(call.d + j, call.s)
          THEN Step("haystack") /\ j' = j + 1 /\ UNCHANGED <<mem, i, len>>
          ELSE Again /\ UNCHANGED mem
     ELSE Return(call.d + j)

Next ==
  \/ memset \/ memcpy \/ memmove_choose \/ memmove_up \/ memmove_down
  \/ memcmp \/ memchr
  \/ strlen \/ strcpy \/ strcat_end \/ strcat \/ strncpy \/ strncpy_pad
  \/ strcmp \/ strncmp \/ strchr
  \/ strstr_needle \/ strstr_haystack \/ strstr_strncmp

-----------------------------------------------------------------------------

TypeOK ==
  /\ mem \in [Addr -> 0 .. ByteW-1]
  /\ stage \in {"choose", "up", "down", "loop", "pad", "strlen(dst)",
                "strlen(needle)", "haystack", "strncmp", "returned"}
  /\ {i, j, len} \subseteq 0 .. MemSize
  /\ result \in Int

(* What the C standard says of the memory after a call; D(k) is the value  *)
(* of the k-th of n bytes at a.                                            *)
Written(a, n, D(_)) ==
  [b \in Addr |-> IF b \in Area(a, n) THEN D(b - a) ELSE before[b]]

ExpectedMemory ==
  LET d == call.d
      s == call.s
      Source(k) == before[s + k]
      Padded(k) == IF \E l \in 0 .. k : before[s + l] = 0 THEN 0 ELSE before[s + k]
  IN CASE call.fn = "memset" -> Written(d, call.n, LAMBDA k : call.c % ByteW)
       [] call.fn \in {"memcpy", "memmove"} -> Written(d, call.n, Source)
       [] call.fn = "strcpy" -> Written(d, StrLen(before, s) + 1, Source)
       [] call.fn = "strcat" ->
            Written(d + StrLen(before, d), StrLen(before, s) + 1, Source)
       [] call.fn = "strncpy" -> Written(d, call.n, Padded)
       [] OTHER -> before

(***************************************************************************)
(* Every function leaves in memory what the C standard says, and nothing   *)
(* else changed: memmove also when its areas overlap, in either direction, *)
(* strncpy with its padding and without a terminator if there is no room.  *)
(***************************************************************************)
MemoryAsSpecified == stage = "returned" => mem = ExpectedMemory

First(S) == IF S = {} THEN NULL ELSE CHOOSE a \in S : \A b \in S : a <= b

Sign(x) == IF x < 0 THEN -1 ELSE IF x = 0 THEN 0 ELSE 1

(* How n bytes at a compare with n bytes at b: the first difference counts.*)
Compared(a, b, n) ==
  LET at == {k \in 0 .. n-1 : before[a + k] # before[b + k]}
      k0 == CHOOSE k \in at : \A l \in at : k <= l
  IN IF at = {} THEN 0 ELSE Sign(before[a + k0] - before[b + k0])

(* The bytes that decide a comparison of two strings.                      *)
Common(a, b, n) ==
  CHOOSE k \in 0 .. n :
    /\ k < n => before[a + k] # before[b + k] \/ before[a + k] = 0
    /\ \A l \in 0 .. k-1 : before[a + l] = before[b + l] /\ before[a + l] # 0

Occurs(a, needle, end) ==
  LET n == StrLen(before, needle) IN
    a + n <= end /\ \A k \in 0 .. n-1 : before[a + k] = before[needle + k]

ExpectedResult ==
  LET d == call.d
      s == call.s
      upto(n) == IF Common(d, s, n) < n THEN Common(d, s, n) + 1 ELSE n
  IN CASE call.fn = "strlen" -> result = StrLen(before, s)
       [] call.fn = "memchr" ->
            result = First({a \in Area(d, call.n) : before[a] = call.c % ByteW})
       [] call.fn = "strchr" ->
            result = First({a \in StrArea(before, s) : before[a] = call.c})
       [] call.fn = "strstr" ->
            result = First({a \in StrArea(before, d) :
                              Occurs(a, s, d + StrLen(before, d))})
       [] call.fn = "memcmp" -> Sign(result) = Compared(d, s, call.n)
       [] call.fn = "strcmp" -> Sign(result) = Compared(d, s, upto(MemSize))
       [] call.fn = "strncmp" -> Sign(result) = Compared(d, s, upto(call.n))
       [] OTHER -> result = d

(***************************************************************************)
(* Every function returns what the C standard says: the comparisons the    *)
(* sign of the first difference between unsigned bytes, the searches the   *)
(* first place, strchr finding the terminator too, the rest dst.           *)
(***************************************************************************)
ResultAsSpecified == stage = "returned" /\ call.fn # "none" => ExpectedResult

=============================================================================
