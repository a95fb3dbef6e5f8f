--------------------------- MODULE LibraryProofs ---------------------------
(***************************************************************************)
(* The theorems of Library, for a memory of any size and bytes of any      *)
(* width, for ints and longs of any width, and for any set of legal calls. *)
(*                                                                         *)
(* The first two parts are about string.c's functions: what each has       *)
(* written when it returns, and what it returns.  Their invariants say of  *)
(* each loop how far it has come, and what the bytes were that it has read.*)
(* The third is about numbers: the digits that a loop takes off the low end*)
(* are the numeral, and reading the numeral gives the number back.  The    *)
(* fourth is about formats: which character of which directive is read at  *)
(* which position, and that a conversion adds the directive's field.  The  *)
(* last puts the two halves of the library together.                       *)
(***************************************************************************)
EXTENDS Library, Basics

Bytes == 0 .. ByteW-1

-----------------------------------------------------------------------------
(* The length of a string.                                                 *)

IsString(m, a) == m \in [Addr -> Bytes] /\ a \in Addr /\ EndsIn(m, a)

(* StrLen's CHOOSE has a value, and the terminator is in memory.           *)
LEMMA StrLenIs ==
  ASSUME NEW m, NEW a, IsString(m, a)
  PROVE  /\ StrLen(m, a) \in Nat
         /\ a + StrLen(m, a) \in Addr
         /\ m[a + StrLen(m, a)] = 0
         /\ \A k \in 0 .. StrLen(m, a) - 1 : m[a + k] # 0
<1>0. MemSize \in Nat /\ a \in 1 .. MemSize /\ a \in Int
  BY StringsAssumption DEF IsString, Addr
<1> DEFINE Z == {k \in 0 .. MemSize : m[a + k] = 0}
           P(n) == m[a + n] = 0 /\ \A k \in 0 .. n-1 : m[a + k] # 0
<1>1. PICK b \in Addr : b >= a /\ m[b] = 0
  BY DEF IsString, EndsIn
<1>2. b - a \in Z /\ b \in 1 .. MemSize
  <2>1. b \in 1 .. MemSize /\ b >= a /\ a + (b - a) = b
    BY <1>0, <1>1 DEF Addr
  <2> QED BY <2>1, <1>0, <1>1
<1>3. PICK n \in Z : \A k \in Z : n <= k
  <2>1. Z \in SUBSET (0 .. MemSize) /\ Z # {}
    BY <1>2
  <2> QED BY <2>1, <1>0, LeastElement
<1>4. n \in 0 .. MemSize /\ P(n)
  BY <1>0, <1>3
<1>5. StrLen(m, a) \in 0 .. MemSize /\ P(StrLen(m, a))
  BY <1>4, Zenon DEF StrLen
<1> HIDE DEF P
<1>6. StrLen(m, a) <= b - a
  <2>1. SUFFICES ASSUME b - a < StrLen(m, a) PROVE FALSE
    BY <1>0, <1>2, <1>5
  <2>2. b - a \in 0 .. StrLen(m, a) - 1
    BY <2>1, <1>0, <1>1, <1>2, <1>5
  <2> QED BY <2>2, <1>2, <1>5 DEF P
<1>7. a + StrLen(m, a) \in Addr
  BY <1>0, <1>2, <1>5, <1>6 DEF Addr
<1> QED BY <1>0, <1>5, <1>7 DEF P

(* The length is the only place of a first terminator.                     *)
LEMMA StrLenUnique ==
  ASSUME NEW m, NEW a, IsString(m, a), NEW n \in Nat,
         m[a + n] = 0, \A k \in 0 .. n-1 : m[a + k] # 0
  PROVE  n = StrLen(m, a)
<1>1. StrLen(m, a) \in Nat /\ m[a + StrLen(m, a)] = 0
      /\ \A k \in 0 .. StrLen(m, a) - 1 : m[a + k] # 0
  BY StrLenIs
<1>2. n \notin 0 .. StrLen(m, a) - 1 /\ StrLen(m, a) \notin 0 .. n-1
  BY <1>1
<1> QED BY <1>1, <1>2
-----------------------------------------------------------------------------

(* m with the addresses in D written, as a copy of what is at s to d, as   *)
(* strncpy's padded copy, and with one value.                              *)
CopiedTo(m, D, s, d) ==
  [b \in Addr |-> IF b \in D THEN m[s + (b - d)] ELSE m[b]]

(* The k-th byte strncpy writes.                                           *)
PadByte(m, s, k) == IF \E l \in 0 .. k : m[s + l] = 0 THEN 0 ELSE m[s + k]

PaddedTo(m, D, s, d) ==
  [b \in Addr |-> IF b \in D THEN PadByte(m, s, b - d) ELSE m[b]]

Filled(m, D, v) == [b \in Addr |-> IF b \in D THEN v ELSE m[b]]

(* The arguments of the legal calls.                                       *)
SetArgs(a) ==
  /\ a.d \in Addr /\ a.n \in 0 .. MemSize /\ a.d + a.n - 1 <= MemSize
  /\ a.c \in Int

MoveArgs(a) ==
  /\ a.d \in Addr /\ a.n \in 0 .. MemSize /\ a.d + a.n - 1 <= MemSize
  /\ a.s \in Addr /\ a.s + a.n - 1 <= MemSize

CopyArgs(a) == MoveArgs(a) /\ Disjoint(Area(a.d, a.n), Area(a.s, a.n))

StrCpyArgs(m, a) ==
  /\ a.d \in Addr /\ IsString(m, a.s)
  /\ Area(a.d, StrLen(m, a.s) + 1) \subseteq Addr
  /\ Disjoint(Area(a.d, StrLen(m, a.s) + 1), StrArea(m, a.s))

StrCatArgs(m, a) ==
  /\ IsString(m, a.d) /\ IsString(m, a.s)
  /\ Area(a.d, StrLen(m, a.d) + StrLen(m, a.s) + 1) \subseteq Addr
  /\ Disjoint(Area(a.d, StrLen(m, a.d) + StrLen(m, a.s) + 1), StrArea(m, a.s))

StrNCpyArgs(m, a) ==
  /\ a.d \in Addr /\ a.n \in 0 .. MemSize /\ a.d + a.n - 1 <= MemSize
  /\ a.s \in Addr /\ Bounded(m, a.s, a.n)
  /\ Disjoint(Area(a.d, a.n), StrNArea(m, a.s, a.n))

Operands(m, a) ==
  /\ m \in [Addr -> Bytes]
  /\ a.fn = "memset"  => SetArgs(a)
  /\ a.fn = "memcpy"  => CopyArgs(a)
  /\ a.fn = "memmove" => MoveArgs(a)
  /\ a.fn = "strcpy"  => StrCpyArgs(m, a)
  /\ a.fn = "strcat"  => StrCatArgs(m, a)
  /\ a.fn = "strncpy" => StrNCpyArgs(m, a)

LEMMA LegalOperands ==
  ASSUME NEW m \in [Addr -> Byte],
         NEW a \in MemoryCalls \cup StringCalls(m), Legal(m, a)
  PROVE  Operands(m, a)
<1>0. /\ m \in [Addr -> Bytes]
      /\ IntArg \subseteq Int
  BY StringsAssumption DEF Bytes
<1>1. CASE \E fn \in {"memset", "memchr"}, p \in Areas, c \in IntArg :
             a = Args(fn, p[1], 0, p[2], c)
  <2>1. PICK fn \in {"memset", "memchr"}, p \in Areas, c \in IntArg :
             a = Args(fn, p[1], 0, p[2], c)
    BY <1>1
  <2>2. SetArgs(a) /\ a.fn \in {"memset", "memchr"}
    BY <2>1, <1>0 DEF Args, SetArgs, Areas
  <2> QED BY <2>2, <1>0 DEF Operands
<1>2. CASE \E fn \in {"memcpy", "memmove", "memcmp"}, p \in Areas, s \in Addr :
             a = Args(fn, p[1], s, p[2], 0)
  <2>1. PICK fn \in {"memcpy", "memmove", "memcmp"}, p \in Areas, s \in Addr :
             a = Args(fn, p[1], s, p[2], 0)
    BY <1>2
  <2>2. /\ a.fn \in {"memcpy", "memmove", "memcmp"}
        /\ a.d \in Addr /\ a.n \in 0 .. MemSize /\ a.d + a.n - 1 <= MemSize
        /\ a.s \in Addr
    BY <2>1 DEF Args, Areas
  <2>3. <<a.s, a.n>> \in Areas => a.s + a.n - 1 <= MemSize
    BY DEF Areas
  <2>4. a.fn = "memcpy" => CopyArgs(a)
    BY <2>2, <2>3 DEF Legal, CopyArgs, MoveArgs
  <2>5. a.fn = "memmove" => MoveArgs(a)
    BY <2>2, <2>3 DEF Legal, MoveArgs
  <2> QED BY <2>2, <2>4, <2>5, <1>0 DEF Operands
<1>3. CASE a \in StringCalls(m)
  <2> DEFINE Strs == {x \in Addr : EndsIn(m, x)}
  <2>1. CASE \E s \in Strs : a = Args("strlen", 0, s, 0, 0)
    BY <2>1, <1>0 DEF Operands, Args
  <2>2. CASE \E s \in Strs, c \in Byte :
               a = Args("strchr", 0, s, 0, c)
    BY <2>2, <1>0 DEF Operands, Args
  <2>3. CASE \E fn \in {"strcmp", "strstr", "strcat"},
                d \in Strs, s \in Strs :
               a = Args(fn, d, s, 0, 0)
    <3>1. /\ a.fn \in {"strcmp", "strstr", "strcat"}
          /\ a.d \in Addr /\ EndsIn(m, a.d) /\ a.s \in Addr /\ EndsIn(m, a.s)
      BY <2>3 DEF Args
    <3>2. a.fn = "strcat" => StrCatArgs(m, a)
      BY <3>1, <1>0, Zenon DEF Legal, StrCatArgs, IsString
    <3> QED BY <3>1, <3>2, <1>0 DEF Operands
  <2>4. CASE \E d \in Addr, s \in Strs :
               a = Args("strcpy", d, s, 0, 0)
    <3>1. /\ a.fn = "strcpy"
          /\ a.d \in Addr /\ a.s \in Addr /\ EndsIn(m, a.s)
      BY <2>4 DEF Args
    <3>2. StrCpyArgs(m, a)
      BY <3>1, <1>0, Zenon DEF Legal, StrCpyArgs, IsString
    <3> QED BY <3>1, <3>2, <1>0 DEF Operands
  <2>5. CASE \E fn \in {"strncpy", "strncmp"}, d \in Addr, s \in Addr,
                n \in 0 .. MemSize : a = Args(fn, d, s, n, 0)
    <3>1. /\ a.fn \in {"strncpy", "strncmp"}
          /\ a.d \in Addr /\ a.s \in Addr /\ a.n \in 0 .. MemSize
      BY <2>5 DEF Args
    <3>2. <<a.d, a.n>> \in Areas => a.d + a.n - 1 <= MemSize
      BY DEF Areas
    <3>3. a.fn = "strncpy" => StrNCpyArgs(m, a)
      BY <3>1, <3>2, <1>0, Zenon DEF Legal, StrNCpyArgs
    <3> QED BY <3>1, <3>3, <1>0 DEF Operands
  <2> QED BY <1>3, <2>1, <2>2, <2>3, <2>4, <2>5 DEF StringCalls
<1> QED BY <1>1, <1>2, <1>3 DEF MemoryCalls
-----------------------------------------------------------------------------

Writers == {"memset", "memcpy", "memmove", "strcpy", "strcat", "strncpy"}

(* The memory while each of them runs.                                     *)
memsetLoop ==
  Running("memset", "loop") =>
    /\ i <= call.n
    /\ mem = Filled(before, Area(call.d, i), call.c % ByteW)

memcpyLoop ==
  Running("memcpy", "loop") =>
    i <= call.n /\ mem = CopiedTo(before, Area(call.d, i), call.s, call.d)

memmoveUp ==
  Running("memmove", "up") =>
    /\ call.d < call.s /\ i <= call.n
    /\ mem = CopiedTo(before, Area(call.d, i), call.s, call.d)

memmoveDown ==
  Running("memmove", "down") =>
    /\ call.s <= call.d /\ i <= call.n
    /\ mem = CopiedTo(before, Area(call.d + call.n - i, i), call.s, call.d)

strcpyLoop ==
  Running("strcpy", "loop") =>
    /\ \A k \in 0 .. i-1 : before[call.s + k] # 0
    /\ mem = CopiedTo(before, Area(call.d, i), call.s, call.d)

strcatEnd ==
  Running("strcat", "strlen(dst)") =>
    \A k \in 0 .. i-1 : before[call.d + k] # 0

strcatLoop ==
  Running("strcat", "loop") =>
    /\ len = StrLen(before, call.d)
    /\ \A k \in 0 .. i-1 : before[call.s + k] # 0
    /\ mem = CopiedTo(before, Area(call.d + len, i), call.s, call.d + len)

strncpyLoop ==
  Running("strncpy", "loop") =>
    /\ i <= call.n
    /\ \A k \in 0 .. i-1 : before[call.s + k] # 0
    /\ mem = PaddedTo(before, Area(call.d, i), call.s, call.d)

strncpyPad ==
  Running("strncpy", "pad") =>
    /\ i <= call.n
    /\ i < call.n => \E l \in 0 .. i : before[call.s + l] = 0
    /\ mem = PaddedTo(before, Area(call.d, i), call.s, call.d)

(* The others do not write, nor do memmove and strcat in their first stage.*)
Unwritten ==
  \/ call.fn \notin Writers
  \/ Running("memmove", "choose") \/ Running("strcat", "strlen(dst)")
  => mem = before

(* memmove chooses its direction before it counts.                         *)
Started == Running("memmove", "choose") => i = 0

Progress ==
  /\ Started
  /\ memsetLoop /\ memcpyLoop /\ memmoveUp /\ memmoveDown
  /\ strcpyLoop /\ strcatEnd /\ strcatLoop /\ strncpyLoop /\ strncpyPad
  /\ Unwritten

StringsInv ==
  /\ Operands(before, call) /\ i \in Nat /\ Progress
  /\ MemoryAsSpecified

-----------------------------------------------------------------------------

(* One more byte.                                                          *)
LEMMA CopyOne ==
  ASSUME NEW m \in [Addr -> Bytes], NEW D, NEW s, NEW d, NEW a \in Addr, NEW v,
         NEW M, M = CopiedTo(m, D, s, d),
         v = m[s + (a - d)]
  PROVE  [M EXCEPT ![a] = v] = CopiedTo(m, D \cup {a}, s, d)
  BY DEF CopiedTo

LEMMA FillOne ==
  ASSUME NEW m \in [Addr -> Bytes], NEW D, NEW v, NEW a \in Addr,
         NEW M, M = Filled(m, D, v)
  PROVE  [M EXCEPT ![a] = v] = Filled(m, D \cup {a}, v)
  BY DEF Filled

(* None yet.                                                               *)
LEMMA CopyNone ==
  ASSUME NEW m \in [Addr -> Bytes], NEW s, NEW d, NEW a \in Int
  PROVE  /\ CopiedTo(m, Area(a, 0), s, d) = m
         /\ PaddedTo(m, Area(a, 0), s, d) = m
<1>1. Area(a, 0) = {}
  BY DEF Area
<1> QED BY <1>1 DEF CopiedTo, PaddedTo

LEMMA AreaGrows ==
  ASSUME NEW a \in Int, NEW n \in Nat
  PROVE  /\ Area(a, n) \cup {a + n} = Area(a, n+1)
         /\ Area(a, n) \cup {a - 1} = Area(a - 1, n+1)
  BY DEF Area

LEMMA InitStringsInv == ASSUME Init PROVE StringsInv
<1>1. Operands(before, call)
  BY LegalOperands DEF Init
<1>2. i = 0 /\ stage = FirstStage(call.fn) /\ mem = before
  BY DEF Init
<1>3. before \in [Addr -> Bytes]
  BY <1>1 DEF Operands
<1>4. \A a, s, d : a \in Int =>
        /\ CopiedTo(before, Area(a, 0), s, d) = before
        /\ PaddedTo(before, Area(a, 0), s, d) = before
  BY <1>3, CopyNone
<1>5. stage # "returned" /\ stage # "up" /\ stage # "down" /\ stage # "pad"
  BY <1>2 DEF FirstStage
<1>6. /\ call.fn = "strcat" => stage # "loop"
      /\ call.fn = "memmove" => stage = "choose"
  BY <1>2 DEF FirstStage
<1>7. memsetLoop
  <2>1. SUFFICES ASSUME Running("memset", "loop") PROVE memsetLoop
    BY DEF memsetLoop
  <2>2. SetArgs(call)
    BY <1>1, <2>1 DEF Operands, Running
  <2>3. Area(call.d, i) = {} /\ i <= call.n
    BY <1>2, <2>2 DEF SetArgs, Addr, Area
  <2>4. \A v : Filled(before, {}, v) = before
    BY <1>3 DEF Filled
  <2> QED BY <1>2, <2>3, <2>4, Zenon DEF memsetLoop
<1>8. memcpyLoop
  BY <1>1, <1>2, <1>4
     DEF memcpyLoop, Running, Operands, CopyArgs, MoveArgs, Addr
<1>9. strcpyLoop
  BY <1>1, <1>2, <1>4 DEF strcpyLoop, Running, Operands, StrCpyArgs, Addr
<1>10. strncpyLoop
  BY <1>1, <1>2, <1>4 DEF strncpyLoop, Running, Operands, StrNCpyArgs, Addr
<1>11. strcatEnd /\ Started
  BY <1>2 DEF strcatEnd, Started
<1>12. memmoveUp /\ memmoveDown /\ strcatLoop /\ strncpyPad /\ Unwritten
  BY <1>2, <1>5, <1>6
     DEF memmoveUp, memmoveDown, strcatLoop, strncpyPad, Unwritten, Writers,
         Running
<1> QED
  BY <1>1, <1>2, <1>5, <1>7, <1>8, <1>9, <1>10, <1>11, <1>12
     DEF StringsInv, Progress, MemoryAsSpecified
-----------------------------------------------------------------------------

(* ExpectedMemory in the invariant's terms.                                *)
LEMMA ExpectedIs ==
  /\ call.fn = "memset" =>
       ExpectedMemory = Filled(before, Area(call.d, call.n), call.c % ByteW)
  /\ call.fn \in {"memcpy", "memmove"} =>
       ExpectedMemory = CopiedTo(before, Area(call.d, call.n), call.s, call.d)
  /\ call.fn = "strcpy" =>
       ExpectedMemory =
         CopiedTo(before, Area(call.d, StrLen(before, call.s) + 1),
                  call.s, call.d)
  /\ call.fn = "strcat" =>
       ExpectedMemory =
         CopiedTo(before,
                  Area(call.d + StrLen(before, call.d), StrLen(before, call.s) + 1),
                  call.s, call.d + StrLen(before, call.d))
  /\ call.fn = "strncpy" =>
       ExpectedMemory = PaddedTo(before, Area(call.d, call.n), call.s, call.d)
  /\ call.fn \notin Writers => ExpectedMemory = before
<1>1. call.fn = "memset" =>
       ExpectedMemory = Filled(before, Area(call.d, call.n), call.c % ByteW)
  BY Zenon DEF ExpectedMemory, Written, Filled
<1>2. call.fn \in {"memcpy", "memmove"} =>
       ExpectedMemory = CopiedTo(before, Area(call.d, call.n), call.s, call.d)
  BY Zenon DEF ExpectedMemory, Written, CopiedTo
<1>3. call.fn = "strcpy" =>
       ExpectedMemory =
         CopiedTo(before, Area(call.d, StrLen(before, call.s) + 1),
                  call.s, call.d)
  BY Zenon DEF ExpectedMemory, Written, CopiedTo
<1>4. call.fn = "strcat" =>
       ExpectedMemory =
         CopiedTo(before,
                  Area(call.d + StrLen(before, call.d), StrLen(before, call.s) + 1),
                  call.s, call.d + StrLen(before, call.d))
  BY Zenon DEF ExpectedMemory, Written, CopiedTo
<1>5. call.fn = "strncpy" =>
       ExpectedMemory = PaddedTo(before, Area(call.d, call.n), call.s, call.d)
  BY Zenon DEF ExpectedMemory, Written, PaddedTo, PadByte
<1>6. call.fn \notin Writers => ExpectedMemory = before
  BY Zenon DEF ExpectedMemory, Writers
<1> QED BY <1>1, <1>2, <1>3, <1>4, <1>5, <1>6, Zenon

LEMMA ReturnKeeps ==
  ASSUME StringsInv, UNCHANGED <<call, before>>, i' \in Nat,
         stage' = "returned", mem' = ExpectedMemory
  PROVE  StringsInv'
<1>1. ExpectedMemory' = ExpectedMemory
  BY Zenon DEF ExpectedMemory, Written
<1>2. MemoryAsSpecified' /\ Operands(before, call)'
  BY <1>1, Zenon DEF MemoryAsSpecified, StringsInv
<1>3. Unwritten'
  <2>1. call.fn \notin Writers => ExpectedMemory = before
    BY ExpectedIs, Zenon
  <2> QED BY <2>1 DEF Unwritten, Running, Writers
<1> QED BY <1>2, <1>3
           DEF StringsInv, Progress, memsetLoop, memcpyLoop, memmoveUp,
               memmoveDown, strcpyLoop, strcatEnd, strcatLoop, strncpyLoop,
               strncpyPad, Started, Running

(* A step of a function that does not write.                               *)
LEMMA ReadersKeep ==
  ASSUME StringsInv, UNCHANGED <<mem, call, before>>, i' \in Nat,
         call.fn \notin Writers
  PROVE  StringsInv'
<1>1. mem = before
  BY DEF StringsInv, Progress, Unwritten, Writers
<1>2. ExpectedMemory' = ExpectedMemory
  BY Zenon DEF ExpectedMemory, Written
<1>3. ExpectedMemory = before
  BY ExpectedIs, Zenon
<1>4. MemoryAsSpecified' /\ Unwritten' /\ Operands(before, call)'
  BY <1>1, <1>2, <1>3, Zenon
     DEF MemoryAsSpecified, Unwritten, Writers, StringsInv
<1> QED BY <1>4
           DEF StringsInv, Progress, memsetLoop, memcpyLoop, memmoveUp,
               memmoveDown, strcpyLoop, strcatEnd, strcatLoop, strncpyLoop,
               strncpyPad, Started, Running, Writers

(* A step of a function's loop owes the next state that loop's part only.  *)
LEMMA StepKeeps ==
  ASSUME StringsInv, UNCHANGED <<call, before>>, i' \in Nat,
         stage' # "returned", Progress'
  PROVE  StringsInv'
  BY DEF StringsInv, MemoryAsSpecified

LEMMA memsetKeeps == ASSUME StringsInv, memset PROVE StringsInv'
<1>1. /\ Running("memset", "loop") /\ i \in Nat
      /\ UNCHANGED <<call, before>>
  BY DEF memset, StringsInv, Again, Step, Return
<1>2. SetArgs(call) /\ before \in [Addr -> Bytes]
  BY <1>1 DEF StringsInv, Operands, Running
<1>3. /\ call.d \in 1 .. MemSize /\ call.n \in Nat
      /\ call.d + call.n - 1 <= MemSize
      /\ MemSize \in Nat
  BY <1>2, StringsAssumption DEF SetArgs, Addr
<1>4. i <= call.n /\ mem = Filled(before, Area(call.d, i), call.c % ByteW)
  BY <1>1 DEF StringsInv, Progress, memsetLoop
<1>5. CASE i < call.n
  <2>1. /\ mem' = [mem EXCEPT ![call.d + i] = call.c % ByteW]
        /\ i' = i + 1 /\ stage' = "loop"
    BY <1>1, <1>5 DEF memset, Store, Again, Step, Running
  <2>2. call.d + i \in Addr /\ call.d \in Int /\ i + 1 <= call.n
    BY <1>1, <1>3, <1>5 DEF Addr
  <2>3. Area(call.d, i) \cup {call.d + i} = Area(call.d, i + 1)
    BY <1>1, <2>2, AreaGrows, Zenon
  <2>4. mem' = Filled(before, Area(call.d, i + 1), call.c % ByteW)
    <3>1. [mem EXCEPT ![call.d + i] = call.c % ByteW]
            = Filled(before, Area(call.d, i) \cup {call.d + i}, call.c % ByteW)
      BY <1>2, <1>4, <2>2, FillOne
    <3> QED BY <2>1, <2>3, <3>1, Zenon
  <2>5. memsetLoop'
    BY <1>1, <2>1, <2>2, <2>4, Zenon DEF memsetLoop
  <2>6. Progress'
    BY <1>1, <2>1, <2>5
       DEF Progress, Started, Running, memsetLoop, memcpyLoop, memmoveUp,
           memmoveDown, strcpyLoop, strcatEnd, strcatLoop, strncpyLoop,
           strncpyPad, Unwritten, Writers
  <2> QED BY <1>1, <2>1, <2>6, StepKeeps
<1>6. CASE ~(i < call.n)
  <2>1. i = call.n
    BY <1>1, <1>3, <1>4, <1>6
  <2>2. mem' = mem /\ i' = i /\ stage' = "returned"
    BY <1>6 DEF memset, Return
  <2>3. mem' = ExpectedMemory
    BY <1>1, <1>4, <2>1, <2>2, ExpectedIs, Zenon DEF Running
  <2> QED BY <1>1, <2>2, <2>3, ReturnKeeps
<1> QED BY <1>5, <1>6

(* The step and the return of a loop that copies upwards.                  *)
LEMMA CopyUpKeeps ==
  ASSUME MoveArgs(call), before \in [Addr -> Bytes], i \in Nat, i <= call.n,
         mem = CopiedTo(before, Area(call.d, i), call.s, call.d), CopyUp,
         i < call.n => call.s + i \notin Area(call.d, i)
  PROVE  /\ UNCHANGED <<call, before>> /\ i' \in Nat
         /\ \/ /\ stage' = stage /\ i' <= call.n
               /\ mem' = CopiedTo(before, Area(call.d, i'), call.s, call.d)
            \/ /\ stage' = "returned"
               /\ mem' = CopiedTo(before, Area(call.d, call.n), call.s, call.d)
<1>1. /\ call.d \in 1 .. MemSize /\ call.n \in Nat
      /\ call.d + call.n - 1 <= MemSize
      /\ call.s \in 1 .. MemSize /\ call.s + call.n - 1 <= MemSize
      /\ MemSize \in Nat
  BY StringsAssumption DEF MoveArgs, Addr
<1>2. CASE i < call.n
  <2>1. /\ mem' = [mem EXCEPT ![call.d + i] = mem[call.s + i]]
        /\ i' = i + 1 /\ stage' = stage /\ UNCHANGED <<call, before>>
    BY <1>2 DEF CopyUp, Store, Again, Step
  <2>2. /\ call.d + i \in Addr /\ call.s + i \in Addr
        /\ call.d \in Int /\ call.s \in Int
    BY <1>1, <1>2 DEF Addr
  <2>3. mem[call.s + i] = before[call.s + i]
    BY <1>2, <2>2 DEF CopiedTo
  <2>4. mem[call.s + i] = before[call.s + ((call.d + i) - call.d)]
    BY <1>1, <2>3
  <2>5. Area(call.d, i) \cup {call.d + i} = Area(call.d, i + 1)
    BY <2>2, AreaGrows, Zenon
  <2>6. mem' = CopiedTo(before, Area(call.d, i + 1), call.s, call.d)
    <3>1. [mem EXCEPT ![call.d + i] = mem[call.s + i]]
            = CopiedTo(before, Area(call.d, i) \cup {call.d + i},
                       call.s, call.d)
      BY <2>2, <2>4, CopyOne
    <3> QED BY <2>1, <2>5, <3>1, Zenon
  <2> QED BY <1>1, <1>2, <2>1, <2>6
<1>3. CASE ~(i < call.n)
  <2>1. i = call.n
    BY <1>1, <1>3
  <2> QED BY <1>3, <2>1 DEF CopyUp, Return
<1> QED BY <1>2, <1>3

LEMMA memcpyKeeps == ASSUME StringsInv, memcpy PROVE StringsInv'
<1>1. Running("memcpy", "loop") /\ CopyUp /\ i \in Nat
  BY DEF memcpy, StringsInv
<1>2. CopyArgs(call) /\ before \in [Addr -> Bytes]
  BY <1>1 DEF StringsInv, Operands, Running
<1>3. i <= call.n /\ mem = CopiedTo(before, Area(call.d, i), call.s, call.d)
  BY <1>1 DEF StringsInv, Progress, memcpyLoop
<1>4. i < call.n => call.s + i \notin Area(call.d, i)
  <2>1. /\ call.d \in Int /\ call.n \in Int /\ call.s \in Int
        /\ Disjoint(Area(call.d, call.n), Area(call.s, call.n))
    BY <1>2 DEF CopyArgs, MoveArgs, Addr
  <2> QED BY <1>1, <2>1 DEF Disjoint, Area
<1>5. /\ UNCHANGED <<call, before>> /\ i' \in Nat
      /\ \/ /\ stage' = stage /\ i' <= call.n
            /\ mem' = CopiedTo(before, Area(call.d, i'), call.s, call.d)
         \/ /\ stage' = "returned"
            /\ mem' = CopiedTo(before, Area(call.d, call.n), call.s, call.d)
  BY <1>1, <1>2, <1>3, <1>4, CopyUpKeeps DEF CopyArgs
<1>6. CASE stage' = "returned"
  <2>1. mem' = CopiedTo(before, Area(call.d, call.n), call.s, call.d)
    BY <1>1, <1>5, <1>6 DEF Running
  <2>2. mem' = ExpectedMemory
    BY <1>1, <2>1, ExpectedIs, Zenon DEF Running
  <2> QED BY <1>5, <1>6, <2>2, ReturnKeeps
<1>7. CASE stage' # "returned"
  <2>1. memcpyLoop'
    BY <1>5, <1>7 DEF memcpyLoop
  <2>2. Progress'
    BY <1>1, <1>5, <1>7, <2>1
       DEF Progress, Started, Running, memsetLoop, memcpyLoop, memmoveUp,
           memmoveDown, strcpyLoop, strcatEnd, strcatLoop, strncpyLoop,
           strncpyPad, Unwritten, Writers
  <2> QED BY <1>5, <1>7, <2>2, StepKeeps
<1> QED BY <1>6, <1>7

LEMMA memmove_upKeeps == ASSUME StringsInv, memmove_up PROVE StringsInv'
<1>1. Running("memmove", "up") /\ CopyUp /\ i \in Nat
  BY DEF memmove_up, StringsInv
<1>2. MoveArgs(call) /\ before \in [Addr -> Bytes]
  BY <1>1 DEF StringsInv, Operands, Running
<1>3. /\ call.d < call.s /\ i <= call.n
      /\ mem = CopiedTo(before, Area(call.d, i), call.s, call.d)
  BY <1>1 DEF StringsInv, Progress, memmoveUp
<1>4. i < call.n => call.s + i \notin Area(call.d, i)
  BY <1>1, <1>2, <1>3 DEF Area, MoveArgs, Addr
<1>5. /\ UNCHANGED <<call, before>> /\ i' \in Nat
      /\ \/ /\ stage' = stage /\ i' <= call.n
            /\ mem' = CopiedTo(before, Area(call.d, i'), call.s, call.d)
         \/ /\ stage' = "returned"
            /\ mem' = CopiedTo(before, Area(call.d, call.n), call.s, call.d)
  BY <1>1, <1>2, <1>3, <1>4, CopyUpKeeps
<1>6. CASE stage' = "returned"
  <2>1. mem' = CopiedTo(before, Area(call.d, call.n), call.s, call.d)
    BY <1>1, <1>5, <1>6 DEF Running
  <2>2. mem' = ExpectedMemory
    BY <1>1, <2>1, ExpectedIs, Zenon DEF Running
  <2> QED BY <1>5, <1>6, <2>2, ReturnKeeps
<1>7. CASE stage' # "returned"
  <2>1. memmoveUp'
    BY <1>3, <1>5, <1>7 DEF memmoveUp
  <2>2. Progress'
    BY <1>1, <1>5, <1>7, <2>1
       DEF Progress, Started, Running, memsetLoop, memcpyLoop, memmoveUp,
           memmoveDown, strcpyLoop, strcatEnd, strcatLoop, strncpyLoop,
           strncpyPad, Unwritten, Writers
  <2> QED BY <1>5, <1>7, <2>2, StepKeeps
<1> QED BY <1>6, <1>7

LEMMA memmove_chooseKeeps ==
  ASSUME StringsInv, memmove_choose PROVE StringsInv'
<1>1. /\ Running("memmove", "choose") /\ mem = before
      /\ i' = i /\ i \in Nat /\ UNCHANGED <<mem, call, before>>
      /\ stage' = IF call.d < call.s THEN "up" ELSE "down"
  BY
     DEF memmove_choose, StringsInv, Progress, Unwritten, Writers, Step,
         Running
<1>2. MoveArgs(call) /\ before \in [Addr -> Bytes]
  BY <1>1 DEF StringsInv, Operands, Running
<1>3. call.d \in Int /\ call.s \in Int /\ call.n \in Nat
  BY <1>2 DEF MoveArgs, Addr
<1>4. i = 0 => /\ mem = CopiedTo(before, Area(call.d, i), call.s, call.d)
               /\ mem = CopiedTo(before, Area(call.d + call.n - i, i),
                                 call.s, call.d)
  <2>1. call.d + call.n - 0 \in Int
    BY <1>3
  <2> QED BY <1>1, <1>2, <1>3, <2>1, CopyNone
<1>5. i = 0
  BY <1>1 DEF StringsInv, Progress, Started
<1>6. stage' # "returned" /\ Progress'
  <2>1. memmoveUp'
    BY <1>1, <1>3, <1>4, <1>5 DEF memmoveUp, Running
  <2>2. memmoveDown'
    BY <1>1, <1>3, <1>4, <1>5 DEF memmoveDown, Running
  <2> QED BY <1>1, <1>5, <2>1, <2>2
             DEF Progress, Started, Running, memsetLoop, memcpyLoop,
                 strcpyLoop, strcatEnd, strcatLoop, strncpyLoop, strncpyPad,
                 Unwritten, Writers
<1> QED BY <1>1, <1>6, StepKeeps

LEMMA memmove_downKeeps == ASSUME StringsInv, memmove_down PROVE StringsInv'
<1>1. Running("memmove", "down") /\ i \in Nat /\ UNCHANGED <<call, before>>
  BY DEF memmove_down, StringsInv, Again, Step, Return
<1>2. MoveArgs(call) /\ before \in [Addr -> Bytes]
  BY <1>1 DEF StringsInv, Operands, Running
<1>3. /\ call.s <= call.d /\ i <= call.n
      /\ mem = CopiedTo(before, Area(call.d + call.n - i, i), call.s, call.d)
  BY <1>1 DEF StringsInv, Progress, memmoveDown
<1>4. /\ call.d \in 1 .. MemSize /\ call.n \in Nat
      /\ call.d + call.n - 1 <= MemSize
      /\ call.s \in 1 .. MemSize /\ call.s + call.n - 1 <= MemSize
      /\ MemSize \in Nat
  BY <1>2, StringsAssumption DEF MoveArgs, Addr
<1>5. CASE i < call.n
  <2> DEFINE a == call.d + call.n - 1 - i
             b == call.s + call.n - 1 - i
  <2>1. /\ mem' = [mem EXCEPT ![a] = mem[b]]
        /\ i' = i + 1 /\ stage' = "down"
    BY <1>1, <1>5 DEF memmove_down, Store, Again, Step, Running
  <2>2. /\ a \in Addr /\ b \in Addr /\ i + 1 <= call.n
        /\ b = call.s + (a - call.d)
        /\ call.d + call.n - i \in Int /\ a = (call.d + call.n - i) - 1
        /\ a = call.d + call.n - (i + 1)
    BY <1>1, <1>3, <1>4, <1>5 DEF Addr
  <2>3. b \notin Area(call.d + call.n - i, i)
    BY <1>1, <1>3, <1>4, <1>5 DEF Area
  <2>4. mem[b] = before[b]
    <3> HIDE DEF b
    <3> QED BY <1>3, <2>2, <2>3 DEF CopiedTo
  <2>5. mem[b] = before[call.s + (a - call.d)]
    BY <2>2, <2>4, Zenon
  <2>6. Area(call.d + call.n - i, i) \cup {a} = Area(a, i + 1)
    BY <1>1, <2>2, AreaGrows
  <2>7. mem' = CopiedTo(before, Area(a, i + 1), call.s, call.d)
    <3> HIDE DEF a, b
    <3>1. [mem EXCEPT ![a] = mem[b]]
            = CopiedTo(before, Area(call.d + call.n - i, i) \cup {a},
                       call.s, call.d)
      BY <1>2, <1>3, <2>2, <2>5, CopyOne
    <3> QED BY <2>1, <2>6, <3>1, Zenon
  <2>8. memmoveDown'
    BY <1>1, <1>3, <2>1, <2>2, <2>7, Zenon DEF memmoveDown
  <2>9. Progress'
    BY <1>1, <2>1, <2>8
       DEF Progress, Started, Running, memsetLoop, memcpyLoop, memmoveUp,
           memmoveDown, strcpyLoop, strcatEnd, strcatLoop, strncpyLoop,
           strncpyPad, Unwritten, Writers
  <2> QED BY <1>1, <2>1, <2>9, StepKeeps
<1>6. CASE ~(i < call.n)
  <2>1. i = call.n /\ call.d + call.n - i = call.d
    BY <1>1, <1>3, <1>4, <1>6
  <2>2. mem' = mem /\ i' = i /\ stage' = "returned"
    BY <1>6 DEF memmove_down, Return
  <2>3. mem' = CopiedTo(before, Area(call.d, call.n), call.s, call.d)
    BY <1>3, <2>1, <2>2, Zenon
  <2>4. mem' = ExpectedMemory
    BY <1>1, <2>3, ExpectedIs, Zenon DEF Running
  <2> QED BY <1>1, <2>2, <2>4, ReturnKeeps
<1> QED BY <1>5, <1>6

(* The step and the return of a loop that copies a string to a.            *)
LEMMA CopyStringKeeps ==
  ASSUME NEW a \in Int, IsString(before, call.s), i \in Nat, CopyString(a),
         Area(a, StrLen(before, call.s) + 1) \subseteq Addr,
         Disjoint(Area(a, StrLen(before, call.s) + 1), StrArea(before, call.s)),
         \A k \in 0 .. i-1 : before[call.s + k] # 0,
         mem = CopiedTo(before, Area(a, i), call.s, a)
  PROVE  /\ UNCHANGED <<call, before>> /\ i' \in Nat
         /\ \/ /\ stage' = stage /\ len' = len
               /\ \A k \in 0 .. i'-1 : before[call.s + k] # 0
               /\ mem' = CopiedTo(before, Area(a, i'), call.s, a)
            \/ /\ stage' = "returned"
               /\ mem' = CopiedTo(before, Area(a, StrLen(before, call.s) + 1),
                                  call.s, a)
<1> DEFINE L == StrLen(before, call.s)
<1>1. /\ before \in [Addr -> Bytes] /\ call.s \in 1 .. MemSize
      /\ MemSize \in Nat
      /\ L \in Nat /\ call.s + L \in 1 .. MemSize /\ before[call.s + L] = 0
      /\ \A k \in 0 .. L-1 : before[call.s + k] # 0
  BY StrLenIs, StringsAssumption DEF IsString, Addr
<1>2. i <= L
  <2>1. L \notin 0 .. i-1
    BY <1>1
  <2> HIDE DEF L
  <2> QED BY <1>1, <2>1
<1>3. /\ a + i \in Area(a, L + 1) /\ call.s + i \in StrArea(before, call.s)
      /\ Area(a, i) \subseteq Area(a, L + 1)
  <2> HIDE DEF L
  <2>1. a + i \in Area(a, L + 1) /\ call.s + i \in Area(call.s, L + 1)
        /\ Area(a, i) \subseteq Area(a, L + 1)
    BY <1>1, <1>2 DEF Area
  <2> QED BY <2>1 DEF StrArea, L
<1>4. a + i \in Addr /\ call.s + i \in Addr /\ call.s + i \notin Area(a, i)
  <2> HIDE DEF L
  <2>1. call.s + i \in Addr
    BY <1>1, <1>2 DEF Addr
  <2>2. a + i \in Addr
    BY <1>3 DEF L
  <2>3. call.s + i \notin Area(a, i)
    BY <1>3 DEF Disjoint, L
  <2> QED BY <2>1, <2>2, <2>3
<1>5. mem[call.s + i] = before[call.s + i]
  BY <1>4 DEF CopiedTo
<1>6. mem' = CopiedTo(before, Area(a, i + 1), call.s, a)
  <2>1. mem' = [mem EXCEPT ![a + i] = mem[call.s + i]]
    BY DEF CopyString, Store
  <2>2. (a + i) - a = i
    OBVIOUS
  <2>3. mem[call.s + i] = before[call.s + ((a + i) - a)]
    BY <1>5, <2>2, Zenon
  <2>4. Area(a, i) \cup {a + i} = Area(a, i + 1)
    BY AreaGrows
  <2>5. [mem EXCEPT ![a + i] = mem[call.s + i]]
          = CopiedTo(before, Area(a, i) \cup {a + i}, call.s, a)
    BY <1>1, <1>4, <2>3, CopyOne
  <2> QED BY <2>1, <2>4, <2>5, Zenon
<1>7. CASE before[call.s + i] # 0
  <2>1. /\ i' = i + 1 /\ stage' = stage /\ len' = len
        /\ UNCHANGED <<call, before>>
    BY <1>5, <1>7 DEF CopyString, Again, Step
  <2>2. \A k \in 0 .. i'-1 : before[call.s + k] # 0
    BY <1>7, <2>1
  <2> QED BY <1>6, <2>1, <2>2
<1>8. CASE before[call.s + i] = 0
  <2>1. i' = i /\ stage' = "returned" /\ UNCHANGED <<call, before>>
    BY <1>5, <1>8 DEF CopyString
  <2>2. i = L
    BY <1>8, StrLenUnique
  <2> QED BY <1>6, <2>1, <2>2
<1> QED BY <1>7, <1>8

LEMMA strcpyKeeps == ASSUME StringsInv, strcpy PROVE StringsInv'
<1>1. Running("strcpy", "loop") /\ CopyString(call.d) /\ i \in Nat
  BY DEF strcpy, StringsInv
<1>2. StrCpyArgs(before, call)
  BY <1>1 DEF StringsInv, Operands, Running
<1>3. /\ \A k \in 0 .. i-1 : before[call.s + k] # 0
      /\ mem = CopiedTo(before, Area(call.d, i), call.s, call.d)
  BY <1>1 DEF StringsInv, Progress, strcpyLoop
<1>4. call.d \in Int
  BY <1>2 DEF StrCpyArgs, Addr
<1>5. /\ UNCHANGED <<call, before>> /\ i' \in Nat
      /\ \/ /\ stage' = stage
            /\ \A k \in 0 .. i'-1 : before[call.s + k] # 0
            /\ mem' = CopiedTo(before, Area(call.d, i'), call.s, call.d)
         \/ /\ stage' = "returned"
            /\ mem' = CopiedTo(before, Area(call.d, StrLen(before, call.s) + 1),
                               call.s, call.d)
  <2>1. /\ IsString(before, call.s)
        /\ Area(call.d, StrLen(before, call.s) + 1) \subseteq Addr
        /\ Disjoint(Area(call.d, StrLen(before, call.s) + 1),
                    StrArea(before, call.s))
    BY <1>2 DEF StrCpyArgs
  <2> QED BY <1>1, <1>3, <1>4, <2>1, CopyStringKeeps
<1>6. CASE stage' = "returned"
  <2>1. mem' = CopiedTo(before, Area(call.d, StrLen(before, call.s) + 1),
                        call.s, call.d)
    BY <1>1, <1>5, <1>6 DEF Running
  <2>2. mem' = ExpectedMemory
    BY <1>1, <2>1, ExpectedIs, Zenon DEF Running
  <2> QED BY <1>5, <1>6, <2>2, ReturnKeeps
<1>7. CASE stage' # "returned"
  <2>1. strcpyLoop'
    BY <1>5, <1>7 DEF strcpyLoop
  <2>2. Progress'
    BY <1>1, <1>5, <1>7, <2>1
       DEF Progress, Started, Running, memsetLoop, memcpyLoop, memmoveUp,
           memmoveDown, strcpyLoop, strcatEnd, strcatLoop, strncpyLoop,
           strncpyPad, Unwritten, Writers
  <2> QED BY <1>5, <1>7, <2>2, StepKeeps
<1> QED BY <1>6, <1>7

LEMMA strcat_endKeeps == ASSUME StringsInv, strcat_end PROVE StringsInv'
<1>1. /\ Running("strcat", "strlen(dst)") /\ i \in Nat
      /\ UNCHANGED <<mem, call, before>> /\ mem = before
      /\ \A k \in 0 .. i-1 : before[call.d + k] # 0
  BY
     DEF strcat_end, StringsInv, Progress, Unwritten, Writers, strcatEnd,
         Again, Step, Running
<1>2. StrCatArgs(before, call)
  BY <1>1 DEF StringsInv, Operands, Running
<1>3. CASE mem[call.d + i] # 0
  <2>1. i' = i + 1 /\ stage' = "strlen(dst)"
    BY <1>1, <1>3 DEF strcat_end, Again, Step, Running
  <2>2. strcatEnd'
    BY <1>1, <1>3, <2>1 DEF strcatEnd
  <2>3. Progress'
    BY <1>1, <2>1, <2>2
       DEF Progress, Started, Running, memsetLoop, memcpyLoop, memmoveUp,
           memmoveDown, strcpyLoop, strcatEnd, strcatLoop, strncpyLoop,
           strncpyPad, Unwritten, Writers
  <2> QED BY <1>1, <2>1, <2>3, StepKeeps
<1>4. CASE mem[call.d + i] = 0
  <2>1. i' = 0 /\ stage' = "loop" /\ len' = i
    BY <1>4 DEF strcat_end, Step
  <2>2. i = StrLen(before, call.d)
    BY <1>1, <1>2, <1>4, StrLenUnique DEF StrCatArgs
  <2>3. before \in [Addr -> Bytes] /\ call.d + i \in Int
    BY <1>1, <1>2 DEF StrCatArgs, IsString, Addr
  <2>4. CopiedTo(before, Area(call.d + i, 0), call.s, call.d + i) = before
    BY <2>3, CopyNone
  <2>5. strcatLoop'
    BY <1>1, <2>1, <2>2, <2>4 DEF strcatLoop
  <2>6. Progress'
    BY <1>1, <2>1, <2>5
       DEF Progress, Started, Running, memsetLoop, memcpyLoop, memmoveUp,
           memmoveDown, strcpyLoop, strcatEnd, strncpyLoop, strncpyPad,
           Unwritten, Writers
  <2> QED BY <1>1, <2>1, <2>6, StepKeeps
<1> QED BY <1>3, <1>4

LEMMA strcatKeeps == ASSUME StringsInv, strcat PROVE StringsInv'
<1> DEFINE a == call.d + len
<1>1. Running("strcat", "loop") /\ CopyString(a) /\ i \in Nat
  BY DEF strcat, StringsInv
<1>2. StrCatArgs(before, call)
  BY <1>1 DEF StringsInv, Operands, Running
<1>3. /\ len = StrLen(before, call.d)
      /\ \A k \in 0 .. i-1 : before[call.s + k] # 0
      /\ mem = CopiedTo(before, Area(a, i), call.s, a)
  BY <1>1 DEF StringsInv, Progress, strcatLoop
<1>4. /\ call.d \in Int /\ len \in Nat /\ StrLen(before, call.s) \in Nat
      /\ a \in Int
      /\ IsString(before, call.s)
  BY <1>2, <1>3, StrLenIs DEF StrCatArgs, IsString, Addr
<1>5. Area(a, StrLen(before, call.s) + 1)
        \subseteq
          Area(call.d, StrLen(before, call.d) + StrLen(before, call.s) + 1)
  BY <1>3, <1>4 DEF Area
<1> HIDE DEF a
<1>6. /\ Area(a, StrLen(before, call.s) + 1) \subseteq Addr
      /\ Disjoint(Area(a, StrLen(before, call.s) + 1), StrArea(before, call.s))
  BY <1>2, <1>5 DEF StrCatArgs, Disjoint
<1>7. /\ UNCHANGED <<call, before>> /\ i' \in Nat
      /\ \/ /\ stage' = stage /\ len' = len
            /\ \A k \in 0 .. i'-1 : before[call.s + k] # 0
            /\ mem' = CopiedTo(before, Area(a, i'), call.s, a)
         \/ /\ stage' = "returned"
            /\ mem' = CopiedTo(before, Area(a, StrLen(before, call.s) + 1),
                               call.s, a)
  BY <1>1, <1>3, <1>4, <1>6, CopyStringKeeps
<1>8. CASE stage' = "returned"
  <2>1. mem' = CopiedTo(before, Area(a, StrLen(before, call.s) + 1), call.s, a)
    BY <1>1, <1>7, <1>8 DEF Running
  <2>2. a = call.d + StrLen(before, call.d)
    BY <1>3 DEF a
  <2>3. mem' = ExpectedMemory
    BY <1>1, <2>1, <2>2, ExpectedIs, Zenon DEF Running
  <2> QED BY <1>7, <1>8, <2>3, ReturnKeeps
<1>9. CASE stage' # "returned"
  <2>1. strcatLoop'
    BY <1>3, <1>7, <1>9 DEF strcatLoop, a
  <2>2. Progress'
    BY <1>1, <1>7, <1>9, <2>1
       DEF Progress, Started, Running, memsetLoop, memcpyLoop, memmoveUp,
           memmoveDown, strcpyLoop, strcatEnd, strncpyLoop, strncpyPad,
           Unwritten, Writers
  <2> QED BY <1>7, <1>9, <2>2, StepKeeps
<1> QED BY <1>8, <1>9

LEMMA PadOne ==
  ASSUME NEW m \in [Addr -> Bytes], NEW D, NEW s, NEW d, NEW a \in Addr, NEW v,
         NEW M, M = PaddedTo(m, D, s, d),
         v = PadByte(m, s, a - d)
  PROVE  [M EXCEPT ![a] = v] = PaddedTo(m, D \cup {a}, s, d)
  BY DEF PaddedTo

(* What strncpy reads is in memory and not what it has written.            *)
LEMMA strncpySource ==
  ASSUME NEW m \in [Addr -> Bytes], NEW c, StrNCpyArgs(m, c),
         NEW k \in Nat, k < c.n,
         \A l \in 0 .. k-1 : m[c.s + l] # 0
  PROVE  c.s + k \in Addr /\ c.s + k \notin Area(c.d, k)
<1>1. /\ c.s \in 1 .. MemSize /\ c.d \in 1 .. MemSize /\ c.n \in Nat
      /\ MemSize \in Nat
  BY StringsAssumption DEF StrNCpyArgs, Addr
<1>2. c.s + k \in Addr /\ c.s + k \in StrNArea(m, c.s, c.n)
  <2>1. CASE EndsIn(m, c.s)
    <3> DEFINE L == StrLen(m, c.s)
    <3>1. L \in Nat /\ c.s + L \in 1 .. MemSize /\ m[c.s + L] = 0
      BY <2>1, StrLenIs DEF IsString, StrNCpyArgs, Addr
    <3>2. StrNArea(m, c.s, c.n) =
            IF L < c.n THEN Area(c.s, L + 1) ELSE Area(c.s, c.n)
      BY <2>1 DEF StrNArea, StrArea
    <3> HIDE DEF L
    <3>3. L \notin 0 .. k-1
      BY <3>1
    <3>4. k <= L
      BY <3>1, <3>3
    <3> QED BY <1>1, <3>1, <3>2, <3>4 DEF Area, Addr
  <2>2. CASE ~EndsIn(m, c.s)
    <3>1. c.s + c.n - 1 <= MemSize
      BY <2>2 DEF StrNCpyArgs, Bounded
    <3>2. StrNArea(m, c.s, c.n) = Area(c.s, c.n)
      BY <2>2 DEF StrNArea
    <3> QED BY <1>1, <3>1, <3>2 DEF Area, Addr
  <2> QED BY <2>1, <2>2
<1>3. c.s + k \notin Area(c.d, c.n)
  BY <1>2 DEF StrNCpyArgs, Disjoint
<1> QED BY <1>1, <1>2, <1>3 DEF Area

LEMMA strncpyKeeps == ASSUME StringsInv, strncpy PROVE StringsInv'
<1>1. Running("strncpy", "loop") /\ i \in Nat /\ UNCHANGED <<call, before>>
  BY DEF strncpy, StringsInv, Again, Step
<1>2. StrNCpyArgs(before, call) /\ before \in [Addr -> Bytes]
  BY <1>1 DEF StringsInv, Operands, Running
<1>3. /\ i <= call.n /\ \A k \in 0 .. i-1 : before[call.s + k] # 0
      /\ mem = PaddedTo(before, Area(call.d, i), call.s, call.d)
  BY <1>1 DEF StringsInv, Progress, strncpyLoop
<1>4. /\ call.s \in 1 .. MemSize /\ call.d \in 1 .. MemSize /\ call.n \in Nat
      /\ call.d + call.n - 1 <= MemSize /\ MemSize \in Nat
  BY <1>2, StringsAssumption DEF StrNCpyArgs, Addr
<1>5. i < call.n => mem[call.s + i] = before[call.s + i]
  <2>1. SUFFICES ASSUME i < call.n PROVE mem[call.s + i] = before[call.s + i]
    OBVIOUS
  <2>2. call.s + i \in Addr /\ call.s + i \notin Area(call.d, i)
    BY <1>1, <1>2, <1>3, <2>1, strncpySource
  <2>3. \A b \in Addr : b \notin Area(call.d, i) => mem[b] = before[b]
    BY <1>3, Zenon DEF PaddedTo
  <2> QED BY <2>2, <2>3
<1>6. CASE i < call.n /\ mem[call.s + i] # 0
  <2>1. /\ mem' = [mem EXCEPT ![call.d + i] = mem[call.s + i]]
        /\ i' = i + 1 /\ stage' = "loop"
    BY <1>1, <1>6 DEF strncpy, Store, Again, Step, Running
  <2>2. /\ call.d + i \in Addr /\ call.d \in Int /\ i + 1 <= call.n
        /\ (call.d + i) - call.d = i
    BY <1>1, <1>4, <1>6 DEF Addr
  <2>3. \A k \in 0 .. i : before[call.s + k] # 0
    BY <1>1, <1>3, <1>5, <1>6
  <2>4. mem[call.s + i] = PadByte(before, call.s, (call.d + i) - call.d)
    BY <1>5, <1>6, <2>2, <2>3 DEF PadByte
  <2>5. [mem EXCEPT ![call.d + i] = mem[call.s + i]]
          = PaddedTo(before, Area(call.d, i) \cup {call.d + i},
                     call.s, call.d)
    BY <1>2, <1>3, <2>2, <2>4, PadOne
  <2>6. Area(call.d, i) \cup {call.d + i} = Area(call.d, i + 1)
    BY <1>1, <2>2, AreaGrows
  <2>7. mem' = PaddedTo(before, Area(call.d, i + 1), call.s, call.d)
    BY <2>1, <2>5, <2>6, Zenon
  <2>8. \A k \in 0 .. i' - 1 : before[call.s + k] # 0
    BY <1>1, <2>1, <2>3
  <2>9. strncpyLoop'
    BY <1>1, <2>1, <2>2, <2>7, <2>8, Zenon DEF strncpyLoop
  <2>10. Progress'
    BY <1>1, <2>1, <2>9
       DEF Progress, Started, Running, memsetLoop, memcpyLoop, memmoveUp,
           memmoveDown, strcpyLoop, strcatEnd, strcatLoop, strncpyLoop,
           strncpyPad, Unwritten, Writers
  <2> QED BY <1>1, <2>1, <2>10, StepKeeps
<1>7. CASE ~(i < call.n /\ mem[call.s + i] # 0)
  <2>1. mem' = mem /\ i' = i /\ stage' = "pad"
    BY <1>7 DEF strncpy, Step
  <2>2. i < call.n => \E l \in 0 .. i : before[call.s + l] = 0
    BY <1>1, <1>5, <1>7
  <2>3. strncpyPad'
    BY <1>1, <1>3, <2>1, <2>2, Zenon DEF strncpyPad
  <2>4. Progress'
    BY <1>1, <2>1, <2>3
       DEF Progress, Started, Running, memsetLoop, memcpyLoop, memmoveUp,
           memmoveDown, strcpyLoop, strcatEnd, strcatLoop, strncpyLoop,
           Unwritten, Writers
  <2> QED BY <1>1, <2>1, <2>4, StepKeeps
<1> QED BY <1>6, <1>7

LEMMA strncpy_padKeeps == ASSUME StringsInv, strncpy_pad PROVE StringsInv'
<1>1. Running("strncpy", "pad") /\ i \in Nat /\ UNCHANGED <<call, before>>
  BY DEF strncpy_pad, StringsInv, Again, Step, Return
<1>2. StrNCpyArgs(before, call) /\ before \in [Addr -> Bytes]
  BY <1>1 DEF StringsInv, Operands, Running
<1>3. /\ i <= call.n
      /\ i < call.n => \E l \in 0 .. i : before[call.s + l] = 0
      /\ mem = PaddedTo(before, Area(call.d, i), call.s, call.d)
  BY <1>1 DEF StringsInv, Progress, strncpyPad
<1>4. /\ call.d \in 1 .. MemSize /\ call.n \in Nat
      /\ call.d + call.n - 1 <= MemSize /\ MemSize \in Nat
  BY <1>2, StringsAssumption DEF StrNCpyArgs, Addr
<1>5. CASE i < call.n
  <2>1. /\ mem' = [mem EXCEPT ![call.d + i] = 0]
        /\ i' = i + 1 /\ stage' = "pad"
    BY <1>1, <1>5 DEF strncpy_pad, Store, Again, Step, Running
  <2>2. /\ call.d + i \in Addr /\ call.d \in Int /\ i + 1 <= call.n
        /\ (call.d + i) - call.d = i
    BY <1>1, <1>4, <1>5 DEF Addr
  <2>3. 0 = PadByte(before, call.s, (call.d + i) - call.d)
    BY <1>3, <1>5, <2>2 DEF PadByte
  <2>4. [mem EXCEPT ![call.d + i] = 0]
          = PaddedTo(before, Area(call.d, i) \cup {call.d + i}, call.s, call.d)
    <3>1. mem = PaddedTo(before, Area(call.d, i), call.s, call.d)
      BY <1>3
    <3> DEFINE v == 0
    <3>2. v = PadByte(before, call.s, (call.d + i) - call.d)
      BY <2>3
    <3> HIDE DEF v
    <3>3. [mem EXCEPT ![call.d + i] = v]
            = PaddedTo(before, Area(call.d, i) \cup {call.d + i}, call.s, call.d)
      BY <1>2, <2>2, <3>1, <3>2, PadOne
    <3> QED BY <3>3 DEF v
  <2>5. Area(call.d, i) \cup {call.d + i} = Area(call.d, i + 1)
    BY <1>1, <2>2, AreaGrows
  <2>6. mem' = PaddedTo(before, Area(call.d, i + 1), call.s, call.d)
    BY <2>1, <2>4, <2>5, Zenon
  <2>7. \E l \in 0 .. i' : before[call.s + l] = 0
    BY <1>1, <1>3, <1>5, <2>1
  <2>8. strncpyPad'
    BY <1>1, <2>1, <2>2, <2>6, <2>7, Zenon DEF strncpyPad
  <2>9. Progress'
    BY <1>1, <2>1, <2>8
       DEF Progress, Started, Running, memsetLoop, memcpyLoop, memmoveUp,
           memmoveDown, strcpyLoop, strcatEnd, strcatLoop, strncpyLoop,
           strncpyPad, Unwritten, Writers
  <2> QED BY <1>1, <2>1, <2>9, StepKeeps
<1>6. CASE ~(i < call.n)
  <2>1. i = call.n
    BY <1>1, <1>3, <1>4, <1>6
  <2>2. mem' = mem /\ i' = i /\ stage' = "returned"
    BY <1>6 DEF strncpy_pad, Return
  <2>3. mem' = ExpectedMemory
    BY <1>1, <1>3, <2>1, <2>2, ExpectedIs, Zenon DEF Running
  <2> QED BY <1>1, <2>2, <2>3, ReturnKeeps
<1> QED BY <1>5, <1>6

-----------------------------------------------------------------------------

LEMMA NextKeeps == ASSUME StringsInv, [Next]_vars PROVE StringsInv'
<1>1. CASE memset
  BY <1>1, memsetKeeps
<1>2. CASE memcpy
  BY <1>2, memcpyKeeps
<1>3. CASE memmove_choose
  BY <1>3, memmove_chooseKeeps
<1>4. CASE memmove_up
  BY <1>4, memmove_upKeeps
<1>5. CASE memmove_down
  BY <1>5, memmove_downKeeps
<1>6. CASE memcmp \/ memchr
  BY <1>6, ReadersKeep
     DEF memcmp, memchr, Running, Writers, Again, Step, Return, StringsInv
<1>7. CASE strlen \/ strcmp \/ strncmp \/ strchr
  BY <1>7, ReadersKeep
     DEF strlen, strcmp, strncmp, strchr, Running, Writers, Again, Step,
         Return, StringsInv
<1>8. CASE strcpy
  BY <1>8, strcpyKeeps
<1>9. CASE strcat_end \/ strcat
  BY <1>9, strcat_endKeeps, strcatKeeps
<1>10. CASE strncpy \/ strncpy_pad
  BY <1>10, strncpyKeeps, strncpy_padKeeps
<1>11. CASE strstr_needle \/ strstr_haystack \/ strstr_strncmp
  BY <1>11, ReadersKeep
     DEF strstr_needle, strstr_haystack, strstr_strncmp, Running, Writers,
         Again, Step, Return, StringsInv
<1>12. CASE UNCHANGED vars
  <2>1. /\ mem' = mem /\ call' = call /\ stage' = stage /\ i' = i /\ len' = len
        /\ before' = before
    BY <1>12 DEF vars
  <2>2. ExpectedMemory' = ExpectedMemory
    BY <2>1, Zenon DEF ExpectedMemory, Written
  <2>3. MemoryAsSpecified' /\ Operands(before, call)' /\ (i \in Nat)'
    BY <2>1, <2>2, Zenon DEF StringsInv, MemoryAsSpecified
  <2>4. Progress'
    BY <2>1
       DEF StringsInv, Progress, Started, Running, memsetLoop, memcpyLoop,
           memmoveUp, memmoveDown, strcpyLoop, strcatEnd, strcatLoop,
           strncpyLoop, strncpyPad, Unwritten, Writers
  <2> QED BY <2>3, <2>4 DEF StringsInv
<1> QED
  BY <1>1, <1>2, <1>3, <1>4, <1>5, <1>6, <1>7, <1>8, <1>9, <1>10, <1>11, <1>12
     DEF Next

-----------------------------------------------------------------------------
(***************************************************************************)
(* What the functions return, and the types.  The invariant says of each   *)
(* loop that only reads what the bytes it has passed were.                 *)
(***************************************************************************)

(* The arguments of the legal calls that only read.                        *)
StrNCmpArgs(m, a) ==
  /\ a.d \in Addr /\ a.s \in Addr /\ a.n \in 0 .. MemSize
  /\ Bounded(m, a.d, a.n) /\ Bounded(m, a.s, a.n)

ReadOperands(m, a) ==
  /\ a.fn \in {"strlen", "strchr"} => IsString(m, a.s)
  /\ a.fn \in {"strcmp", "strstr"} => IsString(m, a.d) /\ IsString(m, a.s)
  /\ a.fn = "memchr"  => SetArgs(a)
  /\ a.fn = "memcmp"  => MoveArgs(a)
  /\ a.fn = "strncmp" => StrNCmpArgs(m, a)

LEMMA LegalReads ==
  ASSUME NEW m \in [Addr -> Byte],
         NEW a \in MemoryCalls \cup StringCalls(m), Legal(m, a)
  PROVE  ReadOperands(m, a) /\ a.fn # "none"
<1>0. /\ m \in [Addr -> Bytes]
      /\ IntArg \subseteq Int
  BY StringsAssumption DEF Bytes
<1>1. CASE \E fn \in {"memset", "memchr"}, p \in Areas, c \in IntArg :
             a = Args(fn, p[1], 0, p[2], c)
  <2>1. PICK fn \in {"memset", "memchr"}, p \in Areas, c \in IntArg :
             a = Args(fn, p[1], 0, p[2], c)
    BY <1>1
  <2>2. SetArgs(a) /\ a.fn \in {"memset", "memchr"}
    BY <2>1, <1>0 DEF Args, SetArgs, Areas
  <2> QED BY <2>2 DEF ReadOperands
<1>2. CASE \E fn \in {"memcpy", "memmove", "memcmp"}, p \in Areas, s \in Addr :
             a = Args(fn, p[1], s, p[2], 0)
  <2>1. PICK fn \in {"memcpy", "memmove", "memcmp"}, p \in Areas, s \in Addr :
             a = Args(fn, p[1], s, p[2], 0)
    BY <1>2
  <2>2. /\ a.fn \in {"memcpy", "memmove", "memcmp"}
        /\ a.d \in Addr /\ a.n \in 0 .. MemSize /\ a.d + a.n - 1 <= MemSize
        /\ a.s \in Addr
    BY <2>1 DEF Args, Areas
  <2>3. <<a.s, a.n>> \in Areas => a.s + a.n - 1 <= MemSize
    BY DEF Areas
  <2>4. a.fn = "memcmp" => MoveArgs(a)
    BY <2>2, <2>3 DEF Legal, MoveArgs
  <2> QED BY <2>2, <2>4 DEF ReadOperands
<1>3. CASE a \in StringCalls(m)
  <2> DEFINE Strs == {x \in Addr : EndsIn(m, x)}
  <2>0. \A x \in Strs : IsString(m, x)
    BY <1>0 DEF IsString
  <2>1. CASE \E s \in Strs : a = Args("strlen", 0, s, 0, 0)
    <3>1. a.fn = "strlen" /\ a.s \in Strs
      BY <2>1 DEF Args
    <3> HIDE DEF Strs
    <3> QED BY <2>0, <3>1 DEF ReadOperands
  <2>2. CASE \E s \in Strs, c \in Byte :
               a = Args("strchr", 0, s, 0, c)
    <3>1. a.fn = "strchr" /\ a.s \in Strs
      BY <2>2 DEF Args
    <3> HIDE DEF Strs
    <3> QED BY <2>0, <3>1 DEF ReadOperands
  <2>3. CASE \E fn \in {"strcmp", "strstr", "strcat"},
                d \in Strs, s \in Strs :
               a = Args(fn, d, s, 0, 0)
    <3>1. /\ a.fn \in {"strcmp", "strstr", "strcat"}
          /\ a.d \in Strs /\ a.s \in Strs
      BY <2>3 DEF Args
    <3> HIDE DEF Strs
    <3> QED BY <2>0, <3>1 DEF ReadOperands
  <2>4. CASE \E d \in Addr, s \in Strs :
               a = Args("strcpy", d, s, 0, 0)
    BY <2>4 DEF Args, ReadOperands
  <2>5. CASE \E fn \in {"strncpy", "strncmp"}, d \in Addr, s \in Addr,
                n \in 0 .. MemSize : a = Args(fn, d, s, n, 0)
    <3>1. /\ a.fn \in {"strncpy", "strncmp"}
          /\ a.d \in Addr /\ a.s \in Addr /\ a.n \in 0 .. MemSize
      BY <2>5 DEF Args
    <3>2. a.fn = "strncmp" => StrNCmpArgs(m, a)
      BY <3>1, <1>0, Zenon DEF Legal, StrNCmpArgs
    <3> QED BY <3>1, <3>2 DEF ReadOperands
  <2> QED BY <1>3, <2>1, <2>2, <2>3, <2>4, <2>5 DEF StringCalls
<1> QED BY <1>1, <1>2, <1>3 DEF MemoryCalls

-----------------------------------------------------------------------------
(* Reading stays in memory.                                                *)

LEMMA InString ==
  ASSUME NEW m, NEW a, IsString(m, a), NEW n \in Nat,
         \A k \in 0 .. n-1 : m[a + k] # 0
  PROVE  /\ n <= StrLen(m, a) /\ StrLen(m, a) \in 0 .. MemSize - 1
         /\ a + n \in Addr /\ m[a + n] \in Bytes
         /\ m[a + n] = 0 => n = StrLen(m, a)
         /\ m[a + n] # 0 => n + 1 <= StrLen(m, a)
<1> DEFINE L == StrLen(m, a)
<1>1. /\ L \in Nat /\ a + L \in Addr /\ m[a + L] = 0
      /\ \A k \in 0 .. L - 1 : m[a + k] # 0
  BY StrLenIs
<1>2. /\ MemSize \in Nat /\ a \in Addr /\ a \in Int /\ m \in [Addr -> Bytes]
  BY StringsAssumption DEF IsString, Addr
<1> HIDE DEF L
<1>3. n <= L
  <2>1. L \notin 0 .. n-1
    BY <1>1
  <2> QED BY <1>1, <2>1
<1>4. a + n \in Addr /\ L \in 0 .. MemSize - 1
  BY <1>1, <1>2, <1>3 DEF Addr
<1>5. m[a + n] \in Bytes
  BY <1>2, <1>4
<1>6. m[a + n] = 0 => n = L
  <2>1. m[a + n] = 0 => n \notin 0 .. L-1
    BY <1>1
  <2> QED BY <1>1, <1>3, <2>1
<1>7. m[a + n] # 0 => n + 1 <= L
  <2>1. m[a + n] # 0 => n # L
    BY <1>1
  <2> QED BY <1>1, <1>3, <2>1
<1> QED BY <1>3, <1>4, <1>5, <1>6, <1>7 DEF L

LEMMA InBounds ==
  ASSUME NEW m \in [Addr -> Bytes], NEW a \in Addr, NEW n \in 0 .. MemSize,
         Bounded(m, a, n), NEW k \in Nat, k < n,
         \A l \in 0 .. k-1 : m[a + l] # 0
  PROVE  a + k \in Addr /\ m[a + k] \in Bytes
<1>1. MemSize \in Nat
  BY StringsAssumption
<1>2. CASE a + n - 1 <= MemSize
  <2>1. a + k \in Addr
    BY <1>1, <1>2 DEF Addr
  <2> QED BY <2>1
<1>3. CASE EndsIn(m, a)
  <2>1. IsString(m, a)
    BY <1>3 DEF IsString
  <2> QED BY <2>1, InString
<1> QED BY <1>2, <1>3 DEF Bounded

LEMMA InArea ==
  ASSUME NEW m \in [Addr -> Bytes], NEW a \in Addr, NEW n \in 0 .. MemSize,
         a + n - 1 <= MemSize, NEW k \in Nat, k < n
  PROVE  a + k \in Addr /\ m[a + k] \in Bytes /\ k + 1 \in 0 .. MemSize
<1>1. MemSize \in Nat
  BY StringsAssumption
<1>2. a + k \in Addr /\ k + 1 \in 0 .. MemSize
  BY <1>1 DEF Addr
<1> QED BY <1>2

-----------------------------------------------------------------------------
(* The invariant.                                                          *)

(* The first n bytes at a and at b are the same; at a there is no zero.    *)
Same(a, b, n) == \A k \in 0 .. n-1 : before[a + k] = before[b + k]
NoZero(a, n) == \A k \in 0 .. n-1 : before[a + k] # 0

strlenLoop == Running("strlen", "loop") => NoZero(call.s, i)

memchrLoop ==
  Running("memchr", "loop") =>
    /\ i <= call.n
    /\ \A k \in 0 .. i-1 : before[call.d + k] # call.c % ByteW

strchrLoop ==
  Running("strchr", "loop") =>
    /\ NoZero(call.s, i)
    /\ \A k \in 0 .. i-1 : before[call.s + k] # call.c

memcmpLoop ==
  Running("memcmp", "loop") => i <= call.n /\ Same(call.d, call.s, i)

strcmpLoop ==
  Running("strcmp", "loop") => NoZero(call.d, i) /\ Same(call.d, call.s, i)

strncmpLoop ==
  Running("strncmp", "loop") =>
    i <= call.n /\ NoZero(call.d, i) /\ Same(call.d, call.s, i)

strstrNeedle == Running("strstr", "strlen(needle)") => j = 0 /\ NoZero(call.s, i)

(* The needle has not been found before the haystack's j-th byte.          *)
NotBefore ==
  /\ len = StrLen(before, call.s) /\ len > 0
  /\ j <= StrLen(before, call.d)
  /\ \A k \in 0 .. j-1 : ~Same(call.d + k, call.s, len)

strstrHaystack == Running("strstr", "haystack") => NotBefore

strstrCompare ==
  Running("strstr", "strncmp") =>
    /\ NotBefore /\ j < StrLen(before, call.d)
    /\ i <= len /\ Same(call.d + j, call.s, i)

Reading ==
  /\ strlenLoop /\ memchrLoop /\ strchrLoop
  /\ memcmpLoop /\ strcmpLoop /\ strncmpLoop
  /\ strstrNeedle /\ strstrHaystack /\ strstrCompare

(* ExpectedResult, function by function.                                   *)
Readers ==
  {"strlen", "memchr", "strchr", "strstr", "memcmp", "strcmp", "strncmp"}

Upto(n) ==
  IF Common(call.d, call.s, n) < n THEN Common(call.d, call.s, n) + 1 ELSE n

Returned ==
  /\ call.fn = "strlen" => result = StrLen(before, call.s)
  /\ call.fn = "memchr" =>
       result = First({a \in Area(call.d, call.n) : before[a] = call.c % ByteW})
  /\ call.fn = "strchr" =>
       result = First({a \in StrArea(before, call.s) : before[a] = call.c})
  /\ call.fn = "strstr" =>
       result = First({a \in StrArea(before, call.d) :
                         Occurs(a, call.s, call.d + StrLen(before, call.d))})
  /\ call.fn = "memcmp" => Sign(result) = Compared(call.d, call.s, call.n)
  /\ call.fn = "strcmp" =>
       Sign(result) = Compared(call.d, call.s, Upto(MemSize))
  /\ call.fn = "strncmp" =>
       Sign(result) = Compared(call.d, call.s, Upto(call.n))
  /\ call.fn \notin Readers => result = call.d

ResultInv ==
  /\ TypeOK
  /\ ReadOperands(before, call) /\ call.fn # "none"
  /\ Reading
  /\ stage = "returned" => Returned

LEMMA InitResultInv == Init => ResultInv
<1> SUFFICES ASSUME Init PROVE ResultInv
  OBVIOUS
<1>1. ReadOperands(before, call) /\ call.fn # "none"
  BY LegalReads DEF Init
<1>2. /\ i = 0 /\ j = 0 /\ len = 0 /\ result = 0 /\ mem = before
      /\ stage = FirstStage(call.fn) /\ mem \in [Addr -> Byte]
  BY DEF Init, NULL
<1>3. MemSize \in Nat /\ Byte \subseteq 0 .. ByteW-1
  BY StringsAssumption
<1>4. mem \in [Addr -> 0 .. ByteW-1]
  BY <1>2, <1>3
<1>5. /\ stage \in {"strlen(dst)", "strlen(needle)", "choose", "loop"}
      /\ call.fn = "strstr" => stage = "strlen(needle)"
  BY <1>2 DEF FirstStage
<1>6. TypeOK
  BY <1>2, <1>3, <1>4, <1>5 DEF TypeOK
<1>7. call.fn \in {"memchr", "memcmp", "strncmp"} => 0 <= call.n
  BY <1>1 DEF ReadOperands, SetArgs, MoveArgs, StrNCmpArgs
<1>8. Reading
  BY <1>2, <1>5, <1>7
     DEF Reading, strlenLoop, memchrLoop, strchrLoop, memcmpLoop, strcmpLoop,
         strncmpLoop, strstrNeedle, strstrHaystack, strstrCompare, Running,
         Same, NoZero
<1> QED BY <1>1, <1>5, <1>6, <1>8 DEF ResultInv

LEMMA ExpectedResultIs == Returned => ExpectedResult
<1> SUFFICES ASSUME Returned PROVE ExpectedResult
  OBVIOUS
<1>1. CASE call.fn = "strlen"
  BY <1>1, Zenon DEF ExpectedResult, Returned
<1>2. CASE call.fn = "memchr"
  BY <1>2, Zenon DEF ExpectedResult, Returned
<1>3. CASE call.fn = "strchr"
  BY <1>3, Zenon DEF ExpectedResult, Returned
<1>4. CASE call.fn = "strstr"
  BY <1>4, Zenon DEF ExpectedResult, Returned
<1>5. CASE call.fn = "memcmp"
  BY <1>5, Zenon DEF ExpectedResult, Returned
<1>6. CASE call.fn = "strcmp"
  BY <1>6, Zenon DEF ExpectedResult, Returned, Upto
<1>7. CASE call.fn = "strncmp"
  BY <1>7, Zenon DEF ExpectedResult, Returned, Upto
<1>8. CASE call.fn \notin Readers
  BY <1>8, Zenon DEF ExpectedResult, Returned, Readers
<1> QED BY <1>1, <1>2, <1>3, <1>4, <1>5, <1>6, <1>7, <1>8, Zenon DEF Readers

(* The two ways a step ends: the function returns, or it goes on.          *)
LEMMA Returns ==
  ASSUME ResultInv, UNCHANGED <<call, before, i, j, len>>,
         stage' = "returned", mem' \in [Addr -> Bytes], result' \in Int,
         Returned'
  PROVE  ResultInv'
<1>1. TypeOK'
  BY DEF ResultInv, TypeOK, Bytes
<1>3. ReadOperands(before, call)' /\ call'.fn # "none"
  BY Zenon DEF ResultInv
<1>4. Reading'
  BY DEF Reading, strlenLoop, memchrLoop, strchrLoop, memcmpLoop, strcmpLoop,
         strncmpLoop, strstrNeedle, strstrHaystack, strstrCompare, Running
<1> QED BY <1>1, <1>3, <1>4 DEF ResultInv

LEMMA GoesOn ==
  ASSUME ResultInv, UNCHANGED <<call, before, result>>,
         stage' \in {"choose", "up", "down", "loop", "pad", "strlen(dst)",
                     "strlen(needle)", "haystack", "strncmp"},
         mem' \in [Addr -> Bytes], i' \in 0 .. MemSize, j' \in 0 .. MemSize,
         len' \in 0 .. MemSize, Reading'
  PROVE  ResultInv'
<1>1. TypeOK'
  BY DEF ResultInv, TypeOK, Bytes
<1>3. ReadOperands(before, call)' /\ call'.fn # "none"
  BY Zenon DEF ResultInv
<1> QED BY <1>1, <1>3 DEF ResultInv

(* The functions that write have nothing to say about what they read.      *)
LEMMA WritersRead ==
  ASSUME call.fn \notin Readers, call' = call
  PROVE  Reading'
  BY DEF Reading, strlenLoop, memchrLoop, strchrLoop, memcmpLoop, strcmpLoop,
         strncmpLoop, strstrNeedle, strstrHaystack, strstrCompare, Running,
         Readers

LEMMA WriterReturns ==
  ASSUME ResultInv, UNCHANGED <<call, before, i, j, len>>,
         stage' = "returned", mem' \in [Addr -> Bytes],
         result' = call.d, call.d \in Int, call.fn \notin Readers
  PROVE  ResultInv'
<1>1. Returned'
  BY DEF Returned, Readers
<1> QED BY <1>1, Returns

LEMMA WriterGoesOn ==
  ASSUME ResultInv, call.fn \notin Readers, Again,
         mem' \in [Addr -> Bytes], i + 1 <= MemSize, stage # "returned"
  PROVE  ResultInv'
<1>1. Reading'
  BY WritersRead DEF Again, Step
<1>2. /\ i \in 0 .. MemSize /\ j \in 0 .. MemSize /\ len \in 0 .. MemSize
      /\ MemSize \in Nat
      /\ stage \in {"choose", "up", "down", "loop", "pad", "strlen(dst)",
                     "strlen(needle)", "haystack", "strncmp"}
  BY StringsAssumption DEF ResultInv, TypeOK
<1>3. i + 1 \in 0 .. MemSize
  BY <1>2
<1> QED BY <1>1, <1>2, <1>3, GoesOn DEF Again, Step

LEMMA Stored ==
  ASSUME ResultInv, NEW a, NEW v \in Bytes, Store(a, v)
  PROVE  mem' \in [Addr -> Bytes]
  BY DEF ResultInv, TypeOK, Bytes, Store

LEMMA Types ==
  ASSUME ResultInv
  PROVE  /\ mem \in [Addr -> Bytes] /\ MemSize \in Nat
         /\ i \in Nat /\ j \in Nat /\ len \in Nat
         /\ i <= MemSize /\ j <= MemSize /\ len <= MemSize
  BY StringsAssumption DEF ResultInv, TypeOK, Bytes

-----------------------------------------------------------------------------
(* The functions that write.                                               *)

LEMMA memsetReturns ==
  ASSUME StringsInv, ResultInv, memset PROVE ResultInv'
<1>1. SetArgs(call) /\ Running("memset", "loop")
  BY DEF memset, StringsInv, Operands, Running
<1>2. call.d \in Int /\ call.n \in Int /\ call.n <= MemSize /\ call.c \in Int
      /\ call.fn \notin Readers
  BY <1>1 DEF SetArgs, Addr, Running, Readers
<1>3. CASE i < call.n
  <2>1. Store(call.d + i, call.c % ByteW) /\ Again
    BY <1>3 DEF memset
  <2>2. call.c % ByteW \in Bytes
    BY <1>2, StringsAssumption, Z3 DEF Bytes
  <2>3. mem' \in [Addr -> Bytes]
    BY <2>1, <2>2, Stored
  <2>4. i + 1 <= MemSize
    BY <1>2, <1>3, Types
  <2> QED BY <1>1, <1>2, <2>1, <2>3, <2>4, WriterGoesOn DEF Running
<1>4. CASE ~(i < call.n)
  BY <1>1, <1>2, <1>4, Types, WriterReturns DEF memset, Return
<1> QED BY <1>3, <1>4

LEMMA CopyUpReturns ==
  ASSUME ResultInv, MoveArgs(call), CopyUp, stage # "returned",
         call.fn \notin Readers
  PROVE  ResultInv'
<1>1. call.d \in Int /\ call.s \in Addr /\ call.n \in 0 .. MemSize
      /\ call.s + call.n - 1 <= MemSize
  BY DEF MoveArgs, Addr
<1>2. CASE i < call.n
  <2>1. Store(call.d + i, mem[call.s + i]) /\ Again
    BY <1>2 DEF CopyUp
  <2>2. mem[call.s + i] \in Bytes /\ i + 1 \in 0 .. MemSize
    BY <1>1, <1>2, Types, InArea
  <2>3. mem' \in [Addr -> Bytes]
    BY <2>1, <2>2, Stored
  <2>4. i + 1 <= MemSize
    BY <2>2, Types
  <2> QED BY <2>1, <2>3, <2>4, WriterGoesOn
<1>3. CASE ~(i < call.n)
  BY <1>1, <1>3, Types, WriterReturns DEF CopyUp, Return
<1> QED BY <1>2, <1>3

LEMMA memcpyReturns ==
  ASSUME StringsInv, ResultInv, memcpy PROVE ResultInv'
  BY CopyUpReturns
     DEF memcpy, StringsInv, Operands, CopyArgs, Running, Readers

LEMMA memmove_upReturns ==
  ASSUME StringsInv, ResultInv, memmove_up PROVE ResultInv'
  BY CopyUpReturns DEF memmove_up, StringsInv, Operands, Running, Readers

LEMMA memmove_chooseReturns ==
  ASSUME ResultInv, memmove_choose PROVE ResultInv'
<1>1. /\ call.fn = "memmove" /\ stage' \in {"up", "down"}
      /\ UNCHANGED <<mem, i, j, len, call, before, result>>
  BY DEF memmove_choose, Running, Step
<1>2. Reading'
  BY <1>1, WritersRead DEF Readers
<1> QED BY <1>1, <1>2, Types, GoesOn

LEMMA memmove_downReturns ==
  ASSUME StringsInv, ResultInv, memmove_down PROVE ResultInv'
<1>1. MoveArgs(call) /\ Running("memmove", "down") /\ call.fn \notin Readers
  BY DEF memmove_down, StringsInv, Operands, Running, Readers
<1>2. call.d \in Int /\ call.s \in Addr /\ call.n \in 0 .. MemSize
      /\ call.s + call.n - 1 <= MemSize
  BY <1>1 DEF MoveArgs, Addr
<1>3. CASE i < call.n
  <2> DEFINE k == call.n - 1 - i
  <2>1. Store(call.d + call.n - 1 - i, mem[call.s + call.n - 1 - i]) /\ Again
    BY <1>3 DEF memmove_down
  <2>2. k \in Nat /\ k < call.n /\ call.s + call.n - 1 - i = call.s + k
    BY <1>2, <1>3, Types DEF Addr
  <2> HIDE DEF k
  <2>3. mem[call.s + k] \in Bytes
    BY <1>2, <2>2, Types, InArea
  <2>4. mem' \in [Addr -> Bytes]
    BY <2>1, <2>2, <2>3, Stored
  <2>5. i + 1 <= MemSize
    BY <1>2, <1>3, Types
  <2> QED BY <1>1, <2>1, <2>4, <2>5, WriterGoesOn DEF Running
<1>4. CASE ~(i < call.n)
  BY <1>1, <1>2, <1>4, Types, WriterReturns DEF memmove_down, Return
<1> QED BY <1>3, <1>4

LEMMA CopyStringReturns ==
  ASSUME ResultInv, NEW a, IsString(before, call.s), CopyString(a),
         \A k \in 0 .. i-1 : before[call.s + k] # 0,
         stage # "returned", call.fn \notin Readers, call.d \in Int
  PROVE  ResultInv'
<1>1. /\ i \in Nat /\ MemSize \in Nat /\ mem \in [Addr -> Bytes]
      /\ i \in 0 .. MemSize /\ j \in 0 .. MemSize /\ len \in 0 .. MemSize
  BY Types
<1>2. /\ i <= StrLen(before, call.s)
      /\ StrLen(before, call.s) \in 0 .. MemSize - 1
      /\ call.s + i \in Addr
  BY <1>1, InString
<1>3. mem[call.s + i] \in Bytes /\ i + 1 <= MemSize
  BY <1>1, <1>2
<1>4. Store(a + i, mem[call.s + i])
  BY DEF CopyString
<1>5. mem' \in [Addr -> Bytes]
  BY <1>3, <1>4, Stored
<1>6. CASE mem[call.s + i] # 0
  <2>1. Again
    BY <1>6 DEF CopyString
  <2> QED BY <1>3, <1>5, <2>1, WriterGoesOn
<1>7. CASE mem[call.s + i] = 0
  <2>1. /\ result' = call.d /\ stage' = "returned"
        /\ UNCHANGED <<call, i, j, len, before>>
    BY <1>7 DEF CopyString
  <2> QED BY <1>5, <2>1, WriterReturns
<1> QED BY <1>6, <1>7

LEMMA strcpyReturns ==
  ASSUME StringsInv, ResultInv, strcpy PROVE ResultInv'
<1>1. /\ Running("strcpy", "loop") /\ CopyString(call.d)
      /\ StrCpyArgs(before, call)
  BY DEF strcpy, StringsInv, Operands, Running
<1>2. \A k \in 0 .. i-1 : before[call.s + k] # 0
  BY <1>1 DEF StringsInv, Progress, strcpyLoop
<1>3. IsString(before, call.s) /\ call.d \in Int
  BY <1>1 DEF StrCpyArgs, Addr
<1>4. stage # "returned" /\ call.fn \notin Readers
  BY <1>1 DEF Running, Readers
<1> QED BY <1>1, <1>2, <1>3, <1>4, CopyStringReturns

LEMMA strcatReturns ==
  ASSUME StringsInv, ResultInv, strcat PROVE ResultInv'
<1>1. /\ Running("strcat", "loop") /\ CopyString(call.d + len)
      /\ StrCatArgs(before, call)
  BY DEF strcat, StringsInv, Operands, Running
<1>2. \A k \in 0 .. i-1 : before[call.s + k] # 0
  BY <1>1 DEF StringsInv, Progress, strcatLoop
<1>3. IsString(before, call.s) /\ call.d \in Int
  BY <1>1 DEF StrCatArgs, IsString, Addr
<1>4. stage # "returned" /\ call.fn \notin Readers
  BY <1>1 DEF Running, Readers
<1> QED BY <1>1, <1>2, <1>3, <1>4, CopyStringReturns

LEMMA strcat_endReturns ==
  ASSUME StringsInv, ResultInv, strcat_end PROVE ResultInv'
<1>1. /\ Running("strcat", "strlen(dst)") /\ mem' = mem
      /\ StrCatArgs(before, call)
  BY DEF strcat_end, StringsInv, Operands, Running
<1>2. \A k \in 0 .. i-1 : before[call.d + k] # 0
  BY <1>1 DEF StringsInv, Progress, strcatEnd
<1>3. IsString(before, call.d) /\ call.fn \notin Readers /\ stage # "returned"
  BY <1>1 DEF StrCatArgs, Running, Readers
<1>4. /\ i \in Nat /\ MemSize \in Nat /\ mem \in [Addr -> Bytes]
      /\ i \in 0 .. MemSize /\ j \in 0 .. MemSize /\ len \in 0 .. MemSize
  BY Types
<1>5. /\ i <= StrLen(before, call.d)
      /\ StrLen(before, call.d) \in 0 .. MemSize - 1
  BY <1>2, <1>3, <1>4, InString
<1>6. i + 1 <= MemSize /\ 0 \in 0 .. MemSize
  BY <1>4, <1>5
<1>7. CASE mem[call.d + i] # 0
  <2>1. Again
    BY <1>7 DEF strcat_end
  <2> QED BY <1>1, <1>3, <1>4, <1>6, <2>1, WriterGoesOn
<1>8. CASE mem[call.d + i] = 0
  <2>1. /\ stage' = "loop" /\ len' = i /\ i' = 0 /\ j' = j
        /\ UNCHANGED <<call, before, result>>
    BY <1>8 DEF strcat_end, Step
  <2>2. Reading'
    BY <1>3, <2>1, WritersRead
  <2>3. /\ i' \in 0 .. MemSize /\ j' \in 0 .. MemSize /\ len' \in 0 .. MemSize
        /\ mem' \in [Addr -> Bytes]
    BY <1>1, <1>4, <1>6, <2>1
  <2> QED BY <2>1, <2>2, <2>3, GoesOn
<1> QED BY <1>7, <1>8

LEMMA strncpyReturns ==
  ASSUME StringsInv, ResultInv, strncpy PROVE ResultInv'
<1>1. /\ Running("strncpy", "loop") /\ StrNCpyArgs(before, call)
      /\ before \in [Addr -> Bytes]
  BY DEF strncpy, StringsInv, Operands, Running
<1>2. \A k \in 0 .. i-1 : before[call.s + k] # 0
  BY <1>1 DEF StringsInv, Progress, strncpyLoop
<1>3. /\ call.s \in Addr /\ call.n \in 0 .. MemSize
      /\ Bounded(before, call.s, call.n)
      /\ call.fn \notin Readers /\ stage # "returned"
  BY <1>1 DEF StrNCpyArgs, Running, Readers
<1>4. /\ i \in Nat /\ MemSize \in Nat /\ mem \in [Addr -> Bytes]
      /\ i \in 0 .. MemSize /\ j \in 0 .. MemSize /\ len \in 0 .. MemSize
  BY Types
<1>5. CASE i < call.n /\ mem[call.s + i] # 0
  <2>1. Store(call.d + i, mem[call.s + i]) /\ Again
    BY <1>5 DEF strncpy
  <2>2. call.s + i \in Addr
    BY <1>1, <1>2, <1>3, <1>4, <1>5, InBounds
  <2>3. mem[call.s + i] \in Bytes
    BY <1>4, <2>2
  <2>4. mem' \in [Addr -> Bytes]
    BY <2>1, <2>3, Stored
  <2>5. i + 1 <= MemSize
    BY <1>3, <1>4, <1>5
  <2> QED BY <1>3, <2>1, <2>4, <2>5, WriterGoesOn
<1>6. CASE ~(i < call.n /\ mem[call.s + i] # 0)
  <2>1. /\ stage' = "pad"
        /\ UNCHANGED <<mem, i, j, len, call, before, result>>
    BY <1>6 DEF strncpy, Step
  <2>2. Reading'
    BY <1>3, <2>1, WritersRead
  <2> QED BY <1>4, <2>1, <2>2, GoesOn
<1> QED BY <1>5, <1>6

LEMMA strncpy_padReturns ==
  ASSUME StringsInv, ResultInv, strncpy_pad PROVE ResultInv'
<1>1. Running("strncpy", "pad") /\ StrNCpyArgs(before, call)
  BY DEF strncpy_pad, StringsInv, Operands, Running
<1>2. /\ call.d \in Int /\ call.n \in 0 .. MemSize
      /\ call.fn \notin Readers /\ stage # "returned"
  BY <1>1 DEF StrNCpyArgs, Running, Readers, Addr
<1>3. CASE i < call.n
  <2>1. Store(call.d + i, 0) /\ Again
    BY <1>3 DEF strncpy_pad
  <2>2. 0 \in Bytes
    BY StringsAssumption DEF Bytes
  <2>3. mem' \in [Addr -> Bytes]
    BY <2>1, <2>2, Stored
  <2>4. i + 1 <= MemSize
    BY <1>2, <1>3, Types
  <2> QED BY <1>2, <2>1, <2>3, <2>4, WriterGoesOn
<1>4. CASE ~(i < call.n)
  BY <1>1, <1>2, <1>4, Types, WriterReturns DEF strncpy_pad, Return
<1> QED BY <1>3, <1>4

-----------------------------------------------------------------------------
(* The functions that read.                                                *)

(* The first one of a set of addresses.                                    *)
LEMMA FirstIs ==
  ASSUME NEW S, NEW x \in S, S \subseteq Int, \A y \in S : x <= y
  PROVE  First(S) = x
<1>1. \A z \in S : (\A y \in S : z <= y) => z = x
  BY SMT
<1> QED BY <1>1, Zenon DEF First

LEMMA FirstNone == First({}) = NULL
  BY DEF First

(* A reader reads the memory of the call.                                  *)
LEMMA ReaderMem ==
  ASSUME StringsInv, call.fn \in Readers
  PROVE  mem = before
  BY DEF StringsInv, Progress, Unwritten, Writers, Readers

(* A reader's step to its next byte.                                       *)
LEMMA ReaderGoesOn ==
  ASSUME ResultInv, Again, UNCHANGED mem, i + 1 <= MemSize,
         stage # "returned", Reading'
  PROVE  ResultInv'
<1>1. /\ i \in 0 .. MemSize /\ j \in 0 .. MemSize /\ len \in 0 .. MemSize
      /\ MemSize \in Nat /\ mem \in [Addr -> Bytes]
      /\ stage \in {"choose", "up", "down", "loop", "pad", "strlen(dst)",
                     "strlen(needle)", "haystack", "strncmp"}
  BY Types DEF ResultInv, TypeOK
<1>2. i + 1 \in 0 .. MemSize
  BY <1>1
<1> QED BY <1>1, <1>2, GoesOn DEF Again, Step

(* Each loop only owes its own part of the invariant.                      *)
LEMMA OnlyLoop ==
  ASSUME call.fn \in {"strlen", "memchr", "strchr", "memcmp", "strcmp",
                      "strncmp"},
         call' = call,
         /\ call.fn = "strlen" => strlenLoop'
         /\ call.fn = "memchr" => memchrLoop'
         /\ call.fn = "strchr" => strchrLoop'
         /\ call.fn = "memcmp" => memcmpLoop'
         /\ call.fn = "strcmp" => strcmpLoop'
         /\ call.fn = "strncmp" => strncmpLoop'
  PROVE  Reading'
  BY DEF Reading, strlenLoop, memchrLoop, strchrLoop, memcmpLoop, strcmpLoop,
         strncmpLoop, strstrNeedle, strstrHaystack, strstrCompare, Running

LEMMA strlenReturns ==
  ASSUME StringsInv, ResultInv, strlen PROVE ResultInv'
<1>1. /\ Running("strlen", "loop") /\ IsString(before, call.s)
      /\ NoZero(call.s, i) /\ mem = before
  BY ReaderMem
     DEF strlen, ResultInv, ReadOperands, Reading, strlenLoop, Running, Readers
<1>2. /\ i \in Nat /\ MemSize \in Nat /\ mem \in [Addr -> Bytes]
  BY Types
<1>3. /\ i <= StrLen(before, call.s)
      /\ StrLen(before, call.s) \in 0 .. MemSize - 1
      /\ before[call.s + i] = 0 => i = StrLen(before, call.s)
  BY <1>1, <1>2, InString DEF NoZero
<1>4. CASE mem[call.s + i] # 0
  <2>1. Again /\ UNCHANGED mem
    BY <1>4 DEF strlen
  <2>2. i' = i + 1 /\ UNCHANGED <<call, before>>
    BY <2>1 DEF Again, Step
  <2>3. NoZero(call.s, i)'
    BY <1>1, <1>2, <1>4, <2>2 DEF NoZero
  <2>4. Reading'
    BY <1>1, <2>2, <2>3, OnlyLoop DEF Running, strlenLoop
  <2>5. i + 1 <= MemSize
    BY <1>2, <1>3
  <2> QED BY <1>1, <2>1, <2>4, <2>5, ReaderGoesOn DEF Running
<1>5. CASE mem[call.s + i] = 0
  <2>1. Return(i) /\ i = StrLen(before, call.s)
    BY <1>1, <1>3, <1>5 DEF strlen
  <2>2. Returned'
    BY <1>1, <2>1 DEF Returned, Return, Running, Readers
  <2> QED BY <1>2, <2>1, <2>2, Returns DEF Return
<1> QED BY <1>4, <1>5

LEMMA memchrReturns ==
  ASSUME StringsInv, ResultInv, memchr PROVE ResultInv'
<1> DEFINE c == call.c % ByteW
           S == {a \in Area(call.d, call.n) : before[a] = c}
<1>1. /\ Running("memchr", "loop") /\ SetArgs(call)
      /\ i <= call.n /\ \A k \in 0 .. i-1 : before[call.d + k] # c
      /\ mem = before
  BY ReaderMem
     DEF memchr, ResultInv, ReadOperands, Reading, memchrLoop, Running, Readers
<1>2. /\ i \in Nat /\ MemSize \in Nat /\ mem \in [Addr -> Bytes]
      /\ call.d \in Int /\ call.n \in 0 .. MemSize
  BY <1>1, Types DEF SetArgs, Addr
<1>3. \A a \in S : a \in Int /\ call.d + i <= a
  <2> SUFFICES ASSUME NEW a \in S PROVE a \in Int /\ call.d + i <= a
    OBVIOUS
  <2>1. a - call.d \in Nat /\ call.d + (a - call.d) = a /\ before[a] = c
        /\ a \in Int
    BY <1>2 DEF Area
  <2> HIDE DEF S, c
  <2>2. a - call.d \notin 0 .. i-1
    BY <1>1, <2>1
  <2> QED BY <1>2, <2>1, <2>2
<1> HIDE DEF c
<1>4. CASE i < call.n /\ mem[call.d + i] = c
  <2>1. Return(call.d + i)
    BY <1>4 DEF memchr, c
  <2>2. call.d + i \in S
    BY <1>1, <1>2, <1>4 DEF Area
  <2> HIDE DEF S
  <2>3. First(S) = call.d + i
    BY <1>3, <2>2, FirstIs
  <2>4. Returned'
    BY <1>1, <2>1, <2>3 DEF Returned, Return, Running, Readers, S, c
  <2> QED BY <1>2, <2>1, <2>4, Returns DEF Return
<1>5. CASE i < call.n /\ mem[call.d + i] # c
  <2>1. Again /\ UNCHANGED mem
    BY <1>5 DEF memchr, c
  <2>2. i' = i + 1 /\ UNCHANGED <<call, before>>
    BY <2>1 DEF Again, Step
  <2>3. \A k \in 0 .. i'-1 : before[call.d + k] # c
    BY <1>1, <1>2, <1>5, <2>2
  <2>4. memchrLoop'
    BY <1>2, <1>5, <2>2, <2>3 DEF memchrLoop, c
  <2>5. Reading'
    BY <1>1, <2>2, <2>4, OnlyLoop DEF Running
  <2>6. i + 1 <= MemSize
    BY <1>2, <1>5
  <2> QED BY <1>1, <2>1, <2>5, <2>6, ReaderGoesOn DEF Running
<1>6. CASE ~(i < call.n)
  <2>1. Return(NULL)
    BY <1>6 DEF memchr
  <2>2. S = {}
    <3> SUFFICES ASSUME NEW a \in S PROVE FALSE
      OBVIOUS
    <3>1. call.d + i <= a /\ a \in Area(call.d, call.n)
      BY <1>3
    <3> QED BY <1>1, <1>2, <1>6, <3>1 DEF Area
  <2> HIDE DEF S
  <2>3. First(S) = NULL
    BY <2>2, FirstNone
  <2>4. Returned'
    BY <1>1, <2>1, <2>3 DEF Returned, Return, Running, Readers, S, c
  <2> QED BY <1>2, <2>1, <2>4, Returns DEF Return, NULL
<1> QED BY <1>4, <1>5, <1>6

LEMMA strchrReturns ==
  ASSUME StringsInv, ResultInv, strchr PROVE ResultInv'
<1> DEFINE c == call.c
           S == {a \in StrArea(before, call.s) : before[a] = c}
<1>1. /\ Running("strchr", "loop") /\ IsString(before, call.s)
      /\ NoZero(call.s, i) /\ \A k \in 0 .. i-1 : before[call.s + k] # c
      /\ mem = before
  BY ReaderMem
     DEF strchr, ResultInv, ReadOperands, Reading, strchrLoop, Running, Readers
<1>2. /\ i \in Nat /\ MemSize \in Nat /\ mem \in [Addr -> Bytes]
      /\ call.s \in Int
  BY <1>1, Types DEF IsString, Addr
<1>3. /\ i <= StrLen(before, call.s)
      /\ StrLen(before, call.s) \in 0 .. MemSize - 1
      /\ before[call.s + i] = 0 => i = StrLen(before, call.s)
  BY <1>1, <1>2, InString DEF NoZero
<1>4. /\ \A a \in S : a \in Int /\ call.s + i <= a
                      /\ a <= call.s + StrLen(before, call.s)
      /\ call.s + i \in StrArea(before, call.s)
  <2> DEFINE L == StrLen(before, call.s)
  <2> HIDE DEF L
  <2>1. L \in Nat /\ i <= L
    BY <1>3 DEF L
  <2>2. StrArea(before, call.s) = call.s .. call.s + (L + 1) - 1
    BY DEF StrArea, Area, L
  <2>3. ASSUME NEW a \in S
        PROVE  a \in Int /\ call.s + i <= a /\ a <= call.s + L
    <3>1. a - call.s \in Nat /\ call.s + (a - call.s) = a /\ before[a] = c
          /\ a \in Int /\ a <= call.s + L
      BY <1>2, <2>1, <2>2
    <3> HIDE DEF S, c
    <3>2. a - call.s \notin 0 .. i-1
      BY <1>1, <3>1
    <3> QED BY <1>2, <3>1, <3>2
  <2>4. call.s + i \in StrArea(before, call.s)
    BY <1>2, <2>1, <2>2
  <2> HIDE DEF S
  <2> QED BY <2>3, <2>4 DEF L
<1> HIDE DEF c
<1>5. CASE mem[call.s + i] # 0 /\ mem[call.s + i] = c
  <2>1. Return(call.s + i)
    BY <1>5 DEF strchr, c
  <2>2. call.s + i \in S
    BY <1>1, <1>4, <1>5
  <2> HIDE DEF S
  <2>3. First(S) = call.s + i
    BY <1>4, <2>2, FirstIs
  <2>4. Returned'
    BY <1>1, <2>1, <2>3 DEF Returned, Return, Running, Readers, S, c
  <2> QED BY <1>2, <2>1, <2>4, Returns DEF Return
<1>6. CASE mem[call.s + i] # 0 /\ mem[call.s + i] # c
  <2>1. Again /\ UNCHANGED mem
    BY <1>6 DEF strchr, c
  <2>2. i' = i + 1 /\ UNCHANGED <<call, before>>
    BY <2>1 DEF Again, Step
  <2>3. (\A k \in 0 .. i'-1 : before[call.s + k] # c) /\ NoZero(call.s, i)'
    BY <1>1, <1>2, <1>6, <2>2 DEF NoZero
  <2>4. strchrLoop'
    BY <2>2, <2>3 DEF strchrLoop, c
  <2>5. Reading'
    BY <1>1, <2>2, <2>4, OnlyLoop DEF Running
  <2>6. i + 1 <= MemSize
    BY <1>2, <1>3
  <2> QED BY <1>1, <2>1, <2>5, <2>6, ReaderGoesOn DEF Running
<1>7. CASE mem[call.s + i] = 0 /\ c = 0
  <2>1. Return(call.s + i)
    BY <1>7 DEF strchr, c
  <2>2. call.s + i \in S
    BY <1>1, <1>4, <1>7
  <2> HIDE DEF S
  <2>3. First(S) = call.s + i
    BY <1>4, <2>2, FirstIs
  <2>4. Returned'
    BY <1>1, <2>1, <2>3 DEF Returned, Return, Running, Readers, S, c
  <2> QED BY <1>2, <2>1, <2>4, Returns DEF Return
<1>8. CASE mem[call.s + i] = 0 /\ c # 0
  <2>1. Return(NULL)
    BY <1>8 DEF strchr, c
  <2>2. S = {}
    <3> SUFFICES ASSUME NEW a \in S PROVE FALSE
      OBVIOUS
    <3>1. /\ a \in Int /\ call.s + i <= a
          /\ a <= call.s + StrLen(before, call.s) /\ before[a] = c
      BY <1>4
    <3>2. a = call.s + i
      BY <1>1, <1>2, <1>3, <1>8, <3>1
    <3> QED BY <1>1, <1>8, <3>1, <3>2
  <2> HIDE DEF S
  <2>3. First(S) = NULL
    BY <2>2, FirstNone
  <2>4. Returned'
    BY <1>1, <2>1, <2>3 DEF Returned, Return, Running, Readers, S, c
  <2> QED BY <1>2, <2>1, <2>4, Returns DEF Return, NULL
<1> QED BY <1>5, <1>6, <1>7, <1>8

(* A comparison is decided by the first difference.                        *)
LEMMA ComparedSame ==
  ASSUME NEW a, NEW b, NEW n, Same(a, b, n)
  PROVE  Compared(a, b, n) = 0
<1>1. {k \in 0 .. n-1 : before[a + k] # before[b + k]} = {}
  BY DEF Same
<1> QED BY <1>1, Zenon DEF Compared

LEMMA ComparedDiffer ==
  ASSUME NEW a, NEW b, NEW n \in Nat, NEW k \in 0 .. n-1, Same(a, b, k),
         before[a + k] # before[b + k]
  PROVE  Compared(a, b, n) = Sign(before[a + k] - before[b + k])
<1> DEFINE at == {l \in 0 .. n-1 : before[a + l] # before[b + l]}
           k0 == CHOOSE l \in at : \A o \in at : l <= o
<1>1. k \in at
  OBVIOUS
<1>2. \A l \in at : l \in Int /\ k <= l
  <2> SUFFICES ASSUME NEW l \in at PROVE l \in Int /\ k <= l
    OBVIOUS
  <2>1. l \in 0 .. n-1 /\ before[a + l] # before[b + l]
    OBVIOUS
  <2>2. l \notin 0 .. k-1
    BY <2>1 DEF Same
  <2> QED BY <2>1, <2>2
<1> HIDE DEF at
<1>3. \A l \in at : (\A o \in at : l <= o) => l = k
  BY <1>1, <1>2
<1>4. k0 = k
  BY <1>1, <1>2, <1>3, Zenon
<1>5. at # {}
  BY <1>1
<1>6. Compared(a, b, n) =
        IF at = {} THEN 0 ELSE Sign(before[a + k0] - before[b + k0])
  BY Zenon DEF Compared, at
<1> HIDE DEF k0
<1> QED BY <1>4, <1>5, <1>6, Zenon

LEMMA CommonIs ==
  ASSUME NEW a, NEW b, NEW n \in Nat, NEW k \in 0 .. n,
         Same(a, b, k), NoZero(a, k),
         k < n => before[a + k] # before[b + k] \/ before[a + k] = 0
  PROVE  Common(a, b, n) = k
<1> DEFINE P(l) ==
             /\ l < n => before[a + l] # before[b + l] \/ before[a + l] = 0
             /\ \A o \in 0 .. l-1 :
                  before[a + o] = before[b + o] /\ before[a + o] # 0
<1>1. P(k)
  BY DEF Same, NoZero
<1>2. ASSUME NEW l \in 0 .. n, P(l) PROVE l = k
  <2>1. CASE l < k
    <3>1. l \in 0 .. k-1 /\ l < n
      BY <2>1
    <3> QED BY <1>2, <3>1 DEF Same, NoZero
  <2>2. CASE k < l
    <3>1. k \in 0 .. l-1 /\ k < n
      BY <2>2
    <3> QED BY <1>1, <1>2, <3>1
  <2> QED BY <2>1, <2>2
<1>3. Common(a, b, n) = CHOOSE l \in 0 .. n : P(l)
  BY Zenon DEF Common
<1> HIDE DEF P
<1> QED BY <1>1, <1>2, <1>3, Zenon

(* Comparisons are of the memory at the call, which does not change.       *)
ComparedIn(m, a, b, n) ==
  LET at == {k \in 0 .. n-1 : m[a + k] # m[b + k]}
      k0 == CHOOSE k \in at : \A l \in at : k <= l
  IN IF at = {} THEN 0 ELSE Sign(m[a + k0] - m[b + k0])

CommonIn(m, a, b, n) ==
  CHOOSE k \in 0 .. n :
    /\ k < n => m[a + k] # m[b + k] \/ m[a + k] = 0
    /\ \A l \in 0 .. k-1 : m[a + l] = m[b + l] /\ m[a + l] # 0

LEMMA ComparedStays ==
  ASSUME call' = call, before' = before
  PROVE  /\ Compared(call.d, call.s, call.n)'
              = Compared(call.d, call.s, call.n)
         /\ Compared(call.d, call.s, Upto(call.n))'
              = Compared(call.d, call.s, Upto(call.n))
         /\ Compared(call.d, call.s, Upto(MemSize))'
              = Compared(call.d, call.s, Upto(MemSize))
<1>1. /\ \A n : Common(call.d, call.s, n) = CommonIn(before, call.d, call.s, n)
      /\ \A n : Compared(call.d, call.s, n)
                  = ComparedIn(before, call.d, call.s, n)
  BY Zenon DEF Common, CommonIn, Compared, ComparedIn
<1>2. /\ Common(call.d, call.s, call.n)'
           = CommonIn(before', call'.d, call'.s, call'.n)
      /\ Common(call.d, call.s, MemSize)'
           = CommonIn(before', call'.d, call'.s, MemSize)
  BY Zenon DEF Common, CommonIn
<1>3. Upto(call.n)' = Upto(call.n) /\ Upto(MemSize)' = Upto(MemSize)
  BY <1>1, <1>2 DEF Upto
<1>4. /\ Compared(call.d, call.s, call.n)'
           = ComparedIn(before', call'.d, call'.s, call'.n)
      /\ Compared(call.d, call.s, Upto(call.n))'
           = ComparedIn(before', call'.d, call'.s, Upto(call.n)')
      /\ Compared(call.d, call.s, Upto(MemSize))'
           = ComparedIn(before', call'.d, call'.s, Upto(MemSize)')
  BY Zenon DEF Compared, ComparedIn
<1> QED BY <1>1, <1>3, <1>4

LEMMA memcmpReturns ==
  ASSUME StringsInv, ResultInv, memcmp PROVE ResultInv'
<1> DEFINE d == call.d
           s == call.s
<1>1. /\ Running("memcmp", "loop") /\ MoveArgs(call)
      /\ i <= call.n /\ Same(d, s, i) /\ mem = before
  BY ReaderMem
     DEF memcmp, ResultInv, ReadOperands, Reading, memcmpLoop, Running, Readers
<1>2. /\ i \in Nat /\ MemSize \in Nat /\ mem \in [Addr -> Bytes]
      /\ d \in Addr /\ s \in Addr /\ call.n \in 0 .. MemSize
      /\ d + call.n - 1 <= MemSize /\ s + call.n - 1 <= MemSize
  BY <1>1, Types DEF MoveArgs
<1> HIDE DEF d, s
<1>3. CASE i < call.n /\ mem[d + i] # mem[s + i]
  <2>1. Return(before[d + i] - before[s + i])
    BY <1>1, <1>3 DEF memcmp, Difference, d, s
  <2>2. /\ before[d + i] \in Bytes /\ before[s + i] \in Bytes
        /\ i \in 0 .. call.n - 1 /\ call.n \in Nat
    BY <1>1, <1>2, <1>3, InArea
  <2>3. Compared(d, s, call.n) = Sign(before[d + i] - before[s + i])
    BY <1>1, <1>3, <2>2, ComparedDiffer
  <2>4. before[d + i] - before[s + i] \in Int
    BY <2>2, StringsAssumption DEF Bytes
  <2>5. Compared(call.d, call.s, call.n)' = Compared(d, s, call.n)
    BY <2>1, ComparedStays DEF Return, d, s
  <2>6. Returned'
    BY <1>1, <2>1, <2>3, <2>5 DEF Returned, Return, Running, Readers
  <2> QED BY <1>2, <2>1, <2>4, <2>6, Returns DEF Return
<1>4. CASE i < call.n /\ mem[d + i] = mem[s + i]
  <2>1. Again /\ UNCHANGED mem
    BY <1>4 DEF memcmp, d, s
  <2>2. i' = i + 1 /\ UNCHANGED <<call, before>>
    BY <2>1 DEF Again, Step
  <2>3. Same(call.d, call.s, i)'
    BY <1>1, <1>2, <1>4, <2>2 DEF Same, d, s
  <2>4. memcmpLoop'
    BY <1>2, <1>4, <2>2, <2>3 DEF memcmpLoop
  <2>5. Reading'
    BY <1>1, <2>2, <2>4, OnlyLoop DEF Running
  <2>6. i + 1 <= MemSize
    BY <1>2, <1>4
  <2> QED BY <1>1, <2>1, <2>5, <2>6, ReaderGoesOn DEF Running
<1>5. CASE ~(i < call.n)
  <2>1. Return(0)
    BY <1>5 DEF memcmp
  <2>2. i = call.n
    BY <1>1, <1>2, <1>5
  <2>3. Compared(d, s, call.n) = 0 /\ Sign(0) = 0
    BY <1>1, <2>2, ComparedSame DEF Sign
  <2>4. Compared(call.d, call.s, call.n)' = Compared(d, s, call.n)
    BY <2>1, ComparedStays DEF Return, d, s
  <2>5. Returned'
    BY <1>1, <2>1, <2>3, <2>4 DEF Returned, Return, Running, Readers
  <2> QED BY <1>2, <2>1, <2>5, Returns DEF Return
<1> QED BY <1>3, <1>4, <1>5

(* The byte at which two strings are told apart.                           *)
LEMMA DecidedAt ==
  ASSUME NEW n \in Nat, NEW k \in 0 .. n-1,
         Same(call.d, call.s, k), NoZero(call.d, k),
         before[call.d + k] \in Int, before[call.s + k] \in Int,
         \/ before[call.d + k] # before[call.s + k]
         \/ before[call.d + k] = 0
  PROVE  Compared(call.d, call.s, Upto(n))
           = Sign(before[call.d + k] - before[call.s + k])
<1>1. k \in 0 .. n /\ k + 1 \in Nat /\ k \in 0 .. (k + 1) - 1
  OBVIOUS
<1>2. Common(call.d, call.s, n) = k
  BY <1>1, CommonIs
<1>3. Upto(n) = k + 1
  BY <1>2 DEF Upto
<1>4. CASE before[call.d + k] # before[call.s + k]
  <2>1. Compared(call.d, call.s, k + 1)
          = Sign(before[call.d + k] - before[call.s + k])
    BY <1>1, <1>4, ComparedDiffer
  <2> QED BY <1>3, <2>1
<1>5. CASE before[call.d + k] = before[call.s + k]
  <2>1. Same(call.d, call.s, k + 1)
    BY <1>5 DEF Same
  <2>2. Compared(call.d, call.s, k + 1) = 0
    BY <2>1, ComparedSame
  <2>3. Sign(before[call.d + k] - before[call.s + k]) = 0
    BY <1>5 DEF Sign
  <2> QED BY <1>3, <2>2, <2>3
<1> QED BY <1>4, <1>5

LEMMA strcmpReturns ==
  ASSUME StringsInv, ResultInv, strcmp PROVE ResultInv'
<1> DEFINE d == call.d
           s == call.s
<1>1. /\ Running("strcmp", "loop")
      /\ IsString(before, d) /\ IsString(before, s)
      /\ NoZero(d, i) /\ Same(d, s, i) /\ mem = before
  BY ReaderMem
     DEF strcmp, ResultInv, ReadOperands, Reading, strcmpLoop, Running, Readers
<1>2. i \in Nat /\ MemSize \in Nat /\ mem \in [Addr -> Bytes]
  BY Types
<1> HIDE DEF d, s
<1>3. \A k \in 0 .. i-1 : before[s + k] # 0
  BY <1>1 DEF NoZero, Same
<1>4. /\ i <= StrLen(before, d) /\ StrLen(before, d) \in 0 .. MemSize - 1
      /\ before[d + i] \in Bytes /\ before[s + i] \in Bytes
  <2>1. /\ i <= StrLen(before, d) /\ StrLen(before, d) \in 0 .. MemSize - 1
        /\ before[d + i] \in Bytes
    BY <1>1, <1>2, InString DEF NoZero
  <2>2. before[s + i] \in Bytes
    BY <1>1, <1>2, <1>3, InString
  <2> QED BY <2>1, <2>2
<1>5. i + 1 <= MemSize /\ i \in 0 .. MemSize - 1
      /\ before[d + i] \in Int /\ before[s + i] \in Int
  BY <1>2, <1>4, StringsAssumption DEF Bytes
<1>6. CASE mem[d + i] # 0 /\ mem[d + i] = mem[s + i]
  <2>1. Again /\ UNCHANGED mem
    BY <1>6 DEF strcmp, d, s
  <2>2. i' = i + 1 /\ UNCHANGED <<call, before>>
    BY <2>1 DEF Again, Step
  <2>3. NoZero(call.d, i)' /\ Same(call.d, call.s, i)'
    BY <1>1, <1>2, <1>6, <2>2 DEF NoZero, Same, d, s
  <2>4. strcmpLoop'
    BY <2>3 DEF strcmpLoop
  <2>5. Reading'
    BY <1>1, <2>2, <2>4, OnlyLoop DEF Running
  <2> QED BY <1>1, <1>5, <2>1, <2>5, ReaderGoesOn DEF Running
<1>7. CASE ~(mem[d + i] # 0 /\ mem[d + i] = mem[s + i])
  <2>1. Return(before[d + i] - before[s + i])
    BY <1>1, <1>7 DEF strcmp, Difference, d, s
  <2>2. before[d + i] # before[s + i] \/ before[d + i] = 0
    BY <1>1, <1>7
  <2>3. Compared(d, s, Upto(MemSize)) = Sign(before[d + i] - before[s + i])
    BY <1>1, <1>2, <1>5, <2>2, DecidedAt DEF d, s
  <2>4. before[d + i] - before[s + i] \in Int
    BY <1>5
  <2>5. Compared(call.d, call.s, Upto(MemSize))'
          = Compared(d, s, Upto(MemSize))
    BY <2>1, ComparedStays DEF Return, d, s
  <2>6. Returned'
    BY <1>1, <2>1, <2>3, <2>5 DEF Returned, Return, Running, Readers
  <2> QED BY <1>2, <2>1, <2>4, <2>6, Returns DEF Return
<1> QED BY <1>6, <1>7

LEMMA strncmpReturns ==
  ASSUME StringsInv, ResultInv, strncmp PROVE ResultInv'
<1> DEFINE d == call.d
           s == call.s
<1>1. /\ Running("strncmp", "loop") /\ StrNCmpArgs(before, call)
      /\ i <= call.n /\ NoZero(d, i) /\ Same(d, s, i) /\ mem = before
  BY ReaderMem
     DEF strncmp, ResultInv, ReadOperands, Reading, strncmpLoop, Running,
         Readers
<1>2. /\ i \in Nat /\ MemSize \in Nat /\ before \in [Addr -> Bytes]
      /\ mem \in [Addr -> Bytes] /\ call.n \in 0 .. MemSize
      /\ d \in Addr /\ s \in Addr
      /\ Bounded(before, d, call.n) /\ Bounded(before, s, call.n)
  BY <1>1, Types DEF StrNCmpArgs
<1> HIDE DEF d, s
<1>3. \A k \in 0 .. i-1 : before[s + k] # 0 /\ before[d + k] # 0
  BY <1>1 DEF NoZero, Same
<1>4. ASSUME i < call.n
      PROVE  before[d + i] \in Int /\ before[s + i] \in Int
  <2>1. before[d + i] \in Bytes /\ before[s + i] \in Bytes
    BY <1>2, <1>3, <1>4, InBounds
  <2> QED BY <2>1, StringsAssumption DEF Bytes
<1>5. CASE i < call.n /\ (mem[d + i] # mem[s + i] \/ mem[d + i] = 0)
  <2>1. Return(before[d + i] - before[s + i])
    BY <1>1, <1>5 DEF strncmp, Difference, Differ, d, s
  <2>2. i \in 0 .. call.n - 1 /\ call.n \in Nat
        /\ before[d + i] - before[s + i] \in Int
    BY <1>2, <1>4, <1>5
  <2>3. Compared(d, s, Upto(call.n)) = Sign(before[d + i] - before[s + i])
    BY <1>1, <1>4, <1>5, <2>2, DecidedAt DEF d, s
  <2>4. Compared(call.d, call.s, Upto(call.n))' = Compared(d, s, Upto(call.n))
    BY <2>1, ComparedStays DEF Return, d, s
  <2>5. Returned'
    BY <1>1, <2>1, <2>3, <2>4 DEF Returned, Return, Running, Readers
  <2> QED BY <1>2, <2>1, <2>2, <2>5, Returns DEF Return
<1>6. CASE i < call.n /\ ~(mem[d + i] # mem[s + i] \/ mem[d + i] = 0)
  <2>1. Again /\ UNCHANGED mem
    BY <1>6 DEF strncmp, Differ, d, s
  <2>2. i' = i + 1 /\ UNCHANGED <<call, before>>
    BY <2>1 DEF Again, Step
  <2>3. NoZero(call.d, i)' /\ Same(call.d, call.s, i)'
    BY <1>1, <1>2, <1>6, <2>2 DEF NoZero, Same, d, s
  <2>4. strncmpLoop'
    BY <1>2, <1>6, <2>2, <2>3 DEF strncmpLoop
  <2>5. Reading'
    BY <1>1, <2>2, <2>4, OnlyLoop DEF Running
  <2>6. i + 1 <= MemSize
    BY <1>2, <1>6
  <2> QED BY <1>1, <2>1, <2>5, <2>6, ReaderGoesOn DEF Running
<1>7. CASE ~(i < call.n)
  <2>1. Return(0)
    BY <1>7 DEF strncmp
  <2>2. i = call.n /\ call.n \in Nat /\ call.n \in 0 .. call.n
    BY <1>1, <1>2, <1>7
  <2>3. Common(d, s, call.n) = call.n
    BY <1>1, <2>2, CommonIs
  <2>4. Upto(call.n) = call.n
    BY <2>2, <2>3 DEF Upto, d, s
  <2>5. Compared(d, s, Upto(call.n)) = 0 /\ Sign(0) = 0
    BY <1>1, <2>2, <2>4, ComparedSame DEF Sign
  <2>6. Compared(call.d, call.s, Upto(call.n))' = Compared(d, s, Upto(call.n))
    BY <2>1, ComparedStays DEF Return, d, s
  <2>7. Returned'
    BY <1>1, <2>1, <2>5, <2>6 DEF Returned, Return, Running, Readers
  <2> QED BY <1>2, <2>1, <2>7, Returns DEF Return
<1> QED BY <1>5, <1>6, <1>7

-----------------------------------------------------------------------------
(* strstr.                                                                 *)

Found == {a \in StrArea(before, call.d) :
            Occurs(a, call.s, call.d + StrLen(before, call.d))}

(* A place before j at which the needle would have been found is none.     *)
LEMMA FoundFrom ==
  ASSUME NotBefore, IsString(before, call.d), NEW a \in Found, j \in Nat
  PROVE  /\ a \in Int /\ call.d + j <= a
         /\ a + len <= call.d + StrLen(before, call.d)
<1> DEFINE L == StrLen(before, call.d)
           k == a - call.d
<1>1. /\ L \in Nat /\ call.d \in Int
  BY StrLenIs DEF IsString, Addr
<1>2. /\ len = StrLen(before, call.s) /\ len > 0 /\ j <= L
      /\ \A l \in 0 .. j-1 : ~Same(call.d + l, call.s, len)
  BY DEF NotBefore
<1>3. /\ a \in StrArea(before, call.d)
      /\ Occurs(a, call.s, call.d + L)
  BY DEF Found
<1>4. a + len <= call.d + L /\ Same(a, call.s, len)
  BY <1>2, <1>3 DEF Occurs, Same
<1> HIDE DEF L
<1>5. a \in call.d .. call.d + (L + 1) - 1
  BY <1>3 DEF StrArea, Area, L
<1>6. k \in Nat /\ call.d + k = a /\ a \in Int
  BY <1>1, <1>5
<1> HIDE DEF k
<1>7. k \notin 0 .. j-1
  BY <1>2, <1>4, <1>6
<1> QED BY <1>1, <1>4, <1>6, <1>7 DEF L

LEMMA NotBeforeStays ==
  ASSUME call' = call, before' = before, j' = j, len' = len
  PROVE  /\ NotBefore' <=> NotBefore
         /\ StrLen(before, call.d)' = StrLen(before, call.d)
<1>1. /\ StrLen(before, call.d)' = StrLen(before, call.d)
      /\ StrLen(before, call.s)' = StrLen(before, call.s)
  BY Zenon DEF StrLen
<1>2. \A k : Same(call.d + k, call.s, len)' <=> Same(call.d + k', call.s, len)
  BY Zenon DEF Same
<1> QED BY <1>1, <1>2 DEF NotBefore

LEMMA OnlyStrstr ==
  ASSUME call.fn = "strstr", call' = call,
         strstrNeedle', strstrHaystack', strstrCompare'
  PROVE  Reading'
  BY DEF Reading, strlenLoop, memchrLoop, strchrLoop, memcmpLoop, strcmpLoop,
         strncmpLoop, Running

(* strstr's result is the first place, here and in the next state.         *)
LEMMA StrstrReturned ==
  ASSUME call.fn = "strstr", call' = call, before' = before,
         result' = First(Found)
  PROVE  Returned'
<1>1. Found' = Found
  BY Zenon DEF Found, Occurs
<1>2. result' = First(Found')
  BY <1>1
<1> QED BY <1>2 DEF Returned, Readers, Found

LEMMA strstr_needleReturns ==
  ASSUME StringsInv, ResultInv, strstr_needle PROVE ResultInv'
<1>1. /\ Running("strstr", "strlen(needle)")
      /\ IsString(before, call.d) /\ IsString(before, call.s)
      /\ j = 0 /\ NoZero(call.s, i) /\ mem = before
  BY ReaderMem
     DEF strstr_needle, ResultInv, ReadOperands, Reading, strstrNeedle,
         Running, Readers
<1>2. /\ i \in Nat /\ MemSize \in Nat /\ mem \in [Addr -> Bytes]
      /\ i \in 0 .. MemSize /\ j \in 0 .. MemSize
  BY Types
<1>3. /\ i <= StrLen(before, call.s)
      /\ StrLen(before, call.s) \in 0 .. MemSize - 1
      /\ before[call.s + i] = 0 => i = StrLen(before, call.s)
  BY <1>1, <1>2, InString DEF NoZero
<1>4. StrLen(before, call.d) \in Nat /\ call.d \in Int
  BY <1>1, StrLenIs DEF IsString, Addr
<1>5. CASE mem[call.s + i] # 0
  <2>1. Again /\ UNCHANGED mem
    BY <1>5 DEF strstr_needle
  <2>2. i' = i + 1 /\ j' = j /\ stage' = stage /\ UNCHANGED <<call, before>>
    BY <2>1 DEF Again, Step
  <2>3. NoZero(call.s, i)'
    BY <1>1, <1>2, <1>5, <2>2 DEF NoZero
  <2>4. strstrNeedle' /\ strstrHaystack' /\ strstrCompare'
    BY <1>1, <2>2, <2>3
       DEF strstrNeedle, strstrHaystack, strstrCompare, Running
  <2>5. Reading'
    BY <1>1, <2>2, <2>4, OnlyStrstr DEF Running
  <2>6. i + 1 <= MemSize
    BY <1>2, <1>3
  <2> QED BY <1>1, <2>1, <2>5, <2>6, ReaderGoesOn DEF Running
<1>6. CASE mem[call.s + i] = 0 /\ i = 0
  <2>1. Return(call.d) /\ StrLen(before, call.s) = 0
    BY <1>1, <1>3, <1>6 DEF strstr_needle
  <2> DEFINE L == StrLen(before, call.d)
  <2>2. call.d \in Found
    <3>1. call.d \in call.d .. call.d + (L + 1) - 1
      <4> HIDE DEF L
      <4>1. L \in Nat
        BY <1>4 DEF L
      <4> QED BY <1>4, <4>1
    <3>2. call.d + 0 <= call.d + L
      BY <1>4
    <3>3. Occurs(call.d, call.s, call.d + L)
      BY <2>1, <3>2 DEF Occurs
    <3> QED BY <3>1, <3>3 DEF Found, StrArea, Area
  <2>3. \A a \in Found : a \in Int /\ call.d <= a
    <3> SUFFICES ASSUME NEW a \in Found PROVE a \in Int /\ call.d <= a
      OBVIOUS
    <3>1. a \in call.d .. call.d + (L + 1) - 1
      BY DEF Found, StrArea, Area
    <3> HIDE DEF L
    <3>2. L \in Nat
      BY <1>4 DEF L
    <3> QED BY <1>4, <3>1, <3>2
  <2>4. First(Found) = call.d
    BY <2>2, <2>3, FirstIs
  <2>5. Returned'
    BY <1>1, <2>1, <2>4, StrstrReturned DEF Running, Return
  <2> QED BY <1>2, <1>4, <2>1, <2>5, Returns DEF Return
<1>7. CASE mem[call.s + i] = 0 /\ i # 0
  <2>1. /\ stage' = "haystack" /\ len' = i /\ i' = i /\ j' = j /\ mem' = mem
        /\ UNCHANGED <<call, before, result>>
    BY <1>7 DEF strstr_needle, Step
  <2>2. StrLen(before, call.s)' = StrLen(before, call.s)
        /\ StrLen(before, call.d)' = StrLen(before, call.d)
    BY <2>1, Zenon DEF StrLen
  <2>3. NotBefore'
    <3>1. len' = StrLen(before, call.s) /\ len' > 0 /\ j' = 0
      BY <1>1, <1>2, <1>3, <1>7, <2>1
    <3>2. j' <= StrLen(before, call.d) /\ 0 .. j'-1 = {}
      BY <1>4, <3>1
    <3> QED BY <2>2, <3>1, <3>2 DEF NotBefore
  <2>4. strstrNeedle' /\ strstrHaystack' /\ strstrCompare'
    BY <2>1, <2>3 DEF strstrNeedle, strstrHaystack, strstrCompare, Running
  <2>5. Reading'
    BY <1>1, <2>1, <2>4, OnlyStrstr DEF Running
  <2> QED BY <1>2, <2>1, <2>5, GoesOn
<1> QED BY <1>5, <1>6, <1>7

LEMMA strstr_haystackReturns ==
  ASSUME StringsInv, ResultInv, strstr_haystack PROVE ResultInv'
<1> DEFINE L == StrLen(before, call.d)
<1>1. /\ Running("strstr", "haystack")
      /\ IsString(before, call.d) /\ IsString(before, call.s)
      /\ NotBefore /\ mem = before
  BY ReaderMem
     DEF strstr_haystack, ResultInv, ReadOperands, Reading, strstrHaystack,
         Running, Readers
<1>2. /\ MemSize \in Nat /\ mem \in [Addr -> Bytes] /\ j \in Nat
      /\ j \in 0 .. MemSize /\ len \in 0 .. MemSize
  BY Types
<1>3. /\ L \in Nat /\ before[call.d + L] = 0 /\ call.d \in Int
      /\ \A k \in 0 .. L-1 : before[call.d + k] # 0
      /\ j <= L /\ len > 0
  <2>1. j <= L /\ len > 0
    BY <1>1 DEF NotBefore
  <2>2. call.d \in Int
    BY <1>1 DEF IsString, Addr
  <2>3. /\ L \in Nat /\ before[call.d + L] = 0
        /\ \A k \in 0 .. L - 1 : before[call.d + k] # 0
    BY <1>1, StrLenIs
  <2> QED BY <2>1, <2>2, <2>3
<1> HIDE DEF L
<1>4. CASE mem[call.d + j] # 0
  <2>1. /\ stage' = "strncmp" /\ i' = 0 /\ UNCHANGED <<mem, j, len>>
        /\ UNCHANGED <<call, before, result>>
    BY <1>4 DEF strstr_haystack, Step
  <2>2. j < L
    BY <1>1, <1>2, <1>3, <1>4
  <2>3. (NotBefore' <=> NotBefore) /\ StrLen(before, call.d)' = L
    BY <2>1, NotBeforeStays DEF L
  <2>4. i' <= len' /\ Same(call.d + j, call.s, i)'
    BY <1>2, <1>3, <2>1 DEF Same
  <2>5. strstrNeedle' /\ strstrHaystack' /\ strstrCompare'
    BY <1>1, <2>1, <2>2, <2>3, <2>4
       DEF strstrNeedle, strstrHaystack, strstrCompare, Running
  <2>6. Reading'
    BY <1>1, <2>1, <2>5, OnlyStrstr DEF Running
  <2>7. i' \in 0 .. MemSize
    BY <1>2, <2>1
  <2> QED BY <1>2, <2>1, <2>6, <2>7, GoesOn
<1>5. CASE mem[call.d + j] = 0
  <2>1. Return(NULL)
    BY <1>5 DEF strstr_haystack
  <2>2. j = L
    <3>1. j \notin 0 .. L-1
      BY <1>1, <1>3, <1>5
    <3> QED BY <1>2, <1>3, <3>1
  <2>3. Found = {}
    <3> SUFFICES ASSUME NEW a \in Found PROVE FALSE
      OBVIOUS
    <3>1. a \in Int /\ call.d + j <= a /\ a + len <= call.d + L
      BY <1>1, <1>2, FoundFrom DEF L
    <3> QED BY <1>2, <1>3, <2>2, <3>1
  <2>4. First(Found) = NULL
    BY <2>3, FirstNone
  <2>5. Returned'
    BY <1>1, <2>1, <2>4, StrstrReturned DEF Running, Return
  <2> QED BY <1>2, <2>1, <2>5, Returns DEF Return, NULL
<1> QED BY <1>4, <1>5

LEMMA strstr_strncmpReturns ==
  ASSUME StringsInv, ResultInv, strstr_strncmp PROVE ResultInv'
<1> DEFINE L == StrLen(before, call.d)
           d == call.d
           s == call.s
<1>1. /\ Running("strstr", "strncmp")
      /\ IsString(before, d) /\ IsString(before, s)
      /\ NotBefore /\ j < L /\ i <= len /\ Same(d + j, s, i)
      /\ mem = before
  BY ReaderMem
     DEF strstr_strncmp, ResultInv, ReadOperands, Reading, strstrCompare,
         Running, Readers
<1>2. /\ MemSize \in Nat /\ mem \in [Addr -> Bytes]
      /\ i \in Nat /\ j \in Nat /\ len \in Nat
      /\ i \in 0 .. MemSize /\ j \in 0 .. MemSize /\ len \in 0 .. MemSize
  BY Types
<1>3. /\ L \in Nat /\ before[d + L] = 0 /\ d \in Int
      /\ \A k \in 0 .. L-1 : before[d + k] # 0
      /\ len > 0 /\ len = StrLen(before, s)
  <2>1. len > 0 /\ len = StrLen(before, s)
    BY <1>1 DEF NotBefore
  <2>2. d \in Int
    BY <1>1 DEF IsString, Addr
  <2>3. /\ L \in Nat /\ before[d + L] = 0
        /\ \A k \in 0 .. L - 1 : before[d + k] # 0
    BY <1>1, StrLenIs
  <2> QED BY <2>1, <2>2, <2>3
<1>4. \A k \in 0 .. len-1 : before[s + k] # 0
  BY <1>1, <1>3, StrLenIs
<1>5. L <= MemSize - 1
  <2>1. d + L \in Addr /\ d \in Addr
    BY <1>1, StrLenIs DEF IsString
  <2> HIDE DEF L, d
  <2> QED BY <1>2, <1>3, <2>1 DEF Addr
<1> HIDE DEF L, d, s
<1>6. CASE i < len /\ (mem[d + j + i] # mem[s + i] \/ mem[d + j + i] = 0)
  <2>1. /\ stage' = "haystack" /\ j' = j + 1 /\ UNCHANGED <<mem, i, len>>
        /\ UNCHANGED <<call, before, result>>
    BY <1>6 DEF strstr_strncmp, Differ, Step, d, s
  <2>2. i \in 0 .. len-1 /\ before[d + j + i] # before[s + i]
    BY <1>1, <1>2, <1>4, <1>6
  <2>3. ~Same(d + j, s, len)
    BY <2>2 DEF Same
  <2>4. StrLen(before, call.s)' = StrLen(before, call.s)
        /\ StrLen(before, call.d)' = L
    BY <2>1, Zenon DEF StrLen, L
  <2>5. \A k \in 0 .. j'-1 : ~Same(d + k, s, len)
    <3>1. \A k \in 0 .. j-1 : ~Same(d + k, s, len)
      BY <1>1 DEF NotBefore, d, s
    <3>2. \A k \in 0 .. j'-1 : k \in 0 .. j-1 \/ k = j
      BY <1>2, <2>1
    <3> QED BY <2>3, <3>1, <3>2
  <2>6. \A k : Same(d + k, s, len)' <=> Same(d + k', s, len)
    BY <2>1, Zenon DEF Same, d, s
  <2>7. NotBefore'
    <3>1. \A k \in 0 .. j'-1 : ~Same(call.d + k, call.s, len)'
      BY <2>5, <2>6 DEF d, s
    <3>2. j' <= L
      BY <1>1, <1>2, <1>3, <2>1
    <3> QED BY <1>3, <2>1, <2>4, <3>1, <3>2 DEF NotBefore, s
  <2>8. strstrNeedle' /\ strstrHaystack' /\ strstrCompare'
    BY <2>1, <2>7 DEF strstrNeedle, strstrHaystack, strstrCompare, Running
  <2>9. Reading'
    BY <1>1, <2>1, <2>8, OnlyStrstr DEF Running
  <2>10. j' \in 0 .. MemSize
    BY <1>1, <1>2, <1>3, <1>5, <2>1
  <2> QED BY <1>2, <2>1, <2>9, <2>10, GoesOn
<1>7. CASE i < len /\ ~(mem[d + j + i] # mem[s + i] \/ mem[d + j + i] = 0)
  <2>1. Again /\ UNCHANGED mem
    BY <1>7 DEF strstr_strncmp, Differ, d, s
  <2>2. /\ i' = i + 1 /\ j' = j /\ len' = len /\ stage' = stage
        /\ UNCHANGED <<call, before>>
    BY <2>1 DEF Again, Step
  <2>3. Same(call.d + j, call.s, i)'
    BY <1>1, <1>2, <1>7, <2>2 DEF Same, d, s
  <2>4. (NotBefore' <=> NotBefore) /\ StrLen(before, call.d)' = L
    BY <2>2, NotBeforeStays DEF L
  <2>5. i' <= len'
    BY <1>2, <1>7, <2>2
  <2>6. strstrNeedle' /\ strstrHaystack' /\ strstrCompare'
    BY <1>1, <2>2, <2>3, <2>4, <2>5
       DEF strstrNeedle, strstrHaystack, strstrCompare, Running
  <2>7. Reading'
    BY <1>1, <2>2, <2>6, OnlyStrstr DEF Running
  <2>8. i + 1 <= MemSize
    BY <1>2, <1>7
  <2> QED BY <1>1, <2>1, <2>7, <2>8, ReaderGoesOn DEF Running
<1>8. CASE ~(i < len)
  <2>1. Return(d + j)
    BY <1>8 DEF strstr_strncmp, d
  <2>2. i = len
    BY <1>1, <1>2, <1>8
  <2>3. j + len <= L
    <3>1. \A k \in 0 .. len-1 : before[d + j + k] # 0
      BY <1>1, <1>4, <2>2 DEF Same
    <3>2. SUFFICES ASSUME j + len > L PROVE FALSE
      BY <1>2, <1>3
    <3>3. L - j \in 0 .. len-1 /\ d + j + (L - j) = d + L
      BY <1>1, <1>2, <1>3, <3>2
    <3>4. before[d + j + (L - j)] # 0
      BY <3>1, <3>3
    <3> QED BY <1>3, <3>3, <3>4
  <2>4. d + j \in Found
    <3>1. Occurs(d + j, s, d + L)
      <4>1. d + j + len <= d + L
        BY <1>2, <1>3, <2>3
      <4> QED BY <1>1, <1>3, <2>2, <4>1 DEF Occurs, Same
    <3>2. d + j \in d .. d + (L + 1) - 1
      BY <1>1, <1>2, <1>3
    <3> QED BY <3>1, <3>2 DEF Found, StrArea, Area, L, d, s
  <2>5. \A a \in Found : a \in Int /\ d + j <= a
    BY <1>1, <1>2, FoundFrom DEF d
  <2>6. First(Found) = d + j
    BY <2>4, <2>5, FirstIs
  <2>7. Returned'
    BY <1>1, <2>1, <2>6, StrstrReturned DEF Running, Return
  <2>8. d + j \in Int
    BY <1>2, <1>3
  <2> QED BY <1>2, <2>1, <2>7, <2>8, Returns DEF Return
<1> QED BY <1>6, <1>7, <1>8

LEMMA ResultStutters ==
  ASSUME ResultInv, UNCHANGED vars PROVE ResultInv'
<1>1. /\ mem' = mem /\ call' = call /\ stage' = stage /\ i' = i /\ j' = j
      /\ len' = len /\ result' = result /\ before' = before
  BY DEF vars
<1>2. TypeOK'
  BY <1>1 DEF ResultInv, TypeOK
<1>3. (ReadOperands(before, call) /\ call.fn # "none")'
  BY <1>1, Zenon DEF ResultInv
<1>4. /\ NotBefore' <=> NotBefore
      /\ StrLen(before, call.d)' = StrLen(before, call.d)
  BY <1>1, NotBeforeStays
<1>6. Reading'
  BY <1>1, <1>4
     DEF ResultInv, Reading, strlenLoop, memchrLoop, strchrLoop, memcmpLoop,
         strcmpLoop, strncmpLoop, strstrNeedle, strstrHaystack,
         strstrCompare, Running, NoZero, Same
<1>7. Returned => Returned'
  <2>1. StrLen(before, call.s)' = StrLen(before, call.s)
    BY <1>1, Zenon DEF StrLen
  <2>2. {a \in Area(call.d, call.n) : before[a] = call.c % ByteW}'
          = {a \in Area(call.d, call.n) : before[a] = call.c % ByteW}
    BY <1>1, Zenon DEF Area
  <2>3. {a \in StrArea(before, call.s) : before[a] = call.c}'
          = {a \in StrArea(before, call.s) : before[a] = call.c}
    BY <1>1, Zenon DEF StrArea
  <2>4. Found' = Found
    BY <1>1, Zenon DEF Found, Occurs
  <2>5. /\ Compared(call.d, call.s, call.n)'
             = Compared(call.d, call.s, call.n)
        /\ Compared(call.d, call.s, Upto(call.n))'
             = Compared(call.d, call.s, Upto(call.n))
        /\ Compared(call.d, call.s, Upto(MemSize))'
             = Compared(call.d, call.s, Upto(MemSize))
    BY <1>1, ComparedStays
  <2> QED BY <1>1, <2>1, <2>2, <2>3, <2>4, <2>5, Zenon
          DEF Returned, Readers, Found
<1> QED BY <1>1, <1>2, <1>3, <1>6, <1>7 DEF ResultInv

LEMMA ResultStep ==
  ASSUME StringsInv, ResultInv, [Next]_vars PROVE ResultInv'
<1>1. CASE memset \/ memcpy \/ memmove_choose \/ memmove_up \/ memmove_down
  BY <1>1, memsetReturns, memcpyReturns, memmove_chooseReturns,
     memmove_upReturns, memmove_downReturns
<1>2. CASE memcmp \/ memchr \/ strlen \/ strcmp \/ strncmp \/ strchr
  BY <1>2, memcmpReturns, memchrReturns, strlenReturns, strcmpReturns,
     strncmpReturns, strchrReturns
<1>3. CASE strcpy \/ strcat_end \/ strcat \/ strncpy \/ strncpy_pad
  BY <1>3, strcpyReturns, strcat_endReturns, strcatReturns, strncpyReturns,
     strncpy_padReturns
<1>4. CASE strstr_needle \/ strstr_haystack \/ strstr_strncmp
  BY <1>4, strstr_needleReturns, strstr_haystackReturns,
     strstr_strncmpReturns
<1>5. CASE UNCHANGED vars
  BY <1>5, ResultStutters
<1> QED BY <1>1, <1>2, <1>3, <1>4, <1>5 DEF Next

-----------------------------------------------------------------------------
(***************************************************************************)
(* Numbers.                                                                *)
(***************************************************************************)

-----------------------------------------------------------------------------
(* Division and powers.                                                    *)

LEMMA DivIs ==
  ASSUME NEW a \in Nat, NEW b \in Nat \ {0}
  PROVE  /\ a \div b \in Nat /\ a % b \in 0 .. b-1 /\ a % b \in Nat
         /\ a = b * (a \div b) + (a % b)
  BY Z3

LEMMA ProductIs ==
  ASSUME NEW a \in Nat, NEW b \in Nat
  PROVE  a * b \in Nat /\ a * b = b * a /\ a * (b + 1) = a * b + a
         /\ (b > 0 => a <= a * b)
<1>1. a * b \in Nat /\ a * b = b * a /\ a * (b + 1) = a * b + a
  BY Z3
<1>2. ASSUME b > 0 PROVE a <= a * b
  <2>1. b - 1 \in Nat /\ b = (b - 1) + 1
    BY <1>2
  <2>2. a * (b - 1) \in Nat /\ a * ((b - 1) + 1) = a * (b - 1) + a
    BY <2>1, Z3
  <2>3. a * b = a * (b - 1) + a
    BY <2>1, <2>2
  <2> QED BY <2>2, <2>3
<1> QED BY <1>1, <1>2

LEMMA ProductLess ==
  ASSUME NEW a \in Nat, NEW b \in Nat, NEW c \in Nat, b <= c
  PROVE  a * b <= a * c
<1>1. c - b \in Nat /\ a * (c - b) \in Nat
  BY ProductIs
<1>2. a * c = a * b + a * (c - b)
  BY Z3
<1>3. a * b \in Nat /\ a * c \in Nat
  BY ProductIs
<1> QED BY <1>1, <1>2, <1>3

LEMMA DivUnique ==
  ASSUME NEW a \in Nat, NEW b \in Nat \ {0}, NEW q \in Nat, NEW r \in 0 .. b-1,
         a = b * q + r
  PROVE  a \div b = q /\ a % b = r
<1> DEFINE p == a \div b
           s == a % b
<1>1. p \in Nat /\ s \in 0 .. b-1 /\ a = b * p + s
  BY DivIs
<1> HIDE DEF p, s
<1>2. ASSUME NEW m \in Nat, NEW n \in Nat, NEW x \in 0 .. b-1, NEW y \in 0 .. b-1,
             b * m + x = b * n + y, m < n
      PROVE  FALSE
  <2>1. b * (m + 1) <= b * n
    BY <1>2, ProductLess
  <2>2. b * (m + 1) = b * m + b /\ b * m \in Nat /\ b * n \in Nat
    BY ProductIs
  <2> QED BY <1>2, <2>1, <2>2
<1>3. p = q
  <2>1. ~(p < q)
    BY <1>1, <1>2
  <2>2. ~(q < p)
    BY <1>1, <1>2
  <2> QED BY <1>1, <2>1, <2>2
<1>4. s = r
  <2>1. b * q \in Nat
    BY ProductIs
  <2> QED BY <1>1, <1>3, <2>1
<1> QED BY <1>3, <1>4 DEF p, s

LEMMA DivDiv ==
  ASSUME NEW v \in Nat, NEW p \in Nat \ {0}, NEW b \in Nat \ {0}
  PROVE  b * p \in Nat \ {0} /\ (v \div p) \div b = v \div (b * p)
<1> DEFINE q == v \div p
           r == v % p
           s == q \div b
           t == q % b
<1>1. q \in Nat /\ r \in 0 .. p-1 /\ v = p * q + r
  BY DivIs
<1>2. s \in Nat /\ t \in 0 .. b-1 /\ q = b * s + t
  <2> HIDE DEF q
  <2> QED BY <1>1, DivIs
<1>3. b * p \in Nat \ {0}
  BY ProductIs
<1> HIDE DEF q, r, s, t
<1>4. p * t \in Nat /\ p * t + p <= b * p
  <2>1. p * (t + 1) <= p * b
    BY <1>2, ProductLess
  <2>2. p * (t + 1) = p * t + p /\ p * t \in Nat /\ p * b = b * p
    BY <1>2, ProductIs
  <2> QED BY <2>1, <2>2
<1>5. v = (b * p) * s + (p * t + r)
  <2>1. p * (b * s + t) = (b * p) * s + p * t
    BY <1>2, Z3
  <2>2. p * q = (b * p) * s + p * t
    BY <1>2, <2>1
  <2>3. (b * p) * s \in Nat
    BY <1>2, <1>3, ProductIs
  <2> QED BY <1>1, <1>4, <2>2, <2>3
<1>6. p * t + r \in 0 .. b * p - 1
  BY <1>1, <1>3, <1>4
<1>7. v \div (b * p) = s
  BY <1>2, <1>3, <1>5, <1>6, DivUnique
<1> QED BY <1>3, <1>7 DEF q, s

(* Power's recursion.                                                      *)
Powers(f, base, n) == f = [k \in 0 .. n |-> IF k = 0 THEN 1 ELSE base * f[k-1]]

LEMMA PowersIs ==
  ASSUME NEW base \in Nat \ {0}, NEW n \in Nat
  PROVE  \E f \in [0 .. n -> Nat \ {0}] :
           /\ f[0] = 1 /\ \A k \in 1 .. n : f[k] = base * f[k-1]
           /\ Power(base, n) = f[n]
<1> DEFINE S == Nat \ {0}
           step == [k \in 1 .. n |-> [x \in S |-> base * x]]
           f == CHOOSE f : Powers(f, base, n)
<1>1. step \in [1 .. n -> [S -> S]]
  <2>1. \A x \in S : base * x \in S
    BY ProductIs
  <2> HIDE DEF S
  <2> QED BY <2>1
<1>2. 1 \in S
  OBVIOUS
<1> HIDE DEF S
<1>3. PICK g \in [0 .. n -> S] : Iterates(g, n, 1, step)
  <2> HIDE DEF step
  <2> QED BY <1>1, <1>2, Recursion
<1>4. \A k \in 0 .. n : g[k] = IF k = 0 THEN 1 ELSE base * g[k-1]
  <2>1. \A k \in 0 .. n : g[k] = IF k = 0 THEN 1 ELSE step[k][g[k-1]]
    <3> HIDE DEF step
    <3> QED BY <1>3 DEF Iterates
  <2>2. \A k \in 0 .. n : k # 0 => k \in 1 .. n /\ k - 1 \in 0 .. n
    OBVIOUS
  <2>3. \A k \in 0 .. n : k # 0 => step[k][g[k-1]] = base * g[k-1]
    BY <1>3, <2>2
  <2> QED BY <2>1, <2>3
<1>5. g = [k \in 0 .. n |-> IF k = 0 THEN 1 ELSE base * g[k-1]]
  BY <1>3, <1>4
<1>6. Powers(f, base, n)
  BY <1>5 DEF Powers
<1>7. Power(base, n) = f[n]
  BY DEF Power, Powers
<1> HIDE DEF f
<1>8. /\ f = [k \in 0 .. n |-> f[k]]
      /\ \A k \in 0 .. n : f[k] = IF k = 0 THEN 1 ELSE base * f[k-1]
  BY <1>6 DEF Powers
<1>9. f[0] = 1 /\ \A k \in 1 .. n : f[k] = base * f[k-1]
  <2>1. 0 \in 0 .. n /\ \A k \in 1 .. n : k \in 0 .. n /\ k # 0
    OBVIOUS
  <2> QED BY <1>8, <2>1
<1>10. \A k \in 0 .. n : f[k] \in S
  <2>1. ASSUME NEW k \in 1 .. n, f[k-1] \in S PROVE f[k] \in S
    BY <1>9, <2>1, ProductIs DEF S
  <2> QED BY <1>2, <1>9, <2>1, AllAlong
<1>11. f \in [0 .. n -> S]
  BY <1>8, <1>10
<1> QED BY <1>7, <1>9, <1>11 DEF S

LEMMA PowerIs ==
  ASSUME NEW base \in Nat \ {0}, NEW n \in Nat
  PROVE  /\ Power(base, n) \in Nat \ {0}
         /\ Power(base, 0) = 1
         /\ Power(base, n + 1) = base * Power(base, n)
<1>1. PICK f \in [0 .. n+1 -> Nat \ {0}] :
        /\ f[0] = 1 /\ \A k \in 1 .. n+1 : f[k] = base * f[k-1]
        /\ Power(base, n + 1) = f[n + 1]
  <2>1. n + 1 \in Nat
    OBVIOUS
  <2> QED BY <2>1, PowersIs
<1>2. PICK g \in [0 .. n -> Nat \ {0}] :
        /\ g[0] = 1 /\ \A k \in 1 .. n : g[k] = base * g[k-1]
        /\ Power(base, n) = g[n]
  BY PowersIs
<1> DEFINE T == {k \in 0 .. n : f[k] = g[k]}
<1>3. 0 .. n \subseteq T
  <2>1. 0 \in T
    BY <1>1, <1>2
  <2>2. ASSUME NEW k \in 0 .. n-1, k \in T PROVE k + 1 \in T
    <3>1. k + 1 \in 1 .. n /\ k + 1 \in 1 .. n+1 /\ (k + 1) - 1 = k /\ k + 1 \in 0 .. n
      OBVIOUS
    <3>2. f[k + 1] = base * f[k] /\ g[k + 1] = base * g[k]
      BY <1>1, <1>2, <3>1
    <3> QED BY <2>2, <3>1, <3>2
  <2> HIDE DEF T
  <2> QED BY <2>1, <2>2, SetInduction
<1>4. f[n] = g[n] /\ g[n] \in Nat \ {0}
  BY <1>2, <1>3
<1>5. f[n + 1] = base * f[n]
  <2>1. n + 1 \in 1 .. n+1 /\ (n + 1) - 1 = n
    OBVIOUS
  <2> QED BY <1>1, <2>1
<1>6. Power(base, 0) = 1
  <2>1. PICK h \in [0 .. 0 -> Nat \ {0}] : h[0] = 1 /\ Power(base, 0) = h[0]
    BY PowersIs
  <2> QED BY <2>1
<1> QED BY <1>1, <1>2, <1>4, <1>5, <1>6

LEMMA PowerGrows ==
  ASSUME NEW base \in Nat, base > 1, NEW m \in Nat, NEW n \in Nat, m <= n
  PROVE  Power(base, m) <= Power(base, n)
<1> DEFINE f == [k \in 0 .. n - m |-> Power(base, m + k)]
           T == {k \in 0 .. n - m : Power(base, m) <= Power(base, m + k)}
<1>1. \A k \in Nat : Power(base, k) \in Nat /\ Power(base, k + 1) = base * Power(base, k)
  BY PowerIs
<1>2. 0 \in T
  BY <1>1
<1>3. ASSUME NEW k \in 0 .. n-m-1, k \in T PROVE k + 1 \in T
  <2>1. Power(base, m + k) <= Power(base, m + k) * base
    BY <1>1, ProductIs
  <2>2. Power(base, (m + k) + 1) = base * Power(base, m + k)
    BY <1>1
  <2>3. m + (k + 1) = (m + k) + 1 /\ k + 1 \in 0 .. n-m
    OBVIOUS
  <2>4. Power(base, m + k) * base = base * Power(base, m + k)
    BY <1>1, ProductIs
  <2> QED BY <1>1, <1>3, <2>1, <2>2, <2>3, <2>4
<1>4. 0 .. n-m \subseteq T
  <2> HIDE DEF T
  <2> QED BY <1>2, <1>3, SetInduction
<1>5. n - m \in 0 .. n-m /\ m + (n - m) = n
  OBVIOUS
<1> QED BY <1>4, <1>5

LEMMA PowerAbove ==
  ASSUME NEW base \in Nat, base > 1, NEW n \in Nat
  PROVE  Power(base, n) > n
<1> DEFINE T == {k \in 0 .. n : Power(base, k) > k}
<1>1. \A k \in Nat : Power(base, k) \in Nat /\ Power(base, k + 1) = base * Power(base, k)
  BY PowerIs
<1>2. 0 \in T
  BY PowerIs
<1>3. ASSUME NEW k \in 0 .. n-1, k \in T PROVE k + 1 \in T
  <2> DEFINE p == Power(base, k)
  <2>1. p \in Nat /\ p > k /\ k \in Nat
    BY <1>1, <1>3
  <2>2. Power(base, k + 1) = base * p
    BY <1>1
  <2> HIDE DEF p
  <2>3. p * 2 <= p * base /\ p * base = base * p
    BY <2>1, ProductLess, ProductIs
  <2> QED BY <2>1, <2>2, <2>3
<1>4. 0 .. n \subseteq T
  <2> HIDE DEF T
  <2> QED BY <1>2, <1>3, SetInduction
<1> QED BY <1>4

(* A number has one length in a base.                                      *)
HasLen(v, base, n) == Power(base, n-1) <= v /\ v < Power(base, n)
LenOf(v, base, n) == IF v = 0 THEN n = 1 ELSE HasLen(v, base, n)

LEMMA LenExists ==
  ASSUME NEW base \in Nat, base > 1, NEW v \in Nat \ {0}
  PROVE  \E n \in 1 .. v : HasLen(v, base, n)
<1> DEFINE S == {n \in 0 .. v : v < Power(base, n)}
<1>1. \A k \in Nat : Power(base, k) \in Nat
  BY PowerIs
<1>2. v \in S
  BY PowerAbove
<1>3. PICK n \in S : \A m \in S : n <= m
  <2>1. S \in SUBSET (0 .. v) /\ S # {}
    BY <1>2
  <2> QED BY <2>1, LeastElement
<1>4. n # 0
  <2>1. Power(base, 0) = 1
    BY PowerIs
  <2> QED BY <1>3, <2>1
<1>5. n \in 1 .. v /\ n - 1 \in 0 .. v /\ n - 1 < n
  BY <1>4
<1>6. ~(v < Power(base, n-1))
  BY <1>3, <1>5
<1>7. Power(base, n-1) <= v
  BY <1>1, <1>5, <1>6
<1> QED BY <1>5, <1>7 DEF HasLen

LEMMA LenUnique ==
  ASSUME NEW base \in Nat, base > 1, NEW v \in Nat,
         NEW m \in Nat \ {0}, HasLen(v, base, m),
         NEW n \in Nat \ {0}, HasLen(v, base, n)
  PROVE  m = n
<1>0. base \in Nat \ {0}
  OBVIOUS
<1>1. \A k \in Nat : Power(base, k) \in Nat
  BY <1>0, PowerIs
<1>2. ASSUME NEW k \in Nat \ {0}, HasLen(v, base, k),
             NEW l \in Nat \ {0}, HasLen(v, base, l), k < l
      PROVE  FALSE
  <2>1. k \in Nat /\ l - 1 \in Nat /\ k <= l - 1
    BY <1>2
  <2>2. Power(base, k) <= Power(base, l - 1)
    BY <2>1, PowerGrows
  <2> QED BY <1>1, <1>2, <2>1, <2>2 DEF HasLen
<1> QED BY <1>2

(* The digits of a base, in C.                                             *)
IsTable(base, table, C) ==
  base \in Nat /\ base > 1 /\ \A d \in 1 .. base : table[d] \in C

Digit(v, base, table, k) == table[((v \div Power(base, k)) % base) + 1]

LEMMA DigitIs ==
  ASSUME NEW base, NEW table, NEW C, IsTable(base, table, C), NEW v \in Nat, NEW k \in Nat
  PROVE  Digit(v, base, table, k) \in C
<1>0. base \in Nat \ {0} /\ \A d \in 1 .. base : table[d] \in C
  BY DEF IsTable
<1>1. Power(base, k) \in Nat \ {0}
  BY <1>0, PowerIs
<1> DEFINE q == v \div Power(base, k)
<1>2. q \in Nat
  BY <1>1, DivIs
<1> HIDE DEF q
<1>3. (q % base) + 1 \in 1 .. base
  BY <1>0, <1>2, DivIs
<1> QED BY <1>0, <1>3 DEF Digit, q

(* s has the n digits of v.                                                *)
Spells(s, v, base, table, C, n) ==
  s \in Seq(C) /\ Len(s) = n /\ \A k \in 1 .. n : s[k] = Digit(v, base, table, n - k)

LEMMA NumeralOf ==
  ASSUME NEW base, NEW table, NEW C, IsTable(base, table, C), NEW v \in Nat,
         NEW n \in Nat \ {0}, LenOf(v, base, n)
  PROVE  Spells(Numeral(v, base, table), v, base, table, C, n)
<1>0. base \in Nat \ {0} /\ base > 1 /\ \A d \in 1 .. base : table[d] \in C
  BY DEF IsTable
<1> USE <1>0
<1> DEFINE m == IF v = 0 THEN 1
                ELSE CHOOSE m \in 1 .. v :
                       Power(base, m-1) <= v /\ v < Power(base, m)
           f == [k \in 1 .. n |-> Digit(v, base, table, n - k)]
<1>1. m = n
  <2>1. CASE v = 0
    BY <2>1 DEF LenOf
  <2>2. CASE v # 0
    <3>1. m = CHOOSE m_1 \in 1 .. v : HasLen(v, base, m_1)
      BY <2>2 DEF HasLen
    <3>2. m \in 1 .. v /\ HasLen(v, base, m)
      <4>1. \E m_1 \in 1 .. v : HasLen(v, base, m_1)
        BY <2>2, LenExists
      <4> HIDE DEF m
      <4> QED BY <3>1, <4>1
    <3> HIDE DEF m
    <3> QED BY <2>2, <3>2, LenUnique DEF LenOf
  <2> QED BY <2>1, <2>2
<1>2. Numeral(v, base, table) = f
  <2>1. Numeral(v, base, table) = [k \in 1 .. m |-> Digit(v, base, table, m - k)]
    BY DEF Numeral, Digit
  <2> HIDE DEF m
  <2> QED BY <1>1, <2>1
<1>3. f \in [1 .. n -> C]
  <2>1. \A k \in 1 .. n : n - k \in Nat
    OBVIOUS
  <2>2. \A k \in 1 .. n : Digit(v, base, table, n - k) \in C
    BY <2>1, DigitIs
  <2> QED BY <2>2
<1>4. f \in Seq(C) /\ Len(f) = n
  <2> HIDE DEF f
  <2> QED BY <1>3, FunctionIsSeq
<1>5. \A k \in 1 .. n : f[k] = Digit(v, base, table, n - k)
  OBVIOUS
<1> HIDE DEF f
<1> QED BY <1>2, <1>4, <1>5 DEF Spells

LEMMA NumeralIs ==
  ASSUME NEW base, NEW table, NEW C, IsTable(base, table, C), NEW v \in Nat
  PROVE  \E n \in Nat \ {0} :
           LenOf(v, base, n) /\ Spells(Numeral(v, base, table), v, base, table, C, n)
<1>0. base \in Nat \ {0} /\ base > 1 /\ \A d \in 1 .. base : table[d] \in C
  BY DEF IsTable
<1> USE <1>0
<1>1. PICK n \in Nat \ {0} : LenOf(v, base, n)
  <2>1. CASE v = 0
    BY <2>1 DEF LenOf
  <2>2. CASE v # 0
    <3>1. PICK n \in 1 .. v : HasLen(v, base, n)
      BY <2>2, LenExists
    <3> QED BY <2>2, <3>1 DEF LenOf
  <2> QED BY <2>1, <2>2
<1> QED BY <1>1, NumeralOf

(* Without its last digit a numeral is that of the quotient.               *)
LEMMA NumeralStep ==
  ASSUME NEW base, NEW table, NEW C, IsTable(base, table, C), NEW v \in Nat
  PROVE  Numeral(v, base, table) =
           IF v < base THEN <<table[v + 1]>>
           ELSE Append(Numeral(v \div base, base, table), table[(v % base) + 1])
<1>0. base \in Nat \ {0} /\ base > 1 /\ \A d \in 1 .. base : table[d] \in C
  BY DEF IsTable
<1> USE <1>0
<1>1. \A k \in Nat : Power(base, k) \in Nat \ {0} /\ Power(base, k + 1) = base * Power(base, k)
  BY PowerIs
<1>2. Power(base, 0) = 1 /\ Power(base, 1) = base
  <2>1. Power(base, 0) = 1 /\ Power(base, 0 + 1) = base * Power(base, 0)
    BY PowerIs
  <2> QED BY <2>1
<1>3. /\ v \div base \in Nat /\ v % base \in 0 .. base-1
      /\ v = base * (v \div base) + (v % base)
  <2>1. base \in Nat \ {0}
    OBVIOUS
  <2> QED BY <2>1, DivIs
<1>4. Digit(v, base, table, 0) = table[(v % base) + 1]
  <2>1. v \div 1 = v
    OBVIOUS
  <2> QED BY <1>2, <2>1 DEF Digit
<1>5. CASE v < base
  <2>1. LenOf(v, base, 1)
    BY <1>2, <1>5 DEF HasLen, LenOf
  <2>2. /\ Numeral(v, base, table) \in Seq(C) /\ Len(Numeral(v, base, table)) = 1
        /\ \A k \in 1 .. 1 : Numeral(v, base, table)[k] = Digit(v, base, table, 1 - k)
    <3>1. 1 \in Nat \ {0}
      OBVIOUS
    <3>2. Spells(Numeral(v, base, table), v, base, table, C, 1)
      BY <2>1, <3>1, NumeralOf, Zenon
    <3> QED BY <3>2 DEF Spells
  <2>3. Numeral(v, base, table)[1] = Digit(v, base, table, 0)
    <3>1. 1 \in 1 .. 1 /\ 1 - 1 = 0
      OBVIOUS
    <3> QED BY <2>2, <3>1
  <2>4. v % base = v
    <3>1. base * 0 = 0 /\ v = base * 0 + v /\ v \in 0 .. base-1
      BY <1>5
    <3> QED BY <3>1, DivUnique
  <2>5. Numeral(v, base, table) = <<table[v + 1]>>
    BY <1>4, <2>2, <2>3, <2>4
  <2> QED BY <1>5, <2>5
<1>6. CASE base <= v
  <2> DEFINE q == v \div base
  <2>1. q \in Nat \ {0}
    <3>1. q # 0
      BY <1>3, <1>6
    <3> QED BY <1>3, <3>1
  <2>2. PICK n \in Nat \ {0} :
          /\ HasLen(q, base, n)
          /\ Numeral(q, base, table) \in Seq(C)
          /\ Len(Numeral(q, base, table)) = n
          /\ \A k \in 1 .. n :
               Numeral(q, base, table)[k] = Digit(q, base, table, n - k)
    <3> HIDE DEF q
    <3>1. q \in Nat /\ q # 0
      BY <2>1
    <3>2. PICK n \in Nat \ {0} :
            LenOf(q, base, n) /\ Spells(Numeral(q, base, table), q, base, table, C, n)
      BY <3>1, NumeralIs, Zenon
    <3> QED BY <3>1, <3>2 DEF LenOf, Spells
  <2>3. HasLen(v, base, n + 1)
    <3> DEFINE lo == Power(base, n - 1)
               hi == Power(base, n)
               r == v % base
    <3>1. lo \in Nat /\ hi \in Nat /\ hi = base * lo /\ Power(base, n + 1) = base * hi
      <4>1. n - 1 \in Nat /\ (n - 1) + 1 = n /\ n \in Nat
        OBVIOUS
      <4> QED BY <1>1, <4>1
    <3>2. lo <= q /\ q < hi
      BY <2>2 DEF HasLen
    <3>3. v = base * q + r /\ r \in 0 .. base-1
      BY <1>3
    <3> HIDE DEF lo, hi, q, r
    <3>4. base * lo <= base * q /\ base * (q + 1) <= base * hi
      BY <2>1, <3>1, <3>2, ProductLess
    <3>5. base * (q + 1) = base * q + base /\ base * q \in Nat /\ base * hi \in Nat
      BY <2>1, <3>1, ProductIs
    <3>6. hi <= v /\ v < base * hi
      BY <3>1, <3>3, <3>4, <3>5
    <3>7. (n + 1) - 1 = n
      OBVIOUS
    <3> QED BY <3>1, <3>6, <3>7 DEF HasLen, hi
  <2>4. /\ Numeral(v, base, table) \in Seq(C)
        /\ Len(Numeral(v, base, table)) = n + 1
        /\ \A k \in 1 .. n + 1 :
             Numeral(v, base, table)[k] = Digit(v, base, table, n + 1 - k)
    <3>1. n + 1 \in Nat \ {0} /\ LenOf(v, base, n + 1)
      BY <1>6, <2>3 DEF LenOf
    <3>2. Spells(Numeral(v, base, table), v, base, table, C, n + 1)
      BY <3>1, NumeralOf, Zenon
    <3> QED BY <3>2 DEF Spells
  <2>5. ASSUME NEW k \in 1 .. n
        PROVE  Digit(v, base, table, n + 1 - k) = Digit(q, base, table, n - k)
    <3>1. n - k \in Nat /\ n + 1 - k = (n - k) + 1
      OBVIOUS
    <3> DEFINE p == Power(base, n - k)
    <3>2. p \in Nat \ {0} /\ Power(base, n + 1 - k) = base * p
      BY <1>1, <3>1
    <3> HIDE DEF p
    <3>3. (v \div base) \div p = v \div (p * base)
      BY <3>2, DivDiv
    <3>4. p * base = base * p
      BY <3>2, ProductIs
    <3> QED BY <3>2, <3>3, <3>4 DEF Digit, p
  <2> DEFINE a == Numeral(q, base, table)
             e == table[(v % base) + 1]
             w == Numeral(v, base, table)
  <2>6. e \in C
    BY <1>3
  <2>7. w[n + 1] = e
    <3>1. n + 1 \in 1 .. n+1 /\ n + 1 - (n + 1) = 0
      OBVIOUS
    <3> QED BY <1>4, <2>4, <3>1
  <2>8. \A k \in 1 .. n : w[k] = a[k]
    <3>1. \A k \in 1 .. n : k \in 1 .. n+1
      OBVIOUS
    <3> QED BY <2>2, <2>4, <2>5, <3>1
  <2>9. a \in Seq(C) /\ Len(a) = n /\ w \in Seq(C) /\ Len(w) = n + 1
    BY <2>2, <2>4
  <2> HIDE DEF a, e, w
  <2>10. /\ Append(a, e) \in Seq(C) /\ Len(Append(a, e)) = Len(a) + 1
         /\ \A k \in 1 .. Len(a) : Append(a, e)[k] = a[k]
         /\ Append(a, e)[Len(a) + 1] = e
    BY <2>6, <2>9, AppendIs
  <2>11. \A k \in 1 .. n + 1 : w[k] = Append(a, e)[k]
    <3>1. \A k \in 1 .. n + 1 : k \in 1 .. n \/ k = n + 1
      OBVIOUS
    <3> QED BY <2>7, <2>8, <2>9, <2>10, <3>1
  <2>12. w = Append(a, e)
    BY <2>9, <2>10, <2>11, SameSeq
  <2>13. ~(v < base)
    BY <1>6
  <2> QED BY <2>12, <2>13 DEF a, e, w
<1> QED BY <1>5, <1>6

-----------------------------------------------------------------------------
(* The loop that takes the digits off the low end.                         *)

LEMMA ReverseIs ==
  ASSUME NEW C, NEW s \in Seq(C)
  PROVE  /\ SE!Reverse(s) \in Seq(C) /\ Len(SE!Reverse(s)) = Len(s)
         /\ \A k \in 1 .. Len(s) : SE!Reverse(s)[k] = s[Len(s) - k + 1]
<1> DEFINE f == [k \in 1 .. Len(s) |-> s[(Len(s) - k) + 1]]
<1>1. Len(s) \in Nat
  OBVIOUS
<1>2. f \in [1 .. Len(s) -> C]
  OBVIOUS
<1>3. \A k \in 1 .. Len(s) : f[k] = s[Len(s) - k + 1]
  OBVIOUS
<1>4. SE!Reverse(s) = f
  BY DEF SE!Reverse
<1> HIDE DEF f
<1>5. f \in Seq(C) /\ Len(f) = Len(s)
  BY <1>1, <1>2, FunctionIsSeq
<1> QED BY <1>3, <1>4, <1>5

LEMMA ReverseTwice ==
  ASSUME NEW C, NEW s \in Seq(C)
  PROVE  SE!Reverse(SE!Reverse(s)) = s
<1> DEFINE r == SE!Reverse(s)
           t == SE!Reverse(r)
<1>1. /\ r \in Seq(C) /\ Len(r) = Len(s)
      /\ \A k \in 1 .. Len(s) : r[k] = s[Len(s) - k + 1]
  BY ReverseIs
<1> HIDE DEF r
<1>2. /\ t \in Seq(C) /\ Len(t) = Len(r)
      /\ \A k \in 1 .. Len(r) : t[k] = r[Len(r) - k + 1]
  BY <1>1, ReverseIs
<1> HIDE DEF t
<1>3. \A k \in 1 .. Len(t) : t[k] = s[k]
  <2>1. Len(s) \in Nat
    OBVIOUS
  <2>2. \A k \in 1 .. Len(s) : Len(s) - k + 1 \in 1 .. Len(s)
                            /\ Len(s) - (Len(s) - k + 1) + 1 = k
    BY <2>1
  <2> QED BY <1>1, <1>2, <2>2
<1>4. t = s
  BY <1>1, <1>2, <1>3, SameSeq
<1> QED BY <1>4 DEF t, r

LEMMA OneIs ==
  ASSUME NEW C, NEW e \in C
  PROVE  <<e>> \in Seq(C) /\ Len(<<e>>) = 1 /\ <<e>>[1] = e
  OBVIOUS

(* What is put at the end comes first.                                     *)
LEMMA ReverseAppend ==
  ASSUME NEW C, NEW s \in Seq(C), NEW e \in C
  PROVE  SE!Reverse(Append(s, e)) = <<e>> \o SE!Reverse(s)
<1> DEFINE a == Append(s, e)
           r == SE!Reverse(s)
           t == SE!Reverse(a)
           u == <<e>> \o r
           n == Len(s)
<1>0. n \in Nat
  OBVIOUS
<1>1. /\ a \in Seq(C) /\ Len(a) = n + 1
      /\ \A k \in 1 .. n : a[k] = s[k]
      /\ a[n + 1] = e
  BY AppendIs
<1>2. /\ r \in Seq(C) /\ Len(r) = n
      /\ \A k \in 1 .. n : r[k] = s[n - k + 1]
  BY ReverseIs
<1>3. <<e>> \in Seq(C) /\ Len(<<e>>) = 1 /\ <<e>>[1] = e
  BY OneIs
<1> HIDE DEF a, r
<1>4. /\ t \in Seq(C) /\ Len(t) = Len(a)
      /\ \A k \in 1 .. Len(a) : t[k] = a[Len(a) - k + 1]
  BY <1>1, ReverseIs
<1>5. /\ u \in Seq(C) /\ Len(u) = 1 + Len(r)
      /\ \A k \in 1 .. 1 : u[k] = <<e>>[k]
      /\ \A k \in 1 .. Len(r) : u[1 + k] = r[k]
  <2>1. /\ u \in Seq(C) /\ Len(u) = Len(<<e>>) + Len(r)
        /\ \A k \in 1 .. Len(<<e>>) : u[k] = <<e>>[k]
        /\ \A k \in 1 .. Len(r) : u[Len(<<e>>) + k] = r[k]
    BY <1>2, <1>3, ConcatIs
  <2> QED BY <1>3, <2>1
<1> HIDE DEF t, u, n
<1>6. ASSUME NEW k \in 1 .. n + 1 PROVE t[k] = u[k]
  <2>1. CASE k = 1
    <3>1. t[1] = e
      BY <1>0, <1>1, <1>4
    <3> QED BY <1>3, <1>5, <2>1, <3>1
  <2>2. CASE k # 1
    <3> DEFINE l == k - 1
    <3>1. l \in 1 .. n /\ 1 + l = k /\ n - l + 1 \in 1 .. n /\ n - l + 1 = (n + 1) - k + 1
      BY <1>0, <2>2
    <3> HIDE DEF l
    <3>2. u[k] = s[n - l + 1]
      BY <1>2, <1>5, <3>1
    <3>3. t[k] = s[n - l + 1]
      BY <1>1, <1>4, <3>1
    <3> QED BY <3>2, <3>3
  <2> QED BY <2>1, <2>2
<1>7. t = u
  <2>1. Len(t) = n + 1 /\ Len(u) = n + 1
    BY <1>0, <1>1, <1>2, <1>4, <1>5
  <2>2. \A k \in 1 .. Len(t) : t[k] = u[k]
    BY <1>6, <2>1
  <2> QED BY <1>4, <1>5, <2>1, <2>2, SameSeq
<1> QED BY <1>7 DEF t, u, a, r

LEMMA ReverseOne ==
  ASSUME NEW C, NEW e \in C
  PROVE  SE!Reverse(<<e>>) = <<e>>
<1>1. <<e>> \in Seq(C) /\ Len(<<e>>) = 1 /\ <<e>>[1] = e
  BY OneIs
<1> DEFINE r == SE!Reverse(<<e>>)
<1>2. /\ r \in Seq(C) /\ Len(r) = Len(<<e>>)
      /\ \A k \in 1 .. Len(<<e>>) : r[k] = <<e>>[Len(<<e>>) - k + 1]
  BY <1>1, ReverseIs
<1> HIDE DEF r
<1>3. \A k \in 1 .. Len(r) : r[k] = <<e>>[k]
  BY <1>1, <1>2
<1>4. r = <<e>>
  BY <1>1, <1>2, <1>3, SameSeq
<1> QED BY <1>4 DEF r

(* LowFirst's recursion.                                                   *)
Lows(f, base, table) ==
  f = [k \in Nat |-> IF k = 0 THEN <<>> ELSE <<table[(k % base) + 1]>> \o f[k \div base]]

LEMMA LowFirstIs ==
  ASSUME NEW base, NEW table, NEW C, IsTable(base, table, C), NEW v \in Nat
  PROVE  LowFirst(v, base, table) =
           IF v = 0 THEN <<>> ELSE SE!Reverse(Numeral(v, base, table))
<1> DEFINE num(k) == Numeral(k, base, table)
           g == [k \in Nat |-> IF k = 0 THEN <<>> ELSE SE!Reverse(num(k))]
           f == CHOOSE f : Lows(f, base, table)
<1>0. base \in Nat \ {0} /\ base > 1 /\ \A d \in 1 .. base : table[d] \in C
  BY DEF IsTable
<1>1. \A k \in Nat : num(k) \in Seq(C)
  <2>1. ASSUME NEW k \in Nat PROVE num(k) \in Seq(C)
    <3>1. PICK n \in Nat \ {0} : Spells(num(k), k, base, table, C, n)
      BY NumeralIs, Zenon
    <3> QED BY <3>1 DEF Spells
  <2> QED BY <2>1
<1>2. ASSUME NEW k \in Nat \ {0}
      PROVE  g[k] = <<table[(k % base) + 1]>> \o g[k \div base]
  <2> DEFINE q == k \div base
             e == table[(k % base) + 1]
  <2>1. q \in Nat /\ k % base \in 0 .. base-1 /\ k = base * q + (k % base)
    BY <1>0, DivIs
  <2>2. e \in C
    BY <1>0, <2>1
  <2>3. num(k) = IF k < base THEN <<table[k + 1]>> ELSE Append(num(q), e)
    BY NumeralStep, Zenon
  <2>4. CASE k < base
    <3>1. k % base = k /\ q = 0
      <4>1. base * 0 = 0 /\ k = base * 0 + k /\ k \in 0 .. base-1
        BY <1>0, <2>4
      <4> QED BY <1>0, <4>1, DivUnique
    <3> HIDE DEF q
    <3>2. num(k) = <<e>>
      BY <2>3, <2>4, <3>1
    <3>3. SE!Reverse(<<e>>) = <<e>>
      BY <2>2, ReverseOne
    <3>4. <<e>> \o <<>> = <<e>>
      <4> HIDE DEF e
      <4>1. <<e>> \in Seq(C)
        BY <2>2
      <4> QED BY <4>1, ConcatEmptySeq
    <3>5. g[k] = SE!Reverse(num(k)) /\ g[0] = <<>>
      OBVIOUS
    <3> HIDE DEF g, num, e
    <3>6. g[k] = <<e>> \o g[q]
      BY <3>1, <3>2, <3>3, <3>4, <3>5
    <3> QED BY <3>6 DEF e, q
  <2>5. CASE ~(k < base)
    <3>1. q # 0
      <4> HIDE DEF q
      <4> QED BY <1>0, <2>1, <2>5
    <3>2. num(k) = Append(num(q), e)
      BY <2>3, <2>5
    <3>3. SE!Reverse(Append(num(q), e)) = <<e>> \o SE!Reverse(num(q))
      <4>1. num(q) \in Seq(C)
        BY <1>1, <2>1
      <4> HIDE DEF num, e, q
      <4> QED BY <2>2, <4>1, ReverseAppend
    <3>4. g[k] = SE!Reverse(num(k))
      OBVIOUS
    <3>5. g[q] = SE!Reverse(num(q))
      <4> HIDE DEF q
      <4> QED BY <2>1, <3>1
    <3> HIDE DEF g, num, e
    <3> QED BY <3>2, <3>3, <3>4, <3>5 DEF e
  <2> QED BY <2>4, <2>5
<1>3. Lows(g, base, table)
  <2>1. g[0] = <<>>
    OBVIOUS
  <2>2. g = [k \in Nat |-> g[k]]
    OBVIOUS
  <2>3. \A k \in Nat :
          g[k] = IF k = 0 THEN <<>> ELSE <<table[(k % base) + 1]>> \o g[k \div base]
    <3> HIDE DEF g
    <3> QED BY <1>2, <2>1
  <2> HIDE DEF g
  <2> QED BY <2>2, <2>3 DEF Lows
<1>4. Lows(f, base, table)
  <2> HIDE DEF g
  <2> QED BY <1>3
<1>5. LowFirst(v, base, table) = f[v]
  BY DEF LowFirst, Lows
<1> HIDE DEF f
<1>6. \A k \in Nat :
        f[k] = IF k = 0 THEN <<>> ELSE <<table[(k % base) + 1]>> \o f[k \div base]
  BY <1>4 DEF Lows
<1>7. f[0] = g[0]
  BY <1>6
<1> DEFINE T == {n \in 0 .. v : \A k \in 0 .. n : f[k] = g[k]}
<1>8. 0 \in T
  <2> HIDE DEF g
  <2>1. \A k \in 0 .. 0 : k = 0
    OBVIOUS
  <2> QED BY <1>7, <2>1
<1>9. ASSUME NEW n \in 0 .. v-1, n \in T PROVE n + 1 \in T
  <2> HIDE DEF g
  <2> DEFINE m == n + 1
             q == m \div base
  <2>1. m \in Nat \ {0} /\ m \in 0 .. v
    OBVIOUS
  <2>2. q \in 0 .. n
    <3>1. q \in Nat /\ m % base \in 0 .. base-1 /\ m = base * q + (m % base)
      BY <1>0, <2>1, DivIs
    <3> HIDE DEF q
    <3>2. q * 2 <= q * base /\ q * base = base * q
      BY <1>0, <3>1, ProductLess, ProductIs
    <3> QED BY <1>0, <2>1, <3>1, <3>2
  <2>3. f[q] = g[q]
    BY <1>9, <2>2
  <2>4. f[m] = <<table[(m % base) + 1]>> \o f[m \div base]
    BY <1>6, <2>1
  <2>5. g[m] = <<table[(m % base) + 1]>> \o g[m \div base]
    BY <1>2, <2>1
  <2>6. f[m] = g[m]
    BY <2>3, <2>4, <2>5
  <2>7. \A k \in 0 .. m : k \in 0 .. n \/ k = m
    OBVIOUS
  <2> QED BY <1>9, <2>1, <2>6, <2>7
<1>10. 0 .. v \subseteq T
  <2> HIDE DEF T
  <2> QED BY <1>8, <1>9, SetInduction
<1>11. f[v] = g[v]
  <2> HIDE DEF g
  <2> QED BY <1>10
<1> QED BY <1>5, <1>11

(* The characters of a text; the prover does not take a literal to be one  *)
(* of STRING.                                                              *)
Symbol ==
  STRING \cup {digits[k] : k \in 1 .. 16} \cup {Upper[k] : k \in 1 .. 16}
         \cup {"-", "+", "x", "X", "%", "#", "l", " "}

LEMMA TablesAre ==
  /\ IsTable(10, digits, Decimal) /\ IsTable(10, digits, Symbol)
  /\ IsTable(16, digits, Symbol) /\ IsTable(16, Upper, Symbol)
  /\ digits[1] = "0" /\ Upper[1] = "0"
<1>1. \A d \in 1 .. 16 : digits[d] \in Symbol /\ Upper[d] \in Symbol
  BY DEF Symbol
<1>2. \A d \in 1 .. 10 : digits[d] \in Decimal /\ d \in 1 .. 16
  BY DEF Decimal
<1>3. digits[1] = "0" /\ Upper[1] = "0"
  BY DEF digits, Upper
<1> QED BY <1>1, <1>2, <1>3 DEF IsTable

LEMMA ZeroIs == "0" \in Symbol /\ <<"0">> \in Seq(Symbol)
<1>1. "0" \in Symbol
  <2>1. digits[1] \in Symbol /\ digits[1] = "0"
    BY TablesAre DEF IsTable
  <2> QED BY <2>1
<1> QED BY <1>1, OneIs

LEMMA NumeralSeq ==
  ASSUME NEW base, NEW table, NEW C, IsTable(base, table, C), NEW v \in Nat
  PROVE  Numeral(v, base, table) \in Seq(C) /\ Len(Numeral(v, base, table)) \in Nat \ {0}
<1>1. PICK n \in Nat \ {0} : Spells(Numeral(v, base, table), v, base, table, C, n)
  BY NumeralIs, Zenon
<1> QED BY <1>1 DEF Spells

(* What the digit loops leave in the buffer, and what it is reversed to.   *)
LEMMA DigitsOf ==
  ASSUME NEW base, NEW table, NEW C, IsTable(base, table, C), table[1] = "0",
         NEW v \in Nat, NEW body, body = LowFirst(v, base, table)
  PROVE  /\ body \in Seq(C)
         /\ v = 0 <=> body = <<>>
         /\ Numeral(0, base, table) = <<"0">>
         /\ v # 0 => SE!Reverse(body) = Numeral(v, base, table)
         /\ SE!Reverse(IF body = <<>> THEN <<"0">> ELSE body) = Numeral(v, base, table)
<1> DEFINE num == Numeral(v, base, table)
<1>0. base \in Nat /\ base > 1 /\ "0" \in C
  BY DEF IsTable
<1>1. num \in Seq(C) /\ Len(num) \in Nat \ {0}
  BY NumeralSeq, Zenon
<1>2. body = IF v = 0 THEN <<>> ELSE SE!Reverse(num)
  BY LowFirstIs, Zenon
<1>3. Numeral(0, base, table) = <<"0">>
  <2>1. Numeral(0, base, table) =
          IF 0 < base THEN <<table[0 + 1]>>
          ELSE Append(Numeral(0 \div base, base, table), table[(0 % base) + 1])
    BY NumeralStep
  <2> QED BY <1>0, <2>1
<1> HIDE DEF num
<1>4. /\ SE!Reverse(num) \in Seq(C) /\ Len(SE!Reverse(num)) = Len(num)
      /\ SE!Reverse(SE!Reverse(num)) = num
  BY <1>1, ReverseIs, ReverseTwice
<1>5. SE!Reverse(num) # <<>>
  <2>1. Len(<<>>) = 0
    OBVIOUS
  <2> QED BY <1>1, <1>4, <2>1
<1>6. body \in Seq(C) /\ (v = 0 <=> body = <<>>)
  BY <1>2, <1>4, <1>5
<1>7. SE!Reverse(<<"0">>) = <<"0">>
  BY <1>0, ReverseOne
<1>8. v # 0 => SE!Reverse(body) = num
  BY <1>2, <1>4
<1>9. SE!Reverse(IF body = <<>> THEN <<"0">> ELSE body) = num
  <2>1. CASE v = 0
    BY <1>3, <1>6, <1>7, <2>1 DEF num
  <2>2. CASE v # 0
    BY <1>6, <1>8, <2>2
  <2> QED BY <2>1, <2>2
<1> QED BY <1>3, <1>6, <1>8, <1>9 DEF num

-----------------------------------------------------------------------------
(* The conversions of one number.                                          *)

LEMMA AbsIs ==
  ASSUME NEW n \in Int
  PROVE  Abs(n) \in Nat /\ (Abs(n) = 0 <=> n = 0)
  BY DEF Abs

SignedNumeral(n, base) == Flag(n < 0, "-") \o Numeral(Abs(n), base, digits)

(* A sign is put in front of the digits in two ways.                       *)
LEMMA SignIs ==
  ASSUME NEW base, IsTable(base, digits, Symbol), NEW n \in Int,
         NEW body \in Seq(Symbol), SE!Reverse(body) = Numeral(Abs(n), base, digits)
  PROVE  /\ SE!Reverse(IF n < 0 THEN Append(body, "-") ELSE body) = SignedNumeral(n, base)
         /\ (IF n < 0 THEN <<"-">> ELSE <<>>) \o SE!Reverse(body) = SignedNumeral(n, base)
<1> DEFINE num == Numeral(Abs(n), base, digits)
<1>1. num \in Seq(Symbol)
  <2>1. Abs(n) \in Nat
    BY AbsIs
  <2> QED BY <2>1, NumeralSeq
<1>2. "-" \in Symbol
  BY DEF Symbol
<1> HIDE DEF num
<1>3. <<>> \o num = num
  BY <1>1, ConcatEmptySeq
<1>4. SE!Reverse(body) = num
  BY DEF num
<1>5. SE!Reverse(Append(body, "-")) = <<"-">> \o num
  BY <1>2, <1>4, ReverseAppend
<1>6. CASE n < 0
  BY <1>4, <1>5, <1>6 DEF SignedNumeral, Flag, num
<1>7. CASE ~(n < 0)
  BY <1>3, <1>4, <1>7 DEF SignedNumeral, Flag, num
<1> QED BY <1>6, <1>7

LEMMA IntTextIs ==
  ASSUME NEW base, IsTable(base, digits, Symbol), NEW n \in Int
  PROVE  IntText(n, base) = SignedNumeral(n, base)
<1> DEFINE body == LowFirst(Abs(n), base, digits)
           full == IF body = <<>> THEN <<"0">> ELSE body
<1>1. Abs(n) \in Nat /\ digits[1] = "0"
  BY AbsIs, TablesAre
<1>2. /\ body \in Seq(Symbol)
      /\ Abs(n) = 0 <=> body = <<>>
      /\ Numeral(0, base, digits) = <<"0">>
      /\ Abs(n) # 0 => SE!Reverse(body) = Numeral(Abs(n), base, digits)
      /\ SE!Reverse(IF body = <<>> THEN <<"0">> ELSE body) = Numeral(Abs(n), base, digits)
  BY <1>1, DigitsOf
<1>3. IntText(n, base) =
        SE!Reverse(IF n < 0 THEN Append(body, "-")
                   ELSE IF body = <<>> THEN <<"0">> ELSE body)
  BY DEF IntText
<1>4. n < 0 => Abs(n) # 0 /\ full = body
  BY <1>2, AbsIs
<1>5. IntText(n, base) = SE!Reverse(IF n < 0 THEN Append(full, "-") ELSE full)
  <2> HIDE DEF body
  <2> QED BY <1>3, <1>4
<1>6. full \in Seq(Symbol)
  <2> HIDE DEF body
  <2> QED BY <1>2, ZeroIs
<1> HIDE DEF body
<1>7. SE!Reverse(full) = Numeral(Abs(n), base, digits)
  BY <1>2
<1> HIDE DEF full
<1> QED BY <1>5, <1>6, <1>7, SignIs

(* The printers without padding agree on every number.                     *)
LEMMA DecimalsAre ==
  ASSUME NEW n \in Int
  PROVE  /\ itoa_decimal(n) = SignedNumeral(n, 10)
         /\ dw_uart_print_dec(n) = SignedNumeral(n, 10)
         /\ generic_uart_print_dec(n) = SignedNumeral(n, 10)
<1> DEFINE body == LowFirst(Abs(n), 10, digits)
           full == IF body = <<>> THEN <<"0">> ELSE body
<1>1. Abs(n) \in Nat /\ digits[1] = "0" /\ IsTable(10, digits, Symbol)
      /\ (Abs(n) = 0 <=> n = 0)
  BY AbsIs, TablesAre
<1>2. /\ body \in Seq(Symbol)
      /\ Abs(n) = 0 <=> body = <<>>
      /\ Numeral(0, 10, digits) = <<"0">>
      /\ Abs(n) # 0 => SE!Reverse(body) = Numeral(Abs(n), 10, digits)
      /\ SE!Reverse(full) = Numeral(Abs(n), 10, digits)
  BY <1>1, DigitsOf
<1>3. full \in Seq(Symbol)
  <2> HIDE DEF body
  <2> QED BY <1>2, ZeroIs
<1>4. /\ itoa_decimal(n) = (IF n < 0 THEN <<"-">> ELSE <<>>) \o SE!Reverse(full)
      /\ dw_uart_print_dec(n) = SE!Reverse(IF n < 0 THEN Append(full, "-") ELSE full)
      /\ generic_uart_print_dec(n) =
           IF n = 0 THEN <<"0">>
           ELSE (IF n < 0 THEN <<"-">> ELSE <<>>) \o SE!Reverse(body)
  BY DEF itoa_decimal, dw_uart_print_dec, generic_uart_print_dec
<1> HIDE DEF body, full
<1>5. itoa_decimal(n) = SignedNumeral(n, 10) /\ dw_uart_print_dec(n) = SignedNumeral(n, 10)
  BY <1>1, <1>2, <1>3, <1>4, SignIs
<1>6. CASE n # 0
  <2>1. SE!Reverse(body) = Numeral(Abs(n), 10, digits)
    BY <1>1, <1>2, <1>6
  <2>2. (IF n < 0 THEN <<"-">> ELSE <<>>) \o SE!Reverse(body) = SignedNumeral(n, 10)
    BY <1>1, <1>2, <2>1, SignIs
  <2> QED BY <1>4, <1>5, <1>6, <2>2
<1>7. CASE n = 0
  <2>1. SignedNumeral(n, 10) = <<>> \o <<"0">>
    BY <1>1, <1>2, <1>7 DEF SignedNumeral, Flag
  <2>2. <<>> \o <<"0">> = <<"0">>
    OBVIOUS
  <2> QED BY <1>4, <1>5, <1>7, <2>1, <2>2
<1> QED BY <1>6, <1>7

LEMMA itoa_hexIs ==
  ASSUME NEW v \in Nat
  PROVE  /\ itoa_hex(v, digits) = <<"0", "x">> \o Numeral(v, 16, digits)
         /\ itoa_hex(v, Upper) = <<"0", "X">> \o Numeral(v, 16, Upper)
<1>1. ASSUME NEW table, IsTable(16, table, Symbol), table[1] = "0"
      PROVE  itoa_hex(v, table) =
               <<"0", IF table = Upper THEN "X" ELSE "x">> \o Numeral(v, 16, table)
  <2> DEFINE body == LowFirst(v, 16, table)
             full == IF body = <<>> THEN <<"0">> ELSE body
  <2>1. SE!Reverse(full) = Numeral(v, 16, table)
    BY <1>1, DigitsOf
  <2>2. itoa_hex(v, table) =
          <<"0", IF table = Upper THEN "X" ELSE "x">> \o SE!Reverse(full)
    BY DEF itoa_hex
  <2> QED BY <2>1, <2>2
<1>2. digits # Upper
  <2>1. digits[11] = "a" /\ Upper[11] = "A"
    BY DEF digits, Upper
  <2> QED BY <2>1
<1> QED BY <1>1, <1>2, TablesAre

(* Positions above the length have the digit zero.                         *)
LEMMA DigitAbove ==
  ASSUME NEW base, NEW table, NEW C, IsTable(base, table, C), NEW v \in Nat,
         NEW n \in Nat, v < Power(base, n), NEW k \in Nat, n <= k
  PROVE  Digit(v, base, table, k) = table[1]
<1>0. base \in Nat /\ base > 1 /\ base \in Nat \ {0}
  BY DEF IsTable
<1> DEFINE p == Power(base, k)
<1>1. p \in Nat \ {0} /\ v < p
  <2>1. Power(base, n) <= Power(base, k)
    BY <1>0, PowerGrows
  <2>2. Power(base, n) \in Nat /\ Power(base, k) \in Nat \ {0}
    BY <1>0, PowerIs
  <2> QED BY <2>1, <2>2
<1> HIDE DEF p
<1>2. v \div p = 0
  <2>1. p * 0 = 0 /\ v = p * 0 + v /\ v \in 0 .. p-1 /\ 0 \in Nat
    BY <1>1
  <2> QED BY <1>1, <2>1, DivUnique
<1>3. 0 % base = 0
  <2>1. base * 0 = 0 /\ 0 = base * 0 + 0 /\ 0 \in 0 .. base-1
    BY <1>0
  <2> QED BY <1>0, <2>1, DivUnique
<1> QED BY <1>2, <1>3 DEF Digit, p

LEMMA TimesIs ==
  ASSUME NEW C, NEW c \in C, NEW n \in Nat
  PROVE  /\ Times(n, c) \in Seq(C) /\ Len(Times(n, c)) = n
         /\ \A k \in 1 .. n : Times(n, c)[k] = c
<1> DEFINE f == [k \in 1 .. n |-> c]
<1>1. f \in [1 .. n -> C] /\ \A k \in 1 .. n : f[k] = c
  OBVIOUS
<1>2. Times(n, c) = f
  BY DEF Times
<1> HIDE DEF f
<1>3. f \in Seq(C) /\ Len(f) = n
  BY <1>1, FunctionIsSeq
<1> QED BY <1>1, <1>2, <1>3

LEMMA WidthsAre ==
  /\ IntW \in Nat \ {0} /\ LongW \in Nat \ {0}
  /\ HexDigits \in Nat \ {0} /\ Power(16, HexDigits) = LongW
<1>1. IntW \in Nat \ {0} /\ LongW \in Nat \ {0} /\ LongW % IntW = 0 /\ IntW % 2 = 0
  BY WidthAssumption
<1>2. HexDigits \in Nat /\ Power(16, HexDigits) = LongW
  BY WidthAssumption
<1>3. LongW # 1
  <2>1. IntW # 1
    BY <1>1
  <2>2. SUFFICES ASSUME LongW = 1 PROVE FALSE
    OBVIOUS
  <2>3. 1 = IntW * 0 + 1 /\ 1 \in 0 .. IntW - 1
    BY <1>1, <2>1
  <2>4. 1 % IntW = 1
    BY <1>1, <2>3, DivUnique
  <2> QED BY <1>1, <2>2, <2>4
<1>4. HexDigits # 0
  <2>1. Power(16, 0) = 1
    BY PowerIs
  <2> QED BY <1>2, <1>3, <2>1
<1> QED BY <1>1, <1>2, <1>4

(* The fixed number of hexadecimal digits: a numeral after zeros.          *)
LEMMA PaddedHex ==
  ASSUME NEW v \in 0 .. LongW-1
  PROVE  generic_uart_print_hex(v) =
           Times(HexDigits - Len(Numeral(v, 16, Upper)), "0") \o Numeral(v, 16, Upper)
<1> DEFINE hex == Numeral(v, 16, Upper)
           H == HexDigits
           f == [k \in 1 .. H |-> Digit(v, 16, Upper, H - k)]
<1>0. v \in Nat /\ H \in Nat \ {0} /\ Power(16, H) = LongW /\ LongW \in Nat
      /\ v < Power(16, H)
  BY WidthsAre
<1>1. IsTable(16, Upper, Symbol) /\ Upper[1] = "0" /\ "0" \in Symbol
  BY TablesAre, ZeroIs
<1>2. PICK n \in Nat \ {0} : LenOf(v, 16, n) /\ Spells(hex, v, 16, Upper, Symbol, n)
  BY <1>0, <1>1, NumeralIs, Zenon
<1>3. hex \in Seq(Symbol) /\ Len(hex) = n
      /\ \A k \in 1 .. n : hex[k] = Digit(v, 16, Upper, n - k)
  BY <1>2 DEF Spells
<1> HIDE DEF hex
<1>4. n <= H /\ v < Power(16, n)
  <2>1. CASE v = 0
    <3>1. n = 1
      BY <1>2, <2>1 DEF LenOf
    <3>2. 1 \in Nat /\ 0 \in Nat /\ Power(16, 0) = 1 /\ Power(16, 0 + 1) = 16 * Power(16, 0)
      BY PowerIs
    <3>3. Power(16, 1) = 16
      BY <3>2
    <3> QED BY <1>0, <2>1, <3>1, <3>3
  <2>2. CASE v # 0
    <3>1. Power(16, n - 1) <= v /\ v < Power(16, n)
      BY <1>2, <2>2 DEF LenOf, HasLen
    <3>2. SUFFICES ASSUME H < n PROVE FALSE
      BY <1>0, <3>1
    <3>3. n - 1 \in Nat /\ H \in Nat /\ H <= n - 1
      BY <1>0, <3>2
    <3>4. Power(16, H) <= Power(16, n - 1)
      BY <3>3, PowerGrows
    <3>5. Power(16, n - 1) \in Nat
      <4>1. 16 \in Nat \ {0}
        OBVIOUS
      <4> QED BY <3>3, <4>1, PowerIs
    <3> QED BY <1>0, <3>1, <3>4, <3>5
  <2> QED BY <2>1, <2>2
<1>5. generic_uart_print_hex(v) = f
  BY DEF generic_uart_print_hex, Digit
<1>6. f \in Seq(Symbol) /\ Len(f) = H
      /\ \A k \in 1 .. H : f[k] = Digit(v, 16, Upper, H - k)
  <2>1. \A k \in 1 .. H : f[k] = Digit(v, 16, Upper, H - k)
    OBVIOUS
  <2>2. f \in [1 .. H -> Symbol]
    <3>1. \A k \in 1 .. H : H - k \in Nat
      BY <1>0
    <3>2. \A k \in 1 .. H : Digit(v, 16, Upper, H - k) \in Symbol
      BY <1>0, <1>1, <3>1, DigitIs
    <3> QED BY <3>2
  <2> HIDE DEF f
  <2> QED BY <1>0, <2>1, <2>2, FunctionIsSeq
<1> HIDE DEF f
<1> DEFINE z == Times(H - n, "0")
           t == z \o hex
<1>7. z \in Seq(Symbol) /\ Len(z) = H - n /\ \A k \in 1 .. H - n : z[k] = "0"
  <2>1. H - n \in Nat
    BY <1>0, <1>4
  <2> QED BY <1>1, <2>1, TimesIs
<1> HIDE DEF z
<1>8. /\ t \in Seq(Symbol) /\ Len(t) = H
      /\ \A k \in 1 .. H - n : t[k] = "0"
      /\ \A k \in 1 .. n : t[H - n + k] = hex[k]
  <2>1. /\ t \in Seq(Symbol) /\ Len(t) = Len(z) + Len(hex)
        /\ \A k \in 1 .. Len(z) : t[k] = z[k]
        /\ \A k \in 1 .. Len(hex) : t[Len(z) + k] = hex[k]
    <3>1. z \in Seq(Symbol) /\ hex \in Seq(Symbol)
      BY <1>3, <1>7
    <3> QED BY <3>1, ConcatIs
  <2> HIDE DEF t
  <2> QED BY <1>0, <1>3, <1>4, <1>7, <2>1
<1> HIDE DEF t
<1>9. ASSUME NEW k \in 1 .. H PROVE f[k] = t[k]
  <2>1. CASE k <= H - n
    <3>1. H - k \in Nat /\ n \in Nat /\ n <= H - k /\ k \in 1 .. H - n
      BY <1>0, <1>4, <2>1
    <3>2. Digit(v, 16, Upper, H - k) = Upper[1]
      BY <1>0, <1>1, <1>4, <3>1, DigitAbove
    <3> QED BY <1>1, <1>6, <1>8, <3>1, <3>2
  <2>2. CASE k > H - n
    <3> DEFINE l == k - (H - n)
    <3>1. l \in 1 .. n /\ H - n + l = k /\ n - l = H - k
      BY <1>0, <1>4, <2>2
    <3> HIDE DEF l
    <3> QED BY <1>3, <1>6, <1>8, <3>1
  <2> QED BY <1>0, <1>4, <2>1, <2>2
<1>10. f = t
  BY <1>6, <1>8, <1>9, SameSeq
<1>11. t = Times(H - Len(hex), "0") \o hex
  BY <1>3 DEF t, z
<1> QED BY <1>5, <1>10, <1>11 DEF hex

-----------------------------------------------------------------------------
(* Reading a number.                                                       *)

LEMMA DigitValueIs ==
  ASSUME NEW d \in 0 .. 9
  PROVE  DigitValue(digits[d + 1]) = d
<1>1. \A k, l \in 1 .. 10 : digits[k] = digits[l] => k = l
  BY DEF digits
<1> DEFINE k == CHOOSE k \in 1 .. 10 : digits[k] = digits[d + 1]
<1>2. d + 1 \in 1 .. 10
  OBVIOUS
<1>3. k \in 1 .. 10 /\ digits[k] = digits[d + 1]
  BY <1>2
<1> HIDE DEF k
<1>4. k = d + 1
  BY <1>1, <1>2, <1>3
<1>5. DigitValue(digits[d + 1]) = k - 1
  BY DEF DigitValue, k
<1> QED BY <1>4, <1>5

(* The digits of v at from, n of them, and no more.                        *)
HoldsDigits(text, from, n, v) ==
  /\ v < Power(10, n)
  /\ from + n <= Len(text) + 1
  /\ \A k \in 1 .. n : text[from + k - 1] = Digit(v, 10, digits, n - k)
  /\ from + n <= Len(text) => text[from + n] \notin Decimal

Nums(f, text, from, run) ==
  f = [k \in 0 .. run |-> IF k = 0 THEN 0
                          ELSE f[k-1] * 10 + DigitValue(text[from + k - 1])]

LEMMA DigitsAtIs ==
  ASSUME NEW text \in Seq(Symbol), NEW from \in Nat \ {0}, NEW n \in Nat, NEW v \in Nat,
         HoldsDigits(text, from, n, v)
  PROVE  DigitsAt(text, from) = [len |-> n, num |-> v]
<1> DEFINE P(m) == /\ \A k \in from .. from + m - 1 : text[k] \in Decimal
                   /\ from + m <= Len(text) => text[from + m] \notin Decimal
           run == CHOOSE m \in 0 .. Len(text) + 1 - from : P(m)
           f == CHOOSE f : Nums(f, text, from, run)
           g == [k \in 0 .. n |-> v \div Power(10, n - k)]
<1>0. Len(text) \in Nat /\ v < Power(10, n) /\ from + n <= Len(text) + 1
  BY DEF HoldsDigits
<1>1. \A k \in 1 .. n : text[from + k - 1] = Digit(v, 10, digits, n - k)
  BY DEF HoldsDigits
<1>2. \A k \in 1 .. n : text[from + k - 1] \in Decimal
  <2>1. \A k \in 1 .. n : n - k \in Nat
    OBVIOUS
  <2>2. \A k \in 1 .. n : Digit(v, 10, digits, n - k) \in Decimal
    BY <2>1, TablesAre, DigitIs
  <2> QED BY <1>1, <2>2
<1>3. P(n)
  <2>1. ASSUME NEW k \in from .. from + n - 1 PROVE text[k] \in Decimal
    <3>1. k - from + 1 \in 1 .. n /\ from + (k - from + 1) - 1 = k
      OBVIOUS
    <3> QED BY <1>2, <3>1
  <2> QED BY <2>1 DEF HoldsDigits
<1>4. n \in 0 .. Len(text) + 1 - from
  BY <1>0
<1>5. run \in 0 .. Len(text) + 1 - from /\ P(run)
  <2> HIDE DEF P
  <2> QED BY <1>3, <1>4
<1>6. DigitsAt(text, from) = [len |-> run, num |-> f[run]]
  BY DEF DigitsAt, Nums
<1> HIDE DEF run
<1>7. run = n
  <2>1. ~(run < n)
    <3>1. SUFFICES ASSUME run < n PROVE FALSE
      OBVIOUS
    <3>2. run + 1 \in 1 .. n /\ from + (run + 1) - 1 = from + run /\ from + run <= Len(text)
      BY <1>0, <1>4, <1>5, <3>1
    <3>3. text[from + run] \in Decimal
      BY <1>2, <3>2
    <3> QED BY <1>5, <3>2, <3>3
  <2>2. ~(n < run)
    <3>1. SUFFICES ASSUME n < run PROVE FALSE
      OBVIOUS
    <3>2. from + n \in from .. from + run - 1 /\ from + n <= Len(text)
      BY <1>0, <1>4, <1>5, <3>1
    <3> QED BY <1>3, <1>5, <3>2
  <2> QED BY <1>4, <1>5, <2>1, <2>2
<1> HIDE DEF P
<1>8. \A k \in Nat : Power(10, k) \in Nat \ {0} /\ Power(10, k + 1) = 10 * Power(10, k)
  <2>1. 10 \in Nat \ {0}
    OBVIOUS
  <2> QED BY <2>1, PowerIs
<1>9. g[0] = 0 /\ g[n] = v
  <2>1. n - 0 = n /\ n - n = 0 /\ 0 \in 0 .. n /\ n \in 0 .. n
    OBVIOUS
  <2>2. v \div Power(10, n) = 0
    <3> DEFINE p == Power(10, n)
    <3>1. p \in Nat \ {0} /\ v < p
      BY <1>0, <1>8
    <3> HIDE DEF p
    <3>2. p * 0 = 0 /\ v = p * 0 + v /\ v \in 0 .. p-1 /\ 0 \in Nat
      BY <3>1
    <3>3. v \div p = 0
      BY <3>1, <3>2, DivUnique
    <3> QED BY <3>3 DEF p
  <2>3. v \div Power(10, 0) = v
    <3>1. Power(10, 0) = 1
      BY PowerIs
    <3>2. v \div 1 = v
      OBVIOUS
    <3> QED BY <3>1, <3>2
  <2> QED BY <2>1, <2>2, <2>3
<1>10. ASSUME NEW k \in 1 .. n
       PROVE  g[k] = g[k-1] * 10 + DigitValue(text[from + k - 1])
  <2> DEFINE p == Power(10, n - k)
             q == v \div p
             d == q % 10
  <2>1. n - k \in Nat /\ n - (k - 1) = (n - k) + 1 /\ k \in 0 .. n /\ k - 1 \in 0 .. n
    OBVIOUS
  <2>2. p \in Nat \ {0} /\ Power(10, n - (k - 1)) = 10 * p
    BY <1>8, <2>1
  <2> HIDE DEF p
  <2>3. v \div (10 * p) = q \div 10
    BY <2>2, DivDiv
  <2>4. q \in Nat
    BY <2>2, DivIs
  <2>5. g[k] = q /\ g[k-1] = q \div 10
    BY <2>1, <2>2, <2>3 DEF p
  <2>6. text[from + k - 1] = digits[d + 1]
    BY <1>1 DEF Digit, p
  <2> HIDE DEF q
  <2>7. d \in 0 .. 9 /\ q \div 10 \in Nat /\ q = 10 * (q \div 10) + d
    <3>1. 10 \in Nat \ {0}
      OBVIOUS
    <3>2. q % 10 \in 0 .. 10 - 1 /\ q \div 10 \in Nat /\ q = 10 * (q \div 10) + (q % 10)
      BY <2>4, <3>1, DivIs, Zenon
    <3> QED BY <3>2
  <2>8. DigitValue(digits[d + 1]) = d
    <3> HIDE DEF d
    <3> QED BY <2>7, DigitValueIs
  <2> HIDE DEF d, g
  <2>9. q = (q \div 10) * 10 + d
    <3> DEFINE r == q \div 10
    <3>1. r \in Nat /\ q = 10 * r + d
      BY <2>7
    <3> HIDE DEF r
    <3>2. q = r * 10 + d
      BY <2>7, <3>1
    <3> QED BY <3>2 DEF r
  <2> QED BY <2>5, <2>6, <2>8, <2>9
<1>11. Nums(g, text, from, run)
  <2>1. g = [k \in 0 .. n |-> g[k]]
    OBVIOUS
  <2> HIDE DEF g
  <2>2. \A k \in 0 .. n :
          g[k] = IF k = 0 THEN 0 ELSE g[k-1] * 10 + DigitValue(text[from + k - 1])
    <3>1. \A k \in 0 .. n : k = 0 \/ k \in 1 .. n
      OBVIOUS
    <3> QED BY <1>9, <1>10, <3>1
  <2> QED BY <1>7, <2>1, <2>2 DEF Nums
<1>12. Nums(f, text, from, run)
  <2> HIDE DEF g
  <2> QED BY <1>11
<1> HIDE DEF f
<1>13. \A k \in 0 .. n :
         f[k] = IF k = 0 THEN 0 ELSE f[k-1] * 10 + DigitValue(text[from + k - 1])
  BY <1>7, <1>12 DEF Nums
<1> DEFINE T == {k \in 0 .. n : f[k] = g[k]}
<1>14. 0 .. n \subseteq T
  <2> HIDE DEF g
  <2>1. 0 \in T
    BY <1>9, <1>13
  <2>2. ASSUME NEW k \in 0 .. n-1, k \in T PROVE k + 1 \in T
    <3>1. k + 1 \in 1 .. n /\ k + 1 \in 0 .. n /\ (k + 1) - 1 = k /\ k + 1 # 0
      OBVIOUS
    <3>2. f[k + 1] = f[k] * 10 + DigitValue(text[from + (k + 1) - 1])
      BY <1>13, <3>1
    <3>3. g[k + 1] = g[k] * 10 + DigitValue(text[from + (k + 1) - 1])
      BY <1>10, <3>1
    <3>4. f[k] = g[k]
      BY <2>2
    <3> QED BY <3>1, <3>2, <3>3, <3>4
  <2> HIDE DEF T
  <2> QED BY <2>1, <2>2, SetInduction
<1>15. f[n] = v
  <2> HIDE DEF g
  <2>1. n \in 0 .. n
    OBVIOUS
  <2> QED BY <1>9, <1>14, <2>1
<1> QED BY <1>6, <1>7, <1>15

-----------------------------------------------------------------------------
(* The values of a register.                                               *)

LEMMA ModIs ==
  ASSUME NEW x \in Int, NEW w \in Nat \ {0}
  PROVE  x % w \in 0 .. w-1
  BY Z3

LEMMA SignedInt ==
  ASSUME NEW x \in Int, NEW w \in Nat \ {0}
  PROVE  SignedWord(x, w) \in Int
<1> DEFINE r == x % w
<1>1. r \in Int
  BY ModIs
<1>2. SignedWord(x, w) = r \/ SignedWord(x, w) = r - w
  BY DEF SignedWord
<1> HIDE DEF r
<1> QED BY <1>1, <1>2

LEMMA HalfIs ==
  ASSUME NEW w \in Nat \ {0}, w % 2 = 0
  PROVE  w \div 2 \in Nat \ {0} /\ w = 2 * (w \div 2)
  OBVIOUS

LEMMA LongEven == LongW % 2 = 0 /\ IntW % 2 = 0
<1>1. IntW \in Nat \ {0} /\ LongW \in Nat \ {0} /\ LongW % IntW = 0 /\ IntW % 2 = 0
  BY WidthAssumption
<1> DEFINE q == LongW \div IntW
           h == IntW \div 2
<1>2. q \in Nat /\ LongW = IntW * q + 0
  BY <1>1, DivIs
<1>3. h \in Nat /\ IntW = 2 * h
  BY <1>1, HalfIs
<1> HIDE DEF q, h
<1>4. LongW = 2 * (h * q) + 0 /\ h * q \in Nat
  BY <1>2, <1>3, Z3
<1>5. LongW % 2 = 0
  <2>1. 2 \in Nat \ {0} /\ 0 \in 0 .. 2-1 /\ LongW \in Nat
    BY <1>1
  <2> DEFINE m == h * q
  <2>2. m \in Nat /\ LongW = 2 * m + 0
    BY <1>4
  <2> HIDE DEF m
  <2> QED BY <2>1, <2>2, DivUnique
<1> QED BY <1>1, <1>5

(* A value in range is left as it is.                                      *)
LEMMA SignedSame ==
  ASSUME NEW w \in Nat \ {0}, w % 2 = 0, NEW v \in -(w \div 2) .. (w \div 2) - 1
  PROVE  SignedWord(v, w) = v
<1> DEFINE h == w \div 2
<1>1. h \in Nat \ {0} /\ w = 2 * h
  BY HalfIs
<1>2. v \in -h .. h-1
  OBVIOUS
<1>3. SignedWord(v, w) = IF v % w < h THEN v % w ELSE (v % w) - w
  BY DEF SignedWord
<1> HIDE DEF h
<1>4. CASE v >= 0
  <2>1. w * 0 = 0 /\ v = w * 0 + v /\ v \in 0 .. w-1 /\ v \in Nat /\ 0 \in Nat
    BY <1>1, <1>2, <1>4
  <2>2. v % w = v
    BY <2>1, DivUnique
  <2>3. v < h
    BY <1>1, <1>2
  <2> QED BY <1>3, <2>2, <2>3
<1>5. CASE v < 0
  <2>1. v \in Int /\ 0 - w <= v
    BY <1>1, <1>2
  <2>2. v % w = v + w
    BY <1>5, <2>1, Z3
  <2>3. v + w >= h
    BY <1>1, <1>2
  <2> QED BY <1>1, <1>2, <1>3, <2>2, <2>3
<1> QED BY <1>2, <1>4, <1>5

LEMMA SignedRange ==
  ASSUME NEW x \in Int, NEW w \in Nat \ {0}, w % 2 = 0
  PROVE  SignedWord(x, w) \in -(w \div 2) .. (w \div 2) - 1
<1> DEFINE h == w \div 2
           r == x % w
<1>1. h \in Nat \ {0} /\ w = 2 * h
  BY HalfIs
<1>2. r \in 0 .. w-1
  BY ModIs
<1>3. SignedWord(x, w) = IF r < h THEN r ELSE r - w
  BY DEF SignedWord
<1> HIDE DEF h, r
<1>4. SignedWord(x, w) \in -h .. h-1
  BY <1>1, <1>2, <1>3
<1> QED BY <1>4 DEF h

-----------------------------------------------------------------------------
(* atol.                                                                   *)

LEMMA LenOfAbove ==
  ASSUME NEW base \in Nat, base > 1, NEW v \in Nat, NEW n \in Nat \ {0}, LenOf(v, base, n)
  PROVE  v < Power(base, n)
<1>1. CASE v = 0
  <2>1. base \in Nat \ {0} /\ n \in Nat
    OBVIOUS
  <2>2. Power(base, n) \in Nat \ {0}
    BY <2>1, PowerIs
  <2> QED BY <1>1, <2>2
<1>2. CASE v # 0
  BY <1>2 DEF LenOf, HasLen
<1> QED BY <1>1, <1>2

LEMMA NotBlank ==
  ASSUME NEW c, c \in Decimal \cup {"-", "+"}
  PROVE  c \notin Blank
<1>1. c \in {"0", "1", "2", "3", "4", "5", "6", "7", "8", "9", "-", "+"}
  BY DEF Decimal, digits
<1>2. c # " " /\ c # "\t" /\ c # "\n"
  BY <1>1
<1> QED BY <1>2 DEF Blank

LEMMA NotSign ==
  ASSUME NEW c, c \in Decimal
  PROVE  c \notin {"-", "+"}
  BY DEF Decimal, digits

(* c holds the numeral of v after b blanks and sign.                       *)
NumeralAt(c, v, b, sign) ==
  LET n == Numeral(Abs(v), 10, digits)
      s == b + Len(sign)
  IN /\ \A k \in 1 .. b : c.fmt[k] \in Blank
     /\ s + Len(n) <= Len(c.fmt)
     /\ SubSeq(c.fmt, b + 1, s + Len(n)) = sign \o n
     /\ At(c.fmt, s + Len(n) + 1) \notin Decimal

LEMMA atolIs ==
  ASSUME NEW c, NEW v \in -(LongW \div 2) .. (LongW \div 2) - 1,
         c.fmt \in Seq(Symbol), NEW b \in 0 .. Len(c.fmt), NEW sign \in Seq(Symbol),
         sign = IF v < 0 THEN <<"-">> ELSE sign,
         v >= 0 => sign \in {<<>>, <<"+">>},
         NumeralAt(c, v, b, sign)
  PROVE  atol(c.fmt) = v
<1> DEFINE text == c.fmt
           num == Numeral(Abs(v), 10, digits)
           m == Len(sign)
           L == Len(text)
<1>0. LongW \in Nat \ {0} /\ LongW % 2 = 0
  BY WidthsAre, LongEven
<1>1. v \in Int
  BY <1>0, HalfIs
<1>2. Abs(v) \in Nat /\ IsTable(10, digits, Decimal) /\ IsTable(10, digits, Symbol)
  BY <1>1, AbsIs, TablesAre
<1>3. PICK n \in Nat \ {0} : LenOf(Abs(v), 10, n) /\ Spells(num, Abs(v), 10, digits, Decimal, n)
  BY <1>2, NumeralIs, Zenon
<1>4. num \in Seq(Decimal) /\ Len(num) = n
      /\ \A k \in 1 .. n : num[k] = Digit(Abs(v), 10, digits, n - k)
  BY <1>3 DEF Spells
<1>5. num \in Seq(Symbol)
  BY <1>2, NumeralSeq
<1>6. L \in Nat /\ m \in Nat /\ b \in 0 .. L
  OBVIOUS
<1>7. /\ \A k \in 1 .. b : text[k] \in Blank
      /\ b + m + n <= L
      /\ SubSeq(text, b + 1, b + m + n) = sign \o num
      /\ At(text, b + m + n + 1) \notin Decimal
  BY <1>4 DEF NumeralAt
<1> HIDE DEF num
<1>8. /\ \A k \in 1 .. m : text[b + k] = sign[k]
      /\ \A k \in 1 .. n : text[b + m + k] = num[k]
  <2> DEFINE w == SubSeq(text, b + 1, b + m + n)
             u == sign \o num
  <2>1. b + 1 \in Nat \ {0} /\ b + m + n \in 0 .. L /\ text \in Seq(Symbol)
    BY <1>6, <1>7
  <2>2. \A k \in 1 .. (b + m + n) - (b + 1) + 1 : w[k] = text[b + 1 + k - 1]
    BY <2>1, SubSeqIs
  <2>3. /\ \A k \in 1 .. m : u[k] = sign[k]
        /\ \A k \in 1 .. Len(num) : u[m + k] = num[k]
    BY <1>5, ConcatIs
  <2>4. w = u
    BY <1>7
  <2> HIDE DEF w, u, m, L
  <2>5. \A k \in 1 .. m + n : w[k] = text[b + k]
    <3>1. \A k \in 1 .. m + n : k \in 1 .. (b + m + n) - (b + 1) + 1 /\ b + 1 + k - 1 = b + k
      BY <1>6
    <3> QED BY <2>2, <3>1
  <2>6. \A k \in 1 .. m : text[b + k] = sign[k]
    <3>1. \A k \in 1 .. m : k \in 1 .. m + n
      BY <1>6
    <3> QED BY <2>3, <2>4, <2>5, <3>1
  <2>7. \A k \in 1 .. n : text[b + m + k] = num[k]
    <3>1. \A k \in 1 .. n : m + k \in 1 .. m + n /\ b + (m + k) = b + m + k
      BY <1>6
    <3>2. \A k \in 1 .. n : text[b + (m + k)] = u[m + k]
      BY <2>4, <2>5, <3>1
    <3> QED BY <1>4, <2>3, <3>1, <3>2
  <2> QED BY <2>6, <2>7 DEF m
<1>9. num[1] \in Decimal
  <2>1. 1 \in 1 .. Len(num)
    BY <1>4
  <2> QED BY <1>4, <2>1
<1>10. \/ v < 0 /\ m = 1 /\ text[b + 1] = "-"
       \/ v >= 0 /\ m = 1 /\ text[b + 1] = "+"
       \/ v >= 0 /\ m = 0 /\ text[b + 1] \in Decimal
  <2>1. CASE v < 0
    <3>1. m = 1 /\ sign[1] = "-"
      BY <2>1
    <3> HIDE DEF m
    <3>2. 1 \in 1 .. m
      BY <3>1
    <3> QED BY <1>8, <2>1, <3>1, <3>2
  <2>2. CASE v >= 0 /\ sign = <<"+">>
    <3>1. m = 1 /\ sign[1] = "+"
      BY <2>2
    <3> HIDE DEF m
    <3>2. 1 \in 1 .. m
      BY <3>1
    <3> QED BY <1>8, <2>2, <3>1, <3>2
  <2>3. CASE v >= 0 /\ sign = <<>>
    <3>1. m = 0
      BY <2>3
    <3> HIDE DEF m
    <3>2. 1 \in 1 .. n /\ b + 0 + 1 = b + 1
      OBVIOUS
    <3>3. text[b + m + 1] = num[1]
      BY <1>8, <3>2
    <3> QED BY <1>9, <2>3, <3>1, <3>2, <3>3
  <2> QED BY <1>1, <2>1, <2>2, <2>3
<1> HIDE DEF text, m, L
<1>11. text[b + 1] \notin Blank /\ b + 1 <= L /\ At(text, b + 1) = text[b + 1]
  <2>1. text[b + 1] \notin Blank
    BY <1>10, NotBlank
  <2>2. b + 1 <= L
    BY <1>6, <1>7
  <2> QED BY <2>1, <2>2 DEF At, L
<1> DEFINE first == CHOOSE k \in 1 .. L + 1 :
                      /\ At(text, k) \notin Blank
                      /\ \A l \in 1 .. k-1 : At(text, l) \in Blank
<1>12. \A l \in 1 .. b : At(text, l) \in Blank
  <2>1. \A l \in 1 .. b : l <= L
    BY <1>6
  <2> QED BY <1>7, <2>1 DEF At, L
<1>13. first \in 1 .. L + 1 /\ At(text, first) \notin Blank
       /\ \A l \in 1 .. first-1 : At(text, l) \in Blank
  <2>1. b + 1 \in 1 .. L + 1 /\ (b + 1) - 1 = b
    BY <1>6
  <2>2. \E k \in 1 .. L + 1 :
          At(text, k) \notin Blank /\ \A l \in 1 .. k-1 : At(text, l) \in Blank
    BY <1>11, <1>12, <2>1
  <2> QED BY <2>2
<1> HIDE DEF first
<1>14. first = b + 1
  <2>1. first \in Int
    BY <1>6, <1>13
  <2>2. ~(first < b + 1)
    <3>1. first < b + 1 => first \in 1 .. b
      BY <1>6, <1>13
    <3> QED BY <1>12, <1>13, <3>1
  <2>3. ~(b + 1 < first)
    <3>1. b + 1 < first => b + 1 \in 1 .. first-1
      BY <1>6, <1>13
    <3> QED BY <1>11, <1>13, <3>1
  <2> QED BY <1>6, <2>1, <2>2, <2>3
<1> DEFINE from == IF At(text, first) \in {"-", "+"} THEN first + 1 ELSE first
<1>15. from = b + m + 1
  <2>1. text[b + 1] \in Decimal => text[b + 1] \notin {"-", "+"}
    BY NotSign
  <2> QED BY <1>6, <1>10, <1>11, <1>14, <2>1
<1>16. (At(text, first) = "-") <=> (v < 0)
  <2>1. text[b + 1] \in Decimal => text[b + 1] \notin {"-", "+"}
    BY NotSign
  <2> QED BY <1>1, <1>10, <1>11, <1>14, <2>1
<1>17. atol(text) = SignedWord(IF At(text, first) = "-" THEN -(DigitsAt(text, from).num)
                               ELSE DigitsAt(text, from).num, LongW)
  BY DEF atol, first, L
<1> HIDE DEF from
<1>18. HoldsDigits(text, from, n, Abs(v))
  <2>1. Abs(v) < Power(10, n)
    BY <1>2, <1>3, LenOfAbove
  <2>2. from + n <= L + 1
    BY <1>6, <1>7, <1>15
  <2>3. \A k \in 1 .. n : text[from + k - 1] = Digit(Abs(v), 10, digits, n - k)
    <3>1. \A k \in 1 .. n : from + k - 1 = b + m + k
      BY <1>6, <1>15
    <3> QED BY <1>4, <1>8, <3>1
  <2>4. from + n <= L => text[from + n] \notin Decimal
    <3>1. from + n = b + m + n + 1
      BY <1>6, <1>15
    <3> QED BY <1>7, <3>1 DEF At, L
  <2> QED BY <2>1, <2>2, <2>3, <2>4 DEF HoldsDigits, L
<1>19. DigitsAt(text, from) = [len |-> n, num |-> Abs(v)]
  <2>1. text \in Seq(Symbol) /\ from \in Nat \ {0} /\ n \in Nat /\ Abs(v) \in Nat
    BY <1>2, <1>6, <1>15 DEF text
  <2> QED BY <1>18, <2>1, DigitsAtIs
<1>20. atol(text) = SignedWord(v, LongW)
  <2>1. DigitsAt(text, from).num = Abs(v)
    BY <1>19
  <2>2. IF v < 0 THEN -Abs(v) = v ELSE Abs(v) = v
    BY <1>1 DEF Abs
  <2> QED BY <1>16, <1>17, <2>1, <2>2
<1>21. SignedWord(v, LongW) = v
  BY <1>0, SignedSame
<1> QED BY <1>20, <1>21 DEF text

-----------------------------------------------------------------------------
(* The functions on one number.                                            *)

LEMMA CallsAre ==
  ASSUME NEW c \in Calls
  PROVE  c \in Job /\ c.fn \in Formatter \cup Printer \cup Reader /\ WellFormed(c)
  BY CallsAssumption, Zenon

(* The text of a call, in characters.                                      *)
LEMMA FmtIs ==
  ASSUME NEW c \in Job
  PROVE  c.fmt \in Seq(Symbol)
<1>1. c.fmt \in Seq(STRING)
  BY DEF Job
<1>2. STRING \subseteq Symbol
  BY DEF Symbol
<1> QED BY <1>1, <1>2, SeqMonotonic

LEMMA FirstArgument ==
  ASSUME NEW c \in Job, Len(c.args) = 1
  PROVE  c.args[1].word \in 0 .. LongW-1
<1>1. c.args \in Seq(Argument)
  BY DEF Job
<1>2. c.args[1] \in Argument
  BY <1>1
<1> QED BY <1>2 DEF Argument

LEMMA atolReads ==
  ASSUME NEW c \in Job, Len(c.args) = 1, HasNumeral(c)
  PROVE  atol(c.fmt) = SignedWord(c.args[1].word, LongW)
<1> DEFINE v == SignedWord(c.args[1].word, LongW)
<1>1. v \in -(LongW \div 2) .. (LongW \div 2) - 1 /\ v \in Int
  <2>1. c.args[1].word \in Int
    BY FirstArgument, WidthsAre
  <2> QED BY <2>1, WidthsAre, LongEven, SignedRange, SignedInt
<1>2. PICK b \in 0 .. Len(c.fmt), sign \in IF v < 0 THEN {<<"-">>} ELSE {<<>>, <<"+">>} :
        NumeralAt(c, v, b, sign)
  BY DEF HasNumeral, NumeralAt
<1> HIDE DEF v
<1>3. sign \in {<<"-">>, <<>>, <<"+">>}
  OBVIOUS
<1>4. sign = IF v < 0 THEN <<"-">> ELSE sign
  OBVIOUS
<1>5. v >= 0 => sign \in {<<>>, <<"+">>}
  BY <1>1
<1>6. sign \in Seq(Symbol)
  <2>1. "-" \in Symbol /\ "+" \in Symbol
    BY DEF Symbol
  <2>2. <<>> \in Seq(Symbol) /\ <<"-">> \in Seq(Symbol) /\ <<"+">> \in Seq(Symbol)
    BY <2>1, OneIs
  <2> QED BY <1>3, <2>2
<1>7. c.fmt \in Seq(Symbol)
  BY FmtIs
<1>8. atol(c.fmt) = v
  BY <1>1, <1>2, <1>4, <1>5, <1>6, <1>7, atolIs
<1> QED BY <1>8 DEF v

(* Only the formatters go through their format and arguments.              *)
NumbersInv ==
  /\ FormatIdle \/ job \in Calls
  /\ job.fn \notin Formatter => arg = 1
  /\ NumbersAsSpecified

LEMMA FormatterOnly ==
  ASSUME job.fn \in Formatter
  PROVE  NumbersAsSpecified
<1>1. /\ job.fn \notin DecimalPrinter /\ job.fn # "dw_uart_print_hex"
      /\ job.fn # "generic_uart_print_hex" /\ job.fn # "atol" /\ job.fn # "atoi"
  BY DEF Formatter, DecimalPrinter
<1> QED BY <1>1 DEF NumbersAsSpecified

LEMMA NumbersInit ==
  ASSUME FormatInit \/ FormatIdle
  PROVE  NumbersInv
<1>1. CASE FormatInit
  BY <1>1 DEF FormatInit, NumbersInv, NumbersAsSpecified
<1>2. CASE FormatIdle
  <2>1. job.fn = "none" /\ arg = 1
    BY <1>2 DEF FormatIdle
  <2>2. NumbersAsSpecified
    BY <2>1 DEF NumbersAsSpecified, DecimalPrinter
  <2> QED BY <1>2, <2>1, <2>2 DEF NumbersInv
<1> QED BY <1>1, <1>2

LEMMA NumbersStutter ==
  ASSUME NumbersInv, UNCHANGED formatVars
  PROVE  NumbersInv'
BY DEF NumbersInv, NumbersAsSpecified, formatVars, FormatIdle

(* The calls do not change, and no function runs when none was called.     *)
LEMMA FormatStep ==
  ASSUME FormatNext
  PROVE  job' = job /\ mode # "returned" /\ ~FormatIdle
<1>1. job' = job
  BY DEF FormatNext, Literal, Percent, Hash, Width, Long, Convert, EndOfFormat,
         SimpleLiteral, SimpleDirective, PrintNumber, ReadNumber
<1>2. mode # "returned"
  BY DEF FormatNext, Literal, Percent, Hash, Width, Long, Convert, EndOfFormat,
         SimpleLiteral, SimpleDirective, PrintNumber, ReadNumber, Doing
<1> QED BY <1>1, <1>2 DEF FormatIdle

LEMMA FormatterSteps ==
  ASSUME FormatNext, job.fn \notin Formatter
  PROVE  PrintNumber \/ ReadNumber
BY DEF FormatNext, Literal, Percent, Hash, Width, Long, Convert, EndOfFormat,
       SimpleLiteral, SimpleDirective, Doing, Formatter

LEMMA PrintNumberPrints ==
  ASSUME NumbersInv, PrintNumber, job \in Calls
  PROVE  NumbersAsSpecified'
<1> DEFINE word == job.args[1].word
           v == SignedWord(word, LongW)
           hex == Numeral(word, 16, Upper)
           padded == Times(HexDigits - Len(hex), "0") \o hex
<1>1. job \in Job /\ job.fn \in Printer /\ Len(job.args) = 1
  <2>1. job \in Job /\ WellFormed(job)
    BY CallsAre
  <2>2. job.fn \in Printer
    BY DEF PrintNumber
  <2> QED BY <2>1, <2>2 DEF WellFormed
<1>2. arg = 1 /\ Word = word
  BY <1>1 DEF NumbersInv, Formatter, Printer, DecimalPrinter, Word
<1>3. word \in 0 .. LongW-1 /\ v \in Int
  <2>1. word \in 0 .. LongW-1
    BY <1>1, FirstArgument
  <2>2. word \in Int
    BY <2>1, WidthsAre
  <2> QED BY <2>1, <2>2, WidthsAre, SignedInt
<1>4. /\ mode' = "returned" /\ job' = job
      /\ job.fn = "dw_uart_print_dec" => out' = dw_uart_print_dec(v)
      /\ job.fn = "generic_uart_print_dec" => out' = generic_uart_print_dec(v)
      /\ job.fn = "dw_uart_print_hex" => out' = dw_uart_print_hex(word)
      /\ job.fn = "generic_uart_print_hex" => out' = generic_uart_print_hex(word)
  BY <1>2 DEF PrintNumber
<1> HIDE DEF word
<1>5. /\ dw_uart_print_dec(v) = Flag(v < 0, "-") \o Numeral(Abs(v), 10, digits)
      /\ generic_uart_print_dec(v) = Flag(v < 0, "-") \o Numeral(Abs(v), 10, digits)
  <2> HIDE DEF v
  <2> QED BY <1>3, DecimalsAre DEF SignedNumeral
<1>6. /\ generic_uart_print_hex(word) = padded
      /\ dw_uart_print_hex(word) = <<"0", "x">> \o padded
  <2>1. generic_uart_print_hex(word) = padded
    BY <1>3, PaddedHex
  <2> QED BY <2>1 DEF dw_uart_print_hex
<1>7. /\ job.fn \in DecimalPrinter => out' = Flag(v < 0, "-") \o Numeral(Abs(v), 10, digits)
      /\ job.fn = "dw_uart_print_hex" => out' = <<"0", "x">> \o padded
      /\ job.fn = "generic_uart_print_hex" => out' = padded
  <2> HIDE DEF v, padded
  <2> QED BY <1>4, <1>5, <1>6 DEF DecimalPrinter
<1>8. job.fn # "atol" /\ job.fn # "atoi"
  BY <1>1 DEF Printer, DecimalPrinter
<1> HIDE DEF v, hex, padded
<1>9. CASE job.fn \in DecimalPrinter
  BY <1>4, <1>7, <1>8, <1>9 DEF NumbersAsSpecified, padded, hex, v, word
<1>10. CASE job.fn = "dw_uart_print_hex"
  BY <1>4, <1>7, <1>10 DEF NumbersAsSpecified, padded, hex, word, DecimalPrinter
<1>11. CASE job.fn = "generic_uart_print_hex"
  BY <1>4, <1>7, <1>11 DEF NumbersAsSpecified, padded, hex, word, DecimalPrinter
<1> QED BY <1>1, <1>9, <1>10, <1>11 DEF Printer

LEMMA ReadNumberReads ==
  ASSUME ReadNumber, job \in Calls
  PROVE  NumbersAsSpecified'
<1> DEFINE v == SignedWord(job.args[1].word, LongW)
<1>1. /\ mode' = "returned" /\ job' = job /\ job.fn \in Reader
      /\ returns' = IF job.fn = "atol" THEN atol(job.fmt) ELSE atoi(job.fmt)
  BY DEF ReadNumber
<1>2. atol(job.fmt) = v
  <2>1. job \in Job /\ WellFormed(job)
    BY CallsAre
  <2>2. Len(job.args) = 1 /\ HasNumeral(job)
    BY <1>1, <2>1 DEF WellFormed
  <2> QED BY <2>1, <2>2, atolReads
<1>3. atoi(job.fmt) = SignedWord(v, IntW)
  BY <1>2 DEF atoi
<1>4. job.fn \notin DecimalPrinter /\ job.fn # "dw_uart_print_hex"
      /\ job.fn # "generic_uart_print_hex" /\ (job.fn = "atol" \/ job.fn = "atoi")
  BY <1>1 DEF Reader, DecimalPrinter
<1> HIDE DEF v
<1>5. returns' = IF job.fn = "atol" THEN v ELSE SignedWord(v, IntW)
  BY <1>1, <1>2, <1>3
<1> QED BY <1>1, <1>4, <1>5 DEF NumbersAsSpecified, v

LEMMA NumbersKeep ==
  ASSUME NumbersInv, FormatNext
  PROVE  NumbersInv'
<1>1. job' = job /\ mode # "returned" /\ job \in Calls
  BY FormatStep DEF NumbersInv
<1>2. CASE job.fn \in Formatter
  <2>1. (job.fn \in Formatter => NumbersAsSpecified)'
    BY FormatterOnly, PTL
  <2> QED BY <1>1, <1>2, <2>1 DEF NumbersInv
<1>3. CASE job.fn \notin Formatter
  <2>1. arg' = arg
    BY <1>3, FormatterSteps DEF PrintNumber, ReadNumber
  <2>2. NumbersAsSpecified'
    BY <1>1, <1>3, FormatterSteps, PrintNumberPrints, ReadNumberReads
  <2> QED BY <1>1, <2>1, <2>2 DEF NumbersInv
<1> QED BY <1>2, <1>3

-----------------------------------------------------------------------------
(***************************************************************************)
(* Formats.                                                                *)
(***************************************************************************)

-----------------------------------------------------------------------------
(* How an item is written.                                                 *)

One(on) == IF on THEN 1 ELSE 0

LEMMA FlagIs ==
  ASSUME NEW C, NEW c \in C, NEW on \in BOOLEAN
  PROVE  /\ Flag(on, c) \in Seq(C) /\ Len(Flag(on, c)) = One(on)
         /\ \A k \in 1 .. One(on) : Flag(on, c)[k] = c
<1>1. CASE on
  <2>1. Flag(on, c) = <<c>> /\ One(on) = 1
    BY <1>1 DEF Flag, One
  <2>2. <<c>> \in Seq(C) /\ Len(<<c>>) = 1 /\ <<c>>[1] = c
    BY OneIs
  <2> QED BY <2>1, <2>2
<1>2. CASE ~on
  <2>1. Flag(on, c) = <<>> /\ One(on) = 0
    BY <1>2 DEF Flag, One
  <2> QED BY <2>1
<1> QED BY <1>1, <1>2

(* What a part adds to the text before it.                                 *)
Adds(s, t, u) ==
  /\ u \in Seq(Symbol) /\ Len(u) = Len(s) + Len(t)
  /\ \A k \in 1 .. Len(s) : u[k] = s[k]
  /\ \A k \in 1 .. Len(t) : u[Len(s) + k] = t[k]

LEMMA ConcatAdds ==
  ASSUME NEW s \in Seq(Symbol), NEW t \in Seq(Symbol)
  PROVE  Adds(s, t, s \o t)
  BY ConcatIs DEF Adds

WidthText(it) == IF it.width = 0 THEN <<>> ELSE Numeral(it.width, 10, digits)

(* Where the flag '0', the flag '-', the width and the l's start, less 1.  *)
ZeroAt(it) == 1 + One(it.alt)
LeftAt(it) == ZeroAt(it) + One(it.zero)
WidthAt(it) == LeftAt(it) + One(it.left)
LongAt(it) == WidthAt(it) + Len(WidthText(it))

LEMMA OneNat ==
  ASSUME NEW on \in BOOLEAN PROVE One(on) \in Nat /\ One(on) \in {0, 1}
  BY DEF One

LEMMA WidthTextIs ==
  ASSUME NEW it \in Item
  PROVE  /\ WidthText(it) \in Seq(Decimal) /\ WidthText(it) \in Seq(Symbol)
         /\ Len(WidthText(it)) \in Nat
         /\ it.width \in Nat /\ it.width < Power(10, Len(WidthText(it)))
         /\ \A k \in 1 .. Len(WidthText(it)) :
              WidthText(it)[k] = Digit(it.width, 10, digits, Len(WidthText(it)) - k)
         /\ (Len(WidthText(it)) = 0 <=> it.width = 0)
<1> DEFINE w == it.width
           num == Numeral(w, 10, digits)
<1>0. w \in Nat
  BY DEF Item
<1>1. CASE w = 0
  <2>1. WidthText(it) = <<>>
    BY <1>1 DEF WidthText
  <2>2. Len(<<>>) = 0 /\ Power(10, 0) = 1
    BY PowerIs
  <2> QED BY <1>1, <2>1, <2>2
<1>2. CASE w # 0
  <2>1. WidthText(it) = num
    BY <1>2 DEF WidthText
  <2>2. IsTable(10, digits, Decimal) /\ IsTable(10, digits, Symbol)
    BY TablesAre
  <2> HIDE DEF w
  <2>3. PICK n \in Nat \ {0} : LenOf(w, 10, n) /\ Spells(num, w, 10, digits, Decimal, n)
    BY <1>0, <2>2, NumeralIs, Zenon
  <2>4. num \in Seq(Symbol)
    BY <1>0, <2>2, NumeralSeq, Zenon
  <2>5. w < Power(10, n)
    BY <1>0, <2>3, LenOfAbove
  <2> HIDE DEF num
  <2>6. num \in Seq(Decimal) /\ Len(num) = n
        /\ \A k \in 1 .. n : num[k] = Digit(w, 10, digits, n - k)
    BY <2>3 DEF Spells
  <2>7. Len(num) # 0
    BY <2>6
  <2> HIDE DEF Digit
  <2> QED BY <1>0, <1>2, <2>1, <2>4, <2>5, <2>6, <2>7 DEF w
<1> QED BY <1>1, <1>2

(* The first digit of a width is not zero.                                 *)
LEMMA WidthFirst ==
  ASSUME NEW it \in Item, it.width # 0
  PROVE  WidthText(it)[1] \in Decimal \ {"0"} /\ Len(WidthText(it)) \in Nat \ {0}
<1> DEFINE w == it.width
           num == Numeral(w, 10, digits)
<1>0. w \in Nat \ {0}
  BY DEF Item
<1>1. WidthText(it) = num
  BY DEF WidthText
<1>2. PICK n \in Nat \ {0} : LenOf(w, 10, n) /\ Spells(num, w, 10, digits, Decimal, n)
  <2>1. w \in Nat
    BY <1>0
  <2> HIDE DEF w
  <2> QED BY <2>1, TablesAre, NumeralIs, Zenon
<1> HIDE DEF w, num
<1>3. num \in Seq(Decimal) /\ Len(num) = n /\ num[1] = Digit(w, 10, digits, n - 1)
  <2>1. 1 \in 1 .. n
    OBVIOUS
  <2> QED BY <1>2, <2>1 DEF Spells
<1>4. num[1] \in Decimal
  <2>1. 1 \in 1 .. Len(num)
    BY <1>3
  <2> QED BY <1>3, <2>1
<1> DEFINE p == Power(10, n - 1)
           q == w \div p
<1>5. p \in Nat \ {0} /\ Power(10, n) = 10 * p
  <2>1. 10 \in Nat \ {0} /\ n - 1 \in Nat /\ (n - 1) + 1 = n
    OBVIOUS
  <2>2. Power(10, n - 1) \in Nat \ {0} /\ Power(10, (n - 1) + 1) = 10 * Power(10, n - 1)
    BY <2>1, PowerIs, Zenon
  <2> QED BY <2>1, <2>2
<1>6. p <= w /\ w < 10 * p
  BY <1>0, <1>2, <1>5 DEF LenOf, HasLen
<1> HIDE DEF p
<1>7. q \in Nat /\ w % p \in 0 .. p-1 /\ w = p * q + (w % p)
  BY <1>0, <1>5, DivIs
<1> HIDE DEF q
<1>8. q # 0
  BY <1>0, <1>5, <1>6, <1>7
<1>9. q < 10
  <2>1. SUFFICES ASSUME 10 <= q PROVE FALSE
    BY <1>7
  <2>2. p * 10 <= p * q /\ p * q \in Nat
    BY <1>5, <1>7, <2>1, ProductLess, ProductIs
  <2> QED BY <1>0, <1>5, <1>6, <1>7, <2>2
<1>10. q % 10 = q
  BY <1>7, <1>9
<1>11. num[1] = digits[q + 1]
  BY <1>3, <1>10 DEF Digit, p, q
<1>12. digits[q + 1] # "0"
  BY <1>7, <1>8, <1>9 DEF digits
<1> QED BY <1>1, <1>3, <1>4, <1>11, <1>12

(* A directive, part by part.                                              *)
DirectiveText(it, s) ==
  /\ s \in Seq(Symbol) /\ Len(s) = LongAt(it) + it.long + 1
  /\ s[1] = "%"
  /\ it.alt => s[2] = "#"
  /\ it.zero => s[ZeroAt(it) + 1] = "0"
  /\ it.left => s[LeftAt(it) + 1] = "-"
  /\ \A k \in 1 .. Len(WidthText(it)) : s[WidthAt(it) + k] = WidthText(it)[k]
  /\ \A k \in 1 .. it.long : s[LongAt(it) + k] = "l"
  /\ s[LongAt(it) + it.long + 1] = it.conv

LEMMA SpelledDirective ==
  ASSUME NEW it \in Item, it.conv # "literal"
  PROVE  DirectiveText(it, Spelled(it))
<1> DEFINE s0 == <<"%">>
           s1 == s0 \o Flag(it.alt, "#")
           s2 == s1 \o Flag(it.zero, "0")
           s3 == s2 \o Flag(it.left, "-")
           s4 == s3 \o WidthText(it)
           s5 == s4 \o Times(it.long, "l")
           s6 == s5 \o <<it.conv>>
           w == Len(WidthText(it))
           a == One(it.alt)
           z == One(it.zero)
           m == One(it.left)
<1>1. /\ it.alt \in BOOLEAN /\ it.zero \in BOOLEAN /\ it.left \in BOOLEAN
      /\ it.long \in Nat /\ it.conv \in Symbol
  BY DEF Item, Symbol
<1>2. "%" \in Symbol /\ "#" \in Symbol /\ "0" \in Symbol /\ "-" \in Symbol /\ "l" \in Symbol
  BY ZeroIs DEF Symbol
<1>3. Spelled(it) = s6
  BY DEF Spelled, WidthText
<1>4. s0 \in Seq(Symbol) /\ Len(s0) = 1 /\ s0[1] = "%"
  BY <1>2, OneIs
<1>5. /\ Flag(it.alt, "#") \in Seq(Symbol) /\ Len(Flag(it.alt, "#")) = a
      /\ \A k \in 1 .. a : Flag(it.alt, "#")[k] = "#"
  BY <1>1, <1>2, FlagIs
<1>6. /\ Flag(it.zero, "0") \in Seq(Symbol) /\ Len(Flag(it.zero, "0")) = z
      /\ \A k \in 1 .. z : Flag(it.zero, "0")[k] = "0"
  BY <1>1, <1>2, FlagIs
<1>7. /\ Flag(it.left, "-") \in Seq(Symbol) /\ Len(Flag(it.left, "-")) = m
      /\ \A k \in 1 .. m : Flag(it.left, "-")[k] = "-"
  BY <1>1, <1>2, FlagIs
<1>8. WidthText(it) \in Seq(Symbol) /\ w \in Nat
  BY WidthTextIs
<1>9. /\ Times(it.long, "l") \in Seq(Symbol) /\ Len(Times(it.long, "l")) = it.long
      /\ \A k \in 1 .. it.long : Times(it.long, "l")[k] = "l"
  <2> DEFINE l == it.long
  <2>1. l \in Nat /\ "l" \in Symbol
    BY <1>1, <1>2
  <2> HIDE DEF l
  <2>2. /\ Times(l, "l") \in Seq(Symbol) /\ Len(Times(l, "l")) = l
        /\ \A k \in 1 .. l : Times(l, "l")[k] = "l"
    BY <2>1, TimesIs
  <2> QED BY <2>2 DEF l
<1>10. <<it.conv>> \in Seq(Symbol) /\ Len(<<it.conv>>) = 1 /\ <<it.conv>>[1] = it.conv
  BY <1>1, OneIs
<1>11. a \in Nat /\ z \in Nat /\ m \in Nat
       /\ (it.alt => a = 1) /\ (it.zero => z = 1) /\ (it.left => m = 1)
  BY <1>1 DEF One
<1> HIDE DEF s0
<1>12. Adds(s0, Flag(it.alt, "#"), s1)
  BY <1>4, <1>5, ConcatAdds
<1> HIDE DEF s1
<1>13. Adds(s1, Flag(it.zero, "0"), s2)
  BY <1>6, <1>12, ConcatAdds DEF Adds
<1> HIDE DEF s2
<1>14. Adds(s2, Flag(it.left, "-"), s3)
  BY <1>7, <1>13, ConcatAdds DEF Adds
<1> HIDE DEF s3
<1>15. Adds(s3, WidthText(it), s4)
  BY <1>8, <1>14, ConcatAdds DEF Adds
<1> HIDE DEF s4
<1>16. Adds(s4, Times(it.long, "l"), s5)
  BY <1>9, <1>15, ConcatAdds DEF Adds
<1> HIDE DEF s5
<1>17. Adds(s5, <<it.conv>>, s6)
  BY <1>10, <1>16, ConcatAdds DEF Adds
<1> HIDE DEF s6, w, a, z, m
<1>18. Len(s1) = 1 + a /\ s1[1] = "%" /\ \A k \in 1 .. a : s1[1 + k] = "#"
  BY <1>4, <1>5, <1>11, <1>12 DEF Adds
<1>19. /\ Len(s2) = 1 + a + z /\ \A k \in 1 .. 1 + a : s2[k] = s1[k]
       /\ \A k \in 1 .. z : s2[1 + a + k] = "0"
  BY <1>6, <1>11, <1>13, <1>18 DEF Adds
<1>20. /\ Len(s3) = 1 + a + z + m /\ \A k \in 1 .. 1 + a + z : s3[k] = s2[k]
       /\ \A k \in 1 .. m : s3[1 + a + z + k] = "-"
  BY <1>7, <1>11, <1>14, <1>19 DEF Adds
<1>21. /\ Len(s4) = 1 + a + z + m + w /\ \A k \in 1 .. 1 + a + z + m : s4[k] = s3[k]
       /\ \A k \in 1 .. w : s4[1 + a + z + m + k] = WidthText(it)[k]
  BY <1>8, <1>11, <1>15, <1>20 DEF Adds, w
<1>22. /\ Len(s5) = 1 + a + z + m + w + it.long
       /\ \A k \in 1 .. 1 + a + z + m + w : s5[k] = s4[k]
       /\ \A k \in 1 .. it.long : s5[1 + a + z + m + w + k] = "l"
  BY <1>8, <1>9, <1>11, <1>16, <1>21 DEF Adds, w
<1> DEFINE n == 1 + a + z + m + w + it.long
<1>23. /\ s6 \in Seq(Symbol) /\ Len(s6) = n + 1
       /\ \A k \in 1 .. n : s6[k] = s5[k]
       /\ s6[n + 1] = it.conv
  <2>1. /\ s6 \in Seq(Symbol) /\ Len(s6) = Len(s5) + Len(<<it.conv>>)
        /\ \A k \in 1 .. Len(s5) : s6[k] = s5[k]
        /\ \A k \in 1 .. Len(<<it.conv>>) : s6[Len(s5) + k] = <<it.conv>>[k]
    BY <1>17 DEF Adds
  <2>2. 1 \in 1 .. Len(<<it.conv>>)
    BY <1>10
  <2> QED BY <1>10, <1>22, <2>1, <2>2
<1>24. n \in Nat /\ it.long \in Nat /\ w \in Nat
  BY <1>1, <1>8, <1>11
<1>25. /\ s6[1] = "%"
       /\ \A k \in 1 .. a : s6[1 + k] = "#"
       /\ \A k \in 1 .. z : s6[1 + a + k] = "0"
       /\ \A k \in 1 .. m : s6[1 + a + z + k] = "-"
       /\ \A k \in 1 .. w : s6[1 + a + z + m + k] = WidthText(it)[k]
       /\ \A k \in 1 .. it.long : s6[1 + a + z + m + w + k] = "l"
  <2>1. s6[1] = "%" /\ \A k \in 1 .. a : s6[1 + k] = "#"
    BY <1>11, <1>18, <1>19, <1>20, <1>21, <1>22, <1>23, <1>24
  <2>2. \A k \in 1 .. z : s6[1 + a + k] = "0"
    <3>1. \A k \in 1 .. z :
            /\ 1 + a + k \in 1 .. 1 + a + z /\ 1 + a + k \in 1 .. 1 + a + z + m
            /\ 1 + a + k \in 1 .. 1 + a + z + m + w /\ 1 + a + k \in 1 .. n
      BY <1>11, <1>24
    <3> QED BY <1>19, <1>20, <1>21, <1>22, <1>23, <3>1
  <2>3. \A k \in 1 .. m : s6[1 + a + z + k] = "-"
    <3>1. \A k \in 1 .. m :
            /\ 1 + a + z + k \in 1 .. 1 + a + z + m
            /\ 1 + a + z + k \in 1 .. 1 + a + z + m + w /\ 1 + a + z + k \in 1 .. n
      BY <1>11, <1>24
    <3> QED BY <1>20, <1>21, <1>22, <1>23, <3>1
  <2>4. \A k \in 1 .. w : s6[1 + a + z + m + k] = WidthText(it)[k]
    BY <1>11, <1>21, <1>22, <1>23, <1>24
  <2>5. \A k \in 1 .. it.long : s6[1 + a + z + m + w + k] = "l"
    BY <1>11, <1>22, <1>23, <1>24
  <2> QED BY <2>1, <2>2, <2>3, <2>4, <2>5
<1>26. ZeroAt(it) = 1 + a /\ LeftAt(it) = 1 + a + z /\ WidthAt(it) = 1 + a + z + m
       /\ LongAt(it) = 1 + a + z + m + w
  BY DEF ZeroAt, LeftAt, WidthAt, LongAt, a, z, m, w
<1>27. /\ it.alt => s6[2] = "#"
       /\ it.zero => s6[1 + a + 1] = "0"
       /\ it.left => s6[1 + a + z + 1] = "-"
  <2>1. 1 \in 1 .. 1
    OBVIOUS
  <2> QED BY <1>11, <1>25, <2>1
<1>28. DirectiveText(it, s6)
  BY <1>23, <1>25, <1>26, <1>27 DEF DirectiveText, w
<1> QED BY <1>3, <1>28

LEMMA SpelledSeq ==
  ASSUME NEW it \in Item
  PROVE  Spelled(it) \in Seq(Symbol) /\ Len(Spelled(it)) \in Nat \ {0}
<1>1. CASE it.conv = "literal"
  <2>1. Spelled(it) = <<it.char>> /\ it.char \in Symbol
    BY <1>1 DEF Spelled, Item, Symbol
  <2> QED BY <2>1, OneIs
<1>2. CASE it.conv # "literal"
  <2>1. /\ it.alt \in BOOLEAN /\ it.zero \in BOOLEAN /\ it.left \in BOOLEAN /\ it.long \in Nat
    BY DEF Item
  <2>2. One(it.alt) \in Nat /\ One(it.zero) \in Nat /\ One(it.left) \in Nat
    BY <2>1, OneNat
  <2>3. Len(WidthText(it)) \in Nat
    BY WidthTextIs
  <2>4. LongAt(it) \in Nat
    BY <2>2, <2>3 DEF LongAt, WidthAt, LeftAt, ZeroAt
  <2> QED BY <1>2, <2>1, <2>4, SpelledDirective DEF DirectiveText
<1> QED BY <1>1, <1>2

-----------------------------------------------------------------------------
(* Texts put one after the other.                                          *)

Joins(f, g, n) ==
  f = [k \in 0 .. n |-> IF k = 0 THEN <<>> ELSE f[k-1] \o g[k]]

LEMMA JoinExists ==
  ASSUME NEW n \in Nat, NEW g \in [1 .. n -> Seq(Symbol)]
  PROVE  \E f : Joins(f, g, n)
<1> DEFINE S == Seq(Symbol)
           step == [k \in 1 .. n |-> [s \in S |-> s \o g[k]]]
<1>1. step \in [1 .. n -> [S -> S]]
  <2>1. \A k \in 1 .. n : \A s \in S : s \o g[k] \in S
    <3>1. ASSUME NEW k \in 1 .. n, NEW s \in Seq(Symbol) PROVE s \o g[k] \in Seq(Symbol)
      <4>1. g[k] \in Seq(Symbol)
        OBVIOUS
      <4> QED BY <4>1, ConcatIs
    <3> QED BY <3>1
  <2> HIDE DEF S
  <2> QED BY <2>1
<1>2. <<>> \in S
  OBVIOUS
<1> HIDE DEF S
<1>3. PICK f \in [0 .. n -> S] : Iterates(f, n, <<>>, step)
  <2> HIDE DEF step
  <2> QED BY <1>1, <1>2, Recursion
<1>4. \A k \in 0 .. n : f[k] = IF k = 0 THEN <<>> ELSE f[k-1] \o g[k]
  <2>1. \A k \in 0 .. n : f[k] = IF k = 0 THEN <<>> ELSE step[k][f[k-1]]
    <3> HIDE DEF step
    <3> QED BY <1>3 DEF Iterates
  <2>2. \A k \in 0 .. n : k # 0 => k \in 1 .. n /\ k - 1 \in 0 .. n
    OBVIOUS
  <2>3. \A k \in 0 .. n : k # 0 => step[k][f[k-1]] = f[k-1] \o g[k]
    BY <1>3, <2>2
  <2> QED BY <2>1, <2>3
<1>5. Joins(f, g, n)
  BY <1>3, <1>4 DEF Joins
<1> QED BY <1>5

LEMMA JoinsAre ==
  ASSUME NEW n \in Nat, NEW g \in [1 .. n -> Seq(Symbol)], NEW f, Joins(f, g, n)
  PROVE  /\ \A k \in 0 .. n : f[k] \in Seq(Symbol)
         /\ f[0] = <<>>
         /\ \A k \in 1 .. n : f[k] = f[k-1] \o g[k]
<1>1. \A k \in 0 .. n : f[k] = IF k = 0 THEN <<>> ELSE f[k-1] \o g[k]
  BY DEF Joins
<1>2. f[0] = <<>> /\ \A k \in 1 .. n : f[k] = f[k-1] \o g[k]
  <2>1. 0 \in 0 .. n /\ \A k \in 1 .. n : k \in 0 .. n /\ k # 0
    OBVIOUS
  <2> QED BY <1>1, <2>1
<1>3. \A k \in 0 .. n : f[k] \in Seq(Symbol)
  <2>1. f[0] \in Seq(Symbol)
    BY <1>2
  <2>2. ASSUME NEW k \in 1 .. n, f[k-1] \in Seq(Symbol) PROVE f[k] \in Seq(Symbol)
    <3>1. g[k] \in Seq(Symbol) /\ f[k] = f[k-1] \o g[k]
      BY <1>2
    <3> QED BY <2>2, <3>1, ConcatIs
  <2> QED BY <2>1, <2>2, AllAlong
<1> QED BY <1>2, <1>3

(* The k-th text is found behind the first k - 1 of them.                  *)
Begins(s, t) ==
  Len(s) \in Nat /\ Len(t) \in Nat /\ Len(s) <= Len(t) /\ \A e \in 1 .. Len(s) : t[e] = s[e]

PlacedIn(f, g, n, k) ==
  /\ Len(f[k]) \in Nat /\ Len(f[n]) \in Nat /\ Len(f[k]) <= Len(f[n])
  /\ k < n => /\ Len(f[k+1]) = Len(f[k]) + Len(g[k+1])
              /\ Len(f[k+1]) <= Len(f[n])
              /\ \A e \in 1 .. Len(g[k+1]) : f[n][Len(f[k]) + e] = g[k+1][e]

LEMMA BeginsConcat ==
  ASSUME NEW s, NEW t, Begins(s, t), t \in Seq(Symbol), NEW u \in Seq(Symbol)
  PROVE  Begins(s, t \o u)
<1> DEFINE w == t \o u
<1>1. /\ w \in Seq(Symbol) /\ Len(w) = Len(t) + Len(u)
      /\ \A k \in 1 .. Len(t) : w[k] = t[k]
  BY ConcatIs
<1>2. Len(u) \in Nat
  OBVIOUS
<1> HIDE DEF w
<1>3. Begins(s, w)
  <2>1. /\ Len(s) \in Nat /\ Len(t) \in Nat /\ Len(s) <= Len(t)
        /\ \A e \in 1 .. Len(s) : t[e] = s[e]
    BY DEF Begins
  <2>2. \A e \in 1 .. Len(s) : e \in 1 .. Len(t)
    BY <2>1
  <2> QED BY <1>1, <1>2, <2>1, <2>2 DEF Begins
<1> QED BY <1>3 DEF w

LEMMA JoinedPlaces ==
  ASSUME NEW n \in Nat, NEW g \in [1 .. n -> Seq(Symbol)], NEW f, Joins(f, g, n),
         NEW k \in 0 .. n
  PROVE  PlacedIn(f, g, n, k)
<1>1. /\ \A m \in 0 .. n : f[m] \in Seq(Symbol)
      /\ \A m \in 1 .. n : f[m] = f[m-1] \o g[m]
  BY JoinsAre
<1>2. ASSUME NEW l \in 0 .. n PROVE Begins(f[l], f[n])
  <2> DEFINE T == {d \in 0 .. n - l : Begins(f[l], f[l + d])}
  <2>1. 0 \in T
    <3>1. Begins(f[l], f[l])
      <4>1. f[l] \in Seq(Symbol)
        BY <1>1
      <4> QED BY <4>1 DEF Begins
    <3>2. l + 0 = l /\ 0 \in 0 .. n - l
      OBVIOUS
    <3> QED BY <3>1, <3>2
  <2>2. ASSUME NEW d \in 0 .. n-l-1, d \in T PROVE d + 1 \in T
    <3> DEFINE m == l + (d + 1)
    <3>1. m \in 1 .. n /\ m - 1 = l + d /\ l + d \in 0 .. n /\ d + 1 \in 0 .. n-l
      OBVIOUS
    <3> HIDE DEF m
    <3>2. f[m] = f[l + d] \o g[m] /\ f[l + d] \in Seq(Symbol) /\ g[m] \in Seq(Symbol)
      BY <1>1, <3>1
    <3>3. Begins(f[l], f[l + d])
      BY <2>2
    <3>4. Begins(f[l], f[m])
      BY <3>2, <3>3, BeginsConcat
    <3> QED BY <3>1, <3>4 DEF m
  <2>3. 0 .. n-l \subseteq T
    <3>1. n - l \in Nat
      OBVIOUS
    <3> HIDE DEF T
    <3> QED BY <2>1, <2>2, <3>1, SetInduction
  <2>4. n - l \in 0 .. n-l /\ l + (n - l) = n
    OBVIOUS
  <2> QED BY <2>3, <2>4
<1>3. Begins(f[k], f[n])
  BY <1>2
<1>4. CASE k < n
  <2> DEFINE m == k + 1
  <2>1. m \in 1 .. n /\ m - 1 = k /\ m \in 0 .. n
    BY <1>4
  <2> HIDE DEF m
  <2>2. f[m] = f[k] \o g[m] /\ f[k] \in Seq(Symbol) /\ g[m] \in Seq(Symbol)
    BY <1>1, <2>1
  <2>3. /\ Len(f[m]) = Len(f[k]) + Len(g[m])
        /\ \A e \in 1 .. Len(g[m]) : f[m][Len(f[k]) + e] = g[m][e]
    <3> DEFINE a == f[k]
               b == g[m]
    <3>1. a \in Seq(Symbol) /\ b \in Seq(Symbol) /\ f[m] = a \o b
      BY <2>2
    <3> HIDE DEF a, b
    <3>2. Len(a \o b) = Len(a) + Len(b) /\ \A e \in 1 .. Len(b) : (a \o b)[Len(a) + e] = b[e]
      BY <3>1, ConcatIs
    <3> QED BY <3>1, <3>2 DEF a, b
  <2>4. Begins(f[m], f[n])
    BY <1>2, <2>1
  <2>5. Len(g[m]) \in Nat /\ Len(f[k]) \in Nat
    BY <2>2
  <2>6. /\ Len(f[m]) \in Nat /\ Len(f[n]) \in Nat /\ Len(f[m]) <= Len(f[n])
        /\ \A e \in 1 .. Len(f[m]) : f[n][e] = f[m][e]
    BY <2>4 DEF Begins
  <2>7. ASSUME NEW e \in 1 .. Len(g[m]) PROVE f[n][Len(f[k]) + e] = g[m][e]
    <3>1. Len(f[k]) + e \in 1 .. Len(f[m])
      <4> DEFINE a == Len(f[k])
                 b == Len(g[m])
      <4>1. a \in Nat /\ b \in Nat /\ e \in 1 .. b /\ Len(f[m]) = a + b
        BY <2>3, <2>5
      <4> HIDE DEF a, b
      <4>2. a + e \in 1 .. a + b
        BY <4>1
      <4> QED BY <4>1, <4>2 DEF a
    <3> QED BY <2>3, <2>6, <3>1
  <2>8. Len(f[k]) <= Len(f[n])
    BY <1>3 DEF Begins
  <2> QED BY <2>3, <2>5, <2>6, <2>7, <2>8 DEF PlacedIn, m
<1>5. CASE ~(k < n)
  BY <1>3, <1>5 DEF PlacedIn, Begins
<1> QED BY <1>4, <1>5

-----------------------------------------------------------------------------
(* The texts of the items, and of the format.                              *)

Spellings(items) == [k \in 1 .. Len(items) |-> Spelled(items[k])]

LEMMA SpelledUptoIs ==
  ASSUME NEW items \in Seq(Item)
  PROVE  /\ Len(items) \in Nat
         /\ Spellings(items) \in [1 .. Len(items) -> Seq(Symbol)]
         /\ Joins(SpelledUpto(items), Spellings(items), Len(items))
<1> DEFINE n == Len(items)
           g == Spellings(items)
           Q(f) == f = [k \in 0 .. n |-> IF k = 0 THEN <<>> ELSE f[k-1] \o Spelled(items[k])]
<1>1. n \in Nat
  OBVIOUS
<1>2. g \in [1 .. n -> Seq(Symbol)] /\ \A k \in 1 .. n : g[k] = Spelled(items[k])
  <2>1. \A k \in 1 .. n : items[k] \in Item
    OBVIOUS
  <2>2. \A k \in 1 .. n : Spelled(items[k]) \in Seq(Symbol)
    BY <2>1, SpelledSeq
  <2> QED BY <2>2 DEF Spellings
<1> HIDE DEF n, g
<1>3. ASSUME NEW f PROVE Joins(f, g, n) <=> Q(f)
  <2>1. \A k \in 0 .. n :
          (IF k = 0 THEN <<>> ELSE f[k-1] \o g[k])
            = (IF k = 0 THEN <<>> ELSE f[k-1] \o Spelled(items[k]))
    <3>1. \A k \in 0 .. n : k # 0 => k \in 1 .. n
      BY <1>1
    <3> QED BY <1>2, <3>1
  <2>2. [k \in 0 .. n |-> IF k = 0 THEN <<>> ELSE f[k-1] \o g[k]]
         = [k \in 0 .. n |-> IF k = 0 THEN <<>> ELSE f[k-1] \o Spelled(items[k])]
    BY <2>1
  <2> QED BY <2>2 DEF Joins
<1>4. \E f : Q(f)
  <2>1. PICK f : Joins(f, g, n)
    BY <1>1, <1>2, JoinExists
  <2>2. Q(f)
    BY <1>3, <2>1, Zenon
  <2> QED BY <2>2, Zenon
<1>5. SpelledUpto(items) = CHOOSE f : Q(f)
  BY DEF SpelledUpto, n
<1>6. Q(SpelledUpto(items))
  <2> HIDE DEF Q
  <2> QED BY <1>4, <1>5
<1>7. Joins(SpelledUpto(items), g, n)
  BY <1>3, <1>6, Zenon
<1> QED BY <1>1, <1>2, <1>7 DEF n, g

(* Where the k-th item starts in a format, less 1.                         *)
Place(items, k) == Len(SpelledUpto(items)[k])

LEMMA PlaceIs ==
  ASSUME NEW items \in Seq(Item), NEW k \in 0 .. Len(items), NEW fmt, fmt = SpelledAll(items)
  PROVE  /\ Place(items, k) \in Nat /\ Len(fmt) \in Nat /\ fmt \in Seq(Symbol)
         /\ Place(items, k) <= Len(fmt)
         /\ Place(items, 0) = 0
         /\ k = Len(items) => Place(items, k) = Len(fmt)
         /\ k < Len(items) =>
              /\ items[k+1] \in Item
              /\ Place(items, k + 1) = Place(items, k) + Len(Spelled(items[k+1]))
              /\ Place(items, k + 1) <= Len(fmt)
              /\ \A e \in 1 .. Len(Spelled(items[k+1])) :
                   fmt[Place(items, k) + e] = Spelled(items[k+1])[e]
<1> DEFINE n == Len(items)
           f == SpelledUpto(items)
           g == Spellings(items)
<1>1. n \in Nat /\ g \in [1 .. n -> Seq(Symbol)] /\ Joins(f, g, n)
  BY SpelledUptoIs
<1>2. fmt = f[n]
  BY DEF SpelledAll
<1>3. k < n => k + 1 \in 1 .. n /\ g[k+1] = Spelled(items[k+1]) /\ items[k+1] \in Item
  <2>1. k < n => k + 1 \in 1 .. n
    BY <1>1
  <2> QED BY <2>1 DEF Spellings
<1> HIDE DEF f, g, n
<1>4. k \in 0 .. n
  BY DEF n
<1>5. /\ Len(f[k]) \in Nat /\ Len(f[n]) \in Nat /\ Len(f[k]) <= Len(f[n])
      /\ k < n => /\ Len(f[k+1]) = Len(f[k]) + Len(g[k+1])
                  /\ Len(f[k+1]) <= Len(f[n])
                  /\ \A e \in 1 .. Len(g[k+1]) : f[n][Len(f[k]) + e] = g[k+1][e]
  <2>1. PlacedIn(f, g, n, k)
    BY <1>1, <1>4, JoinedPlaces, Zenon
  <2> QED BY <2>1 DEF PlacedIn
<1>6. f[0] = <<>> /\ f[n] \in Seq(Symbol)
  <2>1. n \in 0 .. n
    BY <1>1
  <2> QED BY <1>1, <2>1, JoinsAre
<1>7. Place(items, k) = Len(f[k]) /\ Place(items, k + 1) = Len(f[k+1]) /\ Place(items, 0) = Len(f[0])
  BY DEF Place, f
<1>8. Place(items, 0) = 0
  <2>1. Len(<<>>) = 0
    OBVIOUS
  <2> QED BY <1>6, <1>7, <2>1
<1> QED BY <1>2, <1>3, <1>5, <1>6, <1>7, <1>8 DEF n

-----------------------------------------------------------------------------
(* The arguments.                                                          *)

LEMMA TakenUptoIs ==
  ASSUME NEW items \in Seq(Item)
  PROVE  /\ \A k \in 0 .. Len(items) : TakenUpto(items)[k] \in Nat
         /\ TakenUpto(items)[0] = 0
         /\ \A k \in 1 .. Len(items) :
              TakenUpto(items)[k] = IF TakesArgument(items[k]) THEN TakenUpto(items)[k-1] + 1
                                    ELSE TakenUpto(items)[k-1]
<1> DEFINE n == Len(items)
           next(k, x) == IF TakesArgument(items[k]) THEN x + 1 ELSE x
           Q(f) == f = [k \in 0 .. n |->
                          IF k = 0 THEN 0 ELSE IF TakesArgument(items[k]) THEN f[k-1] + 1
                                               ELSE f[k-1]]
           step == [k \in 1 .. n |-> [x \in Nat |-> next(k, x)]]
           f == TakenUpto(items)
<1>1. n \in Nat
  OBVIOUS
<1>2. step \in [1 .. n -> [Nat -> Nat]]
  OBVIOUS
<1>3. PICK h \in [0 .. n -> Nat] : Iterates(h, n, 0, step)
  <2>1. 0 \in Nat
    OBVIOUS
  <2> HIDE DEF step, n
  <2> QED BY <1>1, <1>2, <2>1, Recursion
<1>4. Q(h)
  <2>1. \A k \in 0 .. n : h[k] = IF k = 0 THEN 0 ELSE step[k][h[k-1]]
    <3> HIDE DEF step
    <3> QED BY <1>3 DEF Iterates
  <2>2. \A k \in 0 .. n : k # 0 => k \in 1 .. n /\ k - 1 \in 0 .. n
    OBVIOUS
  <2>3. \A k \in 0 .. n : k # 0 => step[k][h[k-1]] = next(k, h[k-1])
    BY <1>3, <2>2
  <2> HIDE DEF step, n
  <2>4. \A k \in 0 .. n : h[k] = IF k = 0 THEN 0 ELSE next(k, h[k-1])
    BY <2>1, <2>3
  <2> QED BY <1>3, <2>4
<1>5. Q(f)
  <2>1. f = CHOOSE x : Q(x)
    BY DEF TakenUpto
  <2> HIDE DEF Q, f
  <2> QED BY <1>4, <2>1
<1> HIDE DEF f, step, n
<1>6. \A k \in 0 .. n : f[k] = IF k = 0 THEN 0 ELSE next(k, f[k-1])
  BY <1>5
<1>7. f[0] = 0 /\ \A k \in 1 .. n : f[k] = next(k, f[k-1])
  <2>1. 0 \in 0 .. n /\ \A k \in 1 .. n : k \in 0 .. n /\ k # 0
    BY <1>1
  <2> QED BY <1>6, <2>1
<1>8. \A k \in 0 .. n : f[k] \in Nat
  <2>1. ASSUME NEW k \in 1 .. n, f[k-1] \in Nat PROVE f[k] \in Nat
    BY <1>7, <2>1
  <2>2. f[0] \in Nat
    BY <1>7
  <2> QED BY <1>1, <2>1, <2>2, AllAlong
<1> QED BY <1>7, <1>8 DEF f, n

LEMMA TakenGrows ==
  ASSUME NEW items \in Seq(Item), NEW k \in 0 .. Len(items)
  PROVE  TakenUpto(items)[k] <= TakenUpto(items)[Len(items)]
<1> DEFINE n == Len(items)
           f == TakenUpto(items)
           T == {d \in 0 .. n - k : f[k] <= f[k + d]}
<1>1. n \in Nat /\ k \in 0 .. n
  OBVIOUS
<1>2. /\ \A m \in 0 .. n : f[m] \in Nat
      /\ \A m \in 1 .. n : f[m] = f[m-1] + 1 \/ f[m] = f[m-1]
  BY TakenUptoIs
<1> HIDE DEF n, f
<1>3. 0 \in T
  BY <1>1, <1>2
<1>4. ASSUME NEW d \in 0 .. n-k-1, d \in T PROVE d + 1 \in T
  <2>1. k + (d + 1) \in 1 .. n /\ (k + (d + 1)) - 1 = k + d /\ k + d \in 0 .. n
        /\ d + 1 \in 0 .. n-k
    BY <1>1
  <2>2. f[k + (d + 1)] = f[k + d] + 1 \/ f[k + (d + 1)] = f[k + d]
    BY <1>2, <2>1
  <2>3. f[k] <= f[k + d] /\ f[k] \in Nat /\ f[k + d] \in Nat
    BY <1>1, <1>2, <1>4, <2>1
  <2>4. f[k] <= f[k + (d + 1)]
    BY <2>2, <2>3
  <2> QED BY <2>1, <2>4
<1>5. 0 .. n-k \subseteq T
  <2>1. n - k \in Nat
    BY <1>1
  <2> HIDE DEF T
  <2> QED BY <1>3, <1>4, <2>1, SetInduction
<1>6. n - k \in 0 .. n-k /\ k + (n - k) = n
  BY <1>1
<1> QED BY <1>5, <1>6 DEF f, n

-----------------------------------------------------------------------------
(* Padding.                                                                *)

Fill(n) == IF n > 0 THEN n ELSE 0

PadText(it, b1, b2) ==
  LET fill == Fill(it.width - Len(b1) - Len(b2))
  IN CASE it.left -> b1 \o b2 \o Times(fill, " ")
       [] it.zero /\ ~it.left -> b1 \o Times(fill, "0") \o b2
       [] OTHER -> Times(fill, " ") \o b1 \o b2

(* What a directive has left in props after m of its l's.                  *)
PropsOf(it, m) ==
  [pad |-> IF it.zero THEN "0" ELSE " ",
   npad |-> IF it.left THEN -it.width ELSE it.width,
   alternate |-> it.alt, nlong |-> m]

LEMMA FieldIs ==
  ASSUME NEW it, NEW a
  PROVE  Field(it, a) = PadText(it, Body(it, a)[1], Body(it, a)[2])
  BY DEF Field, PadText, Fill

LEMMA TimesSymbol ==
  ASSUME NEW n \in Nat
  PROVE  /\ Times(n, " ") \in Seq(Symbol) /\ Times(n, "0") \in Seq(Symbol)
         /\ n = 0 => Times(n, " ") = <<>> /\ Times(n, "0") = <<>>
<1>1. " " \in Symbol /\ "0" \in Symbol
  BY ZeroIs DEF Symbol
<1>2. ASSUME NEW c \in Symbol PROVE Times(n, c) \in Seq(Symbol) /\ (n = 0 => Times(n, c) = <<>>)
  <2>1. Times(n, c) \in Seq(Symbol) /\ Len(Times(n, c)) = n
    BY TimesIs
  <2>2. n = 0 => Times(n, c) = <<>>
    BY <2>1, EmptySeq
  <2> QED BY <2>1, <2>2
<1> QED BY <1>1, <1>2

LEMMA print_strIs ==
  ASSUME NEW text \in Seq(Symbol), NEW p, NEW n \in Int, p.npad = n
  PROVE  /\ n > 0 => print_str(text, p) = Times(Fill(n - Len(text)), p.pad) \o text
         /\ n < 0 => print_str(text, p) = text \o Times(Fill(-n - Len(text)), " ")
         /\ n = 0 => print_str(text, p) = text
<1>1. print_str(text, p) =
        CASE n > 0 -> Times(Fill(Abs(n) - Len(text)), p.pad) \o text
          [] n < 0 -> text \o Times(Fill(Abs(n) - Len(text)), " ")
          [] OTHER -> text
  BY DEF print_str, Fill
<1>2. CASE n > 0
  <2>2. Abs(n) = n /\ ~(n < 0) /\ n # 0
    BY <1>2 DEF Abs
  <2>1. print_str(text, p) = Times(Fill(Abs(n) - Len(text)), p.pad) \o text
    BY <1>1, <1>2, <2>2
  <2> QED BY <2>1, <2>2
<1>3. CASE n < 0
  <2>2. Abs(n) = -n /\ ~(n > 0) /\ n # 0
    BY <1>3 DEF Abs
  <2>1. print_str(text, p) = text \o Times(Fill(Abs(n) - Len(text)), " ")
    BY <1>1, <1>3, <2>2
  <2> QED BY <2>1, <2>2
<1>4. CASE n = 0
  <2>1. ~(n > 0) /\ ~(n < 0)
    BY <1>4
  <2> QED BY <1>1, <2>1
<1>5. n > 0 \/ n < 0 \/ n = 0
  OBVIOUS
<1> QED BY <1>2, <1>3, <1>4, <1>5

LEMMA ConcatSymbol ==
  ASSUME NEW s \in Seq(Symbol), NEW t \in Seq(Symbol)
  PROVE  s \o t \in Seq(Symbol)
  BY ConcatIs

LEMMA PadTextIs ==
  ASSUME NEW it \in Item, NEW b1 \in Seq(Symbol), NEW b2 \in Seq(Symbol)
  PROVE  LET fill == Fill(it.width - Len(b1) - Len(b2)) IN
           /\ fill \in Nat
           /\ it.left => PadText(it, b1, b2) = (b1 \o b2) \o Times(fill, " ")
           /\ it.zero /\ ~it.left => PadText(it, b1, b2) = (b1 \o Times(fill, "0")) \o b2
           /\ ~it.zero /\ ~it.left => PadText(it, b1, b2) = (Times(fill, " ") \o b1) \o b2
           /\ PadText(it, b1, b2) \in Seq(Symbol)
<1> DEFINE fill == Fill(it.width - Len(b1) - Len(b2))
<1>1. it.left \in BOOLEAN /\ it.zero \in BOOLEAN /\ it.width \in Nat
      /\ Len(b1) \in Nat /\ Len(b2) \in Nat
  BY DEF Item
<1>2. fill \in Nat
  BY <1>1 DEF Fill
<1>3. PadText(it, b1, b2) =
        CASE it.left -> (b1 \o b2) \o Times(fill, " ")
          [] it.zero /\ ~it.left -> (b1 \o Times(fill, "0")) \o b2
          [] OTHER -> (Times(fill, " ") \o b1) \o b2
  BY DEF PadText
<1> HIDE DEF fill
<1>4. Times(fill, " ") \in Seq(Symbol) /\ Times(fill, "0") \in Seq(Symbol)
  BY <1>2, TimesSymbol
<1>5. CASE it.left
  <2>1. PadText(it, b1, b2) = (b1 \o b2) \o Times(fill, " ")
    BY <1>3, <1>5
  <2>2. PadText(it, b1, b2) \in Seq(Symbol)
    BY <1>4, <2>1, ConcatSymbol, Zenon
  <2> QED BY <1>2, <1>5, <2>1, <2>2 DEF fill
<1>6. CASE it.zero /\ ~it.left
  <2>1. PadText(it, b1, b2) = (b1 \o Times(fill, "0")) \o b2
    BY <1>3, <1>6
  <2>2. PadText(it, b1, b2) \in Seq(Symbol)
    BY <1>4, <2>1, ConcatSymbol, Zenon
  <2> QED BY <1>2, <1>6, <2>1, <2>2 DEF fill
<1>7. CASE ~it.zero /\ ~it.left
  <2>1. PadText(it, b1, b2) = (Times(fill, " ") \o b1) \o b2
    BY <1>3, <1>7
  <2>2. PadText(it, b1, b2) \in Seq(Symbol)
    BY <1>4, <2>1, ConcatSymbol, Zenon
  <2> QED BY <1>2, <1>7, <2>1, <2>2 DEF fill
<1> QED BY <1>1, <1>5, <1>6, <1>7

(* print_str pads as the field asks, when zeros have no prefix before them.*)
LEMMA PadPlain ==
  ASSUME NEW it \in Item, NEW p, p.pad = PropsOf(it, 0).pad, p.npad = PropsOf(it, 0).npad,
         it.left => it.width > 0,
         NEW b1 \in Seq(Symbol), NEW b2 \in Seq(Symbol),
         it.zero /\ ~it.left => b1 = <<>>
  PROVE  print_str(b1 \o b2, p) = PadText(it, b1, b2)
<1> DEFINE fill == Fill(it.width - Len(b1) - Len(b2))
           text == b1 \o b2
           w == it.width
           n == IF it.left THEN -w ELSE w
           blanks == Times(fill, " ")
           zeros == Times(fill, "0")
<1>1. it.left \in BOOLEAN /\ it.zero \in BOOLEAN /\ w \in Nat
      /\ Len(b1) \in Nat /\ Len(b2) \in Nat
  BY DEF Item
<1>2. p.pad = (IF it.zero THEN "0" ELSE " ") /\ p.npad = n
  BY DEF PropsOf
<1>3. text \in Seq(Symbol) /\ Len(text) = Len(b1) + Len(b2)
  BY ConcatIs
<1>4. fill \in Nat /\ w - Len(text) = w - Len(b1) - Len(b2)
  BY <1>1, <1>3 DEF Fill
<1>5. /\ it.left => PadText(it, b1, b2) = text \o blanks
      /\ it.zero /\ ~it.left => PadText(it, b1, b2) = (b1 \o zeros) \o b2
      /\ ~it.zero /\ ~it.left => PadText(it, b1, b2) = (blanks \o b1) \o b2
  BY PadTextIs
<1>6. n \in Int
  BY <1>1
<1>7. fill = Fill(w - Len(text))
  BY <1>4
<1>8. w = 0 => fill = 0
  BY <1>1 DEF Fill
<1> HIDE DEF fill, text, w
<1>9. /\ blanks \in Seq(Symbol) /\ zeros \in Seq(Symbol)
      /\ fill = 0 => blanks = <<>> /\ zeros = <<>>
  BY <1>4, TimesSymbol
<1> HIDE DEF n
<1>10. /\ n > 0 => print_str(text, p) = Times(Fill(n - Len(text)), p.pad) \o text
       /\ n < 0 => print_str(text, p) = text \o Times(Fill(-n - Len(text)), " ")
       /\ n = 0 => print_str(text, p) = text
  BY <1>2, <1>3, <1>6, print_strIs
<1>11. blanks \o text = (blanks \o b1) \o b2
  <2> HIDE DEF blanks
  <2> QED BY <1>9, ConcatAssociative DEF text
<1>12. it.zero /\ ~it.left => zeros \o text = (b1 \o zeros) \o b2
  <2> SUFFICES ASSUME it.zero, ~it.left PROVE zeros \o text = (b1 \o zeros) \o b2
    OBVIOUS
  <2>1. b1 = <<>>
    OBVIOUS
  <2> HIDE DEF zeros
  <2>2. <<>> \o b2 = b2 /\ <<>> \o zeros = zeros
    BY <1>9, ConcatEmptySeq
  <2>3. text = b2
    BY <2>1, <2>2 DEF text
  <2> QED BY <2>1, <2>2, <2>3
<1>13. CASE it.left
  <2>1. n < 0 /\ -n = w
    BY <1>1, <1>13 DEF n, w
  <2>2. print_str(text, p) = text \o blanks
    BY <1>7, <1>10, <2>1
  <2>3. PadText(it, b1, b2) = text \o blanks
    BY <1>5, <1>13
  <2> QED BY <2>2, <2>3 DEF text
<1>14. CASE ~it.left /\ w > 0
  <2>1. n > 0 /\ n = w
    BY <1>14 DEF n
  <2>2. print_str(text, p) = Times(fill, p.pad) \o text
    BY <1>7, <1>10, <2>1
  <2>3. CASE it.zero
    <3>1. print_str(text, p) = zeros \o text
      BY <1>2, <2>2, <2>3
    <3>2. PadText(it, b1, b2) = (b1 \o zeros) \o b2
      BY <1>5, <1>14, <2>3
    <3>3. zeros \o text = (b1 \o zeros) \o b2
      BY <1>12, <1>14, <2>3
    <3> QED BY <3>1, <3>2, <3>3 DEF text
  <2>4. CASE ~it.zero
    <3>1. print_str(text, p) = blanks \o text
      BY <1>2, <2>2, <2>4
    <3>2. PadText(it, b1, b2) = (blanks \o b1) \o b2
      BY <1>5, <1>14, <2>4
    <3> QED BY <1>11, <3>1, <3>2 DEF text
  <2> QED BY <2>3, <2>4
<1>15. CASE ~it.left /\ w = 0
  <2>1. n = 0
    BY <1>15 DEF n
  <2>2. print_str(text, p) = text
    BY <1>10, <2>1
  <2>3. blanks = <<>> /\ zeros = <<>>
    BY <1>8, <1>9, <1>15
  <2>4. <<>> \o text = text
    BY <1>3, ConcatEmptySeq
  <2>5. CASE it.zero
    <3>1. PadText(it, b1, b2) = zeros \o text
      BY <1>5, <1>12, <1>15, <2>5
    <3> QED BY <2>2, <2>3, <2>4, <3>1 DEF text
  <2>6. CASE ~it.zero
    <3>1. PadText(it, b1, b2) = blanks \o text
      BY <1>5, <1>11, <1>15, <2>6
    <3> QED BY <2>2, <2>3, <2>4, <3>1 DEF text
  <2> QED BY <2>5, <2>6
<1>16. it.left \/ (~it.left /\ w > 0) \/ (~it.left /\ w = 0)
  BY <1>1
<1> QED BY <1>13, <1>14, <1>15, <1>16

(* Zeros between "0x" and the digits: the width less two for the digits.   *)
LEMMA PadPrefix ==
  ASSUME NEW it \in Item, it.zero, ~it.left, NEW b2 \in Seq(Symbol), NEW p, NEW less,
         less = (IF it.width <= 0 THEN it.width ELSE IF it.width > 2 THEN it.width - 2 ELSE 0),
         p.npad = less, p.pad = "0"
  PROVE  <<"0", "x">> \o print_str(b2, p) = PadText(it, <<"0", "x">>, b2)
<1> DEFINE b1 == <<"0", "x">>
           fill == Fill(it.width - Len(b1) - Len(b2))
           w == it.width
<1>1. w \in Nat /\ Len(b2) \in Nat
  BY DEF Item
<1>2. b1 \in Seq(Symbol) /\ Len(b1) = 2
  <2>1. "0" \in Symbol /\ "x" \in Symbol
    BY ZeroIs DEF Symbol
  <2> QED BY <2>1
<1> HIDE DEF b1
<1>3. fill \in Nat /\ PadText(it, b1, b2) = (b1 \o Times(fill, "0")) \o b2
  BY <1>2, PadTextIs
<1>4. fill = Fill(w - 2 - Len(b2))
  BY <1>2
<1>5. /\ Times(fill, "0") \in Seq(Symbol)
      /\ fill = 0 => Times(fill, "0") = <<>>
  BY <1>3, TimesSymbol
<1>6. less \in Int /\ less = IF w > 2 THEN w - 2 ELSE 0
  BY <1>1
<1>7. /\ less > 0 => print_str(b2, p) = Times(Fill(less - Len(b2)), "0") \o b2
      /\ less = 0 => print_str(b2, p) = b2
  BY <1>6, print_strIs
<1> HIDE DEF fill, w
<1>8. CASE w > 2
  <2>0. less > 0 /\ less = w - 2
    BY <1>1, <1>6, <1>8
  <2>1. print_str(b2, p) = Times(fill, "0") \o b2
    BY <1>4, <1>7, <2>0
  <2>2. b1 \o (Times(fill, "0") \o b2) = (b1 \o Times(fill, "0")) \o b2
    BY <1>2, <1>5, ConcatAssociative
  <2> QED BY <1>3, <2>1, <2>2 DEF b1
<1>9. CASE w <= 2
  <2>1. print_str(b2, p) = b2
    <3>0. ~(w > 2)
      BY <1>1, <1>9
    <3>1. less = 0
      BY <1>6, <3>0
    <3> QED BY <1>7, <3>1
  <2>2. fill = 0
    BY <1>1, <1>4, <1>9 DEF Fill
  <2>3. b1 \o Times(fill, "0") = b1
    BY <1>2, <1>5, <2>2, ConcatEmptySeq
  <2> QED BY <1>3, <2>1, <2>3 DEF b1
<1> QED BY <1>1, <1>8, <1>9

-----------------------------------------------------------------------------
(* The conversions of my_vsnprintf.                                        *)

LessTwo(n) == IF n <= 0 THEN n ELSE IF n > 2 THEN n - 2 ELSE 0

LEMMA print_unsignedBody ==
  ASSUME NEW base, IsTable(base, digits, Symbol), NEW v \in Nat, NEW body,
         body = SE!Reverse(LowFirst(v, base, digits))
  PROVE  /\ v # 0 => body = Numeral(v, base, digits)
         /\ v = 0 => Numeral(v, base, digits) = <<"0">>
<1>1. digits[1] = "0"
  BY TablesAre
<1> QED BY <1>1, DigitsOf

(* No prefix: the value is zero, or none was asked for.                    *)
LEMMA print_unsignedPlain ==
  ASSUME NEW base, IsTable(base, digits, Symbol), NEW v \in Nat, NEW p,
         v = 0 \/ ~p.alternate \/ base # 16
  PROVE  print_unsigned(v, base, p) = print_str(Numeral(v, base, digits), p)
<1> DEFINE num == Numeral(v, base, digits)
           body == SE!Reverse(LowFirst(v, base, digits))
           prefixed == v # 0 /\ p.alternate /\ base = 16
<1>1. (v # 0 => body = num) /\ (v = 0 => num = <<"0">>)
  BY print_unsignedBody
<1>2. print_unsigned(v, base, p) =
        CASE v = 0 -> print_str(<<"0">>, p)
          [] prefixed /\ p.pad = "0" ->
               <<"0", "x">> \o print_str(body, [p EXCEPT !.npad = LessTwo(p.npad)])
          [] prefixed /\ p.pad # "0" -> print_str(<<"0", "x">> \o body, p)
          [] OTHER -> print_str(body, p)
  BY DEF print_unsigned, LessTwo
<1> HIDE DEF num, body
<1>3. CASE v = 0
  BY <1>1, <1>2, <1>3 DEF num
<1>4. CASE v # 0
  BY <1>1, <1>2, <1>4 DEF num
<1> QED BY <1>3, <1>4

LEMMA print_unsignedPrefix ==
  ASSUME IsTable(16, digits, Symbol), NEW v \in Nat, NEW p, v # 0, p.alternate
  PROVE  LET num == Numeral(v, 16, digits) IN
         /\ p.pad # "0" => print_unsigned(v, 16, p) = print_str(<<"0", "x">> \o num, p)
         /\ p.pad = "0" =>
              print_unsigned(v, 16, p) =
                <<"0", "x">> \o print_str(num, [p EXCEPT !.npad = LessTwo(p.npad)])
<1> DEFINE num == Numeral(v, 16, digits)
           body == SE!Reverse(LowFirst(v, 16, digits))
<1>1. body = num
  BY print_unsignedBody
<1>2. print_unsigned(v, 16, p) =
        CASE v = 0 -> print_str(<<"0">>, p)
          [] p.pad = "0" ->
               <<"0", "x">> \o print_str(body, [p EXCEPT !.npad = LessTwo(p.npad)])
          [] p.pad # "0" -> print_str(<<"0", "x">> \o body, p)
          [] OTHER -> print_str(body, p)
  BY DEF print_unsigned, LessTwo
<1> HIDE DEF num, body
<1> QED BY <1>1, <1>2 DEF num

LEMMA ArgumentIs ==
  ASSUME NEW a \in Argument, NEW w \in Nat \ {0}
  PROVE  /\ SignedWord(a.word, w) \in Int /\ Unsigned(a.word, w) \in Nat
         /\ a.str \in Seq(Symbol)
<1>1. a.word \in Int /\ a.str \in Seq(STRING)
  BY WidthsAre DEF Argument
<1>2. a.word % w \in 0 .. w-1
  BY <1>1, ModIs
<1>3. Unsigned(a.word, w) \in Nat
  <2> DEFINE r == a.word % w
  <2> HIDE DEF r
  <2>1. r \in Nat
    BY <1>2 DEF r
  <2> QED BY <2>1 DEF Unsigned, r
<1>4. a.str \in Seq(Symbol)
  <2>1. STRING \subseteq Symbol
    BY DEF Symbol
  <2> QED BY <1>1, <2>1, SeqMonotonic
<1> QED BY <1>1, <1>3, <1>4, SignedInt

(* The width of the word that a directive takes.                           *)
WidthOf(it) == IF it.long = 0 /\ it.conv # "p" THEN IntW ELSE LongW

LEMMA BodyIs ==
  ASSUME NEW it, NEW a
  PROVE  LET s == SignedWord(a.word, WidthOf(it))
             u == Unsigned(a.word, WidthOf(it))
             hex == (it.alt /\ u # 0) \/ job.fn = "simple_sprintf"
         IN
         /\ it.conv = "literal" => Body(it, a) = <<<<>>, <<it.char>>>>
         /\ it.conv = "d" => Body(it, a) = <<Flag(s < 0, "-"), Numeral(Abs(s), 10, digits)>>
         /\ it.conv = "u" => Body(it, a) = <<<<>>, Numeral(u, 10, digits)>>
         /\ it.conv = "x" =>
              Body(it, a) = <<IF hex THEN <<"0", "x">> ELSE <<>>, Numeral(u, 16, digits)>>
         /\ it.conv = "X" => Body(it, a) = <<<<"0", "X">>, Numeral(u, 16, Upper)>>
         /\ it.conv = "p" =>
              Body(it, a) = <<IF u = 0 THEN <<>> ELSE <<"0", "x">>, Numeral(u, 16, digits)>>
         /\ it.conv \in {"s", "c"} => Body(it, a) = <<<<>>, a.str>>
         /\ it.conv = "%" => Body(it, a) = <<<<>>, <<"%">>>>
  BY DEF Body, WidthOf

LEMMA WidthOfIs == \A it : WidthOf(it) \in Nat \ {0}
  BY WidthsAre DEF WidthOf

(* What the converter finds: its character, its flags and its argument.    *)
Ready(it, a) ==
  /\ job.fn = "my_vsnprintf" /\ Char = it.conv
  /\ props = PropsOf(it, it.long)
  /\ TakesArgument(it) => Word = a.word /\ Str = a.str

LEMMA ReadyIs ==
  ASSUME NEW it, NEW a, Ready(it, a), it.conv \in {"d", "u", "x", "p", "s", "c"}
  PROVE  /\ props = PropsOf(it, it.long) /\ Word = a.word /\ Str = a.str /\ Char = it.conv
         /\ it.conv # "p" => ArgWidth = WidthOf(it)
<1>1. TakesArgument(it)
  BY DEF TakesArgument
<1>2. props.nlong = it.long
  BY DEF Ready, PropsOf
<1>3. it.conv # "p" => ArgWidth = WidthOf(it)
  BY <1>2 DEF ArgWidth, WidthOf
<1> QED BY <1>1, <1>3 DEF Ready

Directive(it) == it \in Item /\ Sensible(it) /\ it.conv # "literal"

LEMMA DirectiveIs ==
  ASSUME NEW it, Directive(it)
  PROVE  /\ it.alt \in BOOLEAN /\ it.left \in BOOLEAN /\ it.zero \in BOOLEAN
         /\ it.width \in Nat /\ it.long \in Nat
         /\ it.left => it.width > 0
         /\ it.alt => it.conv = "x" /\ ~(it.left /\ it.zero)
         /\ it.zero \/ it.long > 0 => it.conv \in {"d", "u", "x"}
         /\ it.width > 0 => it.conv \in {"d", "u", "x", "p", "s"}
         /\ it.conv \in {"d", "u", "x", "p", "s", "c", "%"}
<1>1. /\ it.alt \in BOOLEAN /\ it.left \in BOOLEAN /\ it.zero \in BOOLEAN
      /\ it.width \in Nat /\ it.long \in Nat
  BY DEF Directive, Item
<1>2. Sensible(it) /\ it.conv # "literal"
  BY DEF Directive
<1>3. it.conv \in {"d", "u", "x", "p", "s", "c", "%"}
  BY <1>2 DEF Sensible, Number
<1> QED BY <1>1, <1>2, <1>3 DEF Sensible, Number

LEMMA PropsAre ==
  ASSUME NEW it, NEW m
  PROVE  /\ PropsOf(it, m).pad = PropsOf(it, 0).pad /\ PropsOf(it, m).npad = PropsOf(it, 0).npad
         /\ PropsOf(it, m).alternate = it.alt /\ PropsOf(it, m).nlong = m
         /\ PropsOf(it, m).pad = IF it.zero THEN "0" ELSE " "
  BY DEF PropsOf

LEMMA ConvertedD ==
  ASSUME NEW it, Directive(it), it.conv = "d", NEW a \in Argument, Fits(it, a), Ready(it, a)
  PROVE  Converted = Field(it, a)
<1> DEFINE s == SignedWord(a.word, WidthOf(it))
           b1 == Flag(s < 0, "-")
           b2 == Numeral(Abs(s), 10, digits)
           p == PropsOf(it, it.long)
<1>1. Body(it, a) = <<b1, b2>>
  BY BodyIs
<1>2. Field(it, a) = PadText(it, b1, b2)
  <2> HIDE DEF b1, b2
  <2> QED BY <1>1, FieldIs
<1>3. s \in Int
  BY WidthOfIs, ArgumentIs
<1>4. ArgWidth = WidthOf(it) /\ props = p /\ Word = a.word
  BY ReadyIs
<1>5. Converted = print_int(s, 10, p)
  BY <1>4, ReadyIs DEF Converted
<1>6. it.zero /\ ~it.left => b1 = <<>>
  <2>1. it.zero /\ ~it.left => s >= 0
    BY DEF Fits, WidthOf
  <2> HIDE DEF s
  <2> QED BY <1>3, <2>1 DEF Flag
<1> HIDE DEF s
<1>7. b1 \in Seq(Symbol) /\ b2 \in Seq(Symbol)
  <2>0. "-" \in Symbol
    BY DEF Symbol
  <2>1. (s < 0) \in BOOLEAN /\ IsTable(10, digits, Symbol)
    BY TablesAre
  <2>2. b1 \in Seq(Symbol)
    BY <2>0, <2>1, FlagIs
  <2>3. Abs(s) \in Nat
    BY <1>3, AbsIs
  <2>4. b2 \in Seq(Symbol)
    BY <2>1, <2>3, NumeralSeq
  <2> QED BY <2>2, <2>4
<1>8. IntText(s, 10) = b1 \o b2
  BY <1>3, TablesAre, IntTextIs DEF SignedNumeral
<1>9. print_int(s, 10, p) = print_str(b1 \o b2, p)
  <2> HIDE DEF b1, b2, p
  <2> QED BY <1>8 DEF print_int
<1>10. p.pad = PropsOf(it, 0).pad /\ p.npad = PropsOf(it, 0).npad
  BY PropsAre
<1> HIDE DEF b1, b2, p
<1>11. print_str(b1 \o b2, p) = PadText(it, b1, b2)
  <2>1. it \in Item /\ (it.left => it.width > 0)
    BY DirectiveIs DEF Directive
  <2>2. p.pad = PropsOf(it, 0).pad /\ p.npad = PropsOf(it, 0).npad
    BY <1>10
  <2> QED BY <1>6, <1>7, <2>1, <2>2, PadPlain
<1> QED BY <1>2, <1>5, <1>9, <1>11

(* A number without a sign or prefix, or a string.                         *)
LEMMA PlainText ==
  ASSUME NEW it, Directive(it), NEW b2 \in Seq(Symbol), NEW p,
         p.pad = PropsOf(it, 0).pad, p.npad = PropsOf(it, 0).npad
  PROVE  print_str(b2, p) = PadText(it, <<>>, b2)
<1>1. <<>> \in Seq(Symbol) /\ <<>> \o b2 = b2
  BY ConcatEmptySeq
<1>2. it \in Item /\ (it.left => it.width > 0)
  BY DirectiveIs DEF Directive
<1>3. print_str(<<>> \o b2, p) = PadText(it, <<>>, b2)
  BY <1>1, <1>2, PadPlain
<1> QED BY <1>1, <1>3

LEMMA ConvertedU ==
  ASSUME NEW it, Directive(it), it.conv = "u", NEW a \in Argument, Ready(it, a)
  PROVE  Converted = Field(it, a)
<1> DEFINE u == Unsigned(a.word, WidthOf(it))
           b2 == Numeral(u, 10, digits)
           p == PropsOf(it, it.long)
<1>1. Body(it, a) = <<<<>>, b2>>
  BY BodyIs
<1>2. Field(it, a) = PadText(it, <<>>, b2)
  <2> HIDE DEF b2
  <2> QED BY <1>1, FieldIs
<1>3. u \in Nat
  BY WidthOfIs, ArgumentIs
<1>4. ArgWidth = WidthOf(it) /\ props = p /\ Word = a.word
  BY ReadyIs
<1>5. Converted = print_unsigned(u, 10, p)
  BY <1>4, ReadyIs DEF Converted
<1>6. p.pad = PropsOf(it, 0).pad /\ p.npad = PropsOf(it, 0).npad
  BY PropsAre
<1> HIDE DEF u, p
<1>7. print_unsigned(u, 10, p) = print_str(b2, p)
  <2>1. 10 # 16 /\ IsTable(10, digits, Symbol)
    BY TablesAre
  <2> QED BY <1>3, <2>1, print_unsignedPlain
<1>8. b2 \in Seq(Symbol)
  BY <1>3, TablesAre, NumeralSeq
<1> HIDE DEF b2
<1>9. print_str(b2, p) = PadText(it, <<>>, b2)
  BY <1>6, <1>8, PlainText
<1> QED BY <1>2, <1>5, <1>7, <1>9

LEMMA PrefixSeq == <<"0", "x">> \in Seq(Symbol)
<1>1. "0" \in Symbol /\ "x" \in Symbol
  BY ZeroIs DEF Symbol
<1> QED BY <1>1

(* A hexadecimal number, with "0x" when it is asked for and is not zero.   *)
LEMMA HexText ==
  ASSUME NEW it, Directive(it), NEW u \in Nat, NEW p, NEW alt \in BOOLEAN,
         p = [PropsOf(it, it.long) EXCEPT !.alternate = alt],
         alt => ~(it.left /\ it.zero)
  PROVE  print_unsigned(u, 16, p) =
           PadText(it, IF alt /\ u # 0 THEN <<"0", "x">> ELSE <<>>, Numeral(u, 16, digits))
<1> DEFINE b2 == Numeral(u, 16, digits)
           x == <<"0", "x">>
<1>1. b2 \in Seq(Symbol)
  BY TablesAre, NumeralSeq
<1>2. /\ p.pad = PropsOf(it, 0).pad /\ p.npad = PropsOf(it, 0).npad
      /\ p.alternate = alt /\ p.pad = IF it.zero THEN "0" ELSE " "
      /\ p.npad = IF it.left THEN -it.width ELSE it.width
  BY DEF PropsOf
<1>3. IsTable(16, digits, Symbol)
  BY TablesAre
<1>4. it \in Item /\ (it.left => it.width > 0) /\ it.left \in BOOLEAN /\ it.zero \in BOOLEAN
  BY DirectiveIs DEF Directive
<1>5. x \in Seq(Symbol)
  BY PrefixSeq
<1> HIDE DEF b2, x
<1>6. CASE ~alt \/ u = 0
  <2>0. u = 0 \/ ~p.alternate \/ 16 # 16
    BY <1>2, <1>6
  <2>1. print_unsigned(u, 16, p) = print_str(b2, p)
    BY <1>3, <2>0, print_unsignedPlain DEF b2
  <2>2. print_str(b2, p) = PadText(it, <<>>, b2)
    BY <1>1, <1>2, PlainText
  <2> QED BY <1>6, <2>1, <2>2 DEF b2
<1>7. CASE alt /\ u # 0 /\ ~it.zero
  <2>1. p.pad # "0"
    <3>1. p.pad = " "
      BY <1>2, <1>7
    <3> QED BY <3>1
  <2>2. print_unsigned(u, 16, p) = print_str(x \o b2, p)
    <3>1. p.alternate
      BY <1>2, <1>7
    <3> QED BY <1>3, <1>7, <2>1, <3>1, print_unsignedPrefix DEF b2, x
  <2>3. it.zero /\ ~it.left => x = <<>>
    BY <1>7
  <2>4. print_str(x \o b2, p) = PadText(it, x, b2)
    BY <1>1, <1>2, <1>4, <1>5, <2>3, PadPlain
  <2> QED BY <1>7, <2>2, <2>4 DEF b2, x
<1>8. CASE alt /\ u # 0 /\ it.zero
  <2> DEFINE q == [p EXCEPT !.npad = LessTwo(p.npad)]
             less == LessTwo(it.width)
  <2>1. ~it.left
    BY <1>8
  <2>2. p.pad = "0" /\ p.npad = it.width
    BY <1>2, <1>8, <2>1
  <2>3. print_unsigned(u, 16, p) = x \o print_str(b2, q)
    <3>1. p.alternate
      BY <1>2, <1>8
    <3> QED BY <1>3, <1>8, <2>2, <3>1, print_unsignedPrefix DEF b2, x
  <2>4. q.pad = "0" /\ q.npad = less
    BY <2>2 DEF PropsOf
  <2>5. less = (IF it.width <= 0 THEN it.width ELSE IF it.width > 2 THEN it.width - 2 ELSE 0)
    BY DEF LessTwo
  <2> HIDE DEF q, less
  <2>6. <<"0", "x">> \o print_str(b2, q) = PadText(it, <<"0", "x">>, b2)
    BY <1>1, <1>4, <1>8, <2>1, <2>4, <2>5, PadPrefix
  <2> QED BY <1>8, <2>3, <2>6 DEF b2, x
<1> QED BY <1>4, <1>6, <1>7, <1>8

LEMMA RecordSame ==
  ASSUME NEW a, NEW b, NEW c, NEW d
  PROVE  [pad |-> a, npad |-> b, alternate |-> c, nlong |-> d]
           = [[pad |-> a, npad |-> b, alternate |-> c, nlong |-> d] EXCEPT !.alternate = c]
  OBVIOUS

LEMMA ConvertedX ==
  ASSUME NEW it, Directive(it), it.conv = "x", NEW a \in Argument, Ready(it, a)
  PROVE  Converted = Field(it, a)
<1> DEFINE u == Unsigned(a.word, WidthOf(it))
           b1 == IF it.alt /\ u # 0 THEN <<"0", "x">> ELSE <<>>
           b2 == Numeral(u, 16, digits)
           p == PropsOf(it, it.long)
<1>1. Body(it, a) = <<b1, b2>>
  <2>1. job.fn # "simple_sprintf"
    BY DEF Ready
  <2> QED BY <2>1, BodyIs
<1>2. Field(it, a) = PadText(it, b1, b2)
  <2> HIDE DEF b1, b2
  <2> QED BY <1>1, FieldIs
<1>3. u \in Nat
  BY WidthOfIs, ArgumentIs
<1>4. ArgWidth = WidthOf(it) /\ props = p /\ Word = a.word /\ Char = "x"
  BY ReadyIs
<1>5. Converted = print_unsigned(u, 16, p)
  BY <1>4 DEF Converted
<1>6. p = [p EXCEPT !.alternate = it.alt]
  <2> DEFINE pad == IF it.zero THEN "0" ELSE " "
             npad == IF it.left THEN -it.width ELSE it.width
             alternate == it.alt
             nlong == it.long
  <2>1. p = [pad |-> pad, npad |-> npad, alternate |-> alternate, nlong |-> nlong]
    BY DEF PropsOf
  <2>2. alternate = it.alt
    OBVIOUS
  <2> HIDE DEF p, pad, npad, alternate, nlong
  <2> QED BY <2>1, <2>2, RecordSame
<1>7. it.alt \in BOOLEAN /\ (it.alt => ~(it.left /\ it.zero))
  BY DirectiveIs
<1>8. print_unsigned(u, 16, p) = PadText(it, b1, b2)
  <2> HIDE DEF u
  <2> QED BY <1>3, <1>6, <1>7, HexText
<1> QED BY <1>2, <1>5, <1>8

LEMMA ConvertedP ==
  ASSUME NEW it, Directive(it), it.conv = "p", NEW a \in Argument, Ready(it, a)
  PROVE  Converted = Field(it, a)
<1> DEFINE u == Unsigned(a.word, LongW)
           b1 == IF u = 0 THEN <<>> ELSE <<"0", "x">>
           b2 == Numeral(u, 16, digits)
           p == [PropsOf(it, it.long) EXCEPT !.alternate = TRUE]
<1>0. WidthOf(it) = LongW
  BY DEF WidthOf
<1>1. Body(it, a) = <<b1, b2>>
  BY <1>0, BodyIs
<1>2. Field(it, a) = PadText(it, b1, b2)
  <2> HIDE DEF b1, b2
  <2> QED BY <1>1, FieldIs
<1>3. u \in Nat
  BY WidthsAre, ArgumentIs
<1>4. props = PropsOf(it, it.long) /\ Word = a.word /\ Char = "p"
  BY ReadyIs
<1>5. Converted = print_unsigned(u, 16, p)
  BY <1>4 DEF Converted
<1>6. ~(it.left /\ it.zero)
  <2>1. it.zero => it.conv \in {"d", "u", "x"}
    BY DirectiveIs
  <2> QED BY <2>1
<1> HIDE DEF u
<1>7. TRUE \in BOOLEAN /\ (TRUE => ~(it.left /\ it.zero))
  BY <1>6
<1>8. print_unsigned(u, 16, p) =
        PadText(it, IF TRUE /\ u # 0 THEN <<"0", "x">> ELSE <<>>, b2)
  BY <1>3, <1>7, HexText
<1>9. (IF TRUE /\ u # 0 THEN <<"0", "x">> ELSE <<>>) = b1
  OBVIOUS
<1> QED BY <1>2, <1>5, <1>8, <1>9

LEMMA ConvertedS ==
  ASSUME NEW it, Directive(it), it.conv = "s", NEW a \in Argument, Ready(it, a)
  PROVE  Converted = Field(it, a)
<1> DEFINE b2 == a.str
           p == PropsOf(it, it.long)
<1>1. Body(it, a) = <<<<>>, b2>>
  BY BodyIs
<1>2. Field(it, a) = PadText(it, <<>>, b2)
  <2> HIDE DEF b2
  <2> QED BY <1>1, FieldIs
<1>3. props = p /\ Str = b2 /\ Char = "s"
  BY ReadyIs
<1>4. Converted = print_str(b2, p)
  BY <1>3 DEF Converted
<1>5. b2 \in Seq(Symbol)
  BY WidthsAre, ArgumentIs
<1>6. p.pad = PropsOf(it, 0).pad /\ p.npad = PropsOf(it, 0).npad
  BY PropsAre
<1> HIDE DEF b2, p
<1>7. print_str(b2, p) = PadText(it, <<>>, b2)
  BY <1>5, <1>6, PlainText
<1> QED BY <1>2, <1>4, <1>7

(* A field without a width is its text.                                    *)
LEMMA NarrowField ==
  ASSUME NEW it \in Item, ~it.left, ~it.zero, it.width = 0,
         NEW b1 \in Seq(Symbol), NEW b2 \in Seq(Symbol)
  PROVE  PadText(it, b1, b2) = b1 \o b2
<1> DEFINE fill == Fill(it.width - Len(b1) - Len(b2))
<1>1. fill = 0
  <2>1. Len(b1) \in Nat /\ Len(b2) \in Nat
    OBVIOUS
  <2> QED BY <2>1 DEF Fill
<1>2. PadText(it, b1, b2) = (Times(fill, " ") \o b1) \o b2
  BY PadTextIs
<1>3. Times(0, " ") = <<>>
  <2>1. 0 \in Nat
    OBVIOUS
  <2> QED BY <2>1, TimesSymbol
<1>4. <<>> \o b1 = b1
  BY ConcatEmptySeq
<1> HIDE DEF fill
<1> QED BY <1>1, <1>2, <1>3, <1>4

LEMMA NarrowText ==
  ASSUME NEW it \in Item, ~it.left, ~it.zero, it.width = 0, NEW b2 \in Seq(Symbol)
  PROVE  PadText(it, <<>>, b2) = b2
<1>1. <<>> \in Seq(Symbol) /\ <<>> \o b2 = b2
  BY ConcatEmptySeq
<1> QED BY <1>1, NarrowField

LEMMA ConvertedC ==
  ASSUME NEW it, Directive(it), it.conv = "c", NEW a \in Argument, Ready(it, a)
  PROVE  Converted = Field(it, a)
<1> DEFINE b2 == a.str
<1>1. Body(it, a) = <<<<>>, b2>>
  BY BodyIs
<1>2. Field(it, a) = PadText(it, <<>>, b2)
  <2> HIDE DEF b2
  <2> QED BY <1>1, FieldIs
<1>3. Str = b2 /\ Char = "c"
  BY ReadyIs
<1>4. Converted = b2
  BY <1>3 DEF Converted
<1>5. b2 \in Seq(Symbol)
  BY WidthsAre, ArgumentIs
<1>6. it \in Item /\ ~it.left /\ ~it.zero /\ it.width = 0
  BY DirectiveIs DEF Directive
<1> HIDE DEF b2
<1> QED BY <1>2, <1>4, <1>5, <1>6, NarrowText

LEMMA PercentSeq == <<"%">> \in Seq(Symbol)
<1>1. "%" \in Symbol
  BY DEF Symbol
<1> QED BY <1>1

LEMMA ConvertedPercent ==
  ASSUME NEW it, Directive(it), it.conv = "%", NEW a, Ready(it, a)
  PROVE  Converted = Field(it, a)
<1>1. Body(it, a) = <<<<>>, <<"%">>>>
  BY BodyIs
<1>2. Field(it, a) = PadText(it, <<>>, <<"%">>)
  BY <1>1, FieldIs
<1>3. Converted = <<"%">>
  BY DEF Converted, Ready
<1>4. it \in Item /\ ~it.left /\ ~it.zero /\ it.width = 0
  BY DirectiveIs DEF Directive
<1>5. PadText(it, <<>>, <<"%">>) = <<"%">>
  BY <1>4, PercentSeq, NarrowText
<1> QED BY <1>2, <1>3, <1>5

(* What the converter adds is the field of the directive.                  *)
LEMMA ConvertedIs ==
  ASSUME NEW it, Directive(it), NEW a \in Argument, Fits(it, a), Ready(it, a)
  PROVE  Converted = Field(it, a)
<1>1. it.conv \in {"d", "u", "x", "p", "s", "c", "%"}
  BY DirectiveIs
<1> QED BY <1>1, ConvertedD, ConvertedU, ConvertedX, ConvertedP, ConvertedS, ConvertedC,
           ConvertedPercent

LEMMA LiteralField ==
  ASSUME NEW it \in Item, it.conv = "literal", ~it.left, ~it.zero, it.width = 0, NEW a
  PROVE  Field(it, a) = <<it.char>>
<1>1. Body(it, a) = <<<<>>, <<it.char>>>>
  BY BodyIs
<1>2. Field(it, a) = PadText(it, <<>>, <<it.char>>)
  BY <1>1, FieldIs
<1>3. <<it.char>> \in Seq(Symbol)
  <2>1. it.char \in Symbol
    BY DEF Item, Symbol
  <2> QED BY <2>1
<1>4. PadText(it, <<>>, <<it.char>>) = <<it.char>>
  BY <1>3, NarrowText
<1> QED BY <1>2, <1>4

(* The parts of every field are texts.                                     *)
LEMMA FieldSeq ==
  ASSUME NEW it \in Item, NEW a \in Argument,
         it.conv \in {"literal", "d", "u", "x", "X", "p", "s", "c", "%"}
  PROVE  Field(it, a) \in Seq(Symbol)
<1> DEFINE s == SignedWord(a.word, WidthOf(it))
           u == Unsigned(a.word, WidthOf(it))
<1>1. s \in Int /\ u \in Nat /\ a.str \in Seq(Symbol)
  BY WidthOfIs, ArgumentIs
<1>2. <<it.char>> \in Seq(Symbol)
  <2>1. it.char \in Symbol
    BY DEF Item, Symbol
  <2> QED BY <2>1
<1>3. <<>> \in Seq(Symbol) /\ <<"0", "x">> \in Seq(Symbol) /\ <<"0", "X">> \in Seq(Symbol)
  <2>1. "0" \in Symbol /\ "X" \in Symbol
    BY ZeroIs DEF Symbol
  <2> QED BY <2>1, PrefixSeq
<1>4. Flag(s < 0, "-") \in Seq(Symbol)
  <2>1. "-" \in Symbol
    BY DEF Symbol
  <2>2. (s < 0) \in BOOLEAN
    OBVIOUS
  <2> QED BY <2>1, <2>2, FlagIs
<1>5. /\ Numeral(Abs(s), 10, digits) \in Seq(Symbol) /\ Numeral(u, 10, digits) \in Seq(Symbol)
      /\ Numeral(u, 16, digits) \in Seq(Symbol) /\ Numeral(u, 16, Upper) \in Seq(Symbol)
  <2> HIDE DEF s, u
  <2>1. Abs(s) \in Nat
    BY <1>1, AbsIs
  <2> QED BY <1>1, <2>1, TablesAre, NumeralSeq
<1>6. \E b1, b2 \in Seq(Symbol) : Body(it, a) = <<b1, b2>>
  <2>1. CASE it.conv = "literal"
    <3>1. Body(it, a) = <<<<>>, <<it.char>>>>
      BY <2>1, BodyIs
    <3> QED BY <1>2, <1>3, <3>1
  <2>2. CASE it.conv = "d"
    <3>1. Body(it, a) = <<Flag(s < 0, "-"), Numeral(Abs(s), 10, digits)>>
      BY <2>2, BodyIs
    <3> QED BY <1>4, <1>5, <3>1
  <2>3. CASE it.conv = "u"
    <3>1. Body(it, a) = <<<<>>, Numeral(u, 10, digits)>>
      BY <2>3, BodyIs
    <3> QED BY <1>3, <1>5, <3>1
  <2>4. CASE it.conv = "x"
    <3> DEFINE hex == (it.alt /\ u # 0) \/ job.fn = "simple_sprintf"
               b1 == IF hex THEN <<"0", "x">> ELSE <<>>
    <3>1. Body(it, a) = <<b1, Numeral(u, 16, digits)>>
      BY <2>4, BodyIs
    <3>2. b1 \in Seq(Symbol)
      BY <1>3
    <3> HIDE DEF b1
    <3> QED BY <1>5, <3>1, <3>2
  <2>5. CASE it.conv = "X"
    <3>1. Body(it, a) = <<<<"0", "X">>, Numeral(u, 16, Upper)>>
      BY <2>5, BodyIs
    <3> QED BY <1>3, <1>5, <3>1
  <2>6. CASE it.conv = "p"
    <3> DEFINE b1 == IF u = 0 THEN <<>> ELSE <<"0", "x">>
    <3>1. Body(it, a) = <<b1, Numeral(u, 16, digits)>>
      BY <2>6, BodyIs
    <3>2. b1 \in Seq(Symbol)
      BY <1>3
    <3> HIDE DEF b1
    <3> QED BY <1>5, <3>1, <3>2
  <2>7. CASE it.conv \in {"s", "c"}
    <3>1. Body(it, a) = <<<<>>, a.str>>
      BY <2>7, BodyIs
    <3> QED BY <1>1, <1>3, <3>1
  <2>8. CASE it.conv = "%"
    <3>1. Body(it, a) = <<<<>>, <<"%">>>>
      BY <2>8, BodyIs
    <3> QED BY <1>3, <3>1, PercentSeq
  <2> QED BY <2>1, <2>2, <2>3, <2>4, <2>5, <2>6, <2>7, <2>8
<1>7. PICK b1 \in Seq(Symbol), b2 \in Seq(Symbol) : Body(it, a) = <<b1, b2>>
  BY <1>6
<1>8. Field(it, a) = PadText(it, b1, b2)
  BY <1>7, FieldIs
<1>9. PadText(it, b1, b2) \in Seq(Symbol)
  BY PadTextIs
<1> QED BY <1>8, <1>9

-----------------------------------------------------------------------------
(* The conversions of simple_sprintf.                                      *)

LEMMA SimpleTextIs ==
  ASSUME job.fn = "simple_sprintf", NEW it \in Item, Plain(it), it.conv # "literal",
         NEW a \in Argument, job.fmt[pos + 1] = it.conv,
         TakesArgument(it) => Word = a.word /\ Str = a.str
  PROVE  SimpleText = Field(it, a)
<1> DEFINE s == SignedWord(a.word, IntW)
           u == Unsigned(a.word, IntW)
<1>0. /\ it.conv \in {"d", "x", "X", "s", "c", "%"}
      /\ ~it.left /\ ~it.zero /\ it.width = 0 /\ it.long = 0
  BY DEF Plain
<1>1. WidthOf(it) = IntW
  BY <1>0 DEF WidthOf
<1>2. s \in Int /\ u \in Nat /\ a.str \in Seq(Symbol)
  BY WidthsAre, ArgumentIs
<1>3. it.conv # "%" => Word = a.word /\ Str = a.str
  BY <1>0 DEF TakesArgument
<1>4. /\ it.conv = "d" => SimpleText = itoa_decimal(s)
      /\ it.conv = "x" => SimpleText = itoa_hex(u, digits)
      /\ it.conv = "X" => SimpleText = itoa_hex(u, Upper)
      /\ it.conv \in {"s", "c"} => SimpleText = a.str
      /\ it.conv = "%" => SimpleText = <<"%">>
  BY <1>3 DEF SimpleText
<1>5. /\ it.conv = "d" => Body(it, a) = <<Flag(s < 0, "-"), Numeral(Abs(s), 10, digits)>>
      /\ it.conv = "x" => Body(it, a) = <<<<"0", "x">>, Numeral(u, 16, digits)>>
      /\ it.conv = "X" => Body(it, a) = <<<<"0", "X">>, Numeral(u, 16, Upper)>>
      /\ it.conv \in {"s", "c"} => Body(it, a) = <<<<>>, a.str>>
      /\ it.conv = "%" => Body(it, a) = <<<<>>, <<"%">>>>
  BY <1>1, BodyIs
<1> HIDE DEF s, u
<1>6. ASSUME NEW b1 \in Seq(Symbol), NEW b2 \in Seq(Symbol), Body(it, a) = <<b1, b2>>
      PROVE  Field(it, a) = b1 \o b2
  <2>1. Field(it, a) = PadText(it, b1, b2)
    BY <1>6, FieldIs
  <2>2. PadText(it, b1, b2) = b1 \o b2
    BY <1>0, NarrowField
  <2> QED BY <2>1, <2>2
<1>7. "-" \in Symbol /\ "0" \in Symbol /\ "X" \in Symbol
  BY ZeroIs DEF Symbol
<1>8. CASE it.conv = "d"
  <2> DEFINE b1 == Flag(s < 0, "-")
             b2 == Numeral(Abs(s), 10, digits)
  <2>1. b1 \in Seq(Symbol)
    <3>1. (s < 0) \in BOOLEAN
      OBVIOUS
    <3> QED BY <1>7, <3>1, FlagIs
  <2>2. b2 \in Seq(Symbol)
    <3>1. Abs(s) \in Nat
      BY <1>2, AbsIs
    <3> QED BY <3>1, TablesAre, NumeralSeq
  <2>3. itoa_decimal(s) = b1 \o b2
    BY <1>2, DecimalsAre DEF SignedNumeral
  <2> HIDE DEF b1, b2
  <2>4. Body(it, a) = <<b1, b2>>
    BY <1>5, <1>8 DEF b1, b2
  <2>5. Field(it, a) = b1 \o b2
    BY <1>6, <2>1, <2>2, <2>4
  <2> QED BY <1>4, <1>8, <2>3, <2>5
<1>9. CASE it.conv = "x"
  <2> DEFINE b2 == Numeral(u, 16, digits)
  <2>1. b2 \in Seq(Symbol)
    BY <1>2, TablesAre, NumeralSeq
  <2>2. itoa_hex(u, digits) = <<"0", "x">> \o b2
    BY <1>2, itoa_hexIs
  <2>3. Body(it, a) = <<<<"0", "x">>, b2>>
    BY <1>5, <1>9
  <2> HIDE DEF b2
  <2>4. Field(it, a) = <<"0", "x">> \o b2
    BY <1>6, <2>1, <2>3, PrefixSeq
  <2> QED BY <1>4, <1>9, <2>2, <2>4
<1>10. CASE it.conv = "X"
  <2> DEFINE b2 == Numeral(u, 16, Upper)
  <2>1. b2 \in Seq(Symbol)
    BY <1>2, TablesAre, NumeralSeq
  <2>2. itoa_hex(u, Upper) = <<"0", "X">> \o b2
    BY <1>2, itoa_hexIs
  <2>3. Body(it, a) = <<<<"0", "X">>, b2>>
    BY <1>5, <1>10
  <2>4. <<"0", "X">> \in Seq(Symbol)
    BY <1>7
  <2> HIDE DEF b2
  <2>5. Field(it, a) = <<"0", "X">> \o b2
    BY <1>6, <2>1, <2>3, <2>4
  <2> QED BY <1>4, <1>10, <2>2, <2>5
<1>11. CASE it.conv \in {"s", "c"}
  <2>1. Field(it, a) = PadText(it, <<>>, a.str)
    BY <1>5, <1>11, FieldIs
  <2>2. PadText(it, <<>>, a.str) = a.str
    BY <1>0, <1>2, NarrowText
  <2> QED BY <1>4, <1>11, <2>1, <2>2
<1>12. CASE it.conv = "%"
  <2>1. Field(it, a) = PadText(it, <<>>, <<"%">>)
    BY <1>5, <1>12, FieldIs
  <2>2. PadText(it, <<>>, <<"%">>) = <<"%">>
    BY <1>0, PercentSeq, NarrowText
  <2> QED BY <1>4, <1>12, <2>1, <2>2
<1> QED BY <1>0, <1>8, <1>9, <1>10, <1>11, <1>12

-----------------------------------------------------------------------------
(* The fields of a format.                                                 *)

(* A call of one of the two formatters.                                    *)
Formatting == job \in Calls /\ job.fn \in Formatter

Items == job.items

LEMMA FormattingIs ==
  ASSUME Formatting
  PROVE  /\ Items \in Seq(Item) /\ Len(Items) \in Nat
         /\ job.fmt = SpelledAll(Items) /\ job.fmt \in Seq(Symbol) /\ Len(job.fmt) \in Nat
         /\ job.args \in Seq(Argument) /\ Len(job.args) \in Nat
         /\ HasArguments(job) /\ job.size \in Nat
         /\ job.fn = "my_vsnprintf" => job.size - 1 \in Nat
<1>1. job \in Job /\ WellFormed(job) /\ job.fn \in Formatter
  BY CallsAre DEF Formatting
<1>2. job.items \in Seq(Item) /\ job.args \in Seq(Argument) /\ job.size \in Nat
  BY <1>1 DEF Job
<1>3. job.fmt \in Seq(Symbol)
  BY <1>1, FmtIs
<1>4. /\ job.fmt = SpelledAll(job.items) /\ HasArguments(job)
      /\ job.fn = "my_vsnprintf" => job.size > 0
  BY <1>1 DEF WellFormed
<1>5. job.fn = "my_vsnprintf" => job.size - 1 \in Nat
  BY <1>2, <1>4
<1> QED BY <1>2, <1>3, <1>4, <1>5 DEF Items

LEMMA ItemIs ==
  ASSUME Formatting, NEW k \in 1 .. Len(Items)
  PROVE  /\ Items[k] \in Item
         /\ job.fn = "my_vsnprintf" => Sensible(Items[k])
         /\ job.fn = "simple_sprintf" => Plain(Items[k])
         /\ Items[k].conv \in {"literal", "d", "u", "x", "X", "p", "s", "c", "%"}
         /\ Items[k].conv = "literal" =>
              /\ Items[k].char # "%"
              /\ ~Items[k].left /\ ~Items[k].zero /\ Items[k].width = 0
<1>1. WellFormed(job) /\ job.fn \in {"my_vsnprintf", "simple_sprintf"}
  BY CallsAre DEF Formatting, Formatter
<1>2. Items[k] \in Item
  BY FormattingIs
<1>3. /\ job.fn = "my_vsnprintf" => Sensible(Items[k])
      /\ job.fn = "simple_sprintf" => Plain(Items[k])
  BY <1>1 DEF WellFormed, Items
<1>4. CASE job.fn = "my_vsnprintf"
  <2>1. Items[k].width \in Nat
    BY <1>2 DEF Item
  <2> QED BY <1>2, <1>3, <1>4, <2>1 DEF Sensible, Number
<1>5. CASE job.fn = "simple_sprintf"
  BY <1>2, <1>3, <1>5 DEF Plain
<1> QED BY <1>1, <1>4, <1>5

(* The argument of an item.                                                *)
Taken(k) == TakenUpto(Items)[k]
ArgumentOf(k) == IF TakesArgument(Items[k]) THEN job.args[Taken(k)] ELSE NoArg

LEMMA ArgumentOfIs ==
  ASSUME Formatting, NEW k \in 1 .. Len(Items)
  PROVE  /\ ArgumentOf(k) \in Argument /\ Fits(Items[k], ArgumentOf(k))
         /\ FieldOf(k) = Field(Items[k], ArgumentOf(k))
         /\ FieldOf(k) \in Seq(Symbol)
         /\ Taken(k-1) \in Nat
         /\ Taken(k) = IF TakesArgument(Items[k]) THEN Taken(k-1) + 1 ELSE Taken(k-1)
         /\ TakesArgument(Items[k]) => Taken(k) \in 1 .. Len(job.args)
<1>1. /\ Items \in Seq(Item) /\ Len(Items) \in Nat /\ HasArguments(job)
      /\ job.args \in Seq(Argument) /\ Len(job.args) \in Nat
  BY FormattingIs
<1>2. k - 1 \in 0 .. Len(Items) /\ k \in 0 .. Len(Items)
  BY <1>1
<1>3. /\ Taken(k-1) \in Nat
      /\ Taken(k) = IF TakesArgument(Items[k]) THEN Taken(k-1) + 1 ELSE Taken(k-1)
  BY <1>1, <1>2, TakenUptoIs DEF Taken
<1>4. Taken(k) <= Len(job.args)
  <2>1. Taken(k) <= Taken(Len(Items))
    BY <1>1, <1>2, TakenGrows DEF Taken
  <2>2. Taken(Len(Items)) <= Len(job.args)
    BY <1>1 DEF HasArguments, Taken, Items
  <2>3. Taken(Len(Items)) \in Nat /\ Taken(k) \in Nat
    BY <1>1, <1>2, TakenUptoIs DEF Taken
  <2> QED BY <1>1, <2>1, <2>2, <2>3
<1>5. TakesArgument(Items[k]) => Taken(k) \in 1 .. Len(job.args)
  BY <1>1, <1>3, <1>4
<1>6. ArgumentOf(k) \in Argument
  <2>1. CASE TakesArgument(Items[k])
    BY <1>1, <1>5, <2>1 DEF ArgumentOf
  <2>2. CASE ~TakesArgument(Items[k])
    <3>1. NoArg \in Argument
      <4>1. 0 \in 0 .. LongW-1
        BY WidthsAre
      <4>2. <<>> \in Seq(STRING)
        OBVIOUS
      <4> QED BY <4>1, <4>2 DEF NoArg, Argument
    <3> QED BY <2>2, <3>1 DEF ArgumentOf
  <2> QED BY <2>1, <2>2
<1>7. Fits(Items[k], ArgumentOf(k))
  <2>1. CASE TakesArgument(Items[k])
    <3>1. Fits(job.items[k], job.args[TakenUpto(job.items)[k]])
      BY <1>1, <2>1 DEF HasArguments, Items
    <3>2. ArgumentOf(k) = job.args[TakenUpto(job.items)[k]]
      BY <2>1 DEF ArgumentOf, Taken, Items
    <3> QED BY <3>1, <3>2 DEF Items
  <2>2. CASE ~TakesArgument(Items[k])
    BY <2>2 DEF TakesArgument, Fits
  <2> QED BY <2>1, <2>2
<1>8. FieldOf(k) = Field(Items[k], ArgumentOf(k))
  BY DEF FieldOf, ArgumentOf, Items, Taken
<1>9. FieldOf(k) \in Seq(Symbol)
  BY <1>6, <1>8, ItemIs, FieldSeq
<1> QED BY <1>3, <1>5, <1>6, <1>7, <1>8, <1>9

LEMMA TextUptoIs ==
  ASSUME Formatting
  PROVE  /\ \A k \in 0 .. Len(Items) : TextUpto[k] \in Seq(Symbol)
         /\ TextUpto[0] = <<>>
         /\ \A k \in 1 .. Len(Items) : TextUpto[k] = TextUpto[k-1] \o FieldOf(k)
<1> DEFINE n == Len(Items)
           g == [k \in 1 .. n |-> FieldOf(k)]
           Q(f) == f = [k \in 0 .. n |-> IF k = 0 THEN <<>> ELSE f[k-1] \o FieldOf(k)]
<1>1. n \in Nat
  BY FormattingIs
<1>2. g \in [1 .. n -> Seq(Symbol)] /\ \A k \in 1 .. n : g[k] = FieldOf(k)
  <2>1. \A k \in 1 .. n : FieldOf(k) \in Seq(Symbol)
    BY ArgumentOfIs
  <2> QED BY <2>1
<1>3. TextUpto = CHOOSE f : Q(f)
  BY DEF TextUpto, Items
<1> HIDE DEF n, g
<1>4. ASSUME NEW f PROVE Joins(f, g, n) <=> Q(f)
  <2>1. \A k \in 0 .. n :
          (IF k = 0 THEN <<>> ELSE f[k-1] \o g[k])
            = (IF k = 0 THEN <<>> ELSE f[k-1] \o FieldOf(k))
    <3>1. \A k \in 0 .. n : k # 0 => k \in 1 .. n
      BY <1>1
    <3> QED BY <1>2, <3>1
  <2>2. [k \in 0 .. n |-> IF k = 0 THEN <<>> ELSE f[k-1] \o g[k]]
         = [k \in 0 .. n |-> IF k = 0 THEN <<>> ELSE f[k-1] \o FieldOf(k)]
    BY <2>1
  <2> QED BY <2>2 DEF Joins
<1>5. \E f : Q(f)
  <2>1. PICK f : Joins(f, g, n)
    BY <1>1, <1>2, JoinExists
  <2>2. Q(f)
    BY <1>4, <2>1, Zenon
  <2> QED BY <2>2, Zenon
<1>6. Joins(TextUpto, g, n)
  <2>1. Q(TextUpto)
    <3> HIDE DEF Q
    <3> QED BY <1>3, <1>5
  <2> QED BY <1>4, <2>1, Zenon
<1>7. /\ \A k \in 0 .. n : TextUpto[k] \in Seq(Symbol)
      /\ TextUpto[0] = <<>>
      /\ \A k \in 1 .. n : TextUpto[k] = TextUpto[k-1] \o g[k]
  BY <1>1, <1>2, <1>6, JoinsAre
<1> QED BY <1>2, <1>7 DEF n

-----------------------------------------------------------------------------
(* The buffer.                                                             *)

LEMMA CutIs ==
  ASSUME NEW s \in Seq(Symbol), NEW n \in Nat
  PROVE  /\ Cut(s, n) \in Seq(Symbol)
         /\ Len(Cut(s, n)) = IF n < Len(s) THEN n ELSE Len(s)
         /\ \A k \in 1 .. Len(Cut(s, n)) : Cut(s, n)[k] = s[k]
<1> DEFINE m == IF n < Len(s) THEN n ELSE Len(s)
<1>1. m \in 0 .. Len(s) /\ Len(s) \in Nat /\ 1 \in Nat \ {0}
  OBVIOUS
<1>2. Cut(s, n) = SubSeq(s, 1, m)
  BY DEF Cut
<1> HIDE DEF m
<1>3. /\ SubSeq(s, 1, m) \in Seq(Symbol)
      /\ Len(SubSeq(s, 1, m)) = IF 1 <= m THEN m - 1 + 1 ELSE 0
      /\ \A k \in 1 .. m - 1 + 1 : SubSeq(s, 1, m)[k] = s[1 + k - 1]
  BY <1>1, SubSeqIs
<1>4. Len(SubSeq(s, 1, m)) = m /\ \A k \in 1 .. m : SubSeq(s, 1, m)[k] = s[k]
  BY <1>1, <1>3
<1> QED BY <1>2, <1>3, <1>4 DEF m

(* What did not fit before does not matter for what fits now.              *)
LEMMA CutConcat ==
  ASSUME NEW s \in Seq(Symbol), NEW t \in Seq(Symbol), NEW n \in Nat
  PROVE  Cut(Cut(s, n) \o t, n) = Cut(s \o t, n)
<1> DEFINE c == Cut(s, n)
           u == c \o t
           w == s \o t
           l == Cut(u, n)
           r == Cut(w, n)
<1>1. /\ c \in Seq(Symbol) /\ Len(c) = IF n < Len(s) THEN n ELSE Len(s)
      /\ \A k \in 1 .. Len(c) : c[k] = s[k]
  BY CutIs
<1> HIDE DEF c
<1>2. /\ u \in Seq(Symbol) /\ Len(u) = Len(c) + Len(t)
      /\ \A k \in 1 .. Len(c) : u[k] = c[k]
      /\ \A k \in 1 .. Len(t) : u[Len(c) + k] = t[k]
  <2>1. Adds(c, t, u)
    BY <1>1, ConcatAdds, Zenon
  <2> QED BY <2>1 DEF Adds
<1>3. /\ w \in Seq(Symbol) /\ Len(w) = Len(s) + Len(t)
      /\ \A k \in 1 .. Len(s) : w[k] = s[k]
      /\ \A k \in 1 .. Len(t) : w[Len(s) + k] = t[k]
  BY ConcatIs
<1> HIDE DEF u, w
<1>4. /\ l \in Seq(Symbol) /\ Len(l) = IF n < Len(u) THEN n ELSE Len(u)
      /\ \A k \in 1 .. Len(l) : l[k] = u[k]
  BY <1>2, CutIs
<1>5. /\ r \in Seq(Symbol) /\ Len(r) = IF n < Len(w) THEN n ELSE Len(w)
      /\ \A k \in 1 .. Len(r) : r[k] = w[k]
  BY <1>3, CutIs
<1> HIDE DEF l, r
<1> DEFINE ls == Len(s)
           lt == Len(t)
           lc == Len(c)
<1>6. ls \in Nat /\ lt \in Nat /\ lc \in Nat
  BY <1>1
<1>7. Len(l) = Len(r) /\ Len(l) \in Nat
  BY <1>1, <1>2, <1>3, <1>4, <1>5, <1>6
<1>8. CASE ls <= n
  <2>1. lc = ls
    BY <1>1, <1>6, <1>8
  <2>2. ASSUME NEW k \in 1 .. ls + lt PROVE u[k] = w[k]
    <3>1. CASE k <= ls
      <4>1. k \in 1 .. Len(s) /\ k \in 1 .. Len(c)
        BY <2>1, <3>1
      <4> QED BY <1>1, <1>2, <1>3, <4>1
    <3>2. CASE ls < k
      <4>1. k - ls \in 1 .. Len(t) /\ ls + (k - ls) = k
        BY <1>6, <3>2
      <4> QED BY <1>2, <1>3, <2>1, <4>1
    <3> QED BY <1>6, <3>1, <3>2
  <2>3. \A k \in 1 .. Len(l) : k \in 1 .. ls + lt /\ k \in 1 .. Len(r)
    <3>1. Len(l) <= ls + lt
      BY <1>2, <1>4, <1>6, <2>1
    <3> QED BY <1>6, <1>7, <3>1
  <2>4. \A k \in 1 .. Len(l) : l[k] = r[k]
    BY <1>4, <1>5, <2>2, <2>3
  <2> QED BY <1>4, <1>5, <1>7, <2>4, SameSeq DEF l, r, u, w, c
<1>9. CASE n < ls
  <2>1. lc = n /\ Len(l) = n
    BY <1>1, <1>2, <1>4, <1>6, <1>9
  <2>2. ASSUME NEW k \in 1 .. Len(l) PROVE l[k] = r[k]
    <3>1. k \in 1 .. Len(c) /\ k \in 1 .. Len(s) /\ k \in 1 .. Len(r)
      BY <1>6, <1>7, <1>9, <2>1
    <3> QED BY <1>1, <1>2, <1>3, <1>4, <1>5, <3>1
  <2> QED BY <1>4, <1>5, <1>7, <2>2, SameSeq DEF l, r, u, w, c
<1> QED BY <1>6, <1>8, <1>9

-----------------------------------------------------------------------------
(* What is read at each position of a format.                              *)

Spot(k) == Place(Items, k)

LEMMA SpotIs ==
  ASSUME Formatting, NEW k \in 0 .. Len(Items)
  PROVE  /\ Spot(k) \in Nat /\ Spot(k) <= Len(job.fmt) /\ Spot(0) = 0
         /\ k = Len(Items) => Spot(k) = Len(job.fmt)
         /\ k < Len(Items) =>
              /\ Spot(k + 1) = Spot(k) + Len(Spelled(Items[k+1]))
              /\ Spot(k + 1) <= Len(job.fmt)
              /\ \A e \in 1 .. Len(Spelled(Items[k+1])) :
                   job.fmt[Spot(k) + e] = Spelled(Items[k+1])[e]
<1>1. Items \in Seq(Item) /\ job.fmt = SpelledAll(Items)
  BY FormattingIs
<1> QED BY <1>1, PlaceIs DEF Spot

(* Between two items the format has ended exactly behind the last.         *)
LEMMA SpotEnds ==
  ASSUME Formatting, NEW k \in 0 .. Len(Items), pos = Spot(k) + 1
  PROVE  /\ More <=> k < Len(Items)
         /\ k < Len(Items) => k + 1 \in 1 .. Len(Items)
<1>1. Len(Items) \in Nat /\ Len(job.fmt) \in Nat
  BY FormattingIs
<1>2. Spot(k) \in Nat
  BY SpotIs
<1>3. CASE k < Len(Items)
  <2>1. k + 1 \in 1 .. Len(Items)
    BY <1>1, <1>3
  <2>2. Len(Spelled(Items[k+1])) \in Nat \ {0}
    BY <2>1, ItemIs, SpelledSeq
  <2>3. Spot(k) + Len(Spelled(Items[k+1])) <= Len(job.fmt)
    BY <1>3, SpotIs
  <2>4. Spot(k) + 1 <= Len(job.fmt)
    BY <1>1, <1>2, <2>2, <2>3
  <2> QED BY <1>3, <2>1, <2>4 DEF More
<1>4. CASE ~(k < Len(Items))
  <2>1. k = Len(Items)
    BY <1>1, <1>4
  <2>2. Spot(k) = Len(job.fmt)
    BY <2>1, SpotIs
  <2>3. ~(Spot(k) + 1 <= Len(job.fmt))
    BY <1>1, <2>2
  <2> QED BY <1>4, <2>3 DEF More
<1> QED BY <1>3, <1>4

LEMMA LiteralAt ==
  ASSUME Formatting, NEW k \in 0 .. Len(Items), k < Len(Items), Items[k+1].conv = "literal"
  PROVE  /\ job.fmt[Spot(k) + 1] = Items[k+1].char
         /\ Spot(k + 1) = Spot(k) + 1
<1>1. Spelled(Items[k+1]) = <<Items[k+1].char>>
  BY DEF Spelled
<1>2. Len(<<Items[k+1].char>>) = 1 /\ <<Items[k+1].char>>[1] = Items[k+1].char
      /\ 1 \in 1 .. 1
  OBVIOUS
<1> QED BY <1>1, <1>2, SpotIs

(* A directive of a format, behind its first s characters.                 *)
Held(it, s) ==
  /\ s + LongAt(it) + it.long + 1 <= Len(job.fmt)
  /\ job.fmt[s + 1] = "%"
  /\ it.alt => job.fmt[s + 2] = "#"
  /\ it.zero => job.fmt[s + ZeroAt(it) + 1] = "0"
  /\ it.left => job.fmt[s + LeftAt(it) + 1] = "-"
  /\ \A k \in 1 .. Len(WidthText(it)) : job.fmt[s + WidthAt(it) + k] = WidthText(it)[k]
  /\ \A k \in 1 .. it.long : job.fmt[s + LongAt(it) + k] = "l"
  /\ job.fmt[s + LongAt(it) + it.long + 1] = it.conv

LEMMA PartsAre ==
  ASSUME NEW it \in Item
  PROVE  /\ it.alt \in BOOLEAN /\ it.zero \in BOOLEAN /\ it.left \in BOOLEAN
         /\ it.width \in Nat /\ it.long \in Nat
         /\ ZeroAt(it) \in Nat /\ LeftAt(it) \in Nat /\ WidthAt(it) \in Nat
         /\ Len(WidthText(it)) \in Nat /\ LongAt(it) \in Nat
         /\ ZeroAt(it) = (IF it.alt THEN 2 ELSE 1)
         /\ LeftAt(it) = ZeroAt(it) + (IF it.zero THEN 1 ELSE 0)
         /\ WidthAt(it) = LeftAt(it) + (IF it.left THEN 1 ELSE 0)
         /\ LongAt(it) = WidthAt(it) + Len(WidthText(it))
         /\ (Len(WidthText(it)) = 0 <=> it.width = 0)
<1>1. /\ it.alt \in BOOLEAN /\ it.zero \in BOOLEAN /\ it.left \in BOOLEAN
      /\ it.width \in Nat /\ it.long \in Nat
  BY DEF Item
<1>2. Len(WidthText(it)) \in Nat /\ (Len(WidthText(it)) = 0 <=> it.width = 0)
  BY WidthTextIs
<1>3. /\ ZeroAt(it) = (IF it.alt THEN 2 ELSE 1)
      /\ LeftAt(it) = ZeroAt(it) + (IF it.zero THEN 1 ELSE 0)
      /\ WidthAt(it) = LeftAt(it) + (IF it.left THEN 1 ELSE 0)
      /\ LongAt(it) = WidthAt(it) + Len(WidthText(it))
  BY <1>1 DEF ZeroAt, LeftAt, WidthAt, LongAt, One
<1>4. ZeroAt(it) \in Nat
  BY <1>1, <1>3
<1>5. LeftAt(it) \in Nat
  BY <1>1, <1>3, <1>4
<1>6. WidthAt(it) \in Nat
  BY <1>1, <1>3, <1>5
<1>7. LongAt(it) \in Nat
  BY <1>2, <1>3, <1>6
<1> QED BY <1>1, <1>2, <1>3, <1>4, <1>5, <1>6, <1>7

LEMMA HeldIs ==
  ASSUME NEW it \in Item, NEW s \in Nat, NEW t, DirectiveText(it, t),
         s + Len(t) <= Len(job.fmt),
         \A e \in 1 .. Len(t) : job.fmt[s + e] = t[e]
  PROVE  Held(it, s)
<1> DEFINE z == ZeroAt(it)
           m == LeftAt(it)
           w == WidthAt(it)
           l == LongAt(it)
           d == Len(WidthText(it))
           n == it.long
           N == Len(t)
<1>1. /\ z \in Nat /\ m \in Nat /\ w \in Nat /\ l \in Nat /\ d \in Nat /\ n \in Nat
      /\ z >= 1 /\ (it.alt => z >= 2)
      /\ m >= z /\ (it.zero => m >= z + 1)
      /\ w >= m /\ (it.left => w >= m + 1)
      /\ l = w + d
  BY PartsAre
<1>2. /\ N = l + n + 1
      /\ t[1] = "%"
      /\ it.alt => t[2] = "#"
      /\ it.zero => t[z + 1] = "0"
      /\ it.left => t[m + 1] = "-"
      /\ \A k \in 1 .. d : t[w + k] = WidthText(it)[k]
      /\ \A k \in 1 .. n : t[l + k] = "l"
      /\ t[l + n + 1] = it.conv
  BY DEF DirectiveText
<1> HIDE DEF z, m, w, l, d, n, N
<1>3. \A e \in 1 .. N : job.fmt[s + e] = t[e]
  BY DEF N
<1>4. job.fmt[s + 1] = "%" /\ (it.alt => job.fmt[s + 2] = "#")
  <2>1. 1 \in 1 .. N /\ 2 \in 1 .. N
    BY <1>1, <1>2
  <2> QED BY <1>2, <1>3, <2>1
<1>5. it.zero => job.fmt[s + z + 1] = "0"
  <2>1. it.zero => z + 1 \in 1 .. N /\ s + (z + 1) = s + z + 1
    BY <1>1, <1>2
  <2> QED BY <1>2, <1>3, <2>1
<1>6. it.left => job.fmt[s + m + 1] = "-"
  <2>1. it.left => m + 1 \in 1 .. N /\ s + (m + 1) = s + m + 1
    BY <1>1, <1>2
  <2> QED BY <1>2, <1>3, <2>1
<1>7. \A k \in 1 .. d : job.fmt[s + w + k] = WidthText(it)[k]
  <2>1. \A k \in 1 .. d : w + k \in 1 .. N /\ s + (w + k) = s + w + k
    BY <1>1, <1>2
  <2> QED BY <1>2, <1>3, <2>1
<1>8. \A k \in 1 .. n : job.fmt[s + l + k] = "l"
  <2>1. \A k \in 1 .. n : l + k \in 1 .. N /\ s + (l + k) = s + l + k
    BY <1>1, <1>2
  <2> QED BY <1>2, <1>3, <2>1
<1>9. job.fmt[s + l + n + 1] = it.conv
  <2>1. l + n + 1 \in 1 .. N /\ s + (l + n + 1) = s + l + n + 1
    BY <1>1, <1>2
  <2> QED BY <1>2, <1>3, <2>1
<1>10. s + l + n + 1 <= Len(job.fmt)
  <2>1. s + N <= Len(job.fmt)
    BY DEF N
  <2>2. s + N = s + l + n + 1
    BY <1>1, <1>2
  <2> QED BY <2>1, <2>2
<1> QED BY <1>4, <1>5, <1>6, <1>7, <1>8, <1>9, <1>10 DEF Held, z, m, w, l, d, n

LEMMA DirectiveAt ==
  ASSUME Formatting, NEW k \in 0 .. Len(Items), k < Len(Items), Items[k+1].conv # "literal"
  PROVE  /\ Items[k+1] \in Item
         /\ Held(Items[k+1], Spot(k))
         /\ Spot(k + 1) = Spot(k) + LongAt(Items[k+1]) + Items[k+1].long + 1
<1> DEFINE it == Items[k+1]
           t == Spelled(it)
           s == Spot(k)
<1>1. k + 1 \in 1 .. Len(Items)
  BY FormattingIs
<1>2. it \in Item
  BY <1>1, ItemIs
<1>3. DirectiveText(it, t)
  BY <1>2, SpelledDirective
<1>4. /\ s \in Nat /\ Spot(k+1) = s + Len(t) /\ Spot(k+1) <= Len(job.fmt)
      /\ \A e \in 1 .. Len(t) : job.fmt[s + e] = t[e]
  BY SpotIs
<1>5. LongAt(it) \in Nat /\ it.long \in Nat
  BY <1>2, PartsAre
<1> HIDE DEF it, t, s
<1>6. Held(it, s)
  BY <1>2, <1>3, <1>4, HeldIs
<1>7. Len(t) = LongAt(it) + it.long + 1
  BY <1>3 DEF DirectiveText
<1>8. Spot(k+1) = s + LongAt(it) + it.long + 1
  BY <1>4, <1>5, <1>7
<1> QED BY <1>2, <1>6, <1>8 DEF it, s

-----------------------------------------------------------------------------
(* How far a directive has been read: p is the next character, q are the   *)
(* properties found until then.                                            *)

HashNext(it, s, p, q) == it.alt /\ p = s + 2 /\ q = NoProps

AfterHash(it) == [pad |-> " ", npad |-> 0, alternate |-> it.alt, nlong |-> 0]

WidthNext(it, s, p, q) ==
  /\ it.zero \/ it.left \/ it.width # 0
  /\ p = s + ZeroAt(it) + 1 /\ q = AfterHash(it)

LongNext(it, s, p, q) ==
  \E h \in 0 .. it.long : p = s + LongAt(it) + 1 + h /\ q = PropsOf(it, h)

ReadUpto(it, s, p, q) ==
  HashNext(it, s, p, q) \/ WidthNext(it, s, p, q) \/ LongNext(it, s, p, q)

LEMMA AfterWidth ==
  ASSUME NEW it \in Item, NEW s \in Nat
  PROVE  ReadUpto(it, s, s + LongAt(it) + 1, PropsOf(it, 0))
<1>1. LongAt(it) \in Nat /\ it.long \in Nat
  BY PartsAre
<1>2. 0 \in 0 .. it.long /\ s + LongAt(it) + 1 + 0 = s + LongAt(it) + 1
  BY <1>1
<1>3. LongNext(it, s, s + LongAt(it) + 1, PropsOf(it, 0))
  BY <1>2 DEF LongNext
<1> QED BY <1>3 DEF ReadUpto

LEMMA FromHash ==
  ASSUME NEW it \in Item, NEW s \in Nat
  PROVE  ReadUpto(it, s, s + ZeroAt(it) + 1, AfterHash(it))
<1>1. CASE it.zero \/ it.left \/ it.width # 0
  BY <1>1 DEF ReadUpto, WidthNext
<1>2. CASE ~(it.zero \/ it.left \/ it.width # 0)
  <2>1. LongAt(it) = ZeroAt(it)
    BY <1>2, PartsAre
  <2>2. PropsOf(it, 0) = AfterHash(it)
    BY <1>2 DEF PropsOf, AfterHash
  <2> QED BY <2>1, <2>2, AfterWidth
<1> QED BY <1>1, <1>2

LEMMA FromPercent ==
  ASSUME NEW it \in Item, NEW s \in Nat
  PROVE  ReadUpto(it, s, s + 2, NoProps)
<1>1. CASE it.alt
  BY <1>1 DEF ReadUpto, HashNext
<1>2. CASE ~it.alt
  <2>1. ZeroAt(it) = 1 /\ it.alt = FALSE
    BY <1>2, PartsAre
  <2>2. s + ZeroAt(it) + 1 = s + 2
    BY <2>1
  <2>3. AfterHash(it) = NoProps
    BY <2>1 DEF NoProps, AfterHash
  <2> QED BY <2>2, <2>3, FromHash
<1> QED BY <1>1, <1>2

LEMMA Kinds ==
  ASSUME NEW c \in Decimal
  PROVE  c \notin {"-", "#", "l", "%", "d", "u", "x", "p", "s", "c"}
  BY DEF Decimal, digits

(* Behind a '#' comes what the flags, the width or the l's begin with.     *)
LEMMA HashChar ==
  ASSUME NEW it \in Item, NEW s \in Nat, Held(it, s), HashNext(it, s, pos, props)
  PROVE  Char = "#" /\ s + ZeroAt(it) + 1 = pos + 1
<1>1. it.alt /\ pos = s + 2
  BY DEF HashNext
<1>2. ZeroAt(it) = 2
  BY <1>1, PartsAre
<1> QED BY <1>1, <1>2 DEF Held, Char

LEMMA LongChar ==
  ASSUME NEW it \in Item, NEW s \in Nat, Held(it, s), NEW h \in 0 .. it.long
  PROVE  /\ h < it.long => job.fmt[s + LongAt(it) + 1 + h] = "l"
         /\ h = it.long => job.fmt[s + LongAt(it) + 1 + h] = it.conv
<1> DEFINE l == LongAt(it)
           n == it.long
<1>1. l \in Nat /\ n \in Nat
  BY PartsAre
<1>2. /\ \A k \in 1 .. n : job.fmt[s + l + k] = "l"
      /\ job.fmt[s + l + n + 1] = it.conv
  BY DEF Held
<1> HIDE DEF l
<1>3. CASE h < n
  <2>1. h + 1 \in 1 .. n /\ s + l + (h + 1) = s + l + 1 + h /\ h # n
    BY <1>1, <1>3
  <2> QED BY <1>2, <2>1 DEF l
<1>4. CASE h = n
  <2>1. s + l + n + 1 = s + l + 1 + h /\ ~(h < n)
    BY <1>1, <1>4
  <2> QED BY <1>2, <2>1 DEF l
<1> QED BY <1>1, <1>3, <1>4

(* The digits of the width, and what follows them.                         *)
LEMMA WidthHeld ==
  ASSUME NEW it, Directive(it), NEW s \in Nat, Held(it, s), job.fmt \in Seq(Symbol)
  PROVE  /\ DigitsAt(job.fmt, s + WidthAt(it) + 1)
              = [len |-> Len(WidthText(it)), num |-> it.width]
         /\ job.fmt[s + LongAt(it) + 1] \notin Decimal \cup {"-", "#"}
         /\ s + LongAt(it) + 1 <= Len(job.fmt)
<1> DEFINE w == WidthAt(it)
           l == LongAt(it)
           n == Len(WidthText(it))
           v == it.width
           from == s + w + 1
<1>1. it \in Item /\ it.conv \in {"d", "u", "x", "p", "s", "c", "%"}
  BY DirectiveIs DEF Directive
<1>2. w \in Nat /\ l \in Nat /\ n \in Nat /\ l = w + n /\ it.long \in Nat /\ v \in Nat
  BY <1>1, PartsAre
<1>3. job.fmt[s + l + 1] \in {"l", it.conv}
  <2>1. 0 \in 0 .. it.long /\ (0 < it.long \/ 0 = it.long)
    BY <1>2
  <2>2. job.fmt[s + LongAt(it) + 1 + 0] \in {"l", it.conv}
    BY <1>1, <2>1, LongChar
  <2>3. s + l + 1 + 0 = s + l + 1
    BY <1>2
  <2> QED BY <2>2, <2>3
<1>4. job.fmt[s + l + 1] \notin Decimal \cup {"-", "#"}
  <2>1. it.conv \notin Decimal /\ "l" \notin Decimal
    BY <1>1, Kinds
  <2> QED BY <1>1, <1>3, <2>1
<1>5. s + l + 1 <= Len(job.fmt) /\ Len(job.fmt) \in Nat
  <2> DEFINE N == Len(job.fmt)
             d == it.long
  <2>1. N \in Nat
    OBVIOUS
  <2>2. s + l + d + 1 <= N
    BY DEF Held
  <2>3. l \in Nat /\ d \in Nat
    BY <1>2
  <2> HIDE DEF l, N, d
  <2>4. s + l + 1 <= N
    BY <2>1, <2>2, <2>3
  <2> QED BY <2>1, <2>4 DEF N
<1>6. /\ v < Power(10, n)
      /\ \A k \in 1 .. n : WidthText(it)[k] = Digit(v, 10, digits, n - k)
      /\ \A k \in 1 .. n : job.fmt[s + w + k] = WidthText(it)[k]
  BY <1>1, WidthTextIs DEF Held
<1> HIDE DEF w, l, n, v
<1>7. HoldsDigits(job.fmt, from, n, v)
  <2>1. from + n = s + l + 1
    BY <1>2
  <2>2. from + n <= Len(job.fmt) + 1
    BY <1>2, <1>5, <2>1
  <2>3. \A k \in 1 .. n : job.fmt[from + k - 1] = Digit(v, 10, digits, n - k)
    <3>1. \A k \in 1 .. n : from + k - 1 = s + w + k
      BY <1>2
    <3> HIDE DEF from
    <3> QED BY <1>6, <3>1
  <2> QED BY <1>4, <1>6, <2>1, <2>2, <2>3 DEF HoldsDigits
<1>8. from \in Nat \ {0}
  BY <1>2
<1> HIDE DEF from
<1>9. DigitsAt(job.fmt, from) = [len |-> n, num |-> v]
  BY <1>2, <1>7, <1>8, DigitsAtIs
<1> QED BY <1>4, <1>5, <1>9 DEF from, n, v, l, w

(* The character that the flags or the width begin with.                   *)
LEMMA WidthChar ==
  ASSUME NEW it, Directive(it), NEW s \in Nat, Held(it, s), job.fmt \in Seq(Symbol),
         WidthNext(it, s, pos, props)
  PROVE  /\ Char \in Decimal \cup {"-"}
         /\ Char = "0" <=> it.zero
         /\ (IF Char = "0" THEN pos + 1 ELSE pos) = s + LeftAt(it) + 1
         /\ At(job.fmt, s + LeftAt(it) + 1) = "-" <=> it.left
<1> DEFINE z == ZeroAt(it)
           m == LeftAt(it)
           w == WidthAt(it)
           l == LongAt(it)
           n == Len(WidthText(it))
<1>1. it \in Item /\ pos = s + z + 1 /\ (it.zero \/ it.left \/ it.width # 0)
  BY DEF Directive, WidthNext
<1>2. /\ z \in Nat /\ m \in Nat /\ w \in Nat /\ l \in Nat /\ n \in Nat
      /\ m = z + (IF it.zero THEN 1 ELSE 0)
      /\ w = m + (IF it.left THEN 1 ELSE 0)
      /\ l = w + n
  BY <1>1, PartsAre
<1>3. "0" \in Decimal /\ "-" \notin Decimal
  BY Kinds DEF Decimal, digits
<1>4. /\ s + l + 1 <= Len(job.fmt) /\ Len(job.fmt) \in Nat
      /\ job.fmt[s + l + 1] \notin Decimal \cup {"-", "#"}
  <2>1. Len(job.fmt) \in Nat
    OBVIOUS
  <2> QED BY <2>1, WidthHeld
<1>5. /\ it.zero => job.fmt[s + z + 1] = "0"
      /\ it.left => job.fmt[s + m + 1] = "-"
      /\ \A k \in 1 .. n : job.fmt[s + w + k] = WidthText(it)[k]
  BY DEF Held
<1>6. it.width # 0 => job.fmt[s + w + 1] \in Decimal \ {"0"}
  <2>1. SUFFICES ASSUME it.width # 0 PROVE job.fmt[s + w + 1] \in Decimal \ {"0"}
    OBVIOUS
  <2>2. WidthText(it)[1] \in Decimal \ {"0"} /\ n \in Nat \ {0}
    BY <1>1, <2>1, WidthFirst
  <2>3. 1 \in 1 .. n
    BY <2>2
  <2> QED BY <1>5, <2>2, <2>3
<1>7. it.width = 0 => w = l
  <2>1. it.width = 0 => n = 0
    BY <1>1, PartsAre
  <2> QED BY <1>2, <2>1
<1> HIDE DEF z, m, w, l, n
<1>8. ~it.left => w = m /\ job.fmt[s + m + 1] # "-"
  <2>1. ~it.left => w = m
    BY <1>2
  <2>2. job.fmt[s + w + 1] # "-" \/ it.left
    BY <1>3, <1>4, <1>6, <1>7
  <2> QED BY <2>1, <2>2
<1>9. ~it.zero => z = m /\ Char # "0" /\ Char \in Decimal \cup {"-"}
  <2>1. SUFFICES ASSUME ~it.zero PROVE z = m /\ Char # "0" /\ Char \in Decimal \cup {"-"}
    OBVIOUS
  <2>2. z = m
    BY <1>2, <2>1
  <2>3. Char = job.fmt[s + m + 1]
    BY <1>1, <2>2 DEF Char, z
  <2>4. CASE it.left
    BY <1>5, <2>2, <2>3, <2>4
  <2>5. CASE ~it.left
    BY <1>1, <1>6, <1>8, <2>1, <2>2, <2>3, <2>5
  <2> QED BY <2>4, <2>5
<1>10. it.zero => Char = "0"
  BY <1>1, <1>5 DEF Char, z
<1>11. (IF Char = "0" THEN pos + 1 ELSE pos) = s + m + 1
  <2>1. CASE it.zero
    <3>1. m = z + 1
      BY <1>2, <2>1
    <3>2. s + z + 1 + 1 = s + m + 1
      BY <1>2, <3>1
    <3> QED BY <1>1, <1>10, <2>1, <3>2 DEF z
  <2>2. CASE ~it.zero
    BY <1>1, <1>9, <2>2 DEF z
  <2> QED BY <2>1, <2>2
<1>12. At(job.fmt, s + m + 1) = job.fmt[s + m + 1]
  <2>1. m <= l
    BY <1>2
  <2>2. s + m + 1 <= Len(job.fmt)
    BY <1>2, <1>4, <2>1
  <2> QED BY <2>2 DEF At
<1> QED BY <1>3, <1>5, <1>8, <1>9, <1>10, <1>11, <1>12 DEF m

(* What fmtnum makes of them.                                              *)
LEMMA WidthRead ==
  ASSUME NEW it, Directive(it), NEW s \in Nat, Held(it, s), job.fmt \in Seq(Symbol),
         WidthNext(it, s, pos, props), Width
  PROVE  pos' = s + LongAt(it) + 1 /\ props' = PropsOf(it, 0)
<1> DEFINE start == IF Char = "0" THEN pos + 1 ELSE pos
           minus == At(job.fmt, start) = "-"
           from == IF minus THEN start + 1 ELSE start
           number == DigitsAt(job.fmt, from)
           n == Len(WidthText(it))
<1>1. /\ props' = [props EXCEPT
                     !.pad = IF Char = "0" THEN "0" ELSE @,
                     !.npad = IF minus THEN -number.num ELSE number.num]
      /\ pos' = start + number.len + (IF minus THEN 1 ELSE 0)
  BY DEF Width
<1>2. /\ start = s + LeftAt(it) + 1
      /\ (minus <=> it.left)
      /\ (Char = "0" <=> it.zero)
  BY WidthChar
<1>3. /\ it \in Item /\ WidthAt(it) \in Nat /\ LeftAt(it) \in Nat /\ LongAt(it) \in Nat
      /\ n \in Nat
      /\ WidthAt(it) = LeftAt(it) + (IF it.left THEN 1 ELSE 0)
      /\ LongAt(it) = WidthAt(it) + n
  BY PartsAre DEF Directive
<1> HIDE DEF start, minus, n
<1>4. from = s + WidthAt(it) + 1
  BY <1>2, <1>3
<1>5. number = [len |-> n, num |-> it.width]
  BY <1>4, WidthHeld DEF n
<1>6. number.len = n /\ number.num = it.width
  BY <1>5
<1> HIDE DEF number, from
<1>7. pos' = s + LongAt(it) + 1
  BY <1>1, <1>2, <1>3, <1>6
<1>8. props' = PropsOf(it, 0)
  <2>1. props = AfterHash(it)
    BY DEF WidthNext
  <2>2. /\ (IF minus THEN -number.num ELSE number.num) = IF it.left THEN -it.width ELSE it.width
        /\ (IF Char = "0" THEN "0" ELSE " ") = IF it.zero THEN "0" ELSE " "
    BY <1>2, <1>6
  <2>3. props' = [props EXCEPT
                    !.pad = IF Char = "0" THEN "0" ELSE " ",
                    !.npad = IF minus THEN -number.num ELSE number.num]
    BY <1>1, <2>1 DEF AfterHash
  <2> QED BY <2>1, <2>2, <2>3 DEF AfterHash, PropsOf
<1> QED BY <1>7, <1>8

-----------------------------------------------------------------------------
(* The invariant.  The first k items have been written, and their arguments*)
(* taken; the next character is that behind them, or one of the next       *)
(* directive.                                                              *)

WrittenUpto(k, a, o, r) ==
  /\ a = Taken(k) + 1
  /\ r = Len(TextUpto[k])
  /\ job.fn = "my_vsnprintf" => o = Cut(TextUpto[k], job.size - 1)
  /\ job.fn = "simple_sprintf" => o = TextUpto[k]

Reached(k, m, p, q) ==
  \/ m = "text" /\ p = Spot(k) + 1
  \/ /\ m = "directive" /\ job.fn = "my_vsnprintf"
     /\ k < Len(Items) /\ Items[k+1].conv # "literal"
     /\ ReadUpto(Items[k+1], Spot(k), p, q)
  \/ m = "returned" /\ k = Len(Items) /\ p = Spot(k) + 1

FormattingInv ==
  \E k \in 0 .. Len(Items) : WrittenUpto(k, arg, out, returns) /\ Reached(k, mode, pos, props)

PropsType == [pad : {" ", "0"}, npad : Int, alternate : BOOLEAN, nlong : Nat]

(* The functions on one number have no position.                           *)
NumberInv ==
  pos = 1 /\ arg = 1 /\ mode \in {"text", "returned"} /\ returns \in Int

FormatInv ==
  /\ props \in PropsType
  /\ \/ FormatIdle
     \/ /\ job \in Calls
        /\ job.fn \in Formatter => FormattingInv
        /\ job.fn \notin Formatter => NumberInv

LEMMA PropsTyped ==
  /\ NoProps \in PropsType
  /\ \A it \in Item, h \in Nat : PropsOf(it, h) \in PropsType /\ AfterHash(it) \in PropsType
<1>1. NoProps \in PropsType
  BY DEF NoProps, PropsType
<1>2. ASSUME NEW it \in Item, NEW h \in Nat
      PROVE  PropsOf(it, h) \in PropsType /\ AfterHash(it) \in PropsType
  BY PartsAre DEF PropsOf, AfterHash, PropsType
<1> QED BY <1>1, <1>2

(* The call does not change, nor what is written of it.                    *)
LEMMA Continues ==
  ASSUME job' = job, NEW k \in 0 .. Len(Items),
         WrittenUpto(k, arg', out', returns'), Reached(k, mode', pos', props')
  PROVE  FormattingInv'
<1>1. /\ Items' = Items /\ Len(Items)' = Len(Items)
      /\ Spot(k)' = Spot(k) /\ Taken(k)' = Taken(k)
  BY DEF Items, Spot, Taken
<1>2. TextUpto' = TextUpto
  BY DEF TextUpto, FieldOf, Field, Body
<1>3. WrittenUpto(k, arg, out, returns)'
  BY <1>1, <1>2 DEF WrittenUpto
<1>4. Reached(k, mode, pos, props)'
  BY <1>1 DEF Reached
<1> QED BY <1>1, <1>3, <1>4 DEF FormattingInv

(* Adding the next field writes one more item.                             *)
LEMMA Adding ==
  ASSUME Formatting, NEW k \in 0 .. Len(Items), k < Len(Items),
         WrittenUpto(k, arg, out, returns), NEW text, text = FieldOf(k + 1),
         \/ job.fn = "my_vsnprintf" /\ addchar(text)
         \/ job.fn = "simple_sprintf" /\ append(text),
         arg' = IF TakesArgument(Items[k+1]) THEN arg + 1 ELSE arg
  PROVE  WrittenUpto(k + 1, arg', out', returns')
<1> DEFINE n == job.size - 1
           s == TextUpto[k]
           t == TextUpto[k+1]
<1>0. k + 1 \in 1 .. Len(Items) /\ (k + 1) - 1 = k
  BY FormattingIs
<1>1. s \in Seq(Symbol) /\ t = s \o text /\ text \in Seq(Symbol)
  BY <1>0, TextUptoIs, ArgumentOfIs
<1>2. Len(t) = Len(s) + Len(text)
  <2> HIDE DEF s, t
  <2> QED BY <1>1, ConcatIs
<1>3. returns' = returns + Len(text) /\ returns = Len(s)
  BY DEF WrittenUpto, addchar, append
<1>4. arg' = Taken(k+1) + 1
  <2>1. /\ Taken(k) \in Nat
        /\ Taken(k+1) = IF TakesArgument(Items[k+1]) THEN Taken(k) + 1 ELSE Taken(k)
    BY <1>0, ArgumentOfIs
  <2>2. arg = Taken(k) + 1
    BY DEF WrittenUpto
  <2> QED BY <2>1, <2>2
<1>5. ASSUME job.fn = "my_vsnprintf" PROVE out' = Cut(t, n)
  <2>1. n \in Nat
    BY <1>5, FormattingIs
  <2>2. out = Cut(s, n)
    BY <1>5 DEF WrittenUpto
  <2>3. out' = Cut(out \o text, n)
    BY <1>5 DEF addchar
  <2> HIDE DEF s, t, n
  <2>4. Cut(Cut(s, n) \o text, n) = Cut(s \o text, n)
    BY <1>1, <2>1, CutConcat
  <2> QED BY <1>1, <2>2, <2>3, <2>4
<1>6. ASSUME job.fn = "simple_sprintf" PROVE out' = t
  BY <1>1, <1>6 DEF WrittenUpto, append
<1> QED BY <1>2, <1>3, <1>4, <1>5, <1>6 DEF WrittenUpto

(* Where a character can be read.                                          *)
LEMMA InText ==
  ASSUME Formatting, NEW k \in 0 .. Len(Items), Reached(k, mode, pos, props), mode = "text"
  PROVE  /\ pos = Spot(k) + 1 /\ Spot(k) \in Nat
         /\ More <=> k < Len(Items)
         /\ k < Len(Items) => k + 1 \in 1 .. Len(Items)
<1>1. pos = Spot(k) + 1
  BY DEF Reached
<1> QED BY <1>1, SpotIs, SpotEnds

LEMMA InDirective ==
  ASSUME Formatting, NEW k \in 0 .. Len(Items), Reached(k, mode, pos, props),
         mode = "directive"
  PROVE  /\ job.fn = "my_vsnprintf" /\ k < Len(Items) /\ k + 1 \in 1 .. Len(Items)
         /\ Directive(Items[k+1]) /\ Spot(k) \in Nat
         /\ Held(Items[k+1], Spot(k)) /\ ReadUpto(Items[k+1], Spot(k), pos, props)
         /\ Spot(k + 1) = Spot(k) + LongAt(Items[k+1]) + Items[k+1].long + 1
<1>1. /\ job.fn = "my_vsnprintf" /\ k < Len(Items) /\ Items[k+1].conv # "literal"
      /\ ReadUpto(Items[k+1], Spot(k), pos, props)
  BY DEF Reached
<1>2. k + 1 \in 1 .. Len(Items)
  BY <1>1, FormattingIs
<1>3. Directive(Items[k+1])
  BY <1>1, <1>2, ItemIs DEF Directive
<1> QED BY <1>1, <1>2, <1>3, DirectiveAt, SpotIs

(* The items that a character of the text belongs to.                      *)
LEMMA LiteralOrPercent ==
  ASSUME Formatting, NEW k \in 0 .. Len(Items), k < Len(Items), pos = Spot(k) + 1
  PROVE  Char = "%" <=> Items[k+1].conv # "literal"
<1>1. k + 1 \in 1 .. Len(Items)
  BY FormattingIs
<1>2. CASE Items[k+1].conv = "literal"
  <2>1. Items[k+1].char # "%"
    BY <1>1, <1>2, ItemIs
  <2> QED BY <1>2, <2>1, LiteralAt DEF Char
<1>3. CASE Items[k+1].conv # "literal"
  BY <1>3, DirectiveAt DEF Held, Char
<1> QED BY <1>2, <1>3

LEMMA LiteralAdds ==
  ASSUME Formatting, NEW k \in 0 .. Len(Items), k < Len(Items), pos = Spot(k) + 1,
         Items[k+1].conv = "literal"
  PROVE  /\ <<Char>> = FieldOf(k + 1) /\ pos + 1 = Spot(k + 1) + 1
         /\ ~TakesArgument(Items[k+1])
<1>1. k + 1 \in 1 .. Len(Items)
  BY FormattingIs
<1>2. Items[k+1] \in Item /\ ~Items[k+1].left /\ ~Items[k+1].zero /\ Items[k+1].width = 0
  BY <1>1, ItemIs
<1>3. FieldOf(k+1) = Field(Items[k+1], ArgumentOf(k+1))
  BY <1>1, ArgumentOfIs
<1>4. Field(Items[k+1], ArgumentOf(k+1)) = <<Items[k+1].char>>
  BY <1>2, LiteralField
<1>5. Char = Items[k+1].char /\ Spot(k+1) = Spot(k) + 1
  BY LiteralAt DEF Char
<1>6. ~TakesArgument(Items[k+1])
  BY DEF TakesArgument
<1> QED BY <1>3, <1>4, <1>5, <1>6

-----------------------------------------------------------------------------
(* The steps of the formatters.                                            *)

LEMMA LiteralStep ==
  ASSUME Formatting, NEW k \in 0 .. Len(Items), WrittenUpto(k, arg, out, returns),
         Reached(k, mode, pos, props), Literal \/ SimpleLiteral
  PROVE  FormattingInv' /\ props' = props
<1>1. /\ mode = "text" /\ More /\ mode' = mode /\ pos' = pos + 1
      /\ job' = job /\ arg' = arg /\ props' = props
      /\ \/ job.fn = "my_vsnprintf" /\ addchar(<<Char>>) /\ Char # "%"
         \/ job.fn = "simple_sprintf" /\ append(<<Char>>) /\ (Char # "%" \/ pos = Len(job.fmt))
  BY DEF Literal, SimpleLiteral, Doing
<1>2. pos = Spot(k) + 1 /\ Spot(k) \in Nat /\ k < Len(Items) /\ k + 1 \in 1 .. Len(Items)
  BY <1>1, InText
<1>3. Items[k+1].conv = "literal"
  <2>1. CASE Char # "%"
    BY <1>2, <2>1, LiteralOrPercent
  <2>2. CASE pos = Len(job.fmt)
    <3>1. SUFFICES ASSUME Items[k+1].conv # "literal" PROVE FALSE
      OBVIOUS
    <3>2. Items[k+1] \in Item /\ Held(Items[k+1], Spot(k))
      BY <1>2, <3>1, DirectiveAt
    <3> DEFINE l == LongAt(Items[k+1])
               n == Items[k+1].long
               s == Spot(k)
    <3>3. l \in Nat /\ l >= 1 /\ n \in Nat
      BY <3>2, PartsAre
    <3>4. s + l + n + 1 <= Len(job.fmt) /\ s + 1 = Len(job.fmt)
      BY <1>2, <2>2, <3>2 DEF Held
    <3> HIDE DEF l, n, s
    <3>5. s \in Nat
      BY <1>2 DEF s
    <3> QED BY <3>3, <3>4, <3>5
  <2> QED BY <1>1, <2>1, <2>2
<1>4. /\ <<Char>> = FieldOf(k + 1) /\ pos + 1 = Spot(k + 1) + 1
      /\ ~TakesArgument(Items[k+1])
  BY <1>2, <1>3, LiteralAdds
<1>5. WrittenUpto(k + 1, arg', out', returns')
  BY <1>1, <1>2, <1>4, Adding
<1>6. Reached(k + 1, mode', pos', props')
  BY <1>1, <1>4 DEF Reached
<1>7. k + 1 \in 0 .. Len(Items)
  BY <1>2
<1> QED BY <1>1, <1>5, <1>6, <1>7, Continues

LEMMA PercentStep ==
  ASSUME Formatting, NEW k \in 0 .. Len(Items), WrittenUpto(k, arg, out, returns),
         Reached(k, mode, pos, props), Percent
  PROVE  FormattingInv' /\ props' \in PropsType
<1>1. /\ mode = "text" /\ More /\ Char = "%" /\ mode' = "directive" /\ props' = NoProps
      /\ job.fn = "my_vsnprintf" /\ pos' = pos + 1
      /\ job' = job /\ arg' = arg /\ out' = out /\ returns' = returns
  BY DEF Percent, Doing
<1>2. pos = Spot(k) + 1 /\ Spot(k) \in Nat /\ k < Len(Items) /\ k + 1 \in 1 .. Len(Items)
  BY <1>1, InText
<1>3. Items[k+1].conv # "literal" /\ Items[k+1] \in Item
  BY <1>1, <1>2, LiteralOrPercent, ItemIs
<1>4. pos' = Spot(k) + 2
  BY <1>1, <1>2
<1>5. ReadUpto(Items[k+1], Spot(k), pos', props')
  BY <1>1, <1>2, <1>3, <1>4, FromPercent
<1>6. Reached(k, mode', pos', props')
  BY <1>1, <1>2, <1>3, <1>5 DEF Reached
<1>7. WrittenUpto(k, arg', out', returns')
  BY <1>1
<1> QED BY <1>1, <1>6, <1>7, Continues, PropsTyped

(* What the three parts of a directive begin with.                         *)
LEMMA PartRead ==
  ASSUME NEW it, Directive(it), NEW s \in Nat, Held(it, s), job.fmt \in Seq(Symbol),
         ReadUpto(it, s, pos, props)
  PROVE  \/ Char = "#" /\ HashNext(it, s, pos, props)
         \/ Char \in Decimal \cup {"-"} /\ WidthNext(it, s, pos, props)
         \/ Char = "l" /\ \E h \in 0 .. it.long :
              h < it.long /\ pos = s + LongAt(it) + 1 + h /\ props = PropsOf(it, h)
         \/ Char = it.conv /\ pos = s + LongAt(it) + 1 + it.long
              /\ props = PropsOf(it, it.long)
<1>1. it \in Item /\ it.long \in Nat
  BY PartsAre DEF Directive
<1>2. CASE HashNext(it, s, pos, props)
  BY <1>1, <1>2, HashChar
<1>3. CASE WidthNext(it, s, pos, props)
  BY <1>3, WidthChar
<1>4. CASE LongNext(it, s, pos, props)
  <2>1. PICK h \in 0 .. it.long : pos = s + LongAt(it) + 1 + h /\ props = PropsOf(it, h)
    BY <1>4 DEF LongNext
  <2>2. CASE h < it.long
    BY <1>1, <2>1, <2>2, LongChar DEF Char
  <2>3. CASE h = it.long
    BY <1>1, <2>1, <2>3, LongChar DEF Char
  <2> QED BY <1>1, <2>2, <2>3
<1> QED BY <1>2, <1>3, <1>4 DEF ReadUpto

(* The steps that read a part of a directive.                              *)
LEMMA PartStep ==
  ASSUME Formatting, NEW k \in 0 .. Len(Items), WrittenUpto(k, arg, out, returns),
         Reached(k, mode, pos, props), Hash \/ Width \/ Long
  PROVE  FormattingInv' /\ props' \in PropsType
<1> DEFINE it == Items[k+1]
           s == Spot(k)
<1>1. /\ mode = "directive" /\ mode' = mode
      /\ job' = job /\ arg' = arg /\ out' = out /\ returns' = returns
  BY DEF Hash, Width, Long, Doing
<1>2. /\ job.fn = "my_vsnprintf" /\ k < Len(Items)
      /\ Directive(it) /\ s \in Nat /\ Held(it, s) /\ ReadUpto(it, s, pos, props)
  BY <1>1, InDirective
<1>3. job.fmt \in Seq(Symbol)
  BY FormattingIs
<1>4. it \in Item /\ it.conv # "literal" /\ it.long \in Nat /\ LongAt(it) \in Nat
      /\ it.conv \in {"d", "u", "x", "p", "s", "c", "%"}
  BY <1>2, PartsAre, DirectiveIs DEF Directive
<1> HIDE DEF it, s
<1>5. ReadUpto(it, s, pos', props') /\ props' \in PropsType
  <2>1. CASE Hash
    <3>1. Char = "#" /\ props' = [props EXCEPT !.alternate = TRUE] /\ pos' = pos + 1
      BY <2>1 DEF Hash
    <3>2. Char \notin Decimal \cup {"-"} /\ Char # "l" /\ Char # it.conv
      BY <1>4, <3>1, Kinds
    <3>3. HashNext(it, s, pos, props)
      BY <1>2, <1>3, <3>2, PartRead
    <3>4. it.alt /\ props = NoProps /\ s + ZeroAt(it) + 1 = pos + 1
      BY <1>2, <1>4, <3>3, HashChar DEF HashNext
    <3>5. props' = AfterHash(it)
      <4>1. it.alt = TRUE
        BY <1>4, <3>4, PartsAre
      <4> QED BY <3>1, <3>4, <4>1 DEF NoProps, AfterHash
    <3> QED BY <1>2, <1>4, <3>1, <3>4, <3>5, FromHash, PropsTyped
  <2>2. CASE Width
    <3>1. Char \in Decimal \cup {"-"}
      BY <2>2 DEF Width
    <3>2. Char # "#" /\ Char # "l" /\ Char # it.conv
      BY <1>4, <3>1, Kinds
    <3>3. WidthNext(it, s, pos, props)
      BY <1>2, <1>3, <3>2, PartRead
    <3>4. pos' = s + LongAt(it) + 1 /\ props' = PropsOf(it, 0)
      BY <1>2, <1>3, <2>2, <3>3, WidthRead
    <3> QED BY <1>2, <1>4, <3>4, AfterWidth, PropsTyped
  <2>3. CASE Long
    <3>1. Char = "l" /\ props' = [props EXCEPT !.nlong = @ + 1] /\ pos' = pos + 1
      BY <2>3 DEF Long
    <3>2. Char # "#" /\ Char \notin Decimal \cup {"-"} /\ Char # it.conv
      BY <1>4, <3>1, Kinds
    <3>3. PICK h \in 0 .. it.long :
            h < it.long /\ pos = s + LongAt(it) + 1 + h /\ props = PropsOf(it, h)
      BY <1>2, <1>3, <3>2, PartRead
    <3>4. h + 1 \in 0 .. it.long /\ h + 1 \in Nat
      BY <1>4, <3>3
    <3>5. pos' = s + LongAt(it) + 1 + (h + 1)
      BY <1>2, <1>4, <3>1, <3>3
    <3>6. props' = PropsOf(it, h + 1)
      BY <3>1, <3>3 DEF PropsOf
    <3>7. LongNext(it, s, pos', props')
      BY <3>4, <3>5, <3>6 DEF LongNext
    <3> QED BY <1>4, <3>4, <3>6, <3>7, PropsTyped DEF ReadUpto
  <2> QED BY <2>1, <2>2, <2>3
<1>6. Reached(k, mode', pos', props')
  BY <1>1, <1>2, <1>4, <1>5 DEF Reached, it, s
<1>7. WrittenUpto(k, arg', out', returns')
  BY <1>1
<1> QED BY <1>1, <1>5, <1>6, <1>7, Continues

LEMMA ConvertStep ==
  ASSUME Formatting, NEW k \in 0 .. Len(Items), WrittenUpto(k, arg, out, returns),
         Reached(k, mode, pos, props), Convert
  PROVE  FormattingInv' /\ props' = props
<1> DEFINE it == Items[k+1]
           s == Spot(k)
           a == ArgumentOf(k+1)
<1>1. /\ mode = "directive" /\ mode' = "text" /\ pos' = pos + 1
      /\ job' = job /\ props' = props /\ addchar(Converted)
      /\ Char \notin Decimal \cup {"-", "#", "l"}
      /\ arg' = IF Char \in {"d", "u", "x", "p", "s", "c"} THEN arg + 1 ELSE arg
  BY DEF Convert, Doing
<1>2. /\ job.fn = "my_vsnprintf" /\ k < Len(Items) /\ k + 1 \in 1 .. Len(Items)
      /\ Directive(it) /\ s \in Nat /\ Held(it, s) /\ ReadUpto(it, s, pos, props)
      /\ Spot(k + 1) = s + LongAt(it) + it.long + 1
  BY <1>1, InDirective
<1>3. job.fmt \in Seq(Symbol)
  BY FormattingIs
<1>4. it \in Item /\ it.long \in Nat /\ LongAt(it) \in Nat
      /\ it.conv \in {"d", "u", "x", "p", "s", "c", "%"}
  BY <1>2, PartsAre, DirectiveIs DEF Directive
<1>5. a \in Argument /\ Fits(it, a) /\ FieldOf(k+1) = Field(it, a)
      /\ Taken(k) \in Nat /\ (TakesArgument(it) => Taken(k+1) = Taken(k) + 1)
  <2>1. (k + 1) - 1 = k
    BY <1>2
  <2> QED BY <1>2, <2>1, ArgumentOfIs
<1>6. TakesArgument(it) => Word = a.word /\ Str = a.str
  <2>1. SUFFICES ASSUME TakesArgument(it) PROVE Word = a.word /\ Str = a.str
    OBVIOUS
  <2>2. a = job.args[Taken(k+1)]
    BY <2>1 DEF ArgumentOf
  <2>3. arg = Taken(k+1)
    BY <1>5, <2>1 DEF WrittenUpto
  <2> QED BY <2>2, <2>3 DEF Word, Str
<1> HIDE DEF it, s, a
<1>7. /\ Char = it.conv /\ props = PropsOf(it, it.long)
      /\ pos = s + LongAt(it) + 1 + it.long
  BY <1>1, <1>2, <1>3, PartRead
<1>8. Ready(it, a)
  BY <1>2, <1>6, <1>7 DEF Ready
<1>9. Converted = FieldOf(k+1)
  BY <1>2, <1>5, <1>8, ConvertedIs
<1>10. arg' = IF TakesArgument(it) THEN arg + 1 ELSE arg
  BY <1>1, <1>4, <1>7 DEF TakesArgument
<1>11. WrittenUpto(k + 1, arg', out', returns')
  BY <1>1, <1>2, <1>9, <1>10, Adding DEF it
<1>12. pos' = Spot(k + 1) + 1
  BY <1>1, <1>2, <1>4, <1>7
<1>13. Reached(k + 1, mode', pos', props')
  BY <1>1, <1>12 DEF Reached
<1>14. k + 1 \in 0 .. Len(Items)
  BY <1>2
<1> QED BY <1>1, <1>11, <1>13, <1>14, Continues

LEMMA SimpleStep ==
  ASSUME Formatting, NEW k \in 0 .. Len(Items), WrittenUpto(k, arg, out, returns),
         Reached(k, mode, pos, props), SimpleDirective
  PROVE  FormattingInv' /\ props' = props
<1> DEFINE it == Items[k+1]
           s == Spot(k)
           a == ArgumentOf(k+1)
<1>1. /\ mode = "text" /\ mode' = mode /\ pos' = pos + 2 /\ More
      /\ job' = job /\ props' = props /\ append(SimpleText)
      /\ Char = "%" /\ job.fn = "simple_sprintf"
      /\ arg' = IF job.fmt[pos + 1] \in {"d", "x", "X", "s", "c"} THEN arg + 1 ELSE arg
  BY DEF SimpleDirective, Doing
<1>2. pos = s + 1 /\ s \in Nat /\ k < Len(Items) /\ k + 1 \in 1 .. Len(Items)
  BY <1>1, InText
<1>3. it \in Item /\ it.conv # "literal" /\ Plain(it)
  BY <1>1, <1>2, LiteralOrPercent, ItemIs
<1>4. Held(it, s) /\ Spot(k+1) = s + LongAt(it) + it.long + 1
  BY <1>2, <1>3, DirectiveAt
<1>5. LongAt(it) = 1 /\ it.long = 0
  BY <1>3, PartsAre DEF Plain
<1>6. a \in Argument /\ FieldOf(k+1) = Field(it, a)
      /\ Taken(k) \in Nat /\ (TakesArgument(it) => Taken(k+1) = Taken(k) + 1)
  <2>1. (k + 1) - 1 = k
    BY <1>2
  <2> QED BY <1>2, <2>1, ArgumentOfIs
<1>7. TakesArgument(it) => Word = a.word /\ Str = a.str
  <2>1. SUFFICES ASSUME TakesArgument(it) PROVE Word = a.word /\ Str = a.str
    OBVIOUS
  <2>2. a = job.args[Taken(k+1)]
    BY <2>1 DEF ArgumentOf
  <2>3. arg = Taken(k+1)
    BY <1>6, <2>1 DEF WrittenUpto
  <2> QED BY <2>2, <2>3 DEF Word, Str
<1> HIDE DEF it, s, a
<1>8. job.fmt[pos + 1] = it.conv
  <2>1. s + LongAt(it) + it.long + 1 = pos + 1
    BY <1>2, <1>5
  <2> QED BY <1>4, <2>1 DEF Held
<1>9. SimpleText = FieldOf(k+1)
  BY <1>1, <1>3, <1>6, <1>7, <1>8, SimpleTextIs
<1>10. arg' = IF TakesArgument(it) THEN arg + 1 ELSE arg
  <2>1. it.conv \in {"d", "x", "X", "s", "c", "%"}
    BY <1>3 DEF Plain
  <2> QED BY <1>1, <1>8, <2>1 DEF TakesArgument
<1>11. WrittenUpto(k + 1, arg', out', returns')
  BY <1>1, <1>2, <1>9, <1>10, Adding DEF it
<1>12. pos' = Spot(k + 1) + 1
  BY <1>1, <1>2, <1>4, <1>5
<1>13. Reached(k + 1, mode', pos', props')
  BY <1>1, <1>12 DEF Reached
<1>14. k + 1 \in 0 .. Len(Items)
  BY <1>2
<1> QED BY <1>1, <1>11, <1>13, <1>14, Continues

(* The last character of a directive is in the format.                     *)
LEMMA InsideFormat ==
  ASSUME Formatting, NEW k \in 0 .. Len(Items), Reached(k, mode, pos, props),
         mode = "directive"
  PROVE  pos \in Nat \ {0} /\ More
<1> DEFINE it == Items[k+1]
           s == Spot(k)
           l == LongAt(it)
           n == it.long
           z == ZeroAt(it)
           N == Len(job.fmt)
<1>1. Directive(it) /\ s \in Nat /\ Held(it, s) /\ ReadUpto(it, s, pos, props)
  BY InDirective
<1>2. /\ l \in Nat /\ n \in Nat /\ z \in Nat /\ z <= l
      /\ (it.alt => z = 2)
  BY <1>1, PartsAre DEF Directive
<1>3. s + l + n + 1 <= N /\ N \in Nat
  BY <1>1, FormattingIs DEF Held
<1>4. \/ it.alt /\ pos = s + 2
      \/ pos = s + z + 1
      \/ \E h \in 0 .. n : pos = s + l + 1 + h
  BY <1>1 DEF ReadUpto, HashNext, WidthNext, LongNext
<1> HIDE DEF it, s, l, n, z, N
<1>5. s \in Nat
  BY <1>1
<1>6. pos \in Nat \ {0} /\ pos <= N
  BY <1>2, <1>3, <1>4, <1>5
<1> QED BY <1>6 DEF More, N

LEMMA EndStep ==
  ASSUME Formatting, NEW k \in 0 .. Len(Items), WrittenUpto(k, arg, out, returns),
         Reached(k, mode, pos, props), EndOfFormat
  PROVE  FormattingInv' /\ props' = props
<1>1. /\ mode # "returned" /\ ~More /\ mode' = "returned"
      /\ job' = job /\ pos' = pos /\ arg' = arg /\ props' = props
      /\ out' = out /\ returns' = returns
  BY DEF EndOfFormat
<1>2. mode = "text"
  BY <1>1, InsideFormat DEF Reached
<1>3. pos = Spot(k) + 1 /\ k = Len(Items)
  BY <1>1, <1>2, InText, FormattingIs
<1>4. Reached(k, mode', pos', props')
  BY <1>1, <1>3 DEF Reached
<1>5. WrittenUpto(k, arg', out', returns')
  BY <1>1
<1> QED BY <1>1, <1>4, <1>5, Continues

-----------------------------------------------------------------------------
(* The functions on one number.                                            *)

LEMMA NumberStep ==
  ASSUME job \in Calls, job.fn \notin Formatter, NumberInv, PrintNumber \/ ReadNumber
  PROVE  job' = job /\ props' = props /\ NumberInv'
<1>1. /\ job' = job /\ props' = props /\ pos' = pos /\ arg' = arg /\ mode' = "returned"
  BY DEF PrintNumber, ReadNumber
<1>2. returns' \in Int
  <2>1. CASE PrintNumber
    BY <2>1 DEF PrintNumber, NumberInv
  <2>2. CASE ReadNumber
    <3>1. job.fn \in Reader /\ returns' = IF job.fn = "atol" THEN atol(job.fmt) ELSE atoi(job.fmt)
      BY <2>2 DEF ReadNumber
    <3>2. job \in Job /\ WellFormed(job)
      BY CallsAre
    <3>3. Len(job.args) = 1 /\ HasNumeral(job)
      BY <3>1, <3>2 DEF WellFormed
    <3> DEFINE v == SignedWord(job.args[1].word, LongW)
    <3>4. v \in Int
      <4>1. job.args[1].word \in Int
        BY <3>2, <3>3, FirstArgument, WidthsAre
      <4> QED BY <4>1, WidthsAre, SignedInt
    <3>5. atol(job.fmt) = v
      BY <3>2, <3>3, atolReads
    <3> HIDE DEF v
    <3>6. SignedWord(v, IntW) \in Int
      BY <3>4, WidthsAre, SignedInt
    <3> QED BY <3>1, <3>4, <3>5, <3>6 DEF atoi
  <2> QED BY <2>1, <2>2
<1> QED BY <1>1, <1>2 DEF NumberInv

-----------------------------------------------------------------------------
(* The invariant holds at the start, is kept, and implies the properties.  *)

LEMMA FormatStarts ==
  ASSUME FormatInit \/ FormatIdle
  PROVE  FormatInv
<1>1. props = NoProps
  BY DEF FormatInit, FormatIdle
<1>2. CASE FormatIdle
  BY <1>1, <1>2, PropsTyped DEF FormatInv
<1>3. CASE FormatInit
  <2>1. job \in Calls /\ mode = "text" /\ pos = 1 /\ arg = 1 /\ out = <<>> /\ returns = 0
    BY <1>3 DEF FormatInit
  <2>2. NumberInv
    BY <2>1 DEF NumberInv
  <2>3. ASSUME job.fn \in Formatter PROVE FormattingInv
    <3>1. Formatting
      BY <2>1, <2>3 DEF Formatting
    <3>2. 0 \in 0 .. Len(Items)
      BY <3>1, FormattingIs
    <3>3. Spot(0) = 0 /\ Taken(0) = 0
      BY <3>1, <3>2, SpotIs, FormattingIs, TakenUptoIs DEF Taken
    <3>4. TextUpto[0] = <<>>
      BY <3>1, TextUptoIs
    <3>5. job.fn = "my_vsnprintf" => Cut(<<>>, job.size - 1) = <<>>
      <4>1. SUFFICES ASSUME job.fn = "my_vsnprintf" PROVE Cut(<<>>, job.size - 1) = <<>>
        OBVIOUS
      <4> DEFINE n == job.size - 1
      <4>2. n \in Nat
        BY <3>1, <4>1, FormattingIs
      <4>3. <<>> \in Seq(Symbol) /\ Len(<<>>) = 0
        OBVIOUS
      <4> HIDE DEF n
      <4>4. Cut(<<>>, n) \in Seq(Symbol) /\ Len(Cut(<<>>, n)) = IF n < Len(<<>>) THEN n ELSE Len(<<>>)
        BY <4>2, <4>3, CutIs
      <4>5. Len(Cut(<<>>, n)) = 0
        BY <4>2, <4>3, <4>4
      <4> QED BY <4>4, <4>5, EmptySeq DEF n
    <3>6. Len(<<>>) = 0
      OBVIOUS
    <3>7. WrittenUpto(0, arg, out, returns)
      BY <2>1, <3>3, <3>4, <3>5, <3>6 DEF WrittenUpto
    <3>8. Reached(0, mode, pos, props)
      BY <2>1, <3>3 DEF Reached
    <3> QED BY <3>2, <3>7, <3>8 DEF FormattingInv
  <2> QED BY <1>1, <2>1, <2>2, <2>3, PropsTyped DEF FormatInv
<1> QED BY <1>2, <1>3

LEMMA FormatKeeps ==
  ASSUME FormatInv, FormatNext
  PROVE  FormatInv'
<1>1. job' = job /\ ~FormatIdle
  BY FormatStep
<1>2. job \in Calls /\ props \in PropsType
  BY <1>1 DEF FormatInv
<1>3. CASE job.fn \in Formatter
  <2>1. Formatting
    BY <1>2, <1>3 DEF Formatting
  <2>2. PICK k \in 0 .. Len(Items) :
          WrittenUpto(k, arg, out, returns) /\ Reached(k, mode, pos, props)
    BY <1>1, <1>3 DEF FormatInv, FormattingInv
  <2>3. job.fn \notin Printer /\ job.fn \notin Reader
    BY <1>3 DEF Formatter, Printer, DecimalPrinter, Reader
  <2>4. FormattingInv' /\ props' \in PropsType
    <3>1. CASE Literal \/ SimpleLiteral
      BY <1>2, <2>1, <2>2, <3>1, LiteralStep
    <3>2. CASE Percent
      BY <2>1, <2>2, <3>2, PercentStep
    <3>3. CASE Hash \/ Width \/ Long
      BY <2>1, <2>2, <3>3, PartStep
    <3>4. CASE Convert
      BY <1>2, <2>1, <2>2, <3>4, ConvertStep
    <3>5. CASE SimpleDirective
      BY <1>2, <2>1, <2>2, <3>5, SimpleStep
    <3>6. CASE EndOfFormat
      BY <1>2, <2>1, <2>2, <3>6, EndStep
    <3>7. ~PrintNumber /\ ~ReadNumber
      BY <2>3 DEF PrintNumber, ReadNumber
    <3> QED BY <3>1, <3>2, <3>3, <3>4, <3>5, <3>6, <3>7 DEF FormatNext
  <2> QED BY <1>1, <1>2, <1>3, <2>4 DEF FormatInv
<1>4. CASE job.fn \notin Formatter
  <2>1. NumberInv
    BY <1>1, <1>4 DEF FormatInv
  <2>2. props' = props /\ NumberInv'
    BY <1>2, <1>4, <2>1, FormatterSteps, NumberStep
  <2> QED BY <1>1, <1>2, <1>4, <2>2 DEF FormatInv
<1> QED BY <1>3, <1>4

LEMMA FormatStutters ==
  ASSUME FormatInv, UNCHANGED formatVars
  PROVE  FormatInv'
<1>1. /\ job' = job /\ pos' = pos /\ arg' = arg /\ mode' = mode /\ props' = props
      /\ out' = out /\ returns' = returns
  BY DEF formatVars
<1>2. FormatIdle' <=> FormatIdle
  BY <1>1 DEF FormatIdle
<1>3. NumberInv' <=> NumberInv
  BY <1>1 DEF NumberInv
<1>4. FormattingInv => FormattingInv'
  <2>1. SUFFICES ASSUME FormattingInv PROVE FormattingInv'
    OBVIOUS
  <2>2. PICK k \in 0 .. Len(Items) :
          WrittenUpto(k, arg, out, returns) /\ Reached(k, mode, pos, props)
    BY <2>1 DEF FormattingInv
  <2> QED BY <1>1, <2>2, Continues
<1> QED BY <1>1, <1>2, <1>3, <1>4 DEF FormatInv

LEMMA FormattingTypeOK ==
  ASSUME Formatting, FormattingInv, props \in PropsType
  PROVE  FormatTypeOK
<1>1. PICK k \in 0 .. Len(Items) :
        WrittenUpto(k, arg, out, returns) /\ Reached(k, mode, pos, props)
  BY DEF FormattingInv
<1>2. /\ Len(Items) \in Nat /\ Len(job.fmt) \in Nat /\ Len(job.args) \in Nat
      /\ job.fn = "my_vsnprintf" => job.size - 1 \in Nat /\ job.size \in Nat
  BY FormattingIs
<1>3. mode \in {"text", "directive", "returned"}
  BY <1>1 DEF Reached
<1>4. pos \in 1 .. Len(job.fmt) + 1
  <2>1. CASE mode = "directive"
    BY <1>1, <1>2, <2>1, InsideFormat DEF More
  <2>2. CASE mode # "directive"
    <3>1. pos = Spot(k) + 1
      BY <1>1, <2>2 DEF Reached
    <3>2. Spot(k) \in Nat /\ Spot(k) <= Len(job.fmt)
      BY SpotIs
    <3> QED BY <1>2, <3>1, <3>2
  <2> QED BY <2>1, <2>2
<1>5. arg \in 1 .. Len(job.args) + 1
  <2>1. Items \in Seq(Item) /\ HasArguments(job)
    BY FormattingIs
  <2>2. Taken(k) \in Nat /\ Taken(Len(Items)) \in Nat /\ Taken(k) <= Taken(Len(Items))
    BY <1>2, <2>1, TakenUptoIs, TakenGrows DEF Taken
  <2>3. Taken(Len(Items)) <= Len(job.args)
    BY <2>1 DEF HasArguments, Taken, Items
  <2>4. arg = Taken(k) + 1
    BY <1>1 DEF WrittenUpto
  <2> QED BY <1>2, <2>2, <2>3, <2>4
<1>6. TextUpto[k] \in Seq(Symbol) /\ Len(TextUpto[k]) \in Nat
  <2>1. TextUpto[k] \in Seq(Symbol)
    BY TextUptoIs
  <2> QED BY <2>1
<1>7. returns \in Int
  BY <1>1, <1>6 DEF WrittenUpto
<1>8. job.fn = "my_vsnprintf" => Len(out) < job.size
  <2>1. SUFFICES ASSUME job.fn = "my_vsnprintf" PROVE Len(out) < job.size
    OBVIOUS
  <2> DEFINE n == job.size - 1
             t == TextUpto[k]
  <2>2. n \in Nat /\ n < job.size
    BY <1>2, <2>1
  <2>3. t \in Seq(Symbol) /\ Len(t) \in Nat
    BY <1>6
  <2>4. out = Cut(t, n)
    BY <1>1, <2>1 DEF WrittenUpto
  <2> HIDE DEF n, t
  <2>5. Len(Cut(t, n)) = IF n < Len(t) THEN n ELSE Len(t)
    BY <2>2, <2>3, CutIs
  <2>6. Len(Cut(t, n)) <= n /\ Len(Cut(t, n)) \in Nat
    BY <2>2, <2>3, <2>5
  <2> QED BY <1>2, <2>1, <2>2, <2>4, <2>6
<1> QED BY <1>3, <1>4, <1>5, <1>7, <1>8 DEF FormatTypeOK, PropsType

LEMMA TypeOfFormat ==
  ASSUME FormatInv
  PROVE  FormatTypeOK
<1>1. props \in PropsType
  BY DEF FormatInv
<1>2. CASE FormatIdle
  <2>1. /\ job.fn # "my_vsnprintf" /\ job.fmt = <<>> /\ job.args = <<>>
        /\ pos = 1 /\ arg = 1 /\ mode = "returned" /\ returns = 0
    BY <1>2 DEF FormatIdle
  <2>2. Len(job.fmt) = 0 /\ Len(job.args) = 0
    BY <2>1
  <2>3. pos \in 1 .. Len(job.fmt) + 1 /\ arg \in 1 .. Len(job.args) + 1
    BY <2>1, <2>2
  <2>4. props \in [pad : {" ", "0"}, npad : Int, alternate : BOOLEAN, nlong : Nat]
    BY <1>1 DEF PropsType
  <2>5. returns \in Int /\ mode \in {"text", "directive", "returned"}
    BY <2>1
  <2>6. job.fn = "my_vsnprintf" => Len(out) < job.size
    BY <2>1
  <2> QED BY <2>3, <2>4, <2>5, <2>6 DEF FormatTypeOK
<1>3. CASE job \in Calls /\ job.fn \in Formatter /\ FormattingInv
  BY <1>1, <1>3, FormattingTypeOK DEF Formatting
<1>4. CASE job \in Calls /\ job.fn \notin Formatter /\ NumberInv
  <2>1. Len(job.fmt) \in Nat /\ Len(job.args) \in Nat
    <3>1. job \in Job
      BY <1>4, CallsAre
    <3>2. job.fmt \in Seq(STRING) /\ job.args \in Seq(Argument)
      BY <3>1 DEF Job
    <3> QED BY <3>2
  <2>2. job.fn # "my_vsnprintf"
    BY <1>4 DEF Formatter
  <2>3. pos = 1 /\ arg = 1 /\ mode \in {"text", "returned"} /\ returns \in Int
    BY <1>4 DEF NumberInv
  <2>4. pos \in 1 .. Len(job.fmt) + 1 /\ arg \in 1 .. Len(job.args) + 1
    BY <2>1, <2>3
  <2>5. props \in [pad : {" ", "0"}, npad : Int, alternate : BOOLEAN, nlong : Nat]
    BY <1>1 DEF PropsType
  <2> QED BY <2>2, <2>3, <2>4, <2>5 DEF FormatTypeOK
<1> QED BY <1>2, <1>3, <1>4 DEF FormatInv

(* At the return every item has been written.                              *)
LEMMA FormatWritten ==
  ASSUME FormatInv
  PROVE  FormatAsSpecified
<1>1. SUFFICES ASSUME mode = "returned", job.fn \in {"my_vsnprintf", "simple_sprintf"}
               PROVE  /\ job.fn = "my_vsnprintf" =>
                           out = Cut(Expected, job.size - 1) /\ returns = Len(Expected)
                      /\ job.fn = "simple_sprintf" => out = Expected /\ returns = Len(Expected)
  BY DEF FormatAsSpecified
<1>2. job.fn \in Formatter /\ ~FormatIdle
  BY <1>1 DEF Formatter, FormatIdle
<1>3. PICK k \in 0 .. Len(Items) :
        WrittenUpto(k, arg, out, returns) /\ Reached(k, mode, pos, props)
  BY <1>2 DEF FormatInv, FormattingInv
<1>4. k = Len(Items)
  BY <1>1, <1>3 DEF Reached
<1>5. Expected = TextUpto[k]
  BY <1>4 DEF Expected, Items
<1> QED BY <1>3, <1>5 DEF WrittenUpto

-----------------------------------------------------------------------------
(***************************************************************************)
(* The library: a call of one half leaves the other as it was.             *)
(***************************************************************************)

StringsOrIdle == Idle \/ (StringsInv /\ ResultInv)

LEMMA LibrarySteps ==
  ASSUME [LibraryNext]_<<vars, formatVars>>
  PROVE  [Next]_vars /\ [FormatNext]_formatVars
BY DEF LibraryNext

(* Nothing runs, and nothing starts.                                       *)
LEMMA IdleStays ==
  ASSUME Idle, [Next]_vars
  PROVE  Idle'
<1>1. ~Next
  BY DEF Idle, Next, memset, memcpy, memmove_choose, memmove_up, memmove_down, strlen,
         strcpy, strcat_end, strcat, strncpy, strncpy_pad, memchr, strchr,
         memcmp, strcmp, strncmp, strstr_needle, strstr_haystack, strstr_strncmp, Running
<1> QED BY <1>1 DEF Idle, vars

LEMMA IdleIs ==
  ASSUME Idle
  PROVE  TypeOK /\ MemoryAsSpecified /\ ResultAsSpecified
<1>1. MemSize \in Nat /\ 0 \in 0 .. ByteW-1
  BY StringsAssumption
<1>2. /\ mem = [a \in Addr |-> 0] /\ before = mem /\ call.fn = "none" /\ stage = "returned"
      /\ i = 0 /\ j = 0 /\ len = 0 /\ result = 0
  BY DEF Idle, Args, NULL
<1>3. TypeOK
  BY <1>1, <1>2 DEF TypeOK
<1>4. ExpectedMemory = before
  BY <1>2, Zenon DEF ExpectedMemory
<1> QED BY <1>2, <1>3, <1>4 DEF MemoryAsSpecified, ResultAsSpecified

LEMMA StringsOrIdleHolds == LibrarySpec => []StringsOrIdle
<1>1. LibraryInit => StringsOrIdle
  BY InitStringsInv, InitResultInv DEF LibraryInit, StringsOrIdle
<1>2. StringsOrIdle /\ [LibraryNext]_<<vars, formatVars>> => StringsOrIdle'
  BY LibrarySteps, IdleStays, NextKeeps, ResultStep DEF StringsOrIdle
<1> QED BY <1>1, <1>2, PTL DEF LibrarySpec

(***************************************************************************)
(* No function of string.c leaves the range of a byte, of its memory's     *)
(* indices or of its loops, from any legal call.                           *)
(***************************************************************************)
THEOREM TypeCorrect == LibrarySpec => []TypeOK
<1>1. StringsOrIdle => TypeOK
  BY IdleIs DEF StringsOrIdle, ResultInv
<1> QED BY <1>1, StringsOrIdleHolds, PTL

(***************************************************************************)
(* string.c's functions leave in a memory of any size, from any legal call,*)
(* what the C standard says, whatever the bytes and the lengths.           *)
(***************************************************************************)
THEOREM MemoryCorrect == LibrarySpec => []MemoryAsSpecified
<1>1. StringsOrIdle => MemoryAsSpecified
  BY IdleIs DEF StringsOrIdle, StringsInv
<1> QED BY <1>1, StringsOrIdleHolds, PTL

(***************************************************************************)
(* string.c's functions return, from any legal call in a memory of any     *)
(* size, what the C standard says: the length, the sign of the first       *)
(* difference, the first place or none, or their destination.              *)
(***************************************************************************)
THEOREM ResultCorrect == LibrarySpec => []ResultAsSpecified
<1>1. StringsOrIdle => ResultAsSpecified
  BY IdleIs, ExpectedResultIs DEF StringsOrIdle, ResultInv, ResultAsSpecified
<1> QED BY <1>1, StringsOrIdleHolds, PTL

LEMMA FormatHolds == LibrarySpec => [](FormatInv /\ NumbersInv)
<1>1. LibraryInit => FormatInv /\ NumbersInv
  BY FormatStarts, NumbersInit DEF LibraryInit
<1>2. FormatInv /\ NumbersInv /\ [LibraryNext]_<<vars, formatVars>>
        => FormatInv' /\ NumbersInv'
  BY LibrarySteps, FormatKeeps, FormatStutters, NumbersKeep, NumbersStutter
<1> QED BY <1>1, <1>2, PTL DEF LibrarySpec

(***************************************************************************)
(* my_vsnprintf and simple_sprintf never read beyond the '\0' of a format  *)
(* or beyond the arguments of a legal call, and my_vsnprintf's buffer, of  *)
(* any size, always has room for the terminator.                           *)
(***************************************************************************)
THEOREM FormatTypeCorrect == LibrarySpec => []FormatTypeOK
<1>1. FormatInv => FormatTypeOK
  BY TypeOfFormat
<1> QED BY <1>1, FormatHolds, PTL

(***************************************************************************)
(* my_vsnprintf and simple_sprintf write, for a format of any length, of   *)
(* directives with any flags and widths that the C standard gives a        *)
(* meaning, the text that it asks for; my_vsnprintf as much of it as its   *)
(* buffer takes, and it returns the length of all of it.                   *)
(***************************************************************************)
THEOREM FormatCorrect == LibrarySpec => []FormatAsSpecified
<1>1. FormatInv => FormatAsSpecified
  BY FormatWritten
<1> QED BY <1>1, FormatHolds, PTL

(***************************************************************************)
(* The UART drivers' print functions send, for longs of any width, the     *)
(* numeral of the value, and atol and atoi read the value of a numeral,    *)
(* whatever comes before and after it.                                     *)
(***************************************************************************)
THEOREM NumbersCorrect == LibrarySpec => []NumbersAsSpecified
<1>1. NumbersInv => NumbersAsSpecified
  BY DEF NumbersInv
<1> QED BY <1>1, FormatHolds, PTL

=============================================================================
