------------------------------ MODULE UserProg ------------------------------
(***************************************************************************)
(* The shell's run command (run_user_prog in src/src/entry.c): it copies   *)
(* the embedded program to a fixed address, takes a stack from the heap of *)
(* module Heap, writes the program's arguments on it and calls the         *)
(* program, which calls the kernel through the gateway of                  *)
(* src/src/exception/exception.S.  Addresses and sizes count 8-byte words. *)
(***************************************************************************)
EXTENDS Integers, Sequences

CONSTANTS
  W, Page, Align, HeapStart, MinStart, HeapLimit, MaxBlocks,   \* see Heap
  TestSizes,                              \* what mem_test takes at each boot
  ImageStart,                             \* start_addr
  ImageArea,                              \* what memset clears (16 KB)
  StackSize,                              \* the user stack (64 KB)
  ProgName, user_phdrs, random_bytes,     \* addresses of constants
  GatewayRegs                             \* a0, a1, a2, a7 at gateway calls

VARIABLES
  heap,         \* the state of module Heap
  blocks,
  phase,        \* where the hart is
  image,        \* the memory of the program
  user_stack,   \* what malloc returned, 0 being NULL
  stack,        \* the prepared stack: sp and the words from there up
  damaged,      \* history: blocks that the loader has written into
  served        \* history: the last gateway call

H == INSTANCE Heap WITH Sizes <- {}, CallocArgs <- {}, AlignedArgs <- {}

vars == <<heap, blocks, phase, image, user_stack, stack, damaged, served>>

ASSUME UserProgAssumption ==
  /\ {W, Page, Align, HeapStart, MinStart, HeapLimit, MaxBlocks} \subseteq Nat
  /\ Page > 0 /\ Align > 0 /\ Page % Align = 0
  /\ HeapStart + Page <= HeapLimit - Page
  /\ MinStart + Page <= HeapLimit - Page
  /\ HeapLimit + Page <= W
  /\ TestSizes \in Seq(Nat)
  /\ \A k \in 1 .. Len(TestSizes) : H!Bounded(TestSizes[k])
  /\ H!Bounded(StackSize)
  /\ {ImageStart, ImageArea, StackSize} \subseteq Nat
  /\ StackSize > 17   \* room for what prepare_user_stack writes
  /\ {ProgName, user_phdrs, random_bytes} \subseteq Nat \ {0}
  /\ \A r \in GatewayRegs : {r.a0, r.a1, r.a2, r.a7} \subseteq Nat

Phase ==
  {"_start", "mem_test", "shell", "loaded", "allocated", "ready", "user",
   "exit", "halted"}

TypeOK ==
  /\ H!TypeOK
  /\ phase \in Phase
  /\ image \in {"absent", "fresh", "used", "damaged"}
  /\ user_stack \in {0} \cup heap.start .. heap.end
  /\ stack.words \in Seq(Nat)
  /\ phase = "ready" => stack.sp \in heap.start .. heap.end
  /\ damaged \subseteq DOMAIN blocks

NoCall == [regs |-> <<>>, nr |-> 0, args |-> <<>>, ret |-> 0]

Init ==
  /\ H!Init
  /\ phase = "_start"
  /\ image = "absent"
  /\ user_stack = 0
  /\ stack = [sp |-> 0, words |-> <<>>]
  /\ damaged = {}
  /\ served = NoCall

GoTo(from, to) == phase = from /\ phase' = to

(* The blocks with a word among the n at address a.                        *)
Owners(a, n) ==
  {i \in DOMAIN blocks :
     n > 0 /\ ~H!Disjoint(blocks[i], [addr |-> a, asked |-> n])}

-----------------------------------------------------------------------------

(* _start calls mem_init, and kernel_main mem_test, which keeps its blocks.*)
Boot ==
  /\ GoTo("_start", "mem_test")
  /\ H!MemInit
  /\ damaged' = {}
  /\ UNCHANGED <<image, user_stack, stack, served>>

MemTest ==
  /\ phase = "mem_test"
  /\ IF Len(blocks) < Len(TestSizes)
     THEN H!malloc(TestSizes[Len(blocks) + 1]) /\ UNCHANGED phase
     ELSE phase' = "shell" /\ UNCHANGED <<heap, blocks>>
  /\ UNCHANGED <<image, user_stack, stack, damaged, served>>

Reboot ==
  /\ GoTo("shell", "_start")
  /\ UNCHANGED <<heap, blocks, image, user_stack, stack, damaged, served>>

(* Mutant: the image is only copied the first time.                        *)
LoadImage_Once ==
  /\ GoTo("shell", "loaded")
  /\ image' = IF image = "absent" THEN "fresh" ELSE image
  /\ damaged' = damaged \cup Owners(ImageStart, ImageArea)
  /\ UNCHANGED <<heap, blocks, user_stack, stack, served>>

(* memset of the whole area, memcpy of the program, fence.i.               *)
LoadImage ==
  /\ GoTo("shell", "loaded")
  /\ image' = "fresh"
  /\ damaged' = damaged \cup Owners(ImageStart, ImageArea)
  /\ UNCHANGED <<heap, blocks, user_stack, stack, served>>

AllocStack ==
  /\ GoTo("loaded", "allocated")
  /\ H!malloc(StackSize)
  /\ user_stack' = heap.current
  /\ UNCHANGED <<image, stack, damaged, served>>

(* Mutant: a NULL from malloc is not noticed.                              *)
OutOfMemory_Ignored ==
  /\ GoTo("loaded", "allocated")
  /\ ~H!Room(StackSize)
  /\ user_stack' = 0
  /\ UNCHANGED <<heap, blocks, image, stack, damaged, served>>

(* The error is reported and the command returns, with the image loaded.   *)
OutOfMemory ==
  /\ GoTo("loaded", "shell")
  /\ ~H!Room(StackSize)
  /\ user_stack' = 0
  /\ UNCHANGED <<heap, blocks, image, stack, damaged, served>>

-----------------------------------------------------------------------------
(***************************************************************************)
(* prepare_user_stack: words pushed downwards from the 16-byte aligned top.*)
(***************************************************************************)

AT_NULL == 0
AT_PHDR == 3
AT_PHENT == 4
AT_PHNUM == 5
AT_PAGESZ == 6
AT_RANDOM == 25

Top(stack_bottom) == H!ALIGN_DOWN(stack_bottom + StackSize, 2)

(* Mutant: tags are pushed before their values.                            *)
Pushed_TagFirst ==
  << AT_NULL, 0, AT_RANDOM, random_bytes, AT_PAGESZ, 4096,
     AT_PHNUM, 2, AT_PHENT, 56, AT_PHDR, user_phdrs,
     0, 0, ProgName, 1 >>

(* In the order of the code: the auxiliary vector, envp, argv and argc.    *)
Pushed ==
  << 0, AT_NULL, random_bytes, AT_RANDOM, 4096, AT_PAGESZ,
     2, AT_PHNUM, 56, AT_PHENT, user_phdrs, AT_PHDR,
     0, 0, ProgName, 1 >>

PrepareStack ==
  LET n == Len(Pushed)
      sp == Top(user_stack) - n
      block == Len(blocks)
  IN
    /\ GoTo("allocated", "ready")
    /\ stack' = [sp |-> sp, words |-> [i \in 1 .. n |-> Pushed[n + 1 - i]]]
    /\ image' = IF H!Disjoint([addr |-> sp, asked |-> n],
                              [addr |-> ImageStart, asked |-> ImageArea])
                THEN image
                ELSE "damaged"
    /\ damaged' = damaged \cup (Owners(sp, n) \ {block})
    /\ UNCHANGED <<heap, blocks, user_stack, served>>

-----------------------------------------------------------------------------

(* user_main(): the program writes its own data.                           *)
Jump ==
  /\ GoTo("ready", "user")
  /\ image' = "used"
  /\ served' = NoCall
  /\ UNCHANGED <<heap, blocks, user_stack, stack, damaged>>

(* What the program finds in a0: write's count, or default_syscall_handler.*)
SyscallResult(nr, args) ==
  CASE nr = 64 -> args[2]
    [] nr \in {0, 1} -> 0
    [] OTHER -> -1

(***************************************************************************)
(* handle_syscall_direct calls handle_syscall_direct_c with the registers  *)
(* as they are: the C function's first parameter is a0.  Exit spins.       *)
(***************************************************************************)
GatewayCall ==
  /\ phase = "user"
  /\ \E r \in GatewayRegs :
       /\ served' = [regs |-> r, nr |-> r.a0, args |-> <<r.a1, r.a2>>,
                     ret |-> SyscallResult(r.a0, <<r.a1, r.a2>>)]
       /\ phase' = IF r.a0 = 93 THEN "exit" ELSE "user"
  /\ UNCHANGED <<heap, blocks, image, user_stack, stack, damaged>>

(* The program returns to the shell, or faults.  Its stack is not freed.   *)
UserProgEnds ==
  /\ \E to \in {"shell", "halted"} : GoTo("user", to)
  /\ UNCHANGED <<heap, blocks, image, user_stack, stack, damaged, served>>

Next ==
  \/ Boot
  \/ MemTest
  \/ Reboot
  \/ LoadImage
  \/ AllocStack
  \/ OutOfMemory
  \/ PrepareStack
  \/ Jump
  \/ GatewayCall
  \/ UserProgEnds

Spec == Init /\ [][Next]_vars

-----------------------------------------------------------------------------

(***************************************************************************)
(* What run_user_prog jumps to is the program as it was copied, although   *)
(* an earlier run has used its memory, malloc has been called and a stack  *)
(* written since.  It takes an image outside the range of the heap.        *)
(***************************************************************************)
FreshImage == phase = "ready" => image = "fresh"

(***************************************************************************)
(* Neither loading the image nor writing the arguments touches memory that *)
(* anybody else was granted: mem_test's blocks and the stacks of earlier   *)
(* runs.                                                                   *)
(***************************************************************************)
OthersUntouched == damaged = {}

(***************************************************************************)
(* What the loader relies on although nothing enforces it: the image lies  *)
(* beyond the heap's pointer, or below the heap.                           *)
(***************************************************************************)
ImageClear ==
  heap.current <= ImageStart \/ ImageStart + ImageArea <= heap.start

(***************************************************************************)
(* Wherever the image is, one run more is safe as long as the pointer has  *)
(* not passed its start: the program that is called is the one copied, and *)
(* no block was written into by any run since the boot.                    *)
(***************************************************************************)
SafeWhileClear == ImageClear => FreshImage /\ OthersUntouched

(***************************************************************************)
(* The reference: how a C library reads the stack from sp upwards, argc,   *)
(* argc pointers and a null, the environment up to a null, then pairs of a *)
(* tag and a value up to AT_NULL.                                          *)
(***************************************************************************)
Argc == stack.words[1]
Argv == SubSeq(stack.words, 2, Argc + 1)

FirstNull(from) ==
  CHOOSE i \in from .. Len(stack.words) :
    /\ stack.words[i] = 0
    /\ \A j \in from .. i-1 : stack.words[j] # 0

EnvEnd == FirstNull(Argc + 3)
Env == SubSeq(stack.words, Argc + 3, EnvEnd - 1)

Pair(k) ==
  <<stack.words[EnvEnd + 2*k - 1], stack.words[EnvEnd + 2*k]>>
Pairs == 1 .. (Len(stack.words) - EnvEnd) \div 2

AuxEnd ==
  CHOOSE k \in Pairs :
    Pair(k)[1] = AT_NULL /\ \A l \in 1 .. k-1 : Pair(l)[1] # AT_NULL

(***************************************************************************)
(* The program finds its name, an empty environment and the auxiliary      *)
(* vector on a stack that is aligned to 16 bytes and inside the block that *)
(* malloc granted for it.                                                  *)
(***************************************************************************)
StackUsable ==
  phase = "ready" =>
    /\ Argc = 1 /\ Argv = <<ProgName>>
    /\ stack.words[Argc + 2] = 0
    /\ Env = <<>>
    /\ \E k \in Pairs : Pair(k)[1] = AT_NULL
    /\ {Pair(k) : k \in 1 .. AuxEnd - 1} =
         {<<AT_PHDR, user_phdrs>>, <<AT_PHENT, 56>>, <<AT_PHNUM, 2>>,
          <<AT_PAGESZ, 4096>>, <<AT_RANDOM, random_bytes>>}
    /\ stack.sp % 2 = 0
    /\ LET block == blocks[Len(blocks)] IN
         /\ block.addr = user_stack
         /\ block.addr <= stack.sp
         /\ stack.sp + Len(stack.words) <= block.addr + block.asked

(***************************************************************************)
(* The comment on the gateway's call: "a7 is already the syscall id and    *)
(* a0-a5 are the arguments".  The kernel serves the call that a program    *)
(* asks for in these registers.                                            *)
(***************************************************************************)
CallAsAsked ==
  served # NoCall =>
    served.nr = served.regs.a7 /\ served.args = <<served.regs.a0, served.regs.a1>>

=============================================================================
