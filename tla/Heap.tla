-------------------------------- MODULE Heap --------------------------------
(***************************************************************************)
(* The heap of src/src/mem/mem.c: a pointer that only moves up, in         *)
(* unsigned arithmetic modulo W.  Calls that return NULL change nothing,   *)
(* and free never does anything; both are stuttering steps.                *)
(***************************************************************************)
EXTENDS Integers, Sequences

CONSTANTS
  W,             \* addresses and sizes are 0 .. W-1 (2^64 in the code)
  Page,          \* 4096 in the code
  Align,         \* the default alignment (8 in the code)
  HeapStart,     \* the linker's _heap_start
  MinStart,      \* MEM_START + 4 MB
  HeapLimit,     \* MEM_START + MEM_SIZE - 32 MB
  Sizes,         \* what callers pass to malloc
  CallocArgs,    \* the <<count, size>> they pass to calloc
  AlignedArgs,   \* the <<alignment, size>> they pass to aligned_alloc
  MaxBlocks      \* bound: the number of blocks granted between two boots

Word == 0 .. W-1

(***************************************************************************)
(* The C macros: masking with ~(n - 1) is rounding down for a power of two.*)
(***************************************************************************)
ALIGN_DOWN(a, n) == a - (a % n)
ALIGN_UP(a, n) == ALIGN_DOWN((a + n - 1) % W, n)

(* W being a power of two, its divisors are the other ones.                *)
IsPowerOfTwo(n) == n # 0 /\ W % n = 0

ASSUME HeapAssumption ==
  /\ W \in Nat /\ Page \in Nat /\ Align \in Nat
  /\ Page > 0 /\ Align > 0
  /\ HeapStart \in Nat /\ MinStart \in Nat /\ HeapLimit \in Nat
  /\ HeapStart + Page <= HeapLimit - Page
  /\ MinStart + Page <= HeapLimit - Page
  /\ HeapLimit + Page <= W
  /\ Page % Align = 0
  /\ Sizes \subseteq Word
  /\ CallocArgs \subseteq Word \X Word
  /\ AlignedArgs \subseteq Word \X Word
  /\ MaxBlocks \in Nat

VARIABLES
  heap,    \* the struct heap
  blocks   \* history: the blocks granted since boot, oldest first

vars == <<heap, blocks>>

(* The bytes addr .. addr + asked - 1, asked for with this alignment.      *)
Block == [addr : Nat, asked : Nat, align : Nat \ {0}]

Address == 0 .. HeapLimit

TypeOK ==
  /\ heap \in [start : Address, end : Address, current : Address,
               total_size : Address, allocated : Address,
               align : {0, Align}]
  /\ blocks \in Seq(Block)

(* .bss after clear_bss.                                                   *)
Init ==
  /\ heap = [start |-> 0, end |-> 0, current |-> 0, total_size |-> 0,
             allocated |-> 0, align |-> 0]
  /\ blocks = <<>>

Start == ALIGN_UP(IF HeapStart < MinStart THEN MinStart ELSE HeapStart, Page)
End == ALIGN_DOWN(HeapLimit, Page)

(***************************************************************************)
(* mem_init, called by _start at each boot: nobody owns a block any more.  *)
(***************************************************************************)
MemInit ==
  /\ heap' = [start |-> Start, end |-> End, current |-> Start,
              total_size |-> End - Start, allocated |-> 0, align |-> Align]
  /\ blocks' = <<>>

(***************************************************************************)
(* malloc.  All callers run after mem_init.                                *)
(***************************************************************************)
Raised(size) == (heap.current + ALIGN_UP(size, heap.align)) % W

(* Mutant: nothing stops the pointer at the end of the heap.               *)
Room_Unchecked(size) ==
  /\ heap.align # 0
  /\ size # 0

Room(size) ==
  /\ heap.align # 0
  /\ size # 0
  /\ Raised(size) <= heap.end

(* Mutant: the statistics count the size before rounding.                  *)
Take_Unrounded(size) ==
  heap' = [heap EXCEPT
             !.current = Raised(size),
             !.allocated = (@ + size) % W]

Take(size) ==
  heap' = [heap EXCEPT
             !.current = Raised(size),
             !.allocated = (@ + ALIGN_UP(size, heap.align)) % W]

Grant(addr, asked, align) ==
  /\ Len(blocks) < MaxBlocks
  /\ blocks' = Append(blocks, [addr |-> addr, asked |-> asked,
                               align |-> align])

malloc(size) ==
  /\ Room(size)
  /\ Take(size)
  /\ Grant(heap.current, size, heap.align)

Malloc == \E size \in Sizes : malloc(size)

(***************************************************************************)
(* calloc checks the product by dividing it; divu by zero yields W - 1.    *)
(***************************************************************************)
Divu(a, b) == IF b = 0 THEN W - 1 ELSE a \div b

(* Mutant: calloc without the division that detects a wrapped product.     *)
calloc_Unchecked(count, size) ==
  LET total_size == (count * size) % W IN
  /\ Room(total_size)
  /\ Take(total_size)
  /\ Grant(heap.current, count * size, heap.align)

calloc(count, size) ==
  LET total_size == (count * size) % W IN
  /\ Divu(total_size, count) = size
  /\ Room(total_size)
  /\ Take(total_size)
  /\ Grant(heap.current, count * size, heap.align)

Calloc == \E a \in CallocArgs : calloc(a[1], a[2])

(***************************************************************************)
(* aligned_alloc rounds the address up in a block alignment - 1 larger.    *)
(***************************************************************************)
(* Mutant: aligned_alloc reserves no room for rounding the address up.     *)
aligned_alloc_NoSlack(alignment, size) ==
  /\ IsPowerOfTwo(alignment)
  /\ Room(size)
  /\ Take(size)
  /\ Grant(ALIGN_UP(heap.current, alignment), size, alignment)

(* Mutant: aligned_alloc returns the address malloc gave it.               *)
aligned_alloc_Raw(alignment, size) ==
  LET aligned_size == (size + alignment - 1) % W IN
  /\ IsPowerOfTwo(alignment)
  /\ Room(aligned_size)
  /\ Take(aligned_size)
  /\ Grant(heap.current, size, alignment)

aligned_alloc(alignment, size) ==
  LET aligned_size == (size + alignment - 1) % W IN
  /\ IsPowerOfTwo(alignment)
  /\ Room(aligned_size)
  /\ Take(aligned_size)
  /\ Grant(ALIGN_UP(heap.current, alignment), size, alignment)

AlignedAlloc == \E a \in AlignedArgs : aligned_alloc(a[1], a[2])

Next ==
  \/ MemInit
  \/ Malloc
  \/ Calloc
  \/ AlignedAlloc

Spec == Init /\ [][Next]_vars

-----------------------------------------------------------------------------

(***************************************************************************)
(* No two callers own the same byte.                                       *)
(***************************************************************************)
Disjoint(b, c) ==
  b.addr + b.asked <= c.addr \/ c.addr + c.asked <= b.addr

BlocksDisjoint ==
  \A i, j \in DOMAIN blocks : i # j => Disjoint(blocks[i], blocks[j])

(***************************************************************************)
(* mem_is_heap_addr accepts every byte of every block: what a caller asked *)
(* for, as a mathematical product for calloc, lies between start and       *)
(* current, which never passes end.                                        *)
(***************************************************************************)
mem_is_heap_addr(p) == p >= heap.start /\ p < heap.current

BlocksInHeap ==
  /\ \A i \in DOMAIN blocks :
       LET b == blocks[i] IN
       b.asked > 0 => /\ mem_is_heap_addr(b.addr)
                      /\ mem_is_heap_addr(b.addr + b.asked - 1)
  /\ heap.current <= heap.end

(***************************************************************************)
(* The numbers of mem_print_stats add up: allocated is what the pointer    *)
(* has moved, and allocated and free make the total.                       *)
(***************************************************************************)
mem_get_free_size == heap.end - heap.current

Accounting ==
  /\ heap.allocated = heap.current - heap.start
  /\ heap.allocated + mem_get_free_size = heap.total_size

(***************************************************************************)
(* The allocator is an arena: every block it grants is new, inside the     *)
(* heap, and aligned as asked.                                             *)
(***************************************************************************)
Promise == INSTANCE Arena WITH Lo <- Start, Hi <- End

ImplementsArena == Promise!Spec

(***************************************************************************)
(* What callers must not do: ask for sizes whose rounding, or whose sum    *)
(* with an address of the heap, wraps around.  A product that itself wraps *)
(* is no concern of theirs, calloc refuses it.                             *)
(***************************************************************************)
Bounded(size) == HeapLimit + size + Align <= W

BoundedRequests ==
  /\ \A size \in Sizes : Bounded(size)
  /\ \A a \in CallocArgs : Bounded(a[1] * a[2]) \/ a[1] * a[2] >= W
  /\ \A a \in AlignedArgs : Bounded(a[1] + a[2])

=============================================================================
