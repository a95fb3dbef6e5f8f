-------------------------------- MODULE Arena --------------------------------
(***************************************************************************)
(* What callers of malloc, calloc and aligned_alloc rely on: each block    *)
(* they are granted lies in the heap, has the size and the alignment asked *)
(* for and shares no byte with another block, until a reboot forgets all   *)
(* blocks.  Module Heap implements this specification.                     *)
(***************************************************************************)
EXTENDS Integers, Sequences

CONSTANTS Lo, Hi   \* the heap is Lo .. Hi-1

VARIABLE blocks    \* the blocks granted since boot

Block == [addr : Nat, asked : Nat, align : Nat \ {0}]

Disjoint(b, c) ==
  b.addr + b.asked <= c.addr \/ c.addr + c.asked <= b.addr

InArena(b) == Lo <= b.addr /\ b.addr + b.asked <= Hi

Init == blocks = <<>>

Grant ==
  /\ Len(blocks') = Len(blocks) + 1
  /\ LET b == blocks'[Len(blocks')] IN
       /\ blocks' = Append(blocks, b)
       /\ b \in Block
       /\ InArena(b)
       /\ b.addr % b.align = 0
       /\ \A i \in DOMAIN blocks : Disjoint(b, blocks[i])

Reset == blocks' = <<>>

Next == Grant \/ Reset

Spec == Init /\ [][Next]_blocks

=============================================================================
