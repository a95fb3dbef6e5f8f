----------------------------- MODULE MCUserProg -----------------------------
(***************************************************************************)
(* UserProg for TLC: stacks of 19 words, an odd number so that every other *)
(* one needs its top aligned, in a heap with room for a dozen.  The image  *)
(* lies inside the heap, as in the code, and one of the runs puts its stack*)
(* there; for the gateway it lies above the heap.                          *)
(***************************************************************************)
EXTENDS UserProg

(* write and exit as handle_syscall_direct_c takes them, with a0 the number*)
MCGatewayRegs ==
  {[a0 |-> 64, a1 |-> 1000, a2 |-> 2, a7 |-> 0],
   [a0 |-> 93, a1 |-> 0, a2 |-> 0, a7 |-> 0]}

(* write(1, 1000, 2) with the number in a7.                                *)
MCWriteInA7 == {[a0 |-> 1, a1 |-> 1000, a2 |-> 2, a7 |-> 64]}

MCTestSizes == <<7, 3, 4>>
=============================================================================
