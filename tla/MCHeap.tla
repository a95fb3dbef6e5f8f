------------------------------- MODULE MCHeap -------------------------------
(***************************************************************************)
(* Heap for TLC: 64 addresses, a heap of six units of four bytes at 16 and *)
(* callers that ask for sizes around the unit, for products that wrap and  *)
(* for alignments below and above the default, zero and no power of two    *)
(* among them.                                                             *)
(***************************************************************************)
EXTENDS Heap

MCSizes == {0, 1, 4, 7}

MCCallocArgs ==
  {a \in {0, 1, 3, 16, 33} \X {0, 1, 2, 4, 33} :
     a[1] * a[2] \in (0 .. 9) \cup (W .. W*W)}

MCAlignedArgs == {0, 1, 2, 3, 8} \X {0, 1, 5}

ASSUME BoundedRequests
=============================================================================
