----------------------------- MODULE MCHeapWrap -----------------------------
(***************************************************************************)
(* Heap for TLC with callers that ask malloc for anything.                 *)
(***************************************************************************)
EXTENDS Heap

MCSizes == Word
MCCallocArgs == {<<1, 4>>}
MCAlignedArgs == {<<8, 4>>}

=============================================================================
