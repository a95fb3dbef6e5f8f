------------------------------ MODULE MCKernel ------------------------------
(***************************************************************************)
(* Kernel for TLC: three ticks a second, three units of time a tick and    *)
(* counters of three bits, which wrap while TLC explores them.             *)
(***************************************************************************)
EXTENDS Kernel
=============================================================================
