------------------------------- MODULE MCTrap -------------------------------
(***************************************************************************)
(* Trap for TLC: three register values (2 is -1), a system call table of   *)
(* the two registered numbers, so that 2 is an unknown number, one cause   *)
(* past the 16 entries of exception_handlers and a program of two          *)
(* instructions, so that a trap can follow another.                        *)
(***************************************************************************)
EXTENDS Trap

MCInitRegs ==
  { [ra |-> 2, t0 |-> 1, t1 |-> 2, a0 |-> a0, a1 |-> 1, a7 |-> a7,
     s0 |-> 2, f0 |-> 1, fcsr |-> 2] : a0 \in 0 .. 2, a7 \in 0 .. 2 }

MCFaults == {24}

=============================================================================
