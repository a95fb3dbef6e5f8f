----------------------------- MODULE MCConsole -----------------------------
(***************************************************************************)
(* Console for TLC: three interrupts of two characters each, one of them a *)
(* newline, come anywhere in a message of four.                            *)
(***************************************************************************)
EXTENDS Console

MCChar == {"a", "b", "i", "\n", "\r"}
MCMainText == <<"a", "\n", "b", "\n">>
MCIrqText == <<"i", "\n">>

=============================================================================
