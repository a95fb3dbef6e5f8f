------------------------------ MODULE Library ------------------------------
(***************************************************************************)
(* The C library of the kernel, src/src/lib: one call of a function of     *)
(* module Strings or of module Format.  It has no state between calls.     *)
(***************************************************************************)
EXTENDS Strings, Format

LibraryInit == (Init /\ FormatIdle) \/ (Idle /\ FormatInit)

LibraryNext ==
  \/ Next /\ UNCHANGED formatVars
  \/ FormatNext /\ UNCHANGED vars

(* Nothing keeps a loop from its next iteration.                           *)
LibrarySpec ==
  LibraryInit /\ [][LibraryNext]_<<vars, formatVars>>
              /\ WF_<<vars, formatVars>>(LibraryNext)

(***************************************************************************)
(* Every call returns: each loop's counter, pointer or position in the     *)
(* format gets to the end that the loop tests for, without an access       *)
(* outside of memory on the way.                                           *)
(***************************************************************************)
CallsReturn == <>(stage = "returned" /\ mode = "returned")

=============================================================================
