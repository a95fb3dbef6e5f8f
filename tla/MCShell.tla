------------------------------ MODULE MCShell ------------------------------
(***************************************************************************)
(* Shell for TLC: a buffer of 4 bytes, so that lines of 3 characters fill  *)
(* it, over a stack that holds zeros or a command without its end.  The    *)
(* prompt has two characters for an erasure too many to show.              *)
(***************************************************************************)
EXTENDS Shell

MCKey == {"r", "q", " ", "BS", "DEL", "\r", "\n"}
MCPrompt == <<">", " ">>
MCStale == {[k \in 0 .. 3 |-> "NUL"], [k \in 0 .. 3 |-> "r"]}
=============================================================================
