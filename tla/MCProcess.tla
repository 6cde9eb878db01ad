----------------------------- MODULE MCProcess -----------------------------
(***************************************************************************)
(* The process with four connections, for TLC: enough for connections     *)
(* that end before ctrl-c, that are still running when it fires, that are *)
(* accepted after it, and that are never accepted.                         *)
(***************************************************************************)
EXTENDS Process, TLC

CONSTANTS c1, c2, c3, c4

MCConns == {c1, c2, c3, c4}

=============================================================================
