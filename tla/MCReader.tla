------------------------------ MODULE MCReader ------------------------------
(***************************************************************************)
(* The decoder and its reader alone, with a consumer that keeps polling   *)
(* after an error, for TLC.  MaxLine is 4; the client sends a bad line or *)
(* a put whose payload is not followed by "\r\n", and then a command.     *)
(***************************************************************************)
EXTENDS Framing

MCMaxLine == 4
MCMaxPut == 1

CRLF == <<CR, LF>>

\* What precedes the last command: input the decoder must discard.
BadInputs ==
    {<<Cmd, X, X, X, X>>,           \* a line longer than MaxLine
     <<X, X>>,                      \* a line that is not a command
     <<1>> \o CRLF \o <<X, X, X>>,  \* a payload not followed by "\r\n"
     <<1>> \o CRLF \o <<X, CR>>}    \* a payload followed by a lone '\r'

MCScripts == {b \o CRLF \o <<Cmd>> \o CRLF : b \in BadInputs}

=============================================================================
