----------------------------- MODULE MCSession -----------------------------
(***************************************************************************)
(* Small instances of one connection for TLC.  MaxLine is 4 instead of    *)
(* 224, so that command lines of 3, 4 and 5 bytes fall on both sides of   *)
(* the limit; puts announce 0 or 2 payload bytes.                          *)
(***************************************************************************)
EXTENDS Session

MCMaxLine == 4
MCMaxPut == 2
MCOutCap == 1

CRLF == <<CR, LF>>
\* A command line with pad argument bytes.
CmdLine(pad) == <<Cmd>> \o [i \in 1 .. pad |-> X] \o CRLF
\* A put of n bytes with its payload and what follows the payload.
PutMsg(n, payload, term) == <<n>> \o CRLF \o payload \o term

Messages ==
    {CmdLine(p) : p \in 0 .. 2}
    \cup {<<X>> \o CRLF,                      \* not a command
          PutMsg(0, <<>>, CRLF),
          PutMsg(0, <<>>, <<X, CR>>),          \* missing CRLF after the payload
          PutMsg(2, <<X, CR>>, CRLF),          \* payload ending in '\r'
          PutMsg(2, CRLF, CRLF)}               \* payload that is a line end

\* Streams of one or two messages.
MCScripts == Messages \cup {m1 \o m2 : m1, m2 \in Messages}

=============================================================================
