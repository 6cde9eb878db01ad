------------------------------ MODULE Session ------------------------------
(***************************************************************************)
(* One client connection of the server (do_client_loop in                 *)
(* src/bin/ebeans/main.rs): the loop that takes the decoder's events from *)
(* the FramedRead of Reader, answers them, and ends the connection on end *)
(* of stream, on an IO error, after answering a framing error, or when    *)
(* the process-wide cancellation token fires (ctrl-c).                     *)
(*                                                                         *)
(* Responses go into the socket's send buffer, which holds OutCap of      *)
(* them; the client takes them out when it reads.  A send waits while the *)
(* buffer is full.                                                         *)
(*                                                                         *)
(* Connections share no state in this code except the cancellation token, *)
(* so one connection is modelled.                                          *)
(***************************************************************************)
EXTENDS Framing

CONSTANT OutCap   \* responses the socket send buffer holds

ASSUME OutCapAssumption == OutCap \in Nat \ {0}

VARIABLES
    pc,         \* where do_client_loop is
    pend,       \* the response being sent
    outq,       \* responses in the send buffer, not yet read by the client
    sent,       \* every response sent, in order (history)
    closedBy,   \* why the loop ended
    cancelled   \* the cancellation token has fired

sessionVars == <<pc, pend, outq, sent, closedBy, cancelled>>
vars == <<readerVars, sessionVars>>

\* Responses the loop sends (enum Response).
Responses == {"InternalError", "BadFormat", "ExpectedCRLF"}
PcValues == {"next", "send", "sendBadFormat", "sendError", "shutdown", "done"}
Reasons == {"", "End", "IO", "Client", "Cancel"}

TypeOK ==
    /\ ReaderTypeOK
    /\ pc \in PcValues
    /\ pend \in Responses
    /\ outq \in Seq(Responses)
    /\ Len(outq) <= OutCap
    /\ sent \in Seq(Responses)
    /\ closedBy \in Reasons
    /\ cancelled \in BOOLEAN

Init ==
    /\ ReaderInit
    /\ pc = "next"
    /\ pend = "InternalError"
    /\ outq = <<>>
    /\ sent = <<>>
    /\ closedBy = ""
    /\ cancelled = FALSE

(***************************************************************************)
(* The loop awaits framed.next(): the reader works while the loop waits.  *)
(***************************************************************************)
Poll ==
    /\ pc = "next"
    /\ FrStep
    /\ UNCHANGED sessionVars

(***************************************************************************)
(* The loop acts on what framed.next() returned.  End of stream and IO    *)
(* errors end it; Discarded is skipped; a framing error is answered and   *)
(* then ends it; a PutChunk or PutEnd is answered BAD_FORMAT; every       *)
(* command is answered INTERNAL_ERROR.                                     *)
(***************************************************************************)
Respond(r, next) ==
    /\ pend' = r
    /\ pc' = next
    /\ UNCHANGED closedBy

\* Mutant: None from framed.next() is skipped like Discarded.
RecvContinuesOnEnd ==
    /\ pc = "next"
    /\ got # Polling
    /\ got' = Polling
    /\ log' = Logged(log, got)
    /\ CASE got.ev = "IO"                   -> pc' = "shutdown" /\ closedBy' = "IO"
                                              /\ UNCHANGED pend
         [] got.ev \in {"End", "Discarded"}  -> UNCHANGED <<pc, pend, closedBy>>
         [] got.ev \in ClientErrors         -> Respond(got.ev, "sendError")
         [] got.ev \in {"PutChunk", "PutEnd"} -> Respond("BadFormat", "sendBadFormat")
         [] got.ev = "Command"              -> Respond("InternalError", "send")
    /\ UNCHANGED <<stream, rd, hup, buf, dec, eof, readable, errored,
                   outq, sent, cancelled>>

Recv ==
    /\ pc = "next"
    /\ got # Polling
    /\ got' = Polling
    /\ log' = Logged(log, got)
    /\ CASE got.ev = "End"                  -> pc' = "shutdown" /\ closedBy' = "End"
                                              /\ UNCHANGED pend
         [] got.ev = "IO"                   -> pc' = "shutdown" /\ closedBy' = "IO"
                                              /\ UNCHANGED pend
         [] got.ev = "Discarded"            -> UNCHANGED <<pc, pend, closedBy>>
         [] got.ev \in ClientErrors         -> Respond(got.ev, "sendError")
         [] got.ev \in {"PutChunk", "PutEnd"} -> Respond("BadFormat", "sendBadFormat")
         [] got.ev = "Command"              -> Respond("InternalError", "send")
    /\ UNCHANGED <<stream, rd, hup, buf, dec, eof, readable, errored,
                   outq, sent, cancelled>>

(***************************************************************************)
(* select! on framed.next() and cancel.cancelled(): the cancellation      *)
(* branch ends the loop when the token has fired and no event is in hand. *)
(***************************************************************************)
\* Mutant: framed.next() awaited without the cancellation branch.
CancelRecvMissing == FALSE

CancelRecv ==
    /\ pc = "next"
    /\ got = Polling
    /\ cancelled
    /\ pc' = "shutdown"
    /\ closedBy' = "Cancel"
    /\ UNCHANGED <<readerVars, pend, outq, sent, cancelled>>

(***************************************************************************)
(* framed.send(resp) completes once the response is in the send buffer.   *)
(* After a framing error's response the loop ends.                         *)
(***************************************************************************)
\* Mutant: the send does not wait for room in the send buffer.
SendDoneIgnoringBackpressure ==
    /\ pc \in {"send", "sendBadFormat", "sendError"}
    /\ outq' = Append(outq, pend)
    /\ sent' = Append(sent, pend)
    /\ pc' = IF pc = "sendError" THEN "shutdown" ELSE "next"
    /\ closedBy' = IF pc = "sendError" THEN "Client" ELSE closedBy
    /\ UNCHANGED <<readerVars, pend, cancelled>>

\* Mutant: `continue` instead of `break` after a framing error's response.
SendDoneContinuesAfterError ==
    /\ pc \in {"send", "sendBadFormat", "sendError"}
    /\ Len(outq) < OutCap
    /\ outq' = Append(outq, pend)
    /\ sent' = Append(sent, pend)
    /\ pc' = "next"
    /\ UNCHANGED <<readerVars, pend, closedBy, cancelled>>

SendDone ==
    /\ pc \in {"send", "sendBadFormat", "sendError"}
    /\ Len(outq) < OutCap
    /\ outq' = Append(outq, pend)
    /\ sent' = Append(sent, pend)
    /\ pc' = IF pc = "sendError" THEN "shutdown" ELSE "next"
    /\ closedBy' = IF pc = "sendError" THEN "Client" ELSE closedBy
    /\ UNCHANGED <<readerVars, pend, cancelled>>

(***************************************************************************)
(* The sends of a command's response and of a framing error's response    *)
(* race cancel.cancelled() in a select!; the BAD_FORMAT send for a        *)
(* PutChunk or PutEnd is a plain .await and cannot be cancelled.           *)
(***************************************************************************)
CancelSend ==
    /\ pc \in {"send", "sendError"}
    /\ cancelled
    /\ pc' = "shutdown"
    /\ closedBy' = "Cancel"
    /\ UNCHANGED <<readerVars, pend, outq, sent, cancelled>>

\* framed.into_inner().shutdown(): the write side is closed, the task ends.
Shutdown ==
    /\ pc = "shutdown"
    /\ pc' = "done"
    /\ UNCHANGED <<readerVars, pend, outq, sent, closedBy, cancelled>>

\* ctrl-c: the signal task cancels the token.
Cancel ==
    /\ ~cancelled
    /\ cancelled' = TRUE
    /\ UNCHANGED <<readerVars, pc, pend, outq, sent, closedBy>>

\* The client reads a response from its socket.
ClientRead ==
    /\ outq # <<>>
    /\ outq' = Tail(outq)
    /\ UNCHANGED <<readerVars, pc, pend, sent, closedBy, cancelled>>

\* The client closes its side of the connection.
ClientHangup ==
    /\ Hangup
    /\ UNCHANGED sessionVars

\* The connection is over and the client has gone: nothing more happens.
Finished ==
    /\ pc = "done"
    /\ hup
    /\ outq = <<>>
    /\ UNCHANGED vars

ServerStep == Poll \/ Recv \/ CancelRecv \/ SendDone \/ CancelSend \/ Shutdown

Next ==
    \/ ServerStep
    \/ Cancel
    \/ ClientRead
    \/ ClientHangup
    \/ Finished

(***************************************************************************)
(* The server task is scheduled whenever it can run (weak fairness).  A   *)
(* select! polls its branches in random order, so a cancellation branch   *)
(* that is ready again and again is eventually taken (strong fairness).   *)
(* The client and the signal are not obliged to do anything.  FairSpec    *)
(* adds a client that keeps reading its responses.                         *)
(***************************************************************************)
Spec ==
    /\ Init /\ [][Next]_vars
    /\ WF_vars(ServerStep)
    /\ SF_vars(CancelRecv)
    /\ SF_vars(CancelSend)

FairSpec == Spec /\ WF_vars(ClientRead)

-----------------------------------------------------------------------------
(***************************************************************************)
(* Shutdown completes: once ctrl-c has cancelled the token, the           *)
(* connection's task ends (main waits for every task before it exits).    *)
(***************************************************************************)
ShutdownCompletes == cancelled ~> pc = "done"

(***************************************************************************)
(* do_client_loop implements the abstract connection of SessionAbs: the   *)
(* task has ended once the loop is done (the write side shut down and the *)
(* sender clone dropped), and every step either is a step of the abstract *)
(* task or leaves it alone; in particular, once ctrl-c has fired, a task  *)
(* still running ends, whatever the client does but for reading.          *)
(***************************************************************************)
AbsSession == INSTANCE SessionAbs WITH ended <- (pc = "done")

SessionImplementsAbs == AbsSession!AbsSpec

(***************************************************************************)
(* A client that has closed its side sees its connection end: the loop    *)
(* reads to the end of the stream or to an error, answers, and finishes.  *)
(***************************************************************************)
InputEndCloses == hup ~> pc = "done"

(***************************************************************************)
(* Framing agreement: whatever sizes the reads of the client's stream      *)
(* have, the events do_client_loop acts on are a prefix of the stream's   *)
(* framing, and all of it once the loop has ended on end of stream, an IO *)
(* error or a framing error.  A "\r\n" split across two reads, a payload *)
(* containing "\r\n" or ending in '\r', a line of exactly MaxLine bytes  *)
(* and a stream ending mid-line are what put it at stake.  The reference  *)
(* ends cleanly when the stream ends inside a payload, as the code does;   *)
(* the comment that says otherwise is reader_payload_eos's finding.        *)
(***************************************************************************)
FramingAgreement ==
    /\ IsPrefix(Normalised(log), RefFraming(stream, FALSE))
    /\ closedBy \in {"End", "IO", "Client"} => Normalised(log) = RefFraming(stream, FALSE)

(***************************************************************************)
(* One response per request (spec sections 5 and 6): every response the   *)
(* loop sends answers a command or reports a framing error.                *)
(***************************************************************************)
RequestsAnswered ==
    {i \in DOMAIN log : log[i].ev \in {"Command"} \cup ClientErrors}
OneResponsePerRequest == Len(sent) <= Cardinality(RequestsAnswered)


(***************************************************************************)
(* A framing error is protocol-fatal (spec section 6: send the response,  *)
(* close the connection): no event after a BAD_FORMAT or EXPECTED_CRLF is  *)
(* acted on, and once the loop has ended on one, the last response the    *)
(* client gets is that error's own, unless ctrl-c cancelled its send.      *)
(***************************************************************************)
NoClientError(l) == \A i \in 1 .. Len(l) : l[i].ev \notin ClientErrors
EndsOnClientError(l) ==
    /\ l # <<>>
    /\ Last(l).ev \in ClientErrors
    /\ NoClientError(Front(l))

FramingErrorFatal ==
    /\ NoClientError(log) \/ EndsOnClientError(log)
    /\ pc \in {"shutdown", "done"} /\ EndsOnClientError(log) =>
           \/ closedBy = "Client" /\ sent # <<>> /\ Last(sent) = Last(log).ev
           \/ closedBy = "Cancel"

=============================================================================
