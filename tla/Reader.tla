------------------------------- MODULE Reader -------------------------------
(***************************************************************************)
(* The decoder of Codec driven by a stream reader: tokio_util's FramedRead *)
(* (wire::framed in src/wire/mod.rs) over the TCP stream of one client.    *)
(*                                                                         *)
(* The client has a byte stream to send (`stream`); the server has read   *)
(* the first `rd` bytes of it into the decoder's buffer.  A read takes    *)
(* any non-empty part of what has been sent and not yet read, so every    *)
(* segmentation of the stream is explored.  The client may close its side *)
(* at any point, never sending the rest.                                   *)
(*                                                                         *)
(* One call of FramedRead::poll_next is a loop of decode / read steps;    *)
(* each is one action here, and `got` holds what the call returns to its  *)
(* consumer until the consumer takes it.                                   *)
(***************************************************************************)
EXTENDS Codec

CONSTANT Scripts   \* the byte streams a client may send

ASSUME ScriptsAssumption == Scripts \subseteq Seq(Byte)

VARIABLES
    stream,    \* the bytes the client sends, in order
    rd,        \* how many of them the server has read
    hup,       \* the client has closed its side: no byte after stream
    buf,       \* the decoder's input buffer (FramedRead's BytesMut)
    dec,       \* the decoder's state (enum Decoder)
    eof,       \* FramedRead state.eof: the last read returned 0 bytes
    readable,  \* FramedRead state.is_readable: decode before reading
    errored,   \* FramedRead state.has_errored
    got,       \* what poll_next has returned and not yet been taken
    log        \* the events and errors the consumer has taken (history)

readerVars == <<stream, rd, hup, buf, dec, eof, readable, errored, got, log>>

\* poll_next has not returned yet.
Polling == Ev("Polling")

ReaderTypeOK ==
    /\ stream \in Seq(Byte)
    /\ rd \in 0 .. Len(stream)
    /\ hup \in BOOLEAN
    /\ buf \in Seq(Byte)
    /\ dec \in DecoderStates
    /\ eof \in BOOLEAN
    /\ readable \in BOOLEAN
    /\ errored \in BOOLEAN
    /\ got \in Outcomes \cup {Polling}
    /\ log \in Seq(Outcomes)

ReaderInit ==
    /\ stream \in Scripts
    /\ rd = 0
    /\ hup = FALSE
    /\ buf = <<>>
    /\ dec = ParseCommand
    /\ eof = FALSE
    /\ readable = FALSE
    /\ errored = FALSE
    /\ got = Polling
    /\ log = <<>>

\* The history keeps what a consumer acts on: not Discarded, not the end.
Logged(l, o) == IF o.ev \in {"End", "Discarded"} THEN l ELSE Append(l, o)

(***************************************************************************)
(* poll_next, decoding: at end of stream decode_eof, otherwise decode.    *)
(* An event or an error is returned (an error marks the reader errored);  *)
(* Ok(None) clears is_readable, and at end of stream ends the stream.     *)
(***************************************************************************)
FrDecode ==
    /\ got = Polling
    /\ readable
    /\ ~errored
    /\ LET r == IF eof THEN DecodeEof(dec, buf) ELSE Decode(dec, buf)
       IN  /\ dec' = r.dec
           /\ buf' = r.buf
           /\ IF r.out = NoneOut
              THEN /\ readable' = FALSE
                   /\ got' = IF eof THEN Ev("End") ELSE Polling
                   /\ UNCHANGED errored
              ELSE /\ got' = r.out
                   /\ errored' = (r.out.ev \in ClientErrors \cup {"IO"})
                   /\ UNCHANGED readable
    /\ UNCHANGED <<stream, rd, hup, eof, log>>

(***************************************************************************)
(* poll_next after an error: return None once and stop decoding until the *)
(* next read.                                                              *)
(***************************************************************************)
FrErrored ==
    /\ got = Polling
    /\ errored
    /\ errored' = FALSE
    /\ readable' = FALSE
    /\ got' = Ev("End")
    /\ UNCHANGED <<stream, rd, hup, buf, dec, eof, log>>

(***************************************************************************)
(* poll_next, reading: some of the bytes the client has sent, or 0 bytes  *)
(* once it has closed (end of stream: a second 0-byte read returns None). *)
(* With nothing sent and the client still open, the read is pending.       *)
(***************************************************************************)
FrRead ==
    /\ got = Polling
    /\ ~readable
    /\ ~errored
    /\ \/ \E k \in 1 .. (Len(stream) - rd) :
            /\ buf' = buf \o SubSeq(stream, rd + 1, rd + k)
            /\ rd' = rd + k
            /\ eof' = FALSE
            /\ readable' = TRUE
            /\ UNCHANGED got
       \/ /\ rd = Len(stream)
          /\ hup
          /\ IF eof
             THEN /\ got' = Ev("End")
                  /\ UNCHANGED <<buf, rd, eof, readable>>
             ELSE /\ eof' = TRUE
                  /\ readable' = TRUE
                  /\ UNCHANGED <<buf, rd, got>>
    /\ UNCHANGED <<stream, hup, dec, errored, log>>

\* One step of a poll_next call.
FrStep == FrDecode \/ FrErrored \/ FrRead

(***************************************************************************)
(* The client closes its side after sending the first k bytes of its      *)
(* stream (k at least what the server has already read).                   *)
(***************************************************************************)
Hangup ==
    /\ ~hup
    /\ \E k \in rd .. Len(stream) : stream' = SubSeq(stream, 1, k)
    /\ hup' = TRUE
    /\ UNCHANGED <<rd, buf, dec, eof, readable, errored, got, log>>

(***************************************************************************)
(* A consumer that takes every result and polls again, also after an      *)
(* error or the end of the stream (as the decoder's tests do).             *)
(***************************************************************************)
Consume ==
    /\ got # Polling
    /\ got' = Polling
    /\ log' = Logged(log, got)
    /\ UNCHANGED <<stream, rd, hup, buf, dec, eof, readable, errored>>

ReaderNext == FrStep \/ Hangup \/ Consume

ReaderSpec == ReaderInit /\ [][ReaderNext]_readerVars

(***************************************************************************)
(* Progress of the decoder: every event decode returns consumes input.    *)
(* The decoder's doc says Ok(None) is avoided in DiscardToNewline "due to *)
(* end of stream semantics"; a Discarded that consumes nothing is returned *)
(* again by the next call, and the reader never reads again.               *)
(***************************************************************************)
DecodeProgress ==
    [][ (got = Polling /\ got'.ev \in EventKinds) => buf' # buf ]_readerVars


(***************************************************************************)
(* The comment at decoder.rs:107-110: returning Ok(None) on an empty      *)
(* buffer inside a payload "causes the codec to return an error if we're  *)
(* trying to read a job and reach the end of stream prematurely".  So     *)
(* poll_next never ends the stream cleanly while payload bytes are owed.   *)
(***************************************************************************)
PayloadCutIsError ==
    got = Ev("End") /\ eof => ~(dec.st = "ParseJob" /\ dec.rem > 0)

=============================================================================
