------------------------------ MODULE Framing ------------------------------
(***************************************************************************)
(* The framing the wire protocol promises, stated over a whole byte       *)
(* stream at once (spec section 4.1), against which the incremental       *)
(* decoding of Reader is compared whatever sizes the reads have.          *)
(*                                                                         *)
(* A stream is a sequence of command lines of at most MaxLine bytes,      *)
(* "\r\n" included; a put line is followed by exactly n payload bytes and *)
(* "\r\n".  Payload bytes are listed one event per byte, so that the      *)
(* comparison does not depend on how the decoder chunks them.              *)
(***************************************************************************)
EXTENDS Reader, SequencesExt

ByteEv(b) == PutChunkEv(<<b>>)
PayloadEvents(s) == [i \in 1 .. Len(s) |-> ByteEv(s[i])]

\* Where the first "\r\n" of s starts, or 0.
FirstLineEnd(s) ==
    LET E == {i \in 1 .. (Len(s) - 1) : s[i] = CR /\ s[i + 1] = LF}
    IN  IF E = {} THEN 0 ELSE CHOOSE i \in E : \A j \in E : i <= j

\* Where the framing stands: at a command line, or at a payload of n bytes.
AtLine == -1
Modes == {AtLine} \cup (0 .. MaxPut)

(***************************************************************************)
(* The events of stream s.  A line longer than MaxLine, or MaxLine bytes  *)
(* with no line end, is BAD_FORMAT, as is a line that is not a command;   *)
(* an unfinished shorter line at the end of the stream is an IO error.  A *)
(* payload is followed by "\r\n", else EXPECTED_CRLF; the stream may end  *)
(* inside a payload or right after it, but not one byte after it.  The    *)
(* clean end inside a payload is what the code and test_put_eos do; the   *)
(* comment at decoder.rs:107-110 promises an error there instead, which   *)
(* reader_payload_eos shows the code does not give.                        *)
(*                                                                         *)
(* With recover FALSE the framing stops at the first error.  With recover *)
(* TRUE it goes on: after a bad line or a missing "\r\n" it resumes after *)
(* the next "\r\n", after a line that is not a command at the next line.  *)
(***************************************************************************)
RefFraming(s, recover) ==
    LET f[p \in 1 .. (Len(s) + 1), m \in Modes] ==
          LET r == SubSeq(s, p, Len(s))
              \* resume after the next line end of the stream from position q
              skip(q) == LET e == FirstLineEnd(SubSeq(s, q, Len(s)))
                         IN  IF recover /\ e # 0 THEN f[q + e + 1, AtLine] ELSE <<>>
          IN
          IF m = AtLine
          THEN IF r = <<>> THEN <<>>
               ELSE LET e == FirstLineEnd(r)
                    IN  IF e = 0 \/ e + 1 > MaxLine
                        THEN IF Len(r) >= MaxLine THEN <<Ev("BadFormat")>> \o skip(p)
                             ELSE <<Ev("IO")>>
                        ELSE LET c == ParsedCommand(SubSeq(r, 1, e - 1))
                             IN  IF c = NotACommand
                                 THEN <<Ev("BadFormat")>> \o
                                      (IF recover THEN f[p + e + 1, AtLine] ELSE <<>>)
                                 ELSE <<CommandEv(c)>> \o
                                      f[p + e + 1, IF c \in 0 .. MaxPut THEN c ELSE AtLine]
          ELSE IF Len(r) < m THEN PayloadEvents(r)
          ELSE LET q == p + m
                   t == SubSeq(s, q, Len(s))
               IN  PayloadEvents(SubSeq(r, 1, m)) \o
                   CASE t = <<>>                -> <<>>
                     [] Len(t) = 1              -> <<Ev("IO")>>
                     [] t[1] = CR /\ t[2] = LF  -> <<Ev("PutEnd")>> \o f[q + 2, AtLine]
                     [] OTHER                   -> <<Ev("ExpectedCRLF")>> \o skip(q)
    IN  f[1, AtLine]

\* The events taken, with payload chunks split into bytes.
Normalised(l) ==
    FlattenSeq([i \in 1 .. Len(l) |->
                   IF l[i].ev = "PutChunk" THEN PayloadEvents(l[i].data)
                   ELSE <<l[i]>>])

(***************************************************************************)
(* Recovery (spec 4.1, decoder test test_recovery): a consumer that goes  *)
(* on polling after a framing error gets, whatever sizes the reads have,  *)
(* a prefix of the recovering framing.  No byte of the bad input surfaces *)
(* as an event, and when the line end that closes the discard is in the   *)
(* buffer the decoder skips exactly up to it, so the command after it     *)
(* arrives intact; once the reader has returned the end of the stream, it *)
(* has all of it.  When that line end is not yet buffered the decoder     *)
(* livelocks instead (reader_progress): the prefix then holds only        *)
(* because nothing more arrives.  Like FramingAgreement, the reference    *)
(* ends cleanly when the stream ends inside a payload, as the code and     *)
(* test_put_eos do (reader_payload_eos).                                   *)
(***************************************************************************)
ReaderDone == eof /\ ~readable /\ ~errored

ReaderRecovery ==
    /\ IsPrefix(Normalised(log), RefFraming(stream, TRUE))
    /\ ReaderDone => Normalised(log) = RefFraming(stream, TRUE)

=============================================================================
