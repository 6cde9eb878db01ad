------------------------------- MODULE Codec -------------------------------
(***************************************************************************)
(* The client-side framer of the Beanstalk wire protocol                  *)
(* (src/wire/decoder.rs, reached through src/wire/mod.rs) and the stream   *)
(* reader that drives it (tokio_util FramedRead over a TCP stream).        *)
(*                                                                         *)
(* The client's bytes arrive in reads of any size, so every way of        *)
(* cutting the stream into segments is explored.  The decoder keeps the   *)
(* state ParseCommand / ParseJob{remaining} / DiscardToNewline and a      *)
(* buffer (the BytesMut `src`).  Each call of `decode` is one step.       *)
(*                                                                         *)
(* Data abstraction.  A byte of the model stands for a byte on the wire,  *)
(* with one exception: the text of a command line is abstracted to its    *)
(* first symbol, which says which command it is; the remaining bytes of   *)
(* the line stand for its arguments.                                       *)
(***************************************************************************)
EXTENDS Integers, Sequences

CONSTANTS
    MaxLine,  \* bytes of a command line the decoder inspects, CRLF included (224)
    MaxPut    \* the largest n_bytes a put of the model announces

ASSUME MaxLineAssumption == MaxLine \in Nat /\ MaxLine >= 3
ASSUME MaxPutAssumption == MaxPut \in Nat

(***************************************************************************)
(* Bytes.  A natural n <= MaxPut is the verb of a line                     *)
(* "put <pri> <delay> <ttr> n"; Cmd is the verb of any other command.      *)
(***************************************************************************)
CR  == -1
LF  == -2
X   == -3    \* any other byte: payload data or a command's arguments
Cmd == -4    \* first byte of a command line that is not a put
Byte == {CR, LF, X, Cmd} \cup (0 .. MaxPut)

\* Commands (enum Command), by verb: a put announcing n bytes, or another.
Commands == {Cmd} \cup (0 .. MaxPut)

\* Result of parsing a line that is not a command (BAD_FORMAT).
NotACommand == -5

(***************************************************************************)
(* Command::try_from(&[u8]) (src/wire/parser.rs, not in the repository):  *)
(* a line is a command when it starts with a verb and the rest are       *)
(* argument bytes; the result is the verb, or NotACommand.                 *)
(***************************************************************************)
ParsedCommand(line) ==
    IF /\ Len(line) >= 1
       /\ line[1] \in Commands
       /\ \A i \in 2 .. Len(line) : line[i] = X
    THEN line[1]
    ELSE NotACommand

(***************************************************************************)
(* Events and errors the decoder returns (src/wire/events.rs,             *)
(* decoder::Error), and what FramedRead returns to its consumer.  Every   *)
(* outcome is a record with the same fields so TLC can compare them.      *)
(***************************************************************************)
Outcome(kind, c, d) == [ev |-> kind, cmd |-> c, data |-> d]
Ev(kind) == Outcome(kind, Cmd, <<>>)
CommandEv(c) == Outcome("Command", c, <<>>)
PutChunkEv(d) == Outcome("PutChunk", Cmd, d)

NoneOut == Ev("None")                  \* Ok(None): more input is needed
EventKinds == {"Command", "PutChunk", "PutEnd", "Discarded"}
ClientErrors == {"BadFormat", "ExpectedCRLF"}   \* Error::Client(resp)
\* Error::IO("bytes remaining on stream"), and the end of the stream.
StreamEnds == {"IO", "End"}

Outcomes ==
    [ev : EventKinds \cup ClientErrors \cup StreamEnds \cup {"None"},
     cmd : Commands,
     data : Seq(Byte)]

(***************************************************************************)
(* Decoder states (enum Decoder).                                          *)
(***************************************************************************)
ParseCommand == [st |-> "ParseCommand", rem |-> 0]
ParseJob(n) == [st |-> "ParseJob", rem |-> n]
DiscardToNewline == [st |-> "DiscardToNewline", rem |-> 0]
DecoderStates == {ParseCommand, DiscardToNewline} \cup {ParseJob(n) : n \in 0 .. MaxPut}

\* Positions i < lim where s holds "\r\n" (tuple_windows over the first lim bytes).
CRLFIndices(s, lim) == {i \in 1 .. (lim - 1) : s[i] = CR /\ s[i + 1] = LF}
FirstOf(I) == CHOOSE i \in I : \A j \in I : i <= j
Rest(s, k) == SubSeq(s, k + 1, Len(s))      \* src.advance(k)
Step(d, s, o) == [dec |-> d, buf |-> s, out |-> o]

\* Mutant: a window one byte too wide (take(225)).
WindowOffByOne(s) == IF Len(s) < MaxLine + 1 THEN Len(s) ELSE MaxLine + 1

\* src.iter().take(224): how many bytes ParseCommand inspects.
Window(s) == IF Len(s) < MaxLine THEN Len(s) ELSE MaxLine

(***************************************************************************)
(* decode() in state ParseCommand: look for "\r\n" in the first MaxLine   *)
(* bytes; split off the line and parse it (a parse error is returned with *)
(* the line already consumed and the state unchanged); a put moves to     *)
(* ParseJob.  With no "\r\n" there, MaxLine buffered bytes are BAD_FORMAT *)
(* and the decoder discards to the next newline; fewer wait for input.    *)
(***************************************************************************)
DecodeCommand(s) ==
    LET I == CRLFIndices(s, Window(s))
    IN  IF I # {}
        THEN LET i == FirstOf(I)
                 c == ParsedCommand(SubSeq(s, 1, i - 1))
             IN  IF c = NotACommand
                 THEN Step(ParseCommand, Rest(s, i + 1), Ev("BadFormat"))
                 ELSE Step(IF c \in 0 .. MaxPut THEN ParseJob(c) ELSE ParseCommand,
                           Rest(s, i + 1), CommandEv(c))
        ELSE IF Len(s) >= MaxLine
             THEN Step(DiscardToNewline, s, Ev("BadFormat"))
             ELSE Step(ParseCommand, s, NoneOut)

(***************************************************************************)
(* decode() in state ParseJob{remaining: 0}: the payload must be followed *)
(* by "\r\n".                                                              *)
(***************************************************************************)
DecodeJobEnd(s) ==
    IF Len(s) < 2 THEN Step(ParseJob(0), s, NoneOut)
    ELSE IF s[1] = CR /\ s[2] = LF
         THEN Step(ParseCommand, Rest(s, 2), Ev("PutEnd"))
         ELSE Step(DiscardToNewline, s, Ev("ExpectedCRLF"))

(***************************************************************************)
(* decode() in state ParseJob{remaining > 0}: hand out what is buffered,  *)
(* up to `remaining` bytes, as a PutChunk of at least one byte.            *)
(***************************************************************************)
\* Mutant: the chunk is not capped at `remaining`.
DecodeJobChunkWholeBuffer(r, s) ==
    IF Len(s) = 0 THEN Step(ParseJob(r), s, NoneOut)
    ELSE Step(ParseJob(r - Len(s)), <<>>, PutChunkEv(s))

DecodeJobChunk(r, s) ==
    IF Len(s) = 0 THEN Step(ParseJob(r), s, NoneOut)
    ELSE LET k == IF r < Len(s) THEN r ELSE Len(s)
         IN  Step(ParseJob(r - k), Rest(s, k), PutChunkEv(SubSeq(s, 1, k)))

(***************************************************************************)
(* decode() in state DiscardToNewline: drop everything up to and including *)
(* the first "\r\n" and parse commands again; with none, drop all but the *)
(* last byte (it may be a '\r').  Either way a Discarded event is         *)
(* returned.                                                               *)
(***************************************************************************)
\* Mutant: src.advance(idx + 1): the LF of the line end is left behind.
DecodeDiscardKeepsLF(s) ==
    IF Len(s) = 0 THEN Step(DiscardToNewline, s, NoneOut)
    ELSE LET I == CRLFIndices(s, Len(s))
         IN  IF I # {}
             THEN Step(ParseCommand, Rest(s, FirstOf(I)), Ev("Discarded"))
             ELSE Step(DiscardToNewline, Rest(s, Len(s) - 1), Ev("Discarded"))

DecodeDiscard(s) ==
    IF Len(s) = 0 THEN Step(DiscardToNewline, s, NoneOut)
    ELSE LET I == CRLFIndices(s, Len(s))
         IN  IF I # {}
             THEN Step(ParseCommand, Rest(s, FirstOf(I) + 1), Ev("Discarded"))
             ELSE Step(DiscardToNewline, Rest(s, Len(s) - 1), Ev("Discarded"))

Decode(d, s) ==
    CASE d.st = "ParseCommand"                 -> DecodeCommand(s)
      [] d.st = "ParseJob" /\ d.rem = 0        -> DecodeJobEnd(s)
      [] d.st = "ParseJob" /\ d.rem > 0        -> DecodeJobChunk(d.rem, s)
      [] d.st = "DiscardToNewline"             -> DecodeDiscard(s)

(***************************************************************************)
(* tokio_util's default Decoder::decode_eof, used once the stream has     *)
(* ended: a decode that needs more input while bytes remain is an IO      *)
(* error.                                                                  *)
(***************************************************************************)
DecodeEof(d, s) ==
    LET r == Decode(d, s)
    IN  IF r.out = NoneOut /\ s # <<>> THEN [r EXCEPT !.out = Ev("IO")] ELSE r

=============================================================================
