---------------------------- MODULE ReaderProofs ----------------------------
(***************************************************************************)
(* Proofs about the decoder (Codec) and the FramedRead that drives it      *)
(* (Reader), for every MaxLine, MaxPut and set of client streams.          *)
(*                                                                         *)
(* The main result is type correctness of the reader: whatever the reads  *)
(* and hang-ups, every call of decode stays inside its buffer (every       *)
(* split_to and advance is within the bytes buffered), the decoder state  *)
(* stays one of the enum's states with remaining between 0 and the size   *)
(* the put announced, and the consumer only ever gets events or errors.    *)
(***************************************************************************)
EXTENDS Reader, SequenceTheorems, WellFoundedInduction, TLAPS

-----------------------------------------------------------------------------
(***************************************************************************)
(* Lemmas about the helpers the decoder is built from.                     *)
(***************************************************************************)

\* A non-empty set of naturals has a least element (the naturals are well
\* ordered), so the position() of the first "\r\n" is well defined.
LEMMA MinExists ==
    ASSUME NEW I \in SUBSET Nat, I # {}
    PROVE  \E i \in I : \A j \in I : i <= j
<1>1. PICK x \in I : \A y \in I : ~(<<y, x>> \in OpToRel(<, Nat))
    BY NatLessThanWellFounded, WFMin
<1>2. \A y \in I : x <= y
    <2> SUFFICES ASSUME NEW y \in I, y < x PROVE FALSE
        OBVIOUS
    <2>1. <<y, x>> \in OpToRel(<, Nat)
        BY DEF OpToRel
    <2> QED BY <2>1, <1>1
<1> QED BY <1>2

\* FirstOf picks an element of the set it is given, when there is one.
LEMMA FirstOfIn ==
    ASSUME NEW I \in SUBSET Nat, I # {}
    PROVE  FirstOf(I) \in I
BY MinExists DEF FirstOf

\* The "\r\n" positions the decoder finds lie strictly inside the bytes it
\* looks at.
LEMMA CRLFIndicesRange ==
    ASSUME NEW s \in Seq(Byte), NEW lim \in 0 .. Len(s)
    PROVE  CRLFIndices(s, lim) \in SUBSET (1 .. (Len(s) - 1))
BY DEF CRLFIndices

\* A slice of a byte sequence within its bounds is a byte sequence of the
\* slice's length.
LEMMA SubSeqType ==
    ASSUME NEW s \in Seq(Byte), NEW m \in 1 .. (Len(s) + 1),
           NEW n \in (m - 1) .. Len(s)
    PROVE  /\ SubSeq(s, m, n) \in Seq(Byte)
           /\ Len(SubSeq(s, m, n)) = n - m + 1
<1>1. \A i \in m .. n : s[i] \in Byte
    OBVIOUS
<1> QED BY <1>1, SubSeqProperties

\* src.advance(k) within the buffer leaves a byte sequence.
LEMMA RestType ==
    ASSUME NEW s \in Seq(Byte), NEW k \in 0 .. Len(s)
    PROVE  /\ Rest(s, k) \in Seq(Byte)
           /\ Len(Rest(s, k)) = Len(s) - k
BY SubSeqType DEF Rest

\* An outcome decode may return: Ok(None) is only ever NoneOut itself.
Returnable(o) == o \in Outcomes /\ (o.ev = "None" => o = NoneOut)

\* What a decoder step returns, when its parts are well formed.
StepOK(r) ==
    \E d \in DecoderStates, b \in Seq(Byte), o \in Outcomes :
        r = Step(d, b, o) /\ Returnable(o)

LEMMA OutcomeType ==
    ASSUME NEW k \in EventKinds \cup ClientErrors \cup StreamEnds \cup {"None"},
           NEW c \in Commands, NEW d \in Seq(Byte)
    PROVE  Outcome(k, c, d) \in Outcomes
BY DEF Outcome, Outcomes

LEMMA EvType ==
    ASSUME NEW k \in EventKinds \cup ClientErrors \cup StreamEnds \cup {"None"}
    PROVE  Ev(k) \in Outcomes
<1>1. Cmd \in Commands /\ <<>> \in Seq(Byte)
    BY DEF Commands
<1> QED BY <1>1, OutcomeType DEF Ev

LEMMA EvReturnable ==
    ASSUME NEW k \in EventKinds \cup ClientErrors \cup StreamEnds \cup {"None"}
    PROVE  Returnable(Ev(k))
BY EvType DEF Returnable, Ev, Outcome, NoneOut

LEMMA StepType ==
    ASSUME NEW d \in DecoderStates, NEW b \in Seq(Byte), NEW o, Returnable(o)
    PROVE  StepOK(Step(d, b, o))
BY DEF StepOK, Returnable

LEMMA StatesType ==
    /\ ParseCommand \in DecoderStates
    /\ DiscardToNewline \in DecoderStates
    /\ \A n \in 0 .. MaxPut : ParseJob(n) \in DecoderStates
BY DEF DecoderStates

-----------------------------------------------------------------------------
(***************************************************************************)
(* Each arm of decode() returns a state of the enum, the rest of its      *)
(* buffer and an outcome: the split_to and advance calls stay within the  *)
(* bytes buffered.                                                         *)
(***************************************************************************)

\* ParseCommand: the line ends before the window does, and the parsed verb
\* is a command or a parse error.
LEMMA DecodeCommandType ==
    ASSUME NEW s \in Seq(Byte)
    PROVE  StepOK(DecodeCommand(s))
<1> DEFINE I == CRLFIndices(s, Window(s))
<1>1. Window(s) \in 0 .. Len(s)
    BY MaxLineAssumption DEF Window
<1>2. I \in SUBSET (1 .. (Len(s) - 1))
    BY <1>1, CRLFIndicesRange
<1>3. CASE I # {}
    <2> DEFINE i == FirstOf(I)
               c == ParsedCommand(SubSeq(s, 1, i - 1))
    <2>1. i \in 1 .. (Len(s) - 1)
        BY <1>2, <1>3, FirstOfIn
    <2>2. Rest(s, i + 1) \in Seq(Byte)
        BY <2>1, RestType
    <2>3. c \in Commands \cup {NotACommand}
        BY DEF ParsedCommand
    <2>4. CASE c = NotACommand
        <3>1. StepOK(Step(ParseCommand, Rest(s, i + 1), Ev("BadFormat")))
            BY <2>2, StatesType, EvReturnable, StepType DEF ClientErrors
        <3> QED BY <1>3, <2>4, <3>1 DEF DecodeCommand
    <2>5. CASE c # NotACommand
        <3>1. c \in Commands
            BY <2>3, <2>5
        <3>2. (IF c \in 0 .. MaxPut THEN ParseJob(c) ELSE ParseCommand) \in DecoderStates
            BY StatesType
        <3>3. Returnable(CommandEv(c))
            <4>1. <<>> \in Seq(Byte) /\ "Command" \in EventKinds
                BY DEF EventKinds
            <4>2. CommandEv(c) \in Outcomes
                BY <3>1, <4>1, OutcomeType DEF CommandEv
            <4> QED BY <4>2 DEF Returnable, CommandEv, Outcome
        <3>4. StepOK(Step(IF c \in 0 .. MaxPut THEN ParseJob(c) ELSE ParseCommand,
                          Rest(s, i + 1), CommandEv(c)))
            BY <2>2, <3>2, <3>3, StepType
        <3> QED BY <1>3, <2>5, <3>4 DEF DecodeCommand
    <2> QED BY <2>4, <2>5
<1>4. CASE I = {}
    <2>1. StepOK(Step(DiscardToNewline, s, Ev("BadFormat")))
        BY StatesType, EvReturnable, StepType DEF ClientErrors
    <2>2. StepOK(Step(ParseCommand, s, NoneOut))
        BY StatesType, EvReturnable, StepType DEF NoneOut
    <2> QED BY <1>4, <2>1, <2>2 DEF DecodeCommand
<1> QED BY <1>3, <1>4

\* ParseJob{remaining: 0}: the "\r\n" after the payload is advanced over.
LEMMA DecodeJobEndType ==
    ASSUME NEW s \in Seq(Byte)
    PROVE  StepOK(DecodeJobEnd(s))
<1>1. StepOK(Step(ParseJob(0), s, NoneOut))
    BY MaxPutAssumption, StatesType, EvReturnable, StepType DEF NoneOut
<1>2. Len(s) >= 2 => StepOK(Step(ParseCommand, Rest(s, 2), Ev("PutEnd")))
    BY RestType, StatesType, EvReturnable, StepType DEF EventKinds
<1>3. StepOK(Step(DiscardToNewline, s, Ev("ExpectedCRLF")))
    BY StatesType, EvReturnable, StepType DEF ClientErrors
<1> QED BY <1>1, <1>2, <1>3 DEF DecodeJobEnd

\* ParseJob{remaining > 0}: a chunk of at most remaining bytes is split off,
\* and remaining stays between 0 and the size the put announced.
LEMMA DecodeJobChunkType ==
    ASSUME NEW r \in 1 .. MaxPut, NEW s \in Seq(Byte)
    PROVE  StepOK(DecodeJobChunk(r, s))
<1>1. CASE Len(s) = 0
    <2>1. StepOK(Step(ParseJob(r), s, NoneOut))
        BY StatesType, EvReturnable, StepType DEF NoneOut
    <2> QED BY <1>1, <2>1 DEF DecodeJobChunk
<1>2. CASE Len(s) # 0
    <2> DEFINE k == IF r < Len(s) THEN r ELSE Len(s)
    <2>1. k \in 1 .. Len(s) /\ r - k \in 0 .. MaxPut
        BY <1>2, MaxPutAssumption, LenProperties
    <2>2. Rest(s, k) \in Seq(Byte) /\ SubSeq(s, 1, k) \in Seq(Byte)
        BY <2>1, RestType, SubSeqType
    <2>3. Returnable(PutChunkEv(SubSeq(s, 1, k)))
        <3>1. Cmd \in Commands
            BY DEF Commands
        <3>2. PutChunkEv(SubSeq(s, 1, k)) \in Outcomes
            BY <2>2, <3>1, OutcomeType DEF PutChunkEv, EventKinds
        <3> QED BY <3>2 DEF Returnable, PutChunkEv, Outcome
    <2>4. StepOK(Step(ParseJob(r - k), Rest(s, k), PutChunkEv(SubSeq(s, 1, k))))
        BY <2>1, <2>2, <2>3, StatesType, StepType
    <2> QED BY <1>2, <2>4 DEF DecodeJobChunk
<1> QED BY <1>1, <1>2

\* DiscardToNewline: the bytes dropped are within the buffer, the last one
\* kept when no "\r\n" is there.
LEMMA DecodeDiscardType ==
    ASSUME NEW s \in Seq(Byte)
    PROVE  StepOK(DecodeDiscard(s))
<1>1. CASE Len(s) = 0
    <2>1. StepOK(Step(DiscardToNewline, s, NoneOut))
        BY StatesType, EvReturnable, StepType DEF NoneOut
    <2> QED BY <1>1, <2>1 DEF DecodeDiscard
<1>2. CASE Len(s) # 0
    <2> DEFINE I == CRLFIndices(s, Len(s))
    <2>1. I \in SUBSET (1 .. (Len(s) - 1))
        BY CRLFIndicesRange
    <2>2. Returnable(Ev("Discarded"))
        BY EvReturnable DEF EventKinds
    <2>3. I # {} => StepOK(Step(ParseCommand, Rest(s, FirstOf(I) + 1), Ev("Discarded")))
        <3> SUFFICES ASSUME I # {} PROVE StepOK(Step(ParseCommand, Rest(s, FirstOf(I) + 1), Ev("Discarded")))
            OBVIOUS
        <3>1. FirstOf(I) \in 1 .. (Len(s) - 1)
            BY <2>1, FirstOfIn
        <3>2. FirstOf(I) + 1 \in 0 .. Len(s)
            BY <3>1
        <3>3. Rest(s, FirstOf(I) + 1) \in Seq(Byte)
            BY <3>2, RestType
        <3> QED BY <3>3, <2>2, StatesType, StepType
    <2>4. StepOK(Step(DiscardToNewline, Rest(s, Len(s) - 1), Ev("Discarded")))
        BY <1>2, <2>2, RestType, StatesType, StepType
    <2> QED BY <1>2, <2>3, <2>4 DEF DecodeDiscard
<1> QED BY <1>1, <1>2

\* decode() dispatches on the state; every state has its arm.
LEMMA DecodeType ==
    ASSUME NEW d \in DecoderStates, NEW s \in Seq(Byte)
    PROVE  StepOK(Decode(d, s))
<1>1. CASE d = ParseCommand
    BY <1>1, DecodeCommandType DEF Decode, ParseCommand
<1>2. CASE d = DiscardToNewline
    BY <1>2, DecodeDiscardType DEF Decode, DiscardToNewline
<1>3. CASE d = ParseJob(0)
    BY <1>3, DecodeJobEndType DEF Decode, ParseJob
<1>4. CASE \E n \in 1 .. MaxPut : d = ParseJob(n)
    <2>1. PICK n \in 1 .. MaxPut : d = ParseJob(n)
        BY <1>4
    <2>2. Decode(d, s) = DecodeJobChunk(n, s)
        BY <2>1 DEF Decode, ParseJob
    <2> QED BY <2>2, DecodeJobChunkType
<1> QED BY <1>1, <1>2, <1>3, <1>4 DEF DecoderStates

\* decode_eof: the same, with Ok(None) over leftover bytes turned into an
\* IO error.
LEMMA DecodeEofType ==
    ASSUME NEW d \in DecoderStates, NEW s \in Seq(Byte)
    PROVE  StepOK(DecodeEof(d, s))
<1>1. PICK dd \in DecoderStates, b \in Seq(Byte), o \in Outcomes :
            Decode(d, s) = Step(dd, b, o) /\ Returnable(o)
    BY DecodeType DEF StepOK
<1>2. [Step(dd, b, o) EXCEPT !.out = Ev("IO")] = Step(dd, b, Ev("IO"))
    BY DEF Step
<1>3. StepOK(Step(dd, b, Ev("IO")))
    BY EvReturnable, StepType DEF StreamEnds
<1>4. StepOK(Step(dd, b, o))
    BY <1>1, StepType
<1> QED BY <1>1, <1>2, <1>3, <1>4 DEF DecodeEof

-----------------------------------------------------------------------------
(***************************************************************************)
(* Each step of FramedRead, of the client and of the consumer keeps the   *)
(* reader's variables well typed, and never hands Ok(None) to the         *)
(* consumer as if it were an event: poll_next turns it into a read or     *)
(* into the end of the stream.  The consumer (do_client_loop's match)     *)
(* relies on the second fact, so it is part of the invariant.             *)
(***************************************************************************)
ReaderInv == ReaderTypeOK /\ got.ev # "None"

\* poll_next decoding: the decoder's result becomes the new state, buffer
\* and, unless more input is needed, what is returned.
LEMMA FrDecodeType ==
    ASSUME ReaderInv, FrDecode
    PROVE  ReaderInv'
<1> DEFINE r == IF eof THEN DecodeEof(dec, buf) ELSE Decode(dec, buf)
<1>1. PICK d \in DecoderStates, b \in Seq(Byte), o \in Outcomes :
            r = Step(d, b, o) /\ Returnable(o)
    BY DecodeType, DecodeEofType DEF ReaderInv, ReaderTypeOK, StepOK
<1>2. dec' = d /\ buf' = b
    BY <1>1 DEF FrDecode, Step
<1>3. r.out = o
    BY <1>1 DEF Step
<1>4. Ev("End") \in Outcomes /\ Ev("End").ev # "None" /\ Polling.ev # "None"
    BY EvType DEF StreamEnds, Ev, Outcome, Polling
<1>8. /\ got' \in Outcomes \cup {Polling}
      /\ got'.ev # "None"
      /\ errored' \in BOOLEAN
      /\ readable' \in BOOLEAN
    <2>1. CASE o = NoneOut
        <3>1. /\ readable' = FALSE
              /\ got' = IF eof THEN Ev("End") ELSE Polling
              /\ errored' = errored
            BY <1>3, <2>1 DEF FrDecode
        <3> QED BY <3>1, <1>4 DEF ReaderInv, ReaderTypeOK
    <2>2. CASE o # NoneOut
        <3>1. /\ got' = o
              /\ errored' = (o.ev \in ClientErrors \cup {"IO"})
              /\ readable' = readable
            BY <1>3, <2>2 DEF FrDecode
        <3>2. o.ev # "None"
            BY <1>1, <2>2 DEF Returnable
        <3> QED BY <3>1, <3>2 DEF ReaderInv, ReaderTypeOK
    <2> QED BY <2>1, <2>2
<1>5. UNCHANGED <<stream, rd, hup, eof, log>>
    BY DEF FrDecode
<1> QED BY <1>2, <1>8, <1>5 DEF ReaderInv, ReaderTypeOK

\* poll_next after an error returns None once.
LEMMA FrErroredType ==
    ASSUME ReaderInv, FrErrored
    PROVE  ReaderInv'
<1>1. Ev("End") \in Outcomes /\ Ev("End").ev # "None"
    BY EvType DEF StreamEnds, Ev, Outcome
<1> QED BY <1>1 DEF FrErrored, ReaderInv, ReaderTypeOK

\* poll_next reading: the bytes read are appended to the buffer, and no more
\* than the client has sent are read.
LEMMA FrReadType ==
    ASSUME ReaderInv, FrRead
    PROVE  ReaderInv'
<1>1. CASE \E k \in 1 .. (Len(stream) - rd) :
            /\ buf' = buf \o SubSeq(stream, rd + 1, rd + k)
            /\ rd' = rd + k
            /\ eof' = FALSE
            /\ readable' = TRUE
            /\ UNCHANGED got
    <2>1. PICK k \in 1 .. (Len(stream) - rd) :
            /\ buf' = buf \o SubSeq(stream, rd + 1, rd + k)
            /\ rd' = rd + k
            /\ eof' = FALSE
            /\ readable' = TRUE
            /\ UNCHANGED got
        BY <1>1
    <2>2. SubSeq(stream, rd + 1, rd + k) \in Seq(Byte)
        BY SubSeqType DEF ReaderInv, ReaderTypeOK
    <2>3. buf' \in Seq(Byte)
        BY <2>1, <2>2, ConcatProperties DEF ReaderInv, ReaderTypeOK
    <2>4. rd' \in 0 .. Len(stream)
        BY <2>1 DEF ReaderInv, ReaderTypeOK
    <2> QED BY <2>1, <2>3, <2>4 DEF FrRead, ReaderInv, ReaderTypeOK
<1>2. CASE /\ rd = Len(stream)
           /\ hup
           /\ IF eof
              THEN /\ got' = Ev("End")
                   /\ UNCHANGED <<buf, rd, eof, readable>>
              ELSE /\ eof' = TRUE
                   /\ readable' = TRUE
                   /\ UNCHANGED <<buf, rd, got>>
    <2>1. Ev("End") \in Outcomes /\ Ev("End").ev # "None"
        BY EvType DEF StreamEnds, Ev, Outcome
    <2> QED BY <1>2, <2>1 DEF FrRead, ReaderInv, ReaderTypeOK
<1> QED BY <1>1, <1>2 DEF FrRead

\* The client closes its side having sent at least what has been read.
LEMMA HangupType ==
    ASSUME ReaderInv, Hangup
    PROVE  ReaderInv'
<1>1. PICK k \in rd .. Len(stream) : stream' = SubSeq(stream, 1, k)
    BY DEF Hangup
<1>2. stream' \in Seq(Byte) /\ Len(stream') = k
    BY <1>1, SubSeqType DEF ReaderInv, ReaderTypeOK
<1> QED BY <1>1, <1>2 DEF Hangup, ReaderInv, ReaderTypeOK

\* The consumer keeps what it is given and polls again.
LEMMA ConsumeType ==
    ASSUME ReaderInv, Consume
    PROVE  ReaderInv'
<1>1. got \in Outcomes
    BY DEF Consume, ReaderInv, ReaderTypeOK
<1>2. Logged(log, got) \in Seq(Outcomes)
    BY <1>1, AppendProperties DEF Logged, ReaderInv, ReaderTypeOK
<1>3. Polling \in Outcomes \cup {Polling} /\ Polling.ev # "None"
    BY DEF Polling, Ev, Outcome
<1> QED BY <1>2, <1>3 DEF Consume, ReaderInv, ReaderTypeOK

\* The reader's variables do not change in a step of someone else.
LEMMA ReaderStutter ==
    ASSUME ReaderInv, UNCHANGED readerVars
    PROVE  ReaderInv'
<1>1. /\ stream' = stream /\ rd' = rd /\ hup' = hup /\ buf' = buf
      /\ dec' = dec /\ eof' = eof /\ readable' = readable
      /\ errored' = errored /\ got' = got /\ log' = log
    BY DEF readerVars
<1> QED BY <1>1 DEF ReaderInv, ReaderTypeOK

\* The reader starts well typed, with nothing returned yet.
LEMMA ReaderInitInv ==
    ASSUME ReaderInit
    PROVE  ReaderInv
<1>1. stream \in Seq(Byte)
    BY ScriptsAssumption DEF ReaderInit
<1>2. dec \in DecoderStates
    BY StatesType DEF ReaderInit
<1>3. rd \in 0 .. Len(stream)
    BY <1>1, LenProperties DEF ReaderInit
<1>4. /\ buf \in Seq(Byte) /\ log \in Seq(Outcomes)
      /\ got \in Outcomes \cup {Polling} /\ got.ev # "None"
    BY DEF ReaderInit, Polling, Ev, Outcome
<1> QED BY <1>1, <1>2, <1>3, <1>4 DEF ReaderInit, ReaderInv, ReaderTypeOK

\* Every step of the reader on its own keeps ReaderInv.
LEMMA ReaderStepInv ==
    ASSUME ReaderInv, [ReaderNext]_readerVars
    PROVE  ReaderInv'
<1>1. CASE FrDecode
    BY <1>1, FrDecodeType
<1>2. CASE FrErrored
    BY <1>2, FrErroredType
<1>3. CASE FrRead
    BY <1>3, FrReadType
<1>4. CASE Hangup
    BY <1>4, HangupType
<1>5. CASE Consume
    BY <1>5, ConsumeType
<1>6. CASE UNCHANGED readerVars
    BY <1>6, ReaderStutter
<1> QED BY <1>1, <1>2, <1>3, <1>4, <1>5, <1>6 DEF ReaderNext, FrStep

-----------------------------------------------------------------------------
(***************************************************************************)
(* Type correctness of the reader (the invariant ReaderTypeOK that the    *)
(* reader_recovery run checks), for every MaxLine, MaxPut and set of      *)
(* streams: however the client's bytes are split into reads and wherever  *)
(* it hangs up, decode and decode_eof only split and advance within the   *)
(* buffered bytes, remaining stays within the announced size, the server *)
(* never reads past what was sent, and poll_next returns only events and  *)
(* errors.  It follows from the inductive ReaderInv.                       *)
(***************************************************************************)
THEOREM ReaderTypeCorrect == ReaderSpec => []ReaderTypeOK
<1>1. ReaderSpec => []ReaderInv
    BY ReaderInitInv, ReaderStepInv, PTL DEF ReaderSpec
<1> QED BY <1>1, PTL DEF ReaderInv

=============================================================================
