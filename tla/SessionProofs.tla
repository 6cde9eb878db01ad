---------------------------- MODULE SessionProofs ----------------------------
(***************************************************************************)
(* Proofs about one connection (Session): the loop's variables stay well  *)
(* typed and the socket send buffer never holds more than OutCap          *)
(* responses, for every MaxLine, MaxPut, OutCap and set of client streams. *)
(* The reader's part rests on ReaderProofs.                                *)
(***************************************************************************)
EXTENDS Session, ReaderProofs

\* The inductive invariant: the session's types, and the reader's.
SessionInv == TypeOK /\ got.ev # "None"

\* The conjuncts of TypeOK about the loop itself.
LoopTypeOK ==
    /\ pc \in PcValues
    /\ pend \in Responses
    /\ outq \in Seq(Responses)
    /\ Len(outq) <= OutCap
    /\ sent \in Seq(Responses)
    /\ closedBy \in Reasons
    /\ cancelled \in BOOLEAN

LEMMA SessionInvSplit == SessionInv <=> ReaderInv /\ LoopTypeOK
BY DEF SessionInv, TypeOK, ReaderInv, LoopTypeOK

LEMMA SessionInvSplitPrime == SessionInv' <=> ReaderInv' /\ LoopTypeOK'
BY DEF SessionInv, TypeOK, ReaderInv, LoopTypeOK

\* A step that leaves the loop's variables alone keeps LoopTypeOK.
LEMMA LoopStutter ==
    ASSUME LoopTypeOK, UNCHANGED sessionVars
    PROVE  LoopTypeOK'
<1>1. /\ pc' = pc /\ pend' = pend /\ outq' = outq /\ sent' = sent
      /\ closedBy' = closedBy /\ cancelled' = cancelled
    BY DEF sessionVars
<1> QED BY <1>1 DEF LoopTypeOK

-----------------------------------------------------------------------------
(***************************************************************************)
(* The loop's steps.                                                       *)
(***************************************************************************)

\* Acting on an event: the reader's side is the consumer's Consume step;
\* every event the reader can return has its arm in the match, and the
\* response chosen is one the loop knows.
LEMMA RecvInv ==
    ASSUME SessionInv, Recv
    PROVE  SessionInv'
<1>1. Consume
    BY DEF Recv, Consume
<1>2. ReaderInv'
    BY <1>1, ConsumeType, SessionInvSplit
<1>3. got \in Outcomes /\ got.ev # "None"
    BY DEF Recv, SessionInv, TypeOK, ReaderTypeOK
<1>4. got.ev \in {"End", "IO", "Discarded", "PutChunk", "PutEnd", "Command"} \cup ClientErrors
    BY <1>3 DEF Outcomes, EventKinds, ClientErrors, StreamEnds
<1>5. LoopTypeOK'
    <2>1. /\ outq' = outq /\ sent' = sent /\ cancelled' = cancelled
        BY DEF Recv
    <2>2. LoopTypeOK
        BY SessionInvSplit
    <2>3. /\ pc' \in PcValues
          /\ pend' \in Responses
          /\ closedBy' \in Reasons
        <3>1. CASE got.ev = "End"
            <4>1. pc' = "shutdown" /\ closedBy' = "End" /\ pend' = pend
                BY <3>1 DEF Recv, ClientErrors
            <4> QED BY <4>1, <2>2 DEF LoopTypeOK, PcValues, Reasons
        <3>2. CASE got.ev = "IO"
            <4>1. pc' = "shutdown" /\ closedBy' = "IO" /\ pend' = pend
                BY <3>2 DEF Recv, ClientErrors
            <4> QED BY <4>1, <2>2 DEF LoopTypeOK, PcValues, Reasons
        <3>3. CASE got.ev = "Discarded"
            <4>1. pc' = pc /\ closedBy' = closedBy /\ pend' = pend
                BY <3>3 DEF Recv, ClientErrors
            <4> QED BY <4>1, <2>2 DEF LoopTypeOK
        <3>4. CASE got.ev \in ClientErrors
            BY <3>4, <2>2 DEF Recv, Respond, LoopTypeOK, PcValues, Responses, ClientErrors
        <3>5. CASE got.ev \in {"PutChunk", "PutEnd"}
            BY <3>5, <2>2 DEF Recv, Respond, LoopTypeOK, PcValues, Responses, ClientErrors
        <3>6. CASE got.ev = "Command"
            BY <3>6, <2>2 DEF Recv, Respond, LoopTypeOK, PcValues, Responses, ClientErrors
        <3> QED BY <1>4, <3>1, <3>2, <3>3, <3>4, <3>5, <3>6
    <2> QED BY <2>1, <2>2, <2>3 DEF LoopTypeOK
<1> QED BY <1>2, <1>5, SessionInvSplitPrime

\* framed.send completes only when the send buffer has room, so the
\* buffer never holds more than OutCap responses.
LEMMA SendDoneInv ==
    ASSUME SessionInv, SendDone
    PROVE  SessionInv'
<1>1. ReaderInv'
    BY ReaderStutter, SessionInvSplit DEF SendDone
<1>2. LoopTypeOK
    BY SessionInvSplit
<1>3. outq' \in Seq(Responses) /\ Len(outq') <= OutCap /\ sent' \in Seq(Responses)
    <2>1. pend \in Responses /\ outq \in Seq(Responses) /\ sent \in Seq(Responses)
        BY <1>2 DEF LoopTypeOK
    <2>2. Len(Append(outq, pend)) = Len(outq) + 1
        BY <2>1, AppendProperties
    <2> QED BY <2>1, <2>2, AppendProperties, OutCapAssumption DEF SendDone
<1>4. pc' \in PcValues /\ closedBy' \in Reasons
    BY <1>2 DEF SendDone, LoopTypeOK, PcValues, Reasons
<1>5. pend' = pend /\ cancelled' = cancelled
    BY DEF SendDone
<1> QED BY <1>1, <1>2, <1>3, <1>4, <1>5, SessionInvSplitPrime DEF LoopTypeOK

\* The client reads a response out of the send buffer.
LEMMA ClientReadInv ==
    ASSUME SessionInv, ClientRead
    PROVE  SessionInv'
<1>1. ReaderInv'
    BY ReaderStutter, SessionInvSplit DEF ClientRead
<1>2. LoopTypeOK
    BY SessionInvSplit
<1>3. outq' \in Seq(Responses) /\ Len(outq') <= OutCap
    <2>1. outq \in Seq(Responses) /\ outq # <<>> /\ Len(outq) <= OutCap
        BY <1>2 DEF ClientRead, LoopTypeOK
    <2> QED BY <2>1, HeadTailProperties, OutCapAssumption DEF ClientRead
<1> QED BY <1>1, <1>2, <1>3, SessionInvSplitPrime DEF ClientRead, LoopTypeOK

\* The steps that end the loop or fire the token leave the reader and the
\* buffers alone.
LEMMA EndingStepsInv ==
    ASSUME SessionInv, CancelRecv \/ CancelSend \/ Shutdown \/ Cancel
    PROVE  SessionInv'
<1>1. UNCHANGED readerVars
    BY DEF CancelRecv, CancelSend, Shutdown, Cancel
<1>2. ReaderInv'
    BY <1>1, ReaderStutter, SessionInvSplit
<1>3. LoopTypeOK
    BY SessionInvSplit
<1>4. LoopTypeOK'
    BY <1>3 DEF CancelRecv, CancelSend, Shutdown, Cancel, LoopTypeOK, PcValues, Reasons
<1> QED BY <1>2, <1>4, SessionInvSplitPrime

\* The reader works while the loop awaits framed.next(), and the client may
\* hang up at any time.
LEMMA ReaderStepsInv ==
    ASSUME SessionInv, Poll \/ ClientHangup
    PROVE  SessionInv'
<1>1. UNCHANGED sessionVars
    BY DEF Poll, ClientHangup
<1>2. ReaderInv
    BY SessionInvSplit
<1>3. ReaderInv'
    <2>1. CASE FrDecode
        BY <1>2, <2>1, FrDecodeType
    <2>2. CASE FrErrored
        BY <1>2, <2>2, FrErroredType
    <2>3. CASE FrRead
        BY <1>2, <2>3, FrReadType
    <2>4. CASE Hangup
        BY <1>2, <2>4, HangupType
    <2> QED BY <2>1, <2>2, <2>3, <2>4 DEF Poll, ClientHangup, FrStep
<1> QED BY <1>1, <1>3, LoopStutter, SessionInvSplit, SessionInvSplitPrime

-----------------------------------------------------------------------------
\* The loop starts well typed, with no event in hand.
LEMMA SessionInitInv == Init => SessionInv
<1> SUFFICES ASSUME Init PROVE SessionInv
    OBVIOUS
<1>1. ReaderInv
    BY ReaderInitInv DEF Init
<1>2. LoopTypeOK
    <2>1. pc \in PcValues /\ pend \in Responses /\ closedBy \in Reasons
        BY DEF Init, PcValues, Responses, Reasons
    <2>2. outq = <<>> /\ sent = <<>> /\ cancelled = FALSE
        BY DEF Init
    <2>3. <<>> \in Seq(Responses) /\ Len(<<>>) <= OutCap
        BY OutCapAssumption
    <2> QED BY <2>1, <2>2, <2>3 DEF LoopTypeOK
<1> QED BY <1>1, <1>2, SessionInvSplit

\* Every step of the loop, the reader, the client or the signal keeps SessionInv.
LEMMA SessionStepInv == SessionInv /\ [Next]_vars => SessionInv'
<1> SUFFICES ASSUME SessionInv, [Next]_vars PROVE SessionInv'
    OBVIOUS
<1>1. CASE Poll \/ ClientHangup
    BY <1>1, ReaderStepsInv
<1>2. CASE Recv
    BY <1>2, RecvInv
<1>3. CASE SendDone
    BY <1>3, SendDoneInv
<1>4. CASE ClientRead
    BY <1>4, ClientReadInv
<1>5. CASE CancelRecv \/ CancelSend \/ Shutdown \/ Cancel
    BY <1>5, EndingStepsInv
<1>6. CASE Finished \/ UNCHANGED vars
    <2>1. UNCHANGED readerVars /\ UNCHANGED sessionVars
        BY <1>6 DEF Finished, vars
    <2> QED BY <2>1, ReaderStutter, LoopStutter, SessionInvSplit, SessionInvSplitPrime
<1> QED BY <1>1, <1>2, <1>3, <1>4, <1>5, <1>6 DEF Next, ServerStep

(***************************************************************************)
(* Type correctness of a connection, TypeOK of the session_framing run,   *)
(* for every instance: whatever the client sends, in whatever reads, and  *)
(* whenever it reads its responses, hangs up or ctrl-c fires, every event *)
(* do_client_loop gets has an arm of its match, and the socket's send      *)
(* buffer never holds more than OutCap responses (framed.send waits).      *)
(* It follows from the inductive SessionInv, which adds to TypeOK that    *)
(* Ok(None) never reaches the loop as an event.                            *)
(***************************************************************************)
THEOREM SessionTypeCorrect == Spec => []TypeOK
<1>1. SessionInv => TypeOK
    BY DEF SessionInv
<1> QED BY <1>1, SessionInitInv, SessionStepInv, PTL DEF Spec


-----------------------------------------------------------------------------
(***************************************************************************)
(* The refinement of SessionAbs.  Under the mapping ended <- (pc = "done") *)
(* only framed.into_inner().shutdown() ends the task and only ctrl-c      *)
(* fires the token; every other step leaves both alone.  Acting on an     *)
(* event needs SessionInv: a Recv whose event had no arm of the match     *)
(* would leave pc unconstrained.                                           *)
(***************************************************************************)

\* Acting on an event never ends the task by itself: every arm of the
\* match either answers, skips or goes to the shutdown of the socket.
LEMMA RecvKeepsRunning ==
    ASSUME SessionInv, Recv
    PROVE  pc' # "done" /\ cancelled' = cancelled
<1>1. got \in Outcomes /\ got.ev # "None"
    BY DEF Recv, SessionInv, TypeOK, ReaderTypeOK
<1>2. got.ev \in {"End", "IO", "Discarded", "PutChunk", "PutEnd", "Command"} \cup ClientErrors
    BY <1>1 DEF Outcomes, EventKinds, ClientErrors, StreamEnds
<1>3. pc = "next"
    BY DEF Recv
<1>4. pc' \in {"shutdown", "next", "sendError", "sendBadFormat", "send"}
    <2>1. CASE got.ev = "End"
        BY <2>1 DEF Recv, ClientErrors
    <2>2. CASE got.ev = "IO"
        BY <2>2 DEF Recv, ClientErrors
    <2>3. CASE got.ev = "Discarded"
        BY <2>3, <1>3 DEF Recv, ClientErrors
    <2>4. CASE got.ev \in ClientErrors
        BY <2>4 DEF Recv, Respond, ClientErrors
    <2>5. CASE got.ev \in {"PutChunk", "PutEnd"}
        BY <2>5 DEF Recv, Respond, ClientErrors
    <2>6. CASE got.ev = "Command"
        BY <2>6 DEF Recv, Respond, ClientErrors
    <2> QED BY <1>2, <2>1, <2>2, <2>3, <2>4, <2>5, <2>6
<1>5. cancelled' = cancelled
    BY DEF Recv
<1> QED BY <1>4, <1>5

\* Each step of the connection is a step of SessionAbs or leaves its
\* variables alone.
LEMMA SessionStepRefines ==
    SessionInv /\ [Next]_vars => [AbsSession!AbsNext]_AbsSession!absVars
<1> SUFFICES ASSUME SessionInv, [Next]_vars
             PROVE  [AbsSession!AbsNext]_AbsSession!absVars
    OBVIOUS
<1> DEFINE Stutter == (pc' = "done") = (pc = "done") /\ cancelled' = cancelled
<1>0. Stutter => UNCHANGED AbsSession!absVars
    BY DEF AbsSession!absVars
<1>1. CASE Shutdown
    <2>1. pc = "shutdown" /\ pc' = "done" /\ cancelled' = cancelled
        BY <1>1 DEF Shutdown
    <2> QED BY <2>1 DEF AbsSession!AbsNext, AbsSession!AbsEnd
<1>2. CASE Cancel
    <2>1. ~cancelled /\ cancelled' = TRUE /\ pc' = pc
        BY <1>2 DEF Cancel
    <2> QED BY <2>1 DEF AbsSession!AbsNext, AbsSession!AbsCancel
<1>3. CASE Recv
    <2>1. pc = "next" /\ pc' # "done" /\ cancelled' = cancelled
        BY <1>3, RecvKeepsRunning DEF Recv
    <2> QED BY <2>1, <1>0
<1>4. CASE SendDone
    <2>1. pc \in {"send", "sendBadFormat", "sendError"} /\ pc' \in {"shutdown", "next"}
          /\ cancelled' = cancelled
        BY <1>4 DEF SendDone
    <2> QED BY <2>1, <1>0
<1>5. CASE CancelRecv \/ CancelSend
    <2>1. pc \in {"next", "send", "sendError"} /\ pc' = "shutdown" /\ cancelled' = cancelled
        BY <1>5 DEF CancelRecv, CancelSend
    <2> QED BY <2>1, <1>0
<1>6. CASE Poll \/ ClientRead \/ ClientHangup \/ Finished \/ UNCHANGED vars
    <2>1. pc' = pc /\ cancelled' = cancelled
        BY <1>6 DEF Poll, ClientRead, ClientHangup, Finished, vars, sessionVars
    <2> QED BY <2>1, <1>0
<1> QED BY <1>1, <1>2, <1>3, <1>4, <1>5, <1>6 DEF Next, ServerStep

(***************************************************************************)
(* The safety part of SessionImplementsAbs (the session_shutdown run      *)
(* checks all of it), for every instance: a connection's task starts      *)
(* running with the token not fired, it ends only once, by the socket's   *)
(* shutdown and without touching the token, it never runs again once       *)
(* ended, and the token is fired only by ctrl-c and never unfired.  The   *)
(* weak fairness of AbsEnd once cancelled is liveness and stays with TLC.  *)
(***************************************************************************)
THEOREM SessionRefinesAbsSafety ==
    Spec => AbsSession!AbsInit /\ [][AbsSession!AbsNext]_AbsSession!absVars
<1>1. Init => AbsSession!AbsInit
    BY DEF Init, AbsSession!AbsInit
<1>2. Spec => []SessionInv
    BY SessionInitInv, SessionStepInv, PTL DEF Spec
<1> QED BY <1>1, <1>2, SessionStepRefines, PTL DEF Spec


-----------------------------------------------------------------------------
(***************************************************************************)
(* A framing error is fatal.  FramingErrorFatal is not inductive: it says *)
(* nothing of where the loop is.  ErrInv adds it: while the loop polls or *)
(* sends an ordinary response no framing error has been acted on; while  *)
(* it sends an error's response that error is the last event and the      *)
(* response pending is its own; once the loop has left, the log ends on  *)
(* the error only if its response was the last one sent or was cancelled. *)
(***************************************************************************)
ErrInv ==
    /\ pc \in {"next", "send", "sendBadFormat"} => NoClientError(log)
    /\ pc = "sendError" => EndsOnClientError(log) /\ pend = Last(log).ev
    /\ pc \in {"shutdown", "done"} =>
           \/ NoClientError(log)
           \/ /\ EndsOnClientError(log)
              /\ \/ closedBy = "Client" /\ sent # <<>> /\ Last(sent) = Last(log).ev
                 \/ closedBy = "Cancel"

\* Logging an event that is not a framing error keeps a log free of them.
LEMMA AppendNoClientError ==
    ASSUME NEW S, NEW l \in Seq(S), NEW o \in S,
           NoClientError(l), o.ev \notin ClientErrors
    PROVE  NoClientError(Append(l, o))
BY DEF NoClientError

\* Logging a framing error after none makes it the log's last and only one.
LEMMA AppendClientError ==
    ASSUME NEW S, NEW l \in Seq(S), NEW o \in S,
           NoClientError(l), o.ev \in ClientErrors
    PROVE  EndsOnClientError(Append(l, o)) /\ Last(Append(l, o)).ev = o.ev
<1>1. Front(Append(l, o)) = l
    BY DEF Front
<1>2. Last(Append(l, o)) = o
    BY DEF Last
<1>3. Append(l, o) # <<>>
    <2>1. Append(l, o) \in Seq(S) /\ Len(Append(l, o)) = Len(l) + 1
        BY AppendProperties
    <2>2. Len(l) \in Nat
        BY LenProperties
    <2> QED BY <2>1, <2>2, EmptySeq
<1>4. NoClientError(Front(Append(l, o)))
    BY <1>1
<1> QED BY <1>2, <1>3, <1>4 DEF EndsOnClientError

\* Acting on an event, from a log free of framing errors.
LEMMA RecvErrInv ==
    ASSUME SessionInv, ErrInv, Recv
    PROVE  ErrInv'
<1>1. pc = "next" /\ NoClientError(log)
    BY DEF Recv, ErrInv
<1>2. got \in Outcomes /\ log \in Seq(Outcomes)
    BY DEF Recv, SessionInv, TypeOK, ReaderTypeOK
<1>3. got.ev \in {"End", "IO", "Discarded", "PutChunk", "PutEnd", "Command"} \cup ClientErrors
    BY <1>2 DEF SessionInv, TypeOK, ReaderTypeOK, Outcomes, EventKinds, ClientErrors, StreamEnds
<1>4. log' = Logged(log, got)
    BY DEF Recv
<1>5. CASE got.ev \in {"End", "Discarded"}
    <2>1. log' = log
        BY <1>4, <1>5 DEF Logged
    <2>2. pc' \in {"shutdown", "next"}
        BY <1>1, <1>5 DEF Recv, ClientErrors
    <2> QED BY <1>1, <2>1, <2>2 DEF ErrInv
<1>6. CASE got.ev \in {"IO", "PutChunk", "PutEnd", "Command"}
    <2>1. log' = Append(log, got)
        BY <1>4, <1>6 DEF Logged
    <2>2. NoClientError(log')
        BY <1>1, <1>2, <1>6, <2>1, AppendNoClientError DEF ClientErrors
    <2>3. pc' \in {"shutdown", "sendBadFormat", "send"}
        BY <1>6 DEF Recv, Respond, ClientErrors
    <2> QED BY <2>2, <2>3 DEF ErrInv
<1>7. CASE got.ev \in ClientErrors
    <2>1. log' = Append(log, got)
        BY <1>4, <1>7 DEF Logged, ClientErrors
    <2>2. EndsOnClientError(log') /\ Last(log').ev = got.ev
        BY <1>1, <1>2, <1>7, <2>1, AppendClientError
    <2>3. pc' = "sendError" /\ pend' = got.ev
        BY <1>7 DEF Recv, Respond, ClientErrors
    <2> QED BY <2>2, <2>3 DEF ErrInv
<1> QED BY <1>3, <1>5, <1>6, <1>7

\* Every other step leaves the log alone and keeps ErrInv.
LEMMA ErrStepInv == SessionInv /\ ErrInv /\ [Next]_vars => ErrInv'
<1> SUFFICES ASSUME SessionInv, ErrInv, [Next]_vars PROVE ErrInv'
    OBVIOUS
<1>1. CASE Recv
    BY <1>1, RecvErrInv
<1>2. CASE SendDone
    <2>1. log' = log /\ pend' = pend
        BY <1>2 DEF SendDone, readerVars
    <2>2. CASE pc = "sendError"
        <3>1. sent' = Append(sent, pend) /\ pc' = "shutdown" /\ closedBy' = "Client"
            BY <1>2, <2>2 DEF SendDone
        <3>2. sent' # <<>> /\ Last(sent') = pend
            BY <3>1 DEF Last
        <3> QED BY <2>1, <2>2, <3>1, <3>2 DEF ErrInv
    <2>3. CASE pc # "sendError"
        <3>1. pc \in {"send", "sendBadFormat"} /\ pc' = "next"
            BY <1>2, <2>3 DEF SendDone
        <3> QED BY <2>1, <3>1 DEF ErrInv
    <2> QED BY <2>2, <2>3
<1>3. CASE CancelSend \/ CancelRecv
    <2>1. log' = log /\ pc' = "shutdown" /\ closedBy' = "Cancel"
          /\ pc \in {"next", "send", "sendError"}
        BY <1>3 DEF CancelSend, CancelRecv, readerVars
    <2> QED BY <2>1 DEF ErrInv
<1>4. CASE Shutdown
    <2>1. log' = log /\ pc = "shutdown" /\ pc' = "done"
          /\ closedBy' = closedBy /\ sent' = sent
        BY <1>4 DEF Shutdown, readerVars
    <2> QED BY <2>1 DEF ErrInv
<1>5. CASE Poll \/ Cancel \/ ClientRead \/ ClientHangup \/ Finished \/ UNCHANGED vars
    <2>1. /\ log' = log /\ pc' = pc /\ pend' = pend
          /\ closedBy' = closedBy /\ sent' = sent
        <3>1. CASE Poll
            <4>1. UNCHANGED log
                BY <3>1 DEF Poll, FrStep, FrDecode, FrErrored, FrRead
            <4> QED BY <3>1, <4>1 DEF Poll, sessionVars
        <3>2. CASE Cancel \/ ClientRead \/ ClientHangup \/ Finished \/ UNCHANGED vars
            BY <3>2 DEF Cancel, ClientRead, ClientHangup, Hangup, Finished, vars,
                        readerVars, sessionVars
        <3> QED BY <1>5, <3>1, <3>2
    <2> QED BY <2>1 DEF ErrInv
<1> QED BY <1>1, <1>2, <1>3, <1>4, <1>5 DEF Next, ServerStep

(***************************************************************************)
(* FramingErrorFatal, checked by session_framing, for every instance:     *)
(* after a BAD_FORMAT or EXPECTED_CRLF from the decoder do_client_loop    *)
(* acts on no further event, and once it has ended on that error the      *)
(* last response its client gets is the error's own, unless ctrl-c        *)
(* cancelled that send.                                                    *)
(***************************************************************************)
THEOREM FramingErrorFatalHolds == Spec => []FramingErrorFatal
<1>1. Init => ErrInv
    <2> SUFFICES ASSUME Init PROVE ErrInv
        OBVIOUS
    <2>1. pc = "next" /\ log = <<>>
        BY DEF Init, ReaderInit
    <2>2. NoClientError(<<>>)
        BY DEF NoClientError
    <2> QED BY <2>1, <2>2 DEF ErrInv
<1>2. SessionInv /\ ErrInv /\ [Next]_vars => SessionInv' /\ ErrInv'
    BY SessionStepInv, ErrStepInv
<1>3. SessionInv /\ ErrInv => FramingErrorFatal
    <2> SUFFICES ASSUME SessionInv, ErrInv PROVE FramingErrorFatal
        OBVIOUS
    <2>1. pc \in PcValues
        BY DEF SessionInv, TypeOK
    <2>2. NoClientError(log) \/ EndsOnClientError(log)
        BY <2>1 DEF ErrInv, PcValues
    <2>3. pc \in {"shutdown", "done"} /\ EndsOnClientError(log) =>
              \/ closedBy = "Client" /\ sent # <<>> /\ Last(sent) = Last(log).ev
              \/ closedBy = "Cancel"
        <3> SUFFICES ASSUME pc \in {"shutdown", "done"}, EndsOnClientError(log)
                     PROVE  \/ closedBy = "Client" /\ sent # <<>> /\ Last(sent) = Last(log).ev
                            \/ closedBy = "Cancel"
            OBVIOUS
        <3>1. ~NoClientError(log)
            <4>1. log # <<>> /\ Last(log).ev \in ClientErrors
                BY DEF EndsOnClientError
            <4> QED BY <4>1 DEF NoClientError, Last
        <3> QED BY <3>1 DEF ErrInv
    <2> QED BY <2>2, <2>3 DEF FramingErrorFatal
<1> QED BY <1>1, <1>2, <1>3, SessionInitInv, PTL DEF Spec

=============================================================================
