------------------------------ MODULE Encoder ------------------------------
(***************************************************************************)
(* The response encoder (src/wire/encoder.rs) and the bytes a client reads *)
(* back.  Encoder::encode appends one Response to the write buffer dst;   *)
(* a reply to a command is one or more Responses (a reserved job is       *)
(* Reserved, its JobChunks and JobEnd).  The writer appends the encodings  *)
(* of whole replies to the bytes the client receives, and the client      *)
(* splits those bytes back into replies by the grammar of spec section 6. *)
(*                                                                         *)
(* A wire byte is a token: CR, LF, SP, a decimal digit, one token per     *)
(* fixed word of the protocol ("BAD_FORMAT" stands for its ten bytes, none *)
(* of them a space or CR), or a payload byte "x".                          *)
(***************************************************************************)
EXTENDS ReplyGrammar

CONSTANTS
    Nums,       \* the ids and counts replies carry
    Datas,      \* the YAML texts and job bodies replies carry
    Tubes,      \* the tube names USING carries (sequences of name bytes)
    JobKinds,   \* the job replies sent: a subset of {"Reserved", "Found"}
    MaxSends    \* how many replies one run sends

\* num.to_string(): the decimal digits of n, most significant first.
Decimal[n \in Nat] ==
    IF n < 10 THEN <<DigitChar[n + 1]>>
    ELSE Decimal[n \div 10] \o <<DigitChar[(n % 10) + 1]>>

\* The responses written as one fixed word, and that word.
PlainWire ==
    [BadFormat |-> "BAD_FORMAT", Buried |-> "BURIED", DeadlineSoon |-> "DEADLINE_SOON",
     Deleted |-> "DELETED", Draining |-> "DRAINING", ExpectedCRLF |-> "EXPECTED_CRLF",
     InternalError |-> "INTERNAL_ERROR", JobTooBig |-> "JOB_TOO_BIG", Kicked |-> "KICKED",
     NotFound |-> "NOT_FOUND", NotIgnored |-> "NOT_IGNORED", OutOfMemory |-> "OUT_OF_MEMORY",
     Paused |-> "PAUSED", Released |-> "RELEASED", TimedOut |-> "TIMED_OUT",
     Touched |-> "TOUCHED", UnknownCommand |-> "UNKNOWN_COMMAND"]

\* The responses written as a word and a number, and that word.
NumWire ==
    [BuriedID |-> "BURIED", Inserted |-> "INSERTED", KickedCount |-> "KICKED",
     Watching |-> "WATCHING", Reserved |-> "RESERVED", Found |-> "FOUND"]

\* The responses whose data serde_yaml serialises (OkStatsJob, OkStats,
\* OkListTubes, OkStatsTube): they differ only in what they serialise.
OkKinds == {"OkStatsJob", "OkStats", "OkListTubes", "OkStatsTube"}

\* put_str_and_u32 and put_str_and_u64: "{str} {num}\r\n".
PutStrAndNum(str, num) == <<str, "SP">> \o Decimal[num] \o CRLF

\* Mutant: the length prefix counts the trailing CRLF as well.
PutOkAndDataWithCRLF(yaml, serdeOk) ==
    IF serdeOk
    THEN [bytes |-> <<"OK", "SP">> \o Decimal[Len(yaml) + 2] \o CRLF \o yaml \o CRLF, ok |-> TRUE]
    ELSE [bytes |-> <<"INTERNAL_ERROR">> \o CRLF, ok |-> FALSE]

(***************************************************************************)
(* put_ok_and_data: serde_yaml::to_string(&data) is the text yaml; on      *)
(* success "OK {len}\r\n{yaml}\r\n", on failure "INTERNAL_ERROR\r\n" and   *)
(* the error.                                                              *)
(***************************************************************************)
PutOkAndData(yaml, serdeOk) ==
    IF serdeOk
    THEN [bytes |-> <<"OK", "SP">> \o Decimal[Len(yaml)] \o CRLF \o yaml \o CRLF, ok |-> TRUE]
    ELSE [bytes |-> <<"INTERNAL_ERROR">> \o CRLF, ok |-> FALSE]

\* Encoder::encode of one Response into the bytes appended to dst, and
\* whether it returned Ok.
Encode(item, serdeOk) ==
    CASE item.r \in DOMAIN PlainWire -> [bytes |-> <<PlainWire[item.r]>> \o CRLF, ok |-> TRUE]
      [] item.r \in DOMAIN NumWire   -> [bytes |-> PutStrAndNum(NumWire[item.r], item.n), ok |-> TRUE]
      [] item.r \in OkKinds          -> PutOkAndData(item.data, serdeOk)
      [] item.r = "Using"            -> [bytes |-> <<"USING", "SP">> \o item.tube \o CRLF, ok |-> TRUE]
      [] item.r = "JobChunk"         -> [bytes |-> item.data, ok |-> TRUE]
      [] item.r = "JobEnd"           -> [bytes |-> CRLF, ok |-> TRUE]

(***************************************************************************)
(* The replies the server can send, as the Responses it passes to         *)
(* framed.send one after the other: a job is its Reserved or Found, one   *)
(* JobChunk and JobEnd.                                                    *)
(***************************************************************************)
CountKinds == {"BuriedID", "Inserted", "KickedCount", "Watching"}
ServerReplies ==
    {<<[r |-> p]>> : p \in DOMAIN PlainWire}
    \cup {<<[r |-> k, n |-> n]>> : k \in CountKinds, n \in Nums}
    \cup {<<[r |-> k, data |-> d]>> : k \in OkKinds, d \in Datas}
    \cup {<<[r |-> "Using", tube |-> t]>> : t \in Tubes}
    \cup {<<[r |-> k, n |-> id], [r |-> "JobChunk", data |-> d], [r |-> "JobEnd"]>> :
            k \in JobKinds, id \in Nums, d \in Datas}

(***************************************************************************)
(* What a reply tells the client, by the "On the wire" of its Responses   *)
(* (protocol.rs): a job reply carries the job's id and its data.           *)
(***************************************************************************)
Meaning(items) ==
    LET first == items[1]
    IN  CASE first.r \in DOMAIN PlainWire -> Reply(PlainWire[first.r], <<>>, <<>>, <<>>)
          [] first.r \in CountKinds -> Reply(NumWire[first.r], <<first.n>>, <<>>, <<>>)
          [] first.r \in OkKinds -> Reply("OK", <<>>, <<>>, first.data)
          [] first.r = "Using" -> Reply("USING", <<>>, first.tube, <<>>)
          [] first.r \in JobKinds -> Reply(NumWire[first.r], <<first.n>>, <<>>, items[2].data)

-----------------------------------------------------------------------------
VARIABLES
    wire,     \* the bytes encoded into dst, in order: what the client receives
    sent,     \* the replies sent, as what each one tells the client
    failed    \* an encode returned Err: `x?` ends do_client_loop

vars == <<wire, sent, failed>>

EncInit ==
    /\ wire = <<>>
    /\ sent = <<>>
    /\ failed = FALSE

\* The Responses of one reply encoded in turn by successive framed.send
\* calls; an Err stops the sends.
EncodeReply(items, serdeOk) ==
    FoldLeft(LAMBDA acc, item :
                IF acc.ok THEN LET e == Encode(item, serdeOk)
                               IN  [bytes |-> acc.bytes \o e.bytes, ok |-> e.ok]
                ELSE acc,
             [bytes |-> <<>>, ok |-> TRUE], items)

\* A reply encoded; serde_yaml succeeds.
Send(items) ==
    /\ ~failed
    /\ Len(sent) < MaxSends
    /\ wire' = wire \o EncodeReply(items, TRUE).bytes
    /\ sent' = Append(sent, Meaning(items))
    /\ UNCHANGED failed

(***************************************************************************)
(* An OK reply whose serialisation fails: encode puts INTERNAL_ERROR into *)
(* dst and returns Err, so framed.send fails before its flush; `x?`       *)
(* (main.rs:143, 163) returns from do_client_loop and drops framed with   *)
(* its write buffer.  The client gets nothing of this reply, and nothing  *)
(* more is sent.                                                           *)
(***************************************************************************)
SendSerdeFails(items) ==
    /\ ~failed
    /\ Len(sent) < MaxSends
    /\ items[1].r \in OkKinds
    /\ ~EncodeReply(items, FALSE).ok
    /\ failed' = TRUE
    /\ UNCHANGED <<wire, sent>>

EncNext == \E items \in ServerReplies : Send(items) \/ SendSerdeFails(items)

EncSpec == EncInit /\ [][EncNext]_vars

-----------------------------------------------------------------------------
(***************************************************************************)
(* A client reading the server's bytes by the grammar of spec section 6    *)
(* gets back exactly the replies sent, in order, whatever their data: the  *)
(* length prefixes, the decimal numbers and the CRLFs the encoder writes   *)
(* delimit every reply, even when a body contains CRLF.                    *)
(***************************************************************************)
ClientReadsReplies == Parse(wire) = [ok |-> TRUE, replies |-> sent]

=============================================================================
