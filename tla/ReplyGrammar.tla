---------------------------- MODULE ReplyGrammar ----------------------------
(***************************************************************************)
(* The replies of the wire protocol as a client reads them (spec section  *)
(* 6): a line "<word>[ <arg>]*\r\n", and after "OK <n>", "RESERVED <id>   *)
(* <n>" and "FOUND <id> <n>" a body of exactly n bytes and a CRLF.  This   *)
(* is the reference the encoder's output is compared with: Parse splits a  *)
(* byte stream into the replies it carries.  Nothing here is code of the  *)
(* repository (its client is not in it); it is read off the spec.          *)
(***************************************************************************)
EXTENDS Integers, Sequences, SequencesExt

CRLF == <<"CR", "LF">>
DigitChar == <<"0", "1", "2", "3", "4", "5", "6", "7", "8", "9">>
Digits == {DigitChar[k] : k \in 1..10}

\* A reply as the client understands it: its word, its numeric arguments,
\* its tube argument (USING), and its body (OK, RESERVED, FOUND).
Reply(word, nums, tube, body) == [word |-> word, nums |-> nums, tube |-> tube, body |-> body]

\* The replies of spec section 6 by shape.
BareWords == {"BURIED", "EXPECTED_CRLF", "JOB_TOO_BIG", "DRAINING", "DEADLINE_SOON",
              "TIMED_OUT", "NOT_FOUND", "DELETED", "RELEASED", "TOUCHED",
              "NOT_IGNORED", "KICKED", "PAUSED", "BAD_FORMAT", "UNKNOWN_COMMAND",
              "INTERNAL_ERROR", "OUT_OF_MEMORY"}
CountWords == {"INSERTED", "BURIED", "WATCHING", "KICKED"}
BodyWords == {"RESERVED", "FOUND"}

\* A decimal field and its value.
IsNumber(f) == f # <<>> /\ \A k \in 1..Len(f) : f[k] \in Digits
DigitValue(c) == CHOOSE v \in 0..9 : DigitChar[v + 1] = c
NumberValue(f) == FoldLeft(LAMBDA acc, c : 10 * acc + DigitValue(c), 0, f)

\* The fields of a line, split at every space.
RECURSIVE Fields(_)
Fields(line) ==
    LET sp == {k \in 1..Len(line) : line[k] = "SP"}
    IN  IF sp = {} THEN <<line>>
        ELSE LET k == Min(sp)
             IN  <<SubSeq(line, 1, k - 1)>> \o Fields(SubSeq(line, k + 1, Len(line)))

\* Where the line starting at i ends: the index of its CR, 0 if incomplete.
LineEnd(w, i) ==
    LET ends == {j \in i..(Len(w) - 1) : w[j] = "CR" /\ w[j + 1] = "LF"}
    IN  IF ends = {} THEN 0 ELSE Min(ends)

(***************************************************************************)
(* The reply starting at byte i of w, and where the next one starts; or   *)
(* ok = FALSE when the bytes there are not a complete reply.               *)
(***************************************************************************)
ParseOne(w, i) ==
    LET j    == LineEnd(w, i)
        fs   == Fields(SubSeq(w, i, j - 1))
        word == IF Len(fs[1]) = 1 THEN fs[1][1] ELSE "?"
        \* a body of n bytes after the line, followed by CRLF
        HasBody(n) == j + 3 + n <= Len(w) /\ SubSeq(w, j + 2 + n, j + 3 + n) = CRLF
        Body(n) == SubSeq(w, j + 2, j + 1 + n)
        Got(r, next) == [ok |-> TRUE, reply |-> r, next |-> next]
        bad == [ok |-> FALSE, reply |-> Reply("?", <<>>, <<>>, <<>>), next |-> 0]
    IN  CASE j = 0 -> bad
          [] Len(fs) = 1 /\ word \in BareWords ->
                Got(Reply(word, <<>>, <<>>, <<>>), j + 2)
          [] Len(fs) = 2 /\ word \in CountWords /\ IsNumber(fs[2]) ->
                Got(Reply(word, <<NumberValue(fs[2])>>, <<>>, <<>>), j + 2)
          [] Len(fs) = 2 /\ word = "USING" /\ fs[2] # <<>> ->
                Got(Reply(word, <<>>, fs[2], <<>>), j + 2)
          [] Len(fs) = 2 /\ word = "OK" /\ IsNumber(fs[2])
                /\ HasBody(NumberValue(fs[2])) ->
                Got(Reply(word, <<>>, <<>>, Body(NumberValue(fs[2]))),
                    j + 4 + NumberValue(fs[2]))
          [] Len(fs) = 3 /\ word \in BodyWords /\ IsNumber(fs[2]) /\ IsNumber(fs[3])
                /\ HasBody(NumberValue(fs[3])) ->
                Got(Reply(word, <<NumberValue(fs[2])>>, <<>>, Body(NumberValue(fs[3]))),
                    j + 4 + NumberValue(fs[3]))
          [] OTHER -> bad

\* The replies a client reads from w, and whether all of w parsed.
RECURSIVE ParseFrom(_, _, _)
ParseFrom(w, i, acc) ==
    IF i > Len(w) THEN [ok |-> TRUE, replies |-> acc]
    ELSE LET one == ParseOne(w, i)
         IN  IF one.ok THEN ParseFrom(w, one.next, Append(acc, one.reply))
             ELSE [ok |-> FALSE, replies |-> acc]

Parse(w) == ParseFrom(w, 1, <<>>)

=============================================================================
