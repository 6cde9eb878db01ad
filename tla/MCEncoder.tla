----------------------------- MODULE MCEncoder -----------------------------
(***************************************************************************)
(* Encoder on small data: ids and counts of one and two digits, and YAML  *)
(* texts and job bodies that are empty, contain CRLF, end in CR, or are   *)
(* ten bytes long (so that their length prefix has two digits).            *)
(***************************************************************************)
EXTENDS Encoder, TLC

MCNums == {0, 7, 12}
MCDatas == {<<>>, <<"CR", "LF">>, <<"x", "CR">>,
            <<"x", "CR", "LF", "x", "x", "x", "x", "x", "x", "x">>}
MCTubes == {<<"x">>}
=============================================================================
