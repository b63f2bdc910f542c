---------------------------- MODULE MCRespParser ----------------------------
(***************************************************************************)
(* Instances of RespParser for model checking: peers that send up to two   *)
(* values, and peers that send up to MaxPieces pieces of protocol in any   *)
(* order, complete and malformed ones among them.                          *)
(***************************************************************************)
EXTENDS RespParser

CONSTANT MaxPieces

Texts == {<<>>, <<"a">>, CRLF, <<"$", "1">>}
Plain == {Simple(<<"a">>), Err(<<>>), Integer(-10), Null} \cup {Bulk(t) : t \in Texts}
Some  == Plain \cup {Array(<<>>), Array(<<Null, Array(<<Bulk(<<"a">>)>>)>>)}
               \cup {Array(<<Bulk(t), Bulk(u)>>) : t, u \in Texts}

Speaking ==
  {[values |-> s, bytes |-> FlattenSeq([i \in DOMAIN s |-> serialize(s[i])])]
     : s \in BoundedSeq(Some, 2)}

Pieces ==
  {<<"*", "2">> \o CRLF, <<"$", "1">> \o CRLF, <<"$", "-", "1">> \o CRLF, <<"$">>,
   <<"a">> \o CRLF, <<":", "SP", "1", "a">> \o CRLF, <<"+">>, <<"CR">>, <<"LF">>,
   <<"SP", "QUOTE", "a", "SP", "QUOTE", "a">> \o CRLF}

Babbling ==
  {[values |-> NoValues, bytes |-> FlattenSeq(s)] : s \in BoundedSeq(Pieces, MaxPieces)}

AllConversations == Speaking \cup Babbling
=============================================================================
