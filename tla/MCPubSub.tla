------------------------------ MODULE MCPubSub ------------------------------
(***************************************************************************)
(* Instances of PubSub for model checking.                                 *)
(***************************************************************************)
EXTENDS PubSub

\* Channels "n" and "nw"; pattern "n*" matches both, pattern "nw" only one of them.
TwoChannels == {<<"n">>, <<"n", "w">>}
SomePatterns == {[name |-> <<"n">>, star |-> TRUE], [name |-> <<"n", "w">>, star |-> FALSE]}
=============================================================================
