----------------------------- MODULE MCTerminals -----------------------------
(* Small instances of the terminals for TLC. *)
EXTENDS Terminals

OneTerminal == {0}
TwoTerminals == {0, 1}
OneStatus == {0}
NoStatus == {}

OneLine == {<<"a", Newline>>}
TwoLines == {<<"a", Newline>>, <<"b", Newline>>}
OneText == {<<"x">>}
NoText == {}
EmptyLine == {<<Newline>>}
=============================================================================
