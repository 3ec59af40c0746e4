------------------------------ MODULE MCIdleTurn ------------------------------
(* A small instance of IdleTurn for TLC. *)
EXTENDS IdleTurn

OneTerminal == {0}
NoStatus == {}
EmptyLine == {<<Newline>>}
OneText == {<<"x">>}

\* What malloc may leave in count: nothing, or one less or one more than that.
UnsetCounts == {-1, 0, 1}
=============================================================================
