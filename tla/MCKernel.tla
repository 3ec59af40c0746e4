------------------------------ MODULE MCKernel ------------------------------
(* A small instance of the whole kernel for TLC. *)
EXTENDS Kernel

OneTerminal == {0}
OneStatus == {0}

Small == [text |-> 1, data |-> 1, stack |-> 1]
OneProgram == {Small}
NoMarks == {{}}
=============================================================================
