------------------------------ MODULE MCMemory ------------------------------
(* Small instances of memory and boot for TLC. *)
EXTENDS MemoryRefinement

Small == [text |-> 1, data |-> 1, stack |-> 1]
Wide == [text |-> 2, data |-> 1, stack |-> 2]

OneProgram == {Small}
TwoPrograms == {Small, Wide}
\* The frame array is clear, or a word past the cleared part is not 0.
ClearOrNot == {{}, {12}}

NoMarks == {{}}
=============================================================================
