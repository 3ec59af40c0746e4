-------------------------- MODULE MCProcessControl --------------------------
(* Small instances of the process table for TLC. *)
EXTENDS ProcessRefinement

OneTerminal == {0}

\* The status of a program error, ERROR, is added to these by the modules.
OneStatus == {0}
=============================================================================
