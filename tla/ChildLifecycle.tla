--------------------------- MODULE ChildLifecycle ---------------------------
(***************************************************************************)
(* What Fork, Exit and Wait promise to programs, with no scheduler and no  *)
(* process table: a process is born once, exits once, and its exit is      *)
(* collected at most once, by its parent, in the order the parent's        *)
(* children exited.  A parent that exits takes what it did not collect     *)
(* with it and leaves its children without a parent.                       *)
(***************************************************************************)
EXTENDS Integers, Sequences

CONSTANTS Processes, FirstProcess, NoParent, Statuses

VARIABLES born,      \* the processes that ever existed
          live,      \* those that have not exited
          parent,    \* parent of each live process, NoParent otherwise
          pending    \* exits each live process has still to collect, oldest first

vars == <<born, live, parent, pending>>

Init == /\ born = {FirstProcess}
        /\ live = {FirstProcess}
        /\ parent = [p \in Processes |-> NoParent]
        /\ pending = [p \in Processes |-> << >>]

Birth(p, child) ==
  /\ p \in live /\ child \in Processes \ born
  /\ born' = born \cup {child}
  /\ live' = live \cup {child}
  /\ parent' = [parent EXCEPT ![child] = p]
  /\ UNCHANGED pending

Death(p, status) ==
  /\ p \in live
  /\ live' = live \ {p}
  /\ parent' = [c \in Processes |->
                  IF c = p \/ parent[c] = p THEN NoParent ELSE parent[c]]
  /\ pending' = [q \in Processes |->
                   CASE q = p -> << >>
                     [] q = parent[p] ->
                          Append(pending[q], [pid |-> p, exitType |-> status])
                     [] OTHER -> pending[q]]
  /\ UNCHANGED born

Collect(p) ==
  /\ p \in live /\ pending[p] # << >>
  /\ pending' = [pending EXCEPT ![p] = Tail(@)]
  /\ UNCHANGED <<born, live, parent>>

Next == \/ \E p, c \in Processes : Birth(p, c)
        \/ \E p \in Processes, s \in Statuses : Death(p, s)
        \/ \E p \in Processes : Collect(p)

Spec == Init /\ [][Next]_vars
=============================================================================
