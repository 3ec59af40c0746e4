-------------------------- MODULE ProcessRefinement --------------------------
(***************************************************************************)
(* The process table of ProcessControl implements ChildLifecycle: the list *)
(* holds the live processes, the PCBs their parents and exit queues.  When *)
(* the last process exits the kernel halts before taking it off the list.  *)
(***************************************************************************)
EXTENDS ProcessControl

LiveNow == IF machine = "halted" THEN {} ELSE Listed

ParentNow == [p \in UserPids |->
                IF p \in LiveNow THEN pcb[p].parentPid ELSE ORPHAN_PARENT_PID]

PendingNow == [p \in UserPids |->
                 IF p \in LiveNow THEN pcb[p].exitQ ELSE << >>]

Lifecycle == INSTANCE ChildLifecycle
               WITH Processes <- UserPids,
                    FirstProcess <- INIT_PID,
                    NoParent <- ORPHAN_PARENT_PID,
                    Statuses <- ExitStatuses \cup {ERROR},
                    born <- 1 .. nextPid - 1,
                    live <- LiveNow,
                    parent <- ParentNow,
                    pending <- PendingNow

\* Whatever the scheduler does in between, every step of the kernel is a birth,
\* a death with all its consequences, the collection of the oldest exit of the
\* caller's children, or changes nothing of this.
ImplementsLifecycle == Lifecycle!Spec
=============================================================================
