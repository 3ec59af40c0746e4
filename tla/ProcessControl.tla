--------------------------- MODULE ProcessControl ---------------------------
(***************************************************************************)
(* Fork, Wait, Exit and Delay (trapHandlers.c, processControlBlock.c) over *)
(* the scheduler.  Every process may make any of these calls at any time   *)
(* it is in user mode, or be killed for a program error.                   *)
(*                                                                         *)
(* Three history variables record what the calls told the programs:        *)
(* forked[p], the pids Fork returned to p; exitLog[p], the exits of p's    *)
(* children in the order they happened; waitLog[p], what Wait returned.    *)
(***************************************************************************)
EXTENDS Scheduling

CONSTANTS MaxDelay,       \* bound: the longest Delay a process asks for
          ExitStatuses    \* statuses a process passes to Exit

ASSUME ProcessControlAssumption == /\ MaxDelay \in Nat
                                   /\ ExitStatuses \subseteq Int

VARIABLES forked, exitLog, waitLog

histVars == <<forked, exitLog, waitLog>>
procVars == <<queue, isIdleRunning, lastClockTickPID, nextPid,
              processExitingNow, pcb, machine, forked, exitLog, waitLog>>

ExitReport == [pid : UserPids, exitType : ExitStatuses \cup {ERROR}]

TermOrNone == Terminals \cup {NoTerminal}

PCB == [delay : Nat, isWaiting : BOOLEAN, numChildren : Int,
        parentPid : UserPids \cup {ORPHAN_PARENT_PID},
        isWriting : TermOrNone, isWaitReading : TermOrNone,
        isWaitWriting : TermOrNone, exitQ : Seq(ExitReport),
        savedContext : Continuations]

-----------------------------------------------------------------------------
(* Fork *)

\* createNewProcess puts the child at the head of the list; the copied kernel
\* stack makes parent and child resume at the same point of the handler, the
\* child first.  Running out of frames or of pids changes nothing.
Fork ==
  /\ SystemCall
  /\ nextPid <= MaxPid
  /\ LET inFork == [at |-> "fork", arg |-> nextPid]
         parent == [pcb[Current] EXCEPT !.numChildren = @ + 1,
                                        !.savedContext = inFork]
     IN pcb' = [p \in DOMAIN pcb \cup {nextPid} |->
                  CASE p = nextPid -> NewPCB(Current, inFork)
                    [] p = Current -> parent
                    [] OTHER -> pcb[p]]
  /\ queue' = <<nextPid>> \o queue
  /\ nextPid' = nextPid + 1
  /\ UNCHANGED <<isIdleRunning, lastClockTickPID, processExitingNow, machine,
                 forked, exitLog, waitLog>>

\* Faulty variant: both processes see the 0 that is the child's result.
ForkReturns_BothAsChild ==
  /\ KernelMode
  /\ pcb[Current].savedContext.at = "fork"
  /\ BackToUser(pcb)
  /\ UNCHANGED <<queue, isIdleRunning, lastClockTickPID, nextPid, machine,
                 forked, exitLog, waitLog>>

\* The tail of the handler, in the child (which gets 0) and in the parent.
ForkReturns ==
  /\ KernelMode
  /\ pcb[Current].savedContext.at = "fork"
  /\ LET child == pcb[Current].savedContext.arg
     IN forked' = IF Current = child THEN forked
                  ELSE [forked EXCEPT ![Current] = @ \cup {child}]
  /\ BackToUser(pcb)
  /\ UNCHANGED <<queue, isIdleRunning, lastClockTickPID, nextPid, machine,
                 exitLog, waitLog>>

-----------------------------------------------------------------------------
(* Wait *)

\* popChildExitNode and the return to the caller.  An empty queue is a NULL
\* dereference in the kernel.
Reap ==
  /\ IF pcb[Current].exitQ = << >>
     THEN /\ machine' = "faulted"
          /\ UNCHANGED <<pcb, processExitingNow, waitLog>>
     ELSE /\ BackToUser([pcb EXCEPT ![Current].exitQ = Tail(@)])
          /\ waitLog' = [waitLog EXCEPT
                           ![Current] = Append(@, Head(pcb[Current].exitQ))]
          /\ UNCHANGED machine
  /\ UNCHANGED <<queue, isIdleRunning, lastClockTickPID, nextPid,
                 forked, exitLog>>

\* No child and nothing to collect: Wait returns ERROR.
WaitFails == /\ SystemCall
             /\ pcb[Current].numChildren = 0
             /\ pcb[Current].exitQ = << >>
             /\ UNCHANGED procVars

WaitCollects == /\ SystemCall
                /\ pcb[Current].exitQ # << >>
                /\ Reap

WaitBlocks ==
  /\ SystemCall
  /\ pcb[Current].numChildren # 0
  /\ pcb[Current].exitQ = << >>
  /\ Schedule([pcb EXCEPT ![Current].isWaiting = TRUE],
              [at |-> "wait", arg |-> 0])
  /\ UNCHANGED <<lastClockTickPID, nextPid, processExitingNow, machine,
                 forked, exitLog, waitLog>>

\* Back from scheduleProcess: whoever cleared isWaiting left a report.
WaitResumes == /\ KernelMode
               /\ pcb[Current].savedContext.at = "wait"
               /\ Reap

-----------------------------------------------------------------------------
(* Exit, and the traps that kill a process *)

\* Faulty variants: the count is not kept, the parent is not woken, the report
\* is put before the earlier ones.
ReportExit_KeepsCount(r, pid, exitType) ==
  [r EXCEPT !.isWaiting = FALSE,
            !.exitQ = Append(@, [pid |-> pid, exitType |-> exitType])]
ReportExit_NoWakeup(r, pid, exitType) ==
  [r EXCEPT !.numChildren = @ - 1,
            !.exitQ = Append(@, [pid |-> pid, exitType |-> exitType])]
ReportExit_Prepends(r, pid, exitType) ==
  [r EXCEPT !.numChildren = @ - 1,
            !.isWaiting = FALSE,
            !.exitQ = <<[pid |-> pid, exitType |-> exitType]>> \o @]

\* What the exit of pid with status exitType tells its parent.
ReportExit(r, pid, exitType) ==
  [r EXCEPT !.numChildren = @ - 1,
            !.isWaiting = FALSE,
            !.exitQ = Append(@, [pid |-> pid, exitType |-> exitType])]

\* Faulty variant: the children keep the pid of their dead parent.
AfterExit_NoOrphans(exitType) ==
  [p \in DOMAIN pcb |-> IF p = pcb[Current].parentPid
                        THEN ReportExit(pcb[p], Current, exitType)
                        ELSE pcb[p]]

\* The PCBs after the running process told its parent and orphaned its
\* children, all of which are on the list.
AfterExit(exitType) ==
  [p \in DOMAIN pcb |->
     CASE p = pcb[Current].parentPid ->
            ReportExit(pcb[p], Current, exitType)
       [] p \in Listed /\ pcb[p].parentPid = Current ->
            [pcb[p] EXCEPT !.parentPid = ORPHAN_PARENT_PID]
       [] OTHER -> pcb[p]]

\* getPCB finds no PCB for the parent: its NULL result is dereferenced.
ExitFaults ==
  /\ pcb[Current].parentPid \notin Listed \cup {ORPHAN_PARENT_PID}
  /\ machine' = "faulted"
  /\ UNCHANGED <<queue, isIdleRunning, lastClockTickPID, processExitingNow,
                 pcb, exitLog>>

\* removeExitingProcess: nobody else is left, or the process that exited
\* before has not been freed yet.
ExitHalts(exitType) ==
  /\ Len(queue) = 1 \/ processExitingNow # NULL
  /\ machine' = "halted"
  /\ pcb' = AfterExit(exitType)
  /\ UNCHANGED <<queue, isIdleRunning, lastClockTickPID, processExitingNow>>

ExitLeaves(exitType) ==
  /\ Len(queue) > 1 /\ processExitingNow = NULL
  /\ processExitingNow' = Current
  /\ pcb' = AfterExit(exitType)
  /\ ScheduleExit
  /\ UNCHANGED machine

Exit(exitType) ==
  /\ SystemCall
  /\ \/ ExitFaults
     \/ /\ pcb[Current].parentPid \in Listed \cup {ORPHAN_PARENT_PID}
        /\ ExitHalts(exitType) \/ ExitLeaves(exitType)
        /\ LET parent == pcb[Current].parentPid
           IN exitLog' = IF parent = ORPHAN_PARENT_PID THEN exitLog
                         ELSE [exitLog EXCEPT ![parent] = Append(@,
                                [pid |-> Current, exitType |-> exitType])]
  /\ UNCHANGED <<nextPid, forked, waitLog>>

ProgramError == Exit(ERROR)

-----------------------------------------------------------------------------
(* Delay *)

Delay(ticks) ==
  /\ SystemCall
  /\ ticks > 0
  /\ Schedule([pcb EXCEPT ![Head(queue)].delay = ticks], Returning)
  /\ UNCHANGED <<lastClockTickPID, nextPid, processExitingNow, machine,
                 forked, exitLog, waitLog>>

\* A negative delay is refused and Delay(0) returns at once.
DelayReturns(ticks) ==
  /\ SystemCall
  /\ ticks <= 0
  /\ pcb' = IF ticks < 0 THEN pcb
            ELSE [pcb EXCEPT ![Head(queue)].delay = ticks]
  /\ UNCHANGED <<queue, isIdleRunning, lastClockTickPID, nextPid,
                 processExitingNow, machine, forked, exitLog, waitLog>>

-----------------------------------------------------------------------------
Tick == ClockTick /\ UNCHANGED histVars

Resume == \/ ReturnFromTrap /\ UNCHANGED histVars
          \/ ForkReturns
          \/ WaitResumes

Stopped == machine # "running" /\ UNCHANGED procVars

ProcInit == /\ SchedInit
            /\ forked = [p \in UserPids |-> {}]
            /\ exitLog = [p \in UserPids |-> << >>]
            /\ waitLog = [p \in UserPids |-> << >>]

ProcNext == \/ Tick
            \/ Resume
            \/ Fork
            \/ WaitFails \/ WaitCollects \/ WaitBlocks
            \/ \E status \in ExitStatuses : Exit(status)
            \/ ProgramError
            \/ \E ticks \in -1 .. MaxDelay : Delay(ticks) \/ DelayReturns(ticks)
            \/ Stopped

ProcSpec == ProcInit /\ [][ProcNext]_procVars

\* The clock keeps interrupting user mode, and a handler that was switched
\* back to runs on.  No process is obliged to make a system call.
ProcFairSpec == ProcSpec /\ WF_procVars(Tick) /\ WF_procVars(Resume)

-----------------------------------------------------------------------------
(* Properties.                                                             *)

\* Every variable has the type the code gives it.
TypeOK ==
  /\ queue \in Seq(UserPids) /\ queue # << >>
  /\ isIdleRunning \in BOOLEAN
  /\ lastClockTickPID \in Pids \cup {-1}
  /\ nextPid \in 2 .. MaxPid + 1
  /\ processExitingNow \in UserPids \cup {NULL}
  /\ IDLE_PID \in DOMAIN pcb /\ DOMAIN pcb \subseteq Pids
  /\ pcb \in [DOMAIN pcb -> PCB]
  /\ machine \in {"running", "halted", "faulted"}
  /\ forked \in [UserPids -> SUBSET UserPids]
  /\ exitLog \in [UserPids -> Seq(ExitReport)]
  /\ waitLog \in [UserPids -> Seq(ExitReport)]

\* Every allocated PCB is idle's, or on the list exactly once, or the one
\* that removeExitingProcess took off the list and nobody freed yet: rotating
\* the list, inserting at its head and removing the head lose no process.
NoLostProcess ==
  /\ \A i, j \in 1 .. Len(queue) : queue[i] = queue[j] => i = j
  /\ processExitingNow \notin Listed
  /\ DOMAIN pcb = {IDLE_PID} \cup Listed \cup ({processExitingNow} \ {NULL})

\* Only processes the kernel left suspended have a continuation to resume, so
\* no process but the running one is in user mode.
OneInUserMode ==
  \A p \in DOMAIN pcb \ {Current} : pcb[p].savedContext # InUserMode
                                    \/ p = processExitingNow

\* The parent an exiting process would report to is always there to be found
\* by getPCB, which looks at the list only (trapHandlers.c:314-327).
ParentAlive ==
  \A p \in Listed : pcb[p].parentPid \in Listed \cup {ORPHAN_PARENT_PID}

\* numChildren, kept by increments in fork and decrements in exit, is the
\* number of live children (processControlBlock.h:15).
ChildCountExact ==
  \A p \in Listed :
    pcb[p].numChildren = Cardinality({c \in Listed : pcb[c].parentPid = p})

\* A process inside Wait is either blocked with a live child that will wake
\* it, or unblocked with a report to collect: no wakeup is lost and
\* popChildExitNode never sees an empty queue.
WaitIsWokenByReport ==
  \A p \in Listed :
    pcb[p].savedContext.at = "wait" =>
      IF pcb[p].isWaiting THEN pcb[p].exitQ = << >> /\ pcb[p].numChildren > 0
                          ELSE pcb[p].exitQ # << >>

\* What Wait returned to a live process and what it has still to return are,
\* in order, the exits of its children: none lost, repeated or overtaken.
ReportsInOrder == \A p \in Listed : exitLog[p] = waitLog[p] \o pcb[p].exitQ

\* Wait returns only pids that Fork returned to the same process before.
WaitReturnsOwnChild ==
  \A p \in UserPids : {waitLog[p][i].pid : i \in 1 .. Len(waitLog[p])}
                        \subseteq forked[p]

\* The exited process is freed by the first thing that runs after it, idle's
\* way out of the kernel; so removeExitingProcess never finds an earlier one
\* waiting to be freed (processScheduling.c:162-167).
ExitingIsFreedFirst ==
  processExitingNow # NULL => isIdleRunning /\ (KernelMode \/ machine # "running")

\* The kernel dereferences no NULL and halts only when the last process exits.
HaltsOnlyWithLastExit ==
  machine # "running" => machine = "halted" /\ Len(queue) = 1

\* A blocked process never has the CPU: each of the places that block one
\* gives the CPU away before user mode is reached.
RunningIsReady == ~isIdleRunning => ~IsBlocked(pcb[Head(queue)])

Runs(p) == Current = p /\ UserMode

\* A process that could run eventually does, whatever the others do with
\* their time: round robin over the list, ticks and idle included.
ReadyRuns ==
  \A p \in UserPids : (p \in Listed /\ ~IsBlocked(pcb[p]))
                          ~> (machine # "running" \/ Runs(p))

\* Every Delay ends and its caller runs again.
DelayEnds ==
  \A p \in UserPids : (p \in Listed /\ pcb[p].delay > 0)
                          ~> (machine # "running" \/ Runs(p))

\* A report appended to the queue of a process inside Wait is returned to it.
ReportIsCollected ==
  \A p \in UserPids :
    (p \in Listed /\ pcb[p].savedContext.at = "wait" /\ pcb[p].exitQ # << >>)
      ~> (machine # "running" \/ (Runs(p) /\ waitLog[p] # << >>))
=============================================================================
