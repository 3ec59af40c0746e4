----------------------------- MODULE Scheduling -----------------------------
(***************************************************************************)
(* The process scheduler of the Yalnix kernel (processScheduling.c,        *)
(* contextSwitch.c and clockTrapHandler of trapHandlers.c).                *)
(*                                                                         *)
(* A trap handler runs with interrupts off.  It is one atomic step up to a *)
(* ContextSwitch; what the handler still has to do when its process gets   *)
(* the CPU back is the process's continuation, kept in the savedContext    *)
(* field of its PCB, and is a step of its own.  Traps and interrupts are   *)
(* taken only while the running process is in user mode, that is while its *)
(* continuation is InUserMode.                                             *)
(***************************************************************************)
EXTENDS Integers, Sequences, FiniteSets

CONSTANTS MaxPid,      \* bound: the largest pid fork hands out
          Terminals    \* the terminal numbers

ASSUME SchedulingAssumption == /\ MaxPid \in Nat \ {0}
                               /\ Terminals \subseteq Nat

IDLE_PID == 0
INIT_PID == 1
ORPHAN_PARENT_PID == -1
ERROR == -1
NULL == -1             \* no process: processExitingNow == NULL
NoTerminal == -1       \* isWriting, isWaitReading or isWaitWriting unset

UserPids == 1 .. MaxPid
Pids == {IDLE_PID} \cup UserPids

VARIABLES
  queue,             \* pids on the list that starts at head, head first
  isIdleRunning,
  lastClockTickPID,
  nextPid,
  processExitingNow,
  pcb,               \* the allocated process control blocks, by pid
  machine            \* "running", "halted" (Halt()), "faulted" (NULL used)

schedVars == <<queue, isIdleRunning, lastClockTickPID, nextPid,
               processExitingNow, pcb, machine>>

-----------------------------------------------------------------------------
(* Continuations: where a process resumes when it is switched to.          *)

InUserMode == [at |-> "user", arg |-> 0]
Returning == [at |-> "return", arg |-> 0]    \* nothing left but to return

Continuations == [at : {"user", "return", "wait"}, arg : {0}]
                   \cup [at : {"fork"}, arg : UserPids]
                   \cup [at : {"read", "write"}, arg : Terminals]

NewPCB(parent, context) ==
  [delay |-> 0, isWaiting |-> FALSE, numChildren |-> 0, parentPid |-> parent,
   isWriting |-> NoTerminal, isWaitReading |-> NoTerminal,
   isWaitWriting |-> NoTerminal, exitQ |-> << >>, savedContext |-> context]

-----------------------------------------------------------------------------
(* Who runs, who is blocked.                                               *)

Listed == {queue[i] : i \in 1 .. Len(queue)}

Current == IF isIdleRunning THEN IDLE_PID ELSE Head(queue)

\* Faulty variant: a process inside Wait counts as runnable.
IsBlocked_ForgetsWait(r) == r.delay > 0

IsBlocked(r) == \/ r.delay > 0
                \/ r.isWaiting
                \/ r.isWriting # NoTerminal
                \/ r.isWaitReading # NoTerminal
                \/ r.isWaitWriting # NoTerminal

UserMode == machine = "running" /\ pcb[Current].savedContext = InUserMode
KernelMode == machine = "running" /\ pcb[Current].savedContext # InUserMode

\* A system call can come from any process but idle, whose program only
\* executes Pause.
SystemCall == UserMode /\ Current # IDLE_PID

-----------------------------------------------------------------------------
(* scheduleProcess                                                         *)

\* Faulty variants: the node before the chosen one is dropped; the chosen one
\* is moved to the front and nobody to the back.
Rotate_DropsNode(q, i) == SubSeq(q, i, Len(q)) \o SubSeq(q, 1, i - 2)
Rotate_MovesToFront(q, i) ==
  <<q[i]>> \o SubSeq(q, 1, i - 1) \o SubSeq(q, i + 1, Len(q))

\* The list after its head was moved to its tail until position i was first.
Rotate(q, i) == SubSeq(q, i, Len(q)) \o SubSeq(q, 1, i - 1)

\* Positions behind the head whose process could run, given the PCBs P.
ReadyBehindHead_AnyState(P) == 2 .. Len(queue)   \* faulty variant
ReadyBehindHead(P) == {i \in 2 .. Len(queue) : ~IsBlocked(P[queue[i]])}

\* Idle gives way to a head that got unblocked meanwhile.
HeadTakesOverFromIdle_Never(P) == FALSE           \* faulty variant
HeadTakesOverFromIdle(P) == isIdleRunning /\ ~IsBlocked(P[Head(queue)])

SwitchToHead(P) == /\ HeadTakesOverFromIdle(P)
                   /\ isIdleRunning' = FALSE
                   /\ UNCHANGED queue

SwitchBehindHead(P) == /\ ~HeadTakesOverFromIdle(P)
                       /\ \E i \in ReadyBehindHead(P) :
                            /\ \A j \in ReadyBehindHead(P) : i <= j
                            /\ queue' = Rotate(queue, i)
                       /\ isIdleRunning' = FALSE

KeepOrIdle(P) == /\ ~HeadTakesOverFromIdle(P)
                 /\ ReadyBehindHead(P) = {}
                 /\ isIdleRunning' = (isIdleRunning \/ IsBlocked(P[Head(queue)]))
                 /\ UNCHANGED queue

\* scheduleProcess(0), called by the running process when the PCBs are P; it
\* continues at k when it runs again, which is at once if nobody else can.
Schedule(P, k) == /\ SwitchToHead(P) \/ SwitchBehindHead(P) \/ KeepOrIdle(P)
                  /\ pcb' = [P EXCEPT ![Current].savedContext = k]

\* scheduleProcess(1): the head leaves the list for good and idle runs.
ScheduleExit_KeepsLastTick ==                     \* faulty variant
  queue' = Tail(queue) /\ isIdleRunning' = TRUE /\ UNCHANGED lastClockTickPID
ScheduleExit == /\ queue' = Tail(queue)
                /\ isIdleRunning' = TRUE
                /\ lastClockTickPID' = IDLE_PID

-----------------------------------------------------------------------------
(* The clock interrupt.                                                    *)

\* Faulty variant: delays of 0 are decremented too.
DecreaseDelay_BelowZero ==
  [p \in DOMAIN pcb |-> IF p \in Listed
                        THEN [pcb[p] EXCEPT !.delay = @ - 1] ELSE pcb[p]]

DecreaseDelay == [p \in DOMAIN pcb |->
                    IF p \in Listed /\ pcb[p].delay > 0
                    THEN [pcb[p] EXCEPT !.delay = @ - 1] ELSE pcb[p]]

WasZeroed == \E p \in Listed : pcb[p].delay = 1

ClockTick ==
  /\ UserMode
  /\ lastClockTickPID' = Current
  /\ IF lastClockTickPID = Current \/ (WasZeroed /\ Current = IDLE_PID)
     THEN Schedule(DecreaseDelay, Returning)
     ELSE pcb' = DecreaseDelay /\ UNCHANGED <<queue, isIdleRunning>>
  /\ UNCHANGED <<nextPid, processExitingNow, machine>>

-----------------------------------------------------------------------------
(* The end of ContextSwitch, in the process switched to.                   *)

\* tryFreeSwitchedAwayExitingProcess: the PCBs that are left of P.
FreeExiting(P) == [p \in DOMAIN P \ {processExitingNow} |-> P[p]]

\* Faulty variant: the exited process stays recorded as exiting.
BackToUser_KeepsExiting(P) ==
  /\ pcb' = FreeExiting([P EXCEPT ![Current].savedContext = InUserMode])
  /\ UNCHANGED processExitingNow

\* The running process leaves the kernel with the PCBs P.
BackToUser(P) ==
  /\ pcb' = FreeExiting([P EXCEPT ![Current].savedContext = InUserMode])
  /\ processExitingNow' = NULL

ReturnFromTrap == /\ KernelMode
                  /\ pcb[Current].savedContext = Returning
                  /\ BackToUser(pcb)
                  /\ UNCHANGED <<queue, isIdleRunning, lastClockTickPID,
                                 nextPid, machine>>

-----------------------------------------------------------------------------
(* After KernelStart: init is loaded and about to run, alone on the list;  *)
(* idle is suspended in KernelStart, where it was cloned.                  *)

SchedInit ==
  /\ queue = <<INIT_PID>>
  /\ isIdleRunning = FALSE
  /\ lastClockTickPID = -1
  /\ nextPid = 2
  /\ processExitingNow = NULL
  /\ pcb = [p \in {IDLE_PID, INIT_PID} |->
              NewPCB(ORPHAN_PARENT_PID,
                     IF p = IDLE_PID THEN Returning ELSE InUserMode)]
  /\ machine = "running"
=============================================================================
