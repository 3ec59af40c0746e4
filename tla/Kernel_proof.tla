---------------------------- MODULE Kernel_proof ----------------------------
(***************************************************************************)
(* Proofs about Kernel: what the process table and the memory know of each *)
(* other, for all values of the constants.                                 *)
(***************************************************************************)
EXTENDS Kernel, ProcessControl_proof

-----------------------------------------------------------------------------
(* The inductive invariant.                                                *)

\* Boot copies idle into init's space before the first handler runs.
SpacesDuringBoot ==
  (stage # "up" /\ machine = "running")
    => /\ DOMAIN pcb = {IDLE_PID, INIT_PID} /\ processExitingNow = NULL
       /\ exiting = NULL
       /\ DOMAIN space = IF stage = "loadInit" THEN {IDLE_PID, INIT_PID}
                                               ELSE {IDLE_PID}

StageOK == stage \in {"loadIdle", "clone", "loadInit", "up"}

\* A machine that runs has a memory that goes on.
HaltsTogether == (machine = "running" <=> halt = "no") /\ OnlyMemoryStops

\* What the two halves of the kernel know of each other.
Joined == /\ StageOK
          /\ SpacesDuringBoot
          /\ SpacesMatch
          /\ HaltsTogether

KernelInv == IInv /\ Joined

-----------------------------------------------------------------------------
(* The process table in a kernel with memory.                              *)

\* A machine that halts in the middle of a handler leaves the table sound.
LEMMA MachineHaltsStep == IInv /\ MachineHalts => IInv'
<1> SUFFICES ASSUME IInv, MachineHalts PROVE IInv'
  OBVIOUS
<1> USE DEF IInv, MachineHalts
<1>1. Listed' = Listed /\ Current' = Current
  BY DEF Listed, Current
<1>2. TypeOK' /\ NoLostProcess'
  BY <1>1 DEF TypeOK, NoLostProcess
<1>3. OneInUserMode' /\ ParentAlive' /\ ChildCountExact' /\ WaitIsWokenByReport'
  BY <1>1 DEF OneInUserMode, ParentAlive, ChildCountExact, WaitIsWokenByReport
<1>4. ReportsInOrder' /\ RunnerAwake'
  BY <1>1 DEF ReportsInOrder, RunnerAwake
<1>5. ExitingIsFreedFirst'
  BY <1>1 DEF ExitingIsFreedFirst, KernelMode
<1>6. Auxiliary'
  BY <1>1 DEF Auxiliary
<1> QED BY <1>2, <1>3, <1>4, <1>5, <1>6

\* Every step of the kernel is one of the process table, leaves it alone, or
\* halts the machine.
LEMMA KernelTableStep == IInv /\ [KernelNext]_kernelVars => IInv'
<1> SUFFICES ASSUME IInv, [KernelNext]_kernelVars PROVE IInv'
  OBVIOUS
<1>1. \A status \in ExitStatuses \cup {ERROR} : Exit(status) => IInv'
  BY ExitStep
<1>2. ProgramError => IInv'
  BY <1>1 DEF ProgramError
<1>3. ProcessesUntouched => IInv'
  BY StutterStep DEF ProcessesUntouched
<1>4. MachineHalts => IInv'
  BY MachineHaltsStep
<1>5. Fork => IInv'
  BY ForkStep
<1>6. Resume \/ Tick => IInv'
  BY NextStep DEF ProcNext
<1>7. WaitFails \/ WaitCollects \/ WaitBlocks => IInv'
  BY NextStep DEF ProcNext
<1>8. \A ticks \in -1 .. MaxDelay : Delay(ticks) \/ DelayReturns(ticks) => IInv'
  BY NextStep DEF ProcNext
<1>10. CASE BootSteps
  BY <1>10, <1>3, <1>4 DEF BootSteps
<1>11. CASE KernelFork
  BY <1>11, <1>3, <1>4, <1>5 DEF KernelFork
<1>12. CASE KernelExec
  BY <1>12, <1>2, <1>3, <1>4 DEF KernelExec
<1>13. CASE KernelExit
  BY <1>13, <1>1, <1>4 DEF KernelExit
<1>14. CASE KernelBrk
  BY <1>14, <1>3, <1>4 DEF KernelBrk
<1>15. CASE MemoryTrap
  BY <1>15, <1>2, <1>3, <1>4 DEF MemoryTrap
<1>16. CASE ReceiveTrap
  BY <1>16, <1>3, <1>4 DEF ReceiveTrap
<1>17. CASE KernelTick
  BY <1>17, <1>6 DEF KernelTick
<1>18. CASE KernelResume
  BY <1>18, <1>4, <1>6 DEF KernelResume
<1>19. CASE KernelWait
  BY <1>19, <1>7 DEF KernelWait
<1>20. CASE KernelDelay
  BY <1>20, <1>8 DEF KernelDelay
<1>21. CASE KernelStopped \/ UNCHANGED kernelVars
  BY <1>21, StutterStep DEF KernelStopped, kernelVars
<1> QED
  BY <1>10, <1>11, <1>12, <1>13, <1>14, <1>15, <1>16, <1>17, <1>18, <1>19, <1>20,
     <1>21 DEF KernelNext

-----------------------------------------------------------------------------
(* What the handlers do to the table of processes.                         *)

\* Which processes have a PCB after a step that is no fork and no exit.
SameTable == /\ DOMAIN pcb' = DOMAIN pcb
             /\ UNCHANGED <<processExitingNow, machine>>

\* A clock tick may switch, but takes no process away.
LEMMA TickKeepsTable == IInv /\ Tick => SameTable
<1> SUFFICES ASSUME IInv, Tick PROVE SameTable
  OBVIOUS
<1>1. DOMAIN DecreaseDelay = DOMAIN pcb
  BY DEF DecreaseDelay
<1>2. CASE Schedule(DecreaseDelay, Returning)
  <2>1. pcb' = [DecreaseDelay EXCEPT ![Current].savedContext = Returning]
    BY <1>2 DEF Schedule
  <2> QED BY <1>1, <2>1 DEF SameTable, Tick, ClockTick
<1>3. CASE pcb' = DecreaseDelay
  BY <1>1, <1>3 DEF SameTable, Tick, ClockTick
<1> QED BY <1>2, <1>3 DEF Tick, ClockTick

\* Nor does Delay.
LEMMA DelayKeepsTable ==
  ASSUME IInv, NEW ticks \in -1 .. MaxDelay, Delay(ticks) \/ DelayReturns(ticks)
  PROVE  SameTable
<1>1. CASE Delay(ticks)
  BY <1>1 DEF Delay, Schedule, SameTable
<1>2. CASE DelayReturns(ticks)
  BY <1>2 DEF DelayReturns, SameTable
<1> QED BY <1>1, <1>2

\* The way back to user mode frees the exited process, if there is one, and
\* nothing else.
LEMMA BackKeepsTable ==
  ASSUME IInv, NEW P, DOMAIN P = DOMAIN pcb, BackToUser(P)
  PROVE  /\ DOMAIN pcb' = DOMAIN pcb \ {processExitingNow}
         /\ processExitingNow' = NULL
         /\ processExitingNow = NULL => DOMAIN pcb' = DOMAIN pcb
<1>1. DOMAIN pcb' = DOMAIN pcb \ {processExitingNow}
  BY DEF BackToUser, FreeExiting
<1>2. NULL \notin DOMAIN pcb
  BY DEF IInv, TypeOK, NULL, Pids, UserPids, IDLE_PID
<1> QED BY <1>1, <1>2 DEF BackToUser

\* Wait takes no process away, whatever it finds.
LEMMA WaitKeepsTable ==
  ASSUME IInv, WaitFails \/ WaitCollects \/ WaitBlocks PROVE SameTable
<1>1. CASE WaitFails
  BY <1>1 DEF WaitFails, procVars, SameTable
<1>2. CASE WaitCollects
  <2> DEFINE P == [pcb EXCEPT ![Current].exitQ = Tail(@)]
  <2>1. BackToUser(P) /\ machine' = machine /\ DOMAIN P = DOMAIN pcb
    BY <1>2 DEF WaitCollects, Reap
  <2>2. processExitingNow = NULL
    BY <1>2, UserModeFacts DEF WaitCollects, SystemCall, UserMode
  <2> HIDE DEF P
  <2> QED BY <2>1, <2>2, BackKeepsTable DEF SameTable
<1>3. CASE WaitBlocks
  BY <1>3 DEF WaitBlocks, Schedule, SameTable
<1> QED BY <1>1, <1>2, <1>3

\* A process that comes back from a ContextSwitch frees the exited one.
LEMMA ResumeFreesTable ==
  ASSUME IInv, Resume
  PROVE  /\ DOMAIN pcb' = DOMAIN pcb \ {processExitingNow}
         /\ processExitingNow' = NULL
         /\ processExitingNow = NULL => DOMAIN pcb' = DOMAIN pcb
         /\ machine' = machine
<1>1. CASE ReturnFromTrap
  BY <1>1, BackKeepsTable DEF ReturnFromTrap
<1>2. CASE ForkReturns
  BY <1>2, BackKeepsTable DEF ForkReturns
<1>3. CASE WaitResumes
  <2> DEFINE P == [pcb EXCEPT ![Current].exitQ = Tail(@)]
  <2>1. pcb[Current].exitQ # << >>
    BY <1>3, WaiterFindsReport DEF WaitResumes
  <2>2. BackToUser(P) /\ machine' = machine /\ DOMAIN P = DOMAIN pcb
    BY <1>3, <2>1 DEF WaitResumes, Reap
  <2> HIDE DEF P
  <2> QED BY <2>2, BackKeepsTable
<1> QED BY <1>1, <1>2, <1>3 DEF Resume

\* The running process that makes a system call is on the list, and is alone on
\* it exactly when it and idle are all there is.
LEMMA CallerIsListed ==
  ASSUME IInv, SystemCall
  PROVE  /\ machine = "running" /\ processExitingNow = NULL
         /\ Current \in UserPids /\ Current \in DOMAIN pcb
         /\ Current \in Listed /\ Current # IDLE_PID
         /\ DOMAIN pcb = {IDLE_PID, Current} <=> Len(queue) = 1
<1>1. /\ machine = "running" /\ processExitingNow = NULL /\ Current # IDLE_PID
      /\ DOMAIN pcb = {IDLE_PID} \cup Listed
  BY UserModeFacts DEF SystemCall, UserMode
<1>2. /\ Current = Head(queue) /\ Head(queue) = queue[1] /\ 1 \in 1 .. Len(queue)
      /\ Current \in Listed /\ Current \in UserPids
      /\ IDLE_PID \notin UserPids /\ Listed \subseteq UserPids
  BY <1>1, CurrentIsKnown DEF IInv
<1> DEFINE self == Current
<1> HIDE DEF self
<1>3. /\ Len(queue) \in Nat
      /\ \A i, j \in 1 .. Len(queue) : queue[i] = queue[j] => i = j
  BY DEF IInv, TypeOK, NoLostProcess
<1>4. ASSUME Len(queue) = 1 PROVE Listed = {self}
  BY <1>2, <1>4 DEF Listed, self
<1>5. ASSUME Listed = {self} PROVE Len(queue) = 1
  <2> SUFFICES ASSUME Len(queue) # 1 PROVE FALSE
    OBVIOUS
  <2>1. 2 \in 1 .. Len(queue)
    BY <1>2, <1>3
  <2>2. queue[2] \in Listed /\ queue[1] \in Listed
    BY <1>2, <2>1 DEF Listed
  <2> QED BY <1>2, <1>3, <1>5, <2>1, <2>2
<1>6. self \in Listed /\ IDLE_PID \notin Listed
  BY <1>2 DEF self
<1>7. {IDLE_PID} \cup Listed = {IDLE_PID, self} <=> Listed = {self}
  BY <1>6
<1> QED BY <1>1, <1>2, <1>4, <1>5, <1>7 DEF self

\* An exit takes a process off the list, or is the last and halts the machine.
LEMMA ExitKeepsTable ==
  ASSUME IInv, NEW status \in ExitStatuses \cup {ERROR}, Exit(status)
  PROVE  /\ DOMAIN pcb' = DOMAIN pcb
         /\ Len(queue) = 1 => machine' = "halted" /\ Len(queue') = 1
         /\ Len(queue) # 1 => machine' = machine /\ processExitingNow' = Current
<1>1. SystemCall
  BY DEF Exit
<1>2. /\ Current \in Listed /\ processExitingNow = NULL
      /\ Len(queue) \in Nat /\ queue # << >>
  BY <1>1, CallerIsListed DEF IInv, TypeOK
<1>3. pcb[Current].parentPid \in Listed \cup {ORPHAN_PARENT_PID}
  BY <1>2 DEF IInv, ParentAlive
<1>4. ExitHalts(status) \/ ExitLeaves(status)
  BY <1>3 DEF Exit, ExitFaults
<1>5. DOMAIN AfterExit(status) = DOMAIN pcb
  BY DEF AfterExit
<1>6. CASE ExitHalts(status)
  <2>1. Len(queue) = 1
    BY <1>2, <1>6 DEF ExitHalts
  <2> QED BY <1>5, <1>6, <2>1 DEF ExitHalts
<1>7. CASE ExitLeaves(status)
  <2>1. /\ Len(queue) > 1 /\ machine' = machine
        /\ processExitingNow' = Current /\ pcb' = AfterExit(status)
    BY <1>7 DEF ExitLeaves
  <2>2. \A n \in Nat : n > 1 => n # 1
    OBVIOUS
  <2>3. Len(queue) # 1
    BY <1>2, <2>1, <2>2
  <2> QED BY <1>5, <2>1, <2>3
<1> QED BY <1>4, <1>6, <1>7

-----------------------------------------------------------------------------
(* What the handlers do to the address spaces.                             *)

\* Which processes have an address space after a step that is no fork and
\* frees nothing, and that goes on.
SameSpaces == DOMAIN space' = DOMAIN space /\ UNCHANGED <<exiting, halt>>

\* The machine halts for want of memory, or goes on in a way nobody knows.
Stops == halt' \in {"malloc", "heapAtTables", "frames", "heapOverwritten",
                    "highFrame", "freedTwice", "noInit"}

\* What the memory does when process p exits.
SpaceLeaves(p) == /\ DOMAIN space' = DOMAIN space
                  /\ M!Leaves(p)

\* Loading a program replaces pages and no address space.
LEMMA LoadKeepsSpaces ==
  ASSUME NEW p, NEW prog, NEW n, M!LoadReplaces(p, prog, n)
  PROVE  DOMAIN space' = DOMAIN space
BY DEF M!LoadReplaces

\* The ways a handler halts for want of memory.
LEMMA HandlersStop ==
  ASSUME NEW p, NEW prog, NEW n, NEW page,
         \/ M!ForkStops(p, n) \/ M!ExecStops(p, prog, n) \/ M!ExitStops(p, n)
         \/ M!BrkStops(p, page) \/ M!AccessStops(p, page, n) \/ M!ReceiveStops(n)
         \/ M!FreePageTableStops(p)
  PROVE  Stops
<1>1. CASE M!ForkStops(p, n)
  BY <1>1 DEF M!ForkStops, M!CloneStops, M!MallocStops, M!Stop, Stops
<1>2. CASE M!ExecStops(p, prog, n)
  BY <1>2 DEF M!ExecStops, M!LoadStops, M!MallocStops, M!Stop, Stops
<1>3. CASE M!ExitStops(p, n) \/ M!AccessStops(p, page, n) \/ M!ReceiveStops(n)
  BY <1>3 DEF M!ExitStops, M!AccessStops, M!ReceiveStops, M!MallocStops, M!Stop,
              Stops
<1>4. CASE M!BrkStops(p, page)
  BY <1>4 DEF M!BrkStops, M!Stop, Stops
<1>5. CASE M!FreePageTableStops(p)
  BY <1>5 DEF M!FreePageTableStops, M!Stop, Stops
<1> QED BY <1>1, <1>2, <1>3, <1>4, <1>5

\* The handlers that neither add nor remove an address space.
LEMMA HandlersKeepSpaces ==
  ASSUME NEW p, NEW prog, NEW n, NEW page,
         \/ M!ForkRefused(p) \/ M!ExecRefused(p, prog, n) \/ M!ExecLoads(p, prog, n)
         \/ M!BrkRefused(p, page) \/ M!BrkGrows(p, page) \/ M!BrkShrinks(p, page)
         \/ M!StackGrows(p, page) \/ M!ReceiveMallocs(n)
  PROVE  SameSpaces
<1>1. CASE M!ForkRefused(p) \/ M!BrkRefused(p, page) \/ M!ReceiveMallocs(n)
  BY <1>1 DEF M!ForkRefused, M!BrkRefused, M!ReceiveMallocs, M!memVars, SameSpaces
<1>2. CASE M!ExecRefused(p, prog, n)
  BY <1>2 DEF M!ExecRefused, M!LoadRefused, M!memVars, SameSpaces
<1>3. CASE M!ExecLoads(p, prog, n)
  BY <1>3, LoadKeepsSpaces DEF M!ExecLoads, SameSpaces
<1>4. CASE M!BrkGrows(p, page)
  BY <1>4 DEF M!BrkGrows, SameSpaces
<1>5. CASE M!BrkShrinks(p, page)
  BY <1>5 DEF M!BrkShrinks, SameSpaces
<1>6. CASE M!StackGrows(p, page)
  BY <1>6 DEF M!StackGrows, SameSpaces
<1> QED BY <1>1, <1>2, <1>3, <1>4, <1>5, <1>6

\* The exits: by Exit, by a fatal access, by an Exec that lost the old program.
LEMMA HandlersLeave ==
  ASSUME NEW p, NEW prog, NEW n, NEW page,
         M!Exit(p, n) \/ M!AccessKills(p, page, n) \/ M!ExecKills(p, prog, n)
  PROVE  SpaceLeaves(p)
<1>1. CASE M!Exit(p, n) \/ M!AccessKills(p, page, n)
  BY <1>1 DEF M!Exit, M!AccessKills, SpaceLeaves
<1>2. CASE M!ExecKills(p, prog, n)
  BY <1>2, LoadKeepsSpaces DEF M!ExecKills, SpaceLeaves
<1> QED BY <1>1, <1>2

\* A fork gives the child an address space, and may be the end.
LEMMA CloneAddsSpace ==
  ASSUME NEW p, NEW c, NEW n, M!CloneInto(p, c, n)
  PROVE  /\ DOMAIN space' = DOMAIN space \cup {c} /\ UNCHANGED exiting
         /\ halt' = halt \/ Stops
BY DEF M!CloneInto, Stops

\* Boot gives one to init, or stops.
LEMMA BootAddsInit ==
  ASSUME M!BootStep
  PROVE  \/ Stops /\ stage' \in {stage, "loadInit"}
         \/ stage = "loadIdle" /\ stage' = "clone" /\ SameSpaces
         \/ /\ stage = "clone" /\ stage' = "loadInit"
            /\ DOMAIN space' = DOMAIN space \cup {INIT_PID}
            /\ UNCHANGED <<exiting, halt>>
         \/ stage = "loadInit" /\ stage' = "up" /\ SameSpaces
<1>1. CASE M!LoadIdle
  <2>1. PICK n \in Growths :
          \/ /\ \/ UNCHANGED M!memVars
                \/ /\ M!LoadReplaces(M!IDLE_PID, IdleProgram, n)
                   /\ UNCHANGED <<exiting, halt>>
                \/ M!LoadRefused(M!IDLE_PID, IdleProgram, n)
             /\ stage' = "clone"
          \/ M!LoadStops(M!IDLE_PID, IdleProgram, n) /\ UNCHANGED stage
    BY <1>1 DEF M!LoadIdle
  <2>2. stage = "loadIdle"
    BY <1>1 DEF M!LoadIdle, M!At
  <2>3. CASE M!LoadStops(M!IDLE_PID, IdleProgram, n) /\ UNCHANGED stage
    BY <2>3 DEF M!LoadStops, M!MallocStops, M!Stop, Stops
  <2>4. CASE UNCHANGED M!memVars /\ stage' = "clone"
    BY <2>2, <2>4 DEF M!memVars, SameSpaces
  <2>5. CASE M!LoadRefused(M!IDLE_PID, IdleProgram, n) /\ stage' = "clone"
    BY <2>2, <2>5 DEF M!LoadRefused, SameSpaces
  <2>6. CASE /\ M!LoadReplaces(M!IDLE_PID, IdleProgram, n)
             /\ UNCHANGED <<exiting, halt>> /\ stage' = "clone"
    BY <2>2, <2>6, LoadKeepsSpaces DEF SameSpaces
  <2> QED BY <2>1, <2>3, <2>4, <2>5, <2>6
<1>2. CASE M!CloneInit
  <2>1. PICK n \in Growths :
          \/ M!CloneInto(M!IDLE_PID, M!INIT_PID, n) /\ stage' = "loadInit"
          \/ (M!MallocStops(n) \/ M!CloneStops(M!IDLE_PID, n)) /\ UNCHANGED stage
    BY <1>2 DEF M!CloneInit
  <2>2. stage = "clone"
    BY <1>2 DEF M!CloneInit, M!At
  <2>3. CASE (M!MallocStops(n) \/ M!CloneStops(M!IDLE_PID, n)) /\ UNCHANGED stage
    BY <2>3 DEF M!MallocStops, M!CloneStops, M!Stop, Stops
  <2>4. CASE M!CloneInto(M!IDLE_PID, M!INIT_PID, n) /\ stage' = "loadInit"
    BY <2>2, <2>4, CloneAddsSpace DEF M!INIT_PID, INIT_PID
  <2> QED BY <2>1, <2>3, <2>4
<1>3. CASE M!LoadInit
  <2>1. stage = "loadInit"
    BY <1>3 DEF M!LoadInit, M!At
  <2>2. CASE /\ \E n \in Growths, prog \in Programs :
                  M!LoadReplaces(M!INIT_PID, prog, n) /\ UNCHANGED <<exiting, halt>>
             /\ stage' = "up"
    BY <2>1, <2>2, LoadKeepsSpaces DEF SameSpaces
  <2>3. CASE /\ M!Stop("noInit") \/ \E n \in Growths, prog \in Programs :
                                      M!LoadStops(M!INIT_PID, prog, n)
             /\ UNCHANGED stage
    BY <2>3 DEF M!LoadStops, M!MallocStops, M!Stop, Stops
  <2> QED BY <1>3, <2>2, <2>3 DEF M!LoadInit
<1> QED BY <1>1, <1>2, <1>3 DEF M!BootStep

-----------------------------------------------------------------------------
(* The two together.                                                       *)

\* A machine that halts for want of memory is out of reach of the rest.
LEMMA StopsJoined ==
  ASSUME Stops, MachineHalts, StageOK' PROVE Joined'
BY DEF Stops, MachineHalts, Joined, SpacesDuringBoot, SpacesMatch,
       HaltsTogether, OnlyMemoryStops, Undefined

\* So is a step that leaves both tables as they are.
LEMMA QuietJoined ==
  ASSUME Joined, machine = "running", stage = "up", stage' = stage, SameSpaces,
         SameTable
  PROVE  Joined'
BY DEF SameSpaces, SameTable, Joined, StageOK, SpacesDuringBoot, SpacesMatch,
       HaltsTogether, OnlyMemoryStops, Undefined

\* An exit is the last for the list when it is the last for the memory.
LEMMA LeavingJoined ==
  ASSUME IInv, Joined, stage = "up", stage' = stage,
         NEW status \in ExitStatuses \cup {ERROR}, Exit(status), SpaceLeaves(Current)
  PROVE  Joined'
<1> DEFINE self == Current
<1>1. /\ machine = "running" /\ self \in DOMAIN pcb
      /\ DOMAIN pcb = {IDLE_PID, self} <=> Len(queue) = 1
  BY CallerIsListed DEF Exit
<1>2. /\ DOMAIN pcb' = DOMAIN pcb
      /\ Len(queue) = 1 => machine' = "halted" /\ Len(queue') = 1
      /\ Len(queue) # 1 => machine' = machine /\ processExitingNow' = self
  BY ExitKeepsTable
<1>3. /\ DOMAIN space' = DOMAIN space
      /\ IF DOMAIN space = {IDLE_PID, self}
         THEN halt' = "lastExit" /\ UNCHANGED exiting
         ELSE exiting' = self /\ UNCHANGED halt
  BY DEF SpaceLeaves, M!Leaves, M!IDLE_PID, IDLE_PID
<1>4. DOMAIN space = DOMAIN pcb /\ halt = "no"
  BY <1>1 DEF Joined, SpacesMatch, HaltsTogether, OnlyMemoryStops, Undefined
<1> HIDE DEF self
<1>5. CASE Len(queue) = 1
  BY <1>1, <1>2, <1>3, <1>4, <1>5
     DEF Joined, StageOK, SpacesDuringBoot, SpacesMatch,
         HaltsTogether, OnlyMemoryStops, Undefined
<1>6. CASE Len(queue) # 1
  BY <1>1, <1>2, <1>3, <1>4, <1>6
     DEF Joined, StageOK, SpacesDuringBoot, SpacesMatch,
         HaltsTogether, OnlyMemoryStops, Undefined
<1> QED BY <1>5, <1>6

\* A program error is an exit with ERROR.
LEMMA ErrorExits == ProgramError <=> Exit(ERROR)
BY DEF ProgramError

\* A handler counts itself and runs after boot.
LEMMA HandlerFacts ==
  ASSUME Joined, Handler
  PROVE  stage = "up" /\ stage' = stage /\ StageOK'
BY DEF Handler, Joined, StageOK

\* A handler that leaves the process table alone.
LEMMA UntouchedTable == ProcessesUntouched => SameTable
BY DEF ProcessesUntouched, procVars, SameTable

\* Boot: init gets its address space and the table waits for it.
LEMMA BootJoined == ASSUME KernelInv, BootSteps PROVE Joined'
<1>1. machine = "running" /\ halt = "no"
  BY DEF BootSteps, M!BootStep, M!LoadIdle, M!CloneInit, M!LoadInit, M!At,
         KernelInv, Joined, HaltsTogether, OnlyMemoryStops, Undefined
<1>2. CASE Stops /\ stage' \in {stage, "loadInit"}
  <2>1. MachineHalts
    BY <1>2 DEF BootSteps, Stops
  <2>2. StageOK'
    BY <1>2 DEF KernelInv, Joined, StageOK
  <2> QED BY <1>2, <2>1, <2>2, StopsJoined
<1> DEFINE grown == IF stage = "clone" THEN DOMAIN space \cup {INIT_PID}
                                       ELSE DOMAIN space
<1>3. CASE /\ stage # "up" /\ DOMAIN space' = grown /\ UNCHANGED <<exiting, halt>>
           /\ stage' = CASE stage = "loadIdle" -> "clone"
                         [] stage = "clone" -> "loadInit"
                         [] OTHER -> "up"
  <2>1. SameTable
    BY <1>1, <1>3, UntouchedTable DEF BootSteps
  <2>2. stage \in {"loadIdle", "clone", "loadInit"}
    BY <1>3 DEF KernelInv, Joined, StageOK
  <2>3. /\ DOMAIN pcb = {IDLE_PID, INIT_PID} /\ processExitingNow = NULL
        /\ exiting = NULL
        /\ DOMAIN space = IF stage = "loadInit" THEN {IDLE_PID, INIT_PID}
                                                ELSE {IDLE_PID}
    BY <1>1, <1>3 DEF KernelInv, Joined, SpacesDuringBoot
  <2>4. /\ DOMAIN pcb' = {IDLE_PID, INIT_PID} /\ processExitingNow' = NULL
        /\ exiting' = NULL /\ halt' = "no" /\ machine' = "running"
    BY <1>1, <1>3, <2>1, <2>3 DEF SameTable
  <2>5. CASE stage = "loadIdle"
    <3>1. stage' = "clone" /\ DOMAIN space' = {IDLE_PID}
      BY <1>3, <2>3, <2>5
    <3> QED BY <2>4, <3>1 DEF Joined, StageOK, SpacesDuringBoot, SpacesMatch,
                              HaltsTogether, OnlyMemoryStops, Undefined
  <2>6. CASE stage = "clone"
    <3>1. stage' = "loadInit" /\ DOMAIN space' = {IDLE_PID, INIT_PID}
      BY <1>3, <2>3, <2>6
    <3> QED BY <2>4, <3>1 DEF Joined, StageOK, SpacesDuringBoot, SpacesMatch,
                              HaltsTogether, OnlyMemoryStops, Undefined
  <2>7. CASE stage = "loadInit"
    <3>1. stage' = "up" /\ DOMAIN space' = {IDLE_PID, INIT_PID}
      BY <1>3, <2>3, <2>7
    <3> QED BY <2>4, <3>1 DEF Joined, StageOK, SpacesDuringBoot, SpacesMatch,
                              HaltsTogether, OnlyMemoryStops, Undefined
  <2> QED BY <2>2, <2>5, <2>6, <2>7
<1>4. M!BootStep
  BY DEF BootSteps
<1> QED BY <1>2, <1>3, <1>4, BootAddsInit DEF SameSpaces

\* Fork gives the child both a PCB and an address space, or neither.
LEMMA ForkJoined == ASSUME KernelInv, KernelFork PROVE Joined'
<1> USE DEF KernelInv
<1>1. /\ SystemCall /\ machine = "running" /\ stage = "up" /\ stage' = stage
      /\ StageOK' /\ processExitingNow = NULL
  BY HandlerFacts, CallerIsListed DEF KernelFork
<1>2. CASE M!ForkRefused(Current) /\ ProcessesUntouched
  BY <1>1, <1>2, HandlersKeepSpaces, UntouchedTable, QuietJoined
<1>3. ASSUME NEW n \in Growths, M!ForkStops(Current, n), MachineHalts
      PROVE  Joined'
  BY <1>1, <1>3, HandlersStop, StopsJoined
<1>4. ASSUME NEW n \in Growths, M!ForkCopies(Current, nextPid, n),
             halt' = "no", Fork
      PROVE  Joined'
  <2>1. DOMAIN space' = DOMAIN space \cup {nextPid} /\ UNCHANGED <<exiting, halt>>
    <3>1. halt' = halt \/ Stops
      BY <1>4, CloneAddsSpace DEF M!ForkCopies
    <3> QED BY <1>4, <3>1, CloneAddsSpace DEF M!ForkCopies, Stops
  <2>2. /\ DOMAIN pcb' = DOMAIN pcb \cup {nextPid}
        /\ UNCHANGED <<processExitingNow, machine>>
    BY <1>4 DEF Fork
  <2> QED BY <1>1, <2>1, <2>2 DEF Joined, SpacesDuringBoot, SpacesMatch,
                                  HaltsTogether, OnlyMemoryStops, Undefined
<1>5. ASSUME NEW n \in Growths, M!ForkCopies(Current, nextPid, n),
             halt' # "no", MachineHalts
      PROVE  Joined'
  <2>1. halt = "no"
    BY <1>1 DEF Joined, HaltsTogether
  <2>2. halt' = halt \/ Stops
    BY <1>5, CloneAddsSpace DEF M!ForkCopies
  <2>3. Stops
    BY <1>5, <2>1, <2>2
  <2> QED BY <1>1, <1>5, <2>3, StopsJoined
<1> QED BY <1>2, <1>3, <1>4, <1>5 DEF KernelFork

\* Exec replaces the program, or exits when the old one is gone already.
LEMMA ExecJoined == ASSUME KernelInv, KernelExec PROVE Joined'
<1> USE DEF KernelInv
<1>1. /\ SystemCall /\ machine = "running" /\ stage = "up" /\ stage' = stage
      /\ StageOK'
  BY HandlerFacts, CallerIsListed DEF KernelExec
<1>2. PICK n \in Growths, prog \in Programs :
       \/ /\ M!ExecRefused(Current, prog, n) \/ M!ExecLoads(Current, prog, n)
          /\ ProcessesUntouched
       \/ M!ExecKills(Current, prog, n) /\ ProgramError
       \/ M!ExecStops(Current, prog, n) /\ MachineHalts
  BY DEF KernelExec
<1>3. CASE /\ M!ExecRefused(Current, prog, n) \/ M!ExecLoads(Current, prog, n)
           /\ ProcessesUntouched
  BY <1>1, <1>3, HandlersKeepSpaces, UntouchedTable, QuietJoined
<1>4. CASE M!ExecKills(Current, prog, n) /\ ProgramError
  <2>1. SpaceLeaves(Current) /\ Exit(ERROR)
    BY <1>4, HandlersLeave, ErrorExits
  <2> QED BY <1>1, <2>1, LeavingJoined
<1>5. CASE M!ExecStops(Current, prog, n) /\ MachineHalts
  BY <1>1, <1>5, HandlersStop, StopsJoined
<1> QED BY <1>2, <1>3, <1>4, <1>5

\* Exit leaves both tables, or stops both.
LEMMA ExitJoined == ASSUME KernelInv, KernelExit PROVE Joined'
<1> USE DEF KernelInv
<1>1. /\ SystemCall /\ machine = "running" /\ stage = "up" /\ stage' = stage
      /\ StageOK'
  BY HandlerFacts, CallerIsListed DEF KernelExit
<1>2. PICK n \in ExitGrowths, status \in ExitStatuses \cup {ERROR} :
       \/ M!Exit(Current, n) /\ Exit(status)
       \/ M!ExitStops(Current, n) /\ MachineHalts
  BY DEF KernelExit
<1>3. CASE M!Exit(Current, n) /\ Exit(status)
  <2>1. SpaceLeaves(Current)
    BY <1>3, HandlersLeave
  <2> QED BY <1>1, <1>3, <2>1, LeavingJoined
<1>4. CASE M!ExitStops(Current, n) /\ MachineHalts
  BY <1>1, <1>4, HandlersStop, StopsJoined
<1> QED BY <1>2, <1>3, <1>4

\* Brk changes pages only.
LEMMA BrkJoined == ASSUME KernelInv, KernelBrk PROVE Joined'
<1> USE DEF KernelInv
<1>1. /\ SystemCall /\ machine = "running" /\ stage = "up" /\ stage' = stage
      /\ StageOK'
  BY HandlerFacts, CallerIsListed DEF KernelBrk
<1>2. PICK page \in BrkPages :
       \/ /\ \/ M!BrkRefused(Current, page)
             \/ M!BrkGrows(Current, page) \/ M!BrkShrinks(Current, page)
          /\ ProcessesUntouched
       \/ M!BrkStops(Current, page) /\ MachineHalts
  BY DEF KernelBrk
<1>3. CASE /\ \/ M!BrkRefused(Current, page)
              \/ M!BrkGrows(Current, page) \/ M!BrkShrinks(Current, page)
           /\ ProcessesUntouched
  BY <1>1, <1>3, HandlersKeepSpaces, UntouchedTable, QuietJoined
<1>4. CASE M!BrkStops(Current, page) /\ MachineHalts
  BY <1>1, <1>4, HandlersStop, StopsJoined
<1> QED BY <1>2, <1>3, <1>4

\* A fatal access is an exit, another one gives the stack its pages.
LEMMA TrapJoined == ASSUME KernelInv, MemoryTrap PROVE Joined'
<1> USE DEF KernelInv
<1>1. /\ SystemCall /\ machine = "running" /\ stage = "up" /\ stage' = stage
      /\ StageOK'
  BY HandlerFacts, CallerIsListed DEF MemoryTrap
<1>2. PICK page \in AccessPages :
       \/ M!StackGrows(Current, page) /\ ProcessesUntouched
       \/ \E n \in ExitGrowths :
            \/ M!AccessKills(Current, page, n) /\ ProgramError
            \/ M!AccessStops(Current, page, n) /\ MachineHalts
  BY DEF MemoryTrap
<1>3. CASE M!StackGrows(Current, page) /\ ProcessesUntouched
  BY <1>1, <1>3, HandlersKeepSpaces, UntouchedTable, QuietJoined
<1>4. ASSUME NEW n \in ExitGrowths, M!AccessKills(Current, page, n), ProgramError
      PROVE  Joined'
  <2>1. SpaceLeaves(Current) /\ Exit(ERROR)
    BY <1>4, HandlersLeave, ErrorExits
  <2> QED BY <1>1, <2>1, LeavingJoined
<1>5. ASSUME NEW n \in ExitGrowths, M!AccessStops(Current, page, n), MachineHalts
      PROVE  Joined'
  BY <1>1, <1>5, HandlersStop, StopsJoined
<1> QED BY <1>2, <1>3, <1>4, <1>5

\* A line of input may come while any process, idle too, is in user mode.
LEMMA ReceiveJoined == ASSUME KernelInv, ReceiveTrap PROVE Joined'
<1> USE DEF KernelInv
<1>1. machine = "running" /\ stage = "up" /\ stage' = stage /\ StageOK'
  BY HandlerFacts DEF ReceiveTrap, UserMode
<1>2. PICK n \in Growths : \/ M!ReceiveMallocs(n) /\ ProcessesUntouched
                           \/ M!ReceiveStops(n) /\ MachineHalts
  BY DEF ReceiveTrap
<1>3. CASE M!ReceiveMallocs(n) /\ ProcessesUntouched
  BY <1>1, <1>3, HandlersKeepSpaces, UntouchedTable, QuietJoined
<1>4. CASE M!ReceiveStops(n) /\ MachineHalts
  BY <1>1, <1>4, HandlersStop, StopsJoined
<1> QED BY <1>2, <1>3, <1>4

\* Who runs after an exit frees the PCB and the address space.
LEMMA ResumeJoined == ASSUME KernelInv, KernelResume PROVE Joined'
<1> USE DEF KernelInv
<1>1. stage = "up"
  BY DEF KernelResume
<1>2. Resume => machine = "running"
  BY DEF Resume, ReturnFromTrap, ForkReturns, WaitResumes, KernelMode
<1>3. CASE processExitingNow = NULL /\ Resume /\ UNCHANGED memoryVars
  <2>1. SameTable
    BY <1>3, ResumeFreesTable DEF SameTable
  <2>2. SameSpaces /\ stage' = stage
    BY <1>3 DEF memoryVars, SameSpaces
  <2> QED BY <1>1, <1>2, <1>3, <2>1, <2>2, QuietJoined
<1>4. CASE /\ processExitingNow # NULL
           /\ M!FreePageTable(processExitingNow) /\ Resume
           /\ UNCHANGED <<stage, calls>>
  <2>1. /\ DOMAIN pcb' = DOMAIN pcb \ {processExitingNow}
        /\ processExitingNow' = NULL /\ machine' = machine
    BY <1>4, ResumeFreesTable
  <2>2. /\ DOMAIN space' = DOMAIN space \ {processExitingNow}
        /\ exiting' = NULL /\ halt' = halt
    BY <1>4 DEF M!FreePageTable, M!NoProcess, NULL
  <2>3. machine = "running" /\ stage' = stage
    BY <1>2, <1>4
  <2> QED BY <1>1, <2>1, <2>2, <2>3
          DEF Joined, StageOK, SpacesDuringBoot, SpacesMatch,
              HaltsTogether, OnlyMemoryStops, Undefined
<1>5. CASE /\ M!FreePageTableStops(processExitingNow) /\ MachineHalts
           /\ UNCHANGED <<stage, calls>>
  <2>1. StageOK'
    BY <1>5 DEF Joined, StageOK
  <2> QED BY <1>5, <2>1, HandlersStop, StopsJoined
<1> QED BY <1>3, <1>4, <1>5 DEF KernelResume

\* The handlers that use no memory.
LEMMA OthersJoined ==
  ASSUME KernelInv, KernelTick \/ KernelWait \/ KernelDelay PROVE Joined'
<1> USE DEF KernelInv
<1>1. stage = "up" /\ SameSpaces /\ stage' = stage
  BY DEF KernelTick, KernelWait, KernelDelay, MemoryUntouched, memoryVars, SameSpaces
<1>2. machine = "running"
  BY DEF KernelTick, Tick, ClockTick, KernelWait, WaitFails, WaitCollects, WaitBlocks,
         KernelDelay, Delay, DelayReturns, SystemCall, UserMode
<1>3. SameTable
  BY TickKeepsTable, WaitKeepsTable, DelayKeepsTable
     DEF KernelTick, KernelWait, KernelDelay
<1> QED BY <1>1, <1>2, <1>3, QuietJoined

\* Every step of the kernel keeps the invariant.
LEMMA KernelStep == KernelInv /\ [KernelNext]_kernelVars => KernelInv'
<1> SUFFICES ASSUME KernelInv, [KernelNext]_kernelVars PROVE Joined'
  BY KernelTableStep DEF KernelInv
<1>1. CASE KernelStopped \/ UNCHANGED kernelVars
  <2>1. UNCHANGED <<procVars, memoryVars>>
    BY <1>1 DEF KernelStopped, kernelVars
  <2> QED BY <2>1 DEF procVars, memoryVars, KernelInv, Joined, StageOK,
                      SpacesDuringBoot, SpacesMatch,
                      HaltsTogether, OnlyMemoryStops, Undefined
<1> QED BY <1>1, BootJoined, ForkJoined, ExecJoined, ExitJoined, BrkJoined,
           TrapJoined, ReceiveJoined, ResumeJoined, OthersJoined DEF KernelNext

\* So does the state in which virtual memory is switched on.
LEMMA InitKernelInv == KernelInit => KernelInv
<1> SUFFICES ASSUME KernelInit PROVE Joined
  BY InitIInv DEF KernelInv, KernelInit
<1>1. /\ machine = "running" /\ DOMAIN pcb = {IDLE_PID, INIT_PID}
      /\ processExitingNow = NULL
  BY DEF KernelInit, ProcInit, SchedInit
<1>2. /\ halt = "no" /\ stage = "loadIdle" /\ exiting = NULL
      /\ DOMAIN space = {IDLE_PID}
  BY DEF KernelInit, M!BootInit, M!NoProcess, NULL, M!IDLE_PID, IDLE_PID
<1> QED BY <1>1, <1>2 DEF Joined, StageOK, SpacesDuringBoot, SpacesMatch,
                          HaltsTogether, OnlyMemoryStops, Undefined

\* The invariant holds in every reachable state of the kernel.
THEOREM KernelInvariance == KernelSpec => []KernelInv
BY InitKernelInv, KernelStep, PTL DEF KernelSpec

\* No process is left with a page table and no PCB or with a PCB and no page
\* table, whichever of fork, exit and the kills halted or was refused half-way.
THEOREM TablesAgree == KernelSpec => []SpacesMatch
<1>1. KernelInv => SpacesMatch
  BY DEF KernelInv, Joined
<1> QED BY <1>1, KernelInvariance, PTL

\* The memory of an exited process is free before a program runs again.
THEOREM MemoryIsBack == KernelSpec => []ReleasedBeforeUser
<1>1. KernelInv => ReleasedBeforeUser
  <2> SUFFICES ASSUME KernelInv, stage = "up", UserMode
               PROVE  exiting = NULL /\ Current \in DOMAIN space
    BY DEF ReleasedBeforeUser
  <2>1. machine = "running" /\ IInv
    BY DEF UserMode, KernelInv
  <2>2. processExitingNow = NULL
    BY <2>1, UserModeFacts
  <2>3. Current \in DOMAIN pcb
    BY <2>1, CurrentIsKnown DEF IInv
  <2> QED BY <2>1, <2>2, <2>3 DEF KernelInv, Joined, SpacesMatch
<1> QED BY <1>1, KernelInvariance, PTL

\* Nothing in the process table stops the kernel: when it halts or behaves in a
\* way nobody knows, the memory has a reason, and its last exit is the list's.
THEOREM HaltIsShared == KernelSpec => []OnlyMemoryStops
<1>1. KernelInv => OnlyMemoryStops
  BY DEF KernelInv, Joined, HaltsTogether
<1> QED BY <1>1, KernelInvariance, PTL

\* What the calls promise does not depend on the memory: under the whole kernel,
\* too, an exiting process finds its parent, the children are counted, no Wait
\* misses its report and every report is returned once and in order.
THEOREM CallsKeepTheirPromise ==
  KernelSpec => [](ParentAlive /\ ChildCountExact /\ WaitIsWokenByReport /\ ReportsInOrder)
<1>1. KernelInv => ParentAlive /\ ChildCountExact /\ WaitIsWokenByReport /\ ReportsInOrder
  BY DEF KernelInv, IInv
<1> QED BY <1>1, KernelInvariance, PTL

-----------------------------------------------------------------------------
(* The kernel, seen from the memory.                                       *)

\* A handler of a process, counted.
LEMMA CallOfProcess ==
  ASSUME Handler, NEW p \in UserPids,
         \/ M!ForkStep(p) \/ M!ExecStep(p) \/ M!ExitStep(p) \/ M!BrkStep(p)
         \/ M!AccessStep(p)
  PROVE  M!BootNext
<1>1. M!UserStep
  BY DEF M!UserStep
<1> QED BY <1>1 DEF M!BootNext, M!Call, Handler

\* The pid of the next child is no process's.
LEMMA NextPidIsFree ==
  ASSUME KernelInv, machine = "running", stage = "up", nextPid <= MaxPid
  PROVE  nextPid \in UserPids \ DOMAIN space
<1>1. DOMAIN space = DOMAIN pcb
  BY DEF KernelInv, Joined, SpacesMatch
<1>2. nextPid \in 2 .. MaxPid + 1 /\ \A p \in DOMAIN pcb : p < nextPid
  BY DEF KernelInv, IInv, TypeOK, Auxiliary
<1>3. nextPid \in UserPids
  BY <1>2, SchedulingAssumption DEF UserPids
<1>4. ASSUME nextPid \in DOMAIN pcb PROVE FALSE
  BY <1>2, <1>4
<1> QED BY <1>1, <1>3, <1>4

\* Every step of the kernel is one of Boot, or leaves the memory alone.
LEMMA KernelStepIsBoots ==
  KernelInv /\ [KernelNext]_kernelVars => [M!BootNext]_M!bootVars
<1> SUFFICES ASSUME KernelInv, [KernelNext]_kernelVars
             PROVE  M!BootNext \/ UNCHANGED memoryVars
  BY DEF M!bootVars, memoryVars
<1>1. SystemCall => Current \in UserPids
  BY CallerIsListed DEF KernelInv
<1>2. ExitGrowths \subseteq Growths
  BY KernelAssumption DEF M!BootAssumption, ExitGrowths
<1>3. CASE BootSteps
  BY <1>3 DEF BootSteps, M!BootNext
<1>4. CASE KernelFork
  <2>1. SystemCall /\ Handler /\ Current \in UserPids /\ machine = "running"
        /\ stage = "up"
    BY <1>1, <1>4 DEF KernelFork, SystemCall, UserMode, Handler
  <2>2. nextPid <= MaxPid => nextPid \in UserPids \ DOMAIN space
    BY <2>1, NextPidIsFree
  <2>3. M!ForkStep(Current)
    BY <1>4, <2>2 DEF KernelFork, M!ForkStep
  <2> QED BY <2>1, <2>3, CallOfProcess
<1>5. CASE KernelExec
  <2>1. M!ExecStep(Current)
    BY <1>5 DEF KernelExec, M!ExecStep
  <2> QED BY <1>1, <1>5, <2>1, CallOfProcess DEF KernelExec
<1>6. CASE KernelExit
  <2>1. M!ExitStep(Current)
    BY <1>2, <1>6 DEF KernelExit, M!ExitStep
  <2> QED BY <1>1, <1>6, <2>1, CallOfProcess DEF KernelExit
<1>7. CASE KernelBrk
  <2>1. M!BrkStep(Current)
    BY <1>7 DEF KernelBrk, M!BrkStep
  <2> QED BY <1>1, <1>7, <2>1, CallOfProcess DEF KernelBrk
<1>8. CASE MemoryTrap
  <2>1. M!AccessStep(Current)
    BY <1>2, <1>8 DEF MemoryTrap, M!AccessStep
  <2> QED BY <1>1, <1>8, <2>1, CallOfProcess DEF MemoryTrap
<1>9. CASE ReceiveTrap
  <2>1. M!ReceiveStep
    BY <1>9 DEF ReceiveTrap, M!ReceiveStep
  <2> QED BY <1>9, <2>1 DEF ReceiveTrap, Handler, M!BootNext, M!Call
<1>10. CASE KernelResume
  <2>1. CASE UNCHANGED memoryVars
    BY <2>1
  <2>2. CASE /\ processExitingNow # NULL /\ machine = "running"
             /\ \/ M!FreePageTable(processExitingNow)
                \/ M!FreePageTableStops(processExitingNow)
             /\ UNCHANGED <<stage, calls>>
    <3>1. stage = "up"
      BY <1>10 DEF KernelResume
    <3>2. exiting = processExitingNow /\ halt = "no"
      BY <2>2, <3>1 DEF KernelInv, Joined, SpacesMatch,
                        HaltsTogether, OnlyMemoryStops, Undefined
    <3>3. M!Release
      BY <2>2, <3>2 DEF M!Release, M!FreeExited, M!NoProcess, NULL
    <3> QED BY <3>3 DEF M!BootNext
  <2>3. Resume \/ KernelMode => machine = "running"
    BY DEF Resume, ReturnFromTrap, ForkReturns, WaitResumes, KernelMode
  <2> QED BY <1>10, <2>1, <2>2, <2>3 DEF KernelResume
<1>11. CASE \/ KernelTick \/ KernelWait \/ KernelDelay \/ KernelStopped
            \/ UNCHANGED kernelVars
  BY <1>11 DEF KernelTick, KernelWait, KernelDelay, MemoryUntouched, KernelStopped,
               kernelVars
<1> QED
  BY <1>3, <1>4, <1>5, <1>6, <1>7, <1>8, <1>9, <1>10, <1>11 DEF KernelNext

\* The kernel implements Boot: all that is proved of it holds of the kernel.
THEOREM KernelImplementsBoot == KernelSpec => MemoryIsBoots
<1>1. KernelInit => M!BootInit
  BY DEF KernelInit
<1> QED BY <1>1, KernelStepIsBoots, KernelInvariance, PTL
        DEF KernelSpec, MemoryIsBoots, M!BootSpec

-----------------------------------------------------------------------------
(* What is proved of the memory, in the kernel.                            *)

MP == INSTANCE Memory_proof

\* The operators of Boot are the same under both names that they have here, as
\* the instance that Kernel uses and as the one whose theorems are proved.
LEMMA SameBoot ==
  /\ M!BootInit <=> MP!BootInit
  /\ [M!BootNext]_M!bootVars <=> [MP!BootNext]_MP!bootVars
  /\ M!SingleOwner <=> MP!SingleOwner
  /\ M!TablesSound <=> MP!TablesSound
  /\ M!BrkMapped <=> MP!BrkMapped
  /\ M!NeverFreedTwice <=> MP!NeverFreedTwice
<1>1. \A S : M!Cardinality(S) = MP!Cardinality(S)
  BY DEF M!Cardinality, MP!Cardinality
<1>2. /\ M!TopPage = MP!TopPage
      /\ M!IDLE_PID = MP!IDLE_PID
      /\ M!INIT_PID = MP!INIT_PID
      /\ M!NoFrame = MP!NoFrame
      /\ M!NoProcess = MP!NoProcess
      /\ M!Frames = MP!Frames
      /\ M!Vpns = MP!Vpns
      /\ M!UserVpns = MP!UserVpns
      /\ M!KernelStackVpns = MP!KernelStackVpns
      /\ M!KernelPages = MP!KernelPages
      /\ M!Halves = MP!Halves
  BY DEF M!TopPage, MP!TopPage, M!IDLE_PID, MP!IDLE_PID, M!INIT_PID,
     MP!INIT_PID, M!NoFrame, MP!NoFrame, M!NoProcess, MP!NoProcess, M!Frames,
     MP!Frames, M!Vpns, MP!Vpns, M!UserVpns, MP!UserVpns, M!KernelStackVpns,
     MP!KernelStackVpns, M!KernelPages, MP!KernelPages, M!Halves, MP!Halves
<1>3. \A occ : M!NumFree(occ) = MP!NumFree(occ)
  BY <1>1 DEF M!NumFree, MP!NumFree, M!Frames, MP!Frames
<1>4. \A S, k : M!Nth(S, k) = MP!Nth(S, k)
  BY <1>1 DEF M!Nth, MP!Nth
<1>5. \A occ, V : M!Fresh(occ, V) = MP!Fresh(occ, V)
  BY <1>1, <1>4 DEF M!Fresh, MP!Fresh, M!Frames, MP!Frames
<1>6. \A occ, V : M!FreshDown(occ, V) = MP!FreshDown(occ, V)
  BY <1>1, <1>4 DEF M!FreshDown, MP!FreshDown, M!Frames, MP!Frames
<1>7. \A f : M!ImageOf(f) = MP!ImageOf(f)
  BY DEF M!ImageOf, MP!ImageOf
<1>8. \A f, g : M!Overlay(f, g) = MP!Overlay(f, g)
  BY DEF M!Overlay, MP!Overlay
<1>9. \A pt, V : M!Valid(pt, V) = MP!Valid(pt, V)
  BY DEF M!Valid, MP!Valid, M!NoFrame, MP!NoFrame
<1>10. \A pt, V : M!FramesIn(pt, V) = MP!FramesIn(pt, V)
  BY <1>9 DEF M!FramesIn, MP!FramesIn
<1>11. \A pt, V, occ : M!CanFree(pt, V, occ) <=> MP!CanFree(pt, V, occ)
  BY <1>9 DEF M!CanFree, MP!CanFree
<1>12. \A n : M!HeapPages(n) = MP!HeapPages(n)
  BY DEF M!HeapPages, MP!HeapPages
<1>13. \A n : M!MeetsTables(n) <=> MP!MeetsTables(n)
  BY <1>12 DEF M!MeetsTables, MP!MeetsTables, M!NoFrame, MP!NoFrame
<1>14. \A n : M!CanMalloc(n) <=> MP!CanMalloc(n)
  BY <1>3, <1>13 DEF M!CanMalloc, MP!CanMalloc
<1>15. \A n : M!AfterMalloc(n) = MP!AfterMalloc(n)
  BY <1>7, <1>5, <1>12 DEF M!AfterMalloc, MP!AfterMalloc
<1>16. \A n : M!MallocTable(n) = MP!MallocTable(n)
  BY <1>8, <1>5, <1>12 DEF M!MallocTable, MP!MallocTable
<1>17. \A n : M!MallocStops(n) <=> MP!MallocStops(n)
  BY <1>3, <1>13 DEF M!MallocStops, MP!MallocStops, M!Stop, MP!Stop
<1>18. \A n : M!Malloc(n) <=> MP!Malloc(n)
  BY <1>14 DEF M!Malloc, MP!Malloc
<1>19. \A n : M!ReceiveMallocs(n) <=> MP!ReceiveMallocs(n)
  BY <1>18, <1>15, <1>16 DEF M!ReceiveMallocs, MP!ReceiveMallocs, M!NoProcess,
     MP!NoProcess
<1>20. \A n : M!ReceiveStops(n) <=> MP!ReceiveStops(n)
  BY <1>17 DEF M!ReceiveStops, MP!ReceiveStops, M!NoProcess, MP!NoProcess
<1>21. M!WithFreeHalf = MP!WithFreeHalf
  BY DEF M!WithFreeHalf, MP!WithFreeHalf, M!Halves, MP!Halves
<1>22. \A r : M!NextHalf(r) = MP!NextHalf(r)
  BY DEF M!NextHalf, MP!NextHalf
<1>23. \A occ : M!NewTable(occ) = MP!NewTable(occ)
  BY <1>21, <1>22, <1>4 DEF M!NewTable, MP!NewTable, M!NoFrame, MP!NoFrame,
     M!Frames, MP!Frames
<1>24. \A p : M!CloneNeeds(p) = MP!CloneNeeds(p)
  BY <1>1, <1>21, <1>9 DEF M!CloneNeeds, MP!CloneNeeds, M!Vpns, MP!Vpns
<1>25. \A n : M!TableMeetsHeap(n) <=> MP!TableMeetsHeap(n)
  BY <1>21 DEF M!TableMeetsHeap, MP!TableMeetsHeap
<1>26. \A p, c, n : M!CloneInto(p, c, n) <=> MP!CloneInto(p, c, n)
  BY <1>2, <1>23, <1>15, <1>5, <1>9, <1>8, <1>18, <1>24, <1>3, <1>25, <1>7,
     <1>16 DEF M!CloneInto, MP!CloneInto
<1>27. \A p, n : M!CloneStops(p, n) <=> MP!CloneStops(p, n)
  BY <1>14, <1>24, <1>3, <1>15 DEF M!CloneStops, MP!CloneStops, M!Stop,
     MP!Stop
<1>28. \A p : M!Running(p) <=> MP!Running(p)
  BY DEF M!Running, MP!Running, M!NoProcess, MP!NoProcess, M!IDLE_PID,
     MP!IDLE_PID
<1>29. \A p : M!ForkFits(p) <=> MP!ForkFits(p)
  BY <1>1, <1>9, <1>3 DEF M!ForkFits, MP!ForkFits, M!UserVpns, MP!UserVpns,
     M!KernelStackVpns, MP!KernelStackVpns
<1>30. \A p : M!ForkRefused(p) <=> MP!ForkRefused(p)
  BY <1>28, <1>29 DEF M!ForkRefused, MP!ForkRefused, M!memVars, MP!memVars
<1>31. \A p, c, n : M!ForkCopies(p, c, n) <=> MP!ForkCopies(p, c, n)
  BY <1>28, <1>29, <1>26 DEF M!ForkCopies, MP!ForkCopies
<1>32. \A p, n : M!ForkStops(p, n) <=> MP!ForkStops(p, n)
  BY <1>28, <1>29, <1>17, <1>27 DEF M!ForkStops, MP!ForkStops
<1>33. \A prog : M!TextPages(prog) = MP!TextPages(prog)
  BY DEF M!TextPages, MP!TextPages
<1>34. \A prog : M!HeapStart(prog) = MP!HeapStart(prog)
  BY DEF M!HeapStart, MP!HeapStart
<1>35. \A prog : M!StackPages(prog) = MP!StackPages(prog)
  BY DEF M!StackPages, MP!StackPages
<1>36. \A prog : M!ImagePages(prog) = MP!ImagePages(prog)
  BY <1>34, <1>35 DEF M!ImagePages, MP!ImagePages
<1>37. \A prog : M!FitsVirtual(prog) <=> MP!FitsVirtual(prog)
  BY <1>1, <1>34 DEF M!FitsVirtual, MP!FitsVirtual, M!KernelStackVpns,
     MP!KernelStackVpns
<1>38. \A p, prog, occ : M!FitsPhysical(p, prog, occ)
         <=> MP!FitsPhysical(p, prog, occ)
  BY <1>1, <1>9, <1>3 DEF M!FitsPhysical, MP!FitsPhysical, M!UserVpns,
     MP!UserVpns
<1>39. \A p, prog, n : M!LoadRefused(p, prog, n) <=> MP!LoadRefused(p, prog, n)
  BY <1>18, <1>37, <1>38, <1>15, <1>16 DEF M!LoadRefused, MP!LoadRefused
<1>40. ASSUME NEW p, NEW prog, NEW frames
      PROVE  M!Loaded(p, prog, frames) = MP!Loaded(p, prog, frames)
  <2>1. /\ M!TextPages(prog) = MP!TextPages(prog)
        /\ M!HeapStart(prog) = MP!HeapStart(prog)
        /\ M!ImagePages(prog) = MP!ImagePages(prog)
    BY <1>33, <1>34, <1>36
  <2> QED BY <1>2, <2>1, Zenon DEF M!Loaded, MP!Loaded
<1>41. \A p : M!Replaced(p) = MP!Replaced(p)
  BY <1>10 DEF M!Replaced, MP!Replaced, M!UserVpns, MP!UserVpns
<1>42. \A p, prog, n : M!LoadReplaces(p, prog, n)
         <=> MP!LoadReplaces(p, prog, n)
  BY <1>2, <1>15, <1>41, <1>5, <1>36, <1>18, <1>37, <1>38, <1>11, <1>7, <1>16,
     <1>40, Zenon DEF M!LoadReplaces, MP!LoadReplaces
<1>43. \A p, prog, n : M!LoadStops(p, prog, n) <=> MP!LoadStops(p, prog, n)
  BY <1>17, <1>14, <1>37, <1>38, <1>15, <1>11 DEF M!LoadStops, MP!LoadStops,
     M!UserVpns, MP!UserVpns, M!Stop, MP!Stop
<1>44. \A p, prog, n : M!ExecRefused(p, prog, n) <=> MP!ExecRefused(p, prog, n)
  BY <1>28, <1>39 DEF M!ExecRefused, MP!ExecRefused, M!memVars, MP!memVars
<1>45. \A p, prog, n : M!ExecLoads(p, prog, n) <=> MP!ExecLoads(p, prog, n)
  BY <1>28, <1>42 DEF M!ExecLoads, MP!ExecLoads
<1>46. \A p, prog, n : M!ExecStops(p, prog, n) <=> MP!ExecStops(p, prog, n)
  BY <1>28, <1>43 DEF M!ExecStops, MP!ExecStops
<1>47. \A p : M!Leaves(p) <=> MP!Leaves(p)
  BY DEF M!Leaves, MP!Leaves, M!IDLE_PID, MP!IDLE_PID
<1>48. \A p, prog, n : M!ExecKills(p, prog, n) <=> MP!ExecKills(p, prog, n)
  BY <1>28, <1>42, <1>47 DEF M!ExecKills, MP!ExecKills
<1>49. \A p, n : M!Exit(p, n) <=> MP!Exit(p, n)
  BY <1>28, <1>18, <1>15, <1>16, <1>47 DEF M!Exit, MP!Exit
<1>50. \A p, n : M!ExitStops(p, n) <=> MP!ExitStops(p, n)
  BY <1>28, <1>17 DEF M!ExitStops, MP!ExitStops
<1>51. \A i, half : M!ClearedRecords(i, half) = MP!ClearedRecords(i, half)
  BY DEF M!ClearedRecords, MP!ClearedRecords
<1>52. \A p : M!RecordOf(p) = MP!RecordOf(p)
  BY DEF M!RecordOf, MP!RecordOf
<1>53. \A i, half : M!TableFrame(i, half) = MP!TableFrame(i, half)
  BY <1>51 DEF M!TableFrame, MP!TableFrame
<1>54. \A p : M!HasHighFrame(p) <=> MP!HasHighFrame(p)
  BY DEF M!HasHighFrame, MP!HasHighFrame, M!Vpns, MP!Vpns
<1>55. \A p : M!TableIsSound(p) <=> MP!TableIsSound(p)
  BY <1>11, <1>52, <1>53 DEF M!TableIsSound, MP!TableIsSound, M!Vpns, MP!Vpns
<1>56. \A p : M!FreePageTable(p) <=> MP!FreePageTable(p)
  BY <1>54, <1>55, <1>52, <1>51, <1>10, <1>53 DEF M!FreePageTable,
     MP!FreePageTable, M!Vpns, MP!Vpns, M!NoProcess, MP!NoProcess
<1>57. \A p : M!FreePageTableStops(p) <=> MP!FreePageTableStops(p)
  BY <1>54, <1>55 DEF M!FreePageTableStops, MP!FreePageTableStops, M!Stop,
     MP!Stop
<1>58. M!FreeExited <=> MP!FreeExited
  BY <1>56, <1>57 DEF M!FreeExited, MP!FreeExited, M!NoProcess, MP!NoProcess
<1>59. \A p, page : M!BrkRefused(p, page) <=> MP!BrkRefused(p, page)
  BY <1>28, <1>3 DEF M!BrkRefused, MP!BrkRefused, M!memVars, MP!memVars
<1>60. \A p, page : M!BrkAllowed(p, page) <=> MP!BrkAllowed(p, page)
  BY <1>28 DEF M!BrkAllowed, MP!BrkAllowed
<1>61. \A p, page : M!BrkGrows(p, page) <=> MP!BrkGrows(p, page)
  BY <1>5, <1>60, <1>3, <1>7, <1>8 DEF M!BrkGrows, MP!BrkGrows
<1>62. \A p, page : M!CanShrink(p, page) <=> MP!CanShrink(p, page)
  BY <1>9, <1>11 DEF M!CanShrink, MP!CanShrink
<1>63. \A p, page : M!BrkShrinks(p, page) <=> MP!BrkShrinks(p, page)
  BY <1>60, <1>62, <1>10, <1>8 DEF M!BrkShrinks, MP!BrkShrinks, M!NoFrame,
     MP!NoFrame
<1>64. \A p, page : M!BrkStops(p, page) <=> MP!BrkStops(p, page)
  BY <1>60, <1>62 DEF M!BrkStops, MP!BrkStops, M!Stop, MP!Stop
<1>65. \A p, page : M!Faults(p, page) <=> MP!Faults(p, page)
  BY DEF M!Faults, MP!Faults, M!UserVpns, MP!UserVpns, M!NoFrame, MP!NoFrame
<1>66. \A p, page : M!MayGrow(p, page) <=> MP!MayGrow(p, page)
  BY <1>3 DEF M!MayGrow, MP!MayGrow
<1>67. ASSUME NEW p, NEW page
      PROVE  M!StackGrows(p, page) <=> MP!StackGrows(p, page)
  <2> DEFINE grown == page .. space[p].limit - 1
             frames == M!FreshDown(occupied, grown)
  <2>1. /\ M!FreshDown(occupied, grown) = MP!FreshDown(occupied, grown)
        /\ M!ImageOf(frames) = MP!ImageOf(frames)
        /\ M!Overlay(space[p].pageTable, frames)
             = MP!Overlay(space[p].pageTable, frames)
    BY <1>6, <1>7, <1>8
  <2>2. /\ M!Running(p) <=> MP!Running(p)
        /\ M!Faults(p, page) <=> MP!Faults(p, page)
        /\ M!MayGrow(p, page) <=> MP!MayGrow(p, page)
    BY <1>28, <1>65, <1>66
  <2> QED BY <2>1, <2>2, Zenon DEF M!StackGrows, MP!StackGrows
<1>68. \A p, page : M!IsFatal(p, page) <=> MP!IsFatal(p, page)
  BY <1>65, <1>66 DEF M!IsFatal, MP!IsFatal
<1>69. \A p, page, n : M!AccessKills(p, page, n) <=> MP!AccessKills(p, page, n)
  BY <1>49, <1>68 DEF M!AccessKills, MP!AccessKills
<1>70. \A p, page, n : M!AccessStops(p, page, n) <=> MP!AccessStops(p, page, n)
  BY <1>50, <1>68 DEF M!AccessStops, MP!AccessStops
<1>71. M!IdleSpace = MP!IdleSpace
  BY DEF M!IdleSpace, MP!IdleSpace, M!TopPage, MP!TopPage, M!Vpns, MP!Vpns,
     M!KernelStackVpns, MP!KernelStackVpns, M!NoFrame, MP!NoFrame
<1>72. \A marks : M!BootFrames(marks) = MP!BootFrames(marks)
  BY DEF M!BootFrames, MP!BootFrames, M!KernelStackVpns, MP!KernelStackVpns,
     M!TopPage, MP!TopPage
<1>73. M!BootKernelTable = MP!BootKernelTable
  BY DEF M!BootKernelTable, MP!BootKernelTable, M!KernelPages, MP!KernelPages,
     M!TopPage, MP!TopPage, M!NoFrame, MP!NoFrame
<1>74. M!FirstRecord = MP!FirstRecord
  BY DEF M!FirstRecord, MP!FirstRecord, M!TopPage, MP!TopPage
<1>75. M!BootInit <=> MP!BootInit
  BY <1>72, <1>73, <1>74, <1>71 DEF M!BootInit, MP!BootInit, M!IDLE_PID,
     MP!IDLE_PID, M!NoProcess, MP!NoProcess
<1>76. \A s : M!At(s) <=> MP!At(s)
  BY DEF M!At, MP!At
<1>77. M!LoadIdle <=> MP!LoadIdle
  BY <1>76, <1>42, <1>39, <1>43 DEF M!LoadIdle, MP!LoadIdle, M!memVars,
     MP!memVars, M!IDLE_PID, MP!IDLE_PID
<1>78. M!CloneInit <=> MP!CloneInit
  BY <1>76, <1>26, <1>17, <1>27 DEF M!CloneInit, MP!CloneInit, M!IDLE_PID,
     MP!IDLE_PID, M!INIT_PID, MP!INIT_PID
<1>79. M!LoadInit <=> MP!LoadInit
  BY <1>76, <1>42, <1>43 DEF M!LoadInit, MP!LoadInit, M!INIT_PID, MP!INIT_PID,
     M!Stop, MP!Stop
<1>80. M!BootStep <=> MP!BootStep
  BY <1>77, <1>78, <1>79 DEF M!BootStep, MP!BootStep
<1>81. \A p : M!ForkStep(p) <=> MP!ForkStep(p)
  BY <1>30, <1>32, <1>31 DEF M!ForkStep, MP!ForkStep
<1>82. \A p : M!ExecStep(p) <=> MP!ExecStep(p)
  BY <1>44, <1>45, <1>48, <1>46 DEF M!ExecStep, MP!ExecStep
<1>83. \A p : M!ExitStep(p) <=> MP!ExitStep(p)
  BY <1>49, <1>50 DEF M!ExitStep, MP!ExitStep
<1>84. \A p : M!BrkStep(p) <=> MP!BrkStep(p)
  BY <1>59, <1>61, <1>63, <1>64 DEF M!BrkStep, MP!BrkStep
<1>85. \A p : M!AccessStep(p) <=> MP!AccessStep(p)
  BY <1>67, <1>69, <1>70 DEF M!AccessStep, MP!AccessStep
<1>86. M!UserStep <=> MP!UserStep
  BY <1>81, <1>82, <1>83, <1>84, <1>85 DEF M!UserStep, MP!UserStep
<1>87. M!ReceiveStep <=> MP!ReceiveStep
  BY <1>19, <1>20 DEF M!ReceiveStep, MP!ReceiveStep
<1>88. M!Call <=> MP!Call
  BY <1>86, <1>87 DEF M!Call, MP!Call
<1>89. M!Release <=> MP!Release
  BY <1>58 DEF M!Release, MP!Release
<1>90. M!Halted <=> MP!Halted
  BY DEF M!Halted, MP!Halted, M!bootVars, MP!bootVars
<1>91. M!BootNext <=> MP!BootNext
  BY <1>80, <1>88, <1>89, <1>90 DEF M!BootNext, MP!BootNext
<1>92. M!KernelUses = MP!KernelUses
  BY DEF M!KernelUses, MP!KernelUses, M!KernelPages, MP!KernelPages, M!TopPage,
     MP!TopPage
<1>93. M!SingleOwner <=> MP!SingleOwner
  BY <1>9, <1>92 DEF M!SingleOwner, MP!SingleOwner, M!Vpns, MP!Vpns
<1>94. M!TablesSound <=> MP!TablesSound
  BY <1>52 DEF M!TablesSound, MP!TablesSound, M!TopPage, MP!TopPage, M!IDLE_PID,
     MP!IDLE_PID, M!Halves, MP!Halves
<1>95. M!BrkMapped <=> MP!BrkMapped
  BY DEF M!BrkMapped, MP!BrkMapped, M!IDLE_PID, MP!IDLE_PID, M!NoFrame,
     MP!NoFrame
<1>96. M!NeverFreedTwice <=> MP!NeverFreedTwice
  BY DEF M!NeverFreedTwice, MP!NeverFreedTwice
<1> QED
  BY <1>75, <1>91, <1>93, <1>94, <1>95, <1>96 DEF M!bootVars, MP!bootVars

\* What is assumed of the kernel's constants is what those theorems assume.
LEMMA SameAssumptions == MP!MemoryAssumption /\ MP!BootAssumption
BY KernelAssumption
   DEF M!MemoryAssumption, MP!MemoryAssumption, M!BootAssumption, MP!BootAssumption,
       M!TopPage, MP!TopPage, M!Program, MP!Program

\* In every interleaving of the processes that the scheduler, fork, wait, exit and
\* the traps allow, no frame has two owners, the page tables are where their
\* records say, the pages below a break are there and nothing is freed twice.
THEOREM KernelMemoryIsSound ==
  KernelSpec => [](M!SingleOwner /\ M!TablesSound /\ M!BrkMapped /\ M!NeverFreedTwice)
<1>1. MP!BootSpec => [](/\ MP!SingleOwner /\ MP!TablesSound /\ MP!BrkMapped
                        /\ MP!NeverFreedTwice)
  BY SameAssumptions, MP!NoFrameIsShared, MP!PageTablesKept, MP!BreakIsBacked,
     MP!NothingFreedTwice, PTL
<1>2. M!BootSpec => MP!BootSpec
  BY SameBoot, PTL DEF M!BootSpec, MP!BootSpec
<1>3. /\ MP!SingleOwner /\ MP!TablesSound /\ MP!BrkMapped /\ MP!NeverFreedTwice
      => /\ M!SingleOwner /\ M!TablesSound /\ M!BrkMapped /\ M!NeverFreedTwice
  BY SameBoot
<1>4. KernelSpec => M!BootSpec
  BY KernelImplementsBoot DEF MemoryIsBoots
<1> QED BY <1>1, <1>2, <1>3, <1>4, PTL
=============================================================================
