------------------------------- MODULE Kernel -------------------------------
(***************************************************************************)
(* The process table of ProcessControl and the memory of Boot in one       *)
(* kernel: a handler that changes both changes both in one step, and an    *)
(* exited process gives its memory back in the process that runs next.     *)
(***************************************************************************)
EXTENDS ProcessControl

CONSTANTS PAGE_TABLE_LEN, KERNEL_STACK_BASE, MEM_INVALID_PAGES, NumFrames,
          MaxKernelBrk, KernelHeapEnd, UnclearedMarks, IdleProgram, Programs,
          Growths, MaxCalls, BrkPages, AccessPages

VARIABLES occupied, kernelBrk, kernelPageTable, records, space, exiting, halt,
          stage, calls

M == INSTANCE Boot

\* The memory has the constants that the kernel is built for.
ASSUME KernelAssumption == M!MemoryAssumption /\ M!BootAssumption

memoryVars == <<occupied, kernelBrk, kernelPageTable, records, space, exiting,
                halt, stage, calls>>
kernelVars == <<procVars, memoryVars>>

\* A handler that uses memory: it runs once boot is over, and is counted.
Handler == /\ stage = "up" /\ calls < MaxCalls
           /\ calls' = calls + 1
           /\ UNCHANGED stage

\* A handler that does not.
MemoryUntouched == stage = "up" /\ UNCHANGED memoryVars

ProcessesUntouched == UNCHANGED procVars

\* Ends of the memory's after which the code goes on with undefined behaviour: a
\* NULL is used, a page of the heap is gone.
Undefined == {"malloc", "heapOverwritten"}

\* The kernel stops in the middle of a handler, for want of memory, or behaves
\* in a way nobody knows.
MachineHalts == /\ machine' = IF halt' \in Undefined THEN "faulted" ELSE "halted"
                /\ UNCHANGED <<queue, isIdleRunning, lastClockTickPID, nextPid,
                               processExitingNow, pcb, forked, exitLog, waitLog>>

-----------------------------------------------------------------------------
KernelInit == ProcInit /\ M!BootInit

BootSteps == M!BootStep /\ IF halt' = "no" THEN ProcessesUntouched
                                           ELSE MachineHalts

\* Faulty variant: the copy is made in the caller's own page table.
KernelFork_CopiesToCaller ==
  /\ SystemCall /\ Handler
  /\ \/ M!ForkRefused(Current) /\ ProcessesUntouched
     \/ \E n \in Growths : \/ /\ M!ForkCopies(Current, Current, n)
                              /\ IF halt' = "no" THEN Fork ELSE MachineHalts
                           \/ M!ForkStops(Current, n) /\ MachineHalts

\* The checks come before a pid is taken and the child is listed.  MaxPid bounds
\* the copies that end the kernel's behaviour as it bounds those of Fork.
KernelFork ==
  /\ SystemCall /\ Handler
  /\ \/ M!ForkRefused(Current) /\ ProcessesUntouched
     \/ \E n \in Growths : \/ /\ nextPid <= MaxPid
                              /\ M!ForkCopies(Current, nextPid, n)
                              /\ IF halt' = "no" THEN Fork ELSE MachineHalts
                           \/ M!ForkStops(Current, n) /\ MachineHalts

KernelExec ==
  /\ SystemCall /\ Handler
  /\ \E n \in Growths, prog \in Programs :
       \/ /\ M!ExecRefused(Current, prog, n) \/ M!ExecLoads(Current, prog, n)
          /\ ProcessesUntouched
       \/ M!ExecKills(Current, prog, n) /\ ProgramError
       \/ M!ExecStops(Current, prog, n) /\ MachineHalts

\* Only the exit of a process with a parent calls malloc.
ExitGrowths == IF pcb[Current].parentPid = ORPHAN_PARENT_PID THEN {0}
               ELSE Growths

KernelExit ==
  /\ SystemCall /\ Handler
  /\ \E n \in ExitGrowths, status \in ExitStatuses \cup {ERROR} :
       \/ M!Exit(Current, n) /\ Exit(status)
       \/ M!ExitStops(Current, n) /\ MachineHalts

KernelBrk ==
  /\ SystemCall /\ Handler
  /\ \E page \in BrkPages :
       \/ /\ \/ M!BrkRefused(Current, page)
             \/ M!BrkGrows(Current, page) \/ M!BrkShrinks(Current, page)
          /\ ProcessesUntouched
       \/ M!BrkStops(Current, page) /\ MachineHalts

MemoryTrap ==
  /\ SystemCall /\ Handler
  /\ \E page \in AccessPages :
       \/ M!StackGrows(Current, page) /\ ProcessesUntouched
       \/ \E n \in ExitGrowths :
            \/ M!AccessKills(Current, page, n) /\ ProgramError
            \/ M!AccessStops(Current, page, n) /\ MachineHalts

ReceiveTrap ==
  /\ UserMode /\ Handler
  /\ \E n \in Growths : \/ M!ReceiveMallocs(n) /\ ProcessesUntouched
                        \/ M!ReceiveStops(n) /\ MachineHalts

KernelTick == Tick /\ MemoryUntouched

\* Faulty variant: nothing is freed after the switch.
KernelResume_FreesNothing == stage = "up" /\ Resume /\ UNCHANGED memoryVars

\* A process comes back from a ContextSwitch; if one exited before, it frees
\* that one's memory first.
KernelResume ==
  /\ stage = "up"
  /\ \/ processExitingNow = NULL /\ Resume /\ UNCHANGED memoryVars
     \/ /\ processExitingNow # NULL
        /\ \/ M!FreePageTable(processExitingNow) /\ Resume
           \/ /\ KernelMode
              /\ M!FreePageTableStops(processExitingNow) /\ MachineHalts
        /\ UNCHANGED <<stage, calls>>

KernelWait == (WaitFails \/ WaitCollects \/ WaitBlocks) /\ MemoryUntouched

KernelDelay == /\ \E ticks \in -1 .. MaxDelay : Delay(ticks) \/ DelayReturns(ticks)
               /\ MemoryUntouched

KernelStopped == machine # "running" /\ UNCHANGED kernelVars

KernelNext == \/ BootSteps
              \/ KernelFork \/ KernelExec \/ KernelExit \/ KernelBrk
              \/ MemoryTrap \/ ReceiveTrap
              \/ KernelTick \/ KernelResume
              \/ KernelWait \/ KernelDelay
              \/ KernelStopped

KernelSpec == KernelInit /\ [][KernelNext]_kernelVars

\* As for the process table: boot and handlers run on.
KernelFairSpec == KernelSpec /\ WF_kernelVars(KernelResume)

-----------------------------------------------------------------------------
(* Properties.                                                             *)

\* Once boot is over, exactly the processes with a PCB have an address space,
\* and the two halves of the kernel agree on which exited one is still to be
\* freed: fork, exit and the kills of Exec and of the memory trap never leave a
\* process with a page table and no PCB, or with a PCB and no page table.
SpacesMatch ==
  (stage = "up" /\ machine = "running")
    => DOMAIN space = DOMAIN pcb /\ exiting = processExitingNow

\* The memory of an exited process is back before any program runs again: no
\* system call's check of the free frames, and no page fault's, misses frames
\* that are about to be freed.
ReleasedBeforeUser ==
  (stage = "up" /\ UserMode) => exiting = NULL /\ Current \in DOMAIN space

\* Nothing in the process table stops the kernel: no PCB or exit report that is
\* used is NULL (trapHandlers.c:315, processControlBlock.c:69), and no exit finds
\* another one not cleaned up (processScheduling.c:163).  A halt has one of the
\* memory's reasons, a NULL is malloc's, and the list counts as its last process
\* the one that is the last with an address space.
OnlyMemoryStops ==
  /\ machine = "faulted" => halt \in Undefined
  /\ machine = "halted" => halt \notin Undefined \cup {"no"}
  /\ halt = "lastExit" => Len(queue) = 1

\* What a process does to memory is what Boot allows it, in the order Boot allows:
\* the pid that fork hands out is that of no address space, and the address space
\* freed after an exit is the one the memory expects.
MemoryIsBoots == M!BootSpec

\* Every process that exits gives its memory back, or the kernel halts.
ExitedIsReleased ==
  \A p \in UserPids : exiting = p ~> (p \notin DOMAIN space \/ halt # "no")
=============================================================================
