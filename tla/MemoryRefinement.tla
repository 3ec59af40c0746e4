-------------------------- MODULE MemoryRefinement --------------------------
(***************************************************************************)
(* Memory implements FrameAllocator: a process holds the frames its page   *)
(* table has valid entries for, the kernel those behind its own pages.     *)
(***************************************************************************)
EXTENDS Boot

Processes == UserPids \cup {IDLE_PID}

HeldBy(p) == IF p \in DOMAIN space THEN FramesIn(space[p].pageTable, Vpns)
             ELSE {}

HeldByKernel == {kernelPageTable[v] : v \in KernelUses}

Allocator == INSTANCE FrameAllocator
               WITH held <- [p \in Processes |-> HeldBy(p)],
                    kernel <- HeldByKernel,
                    free <- Frames \ occupied

\* Boot and every handler map to one handler of the abstract allocator, or to
\* none: no frame passes from one process, or from the kernel, to another
\* without having been free, no handler disturbs the frames of a process it is
\* not about, and a frame once lost is never used again.
ImplementsAllocator == Allocator!Spec
=============================================================================
