--------------------------- MODULE FrameAllocator ---------------------------
(***************************************************************************)
(* What the memory of the kernel promises, without page tables: each frame *)
(* is held by one process, by the kernel or by nobody, and changes hands   *)
(* only through being free.  A handler works for one process and for the   *)
(* kernel; it touches no frame of another process.  A frame that nobody    *)
(* holds and that is not free is lost: no handler finds it again.          *)
(***************************************************************************)
EXTENDS Integers, TLAPS

CONSTANTS Frames, Processes

VARIABLES
  held,      \* the frames of each process
  kernel,    \* the frames of the kernel
  free       \* the frames nobody has

allocVars == <<held, kernel, free>>

Exclusive ==
  /\ \A p, q \in Processes : p # q => held[p] \cap held[q] = {}
  /\ \A p \in Processes : held[p] \cap (kernel \cup free) = {}
  /\ kernel \cap free = {}

Init == /\ held \in [Processes -> SUBSET Frames]
        /\ kernel \subseteq Frames /\ free \subseteq Frames
        /\ Exclusive

\* The handler may take free frames for p and for the kernel, give back what
\* these two have, and lose some; what is taken for one is not for the other.
Handler(p) ==
  LET takenBy == held'[p] \ held[p]
      takenByKernel == kernel' \ kernel
  IN /\ held' \in [Processes -> SUBSET Frames]
     /\ \A q \in Processes \ {p} : held'[q] = held[q]
     /\ takenBy \cup takenByKernel \subseteq free
     /\ takenBy \cap takenByKernel = {}
     /\ free' \ free \subseteq held[p] \cup kernel
     /\ free' \cap (held'[p] \cup kernel') = {}

Next == \E p \in Processes : Handler(p)

Spec == Init /\ [][Next]_allocVars

-----------------------------------------------------------------------------
\* A handler leaves each frame with one holder: what it gives to its process or
\* to the kernel was free, and what it frees was held by one of the two.
LEMMA HandlerKeepsExclusive ==
  ASSUME Exclusive, NEW p \in Processes, Handler(p)
  PROVE  Exclusive'
<1>1. ASSUME NEW q \in Processes, NEW r \in Processes, q # r
      PROVE  held'[q] \cap held'[r] = {}
  BY <1>1 DEF Exclusive, Handler
<1>2. ASSUME NEW q \in Processes
      PROVE  held'[q] \cap (kernel' \cup free') = {}
  BY DEF Exclusive, Handler
<1>3. kernel' \cap free' = {}
  BY DEF Handler
<1> QED BY <1>1, <1>2, <1>3 DEF Exclusive

\* No frame ever has two holders, and none that is held is free.
THEOREM AlwaysExclusive == Spec => []Exclusive
<1>1. Init => Exclusive
  BY DEF Init
<1>2. Exclusive /\ [Next]_allocVars => Exclusive'
  BY HandlerKeepsExclusive DEF Next, allocVars, Exclusive
<1> QED BY <1>1, <1>2, PTL DEF Spec
=============================================================================
