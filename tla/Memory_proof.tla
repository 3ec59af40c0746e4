---------------------------- MODULE Memory_proof ----------------------------
(***************************************************************************)
(* Proofs about Memory and Boot, for every size of memory, every layout,   *)
(* every program and every marking left by boot that satisfy the           *)
(* assumptions.                                                            *)
(***************************************************************************)
EXTENDS MemoryRefinement, Frames_proof, SequenceTheorems

-----------------------------------------------------------------------------
(* The inductive invariant, in parts.                                      *)

Entries == Frames \cup {NoFrame}

Spaces == [page : KernelPages, half : Halves, pageTable : [Vpns -> Entries],
           readOnly : SUBSET Vpns, brk : 0 .. KERNEL_STACK_BASE,
           limit : 0 .. KERNEL_STACK_BASE]

TableRecords == [page : KernelPages, frame : Frames, halves : SUBSET Halves]

Exitable == (DOMAIN space \ {IDLE_PID}) \cup {NoProcess}

MemTypes ==
  /\ occupied \subseteq Frames
  /\ kernelBrk \in PAGE_TABLE_LEN .. MaxKernelBrk
  /\ kernelPageTable \in [KernelPages -> Entries]
  /\ records \in Seq(TableRecords)
  /\ IDLE_PID \in DOMAIN space /\ DOMAIN space \subseteq Processes
  /\ space \in [DOMAIN space -> Spaces]
  /\ exiting \in Exitable

\* No two valid entries of the table among the pages V are the same.
OneToOne(pt, V) == \A v, w \in Valid(pt, V) : pt[v] = pt[w] => v = w

\* SingleOwner, in terms of the abstract allocator.
Owners ==
  /\ Allocator!Exclusive
  /\ HeldByKernel \subseteq Frames
  /\ \A p \in DOMAIN space : OneToOne(space[p].pageTable, Vpns)
  /\ OneToOne(kernelPageTable, KernelUses)

\* The pages of page tables are numbered from the top, and mapped.
PagesNumbered ==
  /\ records # << >>
  /\ \A i \in DOMAIN records : records[i].page = TopPage + 1 - i
  /\ \A i \in DOMAIN records : kernelPageTable[records[i].page] = records[i].frame

\* They lie above the heap, which lies above something: a new page of tables
\* never leaves the region.
HeapBelow == /\ PAGE_TABLE_LEN < kernelBrk
             /\ kernelBrk <= records[Len(records)].page

PagesDescend == PagesNumbered /\ HeapBelow

HalvesMatch ==
  /\ space[IDLE_PID].page = TopPage /\ space[IDLE_PID].half = "top"
  /\ \A p, q \in DOMAIN space :
       (space[p].page = space[q].page /\ space[p].half = space[q].half) => p = q
  /\ \A i \in DOMAIN records, half \in Halves :
       half \in records[i].halves <=>
         \E p \in DOMAIN space : space[p].page = records[i].page
                                   /\ space[p].half = half
  /\ \A p \in DOMAIN space : \E i \in DOMAIN records :
       records[i].page = space[p].page

\* The break of idle is never set.
Mapped(s) == \A v \in MEM_INVALID_PAGES .. s.brk - 1 : s.pageTable[v] # NoFrame
BreaksMapped == /\ space[IDLE_PID].brk = 0
                /\ \A p \in DOMAIN space : Mapped(space[p])

\* What holds to the end: also after a page of tables was put on the heap.
MemSound == MemTypes /\ Owners /\ PagesNumbered /\ HalvesMatch /\ BreaksMapped

\* What handlers find.
MemOK == MemTypes /\ Owners /\ PagesDescend /\ HalvesMatch /\ BreaksMapped

-----------------------------------------------------------------------------
(* Constants, and what the invariant implies.                              *)

\* The order of the constants, and what it says of pages and frames.
LEMMA Constants ==
  /\ PAGE_TABLE_LEN \in Nat /\ KERNEL_STACK_BASE \in Nat
  /\ MEM_INVALID_PAGES \in Nat \ {0} /\ NumFrames \in Nat /\ TopPage \in Nat
  /\ MEM_INVALID_PAGES < KERNEL_STACK_BASE
  /\ KERNEL_STACK_BASE < PAGE_TABLE_LEN
  /\ PAGE_TABLE_LEN <= TopPage /\ TopPage < NumFrames
  /\ MaxKernelBrk \in Nat /\ MaxKernelBrk <= TopPage + 1
  /\ KernelPages \subseteq Frames /\ Frames \subseteq Nat
  /\ Vpns \subseteq Nat /\ UserVpns \subseteq Vpns /\ NoFrame \notin Frames
  /\ IDLE_PID \in Processes /\ INIT_PID \in Processes \ {IDLE_PID}
  /\ NoProcess \notin Processes
BY MemoryAssumption DEF TopPage, KernelPages, Frames, Vpns, UserVpns, NoFrame,
   Processes, IDLE_PID, INIT_PID, NoProcess

\* What a page table's valid entries hold.
LEMMA FramesInFacts ==
  ASSUME NEW pt, NEW V
  PROVE  /\ \A v \in V : pt[v] # NoFrame => pt[v] \in FramesIn(pt, V)
         /\ \A f \in FramesIn(pt, V) : \E v \in V : pt[v] = f /\ f # NoFrame
BY DEF FramesIn, Valid

\* What a process holds are frames.
LEMMA HeldTyped ==
  ASSUME MemTypes
  PROVE  \A p \in Processes : HeldBy(p) \subseteq Frames
<1> SUFFICES ASSUME NEW p \in DOMAIN space,
                    NEW f \in FramesIn(space[p].pageTable, Vpns)
             PROVE  f \in Frames
  BY DEF HeldBy
<1>1. space[p] \in Spaces
  BY DEF MemTypes
<1>2. PICK v \in Vpns : space[p].pageTable[v] = f /\ f # NoFrame
  BY FramesInFacts
<1>3. space[p].pageTable \in [Vpns -> Entries]
  BY <1>1 DEF Spaces
<1> QED BY <1>2, <1>3 DEF Entries

\* Frames that back something are occupied.
LEMMA HeldOccupied ==
  ASSUME MemTypes, Owners
  PROVE  /\ HeldByKernel \subseteq occupied
         /\ \A p \in Processes : HeldBy(p) \subseteq occupied
         /\ \A p \in Processes : HeldBy(p) \cap HeldByKernel = {}
         /\ \A p, q \in Processes : p # q => HeldBy(p) \cap HeldBy(q) = {}
<1> DEFINE held == [p \in Processes |-> HeldBy(p)]
<1>1. /\ \A p, q \in Processes : p # q => held[p] \cap held[q] = {}
      /\ \A p \in Processes : held[p] \cap (HeldByKernel \cup (Frames \ occupied)) = {}
      /\ HeldByKernel \cap (Frames \ occupied) = {}
  BY DEF Owners, Allocator!Exclusive
<1>2. \A p \in Processes : held[p] = HeldBy(p)
  OBVIOUS
<1> HIDE DEF held
<1> QED BY <1>1, <1>2, HeldTyped DEF Owners

\* The kernel's pages in use have frames.
LEMMA KernelUsesMapped ==
  ASSUME Owners, NEW v \in KernelUses
  PROVE  /\ v \in KernelPages
         /\ kernelPageTable[v] \in HeldByKernel
         /\ kernelPageTable[v] \in Frames
         /\ kernelPageTable[v] # NoFrame
BY Constants DEF Owners, KernelUses, HeldByKernel

-----------------------------------------------------------------------------
(* Steps of the abstract allocator.                                        *)

\* A step that takes the free frames a for p and k for the kernel, and gives
\* back nothing but what these two hold, is a step of the abstract allocator.
LEMMA HandlerFromEffect ==
  ASSUME NEW p \in Processes, NEW a, NEW k,
         \A q \in Processes : HeldBy(q)' \subseteq Frames,
         \A q \in Processes \ {p} : HeldBy(q)' = HeldBy(q),
         HeldBy(p)' \subseteq HeldBy(p) \cup a,
         HeldByKernel' \subseteq HeldByKernel \cup k,
         a \cup k \subseteq Frames \ occupied, a \cap k = {},
         occupied \ occupied' \subseteq HeldBy(p) \cup HeldByKernel,
         HeldBy(p)' \cup HeldByKernel' \subseteq occupied'
  PROVE  Allocator!Handler(p)
<1> DEFINE held == [q \in Processes |-> HeldBy(q)]
           free == Frames \ occupied
<1>1. \A q \in Processes : held[q] = HeldBy(q) /\ held'[q] = HeldBy(q)'
  OBVIOUS
<1>2. held' \in [Processes -> SUBSET Frames]
  OBVIOUS
<1> HIDE DEF held
<1>3. held'[p] \ held[p] \subseteq a /\ HeldByKernel' \ HeldByKernel \subseteq k
  BY <1>1
<1>4. free' \ free \subseteq held[p] \cup HeldByKernel
  BY <1>1
<1>5. free' \cap (held'[p] \cup HeldByKernel') = {}
  BY <1>1
<1>6. \A q \in Processes \ {p} : held'[q] = held[q]
  BY <1>1
<1>7. /\ (held'[p] \ held[p]) \cup (HeldByKernel' \ HeldByKernel) \subseteq free
      /\ (held'[p] \ held[p]) \cap (HeldByKernel' \ HeldByKernel) = {}
  BY <1>3
<1> HIDE DEF free
<1> QED BY <1>2, <1>4, <1>5, <1>6, <1>7 DEF Allocator!Handler, held, free

\* Owners is kept by such a step if the tables stay one-to-one.
LEMMA OwnersStep ==
  ASSUME Owners, NEW p \in Processes, Allocator!Handler(p),
         HeldByKernel' \subseteq Frames,
         \A q \in DOMAIN space' : OneToOne(space'[q].pageTable, Vpns),
         OneToOne(kernelPageTable, KernelUses)'
  PROVE  Owners'
<1>1. Allocator!Exclusive'
  BY Allocator!HandlerKeepsExclusive DEF Owners
<1> QED BY <1>1 DEF Owners

-----------------------------------------------------------------------------
(* malloc.                                                                 *)

\* The last record, and its page.
LEMMA LastRecord ==
  ASSUME MemTypes, PagesDescend
  PROVE  /\ Len(records) \in Nat \ {0} /\ Len(records) \in DOMAIN records
         /\ DOMAIN records = 1 .. Len(records)
         /\ \A i \in DOMAIN records : /\ records[i] \in TableRecords
                                      /\ records[i].page \in KernelPages
                                      /\ records[i].frame \in Frames
                                      /\ records[i].halves \subseteq Halves
                                      /\ records[i].page \in KernelUses
         /\ kernelPageTable[records[Len(records)].page] # NoFrame
<1>1. Len(records) \in Nat /\ DOMAIN records = 1 .. Len(records)
  BY DEF MemTypes
<1>2. Len(records) # 0
  BY EmptySeq DEF MemTypes, PagesDescend, PagesNumbered, HeapBelow
<1>3. \A i \in DOMAIN records : records[i] \in TableRecords
  BY <1>1, ElementOfSeq DEF MemTypes
<1>4. \A i \in DOMAIN records : /\ records[i].page \in KernelPages
                                /\ records[i].frame \in Frames
                                /\ records[i].halves \subseteq Halves
  BY <1>3 DEF TableRecords
<1>5. \A i \in DOMAIN records : records[i].page \in KernelUses
  BY <1>4 DEF KernelUses
<1>6. Len(records) \in DOMAIN records
  BY <1>1, <1>2
<1>7. kernelPageTable[records[Len(records)].page] \in Frames
  BY <1>4, <1>6 DEF PagesDescend, PagesNumbered, HeapBelow
<1> QED BY <1>1, <1>2, <1>3, <1>4, <1>5, <1>6, <1>7, Constants

\* The heap grows over unused pages below the page tables, into free frames.
LEMMA MallocFacts ==
  ASSUME MemTypes, PagesDescend, NEW n \in Nat, CanMalloc(n),
         NEW h, h = Fresh(occupied, HeapPages(n))
  PROVE  /\ HeapPages(n) \subseteq KernelPages
         /\ h \in [HeapPages(n) -> Frames \ occupied] /\ Injective(h)
         /\ ImageOf(h) \subseteq Frames \ occupied
         /\ occupied \subseteq AfterMalloc(n) /\ AfterMalloc(n) \subseteq Frames
         /\ ImageOf(h) \subseteq AfterMalloc(n)
         /\ MallocTable(n) \in [KernelPages -> Entries]
         /\ \A v \in KernelPages :
              MallocTable(n)[v] = IF v \in HeapPages(n) THEN h[v]
                                  ELSE kernelPageTable[v]
         /\ kernelBrk + n \in PAGE_TABLE_LEN .. MaxKernelBrk
         /\ kernelBrk + n <= records[Len(records)].page
<1>1. kernelBrk \in PAGE_TABLE_LEN .. MaxKernelBrk
  BY DEF MemTypes
<1>2. /\ kernelBrk \in Nat /\ kernelBrk + n <= MaxKernelBrk /\ n <= NumFree(occupied)
      /\ \A v \in HeapPages(n) : kernelPageTable[v] = NoFrame
  BY <1>1, Constants DEF CanMalloc, MeetsTables
<1>3. HeapPages(n) \subseteq KernelPages
  BY <1>1, <1>2, Constants DEF HeapPages, KernelPages
<1>4. /\ HeapPages(n) \in SUBSET Int /\ IsFiniteSet(HeapPages(n))
      /\ Cardinality(HeapPages(n)) = n
  <2>1. kernelBrk + n - 1 \in Int /\ kernelBrk \in Int
    BY <1>2
  <2>2. /\ IsFiniteSet(kernelBrk .. kernelBrk + n - 1)
        /\ Cardinality(kernelBrk .. kernelBrk + n - 1)
             = IF kernelBrk > kernelBrk + n - 1 THEN 0
               ELSE (kernelBrk + n - 1) - kernelBrk + 1
    BY <2>1, FS_Interval
  <2> QED BY <1>2, <2>1, <2>2 DEF HeapPages
<1>5. h \in [HeapPages(n) -> Frames \ occupied] /\ Injective(h)
  BY <1>2, <1>4, FreshFacts
<1>6. ImageOf(h) \subseteq Frames \ occupied
  BY <1>5 DEF ImageOf
<1>7. /\ occupied \subseteq AfterMalloc(n) /\ AfterMalloc(n) \subseteq Frames
      /\ ImageOf(h) \subseteq AfterMalloc(n)
  BY <1>3, <1>6, Constants DEF AfterMalloc, MemTypes
<1>8. /\ MallocTable(n) \in [KernelPages -> Entries]
      /\ \A v \in KernelPages :
              MallocTable(n)[v] = IF v \in HeapPages(n) THEN h[v]
                                  ELSE kernelPageTable[v]
  <2>1. DOMAIN kernelPageTable = KernelPages /\ DOMAIN h = HeapPages(n)
    BY <1>5 DEF MemTypes
  <2>2. MallocTable(n) = [v \in KernelPages |->
                            IF v \in HeapPages(n) THEN h[v] ELSE kernelPageTable[v]]
    BY <2>1 DEF MallocTable, Overlay
  <2>3. \A v \in HeapPages(n) : h[v] \in Entries
    BY <1>5 DEF Entries
  <2>4. \A v \in KernelPages : kernelPageTable[v] \in Entries
    BY DEF MemTypes
  <2> QED BY <2>2, <2>3, <2>4
<1>9. kernelBrk + n <= records[Len(records)].page
  <2>1. /\ records[Len(records)].page \in KernelPages
        /\ kernelPageTable[records[Len(records)].page] # NoFrame
        /\ kernelBrk <= records[Len(records)].page
    BY LastRecord DEF PagesDescend, PagesNumbered, HeapBelow
  <2>2. records[Len(records)].page \notin HeapPages(n)
    BY <1>2, <2>1
  <2> QED BY <1>2, <2>1, <2>2, Constants DEF HeapPages, KernelPages
<1> QED BY <1>1, <1>2, <1>3, <1>5, <1>6, <1>7, <1>8, <1>9, Constants

\* A handler that does not need malloc to extend the heap: n is 0.
LEMMA MallocNothing ==
  ASSUME MemTypes
  PROVE  /\ CanMalloc(0) /\ kernelBrk + 0 = kernelBrk
         /\ AfterMalloc(0) = occupied
         /\ MallocTable(0) = kernelPageTable
<1>1. kernelBrk \in Nat /\ kernelBrk <= MaxKernelBrk
  BY Constants DEF MemTypes
<1>2. HeapPages(0) = {}
  BY <1>1 DEF HeapPages
<1>3. DOMAIN Fresh(occupied, HeapPages(0)) = {}
  BY <1>2 DEF Fresh
<1>4. AfterMalloc(0) = occupied
  BY <1>2, <1>3 DEF AfterMalloc, ImageOf
<1>5. MallocTable(0) = kernelPageTable
  BY <1>3 DEF MallocTable, Overlay, MemTypes
<1>6. NumFree(occupied) \in Nat
  BY FreeFrames
<1>7. CanMalloc(0)
  BY <1>1, <1>2, <1>6 DEF CanMalloc, MeetsTables
<1> QED BY <1>1, <1>4, <1>5, <1>7

\* The kernel's pages with the new ones of the heap have frames of their own.
LEMMA HeapOwned ==
  ASSUME MemTypes, Owners, PagesDescend, NEW n \in Nat, CanMalloc(n),
         NEW h, h = Fresh(occupied, HeapPages(n)),
         NEW uses, uses = KernelUses \cup HeapPages(n)
  PROVE  /\ \A v \in uses : v \in KernelPages /\ MallocTable(n)[v] \in Frames
         /\ \A v \in KernelUses : MallocTable(n)[v] = kernelPageTable[v]
         /\ \A v \in uses : MallocTable(n)[v] \in HeldByKernel \cup ImageOf(h)
         /\ \A v \in uses : MallocTable(n)[v] \in AfterMalloc(n)
         /\ \A v, w \in uses : MallocTable(n)[v] = MallocTable(n)[w] => v = w
<1>1. /\ HeapPages(n) \subseteq KernelPages
      /\ h \in [HeapPages(n) -> Frames \ occupied] /\ Injective(h)
      /\ ImageOf(h) \subseteq AfterMalloc(n)
      /\ occupied \subseteq AfterMalloc(n) /\ AfterMalloc(n) \subseteq Frames
      /\ \A v \in KernelPages :
           MallocTable(n)[v] = IF v \in HeapPages(n) THEN h[v]
                               ELSE kernelPageTable[v]
  BY MallocFacts
<1>2. \A v \in HeapPages(n) : kernelPageTable[v] = NoFrame
  BY DEF CanMalloc, MeetsTables
<1>3. \A v \in KernelUses : /\ v \in KernelPages \ HeapPages(n)
                            /\ kernelPageTable[v] \in HeldByKernel
                            /\ kernelPageTable[v] # NoFrame
  BY <1>2, KernelUsesMapped
<1>4. HeldByKernel \subseteq occupied
  BY HeldOccupied
<1>5. \A v \in HeapPages(n) : /\ MallocTable(n)[v] = h[v]
                              /\ h[v] \in ImageOf(h) /\ h[v] \in Frames \ occupied
  BY <1>1 DEF ImageOf
<1>6. \A v \in KernelUses : MallocTable(n)[v] = kernelPageTable[v]
  BY <1>1, <1>3
<1>7. \A v, w \in HeapPages(n) : h[v] = h[w] => v = w
  BY <1>1 DEF Injective
<1>8. \A v, w \in KernelUses : kernelPageTable[v] = kernelPageTable[w] => v = w
  BY <1>3 DEF Owners, OneToOne, Valid
<1>9. ASSUME NEW v \in uses, NEW w \in uses, MallocTable(n)[v] = MallocTable(n)[w]
      PROVE  v = w
  <2>1. CASE v \in HeapPages(n) /\ w \in HeapPages(n)
    BY <1>5, <1>7, <1>9, <2>1
  <2>2. CASE v \in KernelUses /\ w \in KernelUses
    BY <1>6, <1>8, <1>9, <2>2
  <2>3. CASE v \in HeapPages(n) /\ w \in KernelUses
    BY <1>3, <1>4, <1>5, <1>6, <1>9, <2>3
  <2>4. CASE v \in KernelUses /\ w \in HeapPages(n)
    BY <1>3, <1>4, <1>5, <1>6, <1>9, <2>4
  <2> QED BY <2>1, <2>2, <2>3, <2>4
<1>10. ASSUME NEW v \in uses
       PROVE  /\ v \in KernelPages /\ MallocTable(n)[v] \in Frames
              /\ MallocTable(n)[v] \in HeldByKernel \cup ImageOf(h)
              /\ MallocTable(n)[v] \in AfterMalloc(n)
  <2>1. CASE v \in HeapPages(n)
    BY <1>1, <1>5, <2>1
  <2>2. CASE v \in KernelUses
    BY <1>1, <1>3, <1>4, <1>6, <2>2
  <2> QED BY <2>1, <2>2
<1> QED BY <1>6, <1>9, <1>10

\* The kernel's half of a handler that changes nothing of it but the heap.
LEMMA KernelGrows ==
  ASSUME MemTypes, Owners, PagesDescend, NEW n \in Nat, CanMalloc(n),
         kernelBrk' = kernelBrk + n, kernelPageTable' = MallocTable(n),
         Len(records') = Len(records), DOMAIN records' = DOMAIN records,
         \A i \in DOMAIN records : /\ records'[i].page = records[i].page
                                   /\ records'[i].frame = records[i].frame
  PROVE  /\ kernelBrk' \in PAGE_TABLE_LEN .. MaxKernelBrk
         /\ kernelPageTable' \in [KernelPages -> Entries]
         /\ HeldByKernel' \subseteq
              HeldByKernel \cup ImageOf(Fresh(occupied, HeapPages(n)))
         /\ HeldByKernel' \subseteq AfterMalloc(n)
         /\ HeldByKernel' \subseteq Frames
         /\ OneToOne(kernelPageTable, KernelUses)'
         /\ PagesDescend'
<1> DEFINE h == Fresh(occupied, HeapPages(n))
           uses == KernelUses \cup HeapPages(n)
<1>1. /\ HeapPages(n) \subseteq KernelPages
      /\ MallocTable(n) \in [KernelPages -> Entries]
      /\ kernelBrk + n \in PAGE_TABLE_LEN .. MaxKernelBrk
      /\ kernelBrk + n <= records[Len(records)].page
  BY MallocFacts
<1>2. /\ \A v \in uses : v \in KernelPages /\ MallocTable(n)[v] \in Frames
      /\ \A v \in KernelUses : MallocTable(n)[v] = kernelPageTable[v]
      /\ \A v \in uses : MallocTable(n)[v] \in HeldByKernel \cup ImageOf(h)
      /\ \A v \in uses : MallocTable(n)[v] \in AfterMalloc(n)
      /\ \A v, w \in uses : MallocTable(n)[v] = MallocTable(n)[w] => v = w
  BY HeapOwned
<1>3. KernelUses' = uses
  <2>1. kernelBrk \in Nat
    BY Constants DEF MemTypes
  <2>2. ASSUME NEW v \in KernelPages
        PROVE  v < kernelBrk + n <=> v < kernelBrk \/ v \in HeapPages(n)
    BY <2>1, Constants DEF HeapPages, KernelPages
  <2>3. KernelUses' = {v \in KernelPages : \/ v < kernelBrk + n
                                           \/ \E i \in DOMAIN records : records[i].page = v}
    BY DEF KernelUses
  <2> QED BY <1>1, <2>2, <2>3 DEF KernelUses
<1> HIDE DEF h, uses
<1>4. HeldByKernel' = {MallocTable(n)[v] : v \in uses}
  BY <1>3 DEF HeldByKernel
<1>5. OneToOne(kernelPageTable, KernelUses)'
  BY <1>2, <1>3 DEF OneToOne, Valid
<1>6. PagesDescend'
  <2>0. records' # << >>
    BY LastRecord
  <2>1. \A i \in DOMAIN records : MallocTable(n)[records[i].page] = records[i].frame
    BY <1>2, LastRecord DEF PagesDescend, PagesNumbered, HeapBelow
  <2>2. Len(records) \in DOMAIN records
    BY LastRecord
  <2>3. PAGE_TABLE_LEN < kernelBrk + n
    BY Constants DEF MemTypes, PagesDescend, HeapBelow
  <2> QED BY <1>1, <2>0, <2>1, <2>2, <2>3 DEF PagesDescend, PagesNumbered, HeapBelow
<1> QED BY <1>1, <1>2, <1>4, <1>5, <1>6 DEF h

-----------------------------------------------------------------------------
(* A handler that changes one process's address space, and lets the heap   *)
(* grow.                                                                   *)

\* Whose frames such a handler changes.
LEMMA OneSpaceHeld ==
  ASSUME MemTypes, NEW p \in DOMAIN space, NEW s,
         space' = [space EXCEPT ![p] = s]
  PROVE  /\ DOMAIN space' = DOMAIN space
         /\ space'[p] = s
         /\ \A q \in DOMAIN space \ {p} : space'[q] = space[q]
         /\ HeldBy(p) = FramesIn(space[p].pageTable, Vpns)
         /\ HeldBy(p)' = FramesIn(s.pageTable, Vpns)
         /\ \A q \in Processes \ {p} : HeldBy(q)' = HeldBy(q)
<1>1. /\ DOMAIN space' = DOMAIN space /\ space'[p] = s
      /\ \A q \in DOMAIN space \ {p} : space'[q] = space[q]
  OBVIOUS
<1>2. HeldBy(p) = FramesIn(space[p].pageTable, Vpns)
  BY DEF HeldBy
<1>3. HeldBy(p)' = FramesIn(s.pageTable, Vpns)
  BY <1>1 DEF HeldBy
<1>4. ASSUME NEW q \in Processes \ {p}
      PROVE  HeldBy(q)' = HeldBy(q)
  BY <1>1 DEF HeldBy
<1> QED BY <1>1, <1>2, <1>3, <1>4

\* s is p's address space after the handler, a are the frames it took for p;
\* what it gave back was p's.
LEMMA OneSpaceStep ==
  ASSUME MemOK, NEW p \in DOMAIN space, NEW s \in Spaces, NEW a,
         NEW n \in Nat, CanMalloc(n), kernelBrk' = kernelBrk + n,
         kernelPageTable' = MallocTable(n), records' = records,
         space' = [space EXCEPT ![p] = s],
         s.page = space[p].page, s.half = space[p].half,
         exiting' \in Exitable,
         OneToOne(s.pageTable, Vpns), Mapped(s), p = IDLE_PID => s.brk = 0,
         a \subseteq Frames \ AfterMalloc(n),
         FramesIn(s.pageTable, Vpns) \subseteq HeldBy(p) \cup a,
         FramesIn(s.pageTable, Vpns) \subseteq occupied',
         occupied' \subseteq Frames,
         AfterMalloc(n) \ occupied' \subseteq HeldBy(p)
  PROVE  MemOK' /\ Allocator!Handler(p)
<1> DEFINE h == Fresh(occupied, HeapPages(n))
<1>1. MemTypes /\ Owners /\ PagesDescend /\ HalvesMatch /\ BreaksMapped
  BY DEF MemOK
<1>2. /\ DOMAIN space' = DOMAIN space /\ space'[p] = s
      /\ \A q \in DOMAIN space \ {p} : space'[q] = space[q]
      /\ HeldBy(p)' = FramesIn(s.pageTable, Vpns)
      /\ \A q \in Processes \ {p} : HeldBy(q)' = HeldBy(q)
  BY <1>1, OneSpaceHeld
<1>3. p \in Processes
  BY <1>1 DEF MemTypes
<1>4. /\ kernelBrk' \in PAGE_TABLE_LEN .. MaxKernelBrk
      /\ kernelPageTable' \in [KernelPages -> Entries]
      /\ HeldByKernel' \subseteq HeldByKernel \cup ImageOf(h)
      /\ HeldByKernel' \subseteq AfterMalloc(n) /\ HeldByKernel' \subseteq Frames
      /\ OneToOne(kernelPageTable, KernelUses)' /\ PagesDescend'
  BY <1>1, KernelGrows
<1>5. /\ ImageOf(h) \subseteq Frames \ occupied /\ ImageOf(h) \subseteq AfterMalloc(n)
      /\ occupied \subseteq AfterMalloc(n)
  BY <1>1, MallocFacts
<1>6. /\ \A q \in Processes : HeldBy(q) \subseteq Frames
      /\ HeldBy(p) \subseteq occupied /\ HeldBy(p) \cap HeldByKernel = {}
  BY <1>1, <1>3, HeldTyped, HeldOccupied
<1> HIDE DEF h
<1>7. \A q \in Processes : HeldBy(q)' \subseteq Frames
  BY <1>2, <1>6
<1>8. HeldBy(p)' \cup HeldByKernel' \subseteq occupied'
  BY <1>2, <1>4, <1>5, <1>6
<1>9. Allocator!Handler(p)
  <2>1. a \cup ImageOf(h) \subseteq Frames \ occupied /\ a \cap ImageOf(h) = {}
    BY <1>5
  <2>2. occupied \ occupied' \subseteq HeldBy(p) \cup HeldByKernel
    BY <1>5
  <2>3. HeldBy(p)' \subseteq HeldBy(p) \cup a
    BY <1>2
  <2> QED BY <1>2, <1>3, <1>4, <1>7, <1>8, <2>1, <2>2, <2>3, HandlerFromEffect
<1>10. Owners'
  <2>1. \A q \in DOMAIN space' : OneToOne(space'[q].pageTable, Vpns)
    BY <1>1, <1>2 DEF Owners
  <2> QED BY <1>1, <1>3, <1>4, <1>9, <2>1, OwnersStep
<1>11. MemTypes'
  <2>1. \A q \in DOMAIN space : space'[q] \in Spaces
    BY <1>1, <1>2 DEF MemTypes
  <2>2. space' \in [DOMAIN space' -> Spaces]
    BY <1>2, <2>1
  <2>3. exiting' \in Exitable'
    BY <1>2 DEF Exitable
  <2> QED BY <1>1, <1>2, <1>4, <2>2, <2>3 DEF MemTypes
<1>12. HalvesMatch'
  <2>1. \A q \in DOMAIN space : /\ space'[q].page = space[q].page
                                /\ space'[q].half = space[q].half
    BY <1>2
  <2>2. IDLE_PID \in DOMAIN space
    BY <1>1 DEF MemTypes
  <2> QED BY <1>1, <1>2, <2>1, <2>2 DEF HalvesMatch
<1>13. BreaksMapped'
  <2>1. IDLE_PID \in DOMAIN space
    BY <1>1 DEF MemTypes
  <2> QED BY <1>1, <1>2, <2>1 DEF BreaksMapped
<1> QED BY <1>4, <1>9, <1>10, <1>11, <1>12, <1>13 DEF MemOK

-----------------------------------------------------------------------------
(* The handlers that change one address space, or none.                    *)

\* A process's entry of space.
LEMMA SpaceFacts ==
  ASSUME MemOK, NEW p \in DOMAIN space
  PROVE  /\ p \in Processes
         /\ space[p] \in Spaces
         /\ space[p].pageTable \in [Vpns -> Entries]
         /\ space[p].page \in KernelPages /\ space[p].half \in Halves
         /\ space[p].readOnly \subseteq Vpns
         /\ space[p].brk \in 0 .. KERNEL_STACK_BASE
         /\ space[p].limit \in 0 .. KERNEL_STACK_BASE
         /\ OneToOne(space[p].pageTable, Vpns)
         /\ Mapped(space[p])
         /\ FramesIn(space[p].pageTable, Vpns) = HeldBy(p)
         /\ HeldBy(p) \subseteq occupied
<1>1. p \in Processes /\ space[p] \in Spaces
  BY DEF MemOK, MemTypes
<1>2. OneToOne(space[p].pageTable, Vpns) /\ Mapped(space[p])
  BY DEF MemOK, Owners, BreaksMapped
<1>3. FramesIn(space[p].pageTable, Vpns) = HeldBy(p) /\ HeldBy(p) \subseteq occupied
  BY <1>1, HeldOccupied DEF MemOK, HeldBy
<1> QED BY <1>1, <1>2, <1>3 DEF Spaces

\* LoadProgram's refusals, exits and the receive interrupt: only the heap grows.
LEMMA HeapStep ==
  ASSUME MemOK, NEW n \in Nat, Malloc(n), occupied' = AfterMalloc(n),
         kernelPageTable' = MallocTable(n), records' = records, space' = space,
         exiting' \in Exitable
  PROVE  MemOK' /\ Allocator!Handler(IDLE_PID)
<1> DEFINE s == space[IDLE_PID]
<1>1. IDLE_PID \in DOMAIN space /\ space \in [DOMAIN space -> Spaces]
  BY DEF MemOK, MemTypes
<1>2. /\ s \in Spaces /\ OneToOne(s.pageTable, Vpns) /\ Mapped(s)
      /\ FramesIn(s.pageTable, Vpns) = HeldBy(IDLE_PID)
      /\ HeldBy(IDLE_PID) \subseteq occupied
  BY <1>1, SpaceFacts
<1>3. s.brk = 0
  BY DEF MemOK, BreaksMapped
<1>4. space' = [space EXCEPT ![IDLE_PID] = s]
  BY <1>1
<1>5. CanMalloc(n) /\ kernelBrk' = kernelBrk + n
  BY DEF Malloc
<1>6. occupied \subseteq AfterMalloc(n) /\ AfterMalloc(n) \subseteq Frames
  BY <1>5, MallocFacts DEF MemOK
<1>7. /\ {} \subseteq Frames \ AfterMalloc(n)
      /\ FramesIn(s.pageTable, Vpns) \subseteq HeldBy(IDLE_PID) \cup {}
      /\ FramesIn(s.pageTable, Vpns) \subseteq occupied'
      /\ AfterMalloc(n) \ occupied' \subseteq HeldBy(IDLE_PID)
  BY <1>2, <1>6
<1> HIDE DEF s
<1>8. s.page = space[IDLE_PID].page /\ s.half = space[IDLE_PID].half
  BY DEF s
<1> QED BY <1>1, <1>2, <1>3, <1>4, <1>5, <1>6, <1>7, <1>8, OneSpaceStep

\* The table pt with the new frames of the pages F in it.
LEMMA OverlayFacts ==
  ASSUME NEW pt \in [Vpns -> Entries], NEW F \in SUBSET Vpns,
         NEW g \in [F -> Frames], Injective(g), OneToOne(pt, Vpns),
         FramesIn(pt, Vpns) \cap ImageOf(g) = {}
  PROVE  /\ Overlay(pt, g) \in [Vpns -> Entries]
         /\ \A v \in Vpns : Overlay(pt, g)[v] = IF v \in F THEN g[v] ELSE pt[v]
         /\ \A v \in Vpns : pt[v] # NoFrame => Overlay(pt, g)[v] # NoFrame
         /\ FramesIn(Overlay(pt, g), Vpns) \subseteq FramesIn(pt, Vpns) \cup ImageOf(g)
         /\ OneToOne(Overlay(pt, g), Vpns)
<1> DEFINE o == Overlay(pt, g)
<1>1. DOMAIN pt = Vpns /\ DOMAIN g = F
  OBVIOUS
<1>2. o = [v \in Vpns |-> IF v \in F THEN g[v] ELSE pt[v]]
  BY <1>1 DEF Overlay
<1>3. \A v \in F : g[v] \in ImageOf(g) /\ g[v] \in Entries /\ g[v] # NoFrame
  BY <1>1, Constants DEF Entries, ImageOf
<1>4. \A v \in Vpns : pt[v] \in Entries
  OBVIOUS
<1>5. o \in [Vpns -> Entries]
  BY <1>2, <1>3, <1>4
<1>6. \A v \in Vpns : o[v] = IF v \in F THEN g[v] ELSE pt[v]
  BY <1>2
<1> HIDE DEF o
<1>8. \A v \in Vpns : pt[v] # NoFrame => pt[v] \in FramesIn(pt, Vpns)
  BY FramesInFacts
<1>9. FramesIn(o, Vpns) \subseteq FramesIn(pt, Vpns) \cup ImageOf(g)
  <2> SUFFICES ASSUME NEW f \in FramesIn(o, Vpns)
               PROVE  f \in FramesIn(pt, Vpns) \cup ImageOf(g)
    OBVIOUS
  <2>1. PICK v \in Vpns : o[v] = f /\ f # NoFrame
    BY FramesInFacts
  <2> QED BY <1>3, <1>6, <1>8, <2>1
<1>10. OneToOne(o, Vpns)
  <2> SUFFICES ASSUME NEW v \in Vpns, NEW w \in Vpns, o[v] # NoFrame, o[v] = o[w]
               PROVE  v = w
    BY DEF OneToOne, Valid
  <2>1. CASE v \in F /\ w \in F
    BY <1>1, <1>6, <2>1 DEF Injective
  <2>2. CASE v \notin F /\ w \notin F
    BY <1>6, <2>2 DEF OneToOne, Valid
  <2>3. CASE v \in F /\ w \notin F
    BY <1>3, <1>6, <1>8, <2>3
  <2>4. CASE v \notin F /\ w \in F
    BY <1>3, <1>6, <1>8, <2>4
  <2> QED BY <2>1, <2>2, <2>3, <2>4
<1>11. \A v \in Vpns : pt[v] # NoFrame => o[v] # NoFrame
  BY <1>3, <1>6
<1> QED BY <1>5, <1>6, <1>9, <1>10, <1>11 DEF o

\* A process gets free frames for the pages F.
LEMMA SpaceGrows ==
  ASSUME MemOK, NEW p \in DOMAIN space \ {IDLE_PID}, NEW F \in SUBSET Vpns,
         NEW g \in [F -> Frames \ occupied], Injective(g),
         NEW s \in Spaces, s.page = space[p].page, s.half = space[p].half,
         s.pageTable = Overlay(space[p].pageTable, g), Mapped(s),
         space' = [space EXCEPT ![p] = s],
         occupied' = occupied \cup ImageOf(g),
         UNCHANGED <<kernelBrk, kernelPageTable, records, exiting>>
  PROVE  MemOK' /\ Allocator!Handler(p)
<1>1. /\ space[p].pageTable \in [Vpns -> Entries]
      /\ OneToOne(space[p].pageTable, Vpns)
      /\ FramesIn(space[p].pageTable, Vpns) = HeldBy(p)
      /\ HeldBy(p) \subseteq occupied
  BY SpaceFacts
<1>2. /\ FramesIn(s.pageTable, Vpns) \subseteq HeldBy(p) \cup ImageOf(g)
      /\ ImageOf(g) \subseteq Frames \ occupied
      /\ OneToOne(s.pageTable, Vpns)
  <2>1. ImageOf(g) \subseteq Frames \ occupied /\ g \in [F -> Frames]
    BY DEF ImageOf
  <2>2. FramesIn(space[p].pageTable, Vpns) \cap ImageOf(g) = {}
    BY <1>1, <2>1
  <2>3. /\ FramesIn(Overlay(space[p].pageTable, g), Vpns)
             \subseteq FramesIn(space[p].pageTable, Vpns) \cup ImageOf(g)
        /\ OneToOne(Overlay(space[p].pageTable, g), Vpns)
    BY <1>1, <2>1, <2>2, OverlayFacts
  <2> QED BY <1>1, <2>1, <2>3
<1>3. MemTypes
  BY DEF MemOK
<1>4. /\ CanMalloc(0) /\ kernelBrk' = kernelBrk + 0
      /\ AfterMalloc(0) = occupied /\ kernelPageTable' = MallocTable(0)
  BY <1>3, MallocNothing
<1>5. /\ ImageOf(g) \subseteq Frames \ AfterMalloc(0)
      /\ FramesIn(s.pageTable, Vpns) \subseteq occupied'
      /\ occupied' \subseteq Frames
      /\ AfterMalloc(0) \ occupied' \subseteq HeldBy(p)
  BY <1>1, <1>2, <1>3, <1>4 DEF MemTypes
<1>6. exiting' \in Exitable /\ records' = records
  BY <1>3 DEF MemTypes
<1> QED BY <1>2, <1>4, <1>5, <1>6, OneSpaceStep

\* The user pages from one to the page before another.
LEMMA UserRange ==
  ASSUME NEW a \in Nat, NEW b \in 0 .. KERNEL_STACK_BASE
  PROVE  /\ a .. b - 1 \in SUBSET Vpns /\ a .. b - 1 \in SUBSET Int
         /\ IsFiniteSet(a .. b - 1)
         /\ \A k \in Nat : b - a <= k => Cardinality(a .. b - 1) <= k
<1>1. b \in Nat /\ b - 1 \in Int /\ a \in Int /\ b <= KERNEL_STACK_BASE
  BY Constants
<1>2. /\ IsFiniteSet(a .. b - 1)
      /\ Cardinality(a .. b - 1) = IF a > b - 1 THEN 0 ELSE (b - 1) - a + 1
  BY <1>1, FS_Interval
<1>3. a .. b - 1 \in SUBSET Vpns
  BY <1>1, Constants DEF Vpns
<1> QED BY <1>1, <1>2, <1>3

\* Brk raises the break.
LEMMA BrkGrowsStep ==
  ASSUME MemOK, NEW p \in UserPids, NEW page \in Nat, BrkGrows(p, page)
  PROVE  MemOK' /\ Allocator!Handler(p)
<1> DEFINE F == space[p].brk .. page - 1
           g == Fresh(occupied, F)
           s == [space[p] EXCEPT !.pageTable = Overlay(@, g), !.brk = page]
<1>1. /\ p \in DOMAIN space \ {IDLE_PID}
      /\ MEM_INVALID_PAGES < page /\ page < space[p].limit
      /\ page >= space[p].brk /\ page - space[p].brk <= NumFree(occupied)
      /\ occupied' = occupied \cup ImageOf(g)
      /\ space' = [space EXCEPT ![p].pageTable = Overlay(@, g), ![p].brk = page]
      /\ UNCHANGED <<kernelBrk, kernelPageTable, records, exiting>>
  BY DEF BrkGrows, BrkAllowed, Running
<1>2. /\ space[p] \in Spaces /\ space[p].pageTable \in [Vpns -> Entries]
      /\ space[p].brk \in 0 .. KERNEL_STACK_BASE
      /\ space[p].limit \in 0 .. KERNEL_STACK_BASE
      /\ OneToOne(space[p].pageTable, Vpns) /\ Mapped(space[p])
      /\ FramesIn(space[p].pageTable, Vpns) = HeldBy(p)
      /\ HeldBy(p) \subseteq occupied
  BY <1>1, SpaceFacts
<1>3. page \in 0 .. KERNEL_STACK_BASE /\ space[p].brk \in Nat
  BY <1>1, <1>2, Constants
<1>4. /\ F \in SUBSET Vpns /\ F \in SUBSET Int /\ IsFiniteSet(F)
      /\ Cardinality(F) <= NumFree(occupied)
  BY <1>1, <1>3, UserRange, FreeFrames
<1>5. g \in [F -> Frames \ occupied] /\ Injective(g)
  BY <1>4, FreshFacts
<1> HIDE DEF g
<1>6. /\ Overlay(space[p].pageTable, g) \in [Vpns -> Entries]
      /\ \A v \in Vpns : Overlay(space[p].pageTable, g)[v]
                           = IF v \in F THEN g[v] ELSE space[p].pageTable[v]
  <2>1. /\ g \in [F -> Frames]
        /\ FramesIn(space[p].pageTable, Vpns) \cap ImageOf(g) = {}
    BY <1>2, <1>5 DEF ImageOf
  <2> HIDE DEF F
  <2> QED BY <1>2, <1>4, <1>5, <2>1, OverlayFacts
<1>7. /\ s.pageTable = Overlay(space[p].pageTable, g) /\ s.brk = page
      /\ s.page = space[p].page /\ s.half = space[p].half /\ s \in Spaces
  BY <1>2, <1>3, <1>6 DEF Spaces
<1>8. space' = [space EXCEPT ![p] = s]
  BY <1>1
<1>9. Mapped(s)
  <2> HIDE DEF s
  <2> SUFFICES ASSUME NEW v \in MEM_INVALID_PAGES .. page - 1
               PROVE  Overlay(space[p].pageTable, g)[v] # NoFrame
    BY <1>7 DEF Mapped
  <2>1. v \in Vpns
    BY <1>3, Constants DEF Vpns
  <2>2. CASE v \in F
    BY <1>5, <1>6, <2>1, <2>2, Constants
  <2>3. CASE v \notin F
    <3>1. v \in MEM_INVALID_PAGES .. space[p].brk - 1
      BY <1>3, <2>3, Constants
    <3> QED BY <1>2, <1>6, <2>1, <2>3, <3>1 DEF Mapped
  <2> QED BY <2>2, <2>3
<1> HIDE DEF s, F
<1> QED BY <1>1, <1>4, <1>5, <1>7, <1>8, <1>9, SpaceGrows

\* The stack grows down to the page accessed.
LEMMA StackGrowsStep ==
  ASSUME MemOK, NEW p \in UserPids, NEW page \in Nat, StackGrows(p, page)
  PROVE  MemOK' /\ Allocator!Handler(p)
<1> DEFINE F == page .. space[p].limit - 1
           g == FreshDown(occupied, F)
           s == [space[p] EXCEPT !.pageTable = Overlay(@, g),
                                 !.readOnly = @ \ F, !.limit = page]
<1>1. /\ p \in DOMAIN space \ {IDLE_PID}
      /\ page < space[p].limit /\ space[p].limit - page <= NumFree(occupied)
      /\ occupied' = occupied \cup ImageOf(g)
      /\ space' = [space EXCEPT ![p].pageTable = Overlay(@, g),
                                ![p].readOnly = @ \ F, ![p].limit = page]
      /\ UNCHANGED <<kernelBrk, kernelPageTable, records, exiting>>
  BY DEF StackGrows, MayGrow, Running
<1>2. /\ space[p] \in Spaces /\ space[p].pageTable \in [Vpns -> Entries]
      /\ space[p].limit \in 0 .. KERNEL_STACK_BASE
      /\ space[p].readOnly \subseteq Vpns
      /\ OneToOne(space[p].pageTable, Vpns) /\ Mapped(space[p])
      /\ FramesIn(space[p].pageTable, Vpns) = HeldBy(p)
      /\ HeldBy(p) \subseteq occupied
  BY <1>1, SpaceFacts
<1>3. page \in 0 .. KERNEL_STACK_BASE
  BY <1>1, <1>2, Constants
<1>4. /\ F \in SUBSET Vpns /\ F \in SUBSET Int /\ IsFiniteSet(F)
      /\ Cardinality(F) <= NumFree(occupied)
  BY <1>1, <1>2, UserRange, FreeFrames
<1>5. g \in [F -> Frames \ occupied] /\ Injective(g)
  BY <1>4, FreshDownFacts
<1> HIDE DEF g
<1>6. /\ Overlay(space[p].pageTable, g) \in [Vpns -> Entries]
      /\ \A v \in Vpns : space[p].pageTable[v] # NoFrame
                           => Overlay(space[p].pageTable, g)[v] # NoFrame
  <2>1. /\ g \in [F -> Frames]
        /\ FramesIn(space[p].pageTable, Vpns) \cap ImageOf(g) = {}
    BY <1>2, <1>5 DEF ImageOf
  <2> HIDE DEF F
  <2> QED BY <1>2, <1>4, <1>5, <2>1, OverlayFacts
<1>7. /\ s.pageTable = Overlay(space[p].pageTable, g) /\ s.brk = space[p].brk
      /\ s.page = space[p].page /\ s.half = space[p].half /\ s \in Spaces
  BY <1>2, <1>3, <1>6 DEF Spaces
<1>8. space' = [space EXCEPT ![p] = s]
  BY <1>1
<1>9. Mapped(s)
  <2> HIDE DEF s
  <2> SUFFICES ASSUME NEW v \in MEM_INVALID_PAGES .. space[p].brk - 1
               PROVE  Overlay(space[p].pageTable, g)[v] # NoFrame
    BY <1>7 DEF Mapped
  <2>1. v \in Vpns
    BY <1>2, Constants, SpaceFacts DEF Vpns, Spaces
  <2> QED BY <1>2, <1>6, <2>1 DEF Mapped
<1> HIDE DEF s, F
<1> QED BY <1>1, <1>4, <1>5, <1>7, <1>8, <1>9, SpaceGrows

\* The table after the entries of the pages G were cleared.
LEMMA ClearedFacts ==
  ASSUME NEW pt \in [Vpns -> Entries], NEW G \in SUBSET Vpns,
         OneToOne(pt, Vpns), NEW c,
         c = [v \in Vpns |-> IF v \in G THEN NoFrame ELSE pt[v]]
  PROVE  /\ c \in [Vpns -> Entries] /\ OneToOne(c, Vpns)
         /\ FramesIn(c, Vpns) \subseteq FramesIn(pt, Vpns)
         /\ FramesIn(pt, G) \subseteq FramesIn(pt, Vpns)
         /\ FramesIn(c, Vpns) \cap FramesIn(pt, G) = {}
<1>1. c \in [Vpns -> Entries]
  BY DEF Entries
<1>2. \A v \in Vpns : c[v] = IF v \in G THEN NoFrame ELSE pt[v]
  OBVIOUS
<1>3. OneToOne(c, Vpns)
  BY <1>2 DEF OneToOne, Valid
<1>4. FramesIn(c, Vpns) \subseteq FramesIn(pt, Vpns)
  <2> SUFFICES ASSUME NEW f \in FramesIn(c, Vpns)
               PROVE  f \in FramesIn(pt, Vpns)
    OBVIOUS
  <2>1. PICK v \in Vpns : c[v] = f /\ f # NoFrame
    BY FramesInFacts
  <2>2. pt[v] = f
    BY <1>2, <2>1
  <2> QED BY <2>1, <2>2, FramesInFacts
<1>5. FramesIn(pt, G) \subseteq FramesIn(pt, Vpns)
  BY DEF FramesIn, Valid
<1>6. FramesIn(c, Vpns) \cap FramesIn(pt, G) = {}
  <2> SUFFICES ASSUME NEW f \in FramesIn(c, Vpns), f \in FramesIn(pt, G)
               PROVE  FALSE
    OBVIOUS
  <2>1. PICK v \in Vpns : c[v] = f /\ f # NoFrame
    BY FramesInFacts
  <2>2. PICK w \in G : pt[w] = f
    BY FramesInFacts
  <2>3. v \notin G /\ pt[v] = f
    BY <1>2, <2>1
  <2>4. v = w
    BY <2>1, <2>2, <2>3 DEF OneToOne, Valid
  <2> QED BY <2>3, <2>4
<1> QED BY <1>1, <1>3, <1>4, <1>5, <1>6

\* Brk lowers the break.
LEMMA BrkShrinksStep ==
  ASSUME MemOK, NEW p \in UserPids, NEW page \in Nat, BrkShrinks(p, page)
  PROVE  MemOK' /\ Allocator!Handler(p)
<1> DEFINE given == page .. space[p].brk - 1
           pt == space[p].pageTable
           c == [v \in Vpns |-> IF v \in given THEN NoFrame ELSE pt[v]]
           s == [space[p] EXCEPT !.pageTable = c, !.brk = page]
<1>1. /\ p \in DOMAIN space /\ p # IDLE_PID
      /\ page < space[p].brk
      /\ occupied' = occupied \ FramesIn(pt, given)
      /\ space' = [space EXCEPT ![p].pageTable =
                                  Overlay(@, [v \in given |-> NoFrame]),
                                ![p].brk = page]
      /\ UNCHANGED <<kernelBrk, kernelPageTable, records, exiting>>
  BY DEF BrkShrinks, BrkAllowed, Running
<1>2. /\ p \in Processes /\ space[p] \in Spaces /\ pt \in [Vpns -> Entries]
      /\ space[p].brk \in 0 .. KERNEL_STACK_BASE
      /\ OneToOne(pt, Vpns) /\ Mapped(space[p])
      /\ FramesIn(pt, Vpns) = HeldBy(p) /\ HeldBy(p) \subseteq occupied
  BY <1>1, SpaceFacts
<1>3. page \in 0 .. KERNEL_STACK_BASE
  BY <1>1, <1>2, Constants
<1>4. given \in SUBSET Vpns
  BY <1>2, UserRange
<1>5. Overlay(pt, [v \in given |-> NoFrame]) = c
  BY <1>2 DEF Overlay
<1>6. /\ c \in [Vpns -> Entries] /\ OneToOne(c, Vpns)
      /\ FramesIn(c, Vpns) \subseteq FramesIn(pt, Vpns)
      /\ FramesIn(pt, given) \subseteq FramesIn(pt, Vpns)
      /\ FramesIn(c, Vpns) \cap FramesIn(pt, given) = {}
  <2> HIDE DEF given
  <2> QED BY <1>2, <1>4, ClearedFacts
<1>7. \A v \in Vpns \ given : c[v] = pt[v]
  OBVIOUS
<1> HIDE DEF c
<1>8. /\ s.pageTable = c /\ s.brk = page
      /\ s.page = space[p].page /\ s.half = space[p].half /\ s \in Spaces
  BY <1>2, <1>3, <1>6 DEF Spaces
<1>9. space' = [space EXCEPT ![p] = s]
  BY <1>1, <1>5
<1>10. Mapped(s)
  <2> HIDE DEF s
  <2> SUFFICES ASSUME NEW v \in MEM_INVALID_PAGES .. page - 1
               PROVE  c[v] # NoFrame
    BY <1>8 DEF Mapped
  <2>1. v \in Vpns \ given /\ v \in MEM_INVALID_PAGES .. space[p].brk - 1
    BY <1>1, <1>2, <1>3, Constants DEF Vpns
  <2> QED BY <1>2, <1>7, <2>1 DEF Mapped
<1> HIDE DEF s, given, pt
<1>11. MemTypes
  BY DEF MemOK
<1>12. /\ CanMalloc(0) /\ kernelBrk' = kernelBrk + 0
       /\ AfterMalloc(0) = occupied /\ kernelPageTable' = MallocTable(0)
  BY <1>1, <1>11, MallocNothing
<1>13. /\ {} \subseteq Frames \ AfterMalloc(0)
       /\ FramesIn(s.pageTable, Vpns) \subseteq HeldBy(p) \cup {}
       /\ FramesIn(s.pageTable, Vpns) \subseteq occupied'
       /\ occupied' \subseteq Frames
       /\ AfterMalloc(0) \ occupied' \subseteq HeldBy(p)
  BY <1>1, <1>2, <1>6, <1>8, <1>11, <1>12 DEF MemTypes
<1>14. exiting' \in Exitable /\ records' = records /\ OneToOne(s.pageTable, Vpns)
  BY <1>1, <1>6, <1>8, <1>11 DEF MemTypes
<1> QED BY <1>1, <1>8, <1>9, <1>10, <1>12, <1>13, <1>14, OneSpaceStep

-----------------------------------------------------------------------------
(* LoadProgram.                                                            *)

\* A one-to-one table has as many frames in it as valid entries.
LEMMA CountFramesIn ==
  ASSUME NEW pt \in [Vpns -> Entries], NEW V \in SUBSET Vpns,
         OneToOne(pt, Vpns)
  PROVE  /\ IsFiniteSet(FramesIn(pt, V)) /\ IsFiniteSet(Valid(pt, V))
         /\ Cardinality(FramesIn(pt, V)) = Cardinality(Valid(pt, V))
         /\ Cardinality(Valid(pt, V)) \in Nat
<1> DEFINE S == Valid(pt, V)
           T == FramesIn(pt, V)
           f == [v \in S |-> pt[v]]
<1>1. IsFiniteSet(S)
  <2>1. IsFiniteSet(Vpns)
    BY Constants, FS_Interval DEF Vpns
  <2>2. S \in SUBSET Vpns
    BY DEF Valid
  <2> QED BY <2>1, <2>2, FS_Subset
<1>2. \A v \in S : pt[v] \in T
  BY DEF FramesIn
<1>3. \A t \in T : \E v \in S : pt[v] = t
  BY DEF FramesIn
<1>4. \A v, w \in S : pt[v] = pt[w] => v = w
  BY DEF OneToOne, Valid
<1> HIDE DEF S, T
<1>5. f \in [S -> T]
  BY <1>2
<1>6. f \in Injection(S, T)
  BY <1>4, <1>5 DEF Injection, IsInjective
<1>7. f \in Surjection(S, T)
  BY <1>3, <1>5 DEF Surjection
<1>8. ExistsBijection(S, T)
  BY <1>6, <1>7 DEF ExistsBijection, Bijection
<1>9. IsFiniteSet(T) /\ Cardinality(T) = Cardinality(S)
  BY <1>1, <1>8, FS_Bijection
<1>10. Cardinality(S) \in Nat
  BY <1>1, FS_CardinalityType
<1> QED BY <1>1, <1>9, <1>10 DEF S, T

\* Frames given back are free in addition to those that were.
LEMMA CountFreed ==
  ASSUME NEW occ, NEW gone \in SUBSET occ, occ \subseteq Frames,
         IsFiniteSet(gone)
  PROVE  NumFree(occ \ gone) = NumFree(occ) + Cardinality(gone)
<1> DEFINE S == Frames \ occ
<1>1. IsFiniteSet(S) /\ Cardinality(S) = NumFree(occ) /\ NumFree(occ) \in Nat
  BY FreeFrames DEF NumFree
<1>2. Frames \ (occ \ gone) = S \cup gone /\ S \cap gone = {}
  OBVIOUS
<1> HIDE DEF S
<1>3. Cardinality(S \cup gone) = Cardinality(S) + Cardinality(gone) - Cardinality(S \cap gone)
  BY <1>1, FS_Union
<1>4. Cardinality(S \cap gone) = 0 /\ Cardinality(gone) \in Nat
  BY <1>2, FS_EmptySet, FS_CardinalityType
<1>5. NumFree(occ \ gone) = Cardinality(S \cup gone)
  BY <1>2 DEF NumFree
<1> QED BY <1>1, <1>3, <1>4, <1>5

\* An image that fits the user's part of Region 0 lies there, and has no more
\* pages than its text, data and stack.
LEMMA ImageFacts ==
  ASSUME NEW prog \in Program, FitsVirtual(prog)
  PROVE  /\ ImagePages(prog) \subseteq UserVpns /\ ImagePages(prog) \in SUBSET Int
         /\ IsFiniteSet(ImagePages(prog))
         /\ Cardinality(ImagePages(prog)) \in Nat
         /\ Cardinality(ImagePages(prog)) <= prog.text + prog.data + prog.stack
         /\ TextPages(prog) \subseteq Vpns
         /\ HeapStart(prog) \in 0 .. KERNEL_STACK_BASE
         /\ prog.text + prog.data + prog.stack \in Nat
<1>1. prog.text \in Nat /\ prog.data \in Nat /\ prog.stack \in Nat \ {0}
  BY DEF Program
<1> DEFINE t == prog.text
           d == prog.data
           k == prog.stack
           h == HeapStart(prog)
           low == MEM_INVALID_PAGES .. h - 1
           high == KERNEL_STACK_BASE - k .. KERNEL_STACK_BASE - 1
<1>2. h = MEM_INVALID_PAGES + t + d /\ h \in Nat
  BY <1>1, Constants DEF HeapStart
<1>3. h + k + 2 <= KERNEL_STACK_BASE
  <2>1. KERNEL_STACK_BASE \in Int /\ PAGE_TABLE_LEN - 1 \in Int
    BY Constants
  <2>2. Cardinality(KERNEL_STACK_BASE .. PAGE_TABLE_LEN - 1)
          = IF KERNEL_STACK_BASE > PAGE_TABLE_LEN - 1 THEN 0
            ELSE (PAGE_TABLE_LEN - 1) - KERNEL_STACK_BASE + 1
    BY <2>1, FS_Interval
  <2>3. Cardinality(KernelStackVpns) = PAGE_TABLE_LEN - KERNEL_STACK_BASE
    BY <2>2, Constants DEF KernelStackVpns
  <2> QED BY <1>1, <1>2, <2>3, Constants DEF FitsVirtual
<1> HIDE DEF h
<1>4. ImagePages(prog) = low \cup high
  BY DEF ImagePages, StackPages, h
<1>5. low \subseteq UserVpns /\ high \subseteq UserVpns
  BY <1>1, <1>2, <1>3, Constants DEF UserVpns
<1>6. IsFiniteSet(low) /\ Cardinality(low) = t + d
  <2>1. MEM_INVALID_PAGES \in Int /\ h - 1 \in Int
    BY <1>2, Constants
  <2>2. /\ IsFiniteSet(low)
        /\ Cardinality(low) = IF MEM_INVALID_PAGES > h - 1 THEN 0
                              ELSE (h - 1) - MEM_INVALID_PAGES + 1
    BY <2>1, FS_Interval
  <2> QED BY <1>1, <1>2, <2>2, Constants
<1>7. IsFiniteSet(high) /\ Cardinality(high) = k
  <2>1. KERNEL_STACK_BASE - k \in Int /\ KERNEL_STACK_BASE - 1 \in Int
    BY <1>1, Constants
  <2>2. /\ IsFiniteSet(high)
        /\ Cardinality(high) = IF KERNEL_STACK_BASE - k > KERNEL_STACK_BASE - 1 THEN 0
                               ELSE (KERNEL_STACK_BASE - 1) - (KERNEL_STACK_BASE - k) + 1
    BY <2>1, FS_Interval
  <2> QED BY <1>1, <2>2, Constants
<1> HIDE DEF low, high
<1>8. /\ IsFiniteSet(low \cup high) /\ Cardinality(low \cup high) \in Nat
      /\ Cardinality(low \cup high) <= t + d + k
  <2>1. /\ IsFiniteSet(low \cup high)
        /\ Cardinality(low \cup high) = Cardinality(low) + Cardinality(high)
                                          - Cardinality(low \cap high)
    BY <1>6, <1>7, FS_Union
  <2>2. Cardinality(low \cap high) \in Nat /\ Cardinality(low \cup high) \in Nat
    <3>1. IsFiniteSet(low \cap high)
      BY <1>6, FS_Intersection
    <3> QED BY <2>1, <3>1, FS_CardinalityType
  <2> QED BY <1>1, <1>6, <1>7, <2>1, <2>2
<1>9. TextPages(prog) \subseteq Vpns
  BY <1>1, <1>2, <1>3, Constants DEF TextPages, Vpns
<1>10. ImagePages(prog) \in SUBSET Int
  BY <1>4, <1>5, Constants
<1> QED BY <1>1, <1>2, <1>3, <1>4, <1>5, <1>8, <1>9, <1>10, Constants DEF h

\* What the CASE of Loaded does to the table: the user's entries are cleared,
\* then the pages of the image are entered.
LEMMA LoadedTable ==
  ASSUME NEW p \in DOMAIN space, NEW prog \in Program, NEW frames,
         space[p].pageTable \in [Vpns -> Entries], space[p] \in Spaces,
         DOMAIN frames = ImagePages(prog),
         NEW c, c = [v \in Vpns |-> IF v \in UserVpns THEN NoFrame
                                    ELSE space[p].pageTable[v]]
  PROVE  /\ Loaded(p, prog, frames).pageTable = Overlay(c, frames)
         /\ Loaded(p, prog, frames).readOnly =
              (space[p].readOnly \ ImagePages(prog)) \cup TextPages(prog)
         /\ Loaded(p, prog, frames).brk =
              IF p = IDLE_PID THEN space[p].brk ELSE HeapStart(prog)
         /\ Loaded(p, prog, frames).limit = KERNEL_STACK_BASE
         /\ Loaded(p, prog, frames).page = space[p].page
         /\ Loaded(p, prog, frames).half = space[p].half
         /\ DOMAIN Loaded(p, prog, frames) = DOMAIN space[p]
<1> DEFINE tab == [v \in Vpns |-> CASE v \in DOMAIN frames -> frames[v]
                                    [] v \in UserVpns \ DOMAIN frames -> NoFrame
                                    [] OTHER -> space[p].pageTable[v]]
<1>1. tab = Overlay(c, frames)
  <2>1. DOMAIN c = Vpns
    OBVIOUS
  <2>2. \A v \in Vpns : tab[v] = IF v \in DOMAIN frames THEN frames[v] ELSE c[v]
    OBVIOUS
  <2>3. tab = [v \in Vpns |-> tab[v]]
    OBVIOUS
  <2> HIDE DEF tab
  <2> QED BY <2>1, <2>2, <2>3 DEF Overlay
<1>2. Loaded(p, prog, frames) =
        [space[p] EXCEPT !.pageTable = tab,
           !.readOnly = (@ \ ImagePages(prog)) \cup TextPages(prog),
           !.brk = IF p = IDLE_PID THEN @ ELSE HeapStart(prog),
           !.limit = KERNEL_STACK_BASE]
  BY DEF Loaded
<1> HIDE DEF tab
<1> QED BY <1>1, <1>2 DEF Spaces

\* LoadProgram replaces the image.
LEMMA LoadReplacesStep ==
  ASSUME MemOK, NEW p \in DOMAIN space, NEW prog \in Program, NEW n \in Nat,
         LoadReplaces(p, prog, n), exiting' \in Exitable
  PROVE  MemOK' /\ Allocator!Handler(p)
<1> DEFINE pt == space[p].pageTable
           kept == AfterMalloc(n) \ Replaced(p)
           image == ImagePages(prog)
           g == Fresh(kept, image)
           c == [v \in Vpns |-> IF v \in UserVpns THEN NoFrame ELSE pt[v]]
           s == Loaded(p, prog, g)
           a == ImageOf(g) \ AfterMalloc(n)
<1>1. /\ CanMalloc(n) /\ kernelBrk' = kernelBrk + n
      /\ FitsVirtual(prog) /\ FitsPhysical(p, prog, AfterMalloc(n))
      /\ occupied' = kept \cup ImageOf(g)
      /\ kernelPageTable' = MallocTable(n)
      /\ space' = [space EXCEPT ![p] = s]
      /\ records' = records
  BY DEF LoadReplaces, Malloc
<1>2. /\ p \in Processes /\ space[p] \in Spaces /\ pt \in [Vpns -> Entries]
      /\ OneToOne(pt, Vpns) /\ space[p].readOnly \subseteq Vpns
      /\ space[p].page \in KernelPages /\ space[p].half \in Halves
      /\ FramesIn(pt, Vpns) = HeldBy(p) /\ HeldBy(p) \subseteq occupied
  BY SpaceFacts
<1>3. occupied \subseteq AfterMalloc(n) /\ AfterMalloc(n) \subseteq Frames
  BY <1>1, MallocFacts DEF MemOK
<1>4. /\ image \subseteq UserVpns /\ image \in SUBSET Int
      /\ IsFiniteSet(image) /\ Cardinality(image) \in Nat
      /\ Cardinality(image) <= prog.text + prog.data + prog.stack
      /\ TextPages(prog) \subseteq Vpns /\ HeapStart(prog) \in 0 .. KERNEL_STACK_BASE
      /\ prog.text + prog.data + prog.stack \in Nat
  BY <1>1, ImageFacts
<1>5. UserVpns \in SUBSET Vpns /\ image \in SUBSET Vpns
  BY <1>4, Constants
<1>6. /\ c \in [Vpns -> Entries] /\ OneToOne(c, Vpns)
      /\ FramesIn(c, Vpns) \subseteq HeldBy(p)
      /\ Replaced(p) \subseteq HeldBy(p)
      /\ FramesIn(c, Vpns) \cap Replaced(p) = {}
  BY <1>2, <1>5, ClearedFacts DEF Replaced
<1>7. Cardinality(image) <= NumFree(kept)
  <2>1. /\ IsFiniteSet(Replaced(p))
        /\ Cardinality(Replaced(p)) = Cardinality(Valid(pt, UserVpns))
        /\ Cardinality(Valid(pt, UserVpns)) \in Nat
    BY <1>2, <1>5, CountFramesIn DEF Replaced
  <2>2. Replaced(p) \in SUBSET AfterMalloc(n)
    BY <1>2, <1>3, <1>6
  <2>3. NumFree(kept) = NumFree(AfterMalloc(n)) + Cardinality(Replaced(p))
    BY <1>3, <2>1, <2>2, CountFreed
  <2>4. NumFree(AfterMalloc(n)) \in Nat
    BY FreeFrames
  <2>5. prog.text + prog.data + prog.stack - Cardinality(Valid(pt, UserVpns))
          <= NumFree(AfterMalloc(n))
    BY <1>1 DEF FitsPhysical
  <2>6. prog.text \in Nat /\ prog.data \in Nat /\ prog.stack \in Nat
    BY DEF Program
  <2> HIDE DEF kept, pt, image
  <2> QED BY <1>4, <2>1, <2>3, <2>4, <2>5, <2>6
<1>8. g \in [image -> Frames \ kept] /\ Injective(g)
  BY <1>4, <1>7, FreshFacts
<1> HIDE DEF g
<1>9. /\ DOMAIN g = image /\ g \in [image -> Frames]
      /\ ImageOf(g) \subseteq Frames \ kept
      /\ FramesIn(c, Vpns) \cap ImageOf(g) = {}
  <2>1. DOMAIN g = image /\ g \in [image -> Frames]
    BY <1>8
  <2>2. ImageOf(g) \subseteq Frames \ kept
    BY <1>8 DEF ImageOf
  <2>3. FramesIn(c, Vpns) \subseteq kept
    BY <1>2, <1>3, <1>6
  <2> QED BY <2>1, <2>2, <2>3
<1>10. /\ Overlay(c, g) \in [Vpns -> Entries] /\ OneToOne(Overlay(c, g), Vpns)
       /\ \A v \in Vpns : Overlay(c, g)[v] = IF v \in image THEN g[v] ELSE c[v]
       /\ FramesIn(Overlay(c, g), Vpns) \subseteq FramesIn(c, Vpns) \cup ImageOf(g)
  <2> HIDE DEF c, image
  <2> QED BY <1>5, <1>6, <1>8, <1>9, OverlayFacts
<1>11. /\ s.pageTable = Overlay(c, g)
       /\ s.readOnly = (space[p].readOnly \ image) \cup TextPages(prog)
       /\ s.brk = IF p = IDLE_PID THEN space[p].brk ELSE HeapStart(prog)
       /\ s.limit = KERNEL_STACK_BASE
       /\ s.page = space[p].page /\ s.half = space[p].half
       /\ DOMAIN s = DOMAIN space[p]
  BY <1>2, <1>9, LoadedTable
<1> HIDE DEF c, s
<1>12. space[IDLE_PID].brk = 0
  BY DEF MemOK, BreaksMapped
<1>13. s.brk \in 0 .. KERNEL_STACK_BASE /\ (p = IDLE_PID => s.brk = 0)
  BY <1>4, <1>11, <1>12, Constants
<1>14. s \in Spaces
  <2>1. s.readOnly \subseteq Vpns /\ s.limit \in 0 .. KERNEL_STACK_BASE
    BY <1>2, <1>4, <1>11, Constants
  <2>2. s = [space[p] EXCEPT !.pageTable = s.pageTable, !.readOnly = s.readOnly,
                             !.brk = s.brk, !.limit = s.limit]
    BY <1>2 DEF s, Loaded, Spaces
  <2> QED BY <1>2, <1>10, <1>11, <1>13, <2>1, <2>2 DEF Spaces
<1>15. Mapped(s)
  <2> SUFFICES ASSUME NEW v \in MEM_INVALID_PAGES .. s.brk - 1
               PROVE  Overlay(c, g)[v] # NoFrame
    BY <1>11 DEF Mapped
  <2>1. s.brk = HeapStart(prog)
    BY <1>11, <1>12, Constants
  <2>2. v \in image /\ v \in Vpns
    BY <1>5, <2>1 DEF ImagePages
  <2> QED BY <1>8, <1>10, <2>2, Constants
<1>16. /\ a \subseteq Frames \ AfterMalloc(n)
       /\ FramesIn(s.pageTable, Vpns) \subseteq HeldBy(p) \cup a
       /\ FramesIn(s.pageTable, Vpns) \subseteq occupied'
       /\ occupied' \subseteq Frames
       /\ AfterMalloc(n) \ occupied' \subseteq HeldBy(p)
  <2>1. a \subseteq Frames \ AfterMalloc(n)
    BY <1>9
  <2>2. ImageOf(g) \subseteq HeldBy(p) \cup a
    BY <1>6, <1>9
  <2>3. FramesIn(c, Vpns) \subseteq kept
    BY <1>2, <1>3, <1>6
  <2>4. FramesIn(s.pageTable, Vpns) \subseteq FramesIn(c, Vpns) \cup ImageOf(g)
    BY <1>10, <1>11
  <2> HIDE DEF a
  <2> QED BY <1>1, <1>3, <1>6, <1>9, <2>1, <2>2, <2>3, <2>4
<1> HIDE DEF a, kept, pt, image
<1> QED BY <1>1, <1>10, <1>11, <1>13, <1>14, <1>15, <1>16, OneSpaceStep

-----------------------------------------------------------------------------
(* Copying a process.                                                      *)

\* What createPageTable makes of the kernel's half, when it returns t: a half
\* that no process has, in a page that is recorded and mapped.
TableGiven(t, n) ==
  /\ t.page \in KernelPages /\ t.half \in Halves
  /\ t.frame # NoFrame => t.frame \in Frames \ AfterMalloc(n)
  /\ \A q \in DOMAIN space : ~(space[q].page = t.page /\ space[q].half = t.half)
  /\ records' \in Seq(TableRecords)
  /\ kernelPageTable' \in [KernelPages -> Entries]
  /\ kernelBrk' \in PAGE_TABLE_LEN .. MaxKernelBrk
  /\ PagesNumbered'
  /\ ~TableMeetsHeap(n) => PagesDescend'
  /\ HeldByKernel' \subseteq Frames
  /\ HeldByKernel' \subseteq HeldByKernel
       \cup ImageOf(Fresh(occupied, HeapPages(n))) \cup ({t.frame} \ {NoFrame})
  /\ OneToOne(kernelPageTable, KernelUses)'
  /\ \A i \in DOMAIN records', half \in Halves :
       half \in records'[i].halves <=>
         \/ \E q \in DOMAIN space : space[q].page = records'[i].page
                                      /\ space[q].half = half
         \/ t.page = records'[i].page /\ t.half = half
  /\ \E i \in DOMAIN records' : records'[i].page = t.page
  /\ \A q \in DOMAIN space : \E i \in DOMAIN records' :
       records'[i].page = space[q].page

\* The half given is free.
LEMMA NextHalfFacts ==
  ASSUME NEW r, r.halves \subseteq Halves, r.halves # Halves
  PROVE  NextHalf(r) \in Halves \ r.halves
BY DEF NextHalf, Halves

\* A set of places in a list has a first one.
LEMMA FirstExists ==
  ASSUME NEW S, S # {}, NEW n \in Nat, S \subseteq 1 .. n
  PROVE  \E i \in S : \A j \in S : i <= j
<1>1. S \in SUBSET Int
  OBVIOUS
<1>2. IsFiniteSet(S)
  <2>1. IsFiniteSet(1 .. n)
    BY FS_Interval
  <2>2. S \in SUBSET (1 .. n)
    OBVIOUS
  <2> QED BY <2>1, <2>2, FS_Subset
<1>3. Cardinality(S) \in Nat /\ Cardinality(S) # 0
  BY <1>2, FS_CardinalityType, FS_EmptySet
<1> DEFINE i == Nth(S, 0)
           below == {g \in S : g < i}
<1>4. i \in S /\ Cardinality(below) = 0
  BY <1>1, <1>2, <1>3, NthFacts
<1>5. below = {}
  <2>1. below \in SUBSET S
    OBVIOUS
  <2>2. IsFiniteSet(below)
    BY <1>2, <2>1, FS_Subset
  <2> QED BY <1>4, <2>2, FS_EmptySet
<1>6. ASSUME NEW j \in S PROVE i <= j
  <2>1. ~(j < i)
    BY <1>5
  <2> HIDE DEF i
  <2> QED BY <1>1, <1>4, <2>1
<1> QED BY <1>4, <1>6

\* The new table goes into a page that has room.
LEMMA OldPageGiven ==
  ASSUME MemOK, NEW n \in Nat, CanMalloc(n), WithFreeHalf # {},
         NEW t, t = NewTable(AfterMalloc(n)),
         kernelBrk' = kernelBrk + n, records' = t.records,
         kernelPageTable' = MallocTable(n)
  PROVE  TableGiven(t, n) /\ t.frame = NoFrame
<1>1. MemTypes /\ Owners /\ PagesDescend /\ HalvesMatch
  BY DEF MemOK
<1>2. /\ Len(records) \in Nat /\ DOMAIN records = 1 .. Len(records)
      /\ \A i \in DOMAIN records : /\ records[i] \in TableRecords
                                   /\ records[i].page \in KernelPages
                                   /\ records[i].frame \in Frames
                                   /\ records[i].halves \subseteq Halves
  BY <1>1, LastRecord
<1> DEFINE i == CHOOSE j \in WithFreeHalf : \A k \in WithFreeHalf : j <= k
           half == NextHalf(records[i])
           full == [records[i] EXCEPT !.halves = @ \cup {half}]
<1>3. i \in WithFreeHalf
  <2>1. WithFreeHalf \subseteq 1 .. Len(records)
    BY <1>2 DEF WithFreeHalf
  <2>2. \E j \in WithFreeHalf : \A k \in WithFreeHalf : j <= k
    BY <1>2, <2>1, FirstExists
  <2> QED BY <2>2
<1>4. t = [page |-> records[i].page, half |-> half, frame |-> NoFrame,
           records |-> [records EXCEPT ![i].halves = @ \cup {half}]]
  BY DEF NewTable
<1> HIDE DEF i
<1>5. i \in DOMAIN records /\ records[i].halves # Halves
  BY <1>3 DEF WithFreeHalf
<1>6. half \in Halves \ records[i].halves
  BY <1>2, <1>5, NextHalfFacts
<1> HIDE DEF half
<1>7. full \in TableRecords /\ full.page = records[i].page
      /\ full.frame = records[i].frame /\ full.halves = records[i].halves \cup {half}
  BY <1>2, <1>5, <1>6 DEF TableRecords
<1>8. records' = [records EXCEPT ![i] = full]
  BY <1>4
<1> HIDE DEF full
<1>9. /\ records' \in Seq(TableRecords) /\ Len(records') = Len(records)
      /\ \A j \in 1 .. Len(records) : records'[j] = IF j = i THEN full ELSE records[j]
  BY <1>1, <1>2, <1>5, <1>7, <1>8, ExceptSeq DEF MemTypes
<1>10. /\ DOMAIN records' = DOMAIN records
       /\ \A j \in DOMAIN records : /\ records'[j].page = records[j].page
                                    /\ records'[j].frame = records[j].frame
  BY <1>2, <1>7, <1>8, <1>9
<1>11. /\ t.page = records[i].page /\ t.half = half /\ t.frame = NoFrame
  BY <1>4
<1>12. \A q \in DOMAIN space : ~(space[q].page = t.page /\ space[q].half = t.half)
  BY <1>1, <1>5, <1>6, <1>11 DEF HalvesMatch
<1>13. /\ kernelBrk' \in PAGE_TABLE_LEN .. MaxKernelBrk
       /\ kernelPageTable' \in [KernelPages -> Entries]
       /\ HeldByKernel' \subseteq
              HeldByKernel \cup ImageOf(Fresh(occupied, HeapPages(n)))
       /\ HeldByKernel' \subseteq Frames
       /\ OneToOne(kernelPageTable, KernelUses)'
       /\ PagesNumbered' /\ PagesDescend'
  BY <1>1, <1>9, <1>10, KernelGrows DEF PagesDescend
<1>14. \A j \in DOMAIN records', x \in Halves :
         x \in records'[j].halves <=>
           \/ \E q \in DOMAIN space : space[q].page = records'[j].page
                                        /\ space[q].half = x
           \/ t.page = records'[j].page /\ t.half = x
  <2> SUFFICES ASSUME NEW j \in DOMAIN records, NEW x \in Halves
               PROVE  x \in records'[j].halves <=>
                        \/ \E q \in DOMAIN space : space[q].page = records'[j].page
                                                     /\ space[q].half = x
                        \/ t.page = records'[j].page /\ t.half = x
    BY <1>10
  <2>1. x \in records[j].halves <=>
          \E q \in DOMAIN space : space[q].page = records[j].page
                                    /\ space[q].half = x
    BY <1>1 DEF HalvesMatch
  <2>2. CASE j = i
    BY <1>2, <1>7, <1>9, <1>10, <1>11, <2>1, <2>2
  <2>3. CASE j # i
    <3>1. t.page # records[j].page
      <4>1. records[i].page = TopPage + 1 - i /\ records[j].page = TopPage + 1 - j
        BY <1>1, <1>5 DEF PagesDescend, PagesNumbered, HeapBelow
      <4> QED BY <1>2, <1>5, <1>11, <2>3, <4>1, Constants
    <3>2. records'[j] = records[j]
      BY <1>2, <1>9, <2>3
    <3> QED BY <2>1, <3>1, <3>2
  <2> QED BY <2>2, <2>3
<1>15. \E j \in DOMAIN records' : records'[j].page = t.page
  BY <1>5, <1>10, <1>11
<1>16. \A q \in DOMAIN space : \E j \in DOMAIN records' :
         records'[j].page = space[q].page
  BY <1>1, <1>10 DEF HalvesMatch
<1>17. t.page \in KernelPages /\ t.half \in Halves
  BY <1>2, <1>5, <1>6, <1>11
<1> QED BY <1>9, <1>11, <1>12, <1>13, <1>14, <1>15, <1>16, <1>17 DEF TableGiven

\* The new table goes into a new page, below the last.  It may be the last of the
\* heap, whose frame then is nobody's.
LEMMA NewPageGiven ==
  ASSUME MemOK, NEW n \in Nat, CanMalloc(n), WithFreeHalf = {},
         1 <= NumFree(AfterMalloc(n)),
         NEW t, t = NewTable(AfterMalloc(n)),
         kernelBrk' = kernelBrk + n, records' = t.records,
         kernelPageTable' = [MallocTable(n) EXCEPT ![t.page] = t.frame]
  PROVE  TableGiven(t, n) /\ t.frame # NoFrame
<1>1. MemTypes /\ Owners /\ PagesDescend /\ HalvesMatch
  BY DEF MemOK
<1>2. /\ Len(records) \in Nat \ {0} /\ DOMAIN records = 1 .. Len(records)
      /\ \A i \in DOMAIN records : /\ records[i] \in TableRecords
                                   /\ records[i].page \in KernelPages
                                   /\ records[i].frame \in Frames
                                   /\ records[i].page \in KernelUses
      /\ \A i \in DOMAIN records : records[i].page = TopPage + 1 - i
  BY <1>1, LastRecord DEF PagesDescend, PagesNumbered, HeapBelow
<1> DEFINE page == TopPage - Len(records)
           frame == Nth(Frames \ AfterMalloc(n), 0)
           new == [page |-> page, frame |-> frame, halves |-> {"top"}]
           h == Fresh(occupied, HeapPages(n))
           uses == KernelUses \cup HeapPages(n)
<1>3. /\ HeapPages(n) \subseteq KernelPages
      /\ MallocTable(n) \in [KernelPages -> Entries]
      /\ kernelBrk + n \in PAGE_TABLE_LEN .. MaxKernelBrk
      /\ kernelBrk + n <= records[Len(records)].page
      /\ AfterMalloc(n) \subseteq Frames
      /\ occupied \subseteq AfterMalloc(n)
  BY <1>1, MallocFacts
<1>4. records[Len(records)].page - 1 = page /\ page \in Int
  BY <1>2, Constants
<1>5. t = [page |-> page, half |-> "top", frame |-> frame,
           records |-> Append(records, new)]
  BY <1>4 DEF NewTable
<1>6. /\ page \in KernelPages
      /\ ~TableMeetsHeap(n) => kernelBrk + n <= page
  <2>1. TableMeetsHeap(n) <=> page < kernelBrk + n
    BY <1>4 DEF TableMeetsHeap
  <2>2. kernelBrk \in Int /\ PAGE_TABLE_LEN < kernelBrk
    BY <1>1, Constants DEF MemTypes, PagesDescend, HeapBelow
  <2>3. kernelBrk + n - 1 <= page
    BY <1>2, <1>3, <1>4, <2>2, Constants
  <2>4. page <= TopPage
    BY <1>2, Constants
  <2> HIDE DEF page
  <2> QED BY <1>3, <1>4, <2>1, <2>2, <2>3, <2>4, Constants DEF KernelPages
<1>7. frame \in Frames \ AfterMalloc(n)
  <2>1. /\ Frames \ AfterMalloc(n) \in SUBSET Int
        /\ IsFiniteSet(Frames \ AfterMalloc(n))
        /\ 0 < Cardinality(Frames \ AfterMalloc(n))
    BY FreeFrames DEF NumFree
  <2> QED BY <2>1, NthFacts
<1> HIDE DEF frame
<1>8. new \in TableRecords
  BY <1>6, <1>7 DEF TableRecords, Halves
<1>9. /\ records' \in Seq(TableRecords) /\ Len(records') = Len(records) + 1
      /\ records' # << >>
      /\ \A i \in 1 .. Len(records) : records'[i] = records[i]
      /\ records'[Len(records) + 1] = new
  <2>1. records' = Append(records, new)
    BY <1>5
  <2> HIDE DEF new
  <2> QED BY <1>1, <1>8, <2>1, AppendProperties DEF MemTypes
<1>10. /\ DOMAIN records' = 1 .. Len(records) + 1
       /\ \A i \in DOMAIN records : /\ i \in DOMAIN records' /\ i # Len(records) + 1
                                    /\ records'[i] = records[i]
       /\ Len(records) + 1 \in DOMAIN records'
       /\ \A i \in DOMAIN records' : i \in DOMAIN records \/ i = Len(records) + 1
  BY <1>2, <1>9
<1>11. \A i \in DOMAIN records : records[i].page # page
  BY <1>2, Constants
<1>12. new.page = page /\ new.frame = frame /\ new.halves = {"top"}
  OBVIOUS
<1> HIDE DEF page, new
<1>13. /\ \A v \in uses : v \in KernelPages /\ MallocTable(n)[v] \in Frames
       /\ \A v \in KernelUses : MallocTable(n)[v] = kernelPageTable[v]
       /\ \A v \in uses : MallocTable(n)[v] \in HeldByKernel \cup ImageOf(h)
       /\ \A v \in uses : MallocTable(n)[v] \in AfterMalloc(n)
       /\ \A v, w \in uses : MallocTable(n)[v] = MallocTable(n)[w] => v = w
  BY <1>1, HeapOwned
<1>14. kernelBrk' = kernelBrk + n /\ kernelBrk \in Int
  BY <1>1, Constants DEF MemTypes
<1>15. KernelUses' = uses \cup {page}
  <2>1. kernelBrk \in Nat
    BY <1>1, Constants DEF MemTypes
  <2>2. ASSUME NEW v \in KernelPages
        PROVE  v < kernelBrk + n <=> v < kernelBrk \/ v \in HeapPages(n)
    BY <2>1, Constants DEF HeapPages, KernelPages
  <2>3. ASSUME NEW v \in KernelPages
        PROVE  (\E i \in DOMAIN records' : records'[i].page = v)
                 <=> (\E i \in DOMAIN records : records[i].page = v) \/ v = page
    BY <1>9, <1>10, <1>12
  <2>4. KernelUses' = {v \in KernelPages : \/ v < kernelBrk + n
                                           \/ \E i \in DOMAIN records' : records'[i].page = v}
    BY DEF KernelUses
  <2> QED BY <1>3, <1>6, <2>2, <2>3, <2>4 DEF KernelUses
<1> HIDE DEF uses, h
<1>16. t.page = page /\ t.half = "top" /\ t.frame = frame
  BY <1>5
<1>17. /\ kernelPageTable' \in [KernelPages -> Entries]
       /\ kernelPageTable'[page] = frame
       /\ \A v \in uses \ {page} : kernelPageTable'[v] = MallocTable(n)[v]
  <2>1. frame \in Entries
    BY <1>7 DEF Entries
  <2> QED BY <1>3, <1>6, <1>13, <1>16, <2>1
<1>18. HeldByKernel' \subseteq HeldByKernel \cup ImageOf(h) \cup {frame}
  BY <1>13, <1>15, <1>17 DEF HeldByKernel
<1>19. HeldByKernel' \subseteq Frames
  BY <1>7, <1>13, <1>15, <1>17 DEF HeldByKernel
<1>20. OneToOne(kernelPageTable, KernelUses)'
  <2> SUFFICES ASSUME NEW v \in KernelUses', NEW w \in KernelUses',
                      kernelPageTable'[v] = kernelPageTable'[w]
               PROVE  v = w
    BY DEF OneToOne, Valid
  <2>1. CASE v = page /\ w = page
    BY <2>1
  <2>2. CASE v \in uses \ {page} /\ w \in uses \ {page}
    BY <1>13, <1>17, <2>2
  <2>3. CASE v = page /\ w \in uses \ {page}
    BY <1>7, <1>13, <1>17, <2>3
  <2>4. CASE v \in uses \ {page} /\ w = page
    BY <1>7, <1>13, <1>17, <2>4
  <2> QED BY <1>15, <2>1, <2>2, <2>3, <2>4
<1>21. PagesNumbered' /\ (~TableMeetsHeap(n) => PagesDescend')
  <2>1. ASSUME NEW i \in DOMAIN records'
        PROVE  records'[i].page = TopPage + 1 - i
    <3>1. CASE i = Len(records) + 1
      <4>1. records'[i].page = page
        BY <1>9, <1>12, <3>1
      <4>2. page = TopPage + 1 - i
        BY <1>2, <3>1, Constants DEF page
      <4> QED BY <4>1, <4>2
    <3>2. CASE i \in DOMAIN records
      BY <1>2, <1>10, <3>2
    <3> QED BY <1>10, <3>1, <3>2
  <2>2. ~TableMeetsHeap(n) => HeapBelow'
    <3>1. PAGE_TABLE_LEN < kernelBrk
      BY <1>1 DEF PagesDescend, HeapBelow
    <3> QED BY <1>6, <1>9, <1>12, <1>14, <3>1, Constants DEF HeapBelow
  <2>3. ASSUME NEW i \in DOMAIN records'
        PROVE  kernelPageTable'[records'[i].page] = records'[i].frame
    <3>1. CASE i = Len(records) + 1
      BY <1>9, <1>12, <1>17, <3>1
    <3>2. CASE i \in DOMAIN records
      <4>1. /\ records[i].page \in KernelUses
            /\ records[i].page \in uses \ {page}
        BY <1>2, <1>11, <3>2 DEF uses
      <4> QED BY <1>1, <1>10, <1>13, <1>17, <3>2, <4>1 DEF PagesDescend, PagesNumbered, HeapBelow
    <3> QED BY <1>10, <3>1, <3>2
  <2> QED BY <1>9, <2>1, <2>2, <2>3 DEF PagesDescend, PagesNumbered
<1>22. \A q \in DOMAIN space : space[q].page # page
  BY <1>1, <1>11 DEF HalvesMatch
<1>23. \A j \in DOMAIN records', x \in Halves :
         x \in records'[j].halves <=>
           \/ \E q \in DOMAIN space : space[q].page = records'[j].page
                                        /\ space[q].half = x
           \/ t.page = records'[j].page /\ t.half = x
  <2> SUFFICES ASSUME NEW j \in DOMAIN records', NEW x \in Halves
               PROVE  x \in records'[j].halves <=>
                        \/ \E q \in DOMAIN space : space[q].page = records'[j].page
                                                     /\ space[q].half = x
                        \/ t.page = records'[j].page /\ t.half = x
    OBVIOUS
  <2>1. CASE j = Len(records) + 1
    BY <1>9, <1>12, <1>16, <1>22, <2>1
  <2>2. CASE j \in DOMAIN records
    <3>1. x \in records[j].halves <=>
            \E q \in DOMAIN space : space[q].page = records[j].page
                                      /\ space[q].half = x
      BY <1>1, <2>2 DEF HalvesMatch
    <3> QED BY <1>10, <1>11, <1>16, <2>2, <3>1
  <2> QED BY <1>10, <2>1, <2>2
<1>24. \E j \in DOMAIN records' : records'[j].page = t.page
  BY <1>9, <1>10, <1>12, <1>16
<1>25. \A q \in DOMAIN space : \E j \in DOMAIN records' :
         records'[j].page = space[q].page
  BY <1>1, <1>10 DEF HalvesMatch
<1>26. frame # NoFrame /\ "top" \in Halves
  BY <1>7, Constants DEF Halves
<1> QED BY <1>3, <1>6, <1>7, <1>9, <1>16, <1>17, <1>18, <1>19, <1>20, <1>21,
           <1>22, <1>23, <1>24, <1>25, <1>26 DEF TableGiven, h

\* Frames for the copies are there once the new page has its own.
LEMMA CopyFits ==
  ASSUME MemOK, NEW p \in DOMAIN space, NEW n \in Nat,
         AfterMalloc(n) \subseteq Frames,
         CloneNeeds(p) <= NumFree(AfterMalloc(n)),
         NEW t, t = NewTable(AfterMalloc(n)),
         t.frame # NoFrame => t.frame \in Frames \ AfterMalloc(n),
         t.frame # NoFrame => WithFreeHalf = {}
  PROVE  Cardinality(Valid(space[p].pageTable, Vpns))
           <= NumFree(AfterMalloc(n) \cup ({t.frame} \ {NoFrame}))
<1> DEFINE am == AfterMalloc(n)
           f == t.frame
           k == Cardinality(Valid(space[p].pageTable, Vpns))
<1>1. k \in Nat
  BY SpaceFacts, CountFramesIn
<1>2. NumFree(am) \in Nat
  BY FreeFrames
<1>3. CloneNeeds(p) = (IF WithFreeHalf = {} THEN 1 ELSE 0) + k
  BY DEF CloneNeeds
<1>4. CASE f = NoFrame
  <2>1. am \cup ({f} \ {NoFrame}) = am
    BY <1>4
  <2>2. k <= NumFree(am)
    <3> HIDE DEF k, am
    <3>1. CloneNeeds(p) = 1 + k \/ CloneNeeds(p) = k
      BY <1>1, <1>3
    <3>2. CloneNeeds(p) <= NumFree(am)
      BY DEF am
    <3> QED BY <1>1, <1>2, <3>1, <3>2
  <2> QED BY <2>1, <2>2
<1>5. CASE f # NoFrame
  <2>1. f \in Frames \ am /\ am \cup ({f} \ {NoFrame}) = am \cup {f}
    BY <1>5
  <2>2. CloneNeeds(p) = 1 + k
    BY <1>1, <1>3, <1>5
  <2> DEFINE S == Frames \ am
  <2>3. Frames \ (am \cup {f}) = S \ {f} /\ f \in S
    BY <2>1
  <2>4. IsFiniteSet(S) /\ Cardinality(S) = NumFree(am)
    BY FreeFrames DEF NumFree
  <2>5. CloneNeeds(p) <= NumFree(am)
    OBVIOUS
  <2> HIDE DEF S, am, f, k
  <2>6. Cardinality(S \ {f}) = Cardinality(S) - 1
    BY <2>3, <2>4, FS_RemoveElement
  <2>7. NumFree(am \cup {f}) = Cardinality(S \ {f})
    BY <2>3 DEF NumFree
  <2>8. k <= NumFree(am \cup {f})
    BY <1>1, <1>2, <2>2, <2>4, <2>5, <2>6, <2>7
  <2> QED BY <2>1, <2>8 DEF am, f, k
<1> QED BY <1>4, <1>5

\* createPageTable, whichever way it finds room.
LEMMA TableFound ==
  ASSUME MemOK, NEW p \in DOMAIN space, NEW n \in Nat, CanMalloc(n),
         CloneNeeds(p) <= NumFree(AfterMalloc(n)),
         NEW t, t = NewTable(AfterMalloc(n)),
         kernelBrk' = kernelBrk + n, records' = t.records,
         kernelPageTable' = IF t.frame = NoFrame THEN MallocTable(n)
                            ELSE [MallocTable(n) EXCEPT ![t.page] = t.frame]
  PROVE  TableGiven(t, n) /\ (t.frame # NoFrame => WithFreeHalf = {})
<1>1. CASE WithFreeHalf # {}
  <2>1. t.frame = NoFrame
    BY <1>1 DEF NewTable
  <2>2. kernelPageTable' = MallocTable(n)
    BY <2>1
  <2> QED BY <1>1, <2>1, <2>2, OldPageGiven
<1>2. CASE WithFreeHalf = {}
  <2>1. 1 <= NumFree(AfterMalloc(n))
    <3>1. Cardinality(Valid(space[p].pageTable, Vpns)) \in Nat
      BY SpaceFacts, CountFramesIn
    <3>2. NumFree(AfterMalloc(n)) \in Nat
      BY FreeFrames
    <3>3. CloneNeeds(p) = 1 + Cardinality(Valid(space[p].pageTable, Vpns))
      BY <1>2 DEF CloneNeeds
    <3> QED BY <3>1, <3>2, <3>3
  <2>2. t.frame # NoFrame
    <3>1. t.frame = Nth(Frames \ AfterMalloc(n), 0)
      BY <1>2 DEF NewTable
    <3>2. /\ Frames \ AfterMalloc(n) \in SUBSET Int
          /\ IsFiniteSet(Frames \ AfterMalloc(n))
          /\ 0 < Cardinality(Frames \ AfterMalloc(n))
      BY <2>1, FreeFrames DEF NumFree
    <3>3. Nth(Frames \ AfterMalloc(n), 0) \in Frames \ AfterMalloc(n)
      BY <3>2, NthFacts
    <3> QED BY <3>1, <3>3, Constants
  <2>3. kernelPageTable' = [MallocTable(n) EXCEPT ![t.page] = t.frame]
    BY <2>2
  <2> QED BY <1>2, <2>1, <2>3, NewPageGiven
<1> QED BY <1>1, <1>2

\* createNewProcess and cloneAndSwitchToProcess.  What the next handler finds is
\* in order if the new page of tables was not put on the heap.
LEMMA CloneStep ==
  ASSUME MemOK, NEW p \in DOMAIN space, NEW c \in Processes \ DOMAIN space,
         NEW n \in Nat, CloneInto(p, c, n)
  PROVE  /\ MemSound' /\ Allocator!Handler(c)
         /\ ~TableMeetsHeap(n) => MemOK'
<1> DEFINE t == NewTable(AfterMalloc(n))
           taken == {t.frame} \ {NoFrame}
           occ == AfterMalloc(n) \cup taken
           V == Valid(space[p].pageTable, Vpns)
           g == Fresh(occ, V)
           h == Fresh(occupied, HeapPages(n))
           none == [v \in Vpns |-> NoFrame]
           child == [page |-> t.page, half |-> t.half,
                     pageTable |-> Overlay(none, g), readOnly |-> {},
                     brk |-> space[p].brk, limit |-> space[p].limit]
<1>1. /\ CanMalloc(n) /\ kernelBrk' = kernelBrk + n
      /\ CloneNeeds(p) <= NumFree(AfterMalloc(n))
      /\ occupied' = occ \cup ImageOf(g)
      /\ records' = t.records
      /\ kernelPageTable' = IF t.frame = NoFrame THEN MallocTable(n)
                            ELSE [MallocTable(n) EXCEPT ![t.page] = t.frame]
      /\ space' = [q \in DOMAIN space \cup {c} |->
                     IF q = c THEN child ELSE space[q]]
      /\ exiting' = exiting
  BY DEF CloneInto, Malloc
<1> HIDE DEF t
<1>2. MemTypes /\ Owners /\ PagesDescend /\ HalvesMatch /\ BreaksMapped
  BY DEF MemOK
<1>3. TableGiven(t, n) /\ (t.frame # NoFrame => WithFreeHalf = {})
  BY <1>1, TableFound DEF t
<1>4. /\ occupied \subseteq AfterMalloc(n) /\ AfterMalloc(n) \subseteq Frames
      /\ ImageOf(h) \subseteq Frames \ occupied /\ ImageOf(h) \subseteq AfterMalloc(n)
  BY <1>1, <1>2, MallocFacts
<1>5. taken \subseteq Frames \ AfterMalloc(n)
  BY <1>3 DEF TableGiven
<1>6. /\ IsFiniteSet(V) /\ V \in SUBSET Int /\ V \in SUBSET Vpns
      /\ Cardinality(V) <= NumFree(occ)
  <2>1. Cardinality(V) <= NumFree(occ)
    BY <1>1, <1>3, <1>4, CopyFits DEF TableGiven, t
  <2>2. IsFiniteSet(V)
    BY SpaceFacts, CountFramesIn
  <2>3. V \in SUBSET Vpns
    BY DEF Valid
  <2>4. Vpns \subseteq Int
    BY Constants
  <2> QED BY <2>1, <2>2, <2>3, <2>4
<1>7. g \in [V -> Frames \ occ] /\ Injective(g)
  <2> HIDE DEF V, occ
  <2> QED BY <1>6, FreshFacts
<1> HIDE DEF g
<1>8. ImageOf(g) \subseteq Frames \ occ /\ g \in [V -> Frames]
  BY <1>7 DEF ImageOf
<1>9. /\ Overlay(none, g) \in [Vpns -> Entries]
      /\ OneToOne(Overlay(none, g), Vpns)
      /\ \A v \in Vpns : Overlay(none, g)[v] = IF v \in V THEN g[v] ELSE none[v]
      /\ FramesIn(Overlay(none, g), Vpns) \subseteq ImageOf(g)
  <2>1. none \in [Vpns -> Entries] /\ OneToOne(none, Vpns)
    BY DEF Entries, OneToOne, Valid
  <2>2. FramesIn(none, Vpns) = {}
    BY DEF FramesIn, Valid
  <2> HIDE DEF none, V
  <2>3. FramesIn(none, Vpns) \cap ImageOf(g) = {}
    BY <2>2
  <2> QED BY <1>6, <1>7, <1>8, <2>1, <2>2, <2>3, OverlayFacts
<1> HIDE DEF none
<1>10. /\ child.page = t.page /\ child.half = t.half
       /\ child.pageTable = Overlay(none, g)
       /\ child.brk = space[p].brk /\ child \in Spaces
  <2>1. /\ t.page \in KernelPages /\ t.half \in Halves
        /\ space[p].brk \in 0 .. KERNEL_STACK_BASE
        /\ space[p].limit \in 0 .. KERNEL_STACK_BASE
    BY <1>3, SpaceFacts DEF TableGiven
  <2> QED BY <1>9, <2>1 DEF Spaces
<1> HIDE DEF child
<1>11. /\ DOMAIN space' = DOMAIN space \cup {c} /\ space'[c] = child
       /\ \A q \in DOMAIN space : space'[q] = space[q] /\ q # c
  BY <1>1
<1>12. /\ HeldBy(c)' \subseteq ImageOf(g)
       /\ \A q \in Processes \ {c} : HeldBy(q)' = HeldBy(q)
  BY <1>9, <1>10, <1>11 DEF HeldBy
<1> DEFINE k == ImageOf(h) \cup taken
<1>13. Allocator!Handler(c)
  <2>1. ImageOf(g) \cup k \subseteq Frames \ occupied /\ ImageOf(g) \cap k = {}
    BY <1>4, <1>5, <1>8
  <2>2. HeldByKernel \subseteq occupied
    BY <1>2, HeldOccupied
  <2>3. HeldByKernel' \subseteq HeldByKernel \cup k
    BY <1>3 DEF TableGiven
  <2>4. \A q \in Processes : HeldBy(q)' \subseteq Frames
    BY <1>2, <1>8, <1>12, HeldTyped
  <2>5. occupied \ occupied' \subseteq HeldBy(c) \cup HeldByKernel
    BY <1>1, <1>4
  <2>6. HeldBy(c)' \cup HeldByKernel' \subseteq occupied'
    BY <1>1, <1>4, <1>12, <2>2, <2>3
  <2>7. HeldBy(c)' \subseteq HeldBy(c) \cup ImageOf(g)
    BY <1>12
  <2> HIDE DEF k
  <2> QED BY <1>12, <2>1, <2>3, <2>4, <2>5, <2>6, <2>7, HandlerFromEffect
<1>14. Owners'
  <2>1. \A q \in DOMAIN space' : OneToOne(space'[q].pageTable, Vpns)
    BY <1>2, <1>9, <1>10, <1>11 DEF Owners
  <2> QED BY <1>2, <1>3, <1>13, <2>1, OwnersStep DEF TableGiven
<1>15. MemTypes'
  <2>1. \A q \in DOMAIN space' : space'[q] \in Spaces
    BY <1>2, <1>10, <1>11 DEF MemTypes
  <2>2. space' \in [DOMAIN space' -> Spaces]
    BY <1>1, <1>11, <2>1
  <2>3. exiting' \in Exitable'
    BY <1>1, <1>2, <1>11 DEF Exitable, MemTypes
  <2>4. occupied' \subseteq Frames
    BY <1>1, <1>4, <1>5, <1>8
  <2>5. IDLE_PID \in DOMAIN space' /\ DOMAIN space' \subseteq Processes
    BY <1>2, <1>11 DEF MemTypes
  <2> QED BY <1>3, <2>2, <2>3, <2>4, <2>5 DEF MemTypes, TableGiven
<1>16. HalvesMatch'
  <2>1. IDLE_PID \in DOMAIN space
    BY <1>2 DEF MemTypes
  <2>2. space'[IDLE_PID].page = TopPage /\ space'[IDLE_PID].half = "top"
    BY <1>2, <1>11, <2>1 DEF HalvesMatch
  <2>3. ASSUME NEW q \in DOMAIN space', NEW r \in DOMAIN space',
               space'[q].page = space'[r].page, space'[q].half = space'[r].half
        PROVE  q = r
    <3>1. \A x \in DOMAIN space : ~(space[x].page = t.page /\ space[x].half = t.half)
      BY <1>3 DEF TableGiven
    <3> QED BY <1>2, <1>10, <1>11, <2>3, <3>1 DEF HalvesMatch
  <2>4. ASSUME NEW i \in DOMAIN records', NEW half \in Halves
        PROVE  half \in records'[i].halves <=>
                 \E q \in DOMAIN space' : space'[q].page = records'[i].page
                                            /\ space'[q].half = half
    <3>1. half \in records'[i].halves <=>
            \/ \E q \in DOMAIN space : space[q].page = records'[i].page
                                         /\ space[q].half = half
            \/ t.page = records'[i].page /\ t.half = half
      BY <1>3 DEF TableGiven
    <3> QED BY <1>10, <1>11, <3>1
  <2>5. \A q \in DOMAIN space' : \E i \in DOMAIN records' :
          records'[i].page = space'[q].page
    BY <1>3, <1>10, <1>11 DEF TableGiven
  <2> QED BY <2>2, <2>3, <2>4, <2>5 DEF HalvesMatch
<1>17. BreaksMapped'
  <2>1. space'[IDLE_PID].brk = 0
    BY <1>2, <1>11 DEF BreaksMapped, MemTypes
  <2>2. Mapped(child)
    <3> SUFFICES ASSUME NEW v \in MEM_INVALID_PAGES .. space[p].brk - 1
                 PROVE  Overlay(none, g)[v] # NoFrame
      BY <1>10 DEF Mapped
    <3>1. v \in Vpns
      <4>1. space[p].brk \in 0 .. KERNEL_STACK_BASE
        BY SpaceFacts
      <4> QED BY <4>1, Constants DEF Vpns
    <3>2. v \in V
      BY <1>2, <3>1 DEF BreaksMapped, Mapped, Valid
    <3> HIDE DEF V
    <3> QED BY <1>8, <1>9, <3>1, <3>2, Constants
  <2> QED BY <1>2, <1>11, <2>1, <2>2 DEF BreaksMapped
<1>18. PagesNumbered' /\ (~TableMeetsHeap(n) => PagesDescend')
  BY <1>3 DEF TableGiven
<1> QED BY <1>13, <1>14, <1>15, <1>16, <1>17, <1>18 DEF MemOK, MemSound

-----------------------------------------------------------------------------
(* Freeing a page table.                                                   *)

\* The list new is that of the records, but for the half of p's table, whose
\* page has record i: the half is not taken any more, and the last record goes
\* if it was the last half.
HalfGone(p, i, new) ==
  /\ i \in DOMAIN records /\ records[i].page = space[p].page
  /\ new \in Seq(TableRecords) /\ new # << >>
  /\ Len(new) \in DOMAIN new /\ DOMAIN new \subseteq DOMAIN records
  /\ \A j \in DOMAIN new :
       /\ new[j].page = records[j].page
       /\ new[j].frame = records[j].frame
       /\ new[j].halves = IF j = i THEN records[j].halves \ {space[p].half}
                          ELSE records[j].halves
  /\ Len(new) = Len(records) => DOMAIN new = DOMAIN records
  /\ Len(new) # Len(records) =>
       /\ i = Len(records) /\ i # 1 /\ DOMAIN new = DOMAIN records \ {i}
       /\ records[i].halves \subseteq {space[p].half}

\* What ClearedRecords returns.
LEMMA ClearedRecordsFacts ==
  ASSUME MemOK, NEW p \in DOMAIN space \ {IDLE_PID}, NEW i \in RecordOf(p)
  PROVE  HalfGone(p, i, ClearedRecords(i, space[p].half))
<1> DEFINE half == space[p].half
           less == [records[i] EXCEPT !.halves = @ \ {half}]
           cleared == [records EXCEPT ![i].halves = @ \ {half}]
           new == ClearedRecords(i, half)
<1>1. MemTypes /\ PagesDescend /\ HalvesMatch
  BY DEF MemOK
<1>2. i \in DOMAIN records /\ records[i].page = space[p].page
  BY DEF RecordOf
<1>3. /\ Len(records) \in Nat \ {0} /\ DOMAIN records = 1 .. Len(records)
      /\ records \in Seq(TableRecords)
      /\ records[i] \in TableRecords
  BY <1>1, <1>2, LastRecord DEF MemTypes
<1>4. /\ less \in TableRecords /\ less.page = records[i].page
      /\ less.frame = records[i].frame /\ less.halves = records[i].halves \ {half}
  BY <1>3 DEF TableRecords
<1>5. cleared = [records EXCEPT ![i] = less]
  OBVIOUS
<1>7. DOMAIN cleared = DOMAIN records
  OBVIOUS
<1>8. new = IF i = Len(records) /\ cleared[i].halves = {}
            THEN SubSeq(cleared, 1, i - 1) ELSE cleared
  BY DEF ClearedRecords
<1> HIDE DEF less, cleared, new
<1> SUFFICES HalfGone(p, i, new)
  BY DEF new
<1>6. /\ cleared \in Seq(TableRecords) /\ Len(cleared) = Len(records)
      /\ \A j \in 1 .. Len(records) : cleared[j] = IF j = i THEN less ELSE records[j]
  BY <1>2, <1>3, <1>4, <1>5, ExceptSeq
<1>9. \A j \in DOMAIN records :
         /\ cleared[j].page = records[j].page
         /\ cleared[j].frame = records[j].frame
         /\ cleared[j].halves = IF j = i THEN records[j].halves \ {half}
                                ELSE records[j].halves
  BY <1>2, <1>3, <1>4, <1>6
<1>10. CASE ~(i = Len(records) /\ cleared[i].halves = {})
  <2>1. new = cleared
    BY <1>8, <1>10
  <2>2. cleared # << >> /\ Len(cleared) \in DOMAIN cleared
    BY <1>3, <1>6, <1>7
  <2> QED BY <1>2, <1>6, <1>7, <1>9, <2>1, <2>2 DEF HalfGone
<1>11. CASE i = Len(records) /\ cleared[i].halves = {}
  <2>1. new = SubSeq(cleared, 1, i - 1)
    BY <1>8, <1>11
  <2>2. records[i].halves \subseteq {half}
    BY <1>2, <1>9, <1>11
  <2>3. i # 1
    <3> SUFFICES ASSUME i = 1 PROVE FALSE
      OBVIOUS
    <3>1. records[i].page = TopPage
      BY <1>1, <1>2, Constants DEF PagesDescend, PagesNumbered, HeapBelow
    <3>2. "top" \in records[i].halves
      BY <1>1, <1>2, <3>1 DEF HalvesMatch, MemTypes, Halves
    <3>3. half = "top"
      BY <2>2, <3>2
    <3>4. space[p].page = TopPage /\ IDLE_PID \in DOMAIN space
      BY <1>1, <1>2, <3>1 DEF MemTypes
    <3>5. p = IDLE_PID
      BY <1>1, <3>3, <3>4 DEF HalvesMatch
    <3> QED BY <3>5
  <2>4. i \in Nat /\ i - 1 \in 1 .. Len(cleared) /\ 1 \in 1 .. Len(cleared)
    <3>1. Len(cleared) = Len(records)
      BY <1>6
    <3>2. i = Len(records)
      BY <1>11
    <3>3. Len(records) \in Nat \ {0}
      BY <1>3
    <3> QED BY <2>3, <3>1, <3>2, <3>3
  <2>5. /\ new \in Seq(TableRecords) /\ Len(new) = i - 1
        /\ \A j \in 1 .. i - 1 : new[j] = cleared[j]
    <3>1. /\ SubSeq(cleared, 1, i - 1) \in Seq(TableRecords)
          /\ Len(SubSeq(cleared, 1, i - 1)) = IF 1 <= i - 1 THEN (i - 1) - 1 + 1 ELSE 0
          /\ \A j \in 1 .. (i - 1) - 1 + 1 :
               SubSeq(cleared, 1, i - 1)[j] = cleared[1 + j - 1]
      BY <1>6, <2>4, SubSeqProperties
    <3>2. (i - 1) - 1 + 1 = i - 1 /\ 1 <= i - 1 /\ \A j \in 1 .. i - 1 : 1 + j - 1 = j
      BY <2>4
    <3> QED BY <2>1, <3>1, <3>2
  <2>6. DOMAIN new = 1 .. i - 1
    BY <2>5
  <2>7. /\ DOMAIN new \subseteq DOMAIN records /\ DOMAIN new = DOMAIN records \ {i}
        /\ Len(new) \in DOMAIN new /\ new # << >> /\ Len(new) # Len(records)
    <3>1. DOMAIN records = 1 .. i /\ Len(new) = i - 1 /\ Len(records) = i
      BY <1>3, <1>11, <2>5
    <3>2. i \in Nat /\ i >= 2
      BY <1>3, <1>11, <2>3
    <3> QED BY <2>5, <2>6, <3>1, <3>2, EmptySeq
  <2>8. \A j \in DOMAIN new : new[j] = cleared[j]
    BY <2>5, <2>6
  <2>9. \A j \in DOMAIN new :
          /\ new[j].page = records[j].page
          /\ new[j].frame = records[j].frame
          /\ new[j].halves = IF j = i THEN records[j].halves \ {half}
                             ELSE records[j].halves
    BY <1>9, <2>7, <2>8
  <2> QED BY <1>2, <1>11, <2>2, <2>3, <2>5, <2>7, <2>9 DEF HalfGone
<1> QED BY <1>10, <1>11

\* The process whose table is freed gives back its frames, and the kernel the
\* page of the table if it was the last one in it.
LEMMA FreePageTableStep ==
  ASSUME MemOK, NEW p \in DOMAIN space \ {IDLE_PID}, FreePageTable(p)
  PROVE  MemOK' /\ Allocator!Handler(p)
<1>1. MemTypes /\ Owners /\ PagesDescend /\ HalvesMatch /\ BreaksMapped
  BY DEF MemOK
<1>2. /\ space' = [q \in DOMAIN space \ {p} |-> space[q]]
      /\ exiting' = NoProcess
      /\ kernelBrk' = kernelBrk /\ kernelPageTable' = kernelPageTable
  BY DEF FreePageTable
<1>3. PICK i \in RecordOf(p) :
        /\ records' = ClearedRecords(i, space[p].half)
        /\ occupied' = occupied \ (FramesIn(space[p].pageTable, Vpns)
                                     \cup TableFrame(i, space[p].half))
  BY DEF FreePageTable
<1>4. /\ i \in DOMAIN records /\ records[i].page = space[p].page
      /\ records' \in Seq(TableRecords) /\ records' # << >>
      /\ Len(records') \in DOMAIN records' /\ DOMAIN records' \subseteq DOMAIN records
      /\ \A j \in DOMAIN records' :
           /\ records'[j].page = records[j].page
           /\ records'[j].frame = records[j].frame
           /\ records'[j].halves = IF j = i
                                   THEN records[j].halves \ {space[p].half}
                                   ELSE records[j].halves
      /\ Len(records') = Len(records) => DOMAIN records' = DOMAIN records
      /\ Len(records') # Len(records) =>
           /\ i = Len(records) /\ i # 1 /\ DOMAIN records' = DOMAIN records \ {i}
           /\ records[i].halves \subseteq {space[p].half}
  <2>1. HalfGone(p, i, records')
    BY <1>3, ClearedRecordsFacts
  <2> QED BY <2>1 DEF HalfGone
<1>5. /\ Len(records) \in Nat /\ DOMAIN records = 1 .. Len(records)
      /\ \A j \in DOMAIN records : /\ records[j].page \in KernelUses
                                   /\ records[j].page = TopPage + 1 - j
                                   /\ kernelPageTable[records[j].page] = records[j].frame
      /\ kernelBrk <= records[Len(records)].page
  BY <1>1, LastRecord DEF PagesDescend, PagesNumbered, HeapBelow
<1>6. p \in Processes /\ FramesIn(space[p].pageTable, Vpns) = HeldBy(p)
  BY SpaceFacts
<1>7. /\ DOMAIN space' = DOMAIN space \ {p}
      /\ \A q \in DOMAIN space' : space'[q] = space[q]
  BY <1>2
<1>8. HeldBy(p)' = {} /\ \A q \in Processes \ {p} : HeldBy(q)' = HeldBy(q)
  BY <1>7 DEF HeldBy
<1> DEFINE gone == TableFrame(i, space[p].half)
<1>9. gone = IF Len(records') = Len(records) THEN {} ELSE {records[i].frame}
  BY <1>3 DEF TableFrame
<1> HIDE DEF gone
<1>10. KernelUses' \subseteq KernelUses
  BY <1>2, <1>4 DEF KernelUses
<1>11. Len(records') # Len(records) => records[i].page \notin KernelUses'
  <2> SUFFICES ASSUME Len(records') # Len(records), records[i].page \in KernelUses'
               PROVE  FALSE
    OBVIOUS
  <2>1. i = Len(records) /\ i \in Nat /\ DOMAIN records' = DOMAIN records \ {i}
    BY <1>4, <1>5
  <2>2. ~(records[i].page < kernelBrk)
    <3>1. kernelBrk \in Int
      BY <1>1, Constants DEF MemTypes
    <3>2. records[i].page = TopPage + 1 - i
      BY <1>4, <1>5
    <3>3. records[i].page \in Int
      BY <2>1, <3>2, Constants
    <3> QED BY <1>5, <2>1, <3>1, <3>3
  <2>3. PICK j \in DOMAIN records' : records'[j].page = records[i].page
    BY <1>2, <2>2 DEF KernelUses
  <2>4. j \in DOMAIN records /\ j # i /\ records[j].page = records[i].page
    BY <1>4, <2>1, <2>3
  <2>5. TopPage + 1 - j = TopPage + 1 - i
    BY <1>4, <1>5, <2>4
  <2>6. j \in Nat
    BY <1>5, <2>4
  <2> QED BY <2>1, <2>4, <2>5, <2>6, Constants
<1>12. \A v \in KernelUses : /\ v \in KernelPages
                             /\ kernelPageTable[v] \in HeldByKernel
                             /\ kernelPageTable[v] # NoFrame
  BY <1>1, KernelUsesMapped
<1>13. OneToOne(kernelPageTable, KernelUses)'
  BY <1>1, <1>2, <1>10 DEF Owners, OneToOne, Valid
<1>14. HeldByKernel' \subseteq HeldByKernel /\ HeldByKernel' \cap gone = {}
  <2>1. HeldByKernel' = {kernelPageTable[v] : v \in KernelUses'}
    BY <1>2 DEF HeldByKernel
  <2>2. HeldByKernel' \subseteq HeldByKernel
    BY <1>10, <1>12, <2>1
  <2>3. CASE Len(records') # Len(records)
    <3>1. gone = {kernelPageTable[records[i].page]}
      BY <1>4, <1>5, <1>9, <2>3
    <3>2. records[i].page \in KernelUses \ KernelUses'
      BY <1>4, <1>5, <1>11, <2>3
    <3>3. \A v \in KernelUses' : kernelPageTable[v] # kernelPageTable[records[i].page]
      BY <1>1, <1>10, <1>12, <3>2 DEF Owners, OneToOne, Valid
    <3> QED BY <2>1, <2>2, <3>1, <3>3
  <2>4. CASE Len(records') = Len(records)
    BY <1>9, <2>2, <2>4
  <2> QED BY <2>3, <2>4
<1>15. gone \subseteq HeldByKernel
  BY <1>4, <1>5, <1>9, <1>12
<1>16. /\ HeldByKernel \subseteq occupied /\ HeldBy(p) \cap HeldByKernel = {}
       /\ HeldByKernel \subseteq Frames
       /\ \A q \in Processes : HeldBy(q) \subseteq Frames
  BY <1>1, <1>6, HeldOccupied, HeldTyped DEF Owners
<1>17. occupied' = occupied \ (HeldBy(p) \cup gone)
  BY <1>3, <1>6 DEF gone
<1>18. Allocator!Handler(p)
  <2>1. {} \cup {} \subseteq Frames \ occupied /\ {} \cap {} = {}
    OBVIOUS
  <2>2. HeldBy(p)' \subseteq HeldBy(p) \cup {} /\ HeldByKernel' \subseteq HeldByKernel \cup {}
    BY <1>8, <1>14
  <2>3. \A q \in Processes : HeldBy(q)' \subseteq Frames
    BY <1>8, <1>16
  <2>4. occupied \ occupied' \subseteq HeldBy(p) \cup HeldByKernel
    BY <1>15, <1>17
  <2>5. HeldBy(p)' \cup HeldByKernel' \subseteq occupied'
    BY <1>8, <1>14, <1>16, <1>17
  <2> QED BY <1>6, <1>8, <2>1, <2>2, <2>3, <2>4, <2>5, HandlerFromEffect
<1>19. Owners'
  <2>1. \A q \in DOMAIN space' : OneToOne(space'[q].pageTable, Vpns)
    BY <1>1, <1>7 DEF Owners
  <2>2. HeldByKernel' \subseteq Frames
    BY <1>14, <1>16
  <2> QED BY <1>1, <1>6, <1>13, <1>18, <2>1, <2>2, OwnersStep
<1>20. MemTypes'
  <2>1. space' \in [DOMAIN space' -> Spaces]
    BY <1>1, <1>2, <1>7 DEF MemTypes
  <2>2. exiting' \in Exitable'
    BY <1>2 DEF Exitable
  <2> QED BY <1>1, <1>2, <1>4, <1>7, <1>17, <2>1, <2>2 DEF MemTypes
<1>21. PagesDescend'
  <2>1. \A j \in DOMAIN records' : /\ records'[j].page = TopPage + 1 - j
                                   /\ kernelPageTable'[records'[j].page] = records'[j].frame
    BY <1>2, <1>4, <1>5
  <2>2. kernelBrk' <= records'[Len(records')].page
    <3>1. Len(records') \in 1 .. Len(records)
      BY <1>4, <1>5
    <3>2. /\ records'[Len(records')].page = TopPage + 1 - Len(records')
          /\ records[Len(records)].page = TopPage + 1 - Len(records)
      BY <1>4, <1>5, <2>1, <3>1
    <3>3. kernelBrk \in Int
      BY <1>1, Constants DEF MemTypes
    <3> QED BY <1>2, <1>5, <3>1, <3>2, <3>3, Constants
  <2>3. PAGE_TABLE_LEN < kernelBrk'
    BY <1>1, <1>2 DEF PagesDescend, HeapBelow
  <2> QED BY <1>4, <2>1, <2>2, <2>3 DEF PagesDescend, PagesNumbered, HeapBelow
<1>22. HalvesMatch'
  <2>1. IDLE_PID \in DOMAIN space'
    BY <1>1, <1>7 DEF MemTypes
  <2>2. ASSUME NEW j \in DOMAIN records', NEW half \in Halves
        PROVE  half \in records'[j].halves <=>
                 \E q \in DOMAIN space' : space'[q].page = records'[j].page
                                            /\ space'[q].half = half
    <3>1. half \in records[j].halves <=>
            \E q \in DOMAIN space : space[q].page = records[j].page
                                      /\ space[q].half = half
      BY <1>1, <1>4 DEF HalvesMatch
    <3>2. (\E q \in DOMAIN space' : space'[q].page = records'[j].page
                                      /\ space'[q].half = half)
            <=> \E q \in DOMAIN space \ {p} : space[q].page = records[j].page
                                                /\ space[q].half = half
      BY <1>4, <1>7
    <3>3. CASE j = i
      <4>1. half \in records'[j].halves <=> half \in records[j].halves /\ half # space[p].half
        BY <1>4, <3>3
      <4>2. ASSUME NEW q \in DOMAIN space, space[q].page = records[j].page,
                   space[q].half = half
            PROVE  q = p <=> half = space[p].half
        BY <1>1, <1>4, <3>3, <4>2 DEF HalvesMatch
      <4> QED BY <3>1, <3>2, <4>1, <4>2
    <3>4. CASE j # i
      <4>1. records'[j].halves = records[j].halves
        BY <1>4, <3>4
      <4>2. space[p].page # records[j].page
        <5>1. /\ records[j].page = TopPage + 1 - j /\ records[i].page = TopPage + 1 - i
              /\ i \in Nat /\ j \in Nat
          BY <1>4, <1>5
        <5> QED BY <1>4, <3>4, <5>1, Constants
      <4> QED BY <3>1, <3>2, <4>1, <4>2
    <3> QED BY <3>3, <3>4
  <2>3. ASSUME NEW q \in DOMAIN space'
        PROVE  \E j \in DOMAIN records' : records'[j].page = space'[q].page
    <3>1. PICK j \in DOMAIN records : records[j].page = space[q].page
      BY <1>1, <1>7 DEF HalvesMatch
    <3>2. space'[q] = space[q] /\ q \in DOMAIN space /\ q # p
      BY <1>7
    <3>3. j \in DOMAIN records'
      <4> SUFFICES ASSUME j \notin DOMAIN records' PROVE FALSE
        OBVIOUS
      <4>1. j = i /\ records[i].halves \subseteq {space[p].half}
        BY <1>4, <3>1
      <4>2. space[q].half \in Halves
        BY <3>2, SpaceFacts
      <4>3. space[q].half \in records[i].halves
        BY <1>1, <1>4, <3>1, <3>2, <4>1, <4>2 DEF HalvesMatch
      <4> QED BY <1>1, <1>4, <3>1, <3>2, <4>1, <4>3 DEF HalvesMatch
    <3> QED BY <1>4, <3>1, <3>2, <3>3
  <2>4. /\ space'[IDLE_PID].page = TopPage /\ space'[IDLE_PID].half = "top"
        /\ \A q, r \in DOMAIN space' :
             (space'[q].page = space'[r].page /\ space'[q].half = space'[r].half) => q = r
    BY <1>1, <1>7, <2>1 DEF HalvesMatch
  <2> QED BY <2>2, <2>3, <2>4 DEF HalvesMatch
<1>23. BreaksMapped'
  BY <1>1, <1>7 DEF BreaksMapped, MemTypes
<1> QED BY <1>18, <1>19, <1>20, <1>21, <1>22, <1>23 DEF MemOK

-----------------------------------------------------------------------------
(* A frame that is given back is never free already.                       *)

\* The frames behind a process's pages are occupied, each behind one page.
LEMMA AlwaysCanFree ==
  ASSUME MemOK, NEW p \in DOMAIN space, NEW V \in SUBSET Vpns,
         NEW occ, occupied \subseteq occ
  PROVE  CanFree(space[p].pageTable, V, occ)
<1>1. /\ OneToOne(space[p].pageTable, Vpns)
      /\ FramesIn(space[p].pageTable, Vpns) \subseteq occupied
  BY SpaceFacts
<1>2. \A v \in Vpns : space[p].pageTable[v] # NoFrame
                        => space[p].pageTable[v] \in occupied
  BY <1>1, FramesInFacts
<1> QED BY <1>1, <1>2 DEF CanFree, OneToOne, Valid

\* LoadProgram stops for lack of memory only.
LEMMA LoadOnlyRunsOut ==
  ASSUME MemOK, NEW p \in DOMAIN space, NEW prog, NEW n \in Nat,
         LoadStops(p, prog, n)
  PROVE  Stop("malloc") \/ Stop("heapAtTables")
<1>1. CASE MallocStops(n)
  BY <1>1 DEF MallocStops
<1>2. CASE CanMalloc(n) /\ ~CanFree(space[p].pageTable, UserVpns, AfterMalloc(n))
  <2>1. occupied \subseteq AfterMalloc(n)
    BY <1>2, MallocFacts DEF MemOK
  <2>2. UserVpns \in SUBSET Vpns
    BY Constants
  <2> QED BY <1>2, <2>1, <2>2, AlwaysCanFree
<1> QED BY <1>1, <1>2 DEF LoadStops

\* Brk never stops the kernel: all pages below the break are there.
LEMMA BrkNeverStops ==
  ASSUME MemOK, NEW p \in UserPids, NEW page \in Nat
  PROVE  ~BrkStops(p, page)
<1> SUFFICES ASSUME p \in DOMAIN space, MEM_INVALID_PAGES < page
             PROVE  CanShrink(p, page)
  BY DEF BrkStops, BrkAllowed, Running
<1> DEFINE given == page .. space[p].brk - 1
<1>1. space[p].brk \in 0 .. KERNEL_STACK_BASE /\ Mapped(space[p])
  BY SpaceFacts
<1>2. given \in SUBSET Vpns
  BY <1>1, UserRange
<1>3. given \subseteq MEM_INVALID_PAGES .. space[p].brk - 1
  BY <1>1, Constants
<1>4. Valid(space[p].pageTable, given) = given
  <2> HIDE DEF given
  <2> QED BY <1>1, <1>3 DEF Mapped, Valid
<1>5. CanFree(space[p].pageTable, given, occupied)
  <2> HIDE DEF given
  <2> QED BY <1>2, AlwaysCanFree
<1> QED BY <1>4, <1>5 DEF CanShrink

\* The table of a process that exits is found in a record, and the page it may
\* free is the kernel's, never the first.
LEMMA TableAlwaysSound ==
  ASSUME MemOK, NEW p \in DOMAIN space \ {IDLE_PID}
  PROVE  TableIsSound(p)
<1>1. CanFree(space[p].pageTable, Vpns, occupied)
  BY AlwaysCanFree
<1>2. PICK i \in RecordOf(p) : TRUE
  BY DEF MemOK, HalvesMatch, RecordOf
<1>3. HalfGone(p, i, ClearedRecords(i, space[p].half))
  BY ClearedRecordsFacts
<1>4. i = 1 => TableFrame(i, space[p].half) = {}
  BY <1>3 DEF HalfGone, TableFrame
<1>5. records[i].frame \in occupied
  <2>1. i \in DOMAIN records
    BY <1>3 DEF HalfGone
  <2>2. MemTypes /\ Owners /\ PagesDescend
    BY DEF MemOK
  <2>3. records[i].page \in KernelUses
    BY <2>1, <2>2, LastRecord
  <2>4. kernelPageTable[records[i].page] \in HeldByKernel
    BY <2>2, <2>3, KernelUsesMapped
  <2>5. HeldByKernel \subseteq occupied
    BY <2>2, HeldOccupied
  <2> QED BY <2>1, <2>2, <2>4, <2>5 DEF PagesDescend, PagesNumbered, HeapBelow
<1>6. TableFrame(i, space[p].half) \subseteq occupied
  BY <1>5 DEF TableFrame
<1> QED BY <1>1, <1>4, <1>6 DEF TableIsSound

-----------------------------------------------------------------------------
(* What any step does to memory.                                           *)

\* A page of tables on the heap is the end; up to there all is in order.
MemInv == MemSound /\ (halt # "heapOverwritten" => MemOK)

\* The step keeps the invariant, and is a handler of the abstract allocator.
MemoryKept == MemInv' /\ \E q \in Processes : Allocator!Handler(q)

\* Steps that put nothing on the heap.
LEMMA Kept ==
  ASSUME MemOK', NEW q \in Processes, Allocator!Handler(q)
  PROVE  MemoryKept
BY DEF MemoryKept, MemInv, MemOK, MemSound, PagesDescend

\* A step that changes at most which process exits.
LEMMA SameMemory ==
  ASSUME MemOK, UNCHANGED <<occupied, kernelBrk, kernelPageTable, records, space>>,
         exiting' \in Exitable
  PROVE  MemoryKept
<1>1. /\ CanMalloc(0) /\ kernelBrk + 0 = kernelBrk
      /\ AfterMalloc(0) = occupied /\ MallocTable(0) = kernelPageTable
  BY MallocNothing DEF MemOK
<1>2. /\ Malloc(0) /\ occupied' = AfterMalloc(0) /\ kernelPageTable' = MallocTable(0)
      /\ records' = records /\ space' = space
  BY <1>1 DEF Malloc
<1>3. MemOK' /\ Allocator!Handler(IDLE_PID)
  BY <1>2, HeapStep
<1> QED BY <1>3, Constants, Kept

\* The process whose table is to be freed is one of those that run.
LEMMA ExitableFacts ==
  ASSUME MemOK
  PROVE  /\ exiting \in Exitable
         /\ \A p \in DOMAIN space \ {IDLE_PID} : p \in Exitable
BY DEF MemOK, MemTypes, Exitable

\* A kernel that halts leaves the memory as it is.
LEMMA StopKeeps ==
  ASSUME MemOK, NEW reason, Stop(reason)
  PROVE  MemoryKept
<1>1. /\ UNCHANGED <<occupied, kernelBrk, kernelPageTable, records, space>>
      /\ exiting' \in Exitable
  BY ExitableFacts DEF Stop
<1> QED BY <1>1, SameMemory

\* LoadProgram, when it reports to its caller.
LEMMA LoadKeeps ==
  ASSUME MemOK, NEW p \in DOMAIN space, NEW prog \in Program, NEW n \in Nat,
         exiting' \in Exitable,
         LoadReplaces(p, prog, n) \/ LoadRefused(p, prog, n)
  PROVE  MemoryKept /\ DOMAIN space' = DOMAIN space
<1>1. CASE LoadReplaces(p, prog, n)
  <2>1. DOMAIN space' = DOMAIN space
    BY <1>1 DEF LoadReplaces
  <2>2. MemOK' /\ Allocator!Handler(p)
    BY <1>1, LoadReplacesStep
  <2> QED BY <2>1, <2>2, SpaceFacts, Kept
<1>2. CASE LoadRefused(p, prog, n)
  <2>1. /\ Malloc(n) /\ occupied' = AfterMalloc(n)
        /\ kernelPageTable' = MallocTable(n)
        /\ records' = records /\ space' = space
    BY <1>2 DEF LoadRefused
  <2>2. MemOK' /\ Allocator!Handler(IDLE_PID)
    BY <2>1, HeapStep
  <2> QED BY <2>1, <2>2, Constants, Kept
<1> QED BY <1>1, <1>2

\* Why the kernel may stop, but for a frame freed twice.
Reasons == {"no", "malloc", "heapAtTables", "frames", "heapOverwritten",
            "highFrame", "lastExit", "noInit"}

\* Any step of clone keeps the invariant.
LEMMA CloneKeeps ==
  ASSUME MemOK, halt = "no", NEW p \in DOMAIN space,
         NEW c \in Processes \ DOMAIN space, NEW n \in Nat, CloneInto(p, c, n)
  PROVE  /\ MemoryKept /\ halt' \in Reasons /\ exiting' = exiting
         /\ DOMAIN space' = DOMAIN space \cup {c}
<1>1. /\ MemSound' /\ Allocator!Handler(c)
      /\ ~TableMeetsHeap(n) => MemOK'
  BY CloneStep
<1>2. /\ halt' = (IF TableMeetsHeap(n) THEN "heapOverwritten" ELSE "no")
      /\ exiting' = exiting /\ DOMAIN space' = DOMAIN space \cup {c}
  BY DEF CloneInto
<1> QED BY <1>1, <1>2 DEF MemoryKept, MemInv, Reasons

\* malloc or clone, when they stop the kernel.
LEMMA RunsOut ==
  ASSUME MemOK, NEW n, NEW p, MallocStops(n) \/ CloneStops(p, n)
  PROVE  /\ MemoryKept /\ halt' \in Reasons
         /\ UNCHANGED <<space, exiting>>
<1>1. Stop("malloc") \/ Stop("heapAtTables") \/ Stop("frames")
  BY DEF MallocStops, CloneStops
<1> QED BY <1>1, StopKeeps DEF Stop, Reasons

\* Fork.
LEMMA ForkKeeps ==
  ASSUME MemOK, halt \in Reasons, NEW p \in UserPids, ForkStep(p)
  PROVE  MemoryKept /\ halt' \in Reasons
<1>1. CASE ForkRefused(p)
  <2>1. /\ UNCHANGED <<occupied, kernelBrk, kernelPageTable, records, space>>
        /\ exiting' = exiting /\ halt' = halt
    BY <1>1 DEF ForkRefused, memVars
  <2> QED BY <2>1, SameMemory, ExitableFacts
<1>2. CASE \E n \in Growths : ForkStops(p, n)
  <2>1. PICK n : MallocStops(n) \/ CloneStops(p, n)
    BY <1>2 DEF ForkStops
  <2> QED BY <2>1, RunsOut
<1>3. CASE \E n \in Growths, c \in UserPids \ DOMAIN space : ForkCopies(p, c, n)
  <2>1. PICK n \in Nat, c \in Processes \ DOMAIN space :
          Running(p) /\ CloneInto(p, c, n)
    BY <1>3, BootAssumption DEF ForkCopies, Processes
  <2>2. halt = "no" /\ p \in DOMAIN space
    BY <2>1 DEF Running
  <2> QED BY <2>1, <2>2, CloneKeeps
<1> QED BY <1>1, <1>2, <1>3 DEF ForkStep

\* removeExitingProcess.
LEMMA LeavesFacts ==
  ASSUME MemOK, halt \in Reasons, NEW p \in DOMAIN space \ {IDLE_PID}, Leaves(p)
  PROVE  exiting' \in Exitable /\ halt' \in Reasons
BY ExitableFacts DEF Leaves, Reasons

\* Exec.
LEMMA ExecKeeps ==
  ASSUME MemOK, halt \in Reasons, NEW p \in UserPids, ExecStep(p)
  PROVE  MemoryKept /\ halt' \in Reasons
<1>1. PICK n \in Nat, prog \in Program :
        \/ ExecRefused(p, prog, n) \/ ExecLoads(p, prog, n)
        \/ ExecKills(p, prog, n) \/ ExecStops(p, prog, n)
  BY BootAssumption DEF ExecStep
<1>2. p \in DOMAIN space \ {IDLE_PID}
  BY <1>1 DEF ExecRefused, ExecLoads, ExecKills, ExecStops, Running
<1>3. CASE Running(p) /\ UNCHANGED memVars
  <2>1. /\ UNCHANGED <<occupied, kernelBrk, kernelPageTable, records, space>>
        /\ exiting' = exiting /\ halt' = halt
    BY <1>3 DEF memVars
  <2> QED BY <2>1, SameMemory, ExitableFacts
<1>4. CASE /\ LoadReplaces(p, prog, n) \/ LoadRefused(p, prog, n)
           /\ UNCHANGED <<exiting, halt>>
  BY <1>2, <1>4, LoadKeeps, ExitableFacts
<1>5. CASE LoadReplaces(p, prog, n) /\ Leaves(p)
  BY <1>2, <1>5, LeavesFacts, LoadKeeps
<1>6. CASE LoadStops(p, prog, n)
  <2>1. Stop("malloc") \/ Stop("heapAtTables")
    BY <1>2, <1>6, LoadOnlyRunsOut
  <2>2. halt' \in Reasons
    BY <2>1 DEF Stop, Reasons
  <2> QED BY <2>1, <2>2, StopKeeps
<1> QED BY <1>1, <1>3, <1>4, <1>5, <1>6
        DEF ExecRefused, ExecLoads, ExecKills, ExecStops, LoadRefused

\* Exit, in a trap or for an illegal access.
LEMMA ExitKeeps ==
  ASSUME MemOK, halt \in Reasons, NEW p \in UserPids, NEW n \in Nat,
         Exit(p, n) \/ ExitStops(p, n)
  PROVE  MemoryKept /\ halt' \in Reasons
<1>1. CASE Exit(p, n)
  <2>1. /\ p \in DOMAIN space \ {IDLE_PID} /\ Leaves(p)
        /\ Malloc(n) /\ occupied' = AfterMalloc(n)
        /\ kernelPageTable' = MallocTable(n)
        /\ records' = records /\ space' = space
    BY <1>1 DEF Exit, Running
  <2>2. exiting' \in Exitable /\ halt' \in Reasons
    BY <2>1, LeavesFacts
  <2>3. MemOK' /\ Allocator!Handler(IDLE_PID)
    BY <2>1, <2>2, HeapStep
  <2> QED BY <2>2, <2>3, Constants, Kept
<1>2. CASE ExitStops(p, n)
  <2>1. MallocStops(n)
    BY <1>2 DEF ExitStops
  <2> QED BY <2>1, RunsOut
<1> QED BY <1>1, <1>2

\* Brk.
LEMMA BrkKeeps ==
  ASSUME MemOK, halt \in Reasons, NEW p \in UserPids, BrkStep(p)
  PROVE  MemoryKept /\ halt' \in Reasons
<1>1. PICK page \in Nat : \/ BrkRefused(p, page) \/ BrkGrows(p, page)
                          \/ BrkShrinks(p, page) \/ BrkStops(p, page)
  BY BootAssumption DEF BrkStep
<1>2. CASE BrkRefused(p, page)
  <2>1. /\ UNCHANGED <<occupied, kernelBrk, kernelPageTable, records, space>>
        /\ exiting' = exiting /\ halt' = halt
    BY <1>2 DEF BrkRefused, memVars
  <2> QED BY <2>1, SameMemory, ExitableFacts
<1>3. CASE BrkGrows(p, page)
  <2>1. halt' = halt
    BY <1>3 DEF BrkGrows
  <2> QED BY <1>3, <2>1, BrkGrowsStep, Kept DEF Processes
<1>4. CASE BrkShrinks(p, page)
  <2>1. halt' = halt
    BY <1>4 DEF BrkShrinks
  <2> QED BY <1>4, <2>1, BrkShrinksStep, Kept DEF Processes
<1> QED BY <1>1, <1>2, <1>3, <1>4, BrkNeverStops

\* The memory trap.
LEMMA AccessKeeps ==
  ASSUME MemOK, halt \in Reasons, NEW p \in UserPids, AccessStep(p)
  PROVE  MemoryKept /\ halt' \in Reasons
<1>1. PICK page \in Nat :
        \/ StackGrows(p, page)
        \/ \E n \in Growths : AccessKills(p, page, n) \/ AccessStops(p, page, n)
  BY BootAssumption DEF AccessStep
<1>2. CASE StackGrows(p, page)
  <2>1. halt' = halt
    BY <1>2 DEF StackGrows
  <2> QED BY <1>2, <2>1, StackGrowsStep, Kept DEF Processes
<1>3. CASE \E n \in Growths : AccessKills(p, page, n) \/ AccessStops(p, page, n)
  <2>1. PICK n \in Nat : Exit(p, n) \/ ExitStops(p, n)
    BY <1>3, BootAssumption DEF AccessKills, AccessStops
  <2> QED BY <2>1, ExitKeeps
<1> QED BY <1>1, <1>2, <1>3

\* The processes, the receive interrupt and freeing a table.
LEMMA UseKeeps ==
  ASSUME MemOK, halt \in Reasons, UserStep \/ ReceiveStep \/ FreeExited
  PROVE  MemoryKept /\ halt' \in Reasons
<1>1. CASE UserStep
  <2>1. PICK p \in UserPids : \/ ForkStep(p) \/ ExecStep(p) \/ ExitStep(p)
                              \/ BrkStep(p) \/ AccessStep(p)
    BY <1>1 DEF UserStep
  <2>2. CASE ExitStep(p)
    <3>1. PICK n \in Nat : Exit(p, n) \/ ExitStops(p, n)
      BY <2>2, BootAssumption DEF ExitStep
    <3> QED BY <3>1, ExitKeeps
  <2> QED BY <2>1, <2>2, ForkKeeps, ExecKeeps, BrkKeeps, AccessKeeps
<1>2. CASE ReceiveStep
  <2>1. PICK n \in Nat : ReceiveMallocs(n) \/ ReceiveStops(n)
    BY <1>2, BootAssumption DEF ReceiveStep
  <2>2. CASE ReceiveMallocs(n)
    <3>1. /\ Malloc(n) /\ occupied' = AfterMalloc(n)
          /\ kernelPageTable' = MallocTable(n)
          /\ records' = records /\ space' = space
          /\ exiting' = exiting /\ halt' = halt
      BY <2>2 DEF ReceiveMallocs
    <3>2. MemOK' /\ Allocator!Handler(IDLE_PID)
      BY <3>1, ExitableFacts, HeapStep
    <3> QED BY <3>1, <3>2, Constants, Kept
  <2>3. CASE ReceiveStops(n)
    <3>1. MallocStops(n)
      BY <2>3 DEF ReceiveStops
    <3> QED BY <3>1, RunsOut
  <2> QED BY <2>1, <2>2, <2>3
<1>3. CASE FreeExited
  <2>1. PICK p \in DOMAIN space \ {IDLE_PID} : p = exiting
    BY <1>3, ExitableFacts DEF FreeExited, Exitable
  <2>2. CASE FreePageTable(p)
    <3>1. MemOK' /\ Allocator!Handler(p)
      BY <2>2, FreePageTableStep
    <3>2. halt' = halt /\ p \in Processes
      BY <2>2, SpaceFacts DEF FreePageTable
    <3> QED BY <3>1, <3>2, Kept
  <2>3. CASE FreePageTableStops(p)
    <3>1. Stop("highFrame")
      BY <2>3, TableAlwaysSound DEF FreePageTableStops
    <3>2. halt' \in Reasons
      BY <3>1 DEF Stop, Reasons
    <3> QED BY <3>1, <3>2, StopKeeps
  <2> QED BY <1>3, <2>1, <2>2, <2>3 DEF FreeExited
<1> QED BY <1>1, <1>2, <1>3

-----------------------------------------------------------------------------
(* Boot, and the invariant of the whole.                                   *)

\* Up to init's first instruction only idle and init have address spaces, and
\* no process exits.
Booting ==
  /\ stage \in {"loadIdle", "clone"} => DOMAIN space = {IDLE_PID}
  /\ stage = "loadInit" => INIT_PID \in DOMAIN space
  /\ stage # "up" => exiting = NoProcess

BootInv ==
  /\ MemInv
  /\ halt \in Reasons
  /\ stage \in {"loadIdle", "clone", "loadInit", "up"}
  /\ calls \in Nat
  /\ Booting

\* A step of BootNext keeps the invariant and maps to a step of the allocator.
BootKept == BootInv' /\ \E q \in Processes : Allocator!Handler(q)

\* idle is loaded.
LEMMA LoadIdleKeeps ==
  ASSUME BootInv, LoadIdle, calls' = calls
  PROVE  BootKept
<1>1. /\ stage = "loadIdle" /\ DOMAIN space = {IDLE_PID} /\ MemOK
      /\ calls' \in Nat /\ halt \in Reasons
  BY DEF BootInv, MemInv, Booting, LoadIdle, At
<1>2. PICK n \in Nat :
        \/ /\ \/ UNCHANGED memVars
              \/ LoadReplaces(IDLE_PID, IdleProgram, n) /\ UNCHANGED <<exiting, halt>>
              \/ LoadRefused(IDLE_PID, IdleProgram, n)
           /\ stage' = "clone"
        \/ LoadStops(IDLE_PID, IdleProgram, n) /\ UNCHANGED stage
  BY BootAssumption DEF LoadIdle
<1>3. IDLE_PID \in DOMAIN space /\ IdleProgram \in Program
  BY <1>1, BootAssumption
<1>4. CASE UNCHANGED memVars /\ stage' = "clone"
  <2>1. /\ UNCHANGED <<occupied, kernelBrk, kernelPageTable, records, space>>
        /\ exiting' = exiting /\ halt' = halt
    BY <1>4 DEF memVars
  <2>2. MemoryKept
    BY <1>1, <2>1, SameMemory, ExitableFacts
  <2> QED BY <1>1, <1>4, <2>1, <2>2 DEF BootKept, MemoryKept, BootInv, Booting
<1>5. CASE /\ LoadReplaces(IDLE_PID, IdleProgram, n) \/ LoadRefused(IDLE_PID, IdleProgram, n)
           /\ UNCHANGED <<exiting, halt>>
           /\ stage' = "clone"
  <2>1. MemoryKept /\ DOMAIN space' = DOMAIN space
    BY <1>1, <1>3, <1>5, LoadKeeps, ExitableFacts
  <2> QED BY <1>1, <1>5, <2>1 DEF BootKept, MemoryKept, BootInv, Booting
<1>6. CASE LoadStops(IDLE_PID, IdleProgram, n) /\ UNCHANGED stage
  <2>1. Stop("malloc") \/ Stop("heapAtTables")
    BY <1>1, <1>3, <1>6, LoadOnlyRunsOut
  <2>2. halt' \in Reasons /\ space' = space /\ exiting' = exiting
    BY <2>1 DEF Stop, Reasons
  <2>3. MemoryKept
    BY <1>1, <2>1, StopKeeps
  <2> QED BY <1>1, <1>6, <2>2, <2>3 DEF BootKept, MemoryKept, BootInv, Booting
<1> QED BY <1>2, <1>4, <1>5, <1>6 DEF LoadRefused

\* idle is cloned into init.
LEMMA CloneInitKeeps ==
  ASSUME BootInv, CloneInit, calls' = calls
  PROVE  BootKept
<1>1. /\ stage = "clone" /\ DOMAIN space = {IDLE_PID} /\ MemOK
      /\ calls' \in Nat /\ halt = "no" /\ exiting = NoProcess
  BY DEF BootInv, MemInv, Booting, CloneInit, At
<1>2. PICK n \in Nat :
        \/ CloneInto(IDLE_PID, INIT_PID, n) /\ stage' = "loadInit"
        \/ (MallocStops(n) \/ CloneStops(IDLE_PID, n)) /\ UNCHANGED stage
  BY BootAssumption DEF CloneInit
<1>3. CASE CloneInto(IDLE_PID, INIT_PID, n) /\ stage' = "loadInit"
  <2>1. IDLE_PID \in DOMAIN space /\ INIT_PID \in Processes \ DOMAIN space
    BY <1>1, Constants
  <2>2. /\ MemoryKept /\ halt' \in Reasons
        /\ INIT_PID \in DOMAIN space' /\ exiting' = exiting
    BY <1>1, <1>3, <2>1, CloneKeeps
  <2> QED BY <1>1, <1>3, <2>2 DEF BootKept, MemoryKept, BootInv, Booting
<1>4. CASE (MallocStops(n) \/ CloneStops(IDLE_PID, n)) /\ UNCHANGED stage
  <2>1. MemoryKept /\ halt' \in Reasons /\ UNCHANGED <<space, exiting>>
    BY <1>1, <1>4, RunsOut
  <2> QED BY <1>1, <1>4, <2>1 DEF BootKept, MemoryKept, BootInv, Booting
<1> QED BY <1>2, <1>3, <1>4

\* init is loaded, or the kernel halts.
LEMMA LoadInitKeeps ==
  ASSUME BootInv, LoadInit, calls' = calls
  PROVE  BootKept
<1>1. /\ stage = "loadInit" /\ INIT_PID \in DOMAIN space /\ MemOK
      /\ calls' \in Nat /\ halt \in Reasons
  BY DEF BootInv, MemInv, Booting, LoadInit, At
<1>2. CASE /\ \E n \in Growths, prog \in Programs :
                LoadReplaces(INIT_PID, prog, n) /\ UNCHANGED <<exiting, halt>>
           /\ stage' = "up"
  <2>1. PICK n \in Nat, prog \in Program :
          LoadReplaces(INIT_PID, prog, n) /\ UNCHANGED <<exiting, halt>>
    BY <1>2, BootAssumption
  <2>2. MemoryKept
    BY <1>1, <2>1, LoadKeeps, ExitableFacts
  <2> QED BY <1>1, <1>2, <2>1, <2>2 DEF BootKept, MemoryKept, BootInv, Booting
<1>3. CASE /\ Stop("noInit") \/ \E n \in Growths, prog \in Programs :
                                  LoadStops(INIT_PID, prog, n)
           /\ UNCHANGED stage
  <2>1. Stop("noInit") \/ Stop("malloc") \/ Stop("heapAtTables")
    BY <1>1, <1>3, LoadOnlyRunsOut, BootAssumption
  <2>2. halt' \in Reasons /\ space' = space /\ exiting' = exiting
    BY <2>1 DEF Stop, Reasons
  <2>3. MemoryKept
    BY <1>1, <2>1, StopKeeps
  <2> QED BY <1>1, <1>3, <2>2, <2>3 DEF BootKept, MemoryKept, BootInv, Booting
<1> QED BY <1>2, <1>3 DEF LoadInit

\* Only a kernel that has not stopped does anything.
LEMMA StepsNeedRunning ==
  ASSUME UserStep \/ ReceiveStep \/ FreeExited
  PROVE  halt = "no"
<1>1. CASE UserStep
  <2>1. PICK p \in UserPids : \/ ForkStep(p) \/ ExecStep(p) \/ ExitStep(p)
                              \/ BrkStep(p) \/ AccessStep(p)
    BY <1>1 DEF UserStep
  <2>2. CASE ForkStep(p)
    BY <2>2 DEF ForkStep, ForkRefused, ForkStops, ForkCopies, Running
  <2>3. CASE ExecStep(p)
    BY <2>3 DEF ExecStep, ExecRefused, ExecLoads, ExecKills, ExecStops, Running
  <2>4. CASE ExitStep(p)
    BY <2>4 DEF ExitStep, Exit, ExitStops, Running
  <2>5. CASE BrkStep(p)
    BY <2>5 DEF BrkStep, BrkRefused, BrkGrows, BrkShrinks, BrkStops, BrkAllowed,
                Running
  <2>6. CASE AccessStep(p)
    BY <2>6 DEF AccessStep, StackGrows, AccessKills, AccessStops, Exit, ExitStops,
                Running
  <2> QED BY <2>1, <2>2, <2>3, <2>4, <2>5, <2>6
<1>2. CASE ReceiveStep
  BY <1>2 DEF ReceiveStep, ReceiveMallocs, ReceiveStops
<1>3. CASE FreeExited
  BY <1>3 DEF FreeExited
<1> QED BY <1>1, <1>2, <1>3

\* A kernel that has stopped leaves everything as it is.
LEMMA NothingHappens ==
  ASSUME MemInv, UNCHANGED memVars
  PROVE  MemoryKept
<1>1. /\ UNCHANGED <<occupied, kernelBrk, kernelPageTable, records, space>>
      /\ exiting' = exiting /\ halt' = halt
  BY DEF memVars
<1>2. CASE halt # "heapOverwritten"
  BY <1>1, <1>2, SameMemory, ExitableFacts DEF MemInv
<1>3. CASE halt = "heapOverwritten"
  <2>1. MemTypes /\ Owners /\ PagesNumbered /\ HalvesMatch /\ BreaksMapped
    BY DEF MemInv, MemSound
  <2>2. MemTypes'
    BY <1>1, <2>1 DEF MemTypes, Exitable
  <2>3. /\ \A q \in Processes : HeldBy(q)' = HeldBy(q)
        /\ KernelUses' = KernelUses /\ HeldByKernel' = HeldByKernel
    BY <1>1 DEF HeldBy, HeldByKernel, KernelUses
  <2>4. /\ HeldByKernel \subseteq occupied
        /\ \A q \in Processes : /\ HeldBy(q) \subseteq Frames
                                 /\ HeldBy(q) \subseteq occupied
    BY <2>1, HeldOccupied, HeldTyped
  <2>5. Allocator!Handler(IDLE_PID)
    <3>1. {} \cup {} \subseteq Frames \ occupied /\ {} \cap {} = {}
      OBVIOUS
    <3>2. occupied \ occupied' \subseteq HeldBy(IDLE_PID) \cup HeldByKernel
      BY <1>1
    <3>3. IDLE_PID \in Processes
      BY Constants
    <3> QED BY <1>1, <2>3, <2>4, <3>1, <3>2, <3>3, HandlerFromEffect
  <2>6. Owners'
    <3>1. \A q \in DOMAIN space' : OneToOne(space'[q].pageTable, Vpns)
      BY <1>1, <2>1 DEF Owners
    <3>2. OneToOne(kernelPageTable, KernelUses)'
      BY <1>1, <2>1, <2>3 DEF Owners, OneToOne, Valid
    <3>3. HeldByKernel' \subseteq Frames /\ IDLE_PID \in Processes
      BY <2>1, <2>3, Constants DEF Owners
    <3> QED BY <2>1, <2>5, <3>1, <3>2, <3>3, OwnersStep
  <2>7. PagesNumbered' /\ HalvesMatch' /\ BreaksMapped'
    BY <1>1, <2>1 DEF PagesNumbered, HalvesMatch, BreaksMapped
  <2>8. IDLE_PID \in Processes /\ halt' = "heapOverwritten"
    BY <1>1, <1>3, Constants
  <2> QED BY <2>2, <2>5, <2>6, <2>7, <2>8 DEF MemoryKept, MemInv, MemSound
<1> QED BY <1>2, <1>3

\* Every step.
LEMMA BootNextKeeps ==
  ASSUME BootInv, [BootNext]_bootVars
  PROVE  BootKept
<1>1. CASE BootStep
  BY <1>1, LoadIdleKeeps, CloneInitKeeps, LoadInitKeeps DEF BootStep
<1>2. CASE Call
  <2>1. /\ UserStep \/ ReceiveStep
        /\ stage = "up" /\ stage' = stage /\ calls' = calls + 1
    BY <1>2 DEF Call
  <2>2. MemoryKept /\ halt' \in Reasons
    BY <2>1, UseKeeps, StepsNeedRunning DEF BootInv, MemInv
  <2> QED BY <2>1, <2>2 DEF BootKept, MemoryKept, BootInv, Booting
<1>3. CASE Release
  <2>1. FreeExited /\ stage' = stage /\ calls' = calls
    BY <1>3 DEF Release
  <2>2. MemoryKept /\ halt' \in Reasons
    BY <2>1, UseKeeps, StepsNeedRunning DEF BootInv, MemInv
  <2>3. stage = "up"
    BY <2>1 DEF FreeExited, BootInv, Booting
  <2> QED BY <2>1, <2>2, <2>3 DEF BootKept, MemoryKept, BootInv, Booting
<1>4. CASE UNCHANGED bootVars
  <2>1. /\ UNCHANGED memVars /\ space' = space
        /\ exiting' = exiting /\ halt' = halt /\ stage' = stage /\ calls' = calls
    BY <1>4 DEF bootVars, memVars
  <2>2. MemoryKept
    BY <2>1, NothingHappens DEF BootInv
  <2> QED BY <2>1, <2>2 DEF BootKept, MemoryKept, BootInv, Booting
<1> QED BY <1>1, <1>2, <1>3, <1>4 DEF BootNext, Halted

\* Boot hands over idle's stack, the kernel's image and heap, and the first page
\* of page tables, each page mapped to the frame with its number.
LEMMA BootStarts ==
  ASSUME BootInit
  PROVE  BootInv /\ Allocator!Init
<1>1. PICK marks \in UnclearedMarks : occupied = BootFrames(marks)
  BY DEF BootInit
<1>2. /\ kernelBrk = KernelHeapEnd /\ kernelPageTable = BootKernelTable
      /\ records = <<FirstRecord>> /\ space = [p \in {IDLE_PID} |-> IdleSpace]
      /\ exiting = NoProcess /\ halt = "no" /\ stage = "loadIdle" /\ calls = 0
  BY DEF BootInit
<1>3. /\ KernelHeapEnd \in Nat /\ PAGE_TABLE_LEN < KernelHeapEnd
      /\ KernelHeapEnd <= TopPage /\ KernelHeapEnd <= MaxKernelBrk
  BY BootAssumption, Constants
<1>4. occupied \subseteq Frames
  <2>1. marks \subseteq Frames
    <3>1. marks \subseteq NumFrames \div 4 .. NumFrames - 1
      BY BootAssumption
    <3>2. NumFrames \div 4 \in Nat
      BY Constants
    <3> QED BY <3>1, <3>2, Constants DEF Frames
  <2>2. KernelStackVpns \subseteq Frames
    BY Constants DEF KernelStackVpns, Frames
  <2>3. PAGE_TABLE_LEN .. KernelHeapEnd - 1 \subseteq Frames
    BY <1>3, Constants DEF Frames
  <2>4. TopPage \in Frames
    BY Constants DEF Frames
  <2> QED BY <1>1, <2>1, <2>2, <2>3, <2>4 DEF BootFrames
<1> DEFINE pt == [v \in Vpns |-> IF v \in KernelStackVpns THEN v ELSE NoFrame]
<1>5. \A v \in KernelStackVpns : v \in Vpns /\ v \in Frames /\ v # NoFrame
                                   /\ v \notin KernelPages
  BY Constants DEF KernelStackVpns, Vpns, Frames, NoFrame, KernelPages
<1>6. /\ pt \in [Vpns -> Entries] /\ OneToOne(pt, Vpns)
      /\ FramesIn(pt, Vpns) = KernelStackVpns
  <2>1. \A v \in Vpns : pt[v] # NoFrame <=> v \in KernelStackVpns
    BY <1>5
  <2>2. \A v \in KernelStackVpns : pt[v] = v
    BY <1>5
  <2>3. Valid(pt, Vpns) = KernelStackVpns
    BY <1>5, <2>1 DEF Valid
  <2>4. pt \in [Vpns -> Entries]
    BY <1>5 DEF Entries
  <2> HIDE DEF pt
  <2> QED BY <2>2, <2>3, <2>4 DEF OneToOne, FramesIn
<1>7. /\ DOMAIN space = {IDLE_PID} /\ space[IDLE_PID] = IdleSpace
      /\ IdleSpace.page = TopPage /\ IdleSpace.half = "top"
      /\ IdleSpace.pageTable = pt /\ IdleSpace.brk = 0
  BY <1>2 DEF IdleSpace
<1>8. TopPage \in KernelPages /\ TopPage \in Frames
  BY Constants DEF KernelPages, Frames
<1>9. IdleSpace \in Spaces
  <2>1. 0 \in 0 .. KERNEL_STACK_BASE
    BY Constants
  <2> HIDE DEF pt
  <2> QED BY <1>6, <1>7, <1>8, <2>1 DEF Spaces, IdleSpace, Halves
<1> HIDE DEF pt
<1>10. /\ FirstRecord \in TableRecords
       /\ FirstRecord.page = TopPage /\ FirstRecord.frame = TopPage
       /\ FirstRecord.halves = {"top"}
  BY <1>8 DEF FirstRecord, TableRecords, Halves
<1>11. /\ records \in Seq(TableRecords) /\ records # << >> /\ Len(records) = 1
       /\ DOMAIN records = {1} /\ records[1] = FirstRecord
  BY <1>2, <1>10
<1>12. kernelPageTable \in [KernelPages -> Entries]
  BY <1>2, Constants DEF BootKernelTable, Entries
<1>13. /\ KernelUses = {v \in KernelPages : v < KernelHeapEnd \/ v = TopPage}
       /\ \A v \in KernelUses : v \in KernelPages /\ kernelPageTable[v] = v
  <2>1. KernelUses = {v \in KernelPages : v < KernelHeapEnd \/ v = TopPage}
    BY <1>2, <1>10, <1>11 DEF KernelUses
  <2> QED BY <1>2, <2>1 DEF BootKernelTable
<1>14. HeldByKernel = KernelUses
  BY <1>13 DEF HeldByKernel
<1>15. HeldByKernel \subseteq occupied /\ HeldByKernel \subseteq Frames
  <2>1. ASSUME NEW v \in KernelUses
        PROVE  v \in PAGE_TABLE_LEN .. KernelHeapEnd - 1 \/ v = TopPage
    BY <1>3, <1>13, Constants DEF KernelPages
  <2> QED BY <1>1, <1>4, <1>14, <2>1 DEF BootFrames
<1>16. OneToOne(kernelPageTable, KernelUses)
  BY <1>13 DEF OneToOne, Valid
<1>17. \A p \in Processes : HeldBy(p) = IF p = IDLE_PID THEN KernelStackVpns ELSE {}
  BY <1>6, <1>7 DEF HeldBy
<1>18. KernelStackVpns \subseteq occupied /\ KernelStackVpns \cap HeldByKernel = {}
  BY <1>1, <1>5, <1>13, <1>14 DEF BootFrames
<1> DEFINE held == [p \in Processes |-> HeldBy(p)]
<1>19. /\ held \in [Processes -> SUBSET Frames]
       /\ \A p \in Processes : held[p] = IF p = IDLE_PID THEN KernelStackVpns ELSE {}
  BY <1>5, <1>17
<1>20. Allocator!Exclusive
  <2> HIDE DEF held
  <2>1. \A p, q \in Processes : p # q => held[p] \cap held[q] = {}
    BY <1>19
  <2>2. \A p \in Processes : held[p] \cap (HeldByKernel \cup (Frames \ occupied)) = {}
    BY <1>18, <1>19
  <2>3. HeldByKernel \cap (Frames \ occupied) = {}
    BY <1>15
  <2> QED BY <2>1, <2>2, <2>3 DEF Allocator!Exclusive, held
<1>21. Allocator!Init
  BY <1>15, <1>19, <1>20 DEF Allocator!Init
<1>22. MemTypes
  <2>1. space \in [DOMAIN space -> Spaces]
    BY <1>2, <1>9
  <2>2. exiting \in Exitable
    BY <1>2 DEF Exitable
  <2>3. kernelBrk \in PAGE_TABLE_LEN .. MaxKernelBrk
    BY <1>2, <1>3, Constants
  <2>4. IDLE_PID \in DOMAIN space /\ DOMAIN space \subseteq Processes
    BY <1>7, Constants
  <2> QED BY <1>4, <1>11, <1>12, <2>1, <2>2, <2>3, <2>4 DEF MemTypes
<1>23. Owners
  BY <1>6, <1>7, <1>15, <1>16, <1>20 DEF Owners
<1>24. PagesDescend
  <2>1. kernelPageTable[TopPage] = TopPage
    BY <1>8, <1>13
  <2>2. TopPage = TopPage + 1 - 1
    BY Constants
  <2> QED BY <1>2, <1>3, <1>10, <1>11, <2>1, <2>2 DEF PagesDescend, PagesNumbered, HeapBelow
<1>25. HalvesMatch
  <2>1. "top" # "bottom"
    OBVIOUS
  <2> QED BY <1>7, <1>10, <1>11, <2>1 DEF HalvesMatch, Halves
<1>26. BreaksMapped
  <2>1. MEM_INVALID_PAGES .. 0 - 1 = {}
    BY Constants
  <2> QED BY <1>7, <2>1 DEF BreaksMapped, Mapped
<1>27. Booting /\ calls \in Nat /\ halt \in Reasons
  BY <1>2, <1>7 DEF Booting, Reasons
<1> QED BY <1>2, <1>21, <1>22, <1>23, <1>24, <1>25, <1>26, <1>27
        DEF BootInv, MemInv, MemOK, MemSound, PagesDescend

-----------------------------------------------------------------------------
(* What the invariant implies.                                             *)

\* One holder per frame and one-to-one tables give one owner per frame.
LEMMA OwnersGiveSingle ==
  ASSUME MemSound
  PROVE  SingleOwner
<1>1. MemTypes /\ Owners
  BY DEF MemSound
<1>2. \A p \in DOMAIN space :
        /\ p \in Processes /\ OneToOne(space[p].pageTable, Vpns)
        /\ FramesIn(space[p].pageTable, Vpns) = HeldBy(p)
        /\ HeldBy(p) \subseteq occupied
  BY <1>1, HeldOccupied DEF MemTypes, Owners, HeldBy
<1>3. /\ HeldByKernel \subseteq occupied
      /\ \A p \in Processes : HeldBy(p) \cap HeldByKernel = {}
      /\ \A p, q \in Processes : p # q => HeldBy(p) \cap HeldBy(q) = {}
  BY <1>1, HeldOccupied
<1>4. ASSUME NEW p \in DOMAIN space, NEW v \in Valid(space[p].pageTable, Vpns)
      PROVE  /\ space[p].pageTable[v] \in HeldBy(p)
             /\ space[p].pageTable[v] \in occupied
  <2>1. space[p].pageTable[v] \in FramesIn(space[p].pageTable, Vpns)
    BY DEF FramesIn
  <2> QED BY <1>2, <2>1
<1>5. ASSUME NEW p \in DOMAIN space, NEW q \in DOMAIN space,
             NEW v \in Valid(space[p].pageTable, Vpns),
             NEW w \in Valid(space[q].pageTable, Vpns),
             space[p].pageTable[v] = space[q].pageTable[w]
      PROVE  p = q /\ v = w
  <2>1. p = q
    BY <1>2, <1>3, <1>4, <1>5
  <2> QED BY <1>2, <1>5, <2>1 DEF OneToOne
<1>6. \A v \in KernelUses : /\ kernelPageTable[v] \in HeldByKernel
                            /\ kernelPageTable[v] # NoFrame
  BY <1>1, KernelUsesMapped
<1>7. \A v, w \in KernelUses :
        /\ kernelPageTable[v] \in occupied
        /\ kernelPageTable[v] = kernelPageTable[w] => v = w
  BY <1>1, <1>3, <1>6 DEF Owners, OneToOne, Valid
<1>8. \A p \in DOMAIN space :
        \A v \in Valid(space[p].pageTable, Vpns), w \in KernelUses :
          space[p].pageTable[v] # kernelPageTable[w]
  BY <1>2, <1>3, <1>4, <1>6
<1> QED BY <1>4, <1>5, <1>7, <1>8 DEF SingleOwner

\* The records, in their order, and the halves give the soundness of the tables.
LEMMA PartsGiveTablesSound ==
  ASSUME MemSound
  PROVE  TablesSound
<1>1. MemTypes /\ PagesNumbered /\ HalvesMatch
  BY DEF MemSound
<1>2. Len(records) \in Nat \ {0} /\ DOMAIN records = 1 .. Len(records)
  <2>1. Len(records) \in Nat /\ DOMAIN records = 1 .. Len(records)
    BY <1>1 DEF MemTypes
  <2>2. Len(records) # 0
    BY <1>1, EmptySeq DEF MemTypes, PagesNumbered
  <2> QED BY <2>1, <2>2
<1>3. records[1].page = TopPage
  <2>1. 1 \in DOMAIN records
    BY <1>2
  <2>2. records[1].page = TopPage + 1 - 1
    BY <1>1, <2>1 DEF PagesNumbered
  <2> QED BY <2>2, Constants
<1>4. ASSUME NEW i \in 1 .. Len(records) - 1
      PROVE  records[i + 1].page = records[i].page - 1
  <2>1. i \in DOMAIN records /\ i + 1 \in DOMAIN records /\ i \in Nat
    BY <1>2
  <2>2. /\ records[i].page = TopPage + 1 - i
        /\ records[i + 1].page = TopPage + 1 - (i + 1)
    BY <1>1, <2>1 DEF PagesNumbered
  <2> QED BY <2>1, <2>2, Constants
<1>5. \A p \in DOMAIN space : RecordOf(p) # {}
  BY <1>1 DEF HalvesMatch, RecordOf
<1>6. /\ records # << >>
      /\ \A i \in DOMAIN records : kernelPageTable[records[i].page] = records[i].frame
  BY <1>1 DEF PagesNumbered
<1> QED BY <1>1, <1>3, <1>4, <1>5, <1>6 DEF HalvesMatch, TablesSound

\* The properties of Boot all follow.
LEMMA BootInvImplies ==
  ASSUME BootInv
  PROVE  MemTypeOK /\ SingleOwner /\ TablesSound /\ BrkMapped /\ NeverFreedTwice
<1>1. MemSound /\ MemTypes
  BY DEF BootInv, MemInv, MemSound
<1>2. MemTypeOK
  <2>1. halt \in {"no", "malloc", "heapAtTables", "frames", "heapOverwritten",
                  "highFrame", "freedTwice", "lastExit", "noInit"}
    BY DEF BootInv, Reasons
  <2>2. exiting \in (DOMAIN space \ {IDLE_PID}) \cup {NoProcess}
    BY <1>1 DEF MemTypes, Exitable
  <2> QED BY <1>1, <2>1, <2>2
          DEF MemTypeOK, MemTypes, BootInv, TableRecords, Spaces, Entries, Processes
<1>3. BrkMapped
  BY <1>1 DEF MemSound, BreaksMapped, Mapped, BrkMapped
<1>4. NeverFreedTwice
  BY DEF BootInv, Reasons, NeverFreedTwice
<1> QED BY <1>1, <1>2, <1>3, <1>4, OwnersGiveSingle, PartsGiveTablesSound

\* The inductive invariant.
LEMMA AlwaysBootInv == BootSpec => []BootInv
<1>1. BootInit => BootInv
  BY BootStarts
<1>2. BootInv /\ [BootNext]_bootVars => BootInv'
  BY BootNextKeeps DEF BootKept
<1> QED BY <1>1, <1>2, PTL DEF BootSpec

\* The frame array, the kernel's page table, the records of page tables and the
\* address spaces are always what the code declares.
THEOREM MemoryTyped == BootSpec => []MemTypeOK
BY AlwaysBootInv, BootInvImplies, PTL

\* No frame ever backs two pages, of one process, of two or of the kernel, and
\* none that backs a page looks free: nobody writes into another's memory.
THEOREM NoFrameIsShared == BootSpec => []SingleOwner
BY AlwaysBootInv, BootInvImplies, PTL

\* Each process's page table lies in a half of its own of a page that is the
\* kernel's, recorded and mapped; so it is also when that page has taken the place
\* of one of the heap.
THEOREM PageTablesKept == BootSpec => []TablesSound
BY AlwaysBootInv, BootInvImplies, PTL

\* The pages below a process's break are there.
THEOREM BreakIsBacked == BootSpec => []BrkMapped
BY AlwaysBootInv, BootInvImplies, PTL

\* freePhysicalPage never finds the frame it is to free free, and freePageTable
\* always finds the record of the page table.
THEOREM NothingFreedTwice == BootSpec => []NeverFreedTwice
BY AlwaysBootInv, BootInvImplies, PTL

\* Boot and the handlers implement the abstract allocator: what they take was
\* free, what they give back was the process's or the kernel's, and no other
\* process's frames change.
THEOREM MemoryImplementsAllocator == BootSpec => ImplementsAllocator
<1>1. BootInit => Allocator!Init
  BY BootStarts
<1>2. BootInv /\ [BootNext]_bootVars => [Allocator!Next]_Allocator!allocVars
  <2> SUFFICES ASSUME BootInv, [BootNext]_bootVars
               PROVE  Allocator!Next
    OBVIOUS
  <2>1. PICK q \in Processes : Allocator!Handler(q)
    BY BootNextKeeps DEF BootKept
  <2> QED BY <2>1 DEF Allocator!Next
<1> QED BY <1>1, <1>2, AlwaysBootInv, PTL
        DEF BootSpec, ImplementsAllocator, Allocator!Spec
=============================================================================
