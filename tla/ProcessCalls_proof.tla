------------------------- MODULE ProcessCalls_proof -------------------------
(***************************************************************************)
(* Two more properties of ProcessControl, which need more than its         *)
(* inductive invariant: Wait returns only the caller's own children, and a *)
(* blocked process never has the CPU.                                      *)
(***************************************************************************)
EXTENDS ProcessControl_proof

-----------------------------------------------------------------------------
(* Lists of reports.                                                       *)

\* The pids that a list of reports is about.
Reported(q) == {q[i].pid : i \in 1 .. Len(q)}

\* Wait takes the first report off a list and leaves the others.
LEMMA ReportedByTail ==
  ASSUME NEW q \in Seq(ExitReport), q # << >>
  PROVE  /\ Reported(Tail(q)) \subseteq Reported(q)
         /\ Head(q).pid \in Reported(q)
<1>1. /\ Len(q) \in Nat /\ Len(q) >= 1 /\ Head(q) = q[1]
      /\ Tail(q) \in Seq(ExitReport) /\ Len(Tail(q)) = Len(q) - 1
      /\ \A i \in 1 .. Len(q) - 1 : Tail(q)[i] = q[i + 1]
  BY HeadTailProperties
<1>2. ASSUME NEW i \in 1 .. Len(Tail(q))
      PROVE  Tail(q)[i].pid \in Reported(q)
  <2>1. Tail(q)[i] = q[i + 1] /\ i + 1 \in 1 .. Len(q)
    BY <1>1
  <2> QED BY <2>1 DEF Reported
<1>3. Head(q).pid \in Reported(q)
  BY <1>1 DEF Reported
<1> QED BY <1>2, <1>3 DEF Reported

\* An exit adds its report to a list.
LEMMA ReportedByAppend ==
  ASSUME NEW q \in Seq(ExitReport), NEW r \in ExitReport
  PROVE  Reported(Append(q, r)) = Reported(q) \cup {r.pid}
<1> DEFINE s == Append(q, r)
<1>1. /\ Len(q) \in Nat /\ Len(s) = Len(q) + 1 /\ s[Len(q) + 1] = r
      /\ \A i \in 1 .. Len(q) : s[i] = q[i]
  BY AppendProperties
<1> HIDE DEF s
<1>2. ASSUME NEW i \in 1 .. Len(s)
      PROVE  s[i].pid \in Reported(q) \cup {r.pid}
  <2>1. CASE i \in 1 .. Len(q)
    BY <1>1, <2>1 DEF Reported
  <2>2. CASE i = Len(q) + 1
    BY <1>1, <2>2
  <2> QED BY <1>1, <2>1, <2>2
<1>3. ASSUME NEW i \in 1 .. Len(q)
      PROVE  q[i].pid \in Reported(s)
  <2>1. i \in 1 .. Len(s) /\ s[i] = q[i]
    BY <1>1
  <2> QED BY <2>1 DEF Reported
<1>4. r.pid \in Reported(s)
  <2>1. Len(q) + 1 \in 1 .. Len(s)
    BY <1>1
  <2> QED BY <1>1, <2>1 DEF Reported
<1> QED BY <1>2, <1>3, <1>4 DEF Reported, s

-----------------------------------------------------------------------------
(* What the steps do to the family relations.                              *)

\* The children a process was told of by Fork, and the one it is about to be.
Known(p) == forked[p] \cup (IF pcb[p].savedContext.at = "fork"
                            THEN {pcb[p].savedContext.arg} \ {p} ELSE {})

\* A step after which everybody has the parent, the reports and the knowledge
\* of its children that it had before.
FamilyKept ==
  /\ Listed' = Listed
  /\ UNCHANGED <<nextPid, machine, waitLog>>
  /\ \A p \in Listed : /\ pcb'[p].parentPid = pcb[p].parentPid
                       /\ pcb'[p].exitQ = pcb[p].exitQ
                       /\ Known(p)' = Known(p)
  /\ \A p \in UserPids : forked[p] \subseteq forked'[p]

\* What leaving the kernel changes.
LEMMA BackToUserFacts ==
  ASSUME IInv, NEW P \in [DOMAIN pcb -> PCB], BackToUser(P),
         UNCHANGED <<queue, isIdleRunning>>
  PROVE  /\ Listed' = Listed /\ Current' = Current
         /\ \A p \in Listed :
              /\ p \in DOMAIN pcb' /\ p \in DOMAIN pcb
              /\ pcb'[p].parentPid = P[p].parentPid
              /\ pcb'[p].exitQ = P[p].exitQ
              /\ p # Current => pcb'[p] = P[p]
              /\ p = Current => pcb'[p].savedContext = InUserMode
              /\ IsBlocked(pcb'[p]) <=> IsBlocked(P[p])
<1>1. Listed' = Listed /\ Current' = Current
  BY DEF Listed, Current
<1>2. Listed \subseteq DOMAIN pcb /\ processExitingNow \notin Listed
  BY DEF IInv, NoLostProcess
<1>3. /\ DOMAIN pcb' = DOMAIN pcb \ {processExitingNow}
      /\ \A p \in DOMAIN pcb' :
           pcb'[p] = IF p = Current THEN [P[p] EXCEPT !.savedContext = InUserMode]
                                    ELSE P[p]
  BY DEF BackToUser, FreeExiting
<1>4. InUserMode \in Continuations
  BY DEF InUserMode, Continuations
<1>5. ASSUME NEW p \in Listed
      PROVE  /\ p \in DOMAIN pcb' /\ p \in DOMAIN pcb
             /\ pcb'[p].parentPid = P[p].parentPid
             /\ pcb'[p].exitQ = P[p].exitQ
             /\ p # Current => pcb'[p] = P[p]
             /\ p = Current => pcb'[p].savedContext = InUserMode
             /\ IsBlocked(pcb'[p]) <=> IsBlocked(P[p])
  <2>1. p \in DOMAIN pcb' /\ p \in DOMAIN pcb
    BY <1>2, <1>3
  <2>2. CASE p # Current
    BY <1>3, <2>1, <2>2
  <2>3. CASE p = Current
    <3>1. P[p] \in PCB /\ pcb'[p] = [P[p] EXCEPT !.savedContext = InUserMode]
      BY <1>3, <2>1, <2>3
    <3>2. /\ pcb'[p].parentPid = P[p].parentPid
          /\ pcb'[p].exitQ = P[p].exitQ
          /\ pcb'[p].savedContext = InUserMode
      BY <1>4, <3>1, SuspendedPCB
    <3>3. IsBlocked(pcb'[p]) <=> IsBlocked(P[p])
      BY <1>4, <3>1, SuspendedPCB
    <3> QED BY <2>1, <2>3, <3>2, <3>3
  <2> QED BY <2>2, <2>3
<1> QED BY <1>1, <1>5

\* What a call of scheduleProcess(0) changes, apart from who runs.
LEMMA ScheduleChanges ==
  ASSUME IInv, NEW P \in [DOMAIN pcb -> PCB], NEW k \in Continuations,
         Schedule(P, k)
  PROVE  /\ Listed' = Listed
         /\ \A p \in Listed :
              /\ p \in DOMAIN pcb
              /\ pcb'[p].parentPid = P[p].parentPid
              /\ pcb'[p].exitQ = P[p].exitQ
              /\ p # Current => pcb'[p] = P[p]
              /\ p = Current => pcb'[p].savedContext = k
              /\ IsBlocked(pcb'[p]) <=> IsBlocked(P[p])
<1>1. Listed' = Listed /\ pcb' = [P EXCEPT ![Current].savedContext = k]
  BY ScheduleFacts DEF IInv
<1>2. Listed \subseteq DOMAIN pcb
  BY DEF IInv, NoLostProcess
<1>3. ASSUME NEW p \in Listed
      PROVE  /\ p \in DOMAIN pcb
             /\ pcb'[p].parentPid = P[p].parentPid
             /\ pcb'[p].exitQ = P[p].exitQ
             /\ p # Current => pcb'[p] = P[p]
             /\ p = Current => pcb'[p].savedContext = k
             /\ IsBlocked(pcb'[p]) <=> IsBlocked(P[p])
  <2>1. p \in DOMAIN pcb
    BY <1>2
  <2>2. CASE p # Current
    BY <1>1, <2>1, <2>2
  <2>3. CASE p = Current
    <3>1. P[p] \in PCB /\ pcb'[p] = [P[p] EXCEPT !.savedContext = k]
      BY <1>1, <2>1, <2>3
    <3>2. /\ pcb'[p].parentPid = P[p].parentPid
          /\ pcb'[p].exitQ = P[p].exitQ
          /\ pcb'[p].savedContext = k
      BY <3>1, SuspendedPCB
    <3>3. IsBlocked(pcb'[p]) <=> IsBlocked(P[p])
      BY <3>1, SuspendedPCB
    <3> QED BY <2>1, <2>3, <3>2, <3>3
  <2> QED BY <2>2, <2>3
<1> QED BY <1>1, <1>3

\* A handler that called the scheduler in user mode, having changed nothing of
\* the family, and goes on elsewhere than behind a fork.
LEMMA ScheduleKeepsFamily ==
  ASSUME IInv, UserMode, NEW P \in [DOMAIN pcb -> PCB], NEW k \in Continuations,
         k.at # "fork", Schedule(P, k),
         \A p \in DOMAIN pcb : /\ P[p].parentPid = pcb[p].parentPid
                               /\ P[p].exitQ = pcb[p].exitQ
                               /\ P[p].savedContext = pcb[p].savedContext,
         UNCHANGED <<nextPid, machine, forked, waitLog>>
  PROVE  FamilyKept
<1>1. /\ Listed' = Listed
      /\ \A p \in Listed :
           /\ p \in DOMAIN pcb
           /\ pcb'[p].parentPid = P[p].parentPid
           /\ pcb'[p].exitQ = P[p].exitQ
           /\ p # Current => pcb'[p] = P[p]
           /\ p = Current => pcb'[p].savedContext = k
  BY ScheduleChanges
<1>2. pcb[Current].savedContext.at # "fork"
  BY DEF UserMode, InUserMode
<1>3. ASSUME NEW p \in Listed
      PROVE  Known(p)' = Known(p)
  <2>1. CASE p = Current
    BY <1>1, <1>2, <2>1 DEF Known
  <2>2. CASE p # Current
    BY <1>1, <2>2 DEF Known
  <2> QED BY <2>1, <2>2
<1> QED BY <1>1, <1>3 DEF FamilyKept

\* The clock, with or without a change of process, keeps the family.
LEMMA TickKeepsFamily == IInv /\ Tick => FamilyKept
<1> SUFFICES ASSUME IInv, Tick PROVE FamilyKept
  OBVIOUS
<1> DEFINE P == DecreaseDelay
<1>1. UserMode /\ UNCHANGED <<nextPid, machine, forked, waitLog>>
  BY DEF Tick, ClockTick, histVars
<1>2. /\ P \in [DOMAIN pcb -> PCB]
      /\ \A p \in DOMAIN pcb : /\ P[p].parentPid = pcb[p].parentPid
                               /\ P[p].exitQ = pcb[p].exitQ
                               /\ P[p].savedContext = pcb[p].savedContext
  BY DecreaseDelayFacts DEF IInv
<1> HIDE DEF P
<1>3. CASE Schedule(P, Returning)
  <2>1. Returning \in Continuations /\ Returning.at # "fork"
    BY DEF Returning, Continuations
  <2> QED BY <1>1, <1>2, <1>3, <2>1, ScheduleKeepsFamily
<1>4. CASE pcb' = P /\ UNCHANGED <<queue, isIdleRunning>>
  <2>1. Listed' = Listed /\ Listed \subseteq DOMAIN pcb
    BY <1>4, CurrentIsKnown DEF IInv, Listed
  <2> QED BY <1>1, <1>2, <1>4, <2>1 DEF FamilyKept, Known
<1> QED BY <1>3, <1>4 DEF Tick, ClockTick, P

\* Blocking in Wait keeps the family.
LEMMA WaitBlocksKeepsFamily == IInv /\ WaitBlocks => FamilyKept
<1> SUFFICES ASSUME IInv, WaitBlocks PROVE FamilyKept
  OBVIOUS
<1> DEFINE P == [pcb EXCEPT ![Current].isWaiting = TRUE]
           k == [at |-> "wait", arg |-> 0]
<1>1. UserMode /\ Schedule(P, k) /\ UNCHANGED <<nextPid, machine, forked, waitLog>>
  BY DEF WaitBlocks, SystemCall
<1>2. k \in Continuations /\ k.at # "fork"
  BY DEF Continuations
<1>3. pcb \in [DOMAIN pcb -> PCB] /\ Current \in DOMAIN pcb
  BY CurrentIsKnown DEF IInv, TypeOK
<1>4. P \in [DOMAIN pcb -> PCB]
  <2>1. pcb[Current] \in PCB
    BY <1>3
  <2>2. [pcb[Current] EXCEPT !.isWaiting = TRUE] \in PCB
    BY <2>1 DEF PCB
  <2> QED BY <1>3, <2>2
<1>5. \A p \in DOMAIN pcb : /\ P[p].parentPid = pcb[p].parentPid
                            /\ P[p].exitQ = pcb[p].exitQ
                            /\ P[p].savedContext = pcb[p].savedContext
  BY <1>3 DEF PCB
<1> QED BY <1>1, <1>2, <1>4, <1>5, ScheduleKeepsFamily

\* Delay keeps the family.
LEMMA DelayKeepsFamily ==
  ASSUME IInv, NEW ticks \in -1 .. MaxDelay, Delay(ticks)
  PROVE  FamilyKept
<1> DEFINE P == [pcb EXCEPT ![Head(queue)].delay = ticks]
<1>1. /\ UserMode /\ Current # IDLE_PID /\ ticks > 0
      /\ Schedule(P, Returning)
      /\ UNCHANGED <<nextPid, machine, forked, waitLog>>
  BY DEF Delay, SystemCall
<1>2. Returning \in Continuations /\ Returning.at # "fork"
  BY DEF Returning, Continuations
<1>3. pcb \in [DOMAIN pcb -> PCB] /\ Current \in DOMAIN pcb /\ Current = Head(queue)
  BY <1>1, CurrentIsKnown DEF IInv, TypeOK
<1>4. P \in [DOMAIN pcb -> PCB]
  <2>1. ticks \in Nat
    BY <1>1, ProcessControlAssumption
  <2>2. pcb[Current] \in PCB
    BY <1>3
  <2>3. [pcb[Current] EXCEPT !.delay = ticks] \in PCB
    BY <2>1, <2>2 DEF PCB
  <2> QED BY <1>3, <2>3
<1>5. \A p \in DOMAIN pcb : /\ P[p].parentPid = pcb[p].parentPid
                            /\ P[p].exitQ = pcb[p].exitQ
                            /\ P[p].savedContext = pcb[p].savedContext
  BY <1>3 DEF PCB
<1> QED BY <1>1, <1>2, <1>4, <1>5, ScheduleKeepsFamily

\* Returning from a trap keeps the family.
LEMMA ReturnKeepsFamily == IInv /\ ReturnFromTrap /\ UNCHANGED histVars => FamilyKept
<1> SUFFICES ASSUME IInv, ReturnFromTrap, UNCHANGED histVars PROVE FamilyKept
  OBVIOUS
<1>1. /\ pcb[Current].savedContext = Returning /\ BackToUser(pcb)
      /\ UNCHANGED <<queue, isIdleRunning>>
      /\ UNCHANGED <<nextPid, machine, forked, waitLog>>
  BY DEF ReturnFromTrap, histVars
<1>2. pcb \in [DOMAIN pcb -> PCB]
  BY DEF IInv, TypeOK
<1>3. /\ Listed' = Listed
      /\ \A p \in Listed :
           /\ pcb'[p].parentPid = pcb[p].parentPid
           /\ pcb'[p].exitQ = pcb[p].exitQ
           /\ p # Current => pcb'[p] = pcb[p]
           /\ p = Current => pcb'[p].savedContext = InUserMode
  BY <1>1, <1>2, BackToUserFacts
<1>4. ASSUME NEW p \in Listed
      PROVE  Known(p)' = Known(p)
  <2>1. CASE p = Current
    BY <1>1, <1>3, <2>1 DEF Known, Returning, InUserMode
  <2>2. CASE p # Current
    BY <1>1, <1>3, <2>2 DEF Known
  <2> QED BY <2>1, <2>2
<1> QED BY <1>1, <1>3, <1>4 DEF FamilyKept

\* The tail of fork tells the parent what it was about to learn.
LEMMA ForkReturnsKeepsFamily == IInv /\ ForkReturns => FamilyKept
<1> SUFFICES ASSUME IInv, ForkReturns PROVE FamilyKept
  OBVIOUS
<1> DEFINE child == pcb[Current].savedContext.arg
<1>1. /\ pcb[Current].savedContext.at = "fork" /\ BackToUser(pcb)
      /\ UNCHANGED <<queue, isIdleRunning>>
      /\ UNCHANGED <<nextPid, machine, waitLog>>
      /\ forked' = IF Current = child THEN forked
                   ELSE [forked EXCEPT ![Current] = @ \cup {child}]
  BY DEF ForkReturns
<1>2. pcb \in [DOMAIN pcb -> PCB] /\ forked \in [UserPids -> SUBSET UserPids]
      /\ Listed \subseteq UserPids
  BY CurrentIsKnown DEF IInv, TypeOK
<1>3. /\ Listed' = Listed
      /\ \A p \in Listed :
           /\ pcb'[p].parentPid = pcb[p].parentPid
           /\ pcb'[p].exitQ = pcb[p].exitQ
           /\ p # Current => pcb'[p] = pcb[p]
           /\ p = Current => pcb'[p].savedContext = InUserMode
  BY <1>1, <1>2, BackToUserFacts
<1>4. \A p \in UserPids :
        forked'[p] = IF p = Current /\ Current # child THEN forked[p] \cup {child}
                     ELSE forked[p]
  BY <1>1, <1>2
<1>5. ASSUME NEW p \in Listed
      PROVE  Known(p)' = Known(p)
  <2>1. p \in UserPids
    BY <1>2
  <2>2. CASE p = Current
    <3>1. Known(p)' = forked'[p]
      BY <1>3, <2>2 DEF Known, InUserMode
    <3>2. Known(p) = forked[p] \cup ({child} \ {p})
      BY <1>1, <2>2 DEF Known
    <3> QED BY <1>4, <2>1, <2>2, <3>1, <3>2
  <2>3. CASE p # Current
    BY <1>3, <1>4, <2>1, <2>3 DEF Known
  <2> QED BY <2>2, <2>3
<1> QED BY <1>1, <1>3, <1>4, <1>5 DEF FamilyKept

\* The running process takes the oldest report on its children out of its PCB.
ReportTaken ==
  /\ Current \in Listed /\ pcb[Current].exitQ # << >>
  /\ machine = "running" /\ UNCHANGED <<nextPid, machine, forked>>
  /\ Listed' = Listed
  /\ waitLog' = [waitLog EXCEPT ![Current] = Append(@, Head(pcb[Current].exitQ))]
  /\ \A p \in Listed : /\ pcb'[p].parentPid = pcb[p].parentPid
                       /\ Known(p)' = Known(p)
                       /\ p # Current => pcb'[p].exitQ = pcb[p].exitQ
  /\ pcb'[Current].exitQ = Tail(pcb[Current].exitQ)
  /\ Known(Current) = forked[Current]

\* Reap with a report at hand takes it out.
LEMMA ReapTakesReport ==
  ASSUME IInv, machine = "running", Current # IDLE_PID, Reap,
         pcb[Current].exitQ # << >>, pcb[Current].savedContext.at # "fork"
  PROVE  ReportTaken
<1> DEFINE P == [pcb EXCEPT ![Current].exitQ = Tail(@)]
           self == Current
<1>1. /\ BackToUser(P)
      /\ waitLog' = [waitLog EXCEPT ![self] = Append(@, Head(pcb[self].exitQ))]
      /\ UNCHANGED <<queue, isIdleRunning>>
      /\ UNCHANGED <<nextPid, machine, forked>>
  BY DEF Reap
<1>2. self \in DOMAIN pcb /\ self \in Listed /\ Listed \subseteq DOMAIN pcb
      /\ pcb \in [DOMAIN pcb -> PCB]
  BY CurrentIsKnown DEF IInv, TypeOK
<1>3. P = [pcb EXCEPT ![self] = [pcb[self] EXCEPT !.exitQ = Tail(pcb[self].exitQ)]]
  OBVIOUS
<1>4. LET r == [pcb[self] EXCEPT !.exitQ = Tail(pcb[self].exitQ)]
      IN /\ r \in PCB
         /\ r.parentPid = pcb[self].parentPid
         /\ r.exitQ = Tail(pcb[self].exitQ)
  <2> DEFINE r == pcb[self]
             newQ == Tail(pcb[self].exitQ)
  <2>1. r \in PCB /\ r.exitQ \in Seq(ExitReport)
    BY <1>2 DEF PCB
  <2>2. newQ \in Seq(ExitReport)
    BY <2>1, HeadTailProperties
  <2> HIDE DEF r, newQ
  <2>3. /\ [r EXCEPT !.exitQ = newQ] \in PCB
        /\ [r EXCEPT !.exitQ = newQ].parentPid = r.parentPid
        /\ [r EXCEPT !.exitQ = newQ].exitQ = newQ
    BY <2>1, <2>2 DEF PCB
  <2> QED BY <2>3 DEF r, newQ
<1>5. /\ P \in [DOMAIN pcb -> PCB]
      /\ P[self].parentPid = pcb[self].parentPid
      /\ P[self].exitQ = Tail(pcb[self].exitQ)
      /\ \A p \in DOMAIN pcb : p # self => P[p] = pcb[p]
  BY <1>2, <1>3, <1>4
<1> HIDE DEF P
<1>6. /\ Listed' = Listed
      /\ \A p \in Listed :
           /\ pcb'[p].parentPid = P[p].parentPid
           /\ pcb'[p].exitQ = P[p].exitQ
           /\ p # Current => pcb'[p] = P[p]
           /\ p = Current => pcb'[p].savedContext = InUserMode
  BY <1>1, <1>5, BackToUserFacts
<1>7. Known(self) = forked[self]
  BY DEF Known
<1>8. \A p \in Listed : Known(p)' = Known(p)
  BY <1>1, <1>2, <1>5, <1>6, <1>7 DEF Known, InUserMode
<1> QED BY <1>1, <1>2, <1>5, <1>6, <1>7, <1>8 DEF ReportTaken

\* Both ways out of Wait with a report take it out.
LEMMA WaitTakesReport == IInv /\ (WaitCollects \/ WaitResumes) => ReportTaken
<1> SUFFICES ASSUME IInv, WaitCollects \/ WaitResumes PROVE ReportTaken
  OBVIOUS
<1>1. CASE WaitCollects
  BY <1>1, ReapTakesReport DEF WaitCollects, SystemCall, UserMode, InUserMode
<1>2. CASE WaitResumes
  <2>1. machine = "running" /\ pcb[Current].savedContext.at = "wait" /\ Reap
    BY <1>2 DEF WaitResumes, KernelMode
  <2>2. Current # IDLE_PID /\ pcb[Current].exitQ # << >>
    BY <1>2, <2>1, WaiterFindsReport DEF WaitResumes
  <2> QED BY <2>1, <2>2, ReapTakesReport
<1> QED BY <1>1, <1>2

\* The running process has a new child, which it does not know of before it
\* goes on.
ChildBorn ==
  /\ Current \in Listed /\ nextPid \in UserPids /\ nextPid \notin Listed
  /\ machine = "running" /\ UNCHANGED <<machine, forked, waitLog>>
  /\ Listed' = Listed \cup {nextPid} /\ nextPid' = nextPid + 1
  /\ \A p \in Listed : /\ pcb'[p].parentPid = pcb[p].parentPid
                       /\ pcb'[p].exitQ = pcb[p].exitQ
                       /\ Known(p)' = Known(p) \cup (IF p = Current THEN {nextPid}
                                                     ELSE {})
  /\ pcb'[nextPid].parentPid = Current /\ pcb'[nextPid].exitQ = << >>

\* Fork gives birth to a child.
LEMMA ForkBearsChild == IInv /\ Fork => ChildBorn
<1> SUFFICES ASSUME IInv, Fork PROVE ChildBorn
  OBVIOUS
<1> DEFINE self == Current
           c == nextPid
           inFork == [at |-> "fork", arg |-> c]
           parent == [pcb[self] EXCEPT !.numChildren = @ + 1, !.savedContext = inFork]
<1>1. /\ UserMode /\ self # IDLE_PID /\ c <= MaxPid
      /\ pcb' = [p \in DOMAIN pcb \cup {c} |->
                   CASE p = c -> NewPCB(self, inFork)
                     [] p = self -> parent
                     [] OTHER -> pcb[p]]
      /\ queue' = <<c>> \o queue
      /\ nextPid' = c + 1
      /\ UNCHANGED <<machine, forked, waitLog>>
  BY DEF Fork, SystemCall
<1>2. /\ self \in Listed /\ Listed \subseteq DOMAIN pcb /\ Listed \subseteq UserPids
      /\ pcb \in [DOMAIN pcb -> PCB]
  BY <1>1, CurrentIsKnown DEF IInv, TypeOK
<1>3. c \in UserPids /\ c \notin DOMAIN pcb /\ c \notin Listed /\ c # self
  <2>1. c \in Nat /\ c >= 1 /\ c \in UserPids
    BY <1>1, SchedulingAssumption DEF IInv, TypeOK, UserPids
  <2>2. c \notin DOMAIN pcb
    BY <2>1 DEF IInv, Auxiliary
  <2> QED BY <1>2, <2>1, <2>2
<1>4. Listed' = Listed \cup {c}
  <2>1. queue \in Seq(UserPids) /\ Distinct(queue) /\ Listed = Elements(queue)
        /\ Listed' = Elements(queue')
    BY ListedIsElements DEF IInv, TypeOK, NoLostProcess, Distinct
  <2> QED BY <1>1, <1>3, <2>1, ConsElements
<1>5. \A p \in DOMAIN pcb \cup {c} :
        pcb'[p] = CASE p = c -> NewPCB(self, inFork)
                    [] p = self -> parent
                    [] OTHER -> pcb[p]
  BY <1>1
<1>6. /\ pcb'[c] = NewPCB(self, inFork)
      /\ pcb'[self] = parent
      /\ \A p \in DOMAIN pcb : p # self => pcb'[p] = pcb[p]
  <2> HIDE DEF c, parent, inFork
  <2> QED BY <1>2, <1>3, <1>5
<1>7. /\ parent.parentPid = pcb[self].parentPid
      /\ parent.exitQ = pcb[self].exitQ
      /\ parent.savedContext = inFork
  <2>1. pcb[self] \in PCB
    BY <1>2
  <2> QED BY <2>1 DEF PCB
<1> HIDE DEF parent
<1>8. pcb'[c].parentPid = self /\ pcb'[c].exitQ = << >>
  BY <1>6 DEF NewPCB
<1>9. ASSUME NEW p \in Listed
      PROVE  /\ pcb'[p].parentPid = pcb[p].parentPid
             /\ pcb'[p].exitQ = pcb[p].exitQ
             /\ Known(p)' = Known(p) \cup (IF p = Current THEN {nextPid} ELSE {})
  <2>1. CASE p = self
    <3>1. Known(p) = forked[p]
      BY <1>1, <2>1 DEF Known, UserMode, InUserMode
    <3>2. Known(p)' = forked[p] \cup ({c} \ {p})
      <4>1. pcb'[p].savedContext = inFork
        BY <1>6, <1>7, <2>1
      <4>2. pcb'[p].savedContext.at = "fork" /\ pcb'[p].savedContext.arg = c
        BY <4>1
      <4>3. forked' = forked
        BY <1>1
      <4> QED BY <4>2, <4>3 DEF Known
    <3> QED BY <1>3, <1>6, <1>7, <2>1, <3>1, <3>2
  <2>2. CASE p # self
    BY <1>1, <1>2, <1>6, <2>2 DEF Known
  <2> QED BY <2>1, <2>2
<1> QED BY <1>1, <1>2, <1>3, <1>4, <1>8, <1>9 DEF ChildBorn, UserMode

\* The running process is gone, or was the last one and stopped the machine:
\* its parent, if it has one, has the report, its children have no parent.
ProcessDied(status) ==
  LET par == pcb[Current].parentPid
      report == [pid |-> Current, exitType |-> status]
  IN /\ Current \in Listed /\ report \in ExitReport
     /\ par # Current /\ par \in Listed \cup {ORPHAN_PARENT_PID}
     /\ machine = "running" /\ UNCHANGED <<nextPid, forked, waitLog>>
     /\ \/ machine' = "halted" /\ Listed' = Listed /\ Listed = {Current}
        \/ machine' = "running" /\ Listed' = Listed \ {Current}
     /\ \A p \in Listed :
          /\ pcb'[p].parentPid = IF pcb[p].parentPid = Current
                                 THEN ORPHAN_PARENT_PID ELSE pcb[p].parentPid
          /\ pcb'[p].exitQ = IF p = par THEN Append(pcb[p].exitQ, report)
                             ELSE pcb[p].exitQ
          /\ Known(p)' = Known(p)

\* A list of one element has no other.
LEMMA OneListed ==
  ASSUME IInv, Len(queue) = 1
  PROVE  Listed = {Head(queue)}
<1>1. queue \in Seq(UserPids) /\ queue # << >> /\ Head(queue) = queue[1]
  BY HeadTailProperties DEF IInv, TypeOK
<1>2. 1 .. Len(queue) = {1}
  OBVIOUS
<1> QED BY <1>1, <1>2 DEF Listed

\* Exit is the death of the running process.
LEMMA ExitIsDeath ==
  ASSUME IInv, NEW status \in ExitStatuses \cup {ERROR}, Exit(status)
  PROVE  ProcessDied(status)
<1> DEFINE self == Current
           par == pcb[self].parentPid
           report == [pid |-> self, exitType |-> status]
           A == AfterExit(status)
<1>1. /\ SystemCall /\ machine = "running" /\ UNCHANGED <<nextPid, forked, waitLog>>
  BY DEF Exit, SystemCall, UserMode
<1>2. /\ self \in Listed /\ self = Head(queue) /\ Listed \subseteq DOMAIN pcb
  BY <1>1, CurrentIsKnown DEF IInv, SystemCall
<1>3. /\ report \in ExitReport
      /\ par # self
      /\ par # ORPHAN_PARENT_PID => par \in Listed
  BY <1>1, AfterExitFacts
<1>4. \A p \in DOMAIN pcb :
         LET r == A[p]
         IN /\ r.savedContext = pcb[p].savedContext
            /\ p # par => r.exitQ = pcb[p].exitQ
            /\ p = par => r.exitQ = Append(pcb[p].exitQ, report)
            /\ p \in Listed =>
                 r.parentPid = IF pcb[p].parentPid = self
                               THEN ORPHAN_PARENT_PID ELSE pcb[p].parentPid
  BY <1>1, AfterExitFacts
<1>5. ExitHalts(status) \/ ExitLeaves(status)
  BY <1>3 DEF Exit, ExitFaults
<1>6. pcb' = A
  BY <1>5 DEF ExitHalts, ExitLeaves
<1> HIDE DEF A, par, report
<1>7. \/ machine' = "halted" /\ Listed' = Listed /\ Listed = {self}
      \/ machine' = "running" /\ Listed' = Listed \ {self}
  <2>1. CASE ExitHalts(status)
    <3>1. processExitingNow = NULL
      BY <1>1, UserModeFacts DEF SystemCall, UserMode
    <3>2. Len(queue) = 1 /\ machine' = "halted" /\ queue' = queue
      BY <2>1, <3>1 DEF ExitHalts
    <3> QED BY <1>2, <3>2, OneListed DEF Listed
  <2>2. CASE ExitLeaves(status)
    <3>1. Len(queue) > 1 /\ queue' = Tail(queue) /\ machine' = machine
      BY <2>2 DEF ExitLeaves, ScheduleExit
    <3>2. queue \in Seq(UserPids) /\ Distinct(queue)
      BY DEF IInv, TypeOK, NoLostProcess, Distinct
    <3>3. Elements(Tail(queue)) = Elements(queue) \ {Head(queue)}
      BY <3>1, <3>2, TailElements
    <3> QED BY <1>1, <1>2, <3>1, <3>3, ListedIsElements
  <2> QED BY <1>5, <2>1, <2>2
<1>8. ASSUME NEW p \in Listed
      PROVE  /\ pcb'[p].parentPid = IF pcb[p].parentPid = Current
                                    THEN ORPHAN_PARENT_PID ELSE pcb[p].parentPid
             /\ pcb'[p].exitQ = IF p = par THEN Append(pcb[p].exitQ, report)
                                ELSE pcb[p].exitQ
             /\ Known(p)' = Known(p)
  <2>1. p \in DOMAIN pcb
    BY <1>2
  <2>2. pcb'[p].savedContext = pcb[p].savedContext
    BY <1>4, <1>6, <2>1
  <2>3. Known(p)' = Known(p)
    BY <1>1, <2>2 DEF Known
  <2> QED BY <1>4, <1>6, <2>1, <2>3
<1> QED BY <1>1, <1>2, <1>3, <1>7, <1>8 DEF ProcessDied, par, report

\* Every step of the kernel is one of four: a birth, a death, a report taken,
\* or a step that keeps the family.
LEMMA FamilySteps ==
  ASSUME IInv, [ProcNext]_procVars
  PROVE  \/ FamilyKept
         \/ ReportTaken
         \/ ChildBorn
         \/ \E status \in ExitStatuses \cup {ERROR} : ProcessDied(status)
<1>1. CASE Tick
  BY <1>1, TickKeepsFamily
<1>2. CASE Resume
  BY <1>2, ReturnKeepsFamily, ForkReturnsKeepsFamily, WaitTakesReport DEF Resume
<1>3. CASE Fork
  BY <1>3, ForkBearsChild
<1>4. CASE WaitCollects \/ WaitBlocks
  BY <1>4, WaitTakesReport, WaitBlocksKeepsFamily
<1>5. CASE \E status \in ExitStatuses \cup {ERROR} : Exit(status)
  BY <1>5, ExitIsDeath
<1>6. CASE \E ticks \in -1 .. MaxDelay : Delay(ticks)
  BY <1>6, DelayKeepsFamily
<1>7. CASE UNCHANGED procVars
  BY <1>7 DEF procVars, FamilyKept, Listed, Known
<1>8. CASE \E ticks \in -1 .. MaxDelay : DelayReturns(ticks)
  BY <1>7, <1>8, DelayReturnsStep
<1>9. CASE WaitFails \/ Stopped
  BY <1>7, <1>9 DEF WaitFails, Stopped
<1> QED BY <1>1, <1>2, <1>3, <1>4, <1>5, <1>6, <1>7, <1>8, <1>9
        DEF ProcNext, ProgramError

-----------------------------------------------------------------------------
(* Wait returns only own children.                                         *)

\* What makes it inductive: a process knows each child it has on the list, and
\* each that its queue has a report of; for the time between fork's work and
\* fork's return, knowing counts what fork is about to return.
FamilyKnown ==
  \A p \in Listed :
    /\ \A c \in Listed : pcb[c].parentPid = p => c \in Known(p)
    /\ Reported(pcb[p].exitQ) \subseteq Known(p)

\* Initially there is one process, without children or reports.
LEMMA InitFamilyKnown == ProcInit => FamilyKnown /\ WaitReturnsOwnChild
<1> SUFFICES ASSUME ProcInit PROVE FamilyKnown /\ WaitReturnsOwnChild
  OBVIOUS
<1>1. IInv
  BY InitIInv
<1>2. Listed \subseteq UserPids /\ Listed = {INIT_PID}
  BY <1>1, CurrentIsKnown DEF IInv, ProcInit, SchedInit, Listed
<1>3. pcb[INIT_PID] = NewPCB(ORPHAN_PARENT_PID, InUserMode)
  BY DEF ProcInit, SchedInit, INIT_PID, IDLE_PID
<1>4. pcb[INIT_PID].exitQ = << >> /\ pcb[INIT_PID].parentPid = ORPHAN_PARENT_PID
  BY <1>3 DEF NewPCB
<1>5. Reported(<< >>) = {}
  BY DEF Reported
<1>6. FamilyKnown
  BY <1>2, <1>4, <1>5 DEF FamilyKnown, INIT_PID, ORPHAN_PARENT_PID
<1>7. WaitReturnsOwnChild
  BY <1>5 DEF WaitReturnsOwnChild, ProcInit, Reported
<1> QED BY <1>6, <1>7

\* A birth: the parent learns of the child; the child has no family of its own.
LEMMA BirthKeepsKnown ==
  ASSUME IInv, FamilyKnown, ChildBorn
  PROVE  FamilyKnown'
<1> DEFINE c == nextPid
<1>1. ASSUME NEW p \in Listed, NEW d \in Listed', pcb'[d].parentPid = p
      PROVE  d \in Known(p)'
  <2>1. CASE d = c
    BY <1>1, <2>1 DEF ChildBorn
  <2>2. CASE d # c
    <3>1. d \in Listed /\ pcb[d].parentPid = p
      BY <1>1, <2>2 DEF ChildBorn
    <3> QED BY <3>1 DEF FamilyKnown, ChildBorn
  <2> QED BY <2>1, <2>2
<1>2. ASSUME NEW p \in Listed
      PROVE  Reported(pcb'[p].exitQ) \subseteq Known(p)'
  <2>1. pcb'[p].exitQ = pcb[p].exitQ /\ Known(p) \subseteq Known(p)'
    BY DEF ChildBorn
  <2> QED BY <2>1 DEF FamilyKnown
<1>3. \A d \in Listed' : pcb'[d].parentPid # c
  <2>1. c \notin Listed \cup {ORPHAN_PARENT_PID} /\ Current # c
    BY DEF ChildBorn, UserPids, ORPHAN_PARENT_PID
  <2>2. \A d \in Listed : pcb'[d].parentPid # c
    BY <2>1 DEF ChildBorn, IInv, ParentAlive
  <2>3. pcb'[c].parentPid # c
    BY <2>1 DEF ChildBorn
  <2> QED BY <2>2, <2>3 DEF ChildBorn
<1>4. Reported(pcb'[c].exitQ) = {}
  BY DEF ChildBorn, Reported
<1>5. ASSUME NEW p \in Listed'
      PROVE  /\ \A d \in Listed' : pcb'[d].parentPid = p => d \in Known(p)'
             /\ Reported(pcb'[p].exitQ) \subseteq Known(p)'
  <2>1. CASE p = c
    BY <1>3, <1>4, <2>1
  <2>2. CASE p # c
    BY <1>1, <1>2, <2>2 DEF ChildBorn
  <2> QED BY <2>1, <2>2
<1> QED BY <1>5 DEF FamilyKnown

\* A death: the parent's report is of a child it knows.
LEMMA DeathKeepsKnown ==
  ASSUME IInv, FamilyKnown,
         NEW status \in ExitStatuses \cup {ERROR}, ProcessDied(status)
  PROVE  FamilyKnown'
<1> DEFINE par == pcb[Current].parentPid
           report == [pid |-> Current, exitType |-> status]
<1>1. /\ Current \in Listed /\ Listed' \subseteq Listed /\ report \in ExitReport
      /\ \A p \in Listed :
           /\ pcb'[p].parentPid = IF pcb[p].parentPid = Current
                                  THEN ORPHAN_PARENT_PID ELSE pcb[p].parentPid
           /\ pcb'[p].exitQ = IF p = par THEN Append(pcb[p].exitQ, report)
                              ELSE pcb[p].exitQ
           /\ Known(p)' = Known(p)
  BY DEF ProcessDied
<1>2. Listed \subseteq UserPids /\ Listed \subseteq DOMAIN pcb
  BY CurrentIsKnown DEF IInv
<1>3. ASSUME NEW p \in Listed', NEW c \in Listed', pcb'[c].parentPid = p
      PROVE  c \in Known(p)'
  <2>1. p # ORPHAN_PARENT_PID
    BY <1>1, <1>2 DEF UserPids, ORPHAN_PARENT_PID
  <2>2. p \in Listed /\ c \in Listed /\ pcb[c].parentPid = p
    BY <1>1, <1>3, <2>1
  <2> QED BY <1>1, <2>2 DEF FamilyKnown
<1>4. ASSUME NEW p \in Listed'
      PROVE  Reported(pcb'[p].exitQ) \subseteq Known(p)'
  <2>1. p \in Listed /\ Reported(pcb[p].exitQ) \subseteq Known(p)
    BY <1>1 DEF FamilyKnown
  <2>2. CASE p = par
    <3>1. pcb[p].exitQ \in Seq(ExitReport)
      BY <1>2, <2>1 DEF IInv, TypeOK, PCB
    <3>2. Reported(pcb'[p].exitQ) = Reported(pcb[p].exitQ) \cup {Current}
      BY <1>1, <2>1, <2>2, <3>1, ReportedByAppend
    <3>3. Current \in Known(p)
      BY <1>1, <2>1, <2>2 DEF FamilyKnown
    <3> QED BY <1>1, <2>1, <3>2, <3>3
  <2>3. CASE p # par
    BY <1>1, <2>1, <2>3
  <2> QED BY <2>2, <2>3
<1> QED BY <1>3, <1>4 DEF FamilyKnown

\* Every step keeps both: what Wait takes from the queue, its caller knows, and
\* Fork had returned it, because the caller is not inside Fork.
LEMMA OwnChildStep ==
  ASSUME IInv, FamilyKnown, WaitReturnsOwnChild, [ProcNext]_procVars
  PROVE  FamilyKnown' /\ WaitReturnsOwnChild'
<1>1. waitLog \in [UserPids -> Seq(ExitReport)] /\ Listed \subseteq UserPids
      /\ \A p \in Listed : pcb[p].exitQ \in Seq(ExitReport)
  BY CurrentIsKnown DEF IInv, TypeOK, PCB
<1>2. WaitReturnsOwnChild <=> \A p \in UserPids : Reported(waitLog[p]) \subseteq forked[p]
  BY DEF WaitReturnsOwnChild, Reported
<1>3. WaitReturnsOwnChild' <=> \A p \in UserPids : Reported(waitLog'[p]) \subseteq forked'[p]
  BY DEF WaitReturnsOwnChild, Reported
<1>4. CASE FamilyKept
  <2>1. FamilyKnown'
    BY <1>4 DEF FamilyKept, FamilyKnown
  <2>2. WaitReturnsOwnChild'
    BY <1>2, <1>3, <1>4 DEF FamilyKept
  <2> QED BY <2>1, <2>2
<1>5. CASE ReportTaken
  <2> DEFINE q == pcb[Current].exitQ
  <2>1. /\ Current \in Listed /\ q # << >> /\ q \in Seq(ExitReport)
        /\ Reported(q) \subseteq forked[Current]
    BY <1>1, <1>5 DEF ReportTaken, FamilyKnown
  <2>2. Reported(Tail(q)) \subseteq Reported(q) /\ Head(q).pid \in Reported(q)
    BY <2>1, ReportedByTail
  <2>3. ASSUME NEW p \in Listed
        PROVE  Known(p)' = Known(p) /\ Reported(pcb'[p].exitQ) \subseteq Known(p)
    <3>1. CASE p = Current
      <4>1. pcb'[p].exitQ = Tail(q) /\ Known(p) = forked[p]
        BY <1>5, <3>1 DEF ReportTaken
      <4>2. Known(p)' = Known(p)
        BY <1>5 DEF ReportTaken
      <4> QED BY <2>1, <2>2, <3>1, <4>1, <4>2
    <3>2. CASE p # Current
      BY <1>5, <3>2 DEF ReportTaken, FamilyKnown
    <3> QED BY <3>1, <3>2
  <2>4. FamilyKnown'
    BY <1>5, <2>3 DEF ReportTaken, FamilyKnown
  <2>5. ASSUME NEW p \in UserPids
        PROVE  Reported(waitLog'[p]) \subseteq forked'[p]
    <3>1. forked' = forked /\ Reported(waitLog[p]) \subseteq forked[p]
      BY <1>2, <1>5 DEF ReportTaken
    <3>2. CASE p = Current
      <4>1. waitLog'[p] = Append(waitLog[p], Head(q))
        BY <1>1, <1>5, <3>2 DEF ReportTaken
      <4>2. Head(q) \in ExitReport
        BY <2>1, HeadTailProperties
      <4>3. Reported(waitLog'[p]) = Reported(waitLog[p]) \cup {Head(q).pid}
        BY <1>1, <4>1, <4>2, ReportedByAppend
      <4> QED BY <2>1, <2>2, <3>1, <3>2, <4>3
    <3>3. CASE p # Current
      BY <1>1, <1>5, <3>1, <3>3 DEF ReportTaken
    <3> QED BY <3>2, <3>3
  <2> QED BY <1>3, <2>4, <2>5
<1>6. CASE ChildBorn
  BY <1>2, <1>3, <1>6, BirthKeepsKnown DEF ChildBorn
<1>7. CASE \E status \in ExitStatuses \cup {ERROR} : ProcessDied(status)
  BY <1>2, <1>3, <1>7, DeathKeepsKnown DEF ProcessDied
<1> QED BY <1>4, <1>5, <1>6, <1>7, FamilySteps

\* Every pid Wait ever returned to a process was returned to it by Fork before:
\* nobody collects the exit of another's child (trapHandlers.c, waitHandler and
\* exitHandler).
THEOREM OwnChildrenOnly == ProcSpec => []WaitReturnsOwnChild
<1> DEFINE Inv == IInv /\ FamilyKnown /\ WaitReturnsOwnChild
<1>1. ProcInit => Inv
  BY InitIInv, InitFamilyKnown
<1>2. Inv /\ [ProcNext]_procVars => Inv'
  BY NextStep, OwnChildStep
<1>3. Inv => WaitReturnsOwnChild
  OBVIOUS
<1> QED BY <1>1, <1>2, <1>3, PTL DEF ProcSpec

-----------------------------------------------------------------------------
(* No blocked process has the CPU.                                         *)

\* What Wait and Delay do to the caller's PCB leaves it one.
LEMMA CallerPCB ==
  ASSUME IInv, SystemCall
  PROVE  /\ [pcb EXCEPT ![Current].isWaiting = TRUE] \in [DOMAIN pcb -> PCB]
         /\ \A ticks \in Nat :
              [pcb EXCEPT ![Head(queue)].delay = ticks] \in [DOMAIN pcb -> PCB]
<1>1. /\ pcb \in [DOMAIN pcb -> PCB] /\ Current \in DOMAIN pcb /\ Current = Head(queue)
      /\ pcb[Current] \in PCB
  BY CurrentIsKnown DEF IInv, TypeOK, SystemCall
<1>2. [pcb[Current] EXCEPT !.isWaiting = TRUE] \in PCB
  BY <1>1 DEF PCB
<1>3. \A ticks \in Nat : [pcb[Current] EXCEPT !.delay = ticks] \in PCB
  BY <1>1 DEF PCB
<1> QED BY <1>1, <1>2, <1>3

\* Taking a report out of the caller's PCB leaves PCBs and blocks nobody.
LEMMA ReapedPCBs ==
  ASSUME IInv, Current \in DOMAIN pcb, pcb[Current].exitQ # << >>
  PROVE  LET P == [pcb EXCEPT ![Current].exitQ = Tail(@)]
         IN  /\ P \in [DOMAIN pcb -> PCB]
             /\ \A p \in DOMAIN pcb : IsBlocked(P[p]) <=> IsBlocked(pcb[p])
<1> DEFINE P == [pcb EXCEPT ![Current].exitQ = Tail(@)]
           r == pcb[Current]
           newQ == Tail(pcb[Current].exitQ)
           s == [r EXCEPT !.exitQ = newQ]
<1>1. pcb \in [DOMAIN pcb -> PCB]
  BY DEF IInv, TypeOK
<1>2. r \in PCB /\ newQ \in Seq(ExitReport)
  BY <1>1, HeadTailProperties DEF PCB
<1>3. P = [pcb EXCEPT ![Current] = s]
  OBVIOUS
<1> HIDE DEF r, newQ
<1>4. /\ s \in PCB
      /\ s.delay = r.delay
      /\ s.isWaiting = r.isWaiting
      /\ s.isWriting = r.isWriting
      /\ s.isWaitReading = r.isWaitReading
      /\ s.isWaitWriting = r.isWaitWriting
  BY <1>2 DEF PCB
<1> HIDE DEF s
<1>5. IsBlocked(s) <=> IsBlocked(r)
  BY <1>4, Zenon DEF IsBlocked
<1>6. P \in [DOMAIN pcb -> PCB]
  BY <1>1, <1>3, <1>4
<1>7. \A p \in DOMAIN pcb : P[p] = IF p = Current THEN s ELSE pcb[p]
  BY <1>1, <1>3
<1>8. \A p \in DOMAIN pcb : IsBlocked(P[p]) <=> IsBlocked(pcb[p])
  BY <1>5, <1>7 DEF r
<1> QED BY <1>6, <1>8

\* Every step keeps the property: whoever blocks itself gives the CPU away to
\* one that is not blocked, and nobody blocks the running process.
LEMMA ReadyStep ==
  ASSUME IInv, RunningIsReady, [ProcNext]_procVars
  PROVE  RunningIsReady'
<1>1. /\ Current \in DOMAIN pcb /\ pcb \in [DOMAIN pcb -> PCB]
      /\ Head(queue) \in Listed /\ Listed \subseteq DOMAIN pcb
      /\ (SystemCall => ~isIdleRunning /\ Current = Head(queue))
  BY CurrentIsKnown DEF IInv, SystemCall, TypeOK
<1>2. ASSUME NEW P \in [DOMAIN pcb -> PCB], NEW k \in Continuations, Schedule(P, k)
      PROVE  RunningIsReady'
  <2>1. /\ Listed' = Listed
        /\ \A p \in Listed : IsBlocked(pcb'[p]) <=> IsBlocked(P[p])
    BY <1>2, ScheduleChanges
  <2>2. ~isIdleRunning' => ~IsBlocked(P[Head(queue')])
    BY <1>2, ScheduleFacts DEF IInv
  <2>3. Head(queue') \in Listed
    <3>1. queue' \in Seq(UserPids) /\ queue' # << >>
      BY <1>2, ScheduleFacts DEF IInv
    <3>2. Head(queue') = queue'[1] /\ 1 \in 1 .. Len(queue')
      BY <3>1, HeadTailProperties
    <3>3. Head(queue') \in Listed'
      BY <3>2 DEF Listed
    <3> QED BY <2>1, <3>3
  <2> HIDE DEF IsBlocked
  <2> QED BY <2>1, <2>2, <2>3 DEF RunningIsReady
<1>3. ASSUME NEW P \in [DOMAIN pcb -> PCB], BackToUser(P),
             UNCHANGED <<queue, isIdleRunning>>,
             \A p \in DOMAIN pcb : IsBlocked(P[p]) <=> IsBlocked(pcb[p])
      PROVE  RunningIsReady'
  <2>1. \A p \in Listed : /\ p \in DOMAIN pcb
                          /\ IsBlocked(pcb'[p]) <=> IsBlocked(P[p])
    BY <1>3, BackToUserFacts
  <2> HIDE DEF IsBlocked
  <2> QED BY <1>1, <1>3, <2>1 DEF RunningIsReady
<1>4. CASE Tick
  <2> DEFINE P == DecreaseDelay
  <2>1. /\ P \in [DOMAIN pcb -> PCB] /\ Returning \in Continuations
        /\ \A p \in DOMAIN pcb : IsBlocked(P[p]) => IsBlocked(pcb[p])
    BY DecreaseDelayFacts DEF IInv, Returning, Continuations
  <2>2. Schedule(P, Returning) \/ (pcb' = P /\ UNCHANGED <<queue, isIdleRunning>>)
    BY <1>4 DEF Tick, ClockTick
  <2> HIDE DEF P
  <2>3. CASE pcb' = P /\ UNCHANGED <<queue, isIdleRunning>>
    BY <1>1, <2>1, <2>3 DEF RunningIsReady
  <2> QED BY <1>2, <2>1, <2>2, <2>3
<1>5. CASE ReturnFromTrap \/ ForkReturns
  BY <1>1, <1>3, <1>5 DEF ReturnFromTrap, ForkReturns
<1>6. CASE WaitCollects \/ WaitResumes
  <2>1. Reap
    BY <1>6 DEF WaitCollects, WaitResumes
  <2>2. CASE pcb[Current].exitQ = << >>
    BY <2>1, <2>2 DEF Reap, RunningIsReady
  <2>3. CASE pcb[Current].exitQ # << >>
    BY <1>1, <1>3, <2>1, <2>3, ReapedPCBs DEF Reap
  <2> QED BY <2>2, <2>3
<1>7. CASE Fork
  <2> DEFINE c == nextPid
             child == NewPCB(Current, [at |-> "fork", arg |-> c])
             parent == [pcb[Current] EXCEPT !.numChildren = @ + 1,
                            !.savedContext = [at |-> "fork", arg |-> c]]
  <2>1. /\ queue' = <<c>> \o queue
        /\ pcb' = [p \in DOMAIN pcb \cup {c} |->
                     CASE p = c -> child
                       [] p = Current -> parent
                       [] OTHER -> pcb[p]]
        /\ c # Current
    BY <1>1, <1>7 DEF Fork, IInv, Auxiliary, TypeOK, Pids, UserPids, IDLE_PID
  <2>2. pcb'[c] = child
    <3> HIDE DEF child, parent, c
    <3> QED BY <2>1
  <2>3. Head(queue') = c
    BY <2>1 DEF IInv, TypeOK
  <2>4. ~IsBlocked(child)
    BY DEF NewPCB, IsBlocked
  <2> HIDE DEF child
  <2> QED BY <2>2, <2>3, <2>4 DEF RunningIsReady
<1>8. CASE WaitBlocks
  <2>1. [at |-> "wait", arg |-> 0] \in Continuations
    BY DEF Continuations
  <2> QED BY <1>2, <1>8, <2>1, CallerPCB DEF WaitBlocks
<1>9. CASE \E ticks \in -1 .. MaxDelay : Delay(ticks)
  <2>1. PICK ticks \in -1 .. MaxDelay : Delay(ticks)
    BY <1>9
  <2>2. SystemCall /\ ticks \in Nat
        /\ Schedule([pcb EXCEPT ![Head(queue)].delay = ticks], Returning)
    BY <2>1, ProcessControlAssumption DEF Delay
  <2>3. Returning \in Continuations
    BY DEF Returning, Continuations
  <2> QED BY <1>2, <2>2, <2>3, CallerPCB
<1>10. CASE \E status \in ExitStatuses \cup {ERROR} : Exit(status)
  <2>1. PICK status \in ExitStatuses \cup {ERROR} : Exit(status)
    BY <1>10
  <2>2. SystemCall /\ \A p \in DOMAIN pcb :
          IsBlocked(AfterExit(status)[p]) => IsBlocked(pcb[p])
    BY <2>1, AfterExitFacts DEF Exit
  <2>3. CASE ExitLeaves(status)
    BY <2>3 DEF ExitLeaves, ScheduleExit, RunningIsReady
  <2>4. CASE ExitHalts(status) \/ ExitFaults
    BY <1>1, <2>2, <2>4 DEF ExitHalts, ExitFaults, RunningIsReady
  <2> QED BY <2>1, <2>3, <2>4 DEF Exit
<1>11. CASE UNCHANGED procVars
  BY <1>11 DEF procVars, schedVars, RunningIsReady
<1>12. CASE \E ticks \in -1 .. MaxDelay : DelayReturns(ticks)
  BY <1>11, <1>12, DelayReturnsStep
<1>13. CASE WaitFails \/ Stopped
  BY <1>11, <1>13 DEF WaitFails, Stopped
<1> QED BY <1>4, <1>5, <1>6, <1>7, <1>8, <1>9, <1>10, <1>11, <1>12, <1>13
        DEF ProcNext, ProgramError, Resume

\* A blocked process never has the CPU.
THEOREM OnlyReadyRun == ProcSpec => []RunningIsReady
<1>1. ProcInit => RunningIsReady
  BY SchedulingAssumption
     DEF ProcInit, SchedInit, RunningIsReady, NewPCB, IsBlocked
<1>2. IInv /\ RunningIsReady /\ [ProcNext]_procVars => IInv' /\ RunningIsReady'
  BY NextStep, ReadyStep
<1> QED BY <1>1, <1>2, InitIInv, PTL DEF ProcSpec
=============================================================================
