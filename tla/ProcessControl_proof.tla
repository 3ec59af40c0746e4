------------------------ MODULE ProcessControl_proof ------------------------
(***************************************************************************)
(* Proofs about ProcessControl, for every MaxPid, MaxDelay, ExitStatuses   *)
(* and Terminals that satisfy the assumptions.                             *)
(***************************************************************************)
EXTENDS ProcessControl, SequenceTheorems, FiniteSetTheorems, TLAPS

-----------------------------------------------------------------------------
(* Lemmas about the operators on lists.                                    *)

Distinct(q) == \A i, j \in 1 .. Len(q) : q[i] = q[j] => i = j
Elements(q) == {q[i] : i \in 1 .. Len(q)}

\* Where each element of a rotated list comes from.
LEMMA RotateElement ==
  ASSUME NEW S, NEW q \in Seq(S), NEW i \in 1 .. Len(q)
  PROVE  /\ Rotate(q, i) \in Seq(S)
         /\ Len(Rotate(q, i)) = Len(q)
         /\ \A j \in 1 .. Len(q) :
              Rotate(q, i)[j] = IF j <= Len(q) - i + 1
                                THEN q[i + j - 1]
                                ELSE q[j - (Len(q) - i + 1)]
<1> DEFINE front == SubSeq(q, i, Len(q))
           back == SubSeq(q, 1, i - 1)
<1>1. /\ front \in Seq(S) /\ Len(front) = Len(q) - i + 1
      /\ \A j \in 1 .. Len(q) - i + 1 : front[j] = q[i + j - 1]
  BY SubSeqProperties
<1>2. /\ back \in Seq(S) /\ Len(back) = i - 1
      /\ \A j \in 1 .. i - 1 : back[j] = q[j]
  BY SubSeqProperties
<1>3. /\ front \o back \in Seq(S)
      /\ Len(front \o back) = Len(front) + Len(back)
      /\ \A j \in 1 .. Len(front) + Len(back) :
           (front \o back)[j] = IF j <= Len(front) THEN front[j]
                                ELSE back[j - Len(front)]
  BY <1>1, <1>2, ConcatProperties
<1> QED BY <1>1, <1>2, <1>3 DEF Rotate

\* Rotation permutes a list and brings the chosen element to its head.
LEMMA RotatePermutes ==
  ASSUME NEW S, NEW q \in Seq(S), NEW i \in 1 .. Len(q), Distinct(q)
  PROVE  /\ Rotate(q, i) \in Seq(S)
         /\ Len(Rotate(q, i)) = Len(q)
         /\ Elements(Rotate(q, i)) = Elements(q)
         /\ Distinct(Rotate(q, i))
         /\ Head(Rotate(q, i)) = q[i]
<1> DEFINE r == Rotate(q, i)
           n == Len(q)
<1>1. /\ r \in Seq(S) /\ Len(r) = n /\ n \in Nat
      /\ \A j \in 1 .. n : r[j] = IF j <= n - i + 1 THEN q[i + j - 1]
                                                   ELSE q[j - (n - i + 1)]
  BY RotateElement
<1> HIDE DEF r
<1>2. \A k \in 1 .. n : \E j \in 1 .. n : r[j] = q[k]
  <2> SUFFICES ASSUME NEW k \in 1 .. n
               PROVE  \E j \in 1 .. n : r[j] = q[k]
    OBVIOUS
  <2>1. CASE k >= i
    <3>1. k - i + 1 \in 1 .. n /\ k - i + 1 <= n - i + 1
      BY <1>1, <2>1
    <3>2. r[k - i + 1] = q[i + (k - i + 1) - 1]
      BY <1>1, <3>1
    <3>3. i + (k - i + 1) - 1 = k
      BY <1>1
    <3> QED BY <3>1, <3>2, <3>3
  <2>2. CASE k < i
    <3> DEFINE j == k + (n - i + 1)
    <3>1. j \in 1 .. n /\ ~(j <= n - i + 1)
      BY <1>1, <2>2
    <3>2. r[j] = q[j - (n - i + 1)]
      BY <1>1, <3>1
    <3>3. j - (n - i + 1) = k
      BY <1>1
    <3> QED BY <3>1, <3>2, <3>3
  <2> QED BY <1>1, <2>1, <2>2
<1>3. \A j \in 1 .. n : \E k \in 1 .. n : r[j] = q[k]
  <2> SUFFICES ASSUME NEW j \in 1 .. n
               PROVE  \E k \in 1 .. n : r[j] = q[k]
    OBVIOUS
  <2>1. CASE j <= n - i + 1
    <3>1. i + j - 1 \in 1 .. n /\ r[j] = q[i + j - 1]
      BY <1>1, <2>1
    <3> QED BY <3>1
  <2>2. CASE ~(j <= n - i + 1)
    <3>1. j - (n - i + 1) \in 1 .. n /\ r[j] = q[j - (n - i + 1)]
      BY <1>1, <2>2
    <3> QED BY <3>1
  <2> QED BY <2>1, <2>2
<1>4. Elements(r) = Elements(q)
  <2>1. Len(r) = n
    BY <1>1
  <2>2. ASSUME NEW x \in Elements(r) PROVE x \in Elements(q)
    <3>1. PICK j \in 1 .. n : x = r[j]
      BY <2>1 DEF Elements
    <3>2. PICK k \in 1 .. n : r[j] = q[k]
      BY <1>3
    <3> QED BY <3>1, <3>2 DEF Elements
  <2>3. ASSUME NEW x \in Elements(q) PROVE x \in Elements(r)
    <3>1. PICK k \in 1 .. n : x = q[k]
      BY DEF Elements
    <3>2. PICK j \in 1 .. n : r[j] = q[k]
      BY <1>2
    <3> QED BY <2>1, <3>1, <3>2 DEF Elements
  <2> QED BY <2>2, <2>3
<1>5. Distinct(r)
  <2> SUFFICES ASSUME NEW j \in 1 .. n, NEW k \in 1 .. n, r[j] = r[k]
               PROVE  j = k
    BY <1>1 DEF Distinct
  <2> DEFINE src(m) == IF m <= n - i + 1 THEN i + m - 1 ELSE m - (n - i + 1)
  <2>1. src(j) \in 1 .. n /\ src(k) \in 1 .. n
    BY <1>1
  <2>2. r[j] = q[src(j)] /\ r[k] = q[src(k)]
    BY <1>1
  <2>3. src(j) = src(k)
    BY <2>1, <2>2 DEF Distinct
  <2> QED BY <1>1, <2>3
<1>6. Head(r) = q[i]
  <2>1. r[1] = q[i]
    BY <1>1
  <2> QED BY <1>1, <2>1, r # << >>, HeadTailProperties
<1> QED BY <1>1, <1>4, <1>5, <1>6 DEF r

\* Inserting a new element at the head of a list.
LEMMA ConsElements ==
  ASSUME NEW S, NEW q \in Seq(S), NEW e \in S, Distinct(q), e \notin Elements(q)
  PROVE  /\ <<e>> \o q \in Seq(S)
         /\ <<e>> \o q # << >>
         /\ Elements(<<e>> \o q) = Elements(q) \cup {e}
         /\ Distinct(<<e>> \o q)
         /\ Head(<<e>> \o q) = e
         /\ Len(<<e>> \o q) = Len(q) + 1
<1> DEFINE r == <<e>> \o q
<1>1. /\ r \in Seq(S) /\ Len(r) = Len(q) + 1 /\ Len(q) \in Nat
      /\ \A j \in 1 .. Len(q) + 1 : r[j] = IF j = 1 THEN e ELSE q[j - 1]
  BY ConcatProperties
<1> HIDE DEF r
<1>2. Elements(r) = Elements(q) \cup {e}
  <2>1. \A j \in 1 .. Len(q) : r[j + 1] = q[j] /\ j + 1 \in 1 .. Len(r)
    BY <1>1
  <2>2. r[1] = e /\ 1 \in 1 .. Len(r)
    BY <1>1
  <2>3. \A j \in 1 .. Len(r) : j = 1 \/ (j - 1 \in 1 .. Len(q) /\ r[j] = q[j - 1])
    BY <1>1
  <2>4. Elements(r) \subseteq Elements(q) \cup {e}
    BY <2>2, <2>3 DEF Elements
  <2>5. Elements(q) \cup {e} \subseteq Elements(r)
    BY <2>1, <2>2 DEF Elements
  <2> QED BY <2>4, <2>5
<1>3. Distinct(r)
  <2> SUFFICES ASSUME NEW j \in 1 .. Len(r), NEW k \in 1 .. Len(r), r[j] = r[k]
               PROVE  j = k
    BY DEF Distinct
  <2>1. \A m \in 1 .. Len(r) :
          m # 1 => m - 1 \in 1 .. Len(q) /\ r[m] = q[m - 1] /\ r[m] # e
    BY <1>1 DEF Elements
  <2>2. CASE j = 1 \/ k = 1
    BY <1>1, <2>1, <2>2
  <2>3. CASE j # 1 /\ k # 1
    <3>1. j - 1 = k - 1
      BY <2>1, <2>3 DEF Distinct
    <3> QED BY <1>1, <3>1
  <2> QED BY <2>2, <2>3
<1>4. Head(r) = e /\ r # << >>
  BY <1>1
<1> QED BY <1>1, <1>2, <1>3, <1>4 DEF r

\* Removing the head of a list with distinct elements.
LEMMA TailElements ==
  ASSUME NEW S, NEW q \in Seq(S), Distinct(q), Len(q) > 1
  PROVE  /\ Tail(q) \in Seq(S)
         /\ Tail(q) # << >>
         /\ Elements(Tail(q)) = Elements(q) \ {Head(q)}
         /\ Distinct(Tail(q))
<1> DEFINE r == Tail(q)
<1>1. /\ r \in Seq(S) /\ Len(r) = Len(q) - 1 /\ Len(q) \in Nat
      /\ Head(q) = q[1]
      /\ \A j \in 1 .. Len(q) - 1 : r[j] = q[j + 1]
  BY q # << >>, HeadTailProperties
<1> HIDE DEF r
<1>2. Elements(r) = Elements(q) \ {Head(q)}
  <2>1. \A j \in 1 .. Len(r) : r[j] = q[j + 1] /\ j + 1 \in 1 .. Len(q) /\ r[j] # q[1]
    BY <1>1 DEF Distinct
  <2>2. \A j \in 1 .. Len(q) : j = 1 \/ (j - 1 \in 1 .. Len(r) /\ r[j - 1] = q[j])
    BY <1>1
  <2>3. Head(q) = q[1] /\ 1 \in 1 .. Len(q)
    BY <1>1, Len(q) > 1
  <2>4. ASSUME NEW x \in Elements(r) PROVE x \in Elements(q) \ {Head(q)}
    <3>1. PICK j \in 1 .. Len(r) : x = r[j]
      BY <2>4 DEF Elements
    <3>2. x = q[j + 1] /\ j + 1 \in 1 .. Len(q) /\ x # q[1]
      BY <2>1, <3>1
    <3> QED BY <2>3, <3>2 DEF Elements
  <2>5. ASSUME NEW x \in Elements(q) \ {Head(q)} PROVE x \in Elements(r)
    <3>1. PICK j \in 1 .. Len(q) : x = q[j]
      BY <2>5 DEF Elements
    <3>2. j # 1
      BY <2>3, <2>5, <3>1
    <3>3. j - 1 \in 1 .. Len(r) /\ r[j - 1] = x
      BY <2>2, <3>1, <3>2
    <3> QED BY <3>3 DEF Elements
  <2> QED BY <2>4, <2>5
<1>3. Distinct(r)
  BY <1>1 DEF Distinct
<1>4. r # << >>
  BY <1>1
<1> QED BY <1>1, <1>2, <1>3, <1>4 DEF r

-----------------------------------------------------------------------------
(* The inductive invariant.                                                *)

\* Blocked by a call of its own that waits.  A process that started to write to
\* a terminal counts as blocked for the scheduler and runs on.
IsAsleep(r) == \/ r.delay > 0
               \/ r.isWaiting
               \/ r.isWaitReading # NoTerminal
               \/ r.isWaitWriting # NoTerminal

\* The weaker form of RunningIsReady that holds with terminals, too.
RunnerAwake == ~isIdleRunning => ~IsAsleep(pcb[Head(queue)])

\* What the proof needs beside the properties themselves: pids grow, so that
\* a new one is fresh and no two processes are each other's parents; idle is
\* only ever suspended with nothing left to do; logs of the unborn are empty.
Auxiliary ==
  /\ \A p \in DOMAIN pcb : p < nextPid
  /\ \A p \in Listed : pcb[p].parentPid < p
  /\ pcb[IDLE_PID].savedContext \in {InUserMode, Returning}
  /\ \A p \in UserPids : p >= nextPid => exitLog[p] = << >> /\ waitLog[p] = << >>

IInv == /\ TypeOK
        /\ NoLostProcess
        /\ OneInUserMode
        /\ ParentAlive
        /\ ChildCountExact
        /\ WaitIsWokenByReport
        /\ ReportsInOrder
        /\ ExitingIsFreedFirst
        /\ RunnerAwake
        /\ Auxiliary

\* What KernelStart leaves satisfies the inductive invariant.
LEMMA InitIInv == ProcInit => IInv
<1> SUFFICES ASSUME ProcInit PROVE IInv
  OBVIOUS
<1> USE SchedulingAssumption DEF ProcInit, SchedInit
<1>1. Listed = {INIT_PID} /\ Len(queue) = 1 /\ queue[1] = INIT_PID
      /\ Head(queue) = INIT_PID
  BY DEF Listed
<1>2. INIT_PID \in UserPids /\ IDLE_PID \notin UserPids
  BY DEF UserPids, INIT_PID, IDLE_PID
<1>3. /\ pcb[INIT_PID] = NewPCB(ORPHAN_PARENT_PID, InUserMode)
      /\ pcb[IDLE_PID] = NewPCB(ORPHAN_PARENT_PID, Returning)
      /\ DOMAIN pcb = {IDLE_PID, INIT_PID}
  BY DEF INIT_PID, IDLE_PID
<1>4. TypeOK
  <2>1. \A c \in {Returning, InUserMode} : NewPCB(ORPHAN_PARENT_PID, c) \in PCB
    BY DEF NewPCB, PCB, TermOrNone, Continuations, Returning, InUserMode
  <2>2. pcb \in [DOMAIN pcb -> PCB]
    BY <1>3, <2>1
  <2>3. DOMAIN pcb \subseteq Pids
    BY <1>2, <1>3 DEF Pids
  <2>4. queue \in Seq(UserPids) /\ queue # << >>
    BY <1>2
  <2>5. nextPid \in 2 .. MaxPid + 1
    OBVIOUS
  <2>6. /\ lastClockTickPID \in Pids \cup {-1}
        /\ processExitingNow \in UserPids \cup {NULL}
        /\ isIdleRunning \in BOOLEAN
    OBVIOUS
  <2>7. << >> \in Seq(ExitReport)
    OBVIOUS
  <2>8. /\ forked \in [UserPids -> SUBSET UserPids]
        /\ exitLog \in [UserPids -> Seq(ExitReport)]
        /\ waitLog \in [UserPids -> Seq(ExitReport)]
    BY <2>7
  <2> QED BY <1>3, <2>2, <2>3, <2>4, <2>5, <2>6, <2>8 DEF TypeOK
<1>5. NoLostProcess
  BY <1>1, <1>3 DEF NoLostProcess, NULL, INIT_PID
<1>6. OneInUserMode
  BY <1>1, <1>3 DEF OneInUserMode, Current, NewPCB, InUserMode, Returning
<1>7. ParentAlive
  BY <1>1, <1>3 DEF ParentAlive, NewPCB
<1>8. ChildCountExact
  <2>1. {c \in Listed : pcb[c].parentPid = INIT_PID} = {}
    BY <1>1, <1>3 DEF NewPCB, ORPHAN_PARENT_PID, INIT_PID
  <2> QED BY <1>1, <1>3, <2>1, FS_EmptySet DEF ChildCountExact, NewPCB
<1>9. WaitIsWokenByReport
  BY <1>1, <1>3 DEF WaitIsWokenByReport, NewPCB, InUserMode
<1>10. ReportsInOrder
  BY <1>1, <1>2, <1>3 DEF ReportsInOrder, NewPCB
<1>11. ExitingIsFreedFirst
  BY DEF ExitingIsFreedFirst
<1>12. RunnerAwake
  BY <1>1, <1>3 DEF RunnerAwake, IsAsleep, NewPCB
<1>13. Auxiliary
  BY <1>1, <1>2, <1>3 DEF Auxiliary, NewPCB, ORPHAN_PARENT_PID, INIT_PID, IDLE_PID
<1> QED BY <1>4, <1>5, <1>6, <1>7, <1>8, <1>9, <1>10, <1>11, <1>12, <1>13 DEF IInv

-----------------------------------------------------------------------------
(* Facts about the scheduler.                                              *)

\* The set of listed pids is the set of elements of the list.
LEMMA ListedIsElements == Listed = Elements(queue) /\ Listed' = Elements(queue')
BY DEF Listed, Elements

\* The running process is idle or on the list.
LEMMA CurrentIsKnown ==
  ASSUME TypeOK, NoLostProcess
  PROVE  /\ Current \in DOMAIN pcb
         /\ Head(queue) \in Listed /\ Head(queue) \in UserPids
         /\ Head(queue) = queue[1] /\ 1 \in 1 .. Len(queue)
         /\ Listed \subseteq DOMAIN pcb /\ Listed \subseteq UserPids
         /\ IDLE_PID \notin UserPids
         /\ Current # IDLE_PID <=> ~isIdleRunning
         /\ ~isIdleRunning => Current = Head(queue)
<1>1. Head(queue) = queue[1] /\ 1 \in 1 .. Len(queue) /\ Head(queue) \in UserPids
  BY HeadTailProperties DEF TypeOK
<1>2. Head(queue) \in Listed
  BY <1>1 DEF Listed
<1>3. Listed \subseteq DOMAIN pcb
  BY DEF NoLostProcess
<1>4. Listed \subseteq UserPids
  BY ElementOfSeq DEF TypeOK, Listed
<1>5. IDLE_PID \notin UserPids
  BY DEF IDLE_PID, UserPids
<1> QED BY <1>1, <1>2, <1>3, <1>4, <1>5 DEF Current, TypeOK

\* scheduleProcess(0) permutes the list; whoever it gives the CPU to was not
\* blocked.
LEMMA ScheduleFacts ==
  ASSUME TypeOK, NoLostProcess, NEW P, NEW k, Schedule(P, k)
  PROVE  /\ queue' \in Seq(UserPids) /\ queue' # << >>
         /\ Len(queue') = Len(queue)
         /\ Listed' = Listed
         /\ Distinct(queue')
         /\ isIdleRunning' \in BOOLEAN
         /\ ~isIdleRunning' => ~IsBlocked(P[Head(queue')])
         /\ pcb' = [P EXCEPT ![Current].savedContext = k]
<1>1. Distinct(queue) /\ queue \in Seq(UserPids) /\ queue # << >>
  BY DEF NoLostProcess, Distinct, TypeOK
<1>2. CASE SwitchToHead(P)
  BY <1>1, <1>2 DEF SwitchToHead, HeadTakesOverFromIdle, Listed, Schedule
<1>3. CASE SwitchBehindHead(P)
  <2>1. PICK i \in ReadyBehindHead(P) : queue' = Rotate(queue, i)
    BY <1>3 DEF SwitchBehindHead
  <2>2. i \in 1 .. Len(queue) /\ ~IsBlocked(P[queue[i]])
    BY <1>1, <2>1 DEF ReadyBehindHead
  <2>3. /\ queue' \in Seq(UserPids) /\ Len(queue') = Len(queue)
        /\ Elements(queue') = Elements(queue) /\ Distinct(queue')
        /\ Head(queue') = queue[i]
    BY <1>1, <2>1, <2>2, RotatePermutes
  <2>4. queue' # << >>
    BY <1>1, <2>3
  <2> QED BY <1>3, <2>2, <2>3, <2>4, ListedIsElements
          DEF SwitchBehindHead, Schedule
<1>4. CASE KeepOrIdle(P)
  BY <1>1, <1>4 DEF KeepOrIdle, Listed, TypeOK, Schedule
<1> QED BY <1>2, <1>3, <1>4 DEF Schedule

\* A step that leaves the family relations alone, whatever it does to the order
\* of the list, preserves what is said about them.
LEMMA QuietStep ==
  ASSUME IInv, machine = "running", UNCHANGED <<machine, nextPid>>,
         Listed' = Listed, Distinct(queue'),
         processExitingNow' \in {processExitingNow, NULL},
         DOMAIN pcb' = {IDLE_PID} \cup Listed \cup ({processExitingNow'} \ {NULL}),
         \A p \in Listed : pcb'[p].parentPid = pcb[p].parentPid,
         \A p \in Listed : pcb'[p].numChildren = pcb[p].numChildren,
         pcb'[IDLE_PID].savedContext \in {InUserMode, Returning},
         \A p \in UserPids : p >= nextPid => exitLog'[p] = exitLog[p],
         \A p \in UserPids : p >= nextPid => waitLog'[p] = waitLog[p]
  PROVE  NoLostProcess' /\ ParentAlive' /\ ChildCountExact' /\ Auxiliary'
<1>1. NoLostProcess'
  <2>1. NULL \notin Listed
    BY CurrentIsKnown DEF IInv, NULL, UserPids
  <2> QED BY <2>1 DEF IInv, NoLostProcess, Distinct
<1>2. ParentAlive'
  BY DEF IInv, ParentAlive
<1>3. ChildCountExact'
  <2> SUFFICES ASSUME NEW p \in Listed
               PROVE  pcb'[p].numChildren
                        = Cardinality({c \in Listed : pcb'[c].parentPid = p})
    BY DEF ChildCountExact
  <2>1. {c \in Listed : pcb'[c].parentPid = p} = {c \in Listed : pcb[c].parentPid = p}
    OBVIOUS
  <2> QED BY <2>1 DEF IInv, ChildCountExact
<1>4. Auxiliary'
  <2>1. DOMAIN pcb' \subseteq DOMAIN pcb
    BY DEF IInv, NoLostProcess
  <2> QED BY <2>1 DEF IInv, Auxiliary
<1> QED BY <1>1, <1>2, <1>3, <1>4

\* In user mode, and whenever idle does not run, nothing is waiting to be freed.
LEMMA UserModeFacts ==
  ASSUME IInv, machine = "running", UserMode \/ Current # IDLE_PID
  PROVE  /\ processExitingNow = NULL
         /\ DOMAIN pcb = {IDLE_PID} \cup Listed
         /\ \A p \in DOMAIN pcb : p # Current => pcb[p].savedContext # InUserMode
         /\ machine = "running"
<1>1. processExitingNow = NULL
  BY DEF IInv, ExitingIsFreedFirst, UserMode, KernelMode, Current
<1>2. DOMAIN pcb = {IDLE_PID} \cup Listed
  BY <1>1 DEF IInv, NoLostProcess
<1>3. NULL \notin DOMAIN pcb
  BY DEF IInv, TypeOK, Pids, UserPids, NULL, IDLE_PID
<1>4. \A p \in DOMAIN pcb : p # Current => pcb[p].savedContext # InUserMode
  BY <1>1, <1>3 DEF IInv, OneInUserMode
<1> QED BY <1>1, <1>2, <1>4

\* What saving a context changes in a PCB.
LEMMA SuspendedPCB ==
  ASSUME NEW r \in PCB, NEW k \in Continuations
  PROVE  LET s == [r EXCEPT !.savedContext = k]
         IN  /\ s \in PCB
             /\ s.parentPid = r.parentPid
             /\ s.numChildren = r.numChildren
             /\ s.exitQ = r.exitQ
             /\ s.isWaiting = r.isWaiting
             /\ s.savedContext = k
             /\ IsBlocked(s) <=> IsBlocked(r)
             /\ IsAsleep(s) <=> IsAsleep(r)
<1> DEFINE s == [r EXCEPT !.savedContext = k]
<1>1. /\ s \in PCB
      /\ s.parentPid = r.parentPid
      /\ s.numChildren = r.numChildren
      /\ s.exitQ = r.exitQ
      /\ s.isWaiting = r.isWaiting
      /\ s.savedContext = k
      /\ s.delay = r.delay
      /\ s.isWriting = r.isWriting
      /\ s.isWaitReading = r.isWaitReading
      /\ s.isWaitWriting = r.isWaitWriting
  BY DEF PCB
<1> HIDE DEF s
<1>2. IsBlocked(s) <=> IsBlocked(r)
  BY <1>1, Zenon DEF IsBlocked
<1>3. IsAsleep(s) <=> IsAsleep(r)
  BY <1>1, Zenon DEF IsAsleep
<1> QED BY <1>1, <1>2, <1>3 DEF s

\* Who is not blocked is not asleep.
LEMMA ReadyIsAwake == \A r : IsAsleep(r) => IsBlocked(r)
BY DEF IsAsleep, IsBlocked

\* A handler of the running process changed the PCBs to P without touching the
\* family relations, then called scheduleProcess(0) to continue at k.
LEMMA ScheduleStep ==
  ASSUME IInv, machine = "running", UserMode \/ Current # IDLE_PID,
         NEW P \in [DOMAIN pcb -> PCB], NEW k \in Continuations,
         \A p \in DOMAIN pcb : /\ P[p].parentPid = pcb[p].parentPid
                               /\ P[p].numChildren = pcb[p].numChildren
                               /\ P[p].exitQ = pcb[p].exitQ
                               /\ P[p].savedContext = pcb[p].savedContext
                               /\ p # Current => P[p].isWaiting = pcb[p].isWaiting,
         k # InUserMode,
         Current = IDLE_PID => k = Returning,
         k.at = "wait" => /\ P[Current].isWaiting
                          /\ pcb[Current].exitQ = << >>
                          /\ pcb[Current].numChildren > 0,
         lastClockTickPID' \in Pids \cup {-1},
         Schedule(P, k),
         UNCHANGED <<nextPid, processExitingNow, machine, forked, exitLog, waitLog>>
  PROVE  IInv'
<1> USE DEF IInv
<1>1. /\ queue' \in Seq(UserPids) /\ queue' # << >>
      /\ Listed' = Listed
      /\ Distinct(queue')
      /\ isIdleRunning' \in BOOLEAN
      /\ ~isIdleRunning' => ~IsBlocked(P[Head(queue')])
      /\ pcb' = [P EXCEPT ![Current].savedContext = k]
  BY ScheduleFacts
<1>2. /\ Current \in DOMAIN pcb /\ IDLE_PID \in DOMAIN pcb
      /\ Listed \subseteq DOMAIN pcb
      /\ IDLE_PID \notin Listed
  BY CurrentIsKnown DEF TypeOK
<1>3. processExitingNow = NULL /\ DOMAIN pcb = {IDLE_PID} \cup Listed
      /\ machine = "running"
  BY UserModeFacts
<1>4. DOMAIN pcb' = DOMAIN pcb
  BY <1>1
<1>5. \A p \in DOMAIN pcb :
        pcb'[p] = IF p = Current THEN [P[p] EXCEPT !.savedContext = k] ELSE P[p]
  BY <1>1
<1>6. \A p \in DOMAIN pcb :
        /\ pcb'[p] \in PCB
        /\ pcb'[p].parentPid = pcb[p].parentPid
        /\ pcb'[p].numChildren = pcb[p].numChildren
        /\ pcb'[p].exitQ = pcb[p].exitQ
        /\ pcb'[p].isWaiting = P[p].isWaiting
        /\ pcb'[p].savedContext = IF p = Current THEN k ELSE pcb[p].savedContext
        /\ IsAsleep(pcb'[p]) <=> IsAsleep(P[p])
  <2> TAKE p \in DOMAIN pcb
  <2>1. P[p] \in PCB
    OBVIOUS
  <2>2. CASE p = Current
    <3>1. pcb'[p] = [P[p] EXCEPT !.savedContext = k]
      BY <1>5, <2>2
    <3>2. pcb'[p] \in PCB /\ pcb'[p].savedContext = k
      BY <2>1, <3>1, SuspendedPCB
    <3>3. /\ pcb'[p].parentPid = P[p].parentPid
          /\ pcb'[p].numChildren = P[p].numChildren
          /\ pcb'[p].exitQ = P[p].exitQ
      BY <2>1, <3>1, SuspendedPCB
    <3>4. pcb'[p].isWaiting = P[p].isWaiting
      BY <2>1, <3>1, SuspendedPCB
    <3>5. IsAsleep(pcb'[p]) <=> IsAsleep(P[p])
      BY <2>1, <3>1, SuspendedPCB
    <3> QED BY <2>2, <3>2, <3>3, <3>4, <3>5
  <2>3. CASE p # Current
    <3>1. pcb'[p] = P[p]
      BY <1>5, <2>3
    <3>2. pcb'[p] \in PCB /\ pcb'[p].savedContext = pcb[p].savedContext
      BY <2>1, <3>1
    <3>3. /\ pcb'[p].parentPid = pcb[p].parentPid
          /\ pcb'[p].numChildren = pcb[p].numChildren
          /\ pcb'[p].exitQ = pcb[p].exitQ
      BY <3>1
    <3>4. pcb'[p].isWaiting = P[p].isWaiting
      BY <3>1
    <3>5. IsAsleep(pcb'[p]) <=> IsAsleep(P[p])
      BY <3>1
    <3> QED BY <2>3, <3>2, <3>3, <3>4, <3>5
  <2> QED BY <2>2, <2>3
<1>7. TypeOK'
  BY <1>1, <1>4, <1>6 DEF TypeOK
<1>8. NoLostProcess' /\ ParentAlive' /\ ChildCountExact' /\ Auxiliary'
  <2>1. pcb'[IDLE_PID].savedContext \in {InUserMode, Returning}
    BY <1>2, <1>6 DEF Auxiliary
  <2> QED BY <1>1, <1>2, <1>3, <1>4, <1>6, <2>1, QuietStep
<1>9. OneInUserMode'
  BY <1>4, <1>6, UserModeFacts DEF OneInUserMode
<1>10. WaitIsWokenByReport'
  BY <1>1, <1>2, <1>6 DEF WaitIsWokenByReport
<1>11. ExitingIsFreedFirst'
  BY <1>3 DEF ExitingIsFreedFirst
<1>12. RunnerAwake'
  <2>1. Head(queue') = queue'[1] /\ 1 \in 1 .. Len(queue')
    BY <1>1, HeadTailProperties
  <2>2. Head(queue') \in Listed'
    BY <2>1 DEF Listed
  <2>3. ~isIdleRunning' => ~IsAsleep(P[Head(queue')])
    BY <1>1, ReadyIsAwake
  <2> QED BY <1>1, <1>2, <1>6, <2>2, <2>3 DEF RunnerAwake
<1>13. ReportsInOrder'
  <2> SUFFICES ASSUME NEW p \in Listed
               PROVE  exitLog'[p] = waitLog'[p] \o pcb'[p].exitQ
    BY <1>1 DEF ReportsInOrder
  <2>1. pcb'[p].exitQ = pcb[p].exitQ /\ exitLog' = exitLog /\ waitLog' = waitLog
    BY <1>2, <1>6
  <2> QED BY <2>1 DEF ReportsInOrder
<1> QED BY <1>7, <1>8, <1>9, <1>10, <1>11, <1>12, <1>13

-----------------------------------------------------------------------------
(* Every step preserves the invariant.                                     *)

\* A tick's countdown keeps delays natural numbers and changes nothing else in
\* a PCB; nobody becomes blocked by it.
LEMMA DecreaseDelayFacts ==
  ASSUME TypeOK
  PROVE  /\ DecreaseDelay \in [DOMAIN pcb -> PCB]
         /\ \A p \in DOMAIN pcb :
              /\ DecreaseDelay[p].parentPid = pcb[p].parentPid
              /\ DecreaseDelay[p].numChildren = pcb[p].numChildren
              /\ DecreaseDelay[p].exitQ = pcb[p].exitQ
              /\ DecreaseDelay[p].savedContext = pcb[p].savedContext
              /\ DecreaseDelay[p].isWaiting = pcb[p].isWaiting
              /\ IsBlocked(DecreaseDelay[p]) => IsBlocked(pcb[p])
              /\ IsAsleep(DecreaseDelay[p]) => IsAsleep(pcb[p])
<1>1. \A p \in DOMAIN pcb : pcb[p] \in PCB
  BY DEF TypeOK
<1>2. \A p \in DOMAIN pcb :
        DecreaseDelay[p] = IF p \in Listed /\ pcb[p].delay > 0
                           THEN [pcb[p] EXCEPT !.delay = @ - 1] ELSE pcb[p]
  BY DEF DecreaseDelay
<1>3. \A p \in DOMAIN pcb :
        /\ DecreaseDelay[p] \in PCB
        /\ DecreaseDelay[p].parentPid = pcb[p].parentPid
        /\ DecreaseDelay[p].numChildren = pcb[p].numChildren
        /\ DecreaseDelay[p].exitQ = pcb[p].exitQ
        /\ DecreaseDelay[p].savedContext = pcb[p].savedContext
        /\ DecreaseDelay[p].isWaiting = pcb[p].isWaiting
        /\ IsBlocked(DecreaseDelay[p]) => IsBlocked(pcb[p])
        /\ IsAsleep(DecreaseDelay[p]) => IsAsleep(pcb[p])
  <2> SUFFICES ASSUME NEW p \in DOMAIN pcb
               PROVE  /\ DecreaseDelay[p] \in PCB
                      /\ DecreaseDelay[p].parentPid = pcb[p].parentPid
                      /\ DecreaseDelay[p].numChildren = pcb[p].numChildren
                      /\ DecreaseDelay[p].exitQ = pcb[p].exitQ
                      /\ DecreaseDelay[p].savedContext = pcb[p].savedContext
                      /\ DecreaseDelay[p].isWaiting = pcb[p].isWaiting
                      /\ IsBlocked(DecreaseDelay[p]) => IsBlocked(pcb[p])
                      /\ IsAsleep(DecreaseDelay[p]) => IsAsleep(pcb[p])
    OBVIOUS
  <2> DEFINE r == pcb[p]
             s == [r EXCEPT !.delay = @ - 1]
  <2>1. r \in PCB
    BY <1>1
  <2>2. CASE p \in Listed /\ pcb[p].delay > 0
    <3>1. DecreaseDelay[p] = s
      BY <1>2, <2>2
    <3>2. /\ s \in PCB
          /\ s.parentPid = r.parentPid
          /\ s.numChildren = r.numChildren
          /\ s.exitQ = r.exitQ
          /\ s.savedContext = r.savedContext
          /\ s.isWaiting = r.isWaiting
      BY <2>1, <2>2 DEF PCB
    <3>3. IsBlocked(r) /\ IsAsleep(r)
      BY <2>2 DEF IsBlocked, IsAsleep
    <3> QED BY <3>1, <3>2, <3>3
  <2>3. CASE ~(p \in Listed /\ pcb[p].delay > 0)
    BY <1>2, <2>1, <2>3
  <2> QED BY <2>2, <2>3
<1> QED BY <1>3 DEF DecreaseDelay

\* An interrupt that changed the PCBs to P without touching the family
\* relations or putting anybody to sleep, and returns to the running process.
LEMMA InterruptStep ==
  ASSUME IInv, UserMode,
         NEW P \in [DOMAIN pcb -> PCB],
         \A p \in DOMAIN pcb : /\ P[p].parentPid = pcb[p].parentPid
                               /\ P[p].numChildren = pcb[p].numChildren
                               /\ P[p].exitQ = pcb[p].exitQ
                               /\ P[p].savedContext = pcb[p].savedContext
                               /\ P[p].isWaiting = pcb[p].isWaiting
                               /\ IsAsleep(P[p]) => IsAsleep(pcb[p]),
         pcb' = P,
         lastClockTickPID' \in Pids \cup {-1},
         UNCHANGED <<queue, isIdleRunning, nextPid, processExitingNow, machine,
                     forked, exitLog, waitLog>>
  PROVE  IInv'
<1> USE DEF IInv
<1>1. /\ processExitingNow = NULL /\ DOMAIN pcb = {IDLE_PID} \cup Listed
      /\ machine = "running"
  BY UserModeFacts DEF UserMode
<1>2. Listed' = Listed /\ Current' = Current /\ Listed \subseteq DOMAIN pcb
      /\ IDLE_PID \in DOMAIN pcb /\ Current \in DOMAIN pcb
      /\ Head(queue) \in Listed
  BY SMTT(30), CurrentIsKnown DEF Listed, Current, TypeOK
<1>3. DOMAIN pcb' = DOMAIN pcb
  OBVIOUS
<1>4. \A p \in DOMAIN pcb :
        /\ pcb'[p] \in PCB
        /\ pcb'[p].parentPid = pcb[p].parentPid
        /\ pcb'[p].numChildren = pcb[p].numChildren
        /\ pcb'[p].exitQ = pcb[p].exitQ
        /\ pcb'[p].savedContext = pcb[p].savedContext
        /\ pcb'[p].isWaiting = pcb[p].isWaiting
        /\ IsAsleep(pcb'[p]) => IsAsleep(pcb[p])
  OBVIOUS
<1>5. TypeOK'
  BY <1>3 DEF TypeOK
<1>6. NoLostProcess' /\ ParentAlive' /\ ChildCountExact' /\ Auxiliary'
  <2>1. Distinct(queue')
    BY DEF NoLostProcess, Distinct
  <2>2. pcb'[IDLE_PID].savedContext \in {InUserMode, Returning}
    BY <1>2, <1>4 DEF Auxiliary
  <2> QED BY <1>1, <1>2, <1>3, <1>4, <2>1, <2>2, QuietStep
<1>7. OneInUserMode'
  BY <1>2, <1>3, <1>4 DEF OneInUserMode
<1>8. WaitIsWokenByReport'
  BY <1>2, <1>4 DEF WaitIsWokenByReport
<1>9. ExitingIsFreedFirst'
  BY <1>1 DEF ExitingIsFreedFirst
<1>10. RunnerAwake'
  BY <1>2, <1>4 DEF RunnerAwake
<1>11. ReportsInOrder'
  BY <1>2, <1>4 DEF ReportsInOrder
<1> QED BY <1>5, <1>6, <1>7, <1>8, <1>9, <1>10, <1>11

\* The clock interrupt, with or without a change of process, keeps the
\* invariant.
LEMMA TickStep == IInv /\ Tick => IInv'
<1> SUFFICES ASSUME IInv, Tick PROVE IInv'
  OBVIOUS
<1> DEFINE P == DecreaseDelay
<1>1. UserMode /\ machine = "running" /\ lastClockTickPID' = Current
      /\ UNCHANGED <<nextPid, processExitingNow, machine, forked, exitLog, waitLog>>
  BY DEF Tick, ClockTick, histVars, UserMode
<1>2. lastClockTickPID' \in Pids \cup {-1}
  BY <1>1, CurrentIsKnown DEF IInv, TypeOK
<1>3. Returning \in Continuations /\ Returning # InUserMode /\ Returning.at # "wait"
  BY DEF Returning, Continuations, InUserMode
<1>4. /\ P \in [DOMAIN pcb -> PCB]
      /\ \A p \in DOMAIN pcb :
           /\ P[p].parentPid = pcb[p].parentPid
           /\ P[p].numChildren = pcb[p].numChildren
           /\ P[p].exitQ = pcb[p].exitQ
           /\ P[p].savedContext = pcb[p].savedContext
           /\ P[p].isWaiting = pcb[p].isWaiting
           /\ IsAsleep(P[p]) => IsAsleep(pcb[p])
  BY DecreaseDelayFacts DEF IInv
<1> HIDE DEF P
<1>5. CASE Schedule(P, Returning)
  BY <1>1, <1>2, <1>3, <1>4, <1>5, ScheduleStep
<1>6. CASE pcb' = P /\ UNCHANGED <<queue, isIdleRunning>>
  BY <1>1, <1>2, <1>4, <1>6, InterruptStep
<1> QED BY <1>5, <1>6 DEF Tick, ClockTick, P

\* Blocking in Wait keeps the invariant: there is a live child to wake the
\* caller.
LEMMA WaitBlocksStep == IInv /\ WaitBlocks => IInv'
<1> SUFFICES ASSUME IInv, WaitBlocks PROVE IInv'
  OBVIOUS
<1> USE DEF IInv
<1> DEFINE P == [pcb EXCEPT ![Current].isWaiting = TRUE]
           k == [at |-> "wait", arg |-> 0]
<1>1. /\ UserMode /\ Current # IDLE_PID /\ machine = "running"
      /\ pcb[Current].numChildren # 0 /\ pcb[Current].exitQ = << >>
      /\ Schedule(P, k)
      /\ UNCHANGED <<nextPid, processExitingNow, machine, forked, exitLog, waitLog>>
  BY DEF WaitBlocks, SystemCall, UserMode
<1>2. lastClockTickPID' \in Pids \cup {-1}
  BY DEF WaitBlocks, TypeOK
<1>3. k \in Continuations /\ k # InUserMode
  BY DEF Continuations, InUserMode
<1>4. Current \in Listed /\ Listed \subseteq DOMAIN pcb /\ Listed \subseteq UserPids
  BY <1>1, CurrentIsKnown
<1>5. pcb[Current].numChildren > 0
  <2>1. IsFiniteSet({c \in Listed : pcb[c].parentPid = Current})
    <3>1. IsFiniteSet(UserPids)
      BY SchedulingAssumption, FS_Interval DEF UserPids
    <3> QED BY <1>4, <3>1, FS_Subset
  <2>2. pcb[Current].numChildren \in Nat
    BY <1>4, <2>1, FS_CardinalityType DEF ChildCountExact
  <2> QED BY <1>1, <2>2
<1>6. P \in [DOMAIN pcb -> PCB]
  <2>1. pcb \in [DOMAIN pcb -> PCB]
    BY DEF TypeOK
  <2>2. [pcb[Current] EXCEPT !.isWaiting = TRUE] \in PCB
    <3>1. pcb[Current] \in PCB
      BY <1>4, <2>1
    <3> QED BY <3>1 DEF PCB
  <2> QED BY <2>1, <2>2
<1>7. \A p \in DOMAIN pcb : /\ P[p].parentPid = pcb[p].parentPid
                            /\ P[p].numChildren = pcb[p].numChildren
                            /\ P[p].exitQ = pcb[p].exitQ
                            /\ P[p].savedContext = pcb[p].savedContext
                            /\ p # Current => P[p].isWaiting = pcb[p].isWaiting
  BY DEF TypeOK, PCB
<1>8. P[Current].isWaiting
  BY <1>4 DEF TypeOK, PCB
<1> QED BY <1>1, <1>2, <1>3, <1>4, <1>5, <1>6, <1>7, <1>8, ScheduleStep

\* Delay keeps the invariant.
LEMMA DelayStep ==
  ASSUME IInv, NEW ticks \in -1 .. MaxDelay, Delay(ticks)
  PROVE  IInv'
<1> USE DEF IInv
<1> DEFINE P == [pcb EXCEPT ![Head(queue)].delay = ticks]
<1>1. /\ UserMode /\ Current # IDLE_PID /\ machine = "running" /\ ticks > 0
      /\ Schedule(P, Returning)
      /\ UNCHANGED <<nextPid, processExitingNow, machine, forked, exitLog, waitLog>>
  BY DEF Delay, SystemCall, UserMode
<1>2. lastClockTickPID' \in Pids \cup {-1}
  BY DEF Delay, TypeOK
<1>3. Returning \in Continuations /\ Returning # InUserMode /\ Returning.at # "wait"
  BY DEF Returning, Continuations, InUserMode
<1>4. Current = Head(queue) /\ Current \in Listed /\ Listed \subseteq DOMAIN pcb
  BY <1>1, CurrentIsKnown
<1>5. ticks \in Nat
  BY <1>1, ProcessControlAssumption
<1>6. P \in [DOMAIN pcb -> PCB]
  <2>1. pcb \in [DOMAIN pcb -> PCB]
    BY DEF TypeOK
  <2>2. [pcb[Current] EXCEPT !.delay = ticks] \in PCB
    <3>1. pcb[Current] \in PCB
      BY <1>4, <2>1
    <3> QED BY <1>5, <3>1 DEF PCB
  <2> QED BY <1>4, <2>1, <2>2
<1>7. \A p \in DOMAIN pcb : /\ P[p].parentPid = pcb[p].parentPid
                            /\ P[p].numChildren = pcb[p].numChildren
                            /\ P[p].exitQ = pcb[p].exitQ
                            /\ P[p].savedContext = pcb[p].savedContext
                            /\ P[p].isWaiting = pcb[p].isWaiting
  BY DEF TypeOK, PCB
<1> QED BY <1>1, <1>2, <1>3, <1>6, <1>7, ScheduleStep

\* A negative delay changes nothing; 0 overwrites the 0 of a process that runs.
LEMMA DelayReturnsStep ==
  ASSUME IInv, NEW ticks \in -1 .. MaxDelay, DelayReturns(ticks)
  PROVE  UNCHANGED procVars
<1> USE DEF IInv
<1>1. Current = Head(queue) /\ Current \in DOMAIN pcb /\ ~isIdleRunning
  BY CurrentIsKnown DEF DelayReturns, SystemCall
<1>2. pcb[Current] \in PCB /\ ~(pcb[Current].delay > 0)
  BY <1>1 DEF RunnerAwake, IsAsleep, TypeOK
<1>3. pcb[Current].delay = 0
  BY <1>2 DEF PCB
<1>4. ticks = 0 => [pcb EXCEPT ![Current].delay = ticks] = pcb
  BY <1>1, <1>2, <1>3 DEF TypeOK, PCB
<1>5. pcb' = pcb
  <2>1. CASE ticks < 0
    BY <2>1 DEF DelayReturns
  <2>2. CASE ticks = 0
    BY <1>1, <1>4, <2>2 DEF DelayReturns
  <2> QED BY <2>1, <2>2 DEF DelayReturns
<1> QED BY <1>5 DEF DelayReturns, procVars

\* The running process leaves the kernel after a handler that changed the exit
\* queue of nobody but itself; what the exited process left behind is freed.
LEMMA BackToUserStep ==
  ASSUME IInv, machine = "running",
         NEW P \in [DOMAIN pcb -> PCB],
         \A p \in DOMAIN pcb : /\ P[p].parentPid = pcb[p].parentPid
                               /\ P[p].numChildren = pcb[p].numChildren
                               /\ P[p].isWaiting = pcb[p].isWaiting
                               /\ p # Current => P[p] = pcb[p],
         IsAsleep(P[Current]) => IsAsleep(pcb[Current]),
         BackToUser(P),
         UNCHANGED <<queue, isIdleRunning, lastClockTickPID, nextPid, machine>>,
         UNCHANGED exitLog,
         forked' \in [UserPids -> SUBSET UserPids],
         waitLog' \in [UserPids -> Seq(ExitReport)],
         \A p \in UserPids : p # Current => waitLog'[p] = waitLog[p],
         Current \in Listed => exitLog[Current] = waitLog'[Current] \o P[Current].exitQ
  PROVE  IInv'
<1> USE DEF IInv
<1>1. /\ Current \in DOMAIN pcb /\ IDLE_PID \in DOMAIN pcb
      /\ Listed \subseteq DOMAIN pcb /\ Listed \subseteq UserPids
      /\ IDLE_PID \notin Listed /\ Head(queue) \in Listed
      /\ Current # IDLE_PID => Current \in Listed
  BY CurrentIsKnown DEF TypeOK
<1>2. Listed' = Listed /\ Current' = Current
  BY DEF Listed, Current
<1>3. NULL \notin DOMAIN pcb /\ processExitingNow # IDLE_PID
  <2>1. NULL \notin Pids /\ NULL # IDLE_PID /\ IDLE_PID \notin UserPids
    BY DEF Pids, UserPids, NULL, IDLE_PID
  <2> QED BY <2>1 DEF TypeOK
<1>4. /\ DOMAIN pcb' = DOMAIN pcb \ {processExitingNow}
      /\ \A p \in DOMAIN pcb' :
           pcb'[p] = IF p = Current THEN [P[p] EXCEPT !.savedContext = InUserMode]
                                    ELSE P[p]
      /\ processExitingNow' = NULL
  BY DEF BackToUser, FreeExiting
<1>5. DOMAIN pcb' = {IDLE_PID} \cup Listed
  BY <1>1, <1>3, <1>4 DEF NoLostProcess
<1>6. InUserMode \in Continuations
  BY DEF InUserMode, Continuations
<1>7. \A p \in {IDLE_PID} \cup Listed :
        /\ pcb'[p] \in PCB
        /\ pcb'[p].parentPid = pcb[p].parentPid
        /\ pcb'[p].numChildren = pcb[p].numChildren
        /\ pcb'[p].isWaiting = pcb[p].isWaiting
        /\ p # Current => pcb'[p] = pcb[p]
        /\ p = Current => /\ pcb'[p].savedContext = InUserMode
                          /\ pcb'[p].exitQ = P[p].exitQ
                          /\ IsAsleep(pcb'[p]) => IsAsleep(pcb[p])
  <2> TAKE p \in {IDLE_PID} \cup Listed
  <2>1. p \in DOMAIN pcb /\ P[p] \in PCB
    BY <1>1
  <2>2. CASE p = Current
    <3>1. pcb'[p] = [P[p] EXCEPT !.savedContext = InUserMode]
      BY <1>4, <1>5, <2>2
    <3> QED BY <1>6, <2>1, <2>2, <3>1, SuspendedPCB
  <2>3. CASE p # Current
    BY <1>4, <1>5, <2>1, <2>3
  <2> QED BY <2>2, <2>3
<1>8. TypeOK'
  <2>1. pcb' \in [DOMAIN pcb' -> PCB]
    <3>1. pcb' = [p \in DOMAIN pcb' |-> pcb'[p]]
      BY DEF BackToUser, FreeExiting
    <3> QED BY <1>5, <1>7, <3>1
  <2>2. IDLE_PID \in DOMAIN pcb' /\ DOMAIN pcb' \subseteq Pids
    BY <1>4, <1>5 DEF TypeOK
  <2> QED BY <1>4, <2>1, <2>2 DEF TypeOK
<1>9. NoLostProcess' /\ ParentAlive' /\ ChildCountExact' /\ Auxiliary'
  <2>1. Distinct(queue')
    BY DEF NoLostProcess, Distinct
  <2>2. pcb'[IDLE_PID].savedContext \in {InUserMode, Returning}
    BY <1>1, <1>7 DEF Auxiliary
  <2>3. Current < nextPid
    BY <1>1 DEF Auxiliary
  <2>4. \A p \in UserPids : p >= nextPid => p # Current
    BY <1>1, <2>3 DEF UserPids, TypeOK, Pids, IDLE_PID
  <2> QED BY <1>2, <1>4, <1>5, <1>7, <2>1, <2>2, <2>4, QuietStep
<1>10. OneInUserMode'
  <2> SUFFICES ASSUME NEW p \in DOMAIN pcb' \ {Current}
               PROVE  pcb'[p].savedContext # InUserMode
    BY <1>2 DEF OneInUserMode
  <2>1. p \in DOMAIN pcb /\ p # processExitingNow /\ pcb'[p] = pcb[p]
    BY <1>4, <1>5, <1>7
  <2> QED BY <2>1 DEF OneInUserMode
<1>11. WaitIsWokenByReport'
  <2> SUFFICES ASSUME NEW p \in Listed, pcb'[p].savedContext.at = "wait"
               PROVE  IF pcb'[p].isWaiting
                      THEN pcb'[p].exitQ = << >> /\ pcb'[p].numChildren > 0
                      ELSE pcb'[p].exitQ # << >>
    BY <1>2 DEF WaitIsWokenByReport
  <2>1. p # Current /\ pcb'[p] = pcb[p]
    BY <1>7 DEF InUserMode
  <2> QED BY <2>1 DEF WaitIsWokenByReport
<1>12. ReportsInOrder'
  <2> SUFFICES ASSUME NEW p \in Listed
               PROVE  exitLog[p] = waitLog'[p] \o pcb'[p].exitQ
    BY <1>2 DEF ReportsInOrder
  <2>1. CASE p = Current
    BY <1>7, <2>1
  <2>2. CASE p # Current
    BY <1>1, <1>7, <2>2 DEF ReportsInOrder
  <2> QED BY <2>1, <2>2
<1>13. ExitingIsFreedFirst'
  BY <1>4 DEF ExitingIsFreedFirst
<1>14. RunnerAwake'
  <2>1. ~isIdleRunning => Current = Head(queue)
    BY CurrentIsKnown
  <2> QED BY <1>1, <1>7, <2>1 DEF RunnerAwake
<1> QED BY <1>8, <1>9, <1>10, <1>11, <1>12, <1>13, <1>14

\* A process switched back to with nothing left to do keeps the invariant.
LEMMA ReturnFromTrapStep == IInv /\ ReturnFromTrap /\ UNCHANGED histVars => IInv'
<1> SUFFICES ASSUME IInv, ReturnFromTrap, UNCHANGED histVars PROVE IInv'
  OBVIOUS
<1>1. /\ machine = "running" /\ BackToUser(pcb)
      /\ UNCHANGED <<queue, isIdleRunning, lastClockTickPID, nextPid, machine>>
      /\ UNCHANGED <<forked, exitLog, waitLog>>
  BY DEF ReturnFromTrap, KernelMode, histVars
<1>2. pcb \in [DOMAIN pcb -> PCB] /\ forked' \in [UserPids -> SUBSET UserPids]
      /\ waitLog' \in [UserPids -> Seq(ExitReport)]
  BY <1>1 DEF IInv, TypeOK
<1>3. Current \in Listed => exitLog[Current] = waitLog'[Current] \o pcb[Current].exitQ
  BY <1>1 DEF IInv, ReportsInOrder
<1> QED BY <1>1, <1>2, <1>3, BackToUserStep

\* The tail of fork, in parent or child, keeps the invariant.
LEMMA ForkReturnsStep == IInv /\ ForkReturns => IInv'
<1> SUFFICES ASSUME IInv, ForkReturns PROVE IInv'
  OBVIOUS
<1> DEFINE child == pcb[Current].savedContext.arg
<1>1. /\ machine = "running" /\ pcb[Current].savedContext.at = "fork"
      /\ BackToUser(pcb)
      /\ UNCHANGED <<queue, isIdleRunning, lastClockTickPID, nextPid, machine>>
      /\ UNCHANGED <<exitLog, waitLog>>
      /\ forked' = IF Current = child THEN forked
                   ELSE [forked EXCEPT ![Current] = @ \cup {child}]
  BY DEF ForkReturns, KernelMode
<1>2. pcb \in [DOMAIN pcb -> PCB] /\ waitLog' \in [UserPids -> Seq(ExitReport)]
  BY <1>1 DEF IInv, TypeOK
<1>3. Current \in Listed => exitLog[Current] = waitLog'[Current] \o pcb[Current].exitQ
  BY <1>1 DEF IInv, ReportsInOrder
<1>4. child \in UserPids
  <2>1. pcb[Current].savedContext \in Continuations
    BY <1>2, CurrentIsKnown DEF IInv, PCB
  <2> QED BY <1>1, <2>1 DEF Continuations
<1>5. forked' \in [UserPids -> SUBSET UserPids]
  BY <1>1, <1>4 DEF IInv, TypeOK
<1> QED BY <1>1, <1>2, <1>3, <1>5, BackToUserStep

\* Taking the head off a report queue moves the boundary between what Wait has
\* returned and what it has still to return.
LEMMA MoveBoundary ==
  ASSUME NEW S, NEW a \in Seq(S), NEW b \in Seq(S), b # << >>
  PROVE  /\ a \o b = Append(a, Head(b)) \o Tail(b)
         /\ Append(a, Head(b)) \in Seq(S)
         /\ Tail(b) \in Seq(S)
<1> DEFINE x == a \o b
           c == Append(a, Head(b))
           d == Tail(b)
           y == c \o d
<1>1. /\ Len(a) \in Nat /\ Len(b) \in Nat /\ Len(b) > 0
      /\ Head(b) = b[1] /\ Head(b) \in S
      /\ d \in Seq(S) /\ Len(d) = Len(b) - 1
      /\ \A j \in 1 .. Len(b) - 1 : d[j] = b[j + 1]
  BY HeadTailProperties, EmptySeq, LenProperties
<1>2. /\ c \in Seq(S) /\ Len(c) = Len(a) + 1
      /\ \A j \in 1 .. Len(a) : c[j] = a[j]
      /\ c[Len(a) + 1] = b[1]
  BY <1>1, AppendProperties
<1> HIDE DEF c, d
<1>3. /\ x \in Seq(S) /\ Len(x) = Len(a) + Len(b)
      /\ \A j \in 1 .. Len(a) + Len(b) :
           x[j] = IF j <= Len(a) THEN a[j] ELSE b[j - Len(a)]
  BY ConcatProperties
<1>4. /\ y \in Seq(S) /\ Len(y) = Len(c) + Len(d)
      /\ \A j \in 1 .. Len(c) + Len(d) :
           y[j] = IF j <= Len(c) THEN c[j] ELSE d[j - Len(c)]
  BY <1>1, <1>2, ConcatProperties
<1>5. Len(x) = Len(y) /\ Len(x) \in Nat
  BY <1>1, <1>2, <1>3, <1>4
<1>6. \A j \in 1 .. Len(x) : x[j] = y[j]
  <2> TAKE j \in 1 .. Len(x)
  <2>0. j \in 1 .. Len(a) + Len(b) /\ j \in 1 .. Len(c) + Len(d)
    BY <1>3, <1>4, <1>5
  <2>1. CASE j <= Len(a)
    <3>1. x[j] = a[j]
      BY <1>3, <2>0, <2>1
    <3>2. y[j] = c[j] /\ c[j] = a[j]
      BY <1>1, <1>2, <1>4, <2>0, <2>1
    <3> QED BY <3>1, <3>2
  <2>2. CASE j = Len(a) + 1
    <3>1. x[j] = b[j - Len(a)] /\ j - Len(a) = 1
      BY <1>1, <1>3, <2>0, <2>2
    <3>2. y[j] = c[j]
      BY <1>2, <1>4, <2>0, <2>2
    <3> QED BY <1>2, <2>2, <3>1, <3>2
  <2>3. CASE j > Len(a) + 1
    <3>1. x[j] = b[j - Len(a)]
      BY <1>1, <1>3, <2>0, <2>3
    <3>2. y[j] = d[j - (Len(a) + 1)]
      BY <1>1, <1>2, <1>4, <2>0, <2>3
    <3>3. d[j - (Len(a) + 1)] = b[j - (Len(a) + 1) + 1]
      BY <1>1, <1>3, <2>0, <2>3
    <3>4. j - (Len(a) + 1) + 1 = j - Len(a)
      BY <1>1, <2>0
    <3> QED BY <3>1, <3>2, <3>3, <3>4
  <2> QED BY SMTT(30), <1>1, <2>0, <2>1, <2>2, <2>3
<1>7. x = y
  BY <1>3, <1>4, <1>5, <1>6, SeqEqual
<1> QED BY <1>1, <1>2, <1>7 DEF c, d

\* Reap by a process that has something to collect.
LEMMA ReapStep ==
  ASSUME IInv, machine = "running", Current # IDLE_PID,
         pcb[Current].exitQ # << >>, Reap
  PROVE  IInv'
<1> USE DEF IInv
<1> DEFINE P == [pcb EXCEPT ![Current].exitQ = Tail(@)]
           self == Current
<1>1. /\ BackToUser(P)
      /\ waitLog' = [waitLog EXCEPT ![self] = Append(@, Head(pcb[self].exitQ))]
      /\ UNCHANGED <<queue, isIdleRunning, lastClockTickPID, nextPid, machine>>
      /\ UNCHANGED <<forked, exitLog>>
  BY DEF Reap
<1>2. self \in DOMAIN pcb /\ self \in Listed /\ self \in UserPids
  BY CurrentIsKnown
<1>3. pcb[self] \in PCB
  BY <1>2 DEF TypeOK
<1>4. pcb[self].exitQ \in Seq(ExitReport) /\ waitLog[self] \in Seq(ExitReport)
  BY <1>2, <1>3 DEF PCB, TypeOK
<1>5. /\ Tail(pcb[self].exitQ) \in Seq(ExitReport)
      /\ Append(waitLog[self], Head(pcb[self].exitQ)) \in Seq(ExitReport)
      /\ waitLog[self] \o pcb[self].exitQ
           = Append(waitLog[self], Head(pcb[self].exitQ)) \o Tail(pcb[self].exitQ)
  BY <1>4, MoveBoundary
<1>6. /\ P[self] = [pcb[self] EXCEPT !.exitQ = Tail(pcb[self].exitQ)]
      /\ \A p \in DOMAIN pcb : p # self => P[p] = pcb[p]
      /\ DOMAIN P = DOMAIN pcb
  BY <1>2 DEF TypeOK
<1>7. /\ P[self] \in PCB
      /\ P[self].parentPid = pcb[self].parentPid
      /\ P[self].numChildren = pcb[self].numChildren
      /\ P[self].isWaiting = pcb[self].isWaiting
      /\ P[self].exitQ = Tail(pcb[self].exitQ)
      /\ P[self].delay = pcb[self].delay
      /\ P[self].isWriting = pcb[self].isWriting
      /\ P[self].isWaitReading = pcb[self].isWaitReading
      /\ P[self].isWaitWriting = pcb[self].isWaitWriting
  <2> DEFINE r == pcb[self]
             newQ == Tail(pcb[self].exitQ)
  <2>1. P[self] = [r EXCEPT !.exitQ = newQ] /\ r \in PCB /\ newQ \in Seq(ExitReport)
    BY <1>3, <1>5, <1>6
  <2> HIDE DEF P, r, newQ
  <2>2. P[self] \in PCB
    BY <2>1 DEF PCB
  <2>3. /\ P[self].parentPid = r.parentPid
        /\ P[self].numChildren = r.numChildren
        /\ P[self].isWaiting = r.isWaiting
        /\ P[self].exitQ = newQ
        /\ P[self].delay = r.delay
        /\ P[self].isWriting = r.isWriting
        /\ P[self].isWaitReading = r.isWaitReading
        /\ P[self].isWaitWriting = r.isWaitWriting
    BY <2>1 DEF PCB
  <2> QED BY <2>2, <2>3 DEF r, newQ
<1> HIDE DEF P
<1>8. IsAsleep(P[self]) => IsAsleep(pcb[self])
  BY <1>7, Zenon DEF IsAsleep
<1>9. P \in [DOMAIN pcb -> PCB]
  <2>1. \A p \in DOMAIN pcb : P[p] \in PCB
    BY <1>6, <1>7 DEF TypeOK
  <2>2. P = [p \in DOMAIN pcb |-> P[p]]
    BY DEF P, TypeOK
  <2> QED BY <2>1, <2>2
<1>10. waitLog' \in [UserPids -> Seq(ExitReport)]
  BY <1>1, <1>2, <1>5 DEF TypeOK
<1>11. forked' \in [UserPids -> SUBSET UserPids]
  BY <1>1 DEF TypeOK
<1>12. \A p \in UserPids : p # self => waitLog'[p] = waitLog[p]
  BY <1>1 DEF TypeOK
<1>13. exitLog[self] = waitLog'[self] \o P[self].exitQ
  <2>1. waitLog'[self] = Append(waitLog[self], Head(pcb[self].exitQ))
    BY <1>1, <1>2 DEF TypeOK
  <2> QED BY <1>2, <1>5, <1>7, <2>1 DEF ReportsInOrder
<1>14. \A p \in DOMAIN pcb : /\ P[p].parentPid = pcb[p].parentPid
                             /\ P[p].numChildren = pcb[p].numChildren
                             /\ P[p].isWaiting = pcb[p].isWaiting
                             /\ p # self => P[p] = pcb[p]
  BY <1>6, <1>7
<1> QED BY <1>1, <1>8, <1>9, <1>10, <1>11, <1>12, <1>13, <1>14, BackToUserStep

\* Wait with a report at hand keeps the invariant.
LEMMA WaitCollectsStep == IInv /\ WaitCollects => IInv'
BY ReapStep DEF WaitCollects, SystemCall, UserMode

\* Who got the CPU back inside Wait finds a report.
LEMMA WaiterFindsReport ==
  ASSUME IInv, KernelMode, pcb[Current].savedContext.at = "wait"
  PROVE  /\ Current \in Listed /\ Current # IDLE_PID
         /\ pcb[Current].exitQ # << >>
<1>1. Current # IDLE_PID
  BY DEF IInv, Auxiliary, InUserMode, Returning
<1>2. Current = Head(queue) /\ Current \in Listed /\ ~isIdleRunning
  BY <1>1, CurrentIsKnown DEF IInv
<1>3. ~pcb[Current].isWaiting
  BY <1>2 DEF IInv, RunnerAwake, IsAsleep
<1>4. pcb[Current].exitQ # << >>
  BY <1>2, <1>3 DEF IInv, WaitIsWokenByReport
<1> QED BY <1>1, <1>2, <1>4

\* Resuming in Wait keeps the invariant.
LEMMA WaitResumesStep == IInv /\ WaitResumes => IInv'
<1> SUFFICES ASSUME IInv, WaitResumes PROVE IInv'
  OBVIOUS
<1>1. machine = "running" /\ Reap
  BY DEF WaitResumes, KernelMode
<1>2. pcb[Current].exitQ # << >> /\ Current # IDLE_PID
  BY WaiterFindsReport DEF WaitResumes
<1> QED BY <1>1, <1>2, ReapStep

\* Fork keeps the invariant: the new pid is fresh, the caller has one child
\* more and goes on at the same point as the child.
LEMMA ForkStep == IInv /\ Fork => IInv'
<1> SUFFICES ASSUME IInv, Fork PROVE IInv'
  OBVIOUS
<1> USE DEF IInv
<1> DEFINE self == Current
           c == nextPid
           inFork == [at |-> "fork", arg |-> c]
           parent == [pcb[self] EXCEPT !.numChildren = @ + 1, !.savedContext = inFork]
<1>1. /\ UserMode /\ self # IDLE_PID /\ c <= MaxPid
      /\ pcb' = [p \in DOMAIN pcb \cup {c} |->
                   CASE p = c -> NewPCB(self, inFork)
                     [] p = self -> parent
                     [] OTHER -> pcb[p]]
      /\ queue' = <<c>> \o queue
      /\ nextPid' = c + 1
      /\ UNCHANGED <<isIdleRunning, lastClockTickPID, processExitingNow, machine>>
      /\ UNCHANGED <<forked, exitLog, waitLog>>
  BY DEF Fork, SystemCall
<1>2. /\ processExitingNow = NULL /\ DOMAIN pcb = {IDLE_PID} \cup Listed
      /\ machine = "running"
      /\ \A p \in DOMAIN pcb : p # self => pcb[p].savedContext # InUserMode
  BY <1>1, UserModeFacts DEF UserMode
<1>3. /\ self \in Listed /\ self \in UserPids /\ ~isIdleRunning
      /\ Listed \subseteq DOMAIN pcb /\ Listed \subseteq UserPids
      /\ IDLE_PID \notin UserPids /\ IDLE_PID \in DOMAIN pcb
  BY <1>1, CurrentIsKnown DEF TypeOK
<1>4. c \in UserPids /\ c \in Nat /\ c \notin DOMAIN pcb /\ c \notin Listed /\ c # self
  <2>1. c \in Nat /\ c >= 1 /\ c \in UserPids
    BY <1>1, SchedulingAssumption DEF TypeOK, UserPids
  <2>2. c \notin DOMAIN pcb
    BY <2>1 DEF Auxiliary
  <2> QED BY <1>3, <2>1, <2>2
<1>5. queue \in Seq(UserPids) /\ Distinct(queue) /\ Listed = Elements(queue)
      /\ Listed' = Elements(queue')
  BY ListedIsElements DEF TypeOK, NoLostProcess, Distinct
<1>6. /\ queue' \in Seq(UserPids) /\ queue' # << >>
      /\ Listed' = Listed \cup {c} /\ Distinct(queue') /\ Head(queue') = c
  BY <1>1, <1>4, <1>5, ConsElements
<1>7. /\ DOMAIN pcb' = DOMAIN pcb \cup {c}
      /\ pcb'[c] = NewPCB(self, inFork)
      /\ pcb'[self] = parent
      /\ \A p \in DOMAIN pcb : p # self => pcb'[p] = pcb[p]
  <2>1. \A p \in DOMAIN pcb \cup {c} :
          pcb'[p] = CASE p = c -> NewPCB(self, inFork)
                      [] p = self -> parent
                      [] OTHER -> pcb[p]
    BY <1>1
  <2> HIDE DEF c, parent
  <2> QED BY <1>1, <1>3, <1>4, <2>1
<1>8. inFork \in Continuations /\ inFork # InUserMode /\ inFork.at = "fork"
  BY <1>4 DEF Continuations, InUserMode
<1>9. /\ parent \in PCB
      /\ parent.numChildren = pcb[self].numChildren + 1
      /\ parent.parentPid = pcb[self].parentPid
      /\ parent.exitQ = pcb[self].exitQ
      /\ parent.savedContext = inFork
  <2> DEFINE r == pcb[self]
             n == r.numChildren + 1
  <2>1. r \in PCB
    BY <1>3 DEF TypeOK
  <2>2. parent = [r EXCEPT !.numChildren = n, !.savedContext = inFork]
    OBVIOUS
  <2>3. n \in Int
    BY <2>1 DEF PCB
  <2> HIDE DEF inFork, r, n, parent
  <2>4. parent \in PCB
    BY <1>8, <2>1, <2>2, <2>3 DEF PCB
  <2>5. /\ parent.numChildren = n
        /\ parent.parentPid = r.parentPid
        /\ parent.exitQ = r.exitQ
        /\ parent.savedContext = inFork
    BY <2>1, <2>2 DEF PCB
  <2> QED BY <2>4, <2>5 DEF r, n
<1>10. /\ pcb'[c] \in PCB
       /\ pcb'[c].numChildren = 0 /\ pcb'[c].parentPid = self
       /\ pcb'[c].exitQ = << >> /\ pcb'[c].savedContext = inFork
       /\ ~IsBlocked(pcb'[c])
  <2>1. /\ NewPCB(self, inFork) \in PCB
        /\ ~IsBlocked(NewPCB(self, inFork))
    BY <1>3, <1>8 DEF NewPCB, PCB, TermOrNone, IsBlocked
  <2> QED BY <1>7, <2>1 DEF NewPCB
<1> HIDE DEF parent, inFork
<1>11. \A p \in Listed : /\ pcb'[p].parentPid = pcb[p].parentPid
                         /\ pcb'[p].exitQ = pcb[p].exitQ
                         /\ pcb'[p] \in PCB
  BY <1>3, <1>7, <1>9 DEF TypeOK
<1>12. TypeOK'
  <2>1. pcb' \in [DOMAIN pcb' -> PCB]
    <3>1. pcb' = [p \in DOMAIN pcb' |-> pcb'[p]]
      BY <1>1
    <3>2. \A p \in DOMAIN pcb' : pcb'[p] \in PCB
      BY <1>2, <1>3, <1>7, <1>10, <1>11 DEF TypeOK
    <3> QED BY <3>1, <3>2
  <2>2. IDLE_PID \in DOMAIN pcb' /\ DOMAIN pcb' \subseteq Pids
    BY <1>3, <1>4, <1>7 DEF TypeOK, Pids
  <2>3. nextPid' \in 2 .. MaxPid + 1
    BY <1>1, SchedulingAssumption DEF TypeOK
  <2> QED BY <1>1, <1>6, <2>1, <2>2, <2>3 DEF TypeOK
<1>13. NoLostProcess'
  <2>1. c # processExitingNow
    BY <1>2, <1>4 DEF NULL
  <2> QED BY <1>1, <1>2, <1>6, <1>7, <2>1 DEF NoLostProcess, Distinct
<1>14. OneInUserMode'
  <2>1. Current' = c
    BY <1>1, <1>3, <1>6 DEF Current
  <2> SUFFICES ASSUME NEW p \in DOMAIN pcb' \ {c}
               PROVE  pcb'[p].savedContext # InUserMode
    BY <2>1 DEF OneInUserMode
  <2>2. CASE p = self
    BY <1>7, <1>8, <1>9, <2>2
  <2>3. CASE p # self
    BY <1>2, <1>7, <2>3
  <2> QED BY <2>2, <2>3
<1>15. ParentAlive'
  BY <1>3, <1>6, <1>10, <1>11 DEF ParentAlive
<1>16. ChildCountExact'
  <2> SUFFICES ASSUME NEW p \in Listed \cup {c}
               PROVE  pcb'[p].numChildren
                        = Cardinality({x \in Listed \cup {c} : pcb'[x].parentPid = p})
    BY <1>6 DEF ChildCountExact
  <2> DEFINE Old == {x \in Listed : pcb[x].parentPid = p}
             New == {x \in Listed \cup {c} : pcb'[x].parentPid = p}
  <2>1. CASE p = c
    <3>1. ASSUME NEW x \in Listed PROVE pcb[x].parentPid # c
      <4>1. pcb[x] \in PCB
        BY <1>3 DEF TypeOK
      <4>2. pcb[x].parentPid \in UserPids \cup {ORPHAN_PARENT_PID}
        BY <4>1 DEF PCB
      <4>3. UserPids \cup {ORPHAN_PARENT_PID} \subseteq Int
        BY SchedulingAssumption DEF UserPids, ORPHAN_PARENT_PID
      <4>4. pcb[x].parentPid < x /\ x < c
        BY <1>3 DEF Auxiliary
      <4> QED BY <1>3, <1>4, <4>2, <4>3, <4>4
    <3>2. \A x \in Listed \cup {c} : pcb'[x].parentPid # c
      BY <1>4, <1>10, <1>11, <3>1
    <3>3. New = {}
      BY <2>1, <3>2
    <3> QED BY <1>10, <2>1, <3>3, FS_EmptySet
  <2>2. CASE p = self
    <3>1. New = Old \cup {c}
      BY <1>10, <1>11, <2>2
    <3>2. c \notin Old
      BY <1>4
    <3>3. IsFiniteSet(Old)
      <4>1. IsFiniteSet(UserPids)
        BY SchedulingAssumption, FS_Interval DEF UserPids
      <4> QED BY <1>3, <4>1, FS_Subset
    <3>4. Cardinality(New) = Cardinality(Old) + 1
      BY <3>1, <3>2, <3>3, FS_AddElement
    <3> QED BY <1>3, <1>7, <1>9, <2>2, <3>4 DEF ChildCountExact
  <2>3. CASE p # c /\ p # self
    <3>1. New = Old
      BY <1>4, <1>10, <1>11, <2>3
    <3>2. pcb'[p] = pcb[p] /\ p \in Listed
      BY <1>3, <1>7, <2>3
    <3> QED BY <3>1, <3>2 DEF ChildCountExact
  <2> QED BY <2>1, <2>2, <2>3
<1>17. WaitIsWokenByReport'
  <2> SUFFICES ASSUME NEW p \in Listed \cup {c}, pcb'[p].savedContext.at = "wait"
               PROVE  IF pcb'[p].isWaiting
                      THEN pcb'[p].exitQ = << >> /\ pcb'[p].numChildren > 0
                      ELSE pcb'[p].exitQ # << >>
    BY <1>6 DEF WaitIsWokenByReport
  <2>1. p # c /\ p # self
    BY <1>7, <1>8, <1>9, <1>10
  <2>2. pcb'[p] = pcb[p] /\ p \in Listed
    BY <1>3, <1>7, <2>1
  <2> QED BY <2>2 DEF WaitIsWokenByReport
<1>18. ReportsInOrder'
  <2> SUFFICES ASSUME NEW p \in Listed \cup {c}
               PROVE  exitLog[p] = waitLog[p] \o pcb'[p].exitQ
    BY <1>1, <1>6 DEF ReportsInOrder
  <2>1. CASE p = c
    <3>1. exitLog[c] = << >> /\ waitLog[c] = << >>
      BY <1>4 DEF Auxiliary
    <3> QED BY <1>10, <2>1, <3>1
  <2>2. CASE p # c
    BY <1>11, <2>2 DEF ReportsInOrder
  <2> QED BY <2>1, <2>2
<1>19. ExitingIsFreedFirst'
  BY <1>1, <1>2 DEF ExitingIsFreedFirst
<1>20. RunnerAwake'
  BY <1>6, <1>10, ReadyIsAwake DEF RunnerAwake
<1>21. Auxiliary'
  <2>1. \A p \in DOMAIN pcb' : p < nextPid'
    <3>1. \A p \in DOMAIN pcb : p \in Int /\ p < c
      BY DEF Auxiliary, TypeOK, Pids, UserPids, IDLE_PID
    <3> QED BY <1>1, <1>4, <1>7, <3>1
  <2>2. \A p \in Listed' : pcb'[p].parentPid < p
    <3>1. self < c
      BY <1>3 DEF Auxiliary
    <3> QED BY <1>6, <1>10, <1>11, <3>1 DEF Auxiliary
  <2>3. pcb'[IDLE_PID].savedContext \in {InUserMode, Returning}
    BY <1>1, <1>3, <1>7 DEF Auxiliary
  <2>4. \A p \in UserPids : p >= nextPid' => exitLog'[p] = << >> /\ waitLog'[p] = << >>
    BY <1>1, <1>4 DEF Auxiliary, UserPids
  <2> QED BY <2>1, <2>2, <2>3, <2>4 DEF Auxiliary
<1> QED BY <1>12, <1>13, <1>14, <1>15, <1>16, <1>17, <1>18, <1>19, <1>20, <1>21

-----------------------------------------------------------------------------
(* Exit.                                                                   *)

\* Appending to the second of two concatenated sequences.
LEMMA AppendReport ==
  \A a, b \in Seq(ExitReport), e \in ExitReport :
    Append(a \o b, e) = a \o Append(b, e)
OBVIOUS

\* What an exit does to each PCB of the table.
LEMMA AfterExitFacts ==
  ASSUME IInv, SystemCall, NEW status \in ExitStatuses \cup {ERROR},
         NEW par, par = pcb[Current].parentPid,
         NEW report, report = [pid |-> Current, exitType |-> status]
  PROVE  /\ AfterExit(status) \in [DOMAIN pcb -> PCB]
         /\ report \in ExitReport
         /\ par # Current
         /\ par # ORPHAN_PARENT_PID => par \in Listed
         /\ \A p \in DOMAIN pcb :
              LET r == AfterExit(status)[p]
              IN /\ r.savedContext = pcb[p].savedContext
                 /\ IsBlocked(r) => IsBlocked(pcb[p])
                 /\ IsAsleep(r) => IsAsleep(pcb[p])
                 /\ p # par => /\ r.numChildren = pcb[p].numChildren
                               /\ r.isWaiting = pcb[p].isWaiting
                               /\ r.exitQ = pcb[p].exitQ
                 /\ p = par => /\ r.numChildren = pcb[p].numChildren - 1
                               /\ ~r.isWaiting
                               /\ r.exitQ = Append(pcb[p].exitQ, report)
                 /\ p \in Listed =>
                      r.parentPid = IF pcb[p].parentPid = Current
                                    THEN ORPHAN_PARENT_PID ELSE pcb[p].parentPid
<1> USE DEF IInv
<1> DEFINE self == Current
           A == AfterExit(status)
<1>1. /\ self \in Listed /\ self \in UserPids /\ self \in DOMAIN pcb
      /\ Listed \subseteq DOMAIN pcb /\ Listed \subseteq UserPids
  BY CurrentIsKnown DEF SystemCall
<1>2. \A p \in Listed : pcb[p].parentPid < p
  BY DEF Auxiliary
<1>3. par < self /\ par # self
  BY <1>1, <1>2 DEF UserPids, TypeOK, PCB, ORPHAN_PARENT_PID
<1>4. par \in Listed \cup {ORPHAN_PARENT_PID}
  BY <1>1 DEF ParentAlive
<1>5. par \in Listed => pcb[par].parentPid # self
  <2> SUFFICES ASSUME par \in Listed, pcb[par].parentPid = self PROVE FALSE
    OBVIOUS
  <2>1. self < par /\ par \in Int /\ self \in Int
    BY <1>1, <1>2 DEF UserPids
  <2> QED BY <1>3, <2>1
<1>6. report \in ExitReport
  BY <1>1 DEF ExitReport
<1>7. par \notin Listed => par \notin DOMAIN pcb
  BY <1>4 DEF TypeOK, Pids, UserPids, IDLE_PID, ORPHAN_PARENT_PID
<1>8. \A p \in DOMAIN pcb :
        A[p] = CASE p = par -> ReportExit(pcb[p], self, status)
                 [] p \in Listed /\ pcb[p].parentPid = self ->
                      [pcb[p] EXCEPT !.parentPid = ORPHAN_PARENT_PID]
                 [] OTHER -> pcb[p]
  BY DEF AfterExit
<1> HIDE DEF A
<1>9. ASSUME NEW p \in DOMAIN pcb
      PROVE  /\ A[p] \in PCB
             /\ A[p].savedContext = pcb[p].savedContext
             /\ IsBlocked(A[p]) => IsBlocked(pcb[p])
             /\ IsAsleep(A[p]) => IsAsleep(pcb[p])
             /\ p # par => /\ A[p].numChildren = pcb[p].numChildren
                           /\ A[p].isWaiting = pcb[p].isWaiting
                           /\ A[p].exitQ = pcb[p].exitQ
             /\ p = par => /\ A[p].numChildren = pcb[p].numChildren - 1
                           /\ ~A[p].isWaiting
                           /\ A[p].exitQ = Append(pcb[p].exitQ, report)
             /\ p \in Listed =>
                  A[p].parentPid = IF pcb[p].parentPid = self
                                   THEN ORPHAN_PARENT_PID ELSE pcb[p].parentPid
  <2> DEFINE r == pcb[p]
             a == A[p]
  <2>1. r \in PCB
    BY DEF TypeOK
  <2>2. CASE p = par
    <3> DEFINE n == r.numChildren - 1
               q == Append(r.exitQ, report)
    <3>1. a = [r EXCEPT !.numChildren = n, !.isWaiting = FALSE, !.exitQ = q]
      <4>0. r.parentPid # self
        BY <1>5, <1>7, <2>2
      <4>1. a = ReportExit(r, self, status)
        BY <1>8, <2>2, <4>0
      <4> HIDE DEF a, r, self
      <4> QED BY <4>1 DEF ReportExit, self
    <3>2. n \in Int /\ q \in Seq(ExitReport)
      BY <1>6, <2>1, AppendProperties DEF PCB
    <3>3. p \in Listed /\ r.parentPid # self
      BY <1>5, <1>7, <2>2
    <3> HIDE DEF n, q, r, a
    <3>4. a \in PCB
      BY <2>1, <3>1, <3>2 DEF PCB
    <3>5. /\ a.savedContext = r.savedContext /\ a.parentPid = r.parentPid
          /\ a.numChildren = n /\ a.exitQ = q /\ a.delay = r.delay
          /\ a.isWriting = r.isWriting /\ a.isWaitReading = r.isWaitReading
          /\ a.isWaitWriting = r.isWaitWriting
      BY <2>1, <3>1 DEF PCB
    <3>6. a.isWaiting = FALSE
      BY <2>1, <3>1 DEF PCB
    <3>7. (IsBlocked(a) => IsBlocked(r)) /\ (IsAsleep(a) => IsAsleep(r))
      BY <3>5, <3>6, Zenon DEF IsBlocked, IsAsleep
    <3>8. /\ a.numChildren = pcb[p].numChildren - 1
          /\ ~a.isWaiting
          /\ a.exitQ = Append(pcb[p].exitQ, report)
      BY <3>5, <3>6 DEF n, q, r
    <3>9. r.parentPid # self /\ a.parentPid = pcb[p].parentPid
      BY <3>3, <3>5 DEF r
    <3> QED BY <2>2, <3>4, <3>5, <3>7, <3>8, <3>9 DEF r, a
  <2>3. CASE p # par /\ p \in Listed /\ r.parentPid = self
    <3>1. a = [r EXCEPT !.parentPid = ORPHAN_PARENT_PID]
      BY <1>8, <2>3
    <3> HIDE DEF r, a
    <3>2. a \in PCB
      BY <2>1, <3>1 DEF PCB
    <3>3. /\ a.savedContext = r.savedContext /\ a.parentPid = ORPHAN_PARENT_PID
          /\ a.numChildren = r.numChildren /\ a.exitQ = r.exitQ
          /\ a.delay = r.delay
          /\ a.isWriting = r.isWriting /\ a.isWaitReading = r.isWaitReading
          /\ a.isWaitWriting = r.isWaitWriting
      BY <2>1, <3>1 DEF PCB
    <3>4. a.isWaiting = r.isWaiting
      BY <2>1, <3>1 DEF PCB
    <3>5. (IsBlocked(a) => IsBlocked(r)) /\ (IsAsleep(a) => IsAsleep(r))
      BY <3>3, <3>4, Zenon DEF IsBlocked, IsAsleep
    <3> QED BY <2>3, <3>2, <3>3, <3>4, <3>5 DEF r, a
  <2>4. CASE p # par /\ ~(p \in Listed /\ r.parentPid = self)
    <3>1. a = r
      BY <1>8, <2>4
    <3> QED BY <2>1, <2>4, <3>1
  <2> QED BY <2>2, <2>3, <2>4
<1>10. A \in [DOMAIN pcb -> PCB]
  <2>1. A = [p \in DOMAIN pcb |-> A[p]]
    BY DEF A, AfterExit
  <2> QED BY <1>9, <2>1
<1> QED BY <1>3, <1>4, <1>6, <1>9, <1>10 DEF A

\* Exit keeps the invariant: the parent is there and is told, the children
\* become orphans, and the freed slot of the exiting process is empty.
LEMMA ExitStep ==
  ASSUME IInv, NEW status \in ExitStatuses \cup {ERROR}, Exit(status)
  PROVE  IInv'
<1> USE DEF IInv
<1> DEFINE self == Current
           par == pcb[self].parentPid
           report == [pid |-> self, exitType |-> status]
           A == AfterExit(status)
<1>1. SystemCall /\ UserMode /\ UNCHANGED <<nextPid, forked, waitLog>>
  BY DEF Exit, SystemCall
<1>2. /\ processExitingNow = NULL /\ DOMAIN pcb = {IDLE_PID} \cup Listed
      /\ machine = "running"
      /\ \A p \in DOMAIN pcb : p # self => pcb[p].savedContext # InUserMode
  BY <1>1, UserModeFacts DEF UserMode
<1>3. /\ self \in Listed /\ self \in UserPids /\ ~isIdleRunning /\ self = Head(queue)
      /\ Listed \subseteq DOMAIN pcb /\ Listed \subseteq UserPids
      /\ IDLE_PID \notin UserPids /\ IDLE_PID \in DOMAIN pcb /\ self # IDLE_PID
  BY <1>1, CurrentIsKnown DEF SystemCall, TypeOK
<1>4. /\ A \in [DOMAIN pcb -> PCB]
      /\ report \in ExitReport
      /\ par # self
      /\ par # ORPHAN_PARENT_PID => par \in Listed
  BY <1>1, AfterExitFacts
<1>5. \A p \in DOMAIN pcb :
         LET r == A[p]
         IN /\ r.savedContext = pcb[p].savedContext
            /\ IsAsleep(r) => IsAsleep(pcb[p])
            /\ p # par => /\ r.numChildren = pcb[p].numChildren
                          /\ r.isWaiting = pcb[p].isWaiting
                          /\ r.exitQ = pcb[p].exitQ
            /\ p = par => /\ r.numChildren = pcb[p].numChildren - 1
                          /\ ~r.isWaiting
                          /\ r.exitQ = Append(pcb[p].exitQ, report)
            /\ p \in Listed =>
                 r.parentPid = IF pcb[p].parentPid = self
                               THEN ORPHAN_PARENT_PID ELSE pcb[p].parentPid
  BY <1>1, AfterExitFacts
<1>6. /\ ExitHalts(status) \/ ExitLeaves(status)
      /\ exitLog' = IF par = ORPHAN_PARENT_PID THEN exitLog
                    ELSE [exitLog EXCEPT ![par] = Append(@, report)]
  <2>1. ~ExitFaults
    BY <1>4 DEF ExitFaults
  <2> QED BY <2>1 DEF Exit
<1> HIDE DEF A, par, report
<1>7. /\ exitLog' \in [UserPids -> Seq(ExitReport)]
      /\ \A p \in UserPids : p # par => exitLog'[p] = exitLog[p]
      /\ par \in Listed => exitLog'[par] = Append(exitLog[par], report)
  <2>1. CASE par = ORPHAN_PARENT_PID
    <3>1. par \notin Listed
      BY <1>3, <2>1 DEF ORPHAN_PARENT_PID, UserPids
    <3> QED BY <1>6, <2>1, <3>1 DEF TypeOK
  <2>2. CASE par # ORPHAN_PARENT_PID
    <3>1. par \in UserPids /\ exitLog[par] \in Seq(ExitReport)
      BY <1>3, <1>4, <2>2 DEF TypeOK
    <3>2. Append(exitLog[par], report) \in Seq(ExitReport)
      BY <1>4, <3>1, AppendProperties
    <3> QED BY <1>6, <2>2, <3>1, <3>2 DEF TypeOK
  <2> QED BY <2>1, <2>2
<1>8. \A p \in Listed : exitLog'[p] = waitLog[p] \o A[p].exitQ
  <2> TAKE p \in Listed
  <2>1. exitLog[p] = waitLog[p] \o pcb[p].exitQ
    BY DEF ReportsInOrder
  <2>2. CASE p # par
    BY <1>3, <1>5, <1>7, <2>1, <2>2
  <2>3. CASE p = par
    <3>1. waitLog[p] \in Seq(ExitReport) /\ pcb[p].exitQ \in Seq(ExitReport)
      BY <1>3 DEF TypeOK, PCB
    <3>2. A[p].exitQ = Append(pcb[p].exitQ, report)
      BY <1>3, <1>5, <2>3
    <3>3. exitLog'[p] = Append(exitLog[p], report)
      BY <1>7, <2>3
    <3>4. Append(waitLog[p] \o pcb[p].exitQ, report)
            = waitLog[p] \o Append(pcb[p].exitQ, report)
      <4>1. report \in ExitReport
        BY <1>4
      <4> QED BY <3>1, <4>1, AppendReport
    <3> QED BY <2>1, <3>2, <3>3, <3>4
  <2> QED BY <2>2, <2>3
<1>9. \A p \in Listed : A[p].savedContext.at = "wait" =>
        IF A[p].isWaiting THEN A[p].exitQ = << >> /\ A[p].numChildren > 0
                          ELSE A[p].exitQ # << >>
  <2> SUFFICES ASSUME NEW p \in Listed, A[p].savedContext.at = "wait"
               PROVE  IF A[p].isWaiting
                      THEN A[p].exitQ = << >> /\ A[p].numChildren > 0
                      ELSE A[p].exitQ # << >>
    OBVIOUS
  <2>1. p \in DOMAIN pcb /\ pcb[p].savedContext.at = "wait"
    BY <1>3, <1>5
  <2>2. CASE p # par
    <3>1. /\ A[p].isWaiting = pcb[p].isWaiting
          /\ A[p].exitQ = pcb[p].exitQ
          /\ A[p].numChildren = pcb[p].numChildren
      BY <1>5, <2>1, <2>2
    <3> QED BY <2>1, <3>1 DEF WaitIsWokenByReport
  <2>3. CASE p = par
    <3>1. ~A[p].isWaiting /\ A[p].exitQ = Append(pcb[p].exitQ, report)
      BY <1>5, <2>1, <2>3
    <3>2. pcb[p].exitQ \in Seq(ExitReport)
      BY <2>1 DEF TypeOK, PCB
    <3>3. Append(pcb[p].exitQ, report) # << >>
      BY <1>4, <3>2, AppendProperties
    <3> QED BY <3>1, <3>3
  <2> QED BY <2>2, <2>3
<1>10. \A p \in Listed : A[p].parentPid < p
  <2> TAKE p \in Listed
  <2>1. pcb[p].parentPid < p /\ p \in UserPids
    BY <1>3 DEF Auxiliary
  <2>2. ORPHAN_PARENT_PID < p
    BY <2>1 DEF UserPids, ORPHAN_PARENT_PID
  <2>3. A[p].parentPid = IF pcb[p].parentPid = self
                         THEN ORPHAN_PARENT_PID ELSE pcb[p].parentPid
    BY <1>3, <1>5
  <2> QED BY <2>1, <2>2, <2>3
<1>11. \A p \in UserPids : p >= nextPid => exitLog'[p] = << >> /\ waitLog[p] = << >>
  <2> SUFFICES ASSUME NEW p \in UserPids, p >= nextPid PROVE p # par
    BY <1>7 DEF Auxiliary
  <2>1. par \in Listed => par < nextPid
    BY <1>3 DEF Auxiliary
  <2>2. par = ORPHAN_PARENT_PID => par \notin UserPids
    BY DEF UserPids, ORPHAN_PARENT_PID
  <2> QED BY <1>4, <2>1, <2>2 DEF UserPids, TypeOK
<1>12. A[IDLE_PID].savedContext = Returning
  <2>1. pcb[IDLE_PID].savedContext # InUserMode
    BY <1>2, <1>3
  <2> QED BY <1>3, <1>5, <2>1 DEF Auxiliary
<1>13. CASE ExitLeaves(status)
  <2>1. /\ Len(queue) > 1 /\ processExitingNow' = self /\ pcb' = A
        /\ queue' = Tail(queue) /\ isIdleRunning' = TRUE
        /\ lastClockTickPID' = IDLE_PID /\ machine' = machine
    BY <1>13 DEF ExitLeaves, ScheduleExit, A
  <2>2. /\ queue' \in Seq(UserPids) /\ queue' # << >> /\ Distinct(queue')
        /\ Listed' = Listed \ {self}
    <3>1. queue \in Seq(UserPids) /\ Distinct(queue)
      BY DEF TypeOK, NoLostProcess, Distinct
    <3> QED BY <1>3, <2>1, <3>1, TailElements, ListedIsElements
  <2>3. Current' = IDLE_PID /\ DOMAIN pcb' = DOMAIN pcb
    BY <1>4, <2>1 DEF Current
  <2>4. TypeOK'
    <3>1. lastClockTickPID' \in Pids \cup {-1} /\ processExitingNow' \in UserPids \cup {NULL}
      BY <1>3, <2>1 DEF Pids
    <3> QED BY <1>1, <1>4, <1>7, <2>1, <2>2, <2>3, <3>1 DEF TypeOK
  <2>5. NoLostProcess'
    <3>1. self # NULL
      BY <1>3 DEF NULL, UserPids
    <3> QED BY <1>2, <1>3, <2>1, <2>2, <2>3, <3>1 DEF NoLostProcess, Distinct
  <2>6. OneInUserMode'
    BY <1>2, <1>5, <2>1, <2>3 DEF OneInUserMode
  <2>7. ParentAlive'
    <3> SUFFICES ASSUME NEW p \in Listed \ {self}
                 PROVE  A[p].parentPid \in (Listed \ {self}) \cup {ORPHAN_PARENT_PID}
      BY <2>1, <2>2 DEF ParentAlive
    <3> QED BY <1>3, <1>5 DEF ParentAlive
  <2>8. ChildCountExact'
    <3> SUFFICES ASSUME NEW p \in Listed \ {self}
                 PROVE  A[p].numChildren
                          = Cardinality({c \in Listed \ {self} : A[c].parentPid = p})
      BY <2>1, <2>2 DEF ChildCountExact
    <3> DEFINE Old == {c \in Listed : pcb[c].parentPid = p}
               New == {c \in Listed \ {self} : A[c].parentPid = p}
    <3>1. p # ORPHAN_PARENT_PID /\ p \in UserPids /\ p \in DOMAIN pcb
      BY <1>3 DEF UserPids, ORPHAN_PARENT_PID
    <3>2. \A c \in Listed : A[c].parentPid = p <=> pcb[c].parentPid = p
      BY <1>3, <1>5, <3>1
    <3>3. New = Old \ {self}
      BY <3>2
    <3>4. IsFiniteSet(Old)
      <4>1. IsFiniteSet(UserPids)
        BY SchedulingAssumption, FS_Interval DEF UserPids
      <4> QED BY <1>3, <4>1, FS_Subset
    <3>5. pcb[p].numChildren = Cardinality(Old)
      BY DEF ChildCountExact
    <3> HIDE DEF New
    <3>6. CASE p = par
      <4>1. self \in Old
        BY <1>3, <3>6 DEF par
      <4>2. Cardinality(New) = Cardinality(Old) - 1
        BY <3>3, <3>4, <4>1, FS_RemoveElement
      <4> QED BY <1>5, <3>1, <3>5, <3>6, <4>2 DEF New
    <3>7. CASE p # par
      <4>1. self \notin Old
        BY <3>7 DEF par
      <4>2. New = Old
        BY <3>3, <4>1
      <4> QED BY <1>5, <3>1, <3>5, <3>7, <4>2 DEF New
    <3> QED BY <3>6, <3>7
  <2>9. WaitIsWokenByReport'
    BY <1>9, <2>1, <2>2 DEF WaitIsWokenByReport
  <2>10. ReportsInOrder'
    BY <1>1, <1>8, <2>1, <2>2 DEF ReportsInOrder
  <2>11. ExitingIsFreedFirst'
    <3>1. Returning # InUserMode
      BY DEF Returning, InUserMode
    <3> QED BY <1>2, <1>12, <2>1, <2>3, <3>1 DEF ExitingIsFreedFirst, KernelMode
  <2>12. RunnerAwake'
    BY <2>1 DEF RunnerAwake
  <2>13. Auxiliary'
    BY <1>1, <1>10, <1>11, <1>12, <2>1, <2>2, <2>3 DEF Auxiliary
  <2> QED BY <2>4, <2>5, <2>6, <2>7, <2>8, <2>9, <2>10, <2>11, <2>12, <2>13
<1>14. CASE ExitHalts(status)
  <2>1. /\ Len(queue) = 1 /\ pcb' = A /\ machine' = "halted"
        /\ UNCHANGED <<queue, isIdleRunning, lastClockTickPID, processExitingNow>>
    BY <1>2, <1>14 DEF ExitHalts, A
  <2>2. Listed = {self} /\ Listed' = Listed /\ Current' = self
        /\ DOMAIN pcb' = DOMAIN pcb
    <3>1. Listed = {queue[1]} /\ Head(queue) = queue[1]
      BY <2>1, CurrentIsKnown DEF Listed
    <3>2. Listed' = Listed /\ Current' = self
      BY <2>1 DEF Listed, Current
    <3> QED BY <1>3, <1>4, <2>1, <3>1, <3>2
  <2>3. par = ORPHAN_PARENT_PID
    BY <1>4, <2>2
  <2>4. /\ A[self].parentPid = ORPHAN_PARENT_PID
        /\ A[self].numChildren = pcb[self].numChildren
    <3>1. ORPHAN_PARENT_PID # self
      BY <1>3 DEF UserPids, ORPHAN_PARENT_PID
    <3> QED BY <1>3, <1>5, <2>3, <3>1 DEF par
  <2>5. TypeOK'
    BY <1>1, <1>4, <1>7, <2>1, <2>2 DEF TypeOK
  <2>6. NoLostProcess' /\ OneInUserMode'
    <3>1. NoLostProcess'
      BY <2>1, <2>2 DEF NoLostProcess
    <3>2. OneInUserMode'
      BY <1>2, <1>5, <2>1, <2>2 DEF OneInUserMode
    <3> QED BY <3>1, <3>2
  <2>7. ParentAlive'
    BY <2>1, <2>2, <2>4 DEF ParentAlive
  <2>8. ChildCountExact'
    <3>1. \A c \in Listed : A[c].parentPid = self <=> pcb[c].parentPid = self
      BY <2>2, <2>3, <2>4 DEF par
    <3>2. {c \in Listed : A[c].parentPid = self} = {c \in Listed : pcb[c].parentPid = self}
      BY <3>1
    <3>3. A[self].numChildren = Cardinality({c \in Listed : A[c].parentPid = self})
      BY <1>3, <2>4, <3>2 DEF ChildCountExact
    <3> QED BY <2>1, <2>2, <3>3 DEF ChildCountExact
  <2>9. WaitIsWokenByReport' /\ ReportsInOrder'
    BY <1>1, <1>8, <1>9, <2>1, <2>2 DEF WaitIsWokenByReport, ReportsInOrder
  <2>10. ExitingIsFreedFirst'
    BY <1>2, <2>1 DEF ExitingIsFreedFirst
  <2>11. RunnerAwake'
    <3>1. ~IsAsleep(pcb[self])
      BY <1>3 DEF RunnerAwake
    <3> QED BY <1>3, <1>5, <2>1, <3>1 DEF RunnerAwake
  <2>12. Auxiliary'
    BY <1>1, <1>10, <1>11, <1>12, <2>1, <2>2 DEF Auxiliary
  <2> QED BY <2>5, <2>6, <2>7, <2>8, <2>9, <2>10, <2>11, <2>12
<1> QED BY <1>6, <1>13, <1>14

-----------------------------------------------------------------------------
(* The invariant of the specification, and the properties it implies.      *)

\* The invariant depends on nothing but the variables.
LEMMA StutterStep == IInv /\ UNCHANGED procVars => IInv'
<1> SUFFICES ASSUME IInv, UNCHANGED procVars PROVE IInv'
  OBVIOUS
<1> USE DEF IInv, procVars
<1>1. Listed' = Listed /\ Current' = Current
  BY DEF Listed, Current
<1>2. TypeOK' /\ NoLostProcess'
  BY <1>1 DEF TypeOK, NoLostProcess
<1>3. OneInUserMode' /\ ParentAlive' /\ ChildCountExact' /\ WaitIsWokenByReport'
  BY <1>1 DEF OneInUserMode, ParentAlive, ChildCountExact, WaitIsWokenByReport
<1>4. ReportsInOrder' /\ RunnerAwake'
  BY <1>1 DEF ReportsInOrder, RunnerAwake
<1>5. ExitingIsFreedFirst'
  BY <1>1 DEF ExitingIsFreedFirst, KernelMode
<1>6. Auxiliary'
  BY <1>1 DEF Auxiliary
<1> QED BY <1>2, <1>3, <1>4, <1>5, <1>6

\* Every step keeps the invariant.
LEMMA NextStep == IInv /\ [ProcNext]_procVars => IInv'
<1> SUFFICES ASSUME IInv, [ProcNext]_procVars PROVE IInv'
  OBVIOUS
<1>1. CASE Tick
  BY <1>1, TickStep
<1>2. CASE Resume
  BY <1>2, ReturnFromTrapStep, ForkReturnsStep, WaitResumesStep DEF Resume
<1>3. CASE Fork
  BY <1>3, ForkStep
<1>4. CASE WaitFails \/ WaitCollects \/ WaitBlocks
  BY <1>4, StutterStep, WaitCollectsStep, WaitBlocksStep DEF WaitFails
<1>5. CASE (\E status \in ExitStatuses : Exit(status)) \/ ProgramError
  BY <1>5, ExitStep DEF ProgramError
<1>6. CASE \E ticks \in -1 .. MaxDelay : Delay(ticks) \/ DelayReturns(ticks)
  BY <1>6, DelayStep, DelayReturnsStep, StutterStep
<1>7. CASE Stopped \/ UNCHANGED procVars
  BY <1>7, StutterStep DEF Stopped
<1> QED BY <1>1, <1>2, <1>3, <1>4, <1>5, <1>6, <1>7 DEF ProcNext

\* The inductive invariant holds in every reachable state.
THEOREM Invariance == ProcSpec => []IInv
BY InitIInv, NextStep, PTL DEF ProcSpec

\* The process table is well typed.
THEOREM TypeCorrect == ProcSpec => []TypeOK
<1>1. IInv => TypeOK
  BY DEF IInv
<1> QED BY <1>1, Invariance, PTL

\* No operation on the list loses or duplicates a process.
THEOREM ListIsSound == ProcSpec => []NoLostProcess
<1>1. IInv => NoLostProcess
  BY DEF IInv
<1> QED BY <1>1, Invariance, PTL

\* An exiting process always finds the parent it reports to.
THEOREM FamilyIsSound == ProcSpec => []ParentAlive
<1>1. IInv => ParentAlive
  BY DEF IInv
<1> QED BY <1>1, Invariance, PTL

\* numChildren, kept by Fork and Exit, counts the live children exactly.
THEOREM ChildCountIsExact == ProcSpec => []ChildCountExact
<1>1. IInv => ChildCountExact
  BY DEF IInv
<1> QED BY <1>1, Invariance, PTL

\* No process waits for a report that is already there or can never come, and
\* none is woken without one.
THEOREM NoLostWakeup == ProcSpec => []WaitIsWokenByReport
<1>1. IInv => WaitIsWokenByReport
  BY DEF IInv
<1> QED BY <1>1, Invariance, PTL

\* Wait returns every exit of a child once, in the order of the exits.
THEOREM ReportsAreDelivered == ProcSpec => []ReportsInOrder
<1>1. IInv => ReportsInOrder
  BY DEF IInv
<1> QED BY <1>1, Invariance, PTL

\* An exited process is freed before the next one can exit.
THEOREM ExitedIsFreedFirst == ProcSpec => []ExitingIsFreedFirst
<1>1. IInv => ExitingIsFreedFirst
  BY DEF IInv
<1> QED BY <1>1, Invariance, PTL

-----------------------------------------------------------------------------
(* The kernel stops only after the last process.                           *)

\* No step but the last exit stops the machine.
LEMMA HaltStep ==
  ASSUME IInv, HaltsOnlyWithLastExit, [ProcNext]_procVars
  PROVE  HaltsOnlyWithLastExit'
<1>1. CASE Tick \/ Fork \/ WaitBlocks
           \/ \E ticks \in -1 .. MaxDelay : Delay(ticks) \/ DelayReturns(ticks)
  <2>1. machine = "running" /\ machine' = machine
    BY <1>1 DEF Tick, ClockTick, Fork, WaitBlocks, Delay, DelayReturns,
                SystemCall, UserMode
  <2> QED BY <2>1 DEF HaltsOnlyWithLastExit
<1>2. CASE Resume
  <2>1. CASE ReturnFromTrap \/ ForkReturns
    <3>1. machine = "running" /\ machine' = machine
      BY <2>1 DEF ReturnFromTrap, ForkReturns, KernelMode
    <3> QED BY <3>1 DEF HaltsOnlyWithLastExit
  <2>2. CASE WaitResumes
    <3>1. machine = "running" /\ pcb[Current].exitQ # << >> /\ Reap
      BY <2>2, WaiterFindsReport DEF WaitResumes, KernelMode
    <3>2. machine' = "running"
      BY <3>1 DEF Reap
    <3> QED BY <3>2 DEF HaltsOnlyWithLastExit
  <2> QED BY <1>2, <2>1, <2>2 DEF Resume
<1>3. CASE WaitCollects
  <2>1. machine = "running" /\ pcb[Current].exitQ # << >> /\ Reap
    BY <1>3 DEF WaitCollects, SystemCall, UserMode
  <2>2. machine' = "running"
    BY <2>1 DEF Reap
  <2> QED BY <2>2 DEF HaltsOnlyWithLastExit
<1>4. CASE \E status \in ExitStatuses \cup {ERROR} : Exit(status)
  <2>1. PICK status \in ExitStatuses \cup {ERROR} : Exit(status)
    BY <1>4
  <2>2. SystemCall /\ machine = "running" /\ processExitingNow = NULL
    BY <2>1, UserModeFacts DEF Exit, SystemCall, UserMode
  <2>3. pcb[Current].parentPid \in Listed \cup {ORPHAN_PARENT_PID}
    BY <2>2, CurrentIsKnown DEF IInv, SystemCall, ParentAlive
  <2>4. ExitHalts(status) \/ ExitLeaves(status)
    BY <2>1, <2>3 DEF Exit, ExitFaults
  <2> QED BY <2>2, <2>4 DEF ExitHalts, ExitLeaves, HaltsOnlyWithLastExit
<1>5. CASE WaitFails \/ Stopped \/ UNCHANGED procVars
  BY <1>5 DEF WaitFails, Stopped, procVars, schedVars, HaltsOnlyWithLastExit
<1> QED BY <1>1, <1>2, <1>3, <1>4, <1>5 DEF ProcNext, ProgramError

\* The kernel dereferences no NULL and halts only when the last process exits.
THEOREM KernelSurvives == ProcSpec => []HaltsOnlyWithLastExit
<1>1. ProcInit => HaltsOnlyWithLastExit
  BY DEF ProcInit, SchedInit, HaltsOnlyWithLastExit
<1>2. IInv /\ HaltsOnlyWithLastExit /\ [ProcNext]_procVars
        => IInv' /\ HaltsOnlyWithLastExit'
  BY NextStep, HaltStep
<1> QED BY <1>1, <1>2, InitIInv, PTL DEF ProcSpec
=============================================================================
