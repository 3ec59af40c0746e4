--------------------------- MODULE Terminals_proof ---------------------------
(***************************************************************************)
(* Proofs about Terminals: what it says of the terminals, and that the     *)
(* process table stays sound with terminal calls and interrupts added.     *)
(***************************************************************************)
EXTENDS IdleTurn, ProcessCalls_proof, WellFoundedInduction

-----------------------------------------------------------------------------
(* Lemmas about the operators.                                             *)

\* Every non-empty set of numbers has a least element.
LEMMA LeastNumber ==
  ASSUME NEW I \in SUBSET Nat, I # {}
  PROVE  \E i \in I : \A j \in I : i <= j
<1>1. PICK i \in I : \A j \in I : <<j, i>> \notin OpToRel(<, Nat)
  BY NatLessThanWellFounded, WFMin, Zenon
<1>2. \A j \in I : ~(j < i)
  BY <1>1 DEF OpToRel
<1> QED BY <1>2

\* FirstListed finds somebody whenever there is somebody to find.
LEMMA FirstListedIsListed ==
  ASSUME NEW S \in SUBSET Listed, TypeOK
  PROVE  /\ S # {} => FirstListed(S) \in S
         /\ FirstListed(S) = NULL <=> S = {}
<1>1. NULL \notin S
  <2>1. Listed \subseteq UserPids
    BY ElementOfSeq DEF Listed, TypeOK
  <2>2. NULL \notin UserPids
    BY SchedulingAssumption DEF UserPids, NULL
  <2> QED BY <2>1, <2>2
<1>2. ASSUME S # {}
      PROVE  FirstListed(S) \in S
  <2> DEFINE I == {i \in 1 .. Len(queue) : queue[i] \in S}
  <2>1. I \in SUBSET Nat /\ I # {}
    BY SMTT(30), <1>2 DEF Listed, TypeOK
  <2>2. PICK i \in I : \A j \in I : i <= j
    BY <2>1, LeastNumber
  <2>3. \A j \in 1 .. i - 1 : queue[j] \notin S
    <3> SUFFICES ASSUME NEW j \in 1 .. i - 1, queue[j] \in S PROVE FALSE
      OBVIOUS
    <3>1. i \in 1 .. Len(queue) /\ Len(queue) \in Nat
      BY <2>2 DEF TypeOK
    <3>2. j \in 1 .. Len(queue) /\ j < i /\ j \in Nat
      BY <3>1
    <3>3. i <= j
      BY <2>2, <3>2
    <3> QED BY <3>1, <3>2, <3>3
  <2>4. \E p \in S : \E k \in 1 .. Len(queue) :
          queue[k] = p /\ \A j \in 1 .. k - 1 : queue[j] \notin S
    BY <2>2, <2>3
  <2> QED BY <1>2, <2>4 DEF FirstListed
<1> QED BY <1>1, <1>2 DEF FirstListed

\* The cells of a buffer are numbered round.
LEMMA CellInRange ==
  ASSUME NEW k \in 0 .. TERMINAL_MAX_LINE - 1, NEW i \in 0 .. TERMINAL_MAX_LINE
  PROVE  /\ Cell(k, i) \in 0 .. TERMINAL_MAX_LINE - 1
         /\ k + i < TERMINAL_MAX_LINE => Cell(k, i) = k + i
         /\ k + i >= TERMINAL_MAX_LINE => Cell(k, i) = k + i - TERMINAL_MAX_LINE
BY TerminalsAssumption DEF Cell

-----------------------------------------------------------------------------
(* The process table stays sound.                                          *)

\* Two PCBs that differ at most in the fields about terminals.
Alike(s, r) == /\ s.parentPid = r.parentPid
               /\ s.numChildren = r.numChildren
               /\ s.exitQ = r.exitQ
               /\ s.savedContext = r.savedContext
               /\ s.isWaiting = r.isWaiting
               /\ s.delay = r.delay

\* What setting the fields about terminals does to a PCB.
LEMMA TerminalFields ==
  ASSUME NEW r \in PCB, NEW w \in TermOrNone
  PROVE  /\ LET s == [r EXCEPT !.isWriting = w]
            IN  /\ s \in PCB /\ Alike(s, r)
                /\ s.isWriting = w
                /\ s.isWaitWriting = r.isWaitWriting
                /\ s.isWaitReading = r.isWaitReading
         /\ LET s == [r EXCEPT !.isWaitWriting = w]
            IN  /\ s \in PCB /\ Alike(s, r)
                /\ s.isWriting = r.isWriting
                /\ s.isWaitWriting = w
                /\ s.isWaitReading = r.isWaitReading
         /\ LET s == [r EXCEPT !.isWaitReading = w]
            IN  /\ s \in PCB /\ Alike(s, r)
                /\ s.isWriting = r.isWriting
                /\ s.isWaitWriting = r.isWaitWriting
                /\ s.isWaitReading = w
BY DEF PCB, Alike

\* A function with one value changed.
LEMMA OneChanged ==
  ASSUME NEW f, NEW S, f \in [DOMAIN f -> S], NEW x \in DOMAIN f, NEW v \in S,
         NEW g, g = [f EXCEPT ![x] = v]
  PROVE  /\ g \in [DOMAIN f -> S]
         /\ \A y \in DOMAIN f : g[y] = IF y = x THEN v ELSE f[y]
OBVIOUS

\* What the caller's marks change: only the one field of the one PCB.
LEMMA CallerMarked ==
  ASSUME TypeOK, Current \in DOMAIN pcb, NEW t \in Terminals
  PROVE  LET P == Marked(t)
         IN  /\ P \in [DOMAIN pcb -> PCB]
             /\ \A p \in DOMAIN pcb :
                  /\ Alike(P[p], pcb[p])
                  /\ P[p].isWriting = IF p = Current THEN t ELSE pcb[p].isWriting
                  /\ P[p].isWaitWriting = pcb[p].isWaitWriting
                  /\ P[p].isWaitReading = pcb[p].isWaitReading
                  /\ p # Current => P[p] = pcb[p]
<1> DEFINE P == Marked(t)
           r == pcb[Current]
           s == [r EXCEPT !.isWriting = t]
<1>1. pcb \in [DOMAIN pcb -> PCB] /\ t \in TermOrNone /\ r \in PCB
  BY DEF TypeOK, TermOrNone
<1>2. P = [pcb EXCEPT ![Current] = s]
  BY DEF Marked
<1> HIDE DEF P, r
<1>3. /\ s \in PCB /\ Alike(s, r)
      /\ s.isWriting = t
      /\ s.isWaitWriting = r.isWaitWriting
      /\ s.isWaitReading = r.isWaitReading
  BY <1>1, TerminalFields
<1> HIDE DEF s
<1>4. /\ P \in [DOMAIN pcb -> PCB]
      /\ \A p \in DOMAIN pcb : P[p] = IF p = Current THEN s ELSE pcb[p]
  BY <1>1, <1>2, <1>3, OneChanged
<1> QED BY <1>3, <1>4 DEF P, r, Alike

\* Waiting to write.
LEMMA CallerParkedToWrite ==
  ASSUME TypeOK, Current \in DOMAIN pcb, NEW t \in Terminals
  PROVE  LET P == ParkedWriter(t)
         IN  /\ P \in [DOMAIN pcb -> PCB]
             /\ \A p \in DOMAIN pcb :
                  /\ Alike(P[p], pcb[p])
                  /\ P[p].isWriting = pcb[p].isWriting
                  /\ P[p].isWaitWriting = IF p = Current THEN t
                                          ELSE pcb[p].isWaitWriting
                  /\ P[p].isWaitReading = pcb[p].isWaitReading
                  /\ p # Current => P[p] = pcb[p]
<1> DEFINE P == ParkedWriter(t)
           r == pcb[Current]
           s == [r EXCEPT !.isWaitWriting = t]
<1>1. pcb \in [DOMAIN pcb -> PCB] /\ t \in TermOrNone /\ r \in PCB
  BY DEF TypeOK, TermOrNone
<1>2. P = [pcb EXCEPT ![Current] = s]
  BY DEF ParkedWriter
<1> HIDE DEF P, r
<1>3. /\ s \in PCB /\ Alike(s, r)
      /\ s.isWriting = r.isWriting
      /\ s.isWaitWriting = t
      /\ s.isWaitReading = r.isWaitReading
  BY <1>1, TerminalFields
<1> HIDE DEF s
<1>4. /\ P \in [DOMAIN pcb -> PCB]
      /\ \A p \in DOMAIN pcb : P[p] = IF p = Current THEN s ELSE pcb[p]
  BY <1>1, <1>2, <1>3, OneChanged
<1> QED BY <1>3, <1>4 DEF P, r, Alike

\* Waiting to read.
LEMMA CallerParkedToRead ==
  ASSUME TypeOK, Current \in DOMAIN pcb, NEW t \in Terminals
  PROVE  LET P == ParkedReader(t)
         IN  /\ P \in [DOMAIN pcb -> PCB]
             /\ \A p \in DOMAIN pcb :
                  /\ Alike(P[p], pcb[p])
                  /\ P[p].isWriting = pcb[p].isWriting
                  /\ P[p].isWaitWriting = pcb[p].isWaitWriting
                  /\ P[p].isWaitReading = IF p = Current THEN t
                                          ELSE pcb[p].isWaitReading
                  /\ p # Current => P[p] = pcb[p]
<1> DEFINE P == ParkedReader(t)
           r == pcb[Current]
           s == [r EXCEPT !.isWaitReading = t]
<1>1. pcb \in [DOMAIN pcb -> PCB] /\ t \in TermOrNone /\ r \in PCB
  BY DEF TypeOK, TermOrNone
<1>2. P = [pcb EXCEPT ![Current] = s]
  BY DEF ParkedReader
<1> HIDE DEF P, r
<1>3. /\ s \in PCB /\ Alike(s, r)
      /\ s.isWriting = r.isWriting
      /\ s.isWaitWriting = r.isWaitWriting
      /\ s.isWaitReading = t
  BY <1>1, TerminalFields
<1> HIDE DEF s
<1>4. /\ P \in [DOMAIN pcb -> PCB]
      /\ \A p \in DOMAIN pcb : P[p] = IF p = Current THEN s ELSE pcb[p]
  BY <1>1, <1>2, <1>3, OneChanged
<1> QED BY <1>3, <1>4 DEF P, r, Alike

\* What the interrupt at the end of a transmission changes.
LEMMA TransmitUnmarks ==
  ASSUME TypeOK, NEW t \in Terminals
  PROVE  LET P == AfterTransmit(t)
         IN  /\ P \in [DOMAIN pcb -> PCB]
             /\ \A p \in DOMAIN pcb :
                  /\ Alike(P[p], pcb[p])
                  /\ P[p].isWriting = IF p = getWritingPCB(t) THEN NoTerminal
                                      ELSE pcb[p].isWriting
                  /\ P[p].isWaitWriting = IF p = NextWriter(t) THEN NoTerminal
                                          ELSE pcb[p].isWaitWriting
                  /\ P[p].isWaitReading = pcb[p].isWaitReading
<1> DEFINE P == AfterTransmit(t)
<1>1. ASSUME NEW p \in DOMAIN pcb
      PROVE  /\ P[p] \in PCB
             /\ Alike(P[p], pcb[p])
             /\ P[p].isWriting = IF p = getWritingPCB(t) THEN NoTerminal
                                 ELSE pcb[p].isWriting
             /\ P[p].isWaitWriting = IF p = NextWriter(t) THEN NoTerminal
                                     ELSE pcb[p].isWaitWriting
             /\ P[p].isWaitReading = pcb[p].isWaitReading
  <2> DEFINE r == pcb[p]
             w == IF p = getWritingPCB(t) THEN NoTerminal ELSE r.isWriting
             ww == IF p = NextWriter(t) THEN NoTerminal ELSE r.isWaitWriting
  <2>1. r \in PCB
    BY DEF TypeOK
  <2>2. w \in TermOrNone /\ ww \in TermOrNone
    BY <2>1 DEF PCB, TermOrNone
  <2>3. P[p] = [r EXCEPT !.isWriting = w, !.isWaitWriting = ww]
    BY DEF AfterTransmit
  <2> HIDE DEF P, r, w, ww
  <2>4. /\ P[p] \in PCB /\ Alike(P[p], r)
        /\ P[p].isWriting = w
        /\ P[p].isWaitWriting = ww
        /\ P[p].isWaitReading = r.isWaitReading
    BY <2>1, <2>2, <2>3 DEF PCB, Alike
  <2> QED BY <2>4 DEF r, w, ww
<1>2. P \in [DOMAIN pcb -> PCB]
  BY <1>1 DEF AfterTransmit
<1> HIDE DEF P
<1> QED BY <1>1, <1>2 DEF P

\* What wakeUpReader changes.
LEMMA ReceiveWakes ==
  ASSUME TypeOK, NEW t \in Terminals
  PROVE  LET P == AfterReceive(t)
         IN  /\ P \in [DOMAIN pcb -> PCB]
             /\ \A p \in DOMAIN pcb :
                  /\ Alike(P[p], pcb[p])
                  /\ P[p].isWriting = pcb[p].isWriting
                  /\ P[p].isWaitWriting = pcb[p].isWaitWriting
                  /\ P[p].isWaitReading = IF p = NextReader(t) THEN NoTerminal
                                          ELSE pcb[p].isWaitReading
<1> DEFINE P == AfterReceive(t)
<1>1. ASSUME NEW p \in DOMAIN pcb
      PROVE  /\ P[p] \in PCB
             /\ Alike(P[p], pcb[p])
             /\ P[p].isWriting = pcb[p].isWriting
             /\ P[p].isWaitWriting = pcb[p].isWaitWriting
             /\ P[p].isWaitReading = IF p = NextReader(t) THEN NoTerminal
                                     ELSE pcb[p].isWaitReading
  <2> DEFINE r == pcb[p]
             w == IF p = NextReader(t) THEN NoTerminal ELSE r.isWaitReading
  <2>1. r \in PCB
    BY DEF TypeOK
  <2>2. w \in TermOrNone
    BY <2>1 DEF PCB, TermOrNone
  <2>3. P[p] = [r EXCEPT !.isWaitReading = w]
    BY DEF AfterReceive
  <2> HIDE DEF P, r, w
  <2>4. /\ P[p] \in PCB /\ Alike(P[p], r)
        /\ P[p].isWriting = r.isWriting
        /\ P[p].isWaitWriting = r.isWaitWriting
        /\ P[p].isWaitReading = w
    BY <2>1, <2>2, <2>3 DEF PCB, Alike
  <2> QED BY <2>4 DEF r, w
<1>2. P \in [DOMAIN pcb -> PCB]
  BY <1>1 DEF AfterReceive
<1> HIDE DEF P
<1> QED BY <1>1, <1>2 DEF P

-----------------------------------------------------------------------------
(* The process table stays sound.                                          *)

\* The caller of a system call, or of one that goes on inside the kernel, is a
\* listed process, and nobody waits to be freed.
LEMMA CallerFacts ==
  ASSUME IInv, SystemCall \/ \E t \in Terminals : InsideWrite(t) \/ InsideRead(t)
  PROVE  /\ machine = "running" /\ processExitingNow = NULL
         /\ Current # IDLE_PID /\ Current \in Listed /\ Current \in DOMAIN pcb
         /\ ~isIdleRunning /\ Current = Head(queue)
         /\ lastClockTickPID \in Pids \cup {-1}
         /\ NULL \notin DOMAIN pcb /\ NULL \notin Listed
<1>1. Current # IDLE_PID /\ machine = "running"
  <2>1. CASE SystemCall
    BY <2>1 DEF SystemCall, UserMode
  <2>2. CASE \E t \in Terminals : InsideWrite(t) \/ InsideRead(t)
    <3>1. machine = "running" /\ pcb[Current].savedContext.at \in {"write", "read"}
      BY <2>2 DEF InsideWrite, InsideRead, KernelMode
    <3>2. pcb[IDLE_PID].savedContext.at \in {"user", "return"}
      BY DEF IInv, Auxiliary, InUserMode, Returning
    <3> QED BY <3>1, <3>2
  <2> QED BY <2>1, <2>2
<1>2. processExitingNow = NULL
  BY <1>1, UserModeFacts
<1>3. NULL \notin Pids
  BY DEF Pids, UserPids, NULL, IDLE_PID
<1> QED BY <1>1, <1>2, <1>3, CurrentIsKnown DEF IInv, TypeOK

\* With nobody to free, freeing changes nothing.
LEMMA NobodyFreed ==
  ASSUME processExitingNow = NULL, NULL \notin DOMAIN pcb,
         NEW P \in [DOMAIN pcb -> PCB]
  PROVE  FreeExiting(P) = P
BY DEF FreeExiting

\* Where a terminal call goes on.
LEMMA InsideTty ==
  ASSUME NEW t \in Terminals
  PROVE  \A k \in {[at |-> "write", arg |-> t], [at |-> "read", arg |-> t]} :
           k \in Continuations /\ k # InUserMode /\ k.at # "wait" /\ k.at # "fork"
BY DEF Continuations, InUserMode

\* Starting to transmit blocks nobody who is awake.
LEMMA TtyWriteStep ==
  ASSUME IInv, NEW t \in Terminals, NEW text \in OutputTexts, TtyWrite(t, text)
  PROVE  IInv'
<1> DEFINE P == Marked(t)
<1>1. /\ SystemCall /\ UserMode /\ pcb' = P
      /\ UNCHANGED <<queue, isIdleRunning, nextPid, processExitingNow, machine,
                     forked, exitLog, waitLog>>
      /\ lastClockTickPID' = lastClockTickPID
  BY DEF TtyWrite, SystemCall, histVars
<1>2. Current \in DOMAIN pcb /\ lastClockTickPID \in Pids \cup {-1} /\ TypeOK
  BY <1>1, CallerFacts DEF IInv
<1>3. /\ P \in [DOMAIN pcb -> PCB]
      /\ \A p \in DOMAIN pcb : /\ Alike(P[p], pcb[p])
                               /\ P[p].isWaitWriting = pcb[p].isWaitWriting
                               /\ P[p].isWaitReading = pcb[p].isWaitReading
  BY <1>2, CallerMarked
<1> HIDE DEF P
<1>4. \A p \in DOMAIN pcb : IsAsleep(P[p]) => IsAsleep(pcb[p])
  BY <1>3, Zenon DEF IsAsleep, Alike
<1> QED BY <1>1, <1>2, <1>3, <1>4, InterruptStep DEF Alike

\* A call that has to wait gives the CPU away.
LEMMA ParkStep ==
  ASSUME IInv, NEW t \in Terminals,
         SystemCall \/ InsideWrite(t) \/ InsideRead(t),
         NEW P, P \in {ParkedWriter(t), ParkedReader(t)},
         NEW k, k \in {[at |-> "write", arg |-> t], [at |-> "read", arg |-> t]},
         Schedule(P, k),
         UNCHANGED <<lastClockTickPID, nextPid, processExitingNow, machine,
                     histVars>>
  PROVE  IInv'
<1>1. Current \in DOMAIN pcb /\ machine = "running" /\ Current # IDLE_PID
      /\ lastClockTickPID \in Pids \cup {-1} /\ TypeOK
  BY CallerFacts DEF IInv
<1>2. /\ P \in [DOMAIN pcb -> PCB]
      /\ \A p \in DOMAIN pcb : Alike(P[p], pcb[p])
  BY <1>1, CallerParkedToWrite, CallerParkedToRead
<1>3. k \in Continuations /\ k # InUserMode /\ k.at # "wait"
  BY InsideTty
<1> QED BY <1>1, <1>2, <1>3, ScheduleStep DEF Alike, histVars

\* A call that goes ahead after it waited returns to its caller.
LEMMA WriteResumesStep ==
  ASSUME IInv, NEW t \in Terminals, NEW text \in OutputTexts, WriteResumes(t, text)
  PROVE  IInv'
<1> DEFINE P == Marked(t)
<1>1. /\ InsideWrite(t) /\ BackToUser(P)
      /\ UNCHANGED <<queue, isIdleRunning, lastClockTickPID, nextPid, machine>>
      /\ UNCHANGED <<forked, exitLog, waitLog>>
  BY DEF WriteResumes, histVars
<1>2. Current \in DOMAIN pcb /\ machine = "running" /\ TypeOK /\ Current \in Listed
  BY <1>1, CallerFacts DEF IInv
<1>3. /\ P \in [DOMAIN pcb -> PCB]
      /\ \A p \in DOMAIN pcb : /\ Alike(P[p], pcb[p])
                               /\ P[p].isWaitWriting = pcb[p].isWaitWriting
                               /\ P[p].isWaitReading = pcb[p].isWaitReading
                               /\ p # Current => P[p] = pcb[p]
  BY <1>2, CallerMarked
<1> HIDE DEF P
<1>4. IsAsleep(P[Current]) => IsAsleep(pcb[Current])
  BY <1>2, <1>3, Zenon DEF IsAsleep, Alike
<1>5. /\ forked' \in [UserPids -> SUBSET UserPids]
      /\ waitLog' \in [UserPids -> Seq(ExitReport)]
      /\ \A p \in UserPids : p # Current => waitLog'[p] = waitLog[p]
  BY <1>1, <1>2 DEF TypeOK
<1>6. exitLog[Current] = waitLog'[Current] \o P[Current].exitQ
  BY <1>1, <1>2, <1>3 DEF IInv, ReportsInOrder, Alike
<1> QED BY <1>1, <1>2, <1>3, <1>4, <1>5, <1>6, BackToUserStep DEF Alike

\* A reader that finds a line returns to user mode and changes no family.
LEMMA ReadResumesStep ==
  ASSUME IInv, NEW t \in Terminals, NEW len \in ReadLengths, ReadResumes(t, len)
  PROVE  IInv'
<1>1. /\ InsideRead(t) /\ BackToUser(pcb)
      /\ UNCHANGED <<queue, isIdleRunning, lastClockTickPID, nextPid, machine>>
      /\ UNCHANGED <<forked, exitLog, waitLog>>
  BY DEF ReadResumes, histVars
<1>2. Current \in DOMAIN pcb /\ machine = "running" /\ TypeOK /\ Current \in Listed
      /\ pcb \in [DOMAIN pcb -> PCB]
  BY <1>1, CallerFacts DEF IInv, TypeOK
<1>3. /\ forked' \in [UserPids -> SUBSET UserPids]
      /\ waitLog' \in [UserPids -> Seq(ExitReport)]
      /\ \A p \in UserPids : p # Current => waitLog'[p] = waitLog[p]
  BY <1>1, <1>2 DEF TypeOK
<1>4. exitLog[Current] = waitLog'[Current] \o pcb[Current].exitQ
  BY <1>1, <1>2 DEF IInv, ReportsInOrder
<1> QED BY <1>1, <1>2, <1>3, <1>4, BackToUserStep

\* The interrupts of the terminals unmark and wake, and do nothing else.
LEMMA TransmitInterruptStep ==
  ASSUME IInv, NEW t \in Terminals, TransmitInterrupt(t)
  PROVE  IInv'
<1> DEFINE P == AfterTransmit(t)
<1>1. /\ UserMode /\ pcb' = P /\ lastClockTickPID' = lastClockTickPID
      /\ UNCHANGED <<queue, isIdleRunning, nextPid, processExitingNow, machine,
                     forked, exitLog, waitLog>>
  BY DEF TransmitInterrupt, histVars
<1>2. lastClockTickPID \in Pids \cup {-1} /\ TypeOK
  BY DEF IInv, TypeOK
<1>3. /\ P \in [DOMAIN pcb -> PCB]
      /\ \A p \in DOMAIN pcb :
           /\ Alike(P[p], pcb[p])
           /\ P[p].isWaitWriting \in {NoTerminal, pcb[p].isWaitWriting}
           /\ P[p].isWaitReading = pcb[p].isWaitReading
  BY <1>2, TransmitUnmarks
<1> HIDE DEF P
<1>4. \A p \in DOMAIN pcb : IsAsleep(P[p]) => IsAsleep(pcb[p])
  BY <1>3, Zenon DEF IsAsleep, Alike
<1> QED BY <1>1, <1>2, <1>3, <1>4, InterruptStep DEF Alike

\* An input line wakes at most one reader, as any interrupt may.
LEMMA ReceiveInterruptStep ==
  ASSUME IInv, NEW t \in Terminals, NEW line \in InputLines,
         ReceiveInterrupt(t, line)
  PROVE  IInv'
<1>1. PICK P : /\ P \in {pcb, AfterReceive(t)}
               /\ UserMode /\ pcb' = P /\ lastClockTickPID' = lastClockTickPID
               /\ UNCHANGED <<queue, isIdleRunning, nextPid, processExitingNow,
                              machine, forked, exitLog, waitLog>>
  BY DEF ReceiveInterrupt, histVars
<1>2. lastClockTickPID \in Pids \cup {-1} /\ TypeOK
  BY DEF IInv, TypeOK
<1>3. /\ P \in [DOMAIN pcb -> PCB]
      /\ \A p \in DOMAIN pcb :
           /\ Alike(P[p], pcb[p])
           /\ P[p].isWaitWriting = pcb[p].isWaitWriting
           /\ P[p].isWaitReading \in {NoTerminal, pcb[p].isWaitReading}
  <2>1. CASE P = AfterReceive(t)
    BY <1>2, <2>1, ReceiveWakes
  <2>2. CASE P = pcb
    BY <2>2 DEF Alike, IInv, TypeOK
  <2> QED BY <1>1, <2>1, <2>2
<1>4. \A p \in DOMAIN pcb : IsAsleep(P[p]) => IsAsleep(pcb[p])
  BY <1>3, Zenon DEF IsAsleep, Alike
<1> QED BY <1>1, <1>2, <1>3, <1>4, InterruptStep DEF Alike

\* A call that waits once more parks its caller, frees nobody and gives the
\* CPU away.
LEMMA WaitsAgainIsPark ==
  ASSUME IInv, NEW t \in Terminals, InsideWrite(t) \/ InsideRead(t),
         NEW P, P \in {ParkedWriter(t), ParkedReader(t)},
         processExitingNow' = NULL
  PROVE  FreeExiting(P) = P /\ UNCHANGED processExitingNow
<1>1. /\ processExitingNow = NULL /\ NULL \notin DOMAIN pcb
      /\ TypeOK /\ Current \in DOMAIN pcb
  BY CallerFacts DEF IInv
<1>2. P \in [DOMAIN pcb -> PCB]
  BY <1>1, CallerParkedToWrite, CallerParkedToRead
<1> QED BY <1>1, <1>2, NobodyFreed

\* Every step with terminals keeps the inductive invariant of the processes.
LEMMA TermNextStep == IInv /\ [TermNext]_termVars => IInv'
<1> SUFFICES ASSUME IInv, [TermNext]_termVars PROVE IInv'
  OBVIOUS
<1>1. CASE ProcNext
  BY <1>1, NextStep
<1>2. ASSUME NEW t \in Terminals,
             \/ \E text \in OutputTexts : TtyWrite(t, text)
             \/ TtyWriteBlocks(t)
             \/ \E len \in ReadLengths : TtyRead(t, len)
             \/ TtyReadBlocks(t)
             \/ CallReturns(t)
             \/ TransmitInterrupt(t)
             \/ \E line \in InputLines : ReceiveInterrupt(t, line)
      PROVE  IInv'
  <2>1. CASE \E text \in OutputTexts : TtyWrite(t, text)
    BY <2>1, TtyWriteStep
  <2>2. CASE TtyWriteBlocks(t) \/ TtyReadBlocks(t)
    BY <2>2, ParkStep DEF TtyWriteBlocks, TtyReadBlocks
  <2>3. CASE \E len \in ReadLengths : TtyRead(t, len)
    BY <2>3, StutterStep DEF TtyRead
  <2>4. CASE \E text \in OutputTexts : WriteResumes(t, text)
    BY <2>4, WriteResumesStep
  <2>5. CASE \E len \in ReadLengths : ReadResumes(t, len)
    BY <2>5, ReadResumesStep
  <2>6. CASE WriteWaitsAgain(t)
    <3> DEFINE P == ParkedWriter(t)
               k == [at |-> "write", arg |-> t]
    <3>1. /\ InsideWrite(t) /\ Schedule(FreeExiting(P), k)
          /\ processExitingNow' = NULL
          /\ UNCHANGED <<lastClockTickPID, nextPid, machine, histVars>>
      BY <2>6 DEF WriteWaitsAgain
    <3>2. FreeExiting(P) = P /\ UNCHANGED processExitingNow
      BY <3>1, WaitsAgainIsPark
    <3>3. Schedule(P, k)
      BY <3>1, <3>2
    <3> QED BY <3>1, <3>2, <3>3, ParkStep
  <2>7. CASE ReadWaitsAgain(t)
    <3> DEFINE P == ParkedReader(t)
               k == [at |-> "read", arg |-> t]
    <3>1. /\ InsideRead(t) /\ Schedule(FreeExiting(P), k)
          /\ processExitingNow' = NULL
          /\ UNCHANGED <<lastClockTickPID, nextPid, machine, histVars>>
      BY <2>7 DEF ReadWaitsAgain
    <3>2. FreeExiting(P) = P /\ UNCHANGED processExitingNow
      BY <3>1, WaitsAgainIsPark
    <3>3. Schedule(P, k)
      BY <3>1, <3>2
    <3> QED BY <3>1, <3>2, <3>3, ParkStep
  <2>8. CASE TransmitInterrupt(t)
    BY <2>8, TransmitInterruptStep
  <2>9. CASE \E line \in InputLines : ReceiveInterrupt(t, line)
    BY <2>9, ReceiveInterruptStep
  <2> QED BY <1>2, <2>1, <2>2, <2>3, <2>4, <2>5, <2>6, <2>7, <2>8, <2>9
          DEF CallReturns
<1>3. CASE UNCHANGED termVars
  BY <1>3, StutterStep DEF termVars
<1> QED BY <1>1, <1>2, <1>3 DEF TermNext

\* The inductive invariant of the processes holds with terminals, too.
LEMMA TermInvariance == TermSpec => []IInv
<1>1. TermInit => IInv
  BY InitIInv DEF TermInit
<1> QED BY <1>1, TermNextStep, PTL DEF TermSpec

\* No wakeup of a parent is lost among the calls and interrupts of terminals.
THEOREM NoLostWakeupWithTerminals == TermSpec => []WaitIsWokenByReport
<1>1. IInv => WaitIsWokenByReport
  BY DEF IInv
<1> QED BY <1>1, TermInvariance, PTL

\* No step of a terminal call or interrupt stops the machine.
LEMMA TermHaltStep ==
  ASSUME IInv, HaltsOnlyWithLastExit, [TermNext]_termVars
  PROVE  HaltsOnlyWithLastExit'
<1>1. CASE ProcNext \/ UNCHANGED procVars
  BY <1>1, HaltStep
<1>2. CASE \E t \in Terminals :
             \/ \E text \in OutputTexts : TtyWrite(t, text)
             \/ TtyWriteBlocks(t)
             \/ TtyReadBlocks(t)
             \/ CallReturns(t)
             \/ TransmitInterrupt(t)
             \/ \E line \in InputLines : ReceiveInterrupt(t, line)
  <2>1. machine = "running" /\ machine' = machine
    BY <1>2 DEF TtyWrite, TtyWriteBlocks, TtyReadBlocks, CallReturns,
         WriteResumes, WriteWaitsAgain, ReadResumes, ReadWaitsAgain,
         TransmitInterrupt, ReceiveInterrupt, InsideWrite, InsideRead,
         SystemCall, UserMode, KernelMode
  <2> QED BY <2>1 DEF HaltsOnlyWithLastExit
<1> QED BY <1>1, <1>2 DEF TermNext, TtyRead, termVars

\* With terminals, too, the kernel halts only when the last process exits.
THEOREM KernelSurvivesWithTerminals == TermSpec => []HaltsOnlyWithLastExit
<1>1. TermInit => IInv /\ HaltsOnlyWithLastExit
  BY InitIInv DEF TermInit, ProcInit, SchedInit, HaltsOnlyWithLastExit
<1>2. IInv /\ HaltsOnlyWithLastExit /\ [TermNext]_termVars
        => IInv' /\ HaltsOnlyWithLastExit'
  BY TermNextStep, TermHaltStep
<1> QED BY <1>1, <1>2, PTL DEF TermSpec

-----------------------------------------------------------------------------
(* What the steps do to the fields about terminals.                        *)

\* Two PCBs with the same fields about writing.
SameWriting(s, r) == /\ s.isWriting = r.isWriting
                     /\ s.isWaitWriting = r.isWaitWriting

\* A context switch or the way out of the kernel moves nobody about on the
\* terminals, and changes the continuation of the running process only.
LEMMA ScheduleTty ==
  ASSUME IInv, NEW P \in [DOMAIN pcb -> PCB], NEW k \in Continuations,
         Schedule(P, k)
  PROVE  /\ Listed' = Listed
         /\ \A p \in Listed :
              /\ SameWriting(pcb'[p], P[p])
              /\ pcb'[p].savedContext = IF p = Current THEN k
                                        ELSE P[p].savedContext
<1>1. Listed' = Listed /\ pcb' = [P EXCEPT ![Current].savedContext = k]
  BY ScheduleFacts DEF IInv
<1>2. Listed \subseteq DOMAIN pcb
  BY DEF IInv, NoLostProcess
<1>3. ASSUME NEW p \in Listed
      PROVE  /\ SameWriting(pcb'[p], P[p])
             /\ pcb'[p].savedContext = IF p = Current THEN k
                                       ELSE P[p].savedContext
  <2>1. P[p] \in PCB /\ p \in DOMAIN pcb
    BY <1>2
  <2>2. CASE p # Current
    BY <1>1, <2>1, <2>2 DEF SameWriting
  <2>3. CASE p = Current
    <3>1. pcb'[p] = [P[p] EXCEPT !.savedContext = k]
      BY <1>1, <2>1, <2>3
    <3> QED BY <2>1, <2>3, <3>1 DEF SameWriting, PCB
  <2> QED BY <2>2, <2>3
<1> QED BY <1>1, <1>3

\* What is left of the writing fields of the PCBs P on the way to user mode.
LEMMA BackToUserTty ==
  ASSUME IInv, NEW P \in [DOMAIN pcb -> PCB], BackToUser(P), UNCHANGED queue
  PROVE  /\ Listed' = Listed
         /\ \A p \in Listed :
              /\ SameWriting(pcb'[p], P[p])
              /\ pcb'[p].savedContext = IF p = Current THEN InUserMode
                                        ELSE P[p].savedContext
<1>1. Listed' = Listed
  BY DEF Listed
<1>2. Listed \subseteq DOMAIN pcb /\ processExitingNow \notin Listed
  BY DEF IInv, NoLostProcess
<1>3. ASSUME NEW p \in Listed
      PROVE  /\ SameWriting(pcb'[p], P[p])
             /\ pcb'[p].savedContext = IF p = Current THEN InUserMode
                                       ELSE P[p].savedContext
  <2>1. P[p] \in PCB /\ p \in DOMAIN pcb
    BY <1>2
  <2>2. pcb'[p] = IF p = Current THEN [P[p] EXCEPT !.savedContext = InUserMode]
                                 ELSE P[p]
    BY <1>2, <2>1 DEF BackToUser, FreeExiting
  <2> QED BY <2>1, <2>2 DEF SameWriting, PCB
<1> QED BY <1>1, <1>3

\* A step that is not about writing: it starts and ends none, and nobody enters
\* or leaves TtyWrite.
TtyQuiet ==
  /\ \A p \in Listed' :
       \/ /\ p \in Listed
          /\ SameWriting(pcb'[p], pcb[p])
          /\ pcb'[p].savedContext.at = "write"
               => pcb'[p].savedContext = pcb[p].savedContext
       \/ /\ pcb'[p].isWriting = NoTerminal
          /\ pcb'[p].isWaitWriting = NoTerminal
          /\ pcb'[p].savedContext.at # "write"
  /\ \A p \in Listed :
       pcb[p].savedContext.at = "write" =>
         /\ p \in Listed'
         /\ SameWriting(pcb'[p], pcb[p])
         /\ pcb'[p].savedContext = pcb[p].savedContext

\* A change of the running process is quiet unless it is about a TtyWrite.
LEMMA SwitchIsQuiet ==
  ASSUME IInv, pcb[Current].savedContext.at # "write",
         NEW P \in [DOMAIN pcb -> PCB], NEW k, k.at # "write",
         Listed' = Listed,
         \A p \in Listed : /\ SameWriting(P[p], pcb[p])
                           /\ P[p].savedContext = pcb[p].savedContext,
         \A p \in Listed : /\ SameWriting(pcb'[p], P[p])
                           /\ pcb'[p].savedContext = IF p = Current THEN k
                                                     ELSE P[p].savedContext
  PROVE  TtyQuiet
BY DEF TtyQuiet, SameWriting

\* A call that gives the CPU away, other than TtyWrite, is quiet.
LEMMA ScheduleIsQuiet ==
  ASSUME IInv, pcb[Current].savedContext.at # "write",
         NEW P \in [DOMAIN pcb -> PCB], NEW k \in Continuations, k.at # "write",
         \A p \in Listed : /\ SameWriting(P[p], pcb[p])
                           /\ P[p].savedContext = pcb[p].savedContext,
         Schedule(P, k)
  PROVE  TtyQuiet
BY ScheduleTty, SwitchIsQuiet

\* So is a return to user mode, other than that of TtyWrite.
LEMMA LeavingIsQuiet ==
  ASSUME IInv, pcb[Current].savedContext.at # "write",
         NEW P \in [DOMAIN pcb -> PCB],
         \A p \in Listed : /\ SameWriting(P[p], pcb[p])
                           /\ P[p].savedContext = pcb[p].savedContext,
         BackToUser(P), UNCHANGED queue
  PROVE  TtyQuiet
<1>1. InUserMode.at # "write"
  BY DEF InUserMode
<1> QED BY <1>1, BackToUserTty, SwitchIsQuiet

\* In user mode, and where the steps of the processes go on in the kernel, the
\* running process is not inside TtyWrite.
LEMMA NotInsideWrite ==
  /\ UserMode => pcb[Current].savedContext.at # "write"
  /\ \A k \in {"user", "return", "wait", "fork"} : k # "write"
BY DEF UserMode, InUserMode

\* The countdown of a tick does not touch the fields about terminals.
LEMMA CountdownIsQuiet ==
  ASSUME TypeOK
  PROVE  \A p \in DOMAIN pcb : SameWriting(DecreaseDelay[p], pcb[p])
<1> SUFFICES ASSUME NEW p \in DOMAIN pcb
             PROVE  SameWriting(DecreaseDelay[p], pcb[p])
  OBVIOUS
<1>1. pcb[p] \in PCB
  BY DEF TypeOK
<1>2. DecreaseDelay[p] = IF p \in Listed /\ pcb[p].delay > 0
                         THEN [pcb[p] EXCEPT !.delay = @ - 1] ELSE pcb[p]
  BY DEF DecreaseDelay
<1> QED BY <1>1, <1>2 DEF SameWriting, PCB

\* The clock touches delays only.
LEMMA TickIsQuiet == IInv /\ Tick => TtyQuiet
<1> SUFFICES ASSUME IInv, Tick PROVE TtyQuiet
  OBVIOUS
<1> DEFINE P == DecreaseDelay
<1>1. /\ P \in [DOMAIN pcb -> PCB]
      /\ Listed \subseteq DOMAIN pcb
      /\ \A p \in Listed : /\ SameWriting(P[p], pcb[p])
                           /\ P[p].savedContext = pcb[p].savedContext
  BY DecreaseDelayFacts, CountdownIsQuiet, CurrentIsKnown DEF IInv
<1>2. pcb[Current].savedContext.at # "write"
  BY NotInsideWrite DEF Tick, ClockTick
<1>3. Returning \in Continuations /\ Returning.at # "write"
  BY DEF Returning, Continuations
<1>4. Schedule(P, Returning) \/ (pcb' = P /\ UNCHANGED <<queue, isIdleRunning>>)
  BY DEF Tick, ClockTick
<1> HIDE DEF P
<1>5. CASE Schedule(P, Returning)
  BY <1>1, <1>2, <1>3, <1>5, ScheduleIsQuiet
<1>6. CASE pcb' = P /\ UNCHANGED <<queue, isIdleRunning>>
  <2>1. Listed' = Listed
    BY <1>6 DEF Listed
  <2> QED BY <1>1, <1>6, <2>1 DEF TtyQuiet
<1> QED BY <1>4, <1>5, <1>6

\* Returning from a trap or from Fork.
LEMMA ReturnIsQuiet == IInv /\ (ReturnFromTrap \/ ForkReturns) => TtyQuiet
<1> SUFFICES ASSUME IInv, ReturnFromTrap \/ ForkReturns PROVE TtyQuiet
  OBVIOUS
<1>1. BackToUser(pcb) /\ UNCHANGED queue
  BY DEF ReturnFromTrap, ForkReturns
<1>2. pcb[Current].savedContext.at # "write"
  BY DEF ReturnFromTrap, ForkReturns, Returning
<1>3. \A p \in Listed : SameWriting(pcb[p], pcb[p])
  BY DEF SameWriting
<1>4. pcb \in [DOMAIN pcb -> PCB]
  BY DEF IInv, TypeOK
<1> QED BY <1>1, <1>2, <1>3, <1>4, LeavingIsQuiet

\* Collecting a report.
LEMMA ReapIsQuiet ==
  ASSUME IInv, pcb[Current].savedContext.at # "write", Reap
  PROVE  TtyQuiet
<1>1. /\ pcb \in [DOMAIN pcb -> PCB] /\ Current \in DOMAIN pcb
      /\ Listed \subseteq DOMAIN pcb
  BY CurrentIsKnown DEF IInv, TypeOK
<1>2. CASE pcb[Current].exitQ = << >>
  BY <1>2 DEF Reap, Listed, TtyQuiet, SameWriting
<1>3. CASE pcb[Current].exitQ # << >>
  <2> DEFINE P == [pcb EXCEPT ![Current].exitQ = Tail(@)]
             r == pcb[Current]
             newQ == Tail(pcb[Current].exitQ)
             s == [r EXCEPT !.exitQ = newQ]
  <2>1. r \in PCB /\ newQ \in Seq(ExitReport)
    BY <1>1, <1>3, HeadTailProperties DEF PCB
  <2>2. P = [pcb EXCEPT ![Current] = s]
    OBVIOUS
  <2>3. BackToUser(P) /\ UNCHANGED queue
    BY <1>3 DEF Reap
  <2> HIDE DEF r, newQ, P
  <2>4. s \in PCB /\ SameWriting(s, r) /\ s.savedContext = r.savedContext
    BY <2>1 DEF PCB, SameWriting
  <2> HIDE DEF s
  <2>5. /\ P \in [DOMAIN pcb -> PCB]
        /\ \A p \in DOMAIN pcb : P[p] = IF p = Current THEN s ELSE pcb[p]
    BY <1>1, <2>2, <2>4, OneChanged
  <2>6. \A p \in Listed : /\ SameWriting(P[p], pcb[p])
                          /\ P[p].savedContext = pcb[p].savedContext
    BY <1>1, <2>4, <2>5 DEF r, SameWriting
  <2> QED BY <2>3, <2>5, <2>6, LeavingIsQuiet
<1> QED BY <1>2, <1>3

\* Waiting for a child and waiting for time to pass.
LEMMA WaitBlocksIsQuiet == IInv /\ WaitBlocks => TtyQuiet
<1> SUFFICES ASSUME IInv, WaitBlocks PROVE TtyQuiet
  OBVIOUS
<1> DEFINE P == [pcb EXCEPT ![Current].isWaiting = TRUE]
           k == [at |-> "wait", arg |-> 0]
           r == pcb[Current]
           s == [r EXCEPT !.isWaiting = TRUE]
<1>1. /\ pcb \in [DOMAIN pcb -> PCB] /\ Current \in DOMAIN pcb /\ r \in PCB
      /\ Listed \subseteq DOMAIN pcb
  BY CurrentIsKnown DEF IInv, TypeOK
<1>2. Schedule(P, k) /\ pcb[Current].savedContext.at # "write"
  BY NotInsideWrite DEF WaitBlocks, SystemCall
<1>3. k \in Continuations /\ k.at # "write"
  BY DEF Continuations
<1>4. P = [pcb EXCEPT ![Current] = s]
  OBVIOUS
<1> HIDE DEF P, k, r
<1>5. s \in PCB /\ SameWriting(s, r) /\ s.savedContext = r.savedContext
  BY <1>1 DEF PCB, SameWriting
<1> HIDE DEF s
<1>6. /\ P \in [DOMAIN pcb -> PCB]
      /\ \A p \in DOMAIN pcb : P[p] = IF p = Current THEN s ELSE pcb[p]
  BY <1>1, <1>4, <1>5, OneChanged
<1>7. \A p \in Listed : /\ SameWriting(P[p], pcb[p])
                        /\ P[p].savedContext = pcb[p].savedContext
  BY <1>1, <1>5, <1>6 DEF r, SameWriting
<1> QED BY <1>2, <1>3, <1>6, <1>7, ScheduleIsQuiet

\* Delay touches the delay of its caller only.
LEMMA DelayIsQuiet ==
  ASSUME IInv, NEW ticks \in -1 .. MaxDelay, Delay(ticks)
  PROVE  TtyQuiet
<1> DEFINE P == [pcb EXCEPT ![Head(queue)].delay = ticks]
           r == pcb[Current]
           s == [r EXCEPT !.delay = ticks]
<1>1. SystemCall /\ ticks > 0 /\ Schedule(P, Returning)
  BY DEF Delay
<1>2. /\ pcb \in [DOMAIN pcb -> PCB] /\ Current \in DOMAIN pcb /\ r \in PCB
      /\ Listed \subseteq DOMAIN pcb /\ Current = Head(queue)
  BY <1>1, CallerFacts DEF IInv, TypeOK, NoLostProcess
<1>3. pcb[Current].savedContext.at # "write"
  BY <1>1, NotInsideWrite DEF SystemCall
<1>4. Returning \in Continuations /\ Returning.at # "write"
  BY DEF Returning, Continuations
<1>5. P = [pcb EXCEPT ![Current] = s]
  BY <1>2
<1>6. ticks \in Nat
  BY <1>1, ProcessControlAssumption
<1> HIDE DEF P, r
<1>7. s \in PCB /\ SameWriting(s, r) /\ s.savedContext = r.savedContext
  BY <1>2, <1>6 DEF PCB, SameWriting
<1> HIDE DEF s
<1>8. /\ P \in [DOMAIN pcb -> PCB]
      /\ \A p \in DOMAIN pcb : P[p] = IF p = Current THEN s ELSE pcb[p]
  BY <1>2, <1>5, <1>7, OneChanged
<1>9. \A p \in Listed : /\ SameWriting(P[p], pcb[p])
                        /\ P[p].savedContext = pcb[p].savedContext
  BY <1>2, <1>7, <1>8 DEF r, SameWriting
<1> QED BY <1>1, <1>3, <1>4, <1>8, <1>9, ScheduleIsQuiet

\* Fork: the child has nothing to do with the terminals.
LEMMA ForkIsQuiet == IInv /\ Fork => TtyQuiet
<1> SUFFICES ASSUME IInv, Fork PROVE TtyQuiet
  OBVIOUS
<1> DEFINE c == nextPid
           inFork == [at |-> "fork", arg |-> c]
           r == pcb[Current]
           n == r.numChildren + 1
           parent == [r EXCEPT !.numChildren = n, !.savedContext = inFork]
           child == NewPCB(Current, inFork)
<1>1. /\ SystemCall /\ queue' = <<c>> \o queue
      /\ pcb' = [p \in DOMAIN pcb \cup {c} |->
                   CASE p = c -> child
                     [] p = Current -> parent
                     [] OTHER -> pcb[p]]
  BY DEF Fork
<1>2. /\ r \in PCB /\ Current \in Listed /\ Listed \subseteq DOMAIN pcb
      /\ c \in Nat /\ c \notin Listed
  BY <1>1, CallerFacts DEF IInv, TypeOK, NoLostProcess, Auxiliary
<1>3. pcb[Current].savedContext.at # "write"
  BY <1>1, NotInsideWrite DEF SystemCall
<1>4. Listed' = Listed \cup {c}
  <2>1. c \in UserPids
    <3>1. c \in 2 .. MaxPid + 1 /\ c <= MaxPid
      BY DEF Fork, IInv, TypeOK
    <3> QED BY <3>1, SchedulingAssumption DEF UserPids
  <2>2. queue \in Seq(UserPids) /\ Distinct(queue)
    BY DEF IInv, TypeOK, NoLostProcess, Distinct
  <2> QED BY <1>1, <1>2, <2>1, <2>2, ConsElements, ListedIsElements
<1>5. /\ child.isWriting = NoTerminal /\ child.isWaitWriting = NoTerminal
      /\ child.savedContext.at # "write"
  BY DEF NewPCB
<1>6. SameWriting(parent, r) /\ parent.savedContext.at # "write"
  <2> HIDE DEF n, r
  <2> QED BY <1>2 DEF PCB, SameWriting
<1> HIDE DEF parent, child, inFork
<1>7. /\ pcb'[c] = child
      /\ \A p \in Listed : pcb'[p] = IF p = Current THEN parent ELSE pcb[p]
  BY <1>1, <1>2
<1>8. \A p \in Listed : p \in Listed' /\ (p # Current => pcb'[p] = pcb[p])
  BY <1>4, <1>7
<1> QED BY <1>3, <1>4, <1>5, <1>6, <1>7, <1>8 DEF TtyQuiet, SameWriting, r

\* Exit: the process that leaves was in user mode, and what it tells its family
\* is not about terminals.
LEMMA ExitIsQuiet ==
  ASSUME IInv, NEW status \in ExitStatuses \cup {ERROR}, Exit(status)
  PROVE  TtyQuiet
<1> DEFINE A == AfterExit(status)
           report == [pid |-> Current, exitType |-> status]
<1>1. /\ SystemCall
      /\ \/ UNCHANGED <<queue, pcb>>
         \/ pcb' = A /\ UNCHANGED queue
         \/ pcb' = A /\ queue' = Tail(queue) /\ Len(queue) > 1
  BY DEF Exit, ExitFaults, ExitHalts, ExitLeaves, ScheduleExit
<1>2. /\ Current \in Listed /\ Current = Head(queue)
      /\ Listed \subseteq DOMAIN pcb
  BY <1>1, CallerFacts DEF IInv, NoLostProcess
<1>3. pcb[Current].savedContext.at # "write"
  BY <1>1, NotInsideWrite DEF SystemCall
<1>4. \A p \in DOMAIN pcb : /\ SameWriting(A[p], pcb[p])
                            /\ A[p].savedContext = pcb[p].savedContext
  <2> SUFFICES ASSUME NEW p \in DOMAIN pcb
               PROVE  /\ SameWriting(A[p], pcb[p])
                      /\ A[p].savedContext = pcb[p].savedContext
    OBVIOUS
  <2> DEFINE r == pcb[p]
             n == r.numChildren - 1
             q == Append(r.exitQ, report)
  <2>1. r \in PCB
    BY DEF IInv, TypeOK
  <2>2. A[p] = CASE p = pcb[Current].parentPid ->
                      [r EXCEPT !.numChildren = n, !.isWaiting = FALSE, !.exitQ = q]
                 [] p \in Listed /\ r.parentPid = Current ->
                      [r EXCEPT !.parentPid = ORPHAN_PARENT_PID]
                 [] OTHER -> r
    BY DEF AfterExit, ReportExit
  <2> HIDE DEF A, r, n, q
  <2>3. A[p] \in {[r EXCEPT !.numChildren = n, !.isWaiting = FALSE, !.exitQ = q],
                  [r EXCEPT !.parentPid = ORPHAN_PARENT_PID],
                  r}
    BY <2>2
  <2>4. SameWriting(A[p], r) /\ A[p].savedContext = r.savedContext
    BY <2>1, <2>3 DEF PCB, SameWriting
  <2> QED BY <2>4 DEF r
<1> HIDE DEF A
<1>5. Listed' = Listed \/ Listed' = Listed \ {Current}
  <2>1. CASE queue' = queue
    BY <2>1 DEF Listed
  <2>2. CASE queue' = Tail(queue) /\ Len(queue) > 1
    <3>1. queue \in Seq(UserPids) /\ Distinct(queue)
      BY DEF IInv, TypeOK, NoLostProcess, Distinct
    <3> QED BY <1>2, <2>2, <3>1, TailElements, ListedIsElements
  <2> QED BY <1>1, <2>1, <2>2
<1>6. \A p \in Listed : /\ SameWriting(pcb'[p], pcb[p])
                        /\ pcb'[p].savedContext = pcb[p].savedContext
  BY <1>1, <1>2, <1>4 DEF SameWriting
<1> QED BY <1>3, <1>5, <1>6 DEF TtyQuiet

\* No step of the processes is about the terminals.
LEMMA ProcessesAreQuiet == IInv /\ [ProcNext]_procVars => TtyQuiet
<1> SUFFICES ASSUME IInv, [ProcNext]_procVars PROVE TtyQuiet
  OBVIOUS
<1>1. CASE Tick
  BY <1>1, TickIsQuiet
<1>2. CASE Resume
  <2>1. CASE WaitResumes
    BY <2>1, ReapIsQuiet DEF WaitResumes
  <2> QED BY <1>2, <2>1, ReturnIsQuiet DEF Resume
<1>3. CASE Fork
  BY <1>3, ForkIsQuiet
<1>4. CASE WaitCollects
  BY <1>4, ReapIsQuiet, NotInsideWrite DEF WaitCollects, SystemCall
<1>5. CASE WaitBlocks
  BY <1>5, WaitBlocksIsQuiet
<1>6. CASE (\E status \in ExitStatuses : Exit(status)) \/ ProgramError
  BY <1>6, ExitIsQuiet DEF ProgramError
<1>7. CASE \E ticks \in -1 .. MaxDelay : Delay(ticks)
  BY <1>7, DelayIsQuiet
<1>8. CASE \E ticks \in -1 .. MaxDelay : DelayReturns(ticks)
  <2>1. PICK ticks \in -1 .. MaxDelay : DelayReturns(ticks)
    BY <1>8
  <2> DEFINE r == pcb[Head(queue)]
             s == [r EXCEPT !.delay = ticks]
  <2>2. r \in PCB /\ Listed' = Listed /\ Listed \subseteq DOMAIN pcb
    BY <2>1, CurrentIsKnown DEF DelayReturns, Listed, IInv, TypeOK
  <2>3. \A p \in Listed : pcb'[p] = pcb[p] \/ (p = Head(queue) /\ pcb'[p] = s)
    BY <2>1, <2>2 DEF DelayReturns
  <2> HIDE DEF r
  <2>4. SameWriting(s, r) /\ s.savedContext = r.savedContext
    BY <2>2 DEF PCB, SameWriting
  <2> HIDE DEF s
  <2>5. \A p \in Listed : /\ SameWriting(pcb'[p], pcb[p])
                          /\ pcb'[p].savedContext = pcb[p].savedContext
    BY <2>3, <2>4 DEF r, SameWriting
  <2> QED BY <2>2, <2>5 DEF TtyQuiet
<1>9. CASE WaitFails \/ Stopped \/ UNCHANGED procVars
  <2>1. UNCHANGED <<queue, pcb>>
    BY <1>9 DEF WaitFails, Stopped, procVars, schedVars
  <2> QED BY <2>1 DEF TtyQuiet, SameWriting, Listed
<1> QED BY <1>1, <1>2, <1>3, <1>4, <1>5, <1>6, <1>7, <1>8, <1>9 DEF ProcNext

-----------------------------------------------------------------------------
(* The buffers.                                                            *)

\* The types of the buffers and of what describes them.
BuffersTyped ==
  /\ buffer \in [Terminals -> [0 .. TERMINAL_MAX_LINE - 1 -> Chars]]
  /\ write \in [Terminals -> 0 .. TERMINAL_MAX_LINE - 1]
  /\ count \in [Terminals -> Int]
  /\ CountsFit => \A t \in Terminals : count[t] <= TERMINAL_MAX_LINE
  /\ unread \in [Terminals -> Seq(Chars)]

\* Stores go round the buffer from cell 0: until every cell has been stored to,
\* those below the write index have.  Of what is counted then, all but the g
\* cells that malloc's count is still to blame for is below the write index.
FilledUpTo(t, g) ==
  \/ \A c \in 0 .. TERMINAL_MAX_LINE - 1 : buffer[t][c] # Unset
  \/ /\ count[t] <= write[t] + g
     /\ \A c \in 0 .. write[t] - 1 : buffer[t][c] # Unset

StoredFirst ==
  \A t \in Terminals : \E g \in 0 .. Len(unread[t]) :
    /\ \A i \in 1 .. g : unread[t][i] = Unset
    /\ FilledUpTo(t, g)

\* The part of a text that fits.
LEMMA FittingFacts ==
  ASSUME BuffersTyped, NEW t \in Terminals, NEW text \in InputLines \cup OutputTexts
  PROVE  LET x == Fitting(t, text)
         IN  /\ x \in Seq(Chars)
             /\ count[t] <= TERMINAL_MAX_LINE
                  => count[t] + Len(x) <= TERMINAL_MAX_LINE
             /\ \A i \in 1 .. Len(x) : x[i] \in Chars \ {Unset}
<1> DEFINE x == Fitting(t, text)
           n == IF count[t] > TERMINAL_MAX_LINE THEN Len(text)
                ELSE Shorter(Len(text), TERMINAL_MAX_LINE - count[t])
<1>1. text \in Seq(STRING \ {Unset}) /\ Len(text) \in Nat
  BY TerminalsAssumption
<1>2. count[t] \in Int /\ TERMINAL_MAX_LINE \in Nat \ {0}
  BY TerminalsAssumption DEF BuffersTyped
<1>3. /\ n \in 0 .. Len(text)
      /\ count[t] <= TERMINAL_MAX_LINE => count[t] + n <= TERMINAL_MAX_LINE
  BY <1>1, <1>2 DEF Shorter
<1>4. x = SubSeq(text, 1, n)
  <2>1. CASE count[t] > TERMINAL_MAX_LINE
    <3>1. x = text /\ n = Len(text)
      BY <2>1 DEF Fitting
    <3>2. text = SubSeq(text, 1, Len(text))
      BY <1>1
    <3> QED BY <3>1, <3>2
  <2>2. CASE ~(count[t] > TERMINAL_MAX_LINE)
    BY <2>2 DEF Fitting
  <2> QED BY <2>1, <2>2
<1> HIDE DEF n, x
<1>5. /\ Len(x) = n
      /\ \A i \in 1 .. n : x[i] = text[i] /\ i \in 1 .. Len(text)
  BY <1>1, <1>3, <1>4
<1>6. \A i \in 1 .. Len(text) : text[i] \in Chars /\ text[i] # Unset
  <2> SUFFICES ASSUME NEW i \in 1 .. Len(text)
               PROVE  text[i] \in Chars /\ text[i] # Unset
    OBVIOUS
  <2>1. text[i] \in STRING \ {Unset} /\ i \in DOMAIN text
    BY <1>1
  <2> QED BY <2>1 DEF Chars
<1>7. x \in Seq(Chars)
  <2>1. x \in Seq(STRING \ {Unset})
    BY <1>1, <1>3, <1>4
  <2> QED BY <1>5, <1>6, <2>1
<1> QED BY <1>3, <1>5, <1>6, <1>7 DEF x

\* Among the characters that hit one cell there is a last one.
LEMMA LastHit ==
  ASSUME NEW n \in Nat, NEW I \in SUBSET (1 .. n), I # {}
  PROVE  \E i \in I : \A j \in I : j <= i
<1> DEFINE D == {n - i : i \in I}
<1>1. D \in SUBSET Nat /\ D # {}
  <2>1. \A i \in I : i \in 1 .. n /\ n - i \in Nat
    OBVIOUS
  <2>2. PICK i : i \in I
    OBVIOUS
  <2>3. n - i \in D
    BY <2>2
  <2> QED BY <2>1, <2>3
<1>2. PICK d \in D : \A e \in D : d <= e
  BY <1>1, LeastNumber
<1>3. PICK i \in I : d = n - i
  BY <1>2
<1>4. ASSUME NEW j \in I
      PROVE  j <= i
  <2>1. n - j \in D
    OBVIOUS
  <2>2. n - i <= n - j
    BY <1>2, <1>3, <2>1
  <2>3. i \in 1 .. n /\ j \in 1 .. n
    OBVIOUS
  <2> QED BY <2>2, <2>3
<1> QED BY <1>4

\* What the loop of writeBuffer leaves in the cells.
LEMMA StoredFromFacts ==
  ASSUME BuffersTyped, NEW t \in Terminals, NEW x \in Seq(Chars),
         \A i \in 1 .. Len(x) : x[i] \in Chars \ {Unset}
  PROVE  /\ StoredFrom(t, x) \in [0 .. TERMINAL_MAX_LINE - 1 -> Chars]
         /\ \A c \in 0 .. TERMINAL_MAX_LINE - 1 :
              /\ buffer[t][c] # Unset => StoredFrom(t, x)[c] # Unset
              /\ write[t] <= c /\ c < write[t] + Len(x)
                   => StoredFrom(t, x)[c] # Unset
<1> DEFINE s == StoredFrom(t, x)
           Hits(c) == {i \in 1 .. Len(x) : c = Cell(write[t], i - 1)}
<1>1. /\ DOMAIN buffer[t] = 0 .. TERMINAL_MAX_LINE - 1
      /\ write[t] \in 0 .. TERMINAL_MAX_LINE - 1
      /\ TERMINAL_MAX_LINE \in Nat \ {0}
      /\ \A c \in 0 .. TERMINAL_MAX_LINE - 1 : buffer[t][c] \in Chars
  BY TerminalsAssumption DEF BuffersTyped
<1>2. s = [c \in 0 .. TERMINAL_MAX_LINE - 1 |->
             IF Hits(c) = {} THEN buffer[t][c]
             ELSE x[CHOOSE i \in Hits(c) : \A j \in Hits(c) : j <= i]]
  BY <1>1 DEF StoredFrom, StoredAt
<1>3. \A c : Hits(c) \in SUBSET (1 .. Len(x))
  OBVIOUS
<1>4. ASSUME NEW c \in 0 .. TERMINAL_MAX_LINE - 1,
             write[t] <= c, c < write[t] + Len(x)
      PROVE  Hits(c) # {}
  <2>0. PICK w : w = write[t]
    OBVIOUS
  <2> DEFINE i == c - w + 1
  <2>1. i \in 1 .. Len(x) /\ i - 1 = c - w /\ w + (i - 1) = c
    <3>1. w \in Int /\ c \in Int /\ w <= c /\ c < w + Len(x) /\ Len(x) \in Int
      BY <1>1, <1>4, <2>0
    <3> QED BY <3>1
  <2>2. i - 1 \in 0 .. TERMINAL_MAX_LINE /\ c < TERMINAL_MAX_LINE
    <3>1. c - w \in 0 .. TERMINAL_MAX_LINE /\ c < TERMINAL_MAX_LINE
      BY <1>1, <1>4, <2>0
    <3> QED BY <2>1, <3>1
  <2> HIDE DEF i
  <2>3. Cell(write[t], i - 1) = c
    BY <1>1, <2>0, <2>1, <2>2, CellInRange
  <2> QED BY <2>1, <2>3
<1> HIDE DEF s, Hits
<1>5. ASSUME NEW c \in 0 .. TERMINAL_MAX_LINE - 1, Hits(c) # {}
      PROVE  s[c] \in Chars \ {Unset}
  <2> DEFINE i == CHOOSE i \in Hits(c) : \A j \in Hits(c) : j <= i
  <2>1. Len(x) \in Nat /\ Hits(c) \in SUBSET (1 .. Len(x))
    BY <1>3
  <2>2. \E k \in Hits(c) : \A j \in Hits(c) : j <= k
    BY <1>5, <2>1, LastHit
  <2>3. i \in Hits(c)
    BY <2>2
  <2>4. s[c] = x[i]
    BY <1>2, <1>5
  <2> HIDE DEF i
  <2> QED BY <2>1, <2>3, <2>4
<1>6. ASSUME NEW c \in 0 .. TERMINAL_MAX_LINE - 1, Hits(c) = {}
      PROVE  s[c] = buffer[t][c]
  BY <1>2, <1>6
<1>7. \A c \in 0 .. TERMINAL_MAX_LINE - 1 : s[c] \in Chars
  BY <1>1, <1>5, <1>6
<1>8. s \in [0 .. TERMINAL_MAX_LINE - 1 -> Chars]
  BY <1>2, <1>7
<1> QED BY <1>4, <1>5, <1>6, <1>8 DEF s

\* Storing a text keeps the types and the order in which cells are filled.
LEMMA StoreKeepsBuffers ==
  ASSUME BuffersTyped, NEW t \in Terminals, NEW text \in InputLines \cup OutputTexts,
         Store(t, text)
  PROVE  BuffersTyped' /\ (StoredFirst => StoredFirst')
<1> DEFINE x == Fitting(t, text)
           s == StoredFrom(t, x)
           n == Len(x)
           w == write[t]
<1>1. /\ x \in Seq(Chars) /\ n \in Nat
      /\ count[t] <= TERMINAL_MAX_LINE => count[t] + n <= TERMINAL_MAX_LINE
      /\ \A i \in 1 .. n : x[i] \in Chars \ {Unset}
  BY FittingFacts
<1>2. /\ count[t] \in Int /\ w \in 0 .. TERMINAL_MAX_LINE - 1
      /\ TERMINAL_MAX_LINE \in Nat \ {0} /\ unread[t] \in Seq(Chars)
  BY TerminalsAssumption DEF BuffersTyped
<1>3. /\ s \in [0 .. TERMINAL_MAX_LINE - 1 -> Chars]
      /\ \A c \in 0 .. TERMINAL_MAX_LINE - 1 :
           /\ buffer[t][c] # Unset => s[c] # Unset
           /\ w <= c /\ c < w + n => s[c] # Unset
  BY <1>1, StoredFromFacts
<1>4. /\ buffer' = [buffer EXCEPT ![t] = s]
      /\ write' = [write EXCEPT ![t] = Cell(w, n)]
      /\ count' = [count EXCEPT ![t] = count[t] + n]
      /\ unread' = [unread EXCEPT ![t] = unread[t] \o x]
  BY DEF Store
<1> HIDE DEF x, s, n, w
<1>5. Cell(w, n) \in 0 .. TERMINAL_MAX_LINE - 1
  BY <1>1, <1>2 DEF Cell
<1>6. w + n < TERMINAL_MAX_LINE => Cell(w, n) = w + n
  BY <1>1, <1>2, CellInRange
<1>7. count[t] + n \in Int /\ unread[t] \o x \in Seq(Chars)
  BY <1>1, <1>2
<1>8. BuffersTyped'
  <2>1. CountsFit' <=> CountsFit
    BY DEF CountsFit
  <2>2. ASSUME CountsFit, NEW u \in Terminals
        PROVE  count'[u] <= TERMINAL_MAX_LINE
    <3>1. count[u] <= TERMINAL_MAX_LINE
      BY <2>2 DEF BuffersTyped
    <3>2. count'[u] = IF u = t THEN count[t] + n ELSE count[u]
      BY <1>4 DEF BuffersTyped
    <3> QED BY <1>1, <3>1, <3>2
  <2>3. /\ buffer' \in [Terminals -> [0 .. TERMINAL_MAX_LINE - 1 -> Chars]]
        /\ write' \in [Terminals -> 0 .. TERMINAL_MAX_LINE - 1]
        /\ count' \in [Terminals -> Int]
        /\ unread' \in [Terminals -> Seq(Chars)]
    BY <1>3, <1>4, <1>5, <1>7 DEF BuffersTyped
  <2> QED BY <2>1, <2>2, <2>3 DEF BuffersTyped
<1>9. ASSUME NEW g \in 0 .. Len(unread[t]), FilledUpTo(t, g)
      PROVE  FilledUpTo(t, g)'
  <2>1. buffer'[t] = s /\ write'[t] = Cell(w, n) /\ count'[t] = count[t] + n
    BY <1>4 DEF BuffersTyped
  <2>2. CASE \A c \in 0 .. TERMINAL_MAX_LINE - 1 : buffer[t][c] # Unset
    <3>1. \A c \in 0 .. TERMINAL_MAX_LINE - 1 : s[c] # Unset
      BY <1>3, <2>2
    <3> QED BY <2>1, <3>1 DEF FilledUpTo
  <2>3. CASE count[t] <= w + g /\ \A c \in 0 .. w - 1 : buffer[t][c] # Unset
    <3>0. g \in Nat
      BY <1>2
    <3>1. \A c \in 0 .. TERMINAL_MAX_LINE - 1 : c < w + n => s[c] # Unset
      <4> SUFFICES ASSUME NEW c \in 0 .. TERMINAL_MAX_LINE - 1, c < w + n
                   PROVE  s[c] # Unset
        OBVIOUS
      <4>1. c \in 0 .. w - 1 \/ w <= c
        BY <1>2
      <4> QED BY <1>3, <2>3, <4>1
    <3>2. CASE w + n < TERMINAL_MAX_LINE
      <4>1. write'[t] = w + n /\ count'[t] <= write'[t] + g
        BY <1>1, <1>2, <1>6, <2>1, <2>3, <3>0, <3>2
      <4>2. ASSUME NEW c \in 0 .. write'[t] - 1
            PROVE  buffer'[t][c] # Unset
        <5>1. c \in 0 .. TERMINAL_MAX_LINE - 1 /\ c < w + n
          BY <1>1, <1>2, <3>2, <4>1
        <5> QED BY <2>1, <3>1, <5>1
      <4> QED BY <4>1, <4>2 DEF FilledUpTo
    <3>3. CASE w + n >= TERMINAL_MAX_LINE
      <4>1. \A c \in 0 .. TERMINAL_MAX_LINE - 1 : c < w + n
        BY <1>1, <1>2, <3>3
      <4> QED BY <2>1, <3>1, <4>1 DEF FilledUpTo
    <3> QED BY <1>1, <1>2, <3>2, <3>3
  <2> QED BY <1>9, <2>2, <2>3 DEF FilledUpTo, w
<1>10. ASSUME StoredFirst, NEW u \in Terminals
       PROVE  \E g \in 0 .. Len(unread'[u]) :
                /\ \A i \in 1 .. g : unread'[u][i] = Unset
                /\ FilledUpTo(u, g)'
  <2>1. PICK g \in 0 .. Len(unread[u]) :
          (\A i \in 1 .. g : unread[u][i] = Unset) /\ FilledUpTo(u, g)
    BY <1>10 DEF StoredFirst
  <2>2. CASE u # t
    <3>1. /\ buffer'[u] = buffer[u] /\ write'[u] = write[u]
          /\ count'[u] = count[u] /\ unread'[u] = unread[u]
      BY <1>4, <2>2 DEF BuffersTyped
    <3> QED BY <2>1, <3>1 DEF FilledUpTo
  <2>3. CASE u = t
    <3>1. unread'[t] = unread[t] \o x
      BY <1>4 DEF BuffersTyped
    <3>2. /\ Len(unread[t] \o x) = Len(unread[t]) + n
          /\ \A i \in 1 .. Len(unread[t]) : (unread[t] \o x)[i] = unread[t][i]
      BY <1>1, <1>2, ConcatProperties DEF n
    <3>3. g \in 0 .. Len(unread'[t]) /\ \A i \in 1 .. g : i \in 1 .. Len(unread[t])
      BY <1>1, <1>2, <2>1, <2>3, <3>1, <3>2
    <3>4. \A i \in 1 .. g : unread'[t][i] = Unset
      BY <2>1, <2>3, <3>1, <3>2, <3>3
    <3>5. FilledUpTo(t, g)'
      BY <1>9, <2>1, <2>3
    <3> QED BY <2>3, <3>3, <3>4, <3>5
  <2> QED BY <2>2, <2>3
<1> QED BY <1>8, <1>10 DEF StoredFirst

\* Reading takes the oldest away, and as many from the count.
LEMMA TakeKeepsBuffers ==
  ASSUME BuffersTyped, NEW t \in Terminals, NEW len \in ReadLengths,
         isNewLineInBuffer(t), Take(t, len)
  PROVE  BuffersTyped' /\ (StoredFirst => StoredFirst')
<1> DEFINE n == Shorter(len, count[t])
           q == unread[t]
<1>1. /\ len \in Nat /\ TERMINAL_MAX_LINE \in Nat
      /\ count[t] \in Int /\ q \in Seq(Chars) /\ Len(q) \in Nat
      /\ write[t] \in 0 .. TERMINAL_MAX_LINE - 1
  BY TerminalsAssumption DEF BuffersTyped
<1>2. count[t] >= 1
  BY <1>1 DEF isNewLineInBuffer
<1>3. n \in Nat
  BY <1>1, <1>2 DEF Shorter
<1>4. /\ count' = [count EXCEPT ![t] = count[t] - n]
      /\ unread' = [unread EXCEPT ![t] = SubSeq(q, n + 1, Len(q))]
      /\ UNCHANGED <<buffer, write>>
  BY DEF Take
<1> HIDE DEF n, q
<1>5. SubSeq(q, n + 1, Len(q)) \in Seq(Chars)
  BY <1>1, <1>3
<1>6. BuffersTyped'
  <2>1. ASSUME CountsFit, NEW u \in Terminals
        PROVE  count'[u] <= TERMINAL_MAX_LINE
    <3>1. count[u] <= TERMINAL_MAX_LINE
      BY <2>1 DEF BuffersTyped
    <3>2. count'[u] = IF u = t THEN count[t] - n ELSE count[u]
      BY <1>4 DEF BuffersTyped
    <3> QED BY <1>1, <1>3, <3>1, <3>2
  <2>2. /\ buffer' \in [Terminals -> [0 .. TERMINAL_MAX_LINE - 1 -> Chars]]
        /\ write' \in [Terminals -> 0 .. TERMINAL_MAX_LINE - 1]
        /\ count' \in [Terminals -> Int]
        /\ unread' \in [Terminals -> Seq(Chars)]
    BY <1>1, <1>3, <1>4, <1>5 DEF BuffersTyped
  <2>3. CountsFit' <=> CountsFit
    BY DEF CountsFit
  <2> QED BY <2>1, <2>2, <2>3 DEF BuffersTyped
<1>7. ASSUME StoredFirst, NEW u \in Terminals
      PROVE  \E g \in 0 .. Len(unread'[u]) :
               /\ \A i \in 1 .. g : unread'[u][i] = Unset
               /\ FilledUpTo(u, g)'
  <2>1. PICK g \in 0 .. Len(unread[u]) :
          (\A i \in 1 .. g : unread[u][i] = Unset) /\ FilledUpTo(u, g)
    BY <1>7 DEF StoredFirst
  <2>2. CASE u # t
    <3>1. count'[u] = count[u] /\ unread'[u] = unread[u]
      BY <1>4, <2>2 DEF BuffersTyped
    <3> QED BY <1>4, <2>1, <3>1 DEF FilledUpTo
  <2>3. CASE u = t
    <3>1. unread'[t] = SubSeq(q, n + 1, Len(q)) /\ count'[t] = count[t] - n
      BY <1>4 DEF BuffersTyped
    <3>2. g \in Nat /\ g <= Len(q)
      BY <1>1, <2>1, <2>3 DEF q
    <3>3. CASE n >= g
      <4>1. FilledUpTo(t, 0)'
        BY <1>1, <1>3, <1>4, <2>1, <2>3, <3>1, <3>2, <3>3 DEF FilledUpTo
      <4>2. 0 \in 0 .. Len(unread'[t])
        BY <1>5, <3>1
      <4> QED BY <2>3, <4>1, <4>2
    <3>4. CASE n < g
      <4>1. /\ Len(unread'[t]) = Len(q) - n
            /\ \A i \in 1 .. Len(q) - n : unread'[t][i] = q[n + i]
        BY <1>1, <1>3, <3>1, <3>2, <3>4
      <4>2. g - n \in 0 .. Len(unread'[t])
        BY <1>1, <1>3, <3>2, <3>4, <4>1
      <4>3. \A i \in 1 .. g - n : unread'[t][i] = Unset
        <5> SUFFICES ASSUME NEW i \in 1 .. g - n PROVE unread'[t][i] = Unset
          OBVIOUS
        <5>1. i \in 1 .. Len(q) - n /\ n + i \in 1 .. g
          BY <1>1, <1>3, <3>2, <3>4
        <5> QED BY <2>1, <2>3, <4>1, <5>1 DEF q
      <4>4. PICK h \in 0 .. Len(unread'[t]) : h = g - n
        BY <4>2
      <4>5. FilledUpTo(t, h)'
        <5>1. count[t] <= write[t] + g => count'[t] <= write[t] + h
          BY <1>1, <1>3, <3>1, <3>2, <4>4
        <5> QED BY <1>4, <2>1, <2>3, <5>1 DEF FilledUpTo
      <4> QED BY <2>3, <4>3, <4>4, <4>5
    <3> QED BY <1>3, <3>2, <3>3, <3>4
  <2> QED BY <2>2, <2>3
<1> QED BY <1>6, <1>7 DEF StoredFirst

\* In that order, what is counted has been stored, or malloc's count is to blame.
LEMMA CountedIsStored == BuffersTyped /\ StoredFirst => UnstoredOnlyFromMalloc
<1> SUFFICES ASSUME BuffersTyped, StoredFirst, NEW t \in Terminals,
                    NEW i \in 1 .. count[t], Visible(t)[i] = Unset
             PROVE  \E j \in 1 .. Len(unread[t]) : unread[t][j] = Unset
  BY DEF UnstoredOnlyFromMalloc
<1>1. /\ count[t] \in Int /\ TERMINAL_MAX_LINE \in Nat \ {0}
      /\ write[t] \in 0 .. TERMINAL_MAX_LINE - 1
      /\ unread[t] \in Seq(Chars) /\ Len(unread[t]) \in Nat
  BY TerminalsAssumption DEF BuffersTyped
<1>2. PICK g \in 0 .. Len(unread[t]) :
        (\A j \in 1 .. g : unread[t][j] = Unset) /\ FilledUpTo(t, g)
  BY DEF StoredFirst
<1>3. SUFFICES ASSUME g = 0 PROVE FALSE
  <2>1. g # 0 => 1 \in 1 .. g /\ 1 \in 1 .. Len(unread[t])
    BY <1>1
  <2> QED BY <1>2, <2>1
<1>4. i \in Nat /\ i - 1 \in Nat /\ i - 1 < count[t]
  BY <1>1
<1>5. Cell(0, i - 1) \in 0 .. TERMINAL_MAX_LINE - 1
  BY <1>1, <1>4 DEF Cell
<1>6. Visible(t)[i] = buffer[t][Cell(0, i - 1)]
  BY DEF Visible, read
<1>7. count[t] <= write[t] /\ \A c \in 0 .. write[t] - 1 : buffer[t][c] # Unset
  BY <1>1, <1>2, <1>3, <1>5, <1>6 DEF FilledUpTo
<1>8. i - 1 \in 0 .. write[t] - 1 /\ i - 1 \in 0 .. TERMINAL_MAX_LINE
      /\ 0 + (i - 1) < TERMINAL_MAX_LINE /\ 0 + (i - 1) = i - 1
  BY <1>1, <1>4, <1>7
<1>9. Cell(0, i - 1) = i - 1
  <2>1. 0 \in 0 .. TERMINAL_MAX_LINE - 1
    BY <1>1
  <2> QED BY <1>8, <2>1, CellInRange
<1> QED BY <1>6, <1>7, <1>8, <1>9

-----------------------------------------------------------------------------
(* Writing.                                                                *)

\* The processes inside TtyWrite, waiting or woken.
Inside(t) ==
  {p \in Listed : pcb[p].savedContext = [at |-> "write", arg |-> t]}

\* The running process is not inside a write, or inside this one; if not
\* inside one, the bound lets it in.
MayWrite(t) ==
  /\ Current \in Listed /\ Listed' = Listed
  /\ pcb[Current].savedContext.at = "write" => Current \in Inside(t)
  /\ MayTransmit(t) \/ Current \in Inside(t)
  /\ \A p \in Listed \ {Current} :
       /\ SameWriting(pcb'[p], pcb[p])
       /\ pcb'[p].savedContext = pcb[p].savedContext

\* It starts a transmission and is back in user mode.
Transmits(t) ==
  /\ MayWrite(t)
  /\ Writers(t) = {}
  /\ pcb'[Current].isWriting = t
  /\ pcb'[Current].isWaitWriting = NoTerminal
  /\ pcb'[Current].savedContext.at # "write"
  /\ transmitting' = [transmitting EXCEPT ![t] = @ + 1]

\* It waits for the one that is writing.
Parks(t) ==
  /\ MayWrite(t)
  /\ Writers(t) # {}
  /\ pcb'[Current].isWriting = pcb[Current].isWriting
  /\ pcb'[Current].isWaitWriting = t
  /\ pcb'[Current].savedContext = [at |-> "write", arg |-> t]
  /\ UNCHANGED transmitting

\* A transmission ends.
Ends(t) ==
  /\ Listed' = Listed
  /\ transmitting[t] > 0
  /\ transmitting' = [transmitting EXCEPT ![t] = @ - 1]
  /\ \A p \in Listed :
       /\ pcb'[p].isWriting = IF p = getWritingPCB(t) THEN NoTerminal
                              ELSE pcb[p].isWriting
       /\ pcb'[p].isWaitWriting = IF p = NextWriter(t) THEN NoTerminal
                                  ELSE pcb[p].isWaitWriting
       /\ pcb'[p].savedContext = pcb[p].savedContext

\* The running process waits for nothing.
LEMMA CallerAwake ==
  ASSUME IInv, SystemCall \/ \E t \in Terminals : InsideWrite(t) \/ InsideRead(t)
  PROVE  pcb[Current].isWaitWriting = NoTerminal
BY CallerFacts DEF IInv, RunnerAwake, IsAsleep

\* Calls of TtyWrite, first time or after waiting, are of one of these kinds.
LEMMA WriteTransmits ==
  ASSUME IInv, NEW t \in Terminals, NEW text \in OutputTexts,
         TtyWrite(t, text) \/ WriteResumes(t, text)
  PROVE  Transmits(t)
<1> DEFINE P == Marked(t)
<1>1. /\ SystemCall \/ InsideWrite(t)
      /\ getWritingPCB(t) = NULL
      /\ transmitting' = [transmitting EXCEPT ![t] = @ + 1]
      /\ UNCHANGED queue
  BY DEF TtyWrite, WriteResumes, Transmit
<1>2. /\ Current \in DOMAIN pcb /\ Current \in Listed /\ TypeOK
      /\ Listed \subseteq DOMAIN pcb
      /\ pcb[Current].isWaitWriting = NoTerminal
  BY <1>1, CallerFacts, CallerAwake DEF IInv, NoLostProcess
<1>3. /\ P \in [DOMAIN pcb -> PCB]
      /\ \A p \in Listed :
           /\ P[p].isWriting = IF p = Current THEN t ELSE pcb[p].isWriting
           /\ P[p].isWaitWriting = pcb[p].isWaitWriting
           /\ p # Current => P[p] = pcb[p]
           /\ P[p].savedContext = pcb[p].savedContext
  BY <1>2, CallerMarked DEF Alike
<1> HIDE DEF P
<1>4. Writers(t) = {}
  BY <1>1, <1>2, FirstListedIsListed DEF getWritingPCB, Writers
<1>5. Listed' = Listed
  BY <1>1 DEF Listed
<1>6. CASE TtyWrite(t, text)
  <2>1. pcb' = P /\ MayTransmit(t) /\ pcb[Current].savedContext.at # "write"
    BY <1>6, NotInsideWrite DEF TtyWrite, SystemCall, P
  <2> QED BY <1>1, <1>2, <1>3, <1>4, <1>5, <2>1
          DEF Transmits, MayWrite, SameWriting
<1>7. CASE WriteResumes(t, text)
  <2>1. BackToUser(P) /\ Current \in Inside(t)
    BY <1>2, <1>7 DEF WriteResumes, InsideWrite, Inside, P
  <2>2. \A p \in Listed :
          /\ SameWriting(pcb'[p], P[p])
          /\ pcb'[p].savedContext = IF p = Current THEN InUserMode
                                    ELSE P[p].savedContext
    BY <1>1, <1>3, <2>1, BackToUserTty
  <2>3. InUserMode.at # "write"
    BY DEF InUserMode
  <2> QED BY <1>1, <1>2, <1>3, <1>4, <1>5, <2>1, <2>2, <2>3
          DEF Transmits, MayWrite, SameWriting
<1> QED BY <1>6, <1>7

\* A writer that finds another one marked waits behind it.
LEMMA WriteParks ==
  ASSUME IInv, NEW t \in Terminals, TtyWriteBlocks(t) \/ WriteWaitsAgain(t)
  PROVE  Parks(t)
<1> DEFINE P == ParkedWriter(t)
           k == [at |-> "write", arg |-> t]
<1>1. /\ SystemCall \/ InsideWrite(t)
      /\ getWritingPCB(t) # NULL
      /\ UNCHANGED transmitting
  BY DEF TtyWriteBlocks, WriteWaitsAgain, ttyVars
<1>2. /\ Current \in DOMAIN pcb /\ Current \in Listed /\ TypeOK
      /\ Listed \subseteq DOMAIN pcb
  BY <1>1, CallerFacts DEF IInv, NoLostProcess
<1>3. /\ P \in [DOMAIN pcb -> PCB]
      /\ \A p \in Listed :
           /\ P[p].isWriting = pcb[p].isWriting
           /\ P[p].isWaitWriting = IF p = Current THEN t ELSE pcb[p].isWaitWriting
           /\ p # Current => P[p] = pcb[p]
  BY <1>2, CallerParkedToWrite
<1>4. Writers(t) # {}
  BY <1>1, <1>2, FirstListedIsListed DEF getWritingPCB, Writers
<1>5. Schedule(P, k)
  <2>1. CASE TtyWriteBlocks(t)
    BY <2>1 DEF TtyWriteBlocks
  <2>2. CASE WriteWaitsAgain(t)
    BY <2>2, WaitsAgainIsPark DEF WriteWaitsAgain
  <2> QED BY <2>1, <2>2
<1> HIDE DEF P
<1>6. /\ Listed' = Listed
      /\ \A p \in Listed :
           /\ SameWriting(pcb'[p], P[p])
           /\ pcb'[p].savedContext = IF p = Current THEN k ELSE P[p].savedContext
  BY <1>3, <1>5, InsideTty, ScheduleTty
<1>7. pcb[Current].savedContext.at = "write" => Current \in Inside(t)
  BY <1>1, <1>2, NotInsideWrite DEF SystemCall, InsideWrite, Inside
<1>8. MayTransmit(t) \/ Current \in Inside(t)
  BY <1>2 DEF TtyWriteBlocks, WriteWaitsAgain, InsideWrite, Inside
<1> QED BY <1>1, <1>2, <1>3, <1>4, <1>6, <1>7, <1>8
        DEF Parks, MayWrite, SameWriting

\* So is the interrupt at the end of a transmission.
LEMMA InterruptEnds ==
  ASSUME IInv, NEW t \in Terminals, TransmitInterrupt(t)
  PROVE  Ends(t)
<1> DEFINE P == AfterTransmit(t)
<1>1. /\ pcb' = P /\ Listed' = Listed
      /\ transmitting[t] > 0
      /\ transmitting' = [transmitting EXCEPT ![t] = @ - 1]
  BY DEF TransmitInterrupt, Listed
<1>2. TypeOK /\ Listed \subseteq DOMAIN pcb
  BY DEF IInv, NoLostProcess
<1>3. \A p \in DOMAIN pcb :
        /\ Alike(P[p], pcb[p])
        /\ P[p].isWriting = IF p = getWritingPCB(t) THEN NoTerminal
                            ELSE pcb[p].isWriting
        /\ P[p].isWaitWriting = IF p = NextWriter(t) THEN NoTerminal
                                ELSE pcb[p].isWaitWriting
  BY <1>2, TransmitUnmarks
<1> HIDE DEF P
<1> QED BY <1>1, <1>2, <1>3 DEF Ends, Alike

\* Reading, and input, have nothing to do with writing.
LEMMA ReadingIsQuiet ==
  ASSUME IInv, NEW t \in Terminals,
         \/ \E len \in ReadLengths : TtyRead(t, len) \/ ReadResumes(t, len)
         \/ TtyReadBlocks(t) \/ ReadWaitsAgain(t)
         \/ \E line \in InputLines : ReceiveInterrupt(t, line)
  PROVE  TtyQuiet /\ UNCHANGED transmitting
<1>1. UNCHANGED transmitting
  BY DEF TtyRead, ReadResumes, TtyReadBlocks, ReadWaitsAgain, ReceiveInterrupt,
         Take, ttyVars
<1>2. Listed \subseteq DOMAIN pcb /\ pcb \in [DOMAIN pcb -> PCB] /\ TypeOK
  BY DEF IInv, NoLostProcess, TypeOK
<1>3. CASE \E len \in ReadLengths : TtyRead(t, len)
  <2>1. UNCHANGED procVars
    BY <1>3 DEF TtyRead
  <2> QED BY <1>1, <2>1, ProcessesAreQuiet
<1>4. CASE \E len \in ReadLengths : ReadResumes(t, len)
  <2>1. BackToUser(pcb) /\ UNCHANGED queue /\ pcb[Current].savedContext.at # "write"
    BY <1>4 DEF ReadResumes, InsideRead
  <2>2. \A p \in Listed : SameWriting(pcb[p], pcb[p])
    BY DEF SameWriting
  <2> QED BY <1>1, <1>2, <2>1, <2>2, LeavingIsQuiet
<1>5. CASE TtyReadBlocks(t) \/ ReadWaitsAgain(t)
  <2> DEFINE P == ParkedReader(t)
             k == [at |-> "read", arg |-> t]
  <2>1. SystemCall \/ InsideRead(t)
    BY <1>5 DEF TtyReadBlocks, ReadWaitsAgain
  <2>2. Current \in DOMAIN pcb
    BY <2>1, CallerFacts
  <2>3. pcb[Current].savedContext.at # "write"
    BY <2>1, NotInsideWrite DEF SystemCall, InsideRead
  <2>4. Schedule(P, k)
    <3>1. CASE TtyReadBlocks(t)
      BY <3>1 DEF TtyReadBlocks
    <3>2. CASE ReadWaitsAgain(t)
      BY <3>2, WaitsAgainIsPark DEF ReadWaitsAgain
    <3> QED BY <1>5, <3>1, <3>2
  <2>5. /\ P \in [DOMAIN pcb -> PCB]
        /\ \A p \in Listed : /\ SameWriting(P[p], pcb[p])
                             /\ P[p].savedContext = pcb[p].savedContext
    BY <1>2, <2>2, CallerParkedToRead DEF SameWriting, Alike
  <2> HIDE DEF P
  <2>6. k \in Continuations /\ k.at # "write"
    BY InsideTty
  <2> QED BY <1>1, <2>3, <2>4, <2>5, <2>6, ScheduleIsQuiet
<1>6. CASE \E line \in InputLines : ReceiveInterrupt(t, line)
  <2>1. Listed' = Listed /\ (pcb' = AfterReceive(t) \/ pcb' = pcb)
    BY <1>6 DEF ReceiveInterrupt, Listed
  <2>2. \A p \in Listed : /\ SameWriting(AfterReceive(t)[p], pcb[p])
                          /\ AfterReceive(t)[p].savedContext = pcb[p].savedContext
    BY <1>2, ReceiveWakes DEF SameWriting, Alike
  <2>3. \A p \in Listed : /\ SameWriting(pcb'[p], pcb[p])
                          /\ pcb'[p].savedContext = pcb[p].savedContext
    BY <2>1, <2>2 DEF SameWriting
  <2> QED BY <1>1, <2>1, <2>3 DEF TtyQuiet
<1> QED BY <1>3, <1>4, <1>5, <1>6

\* Every step is of one of the four kinds.
LEMMA WritingSteps ==
  ASSUME IInv, [TermNext]_termVars
  PROVE  \/ TtyQuiet /\ UNCHANGED transmitting
         \/ \E t \in Terminals : Transmits(t) \/ Parks(t) \/ Ends(t)
<1>1. CASE ProcNext /\ UNCHANGED ttyVars
  BY <1>1, ProcessesAreQuiet DEF ttyVars
<1>2. CASE UNCHANGED termVars
  BY <1>2, ProcessesAreQuiet DEF termVars, ttyVars
<1>3. ASSUME NEW t \in Terminals,
             \/ \E text \in OutputTexts : TtyWrite(t, text)
             \/ TtyWriteBlocks(t)
             \/ \E len \in ReadLengths : TtyRead(t, len)
             \/ TtyReadBlocks(t)
             \/ CallReturns(t)
             \/ TransmitInterrupt(t)
             \/ \E line \in InputLines : ReceiveInterrupt(t, line)
      PROVE  \/ TtyQuiet /\ UNCHANGED transmitting
             \/ Transmits(t) \/ Parks(t) \/ Ends(t)
  <2>1. CASE \E text \in OutputTexts : TtyWrite(t, text) \/ WriteResumes(t, text)
    BY <2>1, WriteTransmits
  <2>2. CASE TtyWriteBlocks(t) \/ WriteWaitsAgain(t)
    BY <2>2, WriteParks
  <2>3. CASE TransmitInterrupt(t)
    BY <2>3, InterruptEnds
  <2>4. CASE \/ \E len \in ReadLengths : TtyRead(t, len) \/ ReadResumes(t, len)
             \/ TtyReadBlocks(t) \/ ReadWaitsAgain(t)
             \/ \E line \in InputLines : ReceiveInterrupt(t, line)
    BY <2>4, ReadingIsQuiet
  <2> QED BY <1>3, <2>1, <2>2, <2>3, <2>4 DEF CallReturns
<1> QED BY <1>1, <1>2, <1>3 DEF TermNext

\* Who waits to write to a terminal is inside a write to it.
WritersWaitInside ==
  \A p \in Listed, t \in Terminals : pcb[p].isWaitWriting = t => p \in Inside(t)

\* OneWriterTransmitting, without counting.
OneWriter ==
  \A t \in Terminals : /\ \A p, q \in Writers(t) : p = q
                       /\ Writers(t) # {} => transmitting[t] > 0

\* The calls that are made are those that the bound has room for.
TransmissionsBounded ==
  /\ transmitting \in [Terminals -> Nat]
  /\ \A t \in Terminals :
       transmitting[t] + Cardinality(Inside(t)) <= MaxTransmissions

\* What is needed about writing, beside the invariant of the processes.
WritingInv == /\ WritersWaitInside
              /\ OneWriter
              /\ TransmissionsBounded
              /\ WaitingWriterHasWaker

\* Terminals are numbers, no terminal is not.
LEMMA TerminalIsSome == NoTerminal \notin Terminals
BY SchedulingAssumption DEF NoTerminal

\* A set of listed processes is finite.
LEMMA ListedFinite ==
  ASSUME TypeOK, NEW S \in SUBSET Listed
  PROVE  IsFiniteSet(S) /\ Cardinality(S) \in Nat
<1>1. IsFiniteSet(UserPids)
  BY SchedulingAssumption, FS_Interval DEF UserPids
<1>2. S \subseteq UserPids
  BY SMTT(30), ElementOfSeq DEF Listed, TypeOK
<1> QED BY <1>1, <1>2, FS_Subset, FS_CardinalityType

\* Counting the writers.
LEMMA OneWriterCounted == TypeOK /\ OneWriter => OneWriterTransmitting
<1> SUFFICES ASSUME TypeOK, OneWriter, NEW t \in Terminals
             PROVE  /\ Cardinality(Writers(t)) <= 1
                    /\ Writers(t) # {} => transmitting[t] > 0
  BY DEF OneWriterTransmitting
<1>1. CASE Writers(t) = {}
  BY <1>1, FS_EmptySet
<1>2. CASE Writers(t) # {}
  <2>1. PICK p : Writers(t) = {p}
    BY <1>2 DEF OneWriter
  <2>2. Cardinality(Writers(t)) = 1
    BY <2>1, FS_Singleton
  <2> QED BY <2>2 DEF OneWriter
<1> QED BY <1>1, <1>2

\* A quiet step keeps it all.
LEMMA QuietKeepsWriting ==
  ASSUME WritingInv, TtyQuiet, UNCHANGED transmitting
  PROVE  WritingInv'
<1>1. NoTerminal \notin Terminals
  BY TerminalIsSome
<1>2. \A t \in Terminals : Inside(t)' = Inside(t)
  BY DEF Inside, TtyQuiet
<1>3. \A t \in Terminals : Writers(t)' \subseteq Writers(t)
  BY <1>1 DEF Writers, TtyQuiet, SameWriting
<1>4. \A t \in Terminals : WaitingWriters(t)' \subseteq WaitingWriters(t)
  BY <1>1 DEF WaitingWriters, TtyQuiet, SameWriting
<1>5. WritersWaitInside'
  <2> SUFFICES ASSUME NEW p \in Listed', NEW t \in Terminals,
                      pcb'[p].isWaitWriting = t
               PROVE  p \in Inside(t)'
    BY DEF WritersWaitInside
  <2>1. p \in WaitingWriters(t)
    BY <1>4 DEF WaitingWriters
  <2> QED BY <1>2, <2>1 DEF WaitingWriters, WritingInv, WritersWaitInside
<1>6. OneWriter'
  BY <1>3 DEF WritingInv, OneWriter
<1>7. TransmissionsBounded'
  BY <1>2 DEF WritingInv, TransmissionsBounded
<1>8. WaitingWriterHasWaker'
  <2> SUFFICES ASSUME NEW t \in Terminals, WaitingWriters(t)' # {},
                      ~(transmitting[t] > 0)
               PROVE  \E p \in Listed' :
                        /\ pcb'[p].savedContext = [at |-> "write", arg |-> t]
                        /\ pcb'[p].isWaitWriting = NoTerminal
    BY DEF WaitingWriterHasWaker
  <2>1. WaitingWriters(t) # {}
    BY <1>4
  <2>2. PICK p \in Listed : /\ pcb[p].savedContext = [at |-> "write", arg |-> t]
                            /\ pcb[p].isWaitWriting = NoTerminal
    BY <2>1 DEF WritingInv, WaitingWriterHasWaker
  <2>3. pcb[p].savedContext.at = "write"
    BY <2>2
  <2> QED BY <2>2, <2>3 DEF TtyQuiet, SameWriting
<1> QED BY <1>5, <1>6, <1>7, <1>8 DEF WritingInv

\* What a call of TtyWrite leaves alone.
LEMMA MayWriteFacts ==
  ASSUME NEW t \in Terminals, MayWrite(t)
  PROVE  \A u \in Terminals \ {t} :
           /\ Current \notin Inside(u)
           /\ \A p \in Listed \ {Current} :
                /\ p \in Inside(u)' <=> p \in Inside(u)
                /\ p \in Writers(u)' <=> p \in Writers(u)
                /\ p \in WaitingWriters(u)' <=> p \in WaitingWriters(u)
BY DEF MayWrite, Inside, Writers, WaitingWriters, SameWriting

\* Room in the bound for the one who comes in.
LEMMA BoundHasRoom ==
  ASSUME TypeOK, TransmissionsBounded, NEW t \in Terminals, MayWrite(t),
         Current \notin Inside(t)
  PROVE  transmitting[t] + Cardinality(Inside(t)) < MaxTransmissions
BY DEF MayWrite, MayTransmit, Inside

\* Starting a transmission keeps it all.
LEMMA TransmitKeepsWriting ==
  ASSUME IInv, WritingInv, NEW t \in Terminals, Transmits(t)
  PROVE  WritingInv'
<1>1. NoTerminal \notin Terminals
  BY TerminalIsSome
<1>2. /\ MayWrite(t) /\ Current \in Listed /\ Listed' = Listed
      /\ Writers(t) = {}
      /\ pcb'[Current].isWriting = t
      /\ pcb'[Current].isWaitWriting = NoTerminal
      /\ pcb'[Current].savedContext.at # "write"
      /\ \A p \in Listed \ {Current} :
           /\ SameWriting(pcb'[p], pcb[p])
           /\ pcb'[p].savedContext = pcb[p].savedContext
  BY DEF Transmits, MayWrite
<1>3. /\ transmitting \in [Terminals -> Nat]
      /\ transmitting' = [transmitting EXCEPT ![t] = transmitting[t] + 1]
  BY DEF Transmits, WritingInv, TransmissionsBounded
<1>4. \A u \in Terminals : Inside(u)' = Inside(u) \ {Current}
  BY <1>2 DEF Inside
<1>5. \A u \in Terminals : WaitingWriters(u)' \subseteq WaitingWriters(u) \ {Current}
  BY <1>1, <1>2 DEF WaitingWriters, SameWriting
<1>6. WritersWaitInside'
  <2> SUFFICES ASSUME NEW p \in Listed', NEW u \in Terminals,
                      pcb'[p].isWaitWriting = u
               PROVE  p \in Inside(u)'
    BY DEF WritersWaitInside
  <2>1. p \in WaitingWriters(u) /\ p # Current
    BY <1>5 DEF WaitingWriters
  <2>2. p \in Inside(u)
    BY <2>1 DEF WaitingWriters, WritingInv, WritersWaitInside
  <2> QED BY <1>4, <2>1, <2>2
<1>7. OneWriter'
  <2> SUFFICES ASSUME NEW u \in Terminals
               PROVE  /\ \A p, q \in Writers(u)' : p = q
                      /\ Writers(u)' # {} => transmitting'[u] > 0
    BY DEF OneWriter
  <2>1. CASE u = t
    <3>1. Writers(t)' \subseteq {Current}
      BY <1>2 DEF Writers, SameWriting
    <3>2. transmitting'[t] > 0
      BY <1>3
    <3> QED BY <2>1, <3>1, <3>2
  <2>2. CASE u # t
    <3>1. Writers(u)' \subseteq Writers(u)
      BY <1>2, <2>2 DEF Writers, SameWriting
    <3>2. transmitting'[u] = transmitting[u]
      BY <1>3, <2>2
    <3> QED BY <3>1, <3>2 DEF WritingInv, OneWriter
  <2> QED BY <2>1, <2>2
<1>8. TransmissionsBounded'
  <2>1. transmitting' \in [Terminals -> Nat]
    BY <1>3
  <2>2. ASSUME NEW u \in Terminals
        PROVE  transmitting'[u] + Cardinality(Inside(u)') <= MaxTransmissions
    <3>1. /\ IsFiniteSet(Inside(u)) /\ Cardinality(Inside(u)) \in Nat
          /\ MaxTransmissions \in Nat /\ transmitting[u] \in Nat
          /\ transmitting[u] + Cardinality(Inside(u)) <= MaxTransmissions
      BY <1>3, ListedFinite, TerminalsAssumption
         DEF IInv, Inside, WritingInv, TransmissionsBounded
    <3>2. CASE u # t
      <4>1. Inside(u)' = Inside(u)
        <5>1. MayWrite(t) /\ u \in Terminals \ {t}
          BY <1>2, <3>2
        <5>2. Current \notin Inside(u)
          BY <5>1, MayWriteFacts
        <5> QED BY <1>4, <5>2
      <4>2. transmitting'[u] = transmitting[u]
        BY <1>3, <3>2
      <4> QED BY <3>1, <4>1, <4>2
    <3>3. CASE u = t
      <4>1. transmitting'[u] = transmitting[u] + 1
        BY <1>3, <3>3
      <4>2. CASE Current \in Inside(t)
        <5>1. Cardinality(Inside(t)') = Cardinality(Inside(t)) - 1
          BY <1>4, <3>1, <3>3, <4>2, FS_RemoveElement
        <5> QED BY <3>1, <3>3, <4>1, <5>1
      <4>3. CASE Current \notin Inside(t)
        <5>1. Inside(t)' = Inside(t)
          BY <1>4, <4>3
        <5>2. transmitting[t] + Cardinality(Inside(t)) < MaxTransmissions
          BY <1>2, <4>3, BoundHasRoom DEF IInv, WritingInv
        <5> QED BY <3>1, <3>3, <4>1, <5>1, <5>2
      <4> QED BY <4>2, <4>3
    <3> QED BY <3>2, <3>3
  <2> QED BY <2>1, <2>2 DEF TransmissionsBounded
<1>9. WaitingWriterHasWaker'
  <2> SUFFICES ASSUME NEW u \in Terminals, WaitingWriters(u)' # {},
                      ~(transmitting'[u] > 0)
               PROVE  \E p \in Listed' :
                        /\ pcb'[p].savedContext = [at |-> "write", arg |-> u]
                        /\ pcb'[p].isWaitWriting = NoTerminal
    BY DEF WaitingWriterHasWaker
  <2>1. u # t
    BY <1>3
  <2>2. ~(transmitting[u] > 0) /\ WaitingWriters(u) # {}
    BY <1>3, <1>5, <2>1
  <2>3. PICK p \in Listed : /\ pcb[p].savedContext = [at |-> "write", arg |-> u]
                            /\ pcb[p].isWaitWriting = NoTerminal
    BY <2>2 DEF WritingInv, WaitingWriterHasWaker
  <2>4. p # Current
    BY <1>2, <2>1, <2>3, MayWriteFacts DEF Inside
  <2> QED BY <1>2, <2>3, <2>4 DEF SameWriting
<1> QED BY <1>6, <1>7, <1>8, <1>9 DEF WritingInv

\* Waiting for the one that writes keeps it all.
LEMMA ParkKeepsWriting ==
  ASSUME IInv, WritingInv, NEW t \in Terminals, Parks(t)
  PROVE  WritingInv'
<1>1. NoTerminal \notin Terminals
  BY TerminalIsSome
<1>2. /\ MayWrite(t) /\ Current \in Listed /\ Listed' = Listed
      /\ Writers(t) # {}
      /\ pcb'[Current].isWriting = pcb[Current].isWriting
      /\ pcb'[Current].isWaitWriting = t
      /\ pcb'[Current].savedContext = [at |-> "write", arg |-> t]
      /\ transmitting' = transmitting
      /\ \A p \in Listed \ {Current} :
           /\ SameWriting(pcb'[p], pcb[p])
           /\ pcb'[p].savedContext = pcb[p].savedContext
  BY DEF Parks, MayWrite
<1>3. transmitting[t] > 0
  BY <1>2 DEF WritingInv, OneWriter
<1>4. Inside(t)' = Inside(t) \cup {Current}
  BY <1>2 DEF Inside
<1>5. ASSUME NEW u \in Terminals \ {t}
      PROVE  Inside(u)' = Inside(u)
  <2>1. Current \notin Inside(u)
    BY <1>2, MayWriteFacts
  <2>2. pcb'[Current].savedContext.arg # u
    BY <1>2
  <2>3. pcb'[Current].savedContext # [at |-> "write", arg |-> u]
    BY <2>2
  <2>4. \A p \in Listed : p \in Inside(u)' <=> p \in Inside(u)
    BY <1>2, <2>1, <2>3 DEF Inside
  <2> QED BY <1>2, <2>4 DEF Inside
<1>6. /\ \A u \in Terminals \ {t} : WaitingWriters(u)' \subseteq WaitingWriters(u)
      /\ WaitingWriters(t)' \subseteq WaitingWriters(t) \cup {Current}
  BY <1>2 DEF WaitingWriters, SameWriting
<1>7. WritersWaitInside'
  <2> SUFFICES ASSUME NEW p \in Listed', NEW u \in Terminals,
                      pcb'[p].isWaitWriting = u
               PROVE  p \in Inside(u)'
    BY DEF WritersWaitInside
  <2>1. p \in WaitingWriters(u) \/ (p = Current /\ u = t)
    BY <1>6 DEF WaitingWriters
  <2>2. p \in WaitingWriters(u) => p \in Inside(u)
    BY DEF WaitingWriters, WritingInv, WritersWaitInside
  <2> QED BY <1>4, <1>5, <2>1, <2>2
<1>8. OneWriter'
  <2>1. \A u \in Terminals : Writers(u)' = Writers(u)
    BY <1>2 DEF Writers, SameWriting
  <2> QED BY <1>2, <2>1 DEF WritingInv, OneWriter
<1>9. TransmissionsBounded'
  <2>1. ASSUME NEW u \in Terminals
        PROVE  transmitting[u] + Cardinality(Inside(u)') <= MaxTransmissions
    <3>1. /\ IsFiniteSet(Inside(u)) /\ Cardinality(Inside(u)) \in Nat
          /\ MaxTransmissions \in Nat /\ transmitting[u] \in Nat
          /\ transmitting[u] + Cardinality(Inside(u)) <= MaxTransmissions
      BY ListedFinite, TerminalsAssumption
         DEF IInv, Inside, WritingInv, TransmissionsBounded
    <3>2. CASE u # t \/ Current \in Inside(t)
      <4>1. Inside(u)' = Inside(u)
        BY <1>4, <1>5, <3>2
      <4> QED BY <3>1, <4>1
    <3>3. CASE u = t /\ Current \notin Inside(t)
      <4>1. Cardinality(Inside(t)') = Cardinality(Inside(t)) + 1
        BY <1>4, <3>1, <3>3, FS_AddElement
      <4>2. transmitting[t] + Cardinality(Inside(t)) < MaxTransmissions
        BY <1>2, <3>3, BoundHasRoom DEF IInv, WritingInv
      <4> QED BY <3>1, <3>3, <4>1, <4>2
    <3> QED BY <3>2, <3>3
  <2> QED BY <1>2, <2>1 DEF WritingInv, TransmissionsBounded
<1>10. WaitingWriterHasWaker'
  <2> SUFFICES ASSUME NEW u \in Terminals, WaitingWriters(u)' # {},
                      ~(transmitting[u] > 0)
               PROVE  \E p \in Listed' :
                        /\ pcb'[p].savedContext = [at |-> "write", arg |-> u]
                        /\ pcb'[p].isWaitWriting = NoTerminal
    BY <1>2 DEF WaitingWriterHasWaker
  <2>1. u # t /\ WaitingWriters(u) # {}
    BY <1>3, <1>6
  <2>2. PICK p \in Listed : /\ pcb[p].savedContext = [at |-> "write", arg |-> u]
                            /\ pcb[p].isWaitWriting = NoTerminal
    BY <2>1 DEF WritingInv, WaitingWriterHasWaker
  <2>3. p # Current
    BY <1>2, <2>1, <2>2, MayWriteFacts DEF Inside
  <2> QED BY <1>2, <2>2, <2>3 DEF SameWriting
<1> QED BY <1>7, <1>8, <1>9, <1>10 DEF WritingInv

\* The end of a transmission keeps it all: the only writer is found and
\* unmarked, and the first one waiting is woken to go on.
LEMMA EndKeepsWriting ==
  ASSUME IInv, WritingInv, NEW t \in Terminals, Ends(t)
  PROVE  WritingInv'
<1>1. NoTerminal \notin Terminals
  BY TerminalIsSome
<1>2. /\ Listed' = Listed /\ transmitting[t] > 0
      /\ \A p \in Listed :
           /\ pcb'[p].isWriting = IF p = getWritingPCB(t) THEN NoTerminal
                                  ELSE pcb[p].isWriting
           /\ pcb'[p].isWaitWriting = IF p = NextWriter(t) THEN NoTerminal
                                      ELSE pcb[p].isWaitWriting
           /\ pcb'[p].savedContext = pcb[p].savedContext
  BY DEF Ends
<1>3. /\ transmitting \in [Terminals -> Nat]
      /\ transmitting' = [transmitting EXCEPT ![t] = transmitting[t] - 1]
      /\ transmitting' \in [Terminals -> Nat]
  <2>1. transmitting \in [Terminals -> Nat]
        /\ transmitting' = [transmitting EXCEPT ![t] = transmitting[t] - 1]
    BY DEF Ends, WritingInv, TransmissionsBounded
  <2>2. transmitting[t] - 1 \in Nat
    BY <1>2, <2>1
  <2> QED BY <2>1, <2>2
<1>4. \A u \in Terminals : Inside(u)' = Inside(u)
  BY <1>2 DEF Inside
<1>5. \A u \in Terminals : /\ WaitingWriters(u)' \subseteq WaitingWriters(u)
                           /\ Writers(u)' \subseteq Writers(u)
  BY <1>1, <1>2 DEF WaitingWriters, Writers
<1>6. WritersWaitInside'
  <2> SUFFICES ASSUME NEW p \in Listed', NEW u \in Terminals,
                      pcb'[p].isWaitWriting = u
               PROVE  p \in Inside(u)'
    BY DEF WritersWaitInside
  <2>1. p \in WaitingWriters(u)
    BY <1>5 DEF WaitingWriters
  <2> QED BY <1>4, <2>1 DEF WaitingWriters, WritingInv, WritersWaitInside
<1>7. Writers(t)' = {}
  <2>1. Writers(t) # {} => getWritingPCB(t) \in Writers(t)
    BY FirstListedIsListed DEF IInv, Writers, getWritingPCB
  <2>2. \A p \in Writers(t) : p = getWritingPCB(t)
    BY <2>1 DEF WritingInv, OneWriter
  <2>3. \A p \in Writers(t) : p \notin Writers(t)'
    BY <1>1, <1>2, <2>2 DEF Writers
  <2> QED BY <1>5, <2>3
<1>8. OneWriter'
  <2> SUFFICES ASSUME NEW u \in Terminals
               PROVE  /\ \A p, q \in Writers(u)' : p = q
                      /\ Writers(u)' # {} => transmitting'[u] > 0
    BY DEF OneWriter
  <2>1. CASE u = t
    BY <1>7, <2>1
  <2>2. CASE u # t
    <3>1. transmitting'[u] = transmitting[u]
      BY <1>3, <2>2
    <3> QED BY <1>5, <3>1 DEF WritingInv, OneWriter
  <2> QED BY <2>1, <2>2
<1>9. TransmissionsBounded'
  <2>1. ASSUME NEW u \in Terminals
        PROVE  transmitting'[u] + Cardinality(Inside(u)') <= MaxTransmissions
    <3>1. /\ Cardinality(Inside(u)) \in Nat
          /\ MaxTransmissions \in Nat /\ transmitting[u] \in Nat
          /\ transmitting[u] + Cardinality(Inside(u)) <= MaxTransmissions
      BY <1>3, ListedFinite, TerminalsAssumption
         DEF IInv, Inside, WritingInv, TransmissionsBounded
    <3>2. transmitting'[u] <= transmitting[u] /\ transmitting'[u] \in Nat
      <4>1. CASE u = t
        BY <1>3, <3>1, <4>1
      <4>2. CASE u # t
        BY <1>3, <3>1, <4>2
      <4> QED BY <4>1, <4>2
    <3>3. Inside(u)' = Inside(u)
      BY <1>4
    <3> QED BY <3>1, <3>2, <3>3
  <2> QED BY <1>3, <2>1 DEF TransmissionsBounded
<1>10. WaitingWriterHasWaker'
  <2> SUFFICES ASSUME NEW u \in Terminals, WaitingWriters(u)' # {},
                      ~(transmitting'[u] > 0)
               PROVE  \E p \in Listed' :
                        /\ pcb'[p].savedContext = [at |-> "write", arg |-> u]
                        /\ pcb'[p].isWaitWriting = NoTerminal
    BY DEF WaitingWriterHasWaker
  <2>1. WaitingWriters(u) # {}
    BY <1>5
  <2>2. CASE u = t
    <3>1. NextWriter(t) \in WaitingWriters(t)
      BY <2>1, <2>2, FirstListedIsListed DEF IInv, WaitingWriters, NextWriter
    <3>2. NextWriter(t) \in Inside(t) /\ NextWriter(t) \in Listed
      BY <3>1 DEF WaitingWriters, WritingInv, WritersWaitInside
    <3> QED BY <1>2, <2>2, <3>2 DEF Inside
  <2>3. CASE u # t
    <3>1. ~(transmitting[u] > 0)
      BY <1>3, <2>3
    <3>2. PICK p \in Listed : /\ pcb[p].savedContext = [at |-> "write", arg |-> u]
                              /\ pcb[p].isWaitWriting = NoTerminal
      BY <2>1, <3>1 DEF WritingInv, WaitingWriterHasWaker
    <3> QED BY <1>2, <3>2
  <2> QED BY <2>2, <2>3
<1> QED BY <1>6, <1>8, <1>9, <1>10 DEF WritingInv

\* Every step keeps it all.
LEMMA WritingStep ==
  ASSUME IInv, WritingInv, [TermNext]_termVars
  PROVE  WritingInv'
BY WritingSteps, QuietKeepsWriting, TransmitKeepsWriting, ParkKeepsWriting,
   EndKeepsWriting

-----------------------------------------------------------------------------
(* The theorems.                                                           *)

\* The buffers keep their types, and the order in which cells are filled.
LEMMA BuffersStep ==
  ASSUME BuffersTyped, [TermNext]_termVars
  PROVE  BuffersTyped' /\ (StoredFirst => StoredFirst')
<1>1. CASE UNCHANGED <<buffer, write, count, unread>>
  BY <1>1 DEF BuffersTyped, StoredFirst, FilledUpTo, CountsFit
<1>2. ASSUME NEW t \in Terminals,
             \/ \E text \in OutputTexts : TtyWrite(t, text)
             \/ TtyWriteBlocks(t)
             \/ \E len \in ReadLengths : TtyRead(t, len)
             \/ TtyReadBlocks(t)
             \/ CallReturns(t)
             \/ TransmitInterrupt(t)
             \/ \E line \in InputLines : ReceiveInterrupt(t, line)
      PROVE  BuffersTyped' /\ (StoredFirst => StoredFirst')
  <2>1. CASE \E text \in InputLines \cup OutputTexts : Store(t, text)
    BY <2>1, StoreKeepsBuffers
  <2>2. CASE isNewLineInBuffer(t) /\ \E len \in ReadLengths : Take(t, len)
    BY <2>2, TakeKeepsBuffers
  <2>3. \/ \E text \in InputLines \cup OutputTexts : Store(t, text)
        \/ isNewLineInBuffer(t) /\ \E len \in ReadLengths : Take(t, len)
        \/ UNCHANGED <<buffer, write, count, unread>>
    <3>1. CASE \E text \in OutputTexts : TtyWrite(t, text) \/ WriteResumes(t, text)
      BY <3>1 DEF TtyWrite, WriteResumes, Transmit
    <3>2. CASE \E len \in ReadLengths : TtyRead(t, len) \/ ReadResumes(t, len)
      BY <3>2 DEF TtyRead, ReadResumes
    <3>3. CASE \E line \in InputLines : ReceiveInterrupt(t, line)
      BY <3>3 DEF ReceiveInterrupt
    <3>4. CASE \/ TtyWriteBlocks(t) \/ TtyReadBlocks(t)
               \/ WriteWaitsAgain(t) \/ ReadWaitsAgain(t)
               \/ TransmitInterrupt(t)
      BY <3>4 DEF TtyWriteBlocks, TtyReadBlocks, WriteWaitsAgain,
                  ReadWaitsAgain, TransmitInterrupt, ttyVars
    <3> QED BY <1>2, <3>1, <3>2, <3>3, <3>4 DEF CallReturns
  <2> QED BY <1>1, <2>1, <2>2, <2>3
<1> QED BY <1>1, <1>2 DEF TermNext, termVars, ttyVars

\* The inductive invariant of the processes and their terminals.
TermInv == IInv /\ BuffersTyped /\ WritingInv

\* What initTerminalBuffers leaves satisfies it.
LEMMA InitTermInv == TermInit => TermInv
<1> SUFFICES ASSUME TermInit PROVE TermInv
  OBVIOUS
<1>1. IInv /\ TypeOK
  BY InitIInv DEF TermInit, IInv
<1>2. /\ Listed = {INIT_PID}
      /\ pcb[INIT_PID] = NewPCB(ORPHAN_PARENT_PID, InUserMode)
  BY SchedulingAssumption
     DEF TermInit, ProcInit, SchedInit, Listed, INIT_PID, IDLE_PID
<1>3. /\ pcb[INIT_PID].isWriting = NoTerminal
      /\ pcb[INIT_PID].isWaitWriting = NoTerminal
      /\ pcb[INIT_PID].savedContext.at # "write"
  BY <1>2 DEF NewPCB, InUserMode
<1>4. \A t \in Terminals :
        Inside(t) = {} /\ Writers(t) = {} /\ WaitingWriters(t) = {}
  BY <1>2, <1>3, TerminalIsSome DEF Inside, Writers, WaitingWriters
<1>5. WritersWaitInside /\ OneWriter /\ WaitingWriterHasWaker
  BY <1>4 DEF WritersWaitInside, OneWriter, WaitingWriterHasWaker, WaitingWriters
<1>6. TransmissionsBounded
  <2>1. transmitting = [t \in Terminals |-> 0] /\ MaxTransmissions \in Nat
    BY TerminalsAssumption DEF TermInit
  <2>2. \A t \in Terminals : Cardinality(Inside(t)) = 0
    BY <1>4, FS_EmptySet
  <2> QED BY <2>1, <2>2 DEF TransmissionsBounded
<1>7. BuffersTyped
  <2>1. Unset \in Chars
    BY DEF Chars
  <2>2. TERMINAL_MAX_LINE \in Nat \ {0}
        /\ InitialCounts \subseteq Int
    BY TerminalsAssumption
  <2>3. /\ buffer = [t \in Terminals |-> [c \in 0 .. TERMINAL_MAX_LINE - 1 |-> Unset]]
        /\ write = [t \in Terminals |-> 0]
        /\ count \in [Terminals -> InitialCounts]
        /\ unread = [t \in Terminals |-> [i \in 1 .. count[t] |-> Unset]]
    BY DEF TermInit
  <2>4. 0 \in 0 .. TERMINAL_MAX_LINE - 1
    BY <2>2
  <2>5. /\ count \in [Terminals -> Int]
        /\ CountsFit => \A t \in Terminals : count[t] <= TERMINAL_MAX_LINE
    BY <2>2, <2>3 DEF CountsFit
  <2>6. \A t \in Terminals : [i \in 1 .. count[t] |-> Unset] \in Seq(Chars)
    BY <2>1, <2>2, <2>5
  <2> QED BY <2>1, <2>3, <2>4, <2>5, <2>6 DEF BuffersTyped
<1> QED BY <1>1, <1>5, <1>6, <1>7 DEF TermInv, WritingInv

\* Every step of processes and terminals keeps it.
LEMMA TermInvStep == TermInv /\ [TermNext]_termVars => TermInv'
BY TermNextStep, BuffersStep, WritingStep DEF TermInv

\* Every variable of the terminals has the type the code gives it, and no more
\* transmissions are under way than the bound allows.
THEOREM TerminalsTyped == TermSpec => []TermTypeOK
<1>1. TermInv => TermTypeOK
  <2> SUFFICES ASSUME TermInv PROVE TermTypeOK
    OBVIOUS
  <2>1. TypeOK /\ transmitting \in [Terminals -> Nat]
    BY DEF TermInv, IInv, WritingInv, TransmissionsBounded
  <2>2. ASSUME NEW t \in Terminals
        PROVE  transmitting[t] \in 0 .. MaxTransmissions
    <3>1. Cardinality(Inside(t)) \in Nat /\ MaxTransmissions \in Nat
      BY <2>1, ListedFinite, TerminalsAssumption DEF Inside
    <3>2. transmitting[t] + Cardinality(Inside(t)) <= MaxTransmissions
      BY DEF TermInv, WritingInv, TransmissionsBounded
    <3>3. transmitting[t] \in Nat
      BY <2>1
    <3> QED BY <3>1, <3>2, <3>3
  <2> QED BY <2>1, <2>2 DEF TermTypeOK, TermInv, BuffersTyped
<1> QED BY <1>1, InitTermInv, TermInvStep, PTL DEF TermSpec

\* At most one process is marked as writing to a terminal, and the interrupt
\* that will unmark it is on its way.
THEOREM WriterIsAlone == TermSpec => []OneWriterTransmitting
<1>1. TermInv => OneWriterTransmitting
  BY OneWriterCounted DEF TermInv, IInv, WritingInv
<1> QED BY <1>1, InitTermInv, TermInvStep, PTL DEF TermSpec

\* Whoever waits to write is woken by an interrupt that is still to come, or by
\* the transmission of a writer that was woken before.
THEOREM NoWriterForgotten == TermSpec => []WaitingWriterHasWaker
<1>1. TermInv => WaitingWriterHasWaker
  BY DEF TermInv, WritingInv
<1> QED BY <1>1, InitTermInv, TermInvStep, PTL DEF TermSpec

\* Whatever malloc left in count, a TtyRead goes through cells never stored to
\* only as long as not everything that count started with was read.
THEOREM OnlyMallocShowsUnstored == TermSpec => []UnstoredOnlyFromMalloc
<1>1. TermInit => TermInv /\ StoredFirst
  <2> SUFFICES ASSUME TermInit PROVE StoredFirst
    BY InitTermInv
  <2> SUFFICES ASSUME NEW t \in Terminals
               PROVE  \E g \in 0 .. Len(unread[t]) :
                        /\ \A i \in 1 .. g : unread[t][i] = Unset
                        /\ FilledUpTo(t, g)
    BY DEF StoredFirst
  <2>1. /\ write[t] = 0 /\ count[t] \in Int
        /\ unread[t] = [i \in 1 .. count[t] |-> Unset]
    BY TerminalsAssumption DEF TermInit
  <2>2. unread[t] \in Seq(Chars) /\ Len(unread[t]) \in Nat
    BY InitTermInv DEF TermInv, BuffersTyped
  <2>3. DOMAIN unread[t] = 1 .. count[t] /\ DOMAIN unread[t] = 1 .. Len(unread[t])
    <3>1. DOMAIN unread[t] = 1 .. Len(unread[t])
      BY <2>2, LenProperties
    <3> QED BY <2>1, <3>1
  <2>4. count[t] <= Len(unread[t])
    <3>0. PICK n \in Nat, k \in Int : n = Len(unread[t]) /\ k = count[t]
      BY <2>1, <2>2
    <3>1. 1 .. k = 1 .. n
      BY <2>3, <3>0
    <3>2. k > n => k \in 1 .. k /\ k \notin 1 .. n
      BY <3>0
    <3> QED BY <3>0, <3>1, <3>2
  <2>5. \A i \in 1 .. Len(unread[t]) : unread[t][i] = Unset
    BY <2>1, <2>3
  <2>6. FilledUpTo(t, Len(unread[t]))
    <3>1. count[t] <= write[t] + Len(unread[t])
      <4>1. PICK n \in Nat : n = Len(unread[t])
        BY <2>2
      <4>2. write[t] = 0
        BY <2>1
      <4>3. count[t] <= n
        BY <2>4, <4>1
      <4>4. PICK k \in Int : k = count[t]
        BY <2>1
      <4>5. k <= 0 + n
        BY <4>3, <4>4
      <4> QED BY <4>1, <4>2, <4>4, <4>5
    <3>2. 0 .. write[t] - 1 = {}
      BY <2>1
    <3> QED BY <3>1, <3>2 DEF FilledUpTo
  <2>7. Len(unread[t]) \in 0 .. Len(unread[t])
    BY <2>2
  <2> QED BY <2>5, <2>6, <2>7
<1>2. TermInv /\ StoredFirst /\ [TermNext]_termVars => TermInv' /\ StoredFirst'
  BY TermInvStep, BuffersStep DEF TermInv
<1>3. TermInv /\ StoredFirst => UnstoredOnlyFromMalloc
  BY CountedIsStored DEF TermInv
<1> QED BY <1>1, <1>2, <1>3, PTL DEF TermSpec

-----------------------------------------------------------------------------
(* Idle's turn.                                                            *)

\* When scheduleProcess(0) lets idle start to run, everybody is blocked.
LEMMA IdleStartsWhenAllBlocked ==
  ASSUME IInv, ~isIdleRunning, isIdleRunning',
         NEW P \in [DOMAIN pcb -> PCB], NEW k \in Continuations, Schedule(P, k)
  PROVE  \A p \in Listed' : IsBlocked(pcb'[p])
<1>1. KeepOrIdle(P)
  BY DEF Schedule, SwitchToHead, SwitchBehindHead
<1>2. IsBlocked(P[Head(queue)]) /\ ReadyBehindHead(P) = {}
  BY <1>1 DEF KeepOrIdle
<1>3. queue \in Seq(UserPids) /\ Head(queue) = queue[1]
  BY CurrentIsKnown DEF IInv, TypeOK
<1>4. ASSUME NEW i \in 1 .. Len(queue)
      PROVE  IsBlocked(P[queue[i]])
  <2>1. CASE i = 1
    BY <1>2, <1>3, <2>1
  <2>2. CASE i \in 2 .. Len(queue)
    BY <1>2, <2>2 DEF ReadyBehindHead
  <2> QED BY <1>3, <2>1, <2>2
<1>5. \A p \in Listed : IsBlocked(P[p])
  BY <1>4 DEF Listed
<1>6. /\ Listed' = Listed
      /\ \A p \in Listed : IsBlocked(pcb'[p]) <=> IsBlocked(P[p])
  BY ScheduleChanges
<1> QED BY <1>5, <1>6

\* Whatever lets idle run either finds everybody blocked or is an exit, which
\* records idle as the process of the last tick.
IdleStarts == isIdleRunning' => \/ lastClockTickPID' = IDLE_PID
                                \/ \A p \in Listed' : IsBlocked(pcb'[p])

\* The clock.
LEMMA TickStartsIdle == IInv /\ Tick => IdleStarts
<1> SUFFICES ASSUME IInv, Tick PROVE IdleStarts
  OBVIOUS
<1> DEFINE P == DecreaseDelay
<1>1. lastClockTickPID' = Current
      /\ (Schedule(P, Returning) \/ (pcb' = P /\ UNCHANGED <<queue, isIdleRunning>>))
  BY DEF Tick, ClockTick
<1>2. CASE isIdleRunning
  BY <1>1, <1>2 DEF IdleStarts, Current
<1>3. CASE ~isIdleRunning /\ isIdleRunning'
  <2>1. Schedule(P, Returning)
    <3>1. ~(isIdleRunning' = isIdleRunning)
      BY <1>3, Zenon
    <3> QED BY <1>1, <3>1, Zenon
  <2>2. P \in [DOMAIN pcb -> PCB] /\ Returning \in Continuations
    BY DecreaseDelayFacts DEF IInv, Returning, Continuations
  <2> QED BY <1>3, <2>1, <2>2, IdleStartsWhenAllBlocked DEF IdleStarts
<1> QED BY <1>2, <1>3 DEF IdleStarts

\* Every other step of a process.
LEMMA ProcessStartsIdle ==
  ASSUME IInv, ~isIdleRunning, ProcNext, ~Tick
  PROVE  IdleStarts
<1>1. CASE WaitBlocks
  <2>1. [at |-> "wait", arg |-> 0] \in Continuations
    BY DEF Continuations
  <2> QED BY <1>1, <2>1, CallerPCB, IdleStartsWhenAllBlocked
          DEF WaitBlocks, IdleStarts
<1>2. CASE \E ticks \in -1 .. MaxDelay : Delay(ticks)
  <2>1. PICK ticks \in -1 .. MaxDelay : Delay(ticks)
    BY <1>2
  <2>2. SystemCall /\ ticks \in Nat
        /\ Schedule([pcb EXCEPT ![Head(queue)].delay = ticks], Returning)
    BY <2>1, ProcessControlAssumption DEF Delay
  <2>3. Returning \in Continuations
    BY DEF Returning, Continuations
  <2> QED BY <2>2, <2>3, CallerPCB, IdleStartsWhenAllBlocked DEF IdleStarts
<1>3. CASE \E status \in ExitStatuses \cup {ERROR} : Exit(status)
  <2>1. PICK status \in ExitStatuses \cup {ERROR} : Exit(status)
    BY <1>3
  <2>2. CASE ExitLeaves(status)
    BY <2>2 DEF ExitLeaves, ScheduleExit, IdleStarts
  <2>3. CASE ExitHalts(status) \/ ExitFaults
    BY <2>3 DEF ExitHalts, ExitFaults, IdleStarts
  <2> QED BY <2>1, <2>2, <2>3 DEF Exit
<1>4. CASE UNCHANGED isIdleRunning
  BY <1>4 DEF IdleStarts
<1>5. CASE \/ ReturnFromTrap \/ ForkReturns \/ WaitResumes \/ Fork
           \/ WaitFails \/ WaitCollects \/ Stopped
           \/ \E ticks \in -1 .. MaxDelay : DelayReturns(ticks)
  BY <1>4, <1>5
     DEF ReturnFromTrap, ForkReturns, WaitResumes, Fork, WaitFails, WaitCollects,
         Stopped, DelayReturns, Reap, procVars
<1> QED BY <1>1, <1>2, <1>3, <1>5 DEF ProcNext, ProgramError, Resume

\* Every step of a terminal call.
LEMMA CallStartsIdle ==
  ASSUME IInv, ~isIdleRunning, NEW t \in Terminals,
         \/ \E text \in OutputTexts : TtyWrite(t, text)
         \/ TtyWriteBlocks(t)
         \/ \E len \in ReadLengths : TtyRead(t, len)
         \/ TtyReadBlocks(t)
         \/ CallReturns(t)
         \/ TransmitInterrupt(t)
         \/ \E line \in InputLines : ReceiveInterrupt(t, line)
  PROVE  IdleStarts
<1>1. CASE \/ TtyWriteBlocks(t) \/ TtyReadBlocks(t)
           \/ WriteWaitsAgain(t) \/ ReadWaitsAgain(t)
  <2>1. PICK P \in {ParkedWriter(t), ParkedReader(t)},
             k \in {[at |-> "write", arg |-> t], [at |-> "read", arg |-> t]} :
          /\ SystemCall \/ InsideWrite(t) \/ InsideRead(t)
          /\ Schedule(P, k)
    <3>1. CASE TtyWriteBlocks(t)
      BY <3>1 DEF TtyWriteBlocks
    <3>2. CASE TtyReadBlocks(t)
      BY <3>2 DEF TtyReadBlocks
    <3>3. CASE WriteWaitsAgain(t)
      <4>1. InsideWrite(t) /\ processExitingNow' = NULL
            /\ Schedule(FreeExiting(ParkedWriter(t)), [at |-> "write", arg |-> t])
        BY <3>3 DEF WriteWaitsAgain
      <4>2. FreeExiting(ParkedWriter(t)) = ParkedWriter(t)
        BY <4>1, WaitsAgainIsPark
      <4> QED BY <4>1, <4>2
    <3>4. CASE ReadWaitsAgain(t)
      <4>1. InsideRead(t) /\ processExitingNow' = NULL
            /\ Schedule(FreeExiting(ParkedReader(t)), [at |-> "read", arg |-> t])
        BY <3>4 DEF ReadWaitsAgain
      <4>2. FreeExiting(ParkedReader(t)) = ParkedReader(t)
        BY <4>1, WaitsAgainIsPark
      <4> QED BY <4>1, <4>2
    <3> QED BY <1>1, <3>1, <3>2, <3>3, <3>4
  <2>2. Current \in DOMAIN pcb /\ TypeOK
    BY <2>1, CallerFacts DEF IInv
  <2>3. P \in [DOMAIN pcb -> PCB] /\ k \in Continuations
    BY <2>2, CallerParkedToWrite, CallerParkedToRead, InsideTty
  <2> QED BY <2>1, <2>3, IdleStartsWhenAllBlocked DEF IdleStarts
<1>2. CASE UNCHANGED isIdleRunning
  BY <1>2 DEF IdleStarts
<1>3. CASE \/ \E text \in OutputTexts : TtyWrite(t, text) \/ WriteResumes(t, text)
           \/ \E len \in ReadLengths : TtyRead(t, len) \/ ReadResumes(t, len)
           \/ TransmitInterrupt(t)
           \/ \E line \in InputLines : ReceiveInterrupt(t, line)
  BY <1>2, <1>3 DEF TtyWrite, WriteResumes, TtyRead, ReadResumes,
                    TransmitInterrupt, ReceiveInterrupt, procVars
<1> QED BY <1>1, <1>3 DEF CallReturns

\* While idle runs, only its way out of the kernel, an interrupt or nothing can
\* happen besides a tick: nobody's Delay or Wait changes.
IdleKeeps ==
  /\ Listed' = Listed /\ lastClockTickPID' = lastClockTickPID
  /\ \A p \in Listed : /\ p \in DOMAIN pcb /\ p \in DOMAIN pcb'
                       /\ pcb'[p].delay = pcb[p].delay
                       /\ pcb'[p].isWaiting = pcb[p].isWaiting

LEMMA WhileIdleRuns ==
  ASSUME IInv, isIdleRunning, [TermNext]_termVars, ~Tick
  PROVE  IdleKeeps
<1>1. /\ Current = IDLE_PID /\ ~SystemCall
      /\ \A t \in Terminals : ~InsideWrite(t) /\ ~InsideRead(t)
      /\ pcb[Current].savedContext.at \in {"user", "return"}
  <2>1. Current = IDLE_PID /\ ~SystemCall
    BY DEF Current, SystemCall
  <2>2. pcb[IDLE_PID].savedContext.at \in {"user", "return"}
    BY DEF IInv, Auxiliary, InUserMode, Returning
  <2> QED BY <2>1, <2>2 DEF InsideWrite, InsideRead
<1>2. /\ pcb \in [DOMAIN pcb -> PCB] /\ TypeOK /\ Listed \subseteq DOMAIN pcb
      /\ IDLE_PID \notin Listed
  BY CurrentIsKnown DEF IInv, TypeOK, NoLostProcess, UserPids, IDLE_PID
<1>3. CASE UNCHANGED <<queue, pcb, lastClockTickPID>>
  BY <1>2, <1>3 DEF IdleKeeps, Listed
<1>4. CASE ReturnFromTrap
  <2>1. /\ Listed' = Listed
        /\ \A p \in Listed : /\ p \in DOMAIN pcb' /\ p \in DOMAIN pcb
                             /\ p # Current => pcb'[p] = pcb[p]
    BY <1>2, <1>4, BackToUserFacts DEF ReturnFromTrap
  <2> QED BY <1>1, <1>2, <1>4, <2>1 DEF IdleKeeps, ReturnFromTrap
<1>5. ASSUME NEW t \in Terminals,
             TransmitInterrupt(t) \/ \E line \in InputLines : ReceiveInterrupt(t, line)
      PROVE  IdleKeeps
  <2>1. /\ queue' = queue /\ lastClockTickPID' = lastClockTickPID
        /\ pcb' \in {pcb, AfterTransmit(t), AfterReceive(t)}
    BY <1>5 DEF TransmitInterrupt, ReceiveInterrupt
  <2>2. /\ DOMAIN pcb' = DOMAIN pcb
        /\ \A p \in DOMAIN pcb : /\ pcb'[p].delay = pcb[p].delay
                                 /\ pcb'[p].isWaiting = pcb[p].isWaiting
    BY <1>2, <2>1, TransmitUnmarks, ReceiveWakes DEF Alike
  <2> QED BY <1>2, <2>1, <2>2 DEF IdleKeeps, Listed
<1>6. CASE ProcNext
  <2>1. ~ForkReturns /\ ~WaitResumes
    BY <1>1 DEF ForkReturns, WaitResumes
  <2>2. \/ Resume \/ Stopped
    BY <1>1, <1>6 DEF ProcNext, Fork, WaitFails, WaitCollects, WaitBlocks,
                      ProgramError, Exit, Delay, DelayReturns
  <2> QED BY <1>3, <1>4, <2>1, <2>2 DEF Resume, Stopped, procVars
<1>7. ASSUME NEW t \in Terminals
      PROVE  /\ \A text \in OutputTexts : ~TtyWrite(t, text)
             /\ ~TtyWriteBlocks(t)
             /\ \A len \in ReadLengths : ~TtyRead(t, len)
             /\ ~TtyReadBlocks(t)
             /\ ~CallReturns(t)
  BY <1>1 DEF TtyWrite, TtyWriteBlocks, TtyRead, TtyReadBlocks, CallReturns,
              WriteResumes, WriteWaitsAgain, ReadResumes, ReadWaitsAgain
<1> QED BY <1>3, <1>5, <1>6, <1>7 DEF TermNext, termVars, procVars

\* Every step keeps the property.
LEMMA TurnStep ==
  ASSUME IInv, IdleYieldsSoon, [TurnNext]_turnVars
  PROVE  IdleYieldsSoon'
<1>1. CASE UNCHANGED turnVars
  BY <1>1 DEF turnVars, termVars, procVars, IdleYieldsSoon, Listed
<1>2. CASE TurnNext /\ Tick
  BY <1>2, TickStartsIdle DEF IdleStarts, IdleYieldsSoon
<1>3. CASE TurnNext /\ ~Tick /\ ~isIdleRunning
  <2>1. IdleStarts
    BY <1>3, ProcessStartsIdle, CallStartsIdle DEF TurnNext, TermNext
  <2> QED BY <2>1 DEF IdleStarts, IdleYieldsSoon
<1>4. CASE TurnNext /\ ~Tick /\ isIdleRunning
  <2>1. SUFFICES ASSUME isIdleRunning', lastClockTickPID' # IDLE_PID,
                        NEW p \in Listed', ~IsBlocked(pcb'[p])
                 PROVE  p \in woken'
    BY DEF IdleYieldsSoon
  <2>2. IdleKeeps /\ woken' = woken \cup MadeReady
    BY <1>4, WhileIdleRuns DEF TurnNext
  <2>3. /\ p \in Listed /\ p \in DOMAIN pcb'
        /\ pcb'[p].delay = pcb[p].delay /\ pcb'[p].isWaiting = pcb[p].isWaiting
    BY <2>2 DEF IdleKeeps
  <2>4. CASE IsBlocked(pcb[p])
    BY <2>1, <2>2, <2>3, <2>4 DEF MadeReady
  <2>5. CASE ~IsBlocked(pcb[p])
    <3>1. lastClockTickPID # IDLE_PID
      <4>1. lastClockTickPID' = lastClockTickPID
        BY <2>2 DEF IdleKeeps
      <4> QED BY <2>1, <4>1
    <3> QED BY <1>4, <2>2, <2>3, <2>5, <3>1 DEF IdleYieldsSoon
  <2> QED BY <2>4, <2>5
<1> QED BY <1>1, <1>2, <1>3, <1>4

\* While idle holds the CPU from a process that could run, the next tick calls
\* the scheduler, but for a process that a terminal's interrupt made ready since
\* a tick that was another's (clockTrapHandler, scheduleProcess, wakeUpReader,
\* wakeUpWriter and ttyTransmitTrapHandler).
THEOREM IdleYields == TurnSpec => []IdleYieldsSoon
<1>1. TurnInit => IInv /\ IdleYieldsSoon
  BY InitIInv DEF TurnInit, TermInit, ProcInit, SchedInit, IdleYieldsSoon
<1>2. IInv /\ IdleYieldsSoon /\ [TurnNext]_turnVars => IInv' /\ IdleYieldsSoon'
  <2>1. [TurnNext]_turnVars => [TermNext]_termVars
    BY DEF TurnNext, turnVars
  <2> QED BY <2>1, TermNextStep, TurnStep
<1> QED BY <1>1, <1>2, PTL DEF TurnSpec
=============================================================================
