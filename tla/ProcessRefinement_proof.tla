----------------------- MODULE ProcessRefinement_proof -----------------------
(***************************************************************************)
(* ProcessControl implements ChildLifecycle under the mapping of           *)
(* ProcessRefinement: each of the four kinds of steps that FamilySteps     *)
(* tells apart is a birth, a death, a collection or a stutter of it.       *)
(***************************************************************************)
EXTENDS ProcessRefinement, ProcessCalls_proof

\* The mapped variables, position by position.
LEMMA MappedValues ==
  ASSUME NEW p \in UserPids
  PROVE  /\ ParentNow[p] = IF p \in LiveNow THEN pcb[p].parentPid
                           ELSE ORPHAN_PARENT_PID
         /\ PendingNow[p] = IF p \in LiveNow THEN pcb[p].exitQ ELSE << >>
         /\ ParentNow'[p] = IF p \in LiveNow' THEN pcb'[p].parentPid
                            ELSE ORPHAN_PARENT_PID
         /\ PendingNow'[p] = IF p \in LiveNow' THEN pcb'[p].exitQ ELSE << >>
BY DEF ParentNow, PendingNow

\* Init alone, without a family, is the initial state of ChildLifecycle.
LEMMA InitMaps == ProcInit => Lifecycle!Init
<1> SUFFICES ASSUME ProcInit PROVE Lifecycle!Init
  OBVIOUS
<1>1. LiveNow = {INIT_PID}
  BY DEF ProcInit, SchedInit, LiveNow, Listed
<1>2. pcb[INIT_PID] = NewPCB(ORPHAN_PARENT_PID, InUserMode)
  BY DEF ProcInit, SchedInit, INIT_PID, IDLE_PID
<1>3. pcb[INIT_PID].parentPid = ORPHAN_PARENT_PID /\ pcb[INIT_PID].exitQ = << >>
  BY <1>2 DEF NewPCB
<1>4. 1 .. nextPid - 1 = {INIT_PID}
  BY DEF ProcInit, SchedInit, INIT_PID
<1>5. ParentNow = [p \in UserPids |-> ORPHAN_PARENT_PID]
  BY <1>1, <1>3 DEF ParentNow
<1>6. PendingNow = [p \in UserPids |-> << >>]
  BY <1>1, <1>3 DEF PendingNow
<1> QED BY <1>1, <1>4, <1>5, <1>6 DEF Lifecycle!Init

\* A step that keeps the family changes nothing ChildLifecycle speaks of.
LEMMA KeptMaps == FamilyKept => UNCHANGED Lifecycle!vars
<1> SUFFICES ASSUME FamilyKept PROVE UNCHANGED Lifecycle!vars
  OBVIOUS
<1>1. LiveNow' = LiveNow /\ nextPid' = nextPid /\ LiveNow \subseteq Listed
  BY DEF FamilyKept, LiveNow
<1>2. \A p \in LiveNow : /\ pcb'[p].parentPid = pcb[p].parentPid
                         /\ pcb'[p].exitQ = pcb[p].exitQ
  BY <1>1 DEF FamilyKept
<1>3. ParentNow' = ParentNow /\ PendingNow' = PendingNow
  BY <1>1, <1>2 DEF ParentNow, PendingNow
<1> QED BY <1>1, <1>3 DEF Lifecycle!vars

\* A report taken by Wait is the oldest pending exit of the caller's.
LEMMA TakenMaps ==
  ASSUME IInv, ReportTaken
  PROVE  \E p \in UserPids : Lifecycle!Collect(p)
<1>1. PICK p \in UserPids : p = Current
  BY CurrentIsKnown DEF IInv, ReportTaken
<1>2. LiveNow = Listed /\ LiveNow' = Listed /\ p \in Listed
  BY <1>1 DEF ReportTaken, LiveNow
<1>3. /\ \A q \in Listed : /\ pcb'[q].parentPid = pcb[q].parentPid
                           /\ q # p => pcb'[q].exitQ = pcb[q].exitQ
      /\ pcb'[p].exitQ = Tail(pcb[p].exitQ) /\ pcb[p].exitQ # << >>
      /\ nextPid' = nextPid
  BY <1>1 DEF ReportTaken
<1>4. ParentNow' = ParentNow
  BY <1>2, <1>3 DEF ParentNow
<1>5. PendingNow[p] = pcb[p].exitQ
  BY <1>2 DEF PendingNow
<1>6. PendingNow' = [PendingNow EXCEPT ![p] = Tail(@)]
  BY <1>2, <1>3 DEF PendingNow
<1>7. Lifecycle!Collect(p)
  BY <1>2, <1>3, <1>4, <1>5, <1>6 DEF Lifecycle!Collect
<1> QED BY <1>7

\* A fork is a birth: its pid was never used.
LEMMA BornMaps ==
  ASSUME IInv, ChildBorn
  PROVE  \E p, c \in UserPids : Lifecycle!Birth(p, c)
<1>1. PICK p \in UserPids : p = Current
  BY CurrentIsKnown DEF IInv, ChildBorn
<1>2. PICK c \in UserPids : c = nextPid
  BY DEF ChildBorn
<1>3. /\ LiveNow = Listed /\ LiveNow' = Listed \cup {c}
      /\ p \in Listed /\ c \notin Listed /\ nextPid' = nextPid + 1
  BY <1>1, <1>2 DEF ChildBorn, LiveNow
<1>4. /\ \A q \in Listed : /\ pcb'[q].parentPid = pcb[q].parentPid
                           /\ pcb'[q].exitQ = pcb[q].exitQ
      /\ pcb'[c].parentPid = p /\ pcb'[c].exitQ = << >>
  BY <1>1, <1>2 DEF ChildBorn
<1>5. c \notin 1 .. nextPid - 1
      /\ 1 .. nextPid' - 1 = (1 .. nextPid - 1) \cup {c}
  <2>1. nextPid \in Nat /\ nextPid >= 1
    BY <1>2 DEF UserPids
  <2> QED BY <1>2, <1>3, <2>1
<1>6. ParentNow' = [ParentNow EXCEPT ![c] = p]
  BY <1>3, <1>4 DEF ParentNow
<1>7. PendingNow' = PendingNow
  BY <1>3, <1>4 DEF PendingNow
<1>8. Lifecycle!Birth(p, c)
  BY <1>3, <1>5, <1>6, <1>7 DEF Lifecycle!Birth
<1> QED BY <1>8

\* An exit is a death: the parent's pending exits grow by it, the children are
\* nobody's, and what the process had not collected is gone.
LEMMA DiedMaps ==
  ASSUME IInv, NEW status \in ExitStatuses \cup {ERROR}, ProcessDied(status)
  PROVE  \E p \in UserPids : Lifecycle!Death(p, status)
<1>1. PICK p \in UserPids : p = Current
  BY CurrentIsKnown DEF IInv, ProcessDied
<1>2. PICK par \in Listed \cup {ORPHAN_PARENT_PID} : par = pcb[p].parentPid
  BY <1>1 DEF ProcessDied
<1> DEFINE report == [pid |-> p, exitType |-> status]
<1>3. Listed \subseteq UserPids /\ p \in Listed /\ par # p
  BY <1>1, <1>2, CurrentIsKnown DEF IInv, ProcessDied
<1>4. LiveNow = Listed /\ LiveNow' = Listed \ {p}
  BY <1>1 DEF ProcessDied, LiveNow
<1>5. /\ \A q \in Listed :
           /\ pcb'[q].parentPid = IF pcb[q].parentPid = p
                                  THEN ORPHAN_PARENT_PID ELSE pcb[q].parentPid
           /\ pcb'[q].exitQ = IF q = par THEN Append(pcb[q].exitQ, report)
                              ELSE pcb[q].exitQ
      /\ nextPid' = nextPid
  BY <1>1, <1>2 DEF ProcessDied
<1>6. ORPHAN_PARENT_PID \notin UserPids
  BY DEF ORPHAN_PARENT_PID, UserPids
<1>7. ParentNow[p] = par
  BY <1>2, <1>3, <1>4 DEF ParentNow
<1>8. ParentNow' = [c \in UserPids |->
                      IF c = p \/ ParentNow[c] = p THEN ORPHAN_PARENT_PID
                      ELSE ParentNow[c]]
  BY <1>3, <1>4, <1>5, <1>6 DEF ParentNow
<1> HIDE DEF report
<1>9. PendingNow' = [q \in UserPids |->
                       CASE q = p -> << >>
                         [] q = ParentNow[p] -> Append(PendingNow[q], report)
                         [] OTHER -> PendingNow[q]]
  <2>1. ASSUME NEW q \in UserPids
        PROVE  PendingNow'[q] = CASE q = p -> << >>
                                  [] q = ParentNow[p] -> Append(PendingNow[q], report)
                                  [] OTHER -> PendingNow[q]
    <3>1. CASE q = p
      BY <1>3, <1>4, <1>7, <3>1, MappedValues
    <3>2. CASE q = par
      <4>1. q \in Listed /\ q # p
        BY <1>3, <1>6, <3>2
      <4>2. PendingNow'[q] = Append(pcb[q].exitQ, report)
            /\ PendingNow[q] = pcb[q].exitQ
        BY <1>4, <1>5, <3>2, <4>1, MappedValues
      <4> QED BY <1>7, <3>2, <4>1, <4>2
    <3>3. CASE q # p /\ q # par
      BY <1>4, <1>5, <1>7, <3>3, MappedValues
    <3> QED BY <3>1, <3>2, <3>3
  <2>2. PendingNow' = [q \in UserPids |-> PendingNow'[q]]
    BY DEF PendingNow
  <2> QED BY <2>1, <2>2
<1>10. Lifecycle!Death(p, status)
  BY <1>3, <1>4, <1>5, <1>8, <1>9 DEF Lifecycle!Death, report
<1> QED BY <1>10

\* Every step of the kernel is a step of ChildLifecycle or none.
LEMMA StepMaps ==
  ASSUME IInv, [ProcNext]_procVars
  PROVE  [Lifecycle!Next]_Lifecycle!vars
<1>1. CASE FamilyKept
  BY <1>1, KeptMaps
<1>2. CASE ReportTaken
  BY <1>2, TakenMaps DEF Lifecycle!Next
<1>3. CASE ChildBorn
  BY <1>3, BornMaps DEF Lifecycle!Next
<1>4. CASE \E status \in ExitStatuses \cup {ERROR} : ProcessDied(status)
  BY <1>4, DiedMaps DEF Lifecycle!Next
<1> QED BY <1>1, <1>2, <1>3, <1>4, FamilySteps

\* The process table with its scheduler, interrupts and handler tails does to
\* parents and children what ChildLifecycle says and nothing else.
THEOREM ProcessControlImplementsLifecycle == ProcSpec => ImplementsLifecycle
<1>1. ProcInit => Lifecycle!Init
  BY InitMaps
<1>2. IInv /\ [ProcNext]_procVars => [Lifecycle!Next]_Lifecycle!vars
  BY StepMaps
<1> QED BY <1>1, <1>2, Invariance, PTL DEF ImplementsLifecycle, Lifecycle!Spec, ProcSpec
=============================================================================
