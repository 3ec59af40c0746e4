------------------------------ MODULE Terminals ------------------------------
(***************************************************************************)
(* TtyRead, TtyWrite and the terminal interrupts (terminal.c,              *)
(* trapHandlers.c) composed with the process table and the scheduler.      *)
(*                                                                         *)
(* The terminal hardware is external: transmitting[t] counts the           *)
(* TtyTransmit calls whose interrupt has not come, and a receive interrupt *)
(* brings any of InputLines.  unread[t] is a history variable: what count  *)
(* has counted in t's buffer and no TtyRead returned, oldest first.  It    *)
(* starts with the cells that a positive count found by malloc pretends to *)
(* have been stored.                                                       *)
(***************************************************************************)
EXTENDS ProcessControl

CONSTANTS TERMINAL_MAX_LINE,   \* size of a terminal's buffer
          InputLines,          \* what TtyReceive may bring
          OutputTexts,         \* what a process may pass to TtyWrite
          ReadLengths,         \* lengths a process may pass to TtyRead
          InitialCounts,       \* what malloc may leave in an unset count
          MaxTransmissions     \* bound: transmissions begun or about to be

Newline == "\n"
Unset == "unset"       \* a cell of the buffer that was never stored to

ASSUME TerminalsAssumption ==
  /\ TERMINAL_MAX_LINE \in Nat \ {0}
  /\ ReadLengths \subseteq Nat
  /\ InitialCounts \subseteq Int
  /\ MaxTransmissions \in Nat
  /\ InputLines \cup OutputTexts \subseteq Seq(STRING \ {Unset})

VARIABLES buffer, write, count, transmitting, unread

ttyVars == <<buffer, write, count, transmitting, unread>>
termVars == <<procVars, ttyVars>>

-----------------------------------------------------------------------------
(* The buffers *)

\* The cell i places after cell k.
Cell(k, i) == (k + i) % TERMINAL_MAX_LINE

\* The index TtyRead starts at: readBuffer advances a copy of it only.
read == 0

\* The characters readBuffer and isNewLineInBuffer go through.
Visible(t) == [i \in 1 .. count[t] |-> buffer[t][Cell(read, i - 1)]]

isNewLineInBuffer(t) == \E i \in 1 .. count[t] : Visible(t)[i] = Newline

Shorter(m, n) == IF m < n THEN m ELSE n

\* How much of text fits; the rest is dropped.  The test is for a full buffer
\* only: a count beyond it stops nothing.
Fitting_All(t, text) == text                     \* faulty variant
Fitting(t, text) ==
  IF count[t] > TERMINAL_MAX_LINE THEN text
  ELSE SubSeq(text, 1, Shorter(Len(text), TERMINAL_MAX_LINE - count[t]))

\* The cells after text was stored from cell k on: the last one stored to a
\* cell stays there.
StoredAt(t, text, k) ==
  [c \in DOMAIN buffer[t] |->
     LET hits == {i \in 1 .. Len(text) : c = Cell(k, i - 1)}
     IN IF hits = {} THEN buffer[t][c]
        ELSE text[CHOOSE i \in hits : \A j \in hits : j <= i]]

StoredFrom_NextCell(t, text) ==                  \* faulty variant
  StoredAt(t, text, Cell(write[t], 1))
StoredFrom(t, text) == StoredAt(t, text, write[t])

\* The loop of writeBuffer.  Input and output use the same buffer.
Store(t, text) ==
  LET stored == Fitting(t, text)
  IN /\ buffer' = [buffer EXCEPT ![t] = StoredFrom(t, stored)]
     /\ write' = [write EXCEPT ![t] = Cell(@, Len(stored))]
     /\ count' = [count EXCEPT ![t] = @ + Len(stored)]
     /\ unread' = [unread EXCEPT ![t] = @ \o stored]

\* The loop of readBuffer: up to len characters are returned.  There is a line,
\* so count is positive.
Take(t, len) ==
  LET n == Shorter(len, count[t])
  IN /\ count' = [count EXCEPT ![t] = @ - n]
     /\ unread' = [unread EXCEPT ![t] = SubSeq(@, n + 1, Len(@))]
     /\ UNCHANGED <<buffer, write, transmitting>>

-----------------------------------------------------------------------------
(* Looking for processes on the list *)

Writers(t) == {p \in Listed : pcb[p].isWriting = t}
WaitingWriters(t) == {p \in Listed : pcb[p].isWaitWriting = t}
WaitingReaders(t) == {p \in Listed : pcb[p].isWaitReading = t}

\* The first process of S on the list, or NULL.
FirstListed(S) ==
  IF S = {} THEN NULL
  ELSE CHOOSE p \in S : \E i \in 1 .. Len(queue) :
         queue[i] = p /\ \A j \in 1 .. i - 1 : queue[j] \notin S

getWritingPCB(t) == FirstListed(Writers(t))
NextWriter(t) == FirstListed(WaitingWriters(t))
NextReader(t) == FirstListed(WaitingReaders(t))

-----------------------------------------------------------------------------
(* TtyWrite *)

\* Storing the text, starting the transmission and marking the caller: the
\* process is not switched away from, so the call returns at once.
Transmit(t, text) ==
  /\ Store(t, text)
  /\ transmitting' = [transmitting EXCEPT ![t] = @ + 1]
Marked(t) == [pcb EXCEPT ![Current].isWriting = t]

\* Bound: a call that would exceed it is not made, so that no process is stuck
\* inside a call for want of it.
MayTransmit(t) ==
  transmitting[t] + Cardinality({p \in Listed :
      pcb[p].savedContext = [at |-> "write", arg |-> t]}) < MaxTransmissions

TtyWrite(t, text) ==
  /\ SystemCall
  /\ MayTransmit(t)
  /\ getWritingPCB(t) = NULL
  /\ Transmit(t, text)
  /\ pcb' = Marked(t)
  /\ UNCHANGED <<queue, isIdleRunning, lastClockTickPID, nextPid,
                 processExitingNow, machine, histVars>>

\* The caller waits until a transmission ends.
ParkedWriter(t) == [pcb EXCEPT ![Current].isWaitWriting = t]

TtyWriteBlocks(t) ==
  /\ SystemCall
  /\ MayTransmit(t)
  /\ getWritingPCB(t) # NULL
  /\ Schedule(ParkedWriter(t), [at |-> "write", arg |-> t])
  /\ UNCHANGED <<lastClockTickPID, nextPid, processExitingNow, machine,
                 histVars, ttyVars>>

InsideWrite(t) == /\ KernelMode
                  /\ pcb[Current].savedContext = [at |-> "write", arg |-> t]

\* Faulty variant: a woken writer does not look for another one again.
WriteResumes_NoRecheck(t, text) ==
  /\ InsideWrite(t)
  /\ Transmit(t, text)
  /\ BackToUser(Marked(t))
  /\ UNCHANGED <<queue, isIdleRunning, lastClockTickPID, nextPid, machine,
                 histVars>>

\* The text is the one passed to the call, chosen when it is stored: the
\* caller's memory does not change while it is in the kernel.
WriteResumes(t, text) ==
  /\ InsideWrite(t)
  /\ getWritingPCB(t) = NULL
  /\ Transmit(t, text)
  /\ BackToUser(Marked(t))
  /\ UNCHANGED <<queue, isIdleRunning, lastClockTickPID, nextPid, machine,
                 histVars>>

WriteWaitsAgain(t) ==
  /\ InsideWrite(t)
  /\ getWritingPCB(t) # NULL
  /\ Schedule(FreeExiting(ParkedWriter(t)), [at |-> "write", arg |-> t])
  /\ processExitingNow' = NULL
  /\ UNCHANGED <<lastClockTickPID, nextPid, machine, histVars, ttyVars>>

-----------------------------------------------------------------------------
(* TtyRead *)

TtyRead(t, len) ==
  /\ SystemCall
  /\ isNewLineInBuffer(t)
  /\ Take(t, len)
  /\ UNCHANGED procVars

ParkedReader(t) == [pcb EXCEPT ![Current].isWaitReading = t]

TtyReadBlocks(t) ==
  /\ SystemCall
  /\ ~isNewLineInBuffer(t)
  /\ Schedule(ParkedReader(t), [at |-> "read", arg |-> t])
  /\ UNCHANGED <<lastClockTickPID, nextPid, processExitingNow, machine,
                 histVars, ttyVars>>

InsideRead(t) == /\ KernelMode
                 /\ pcb[Current].savedContext = [at |-> "read", arg |-> t]

ReadResumes(t, len) ==
  /\ InsideRead(t)
  /\ isNewLineInBuffer(t)
  /\ Take(t, len)
  /\ BackToUser(pcb)
  /\ UNCHANGED <<queue, isIdleRunning, lastClockTickPID, nextPid, machine,
                 histVars>>

ReadWaitsAgain(t) ==
  /\ InsideRead(t)
  /\ ~isNewLineInBuffer(t)
  /\ Schedule(FreeExiting(ParkedReader(t)), [at |-> "read", arg |-> t])
  /\ processExitingNow' = NULL
  /\ UNCHANGED <<lastClockTickPID, nextPid, machine, histVars, ttyVars>>

-----------------------------------------------------------------------------
(* Interrupts.  Like the clock's they come only in user mode.              *)

\* Faulty variants: no waiting writer is woken if the process that was writing
\* is gone, the mark of the writer stays.
AfterTransmit_WriterOnly(t) ==
  [p \in DOMAIN pcb |->
     IF getWritingPCB(t) = NULL THEN pcb[p]
     ELSE [pcb[p] EXCEPT
             !.isWriting = IF p = getWritingPCB(t) THEN NoTerminal ELSE @,
             !.isWaitWriting = IF p = NextWriter(t) THEN NoTerminal ELSE @]]
AfterTransmit_KeepsMark(t) ==
  [p \in DOMAIN pcb |->
     [pcb[p] EXCEPT
        !.isWaitWriting = IF p = NextWriter(t) THEN NoTerminal ELSE @]]

\* The PCBs after the process marked as writing was unmarked, if it is still
\* there, and the first one waiting to write was woken.
AfterTransmit(t) ==
  [p \in DOMAIN pcb |->
     [pcb[p] EXCEPT
        !.isWriting = IF p = getWritingPCB(t) THEN NoTerminal ELSE @,
        !.isWaitWriting = IF p = NextWriter(t) THEN NoTerminal ELSE @]]

TransmitInterrupt(t) ==
  /\ UserMode
  /\ transmitting[t] > 0
  /\ transmitting' = [transmitting EXCEPT ![t] = @ - 1]
  /\ pcb' = AfterTransmit(t)
  /\ UNCHANGED <<queue, isIdleRunning, lastClockTickPID, nextPid,
                 processExitingNow, machine, histVars,
                 buffer, write, count, unread>>

\* wakeUpReader
AfterReceive(t) ==
  [p \in DOMAIN pcb |->
     [pcb[p] EXCEPT
        !.isWaitReading = IF p = NextReader(t) THEN NoTerminal ELSE @]]

ReceiveInterrupt(t, line) ==
  /\ UserMode
  /\ Store(t, line)
  /\ pcb' = IF isNewLineInBuffer(t)' THEN AfterReceive(t) ELSE pcb
  /\ UNCHANGED <<queue, isIdleRunning, lastClockTickPID, nextPid,
                 processExitingNow, machine, histVars, transmitting>>

-----------------------------------------------------------------------------
\* initTerminalBuffers sets read and write; count is what malloc's memory held.
TermInit ==
  /\ ProcInit
  /\ buffer = [t \in Terminals |-> [c \in 0 .. TERMINAL_MAX_LINE - 1 |-> Unset]]
  /\ write = [t \in Terminals |-> 0]
  /\ count \in [Terminals -> InitialCounts]
  /\ transmitting = [t \in Terminals |-> 0]
  /\ unread = [t \in Terminals |-> [i \in 1 .. count[t] |-> Unset]]

CallReturns(t) == \/ \E text \in OutputTexts : WriteResumes(t, text)
                  \/ WriteWaitsAgain(t)
                  \/ \E len \in ReadLengths : ReadResumes(t, len)
                  \/ ReadWaitsAgain(t)

TermNext ==
  \/ ProcNext /\ UNCHANGED ttyVars
  \/ \E t \in Terminals :
       \/ \E text \in OutputTexts : TtyWrite(t, text)
       \/ TtyWriteBlocks(t)
       \/ \E len \in ReadLengths : TtyRead(t, len)
       \/ TtyReadBlocks(t)
       \/ CallReturns(t)
       \/ TransmitInterrupt(t)
       \/ \E line \in InputLines : ReceiveInterrupt(t, line)

TermSpec == TermInit /\ [][TermNext]_termVars

\* As in ProcFairSpec; and a transmission that was started ends with an
\* interrupt, which stays pending until user mode lets it in.
TermFairSpec ==
  /\ TermSpec
  /\ WF_termVars(Tick /\ UNCHANGED ttyVars)
  /\ WF_termVars((Resume /\ UNCHANGED ttyVars)
                   \/ \E t \in Terminals : CallReturns(t))
  /\ \A t \in Terminals : SF_termVars(TransmitInterrupt(t))

-----------------------------------------------------------------------------
(* Properties *)

Chars == {Unset, Newline} \cup UNION {{x[i] : i \in DOMAIN x} :
                                      x \in InputLines \cup OutputTexts}

\* malloc left no count beyond the size of a buffer.
CountsFit == \A c \in InitialCounts : c <= TERMINAL_MAX_LINE

\* Every variable of the terminals has the type the code gives it, and a count
\* that did not start beyond the size of the buffer never gets there.
TermTypeOK ==
  /\ TypeOK
  /\ buffer \in [Terminals -> [0 .. TERMINAL_MAX_LINE - 1 -> Chars]]
  /\ write \in [Terminals -> 0 .. TERMINAL_MAX_LINE - 1]
  /\ count \in [Terminals -> Int]
  /\ CountsFit => \A t \in Terminals : count[t] <= TERMINAL_MAX_LINE
  /\ transmitting \in [Terminals -> 0 .. MaxTransmissions]
  /\ unread \in [Terminals -> Seq(Chars)]

\* At most one process is marked as writing to a terminal, and while it is, a
\* transmission is under way whose interrupt will unmark it: getWritingPCB
\* never leaves a second marked process behind (processScheduling.c:207-222).
OneWriterTransmitting ==
  \A t \in Terminals : /\ Cardinality(Writers(t)) <= 1
                       /\ Writers(t) # {} => transmitting[t] > 0

\* When somebody waits to write to a terminal, either an interrupt that wakes
\* the first in line is to come, or one that was woken has still to run and
\* will cause the next interrupt: no writer is forgotten, not even when the
\* process it waited for moved to another terminal or exited.
WaitingWriterHasWaker ==
  \A t \in Terminals : WaitingWriters(t) # {} =>
    \/ transmitting[t] > 0
    \/ \E p \in Listed : /\ pcb[p].savedContext = [at |-> "write", arg |-> t]
                         /\ pcb[p].isWaitWriting = NoTerminal

\* A TtyRead goes through a cell that was never stored to only because
\* initTerminalBuffers left count unset (terminal.c:14-18), and only as long as
\* not everything that count started with was read: stores, counted from the
\* write index, never run ahead of reads, counted from index 0, by themselves.
UnstoredOnlyFromMalloc ==
  \A t \in Terminals :
    (\E i \in 1 .. count[t] : Visible(t)[i] = Unset)
      => \E i \in 1 .. Len(unread[t]) : unread[t][i] = Unset

\* terminal.c:25 wants a process to block while someone is writing to the
\* terminal; so transmissions to one terminal would never overlap.
OneTransmission == \A t \in Terminals : transmitting[t] <= 1

\* terminal.c:62-64 wants a reader to wait while there is no line in the buffer,
\* in a loop because another reader may come first; so with a line there and
\* readers waiting, one of them is awake.
ReadersWaitForALine ==
  \A t \in Terminals : (WaitingReaders(t) # {} /\ isNewLineInBuffer(t)) =>
    \E p \in Listed : /\ pcb[p].savedContext = [at |-> "read", arg |-> t]
                      /\ pcb[p].isWaitReading = NoTerminal

\* terminal.c:73: when a read goes ahead there is a new line to be read; so
\* what it goes through would be what no one has read.
ReadsWhatIsUnread ==
  \A t \in Terminals : isNewLineInBuffer(t) => Visible(t) = unread[t]

\* While somebody waits to write to a terminal, one after the other of those
\* waiting is woken (which one is another matter: the first on the list may
\* be first again and again).
WaitingWriterIsWoken ==
  \A t \in Terminals :
    WaitingWriters(t) # {}
      ~> \/ machine # "running"
         \/ \E p \in Listed :
              /\ pcb[p].savedContext = [at |-> "write", arg |-> t]
              /\ pcb[p].isWaitWriting = NoTerminal

\* The mark of a writer is taken away again, so that the process can run after
\* its next turn and others can write.
WriterIsUnmarked ==
  \A p \in UserPids, t \in Terminals :
    p \in Writers(t) ~> (machine # "running" \/ p \notin Writers(t))
=============================================================================
