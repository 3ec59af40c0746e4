------------------------------- MODULE IdleTurn -------------------------------
(***************************************************************************)
(* How long idle keeps the CPU from a process that could run.  The clock   *)
(* handler calls the scheduler only when the last tick hit the same        *)
(* process as this one, or ended a Delay under idle (trapHandlers.c,       *)
(* clockTrapHandler).  The interrupts of the terminals make a process      *)
(* ready without calling the scheduler; the history variable woken is the  *)
(* set of those they made ready since the last tick.                       *)
(***************************************************************************)
EXTENDS Terminals

VARIABLE woken

turnVars == <<termVars, woken>>

\* The processes a step makes ready without touching Delay or Wait.
MadeReady ==
  {p \in Listed \cap DOMAIN pcb' :
     /\ IsBlocked(pcb[p]) /\ ~IsBlocked(pcb'[p])
     /\ pcb'[p].delay = pcb[p].delay
     /\ pcb'[p].isWaiting = pcb[p].isWaiting}

TurnInit == TermInit /\ woken = {}

TurnNext == /\ TermNext
            /\ woken' = IF Tick THEN {} ELSE woken \cup MadeReady

TurnSpec == TurnInit /\ [][TurnNext]_turnVars

\* processScheduling.c:152 lets idle run "then switch away next clock tick".
\* While a process could run and idle has the CPU, the next tick does find that
\* the last one was idle's own and calls the scheduler; unless a terminal made
\* the process ready since the last tick, and that tick was another process's.
\* Only then a second tick is needed: the first one just records idle.
IdleYieldsSoon ==
  (isIdleRunning /\ lastClockTickPID # IDLE_PID)
    => \A p \in Listed : ~IsBlocked(pcb[p]) => p \in woken
=============================================================================
