---------------------------- MODULE MCScheduler ----------------------------
(* Two events, a queue of three (four slots, so the indices wrap after     *)
(* four puts), the thread and two nesting interrupt levels.                *)
EXTENDS Scheduler

CONSTANTS e1, e2
MCEvent == {e1, e2}
=============================================================================
