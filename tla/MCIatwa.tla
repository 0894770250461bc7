------------------------------ MODULE MCIatwa ------------------------------
(* Time in steps of 200 ms: a period of 3 for 600 ms, a watchdog of 20 for *)
(* 4000 ms, the queue of ten events of main.c.  A measurement may take as  *)
(* long as the watchdog waits, or, in the fast runs, two steps at most.    *)
EXTENDS Iatwa
=============================================================================
