------------------------------ MODULE TwiCall ------------------------------
(***************************************************************************)
(* What a blocking bus call of twi.c promises its caller: a call has one   *)
(* or two transfers to make, makes them one after the other on the bus of  *)
(* its sensor, and returns success only after the last.  It may also be    *)
(* told, on bus 0 only and only after a transfer that did go through, that *)
(* the bus was busy; and it may hang for good.                             *)
(***************************************************************************)
EXTENDS Naturals

VARIABLES
  st,     (* "idle", "active" or "hung"                                    *)
  ins,    (* the bus of the current or last call                           *)
  todo,   (* transfers of the call that have not gone through yet          *)
  res     (* what the last call returned, "none" while one is active       *)

avars == <<st, ins, todo, res>>

Init == st = "idle" /\ ins \in {0, 1} /\ todo = 0 /\ res = "none"

Call ==
  /\ st = "idle"
  /\ st' = "active" /\ ins' \in {0, 1} /\ todo' \in {1, 2} /\ res' = "none"

(* A call turned away on its arguments, without any transfer.              *)
Reject ==
  /\ st = "idle"
  /\ res' = "rejected" /\ ins' \in {0, 1}
  /\ UNCHANGED <<st, todo>>

Transfer ==
  /\ st = "active" /\ todo > 0
  /\ todo' = todo - 1
  /\ UNCHANGED <<st, ins, res>>

Hang ==
  /\ st = "active" /\ todo > 0
  /\ st' = "hung"
  /\ UNCHANGED <<ins, todo, res>>

Succeed ==
  /\ st = "active" /\ todo = 0
  /\ st' = "idle" /\ res' = "ok"
  /\ UNCHANGED <<ins, todo>>

(* The false alarm of bus 0: at least one transfer has gone through.       *)
ReportBusy ==
  /\ st = "active" /\ ins = 0 /\ todo < 2
  /\ st' = "idle" /\ res' = "busy" /\ todo' = 0
  /\ UNCHANGED ins

Step == Transfer \/ Hang \/ Succeed \/ ReportBusy
Next == Call \/ Reject \/ Step

Spec == Init /\ [][Next]_avars /\ WF_avars(Step)
=============================================================================
