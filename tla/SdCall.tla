------------------------------- MODULE SdCall -------------------------------
(***************************************************************************)
(* What sd_write is to its caller: a call that answers 0 or an error code, *)
(* over a card that is in one of four conditions the caller cannot see.    *)
(*                                                                         *)
(*   down    no card has been identified yet, an identification may work   *)
(*   up      a card has been identified                                    *)
(*   wedged  an identification failed half-way: no other will be tried     *)
(*   mute    a read or a write went unanswered: the next one stops the     *)
(*           program                                                       *)
(***************************************************************************)
VARIABLES
  st,      (* "idle", in a "call", "doomed" in a call made to a mute card, *)
           (* or "dead": the program has stopped                           *)
  card,    (* the condition of the card, as the drivers have it            *)
  ret      (* what the last call returned: "none", "ok" or "fail"          *)

avars == <<st, card, ret>>

Init == st = "idle" /\ card = "down" /\ ret = "none"

Call ==
  /\ st = "idle"
  /\ st' = IF card = "mute" THEN "doomed" ELSE "call"
  /\ ret' = "none"
  /\ UNCHANGED card

Identified   == st = "call" /\ card = "down" /\ card' = "up" /\ UNCHANGED <<st, ret>>
Misidentified == st = "call" /\ card = "down" /\ card' = "wedged" /\ UNCHANGED <<st, ret>>
Unanswered   == st = "call" /\ card = "up" /\ card' = "mute" /\ UNCHANGED <<st, ret>>

Die ==
  /\ st \in {"call", "doomed"} /\ card = "mute"
  /\ st' = "dead"
  /\ UNCHANGED <<card, ret>>

Succeed ==
  /\ st = "call" /\ card \in {"up", "mute"}
  /\ st' = "idle" /\ ret' = "ok"
  /\ UNCHANGED card

Fail ==
  /\ st = "call"
  /\ st' = "idle" /\ ret' = "fail"
  /\ UNCHANGED card

Reset == st' = "idle" /\ card' = "down" /\ ret' = "none"

Step == Identified \/ Misidentified \/ Unanswered \/ Die \/ Succeed \/ Fail
Next == Call \/ Step \/ Reset

Spec == Init /\ [][Next]_avars /\ WF_avars(Step)
=============================================================================
