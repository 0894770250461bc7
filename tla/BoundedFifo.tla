---------------------------- MODULE BoundedFifo ----------------------------
(***************************************************************************)
(* What the event scheduler promises: a queue of at most Capacity events,  *)
(* handled one at a time in the order in which they were accepted, where   *)
(* the event being handled still counts, and an event is refused only when *)
(* the queue is full.                                                      *)
(***************************************************************************)
EXTENDS Naturals, Sequences

CONSTANTS Event, Capacity, None

VARIABLES
  queue,   (* accepted events, oldest first                                *)
  cur,     (* the event being handled, or None                             *)
  ret      (* what the last put was told                                   *)

fvars == <<queue, cur, ret>>

Init ==
  /\ queue = <<>>
  /\ cur = None
  /\ ret = "none"

Accept(e) ==
  /\ Len(queue) < Capacity
  /\ queue' = Append(queue, e)
  /\ ret' = "ok"
  /\ UNCHANGED cur

Refuse ==
  /\ Len(queue) = Capacity
  /\ ret' = "no_mem"
  /\ UNCHANGED <<queue, cur>>

TooLong ==
  /\ ret' = "invalid_length"
  /\ UNCHANGED <<queue, cur>>

Take ==
  /\ cur = None /\ queue # <<>>
  /\ cur' = Head(queue)
  /\ UNCHANGED <<queue, ret>>

Finish ==
  /\ cur # None
  /\ queue' = Tail(queue)
  /\ cur' = None
  /\ UNCHANGED ret

Next ==
  \/ Refuse \/ TooLong \/ \E e \in Event : Accept(e)
  \/ Take \/ Finish

Spec == Init /\ [][Next]_fvars /\ WF_fvars(Take \/ Finish)
=============================================================================
