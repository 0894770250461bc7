----------------------------- MODULE Scheduler -----------------------------
(***************************************************************************)
(* The event queue of app_scheduler.c: a ring of QueueSize + 1 slots with  *)
(* producers in the thread and in interrupts that preempt each other, and  *)
(* one consumer, app_sched_execute, in the thread.  app_sched_event_put    *)
(* reserves its slot in a critical region but fills it outside, in two     *)
(* writes; app_sched_execute frees a slot only after the handler returned. *)
(***************************************************************************)
EXTENDS Integers, Sequences

CONSTANTS
  QueueSize,  (* m_queue_size                                              *)
  Levels,     (* the highest interrupt level that puts events              *)
  Event,      (* events: a handler with its data                           *)
  None        (* not an event                                              *)

(* The indices are uint8_t and next_index wraps at m_queue_size, so the    *)
(* ring works for these sizes.                                             *)
ASSUME SchedulerAssumption ==
  /\ QueueSize \in 1 .. 255
  /\ Levels \in Nat
  /\ None \notin Event

Slot    == 0 .. QueueSize
Context == 0 .. Levels        \* 0 is the thread, a higher level preempts

VARIABLES
  start,    (* m_queue_start_index                                         *)
  end,      (* m_queue_end_index                                           *)
  headers,  (* m_queue_event_headers: the event whose handler is stored    *)
  data,     (* m_queue_event_data: the event whose data is stored          *)
  active,   (* the contexts entered and not yet left                       *)
  put,      (* where each context stands in app_sched_event_put            *)
  ret,      (* what the last app_sched_event_put was told                   *)
  cur       (* the handler and data app_sched_execute is running           *)

vars == <<start, end, headers, data, active, put, ret, cur>>

TypeOK ==
  /\ start \in Slot /\ end \in Slot
  /\ headers \in [Slot -> Event \cup {None}]
  /\ data \in [Slot -> Event \cup {None}]
  /\ active \in SUBSET Context
  /\ put \in [Context -> [at : {"out", "header", "data"}, index : Slot, event : Event \cup {None}]]
  /\ ret \in {"none", "ok", "no_mem", "invalid_length"}
  /\ cur \in [handler : Event \cup {None}, data : Event \cup {None}]

(* Mutation of next_index: the wrap-around one slot late.                  *)
next_index_late(i) == IF i <= QueueSize THEN i + 1 ELSE 0

next_index(i) == IF i < QueueSize THEN i + 1 ELSE 0

(* Mutation of Full: the producer does not look.                           *)
FullNever == FALSE

Full  == next_index(end) = start
Empty == end = start

(* The context the processor runs: the highest one entered.                *)
Runs(c) == c \in active /\ \A d \in active : d <= c

Idle == cur.handler = None

(* A context that is not in app_sched_event_put.                           *)
Out == [at |-> "out", index |-> 0, event |-> None]

Init ==
  /\ start = 0 /\ end = 0
  /\ headers = [i \in Slot |-> None]
  /\ data = [i \in Slot |-> None]
  /\ active = {0}
  /\ put = [c \in Context |-> Out]
  /\ ret = "none"
  /\ cur = [handler |-> None, data |-> None]

----------------------------------------------------------------------------
(* Interrupts nest by level.                                               *)

IsrEnter(c) ==
  /\ c > 0
  /\ \A d \in active : d < c
  /\ active' = active \cup {c}
  /\ UNCHANGED <<start, end, headers, data, put, ret, cur>>

IsrExit(c) ==
  /\ c > 0
  /\ Runs(c)
  /\ put[c].at = "out"
  /\ active' = active \ {c}
  /\ UNCHANGED <<start, end, headers, data, put, ret, cur>>

(* app_sched_event_put, its critical region: a full queue is NO_MEM, else  *)
(* the slot at the end is reserved.                                        *)
PutReserve(c, e) ==
  /\ Runs(c)
  /\ put[c].at = "out"
  /\ IF Full
     THEN /\ ret' = "no_mem"
          /\ UNCHANGED <<end, put>>
     ELSE /\ put' = [put EXCEPT ![c] = [at |-> "header", index |-> end, event |-> e]]
          /\ end' = next_index(end)
          /\ ret' = "ok"
  /\ UNCHANGED <<start, headers, data, active, cur>>

(* An event with more data than a slot holds is refused.                   *)
PutTooLong(c) ==
  /\ Runs(c)
  /\ put[c].at = "out"
  /\ ret' = "invalid_length"
  /\ UNCHANGED <<start, end, headers, data, active, put, cur>>

PutHeader(c) ==
  /\ Runs(c)
  /\ put[c].at = "header"
  /\ headers' = [headers EXCEPT ![put[c].index] = put[c].event]
  /\ put' = [put EXCEPT ![c].at = "data"]
  /\ UNCHANGED <<start, end, data, active, ret, cur>>

PutData(c) ==
  /\ Runs(c)
  /\ put[c].at = "data"
  /\ data' = [data EXCEPT ![put[c].index] = put[c].event]
  /\ put' = [put EXCEPT ![c] = Out]
  /\ UNCHANGED <<start, end, headers, active, ret, cur>>

(* Mutation of ExecTake: the slot is freed before its handler runs.        *)
ExecTakeFrees ==
  /\ Runs(0)
  /\ put[0].at = "out"
  /\ Idle /\ ~Empty
  /\ cur' = [handler |-> headers[start], data |-> data[start]]
  /\ start' = next_index(start)
  /\ UNCHANGED <<end, headers, data, active, put, ret>>

(* app_sched_execute: the oldest event is read and its handler called.     *)
(* The thread itself puts events from a handler or between two rounds.     *)
ExecTake ==
  /\ Runs(0)
  /\ put[0].at = "out"
  /\ Idle /\ ~Empty
  /\ cur' = [handler |-> headers[start], data |-> data[start]]
  /\ UNCHANGED <<start, end, headers, data, active, put, ret>>

(* Mutation of ExecAdvance: the queue is taken for empty after one event.  *)
ExecAdvanceDrop ==
  /\ Runs(0)
  /\ put[0].at = "out"
  /\ ~Idle
  /\ start' = end
  /\ cur' = [handler |-> None, data |-> None]
  /\ UNCHANGED <<end, headers, data, active, put, ret>>

(* The handler returns and the start index moves on.                       *)
ExecAdvance ==
  /\ Runs(0)
  /\ put[0].at = "out"
  /\ ~Idle
  /\ start' = next_index(start)
  /\ cur' = [handler |-> None, data |-> None]
  /\ UNCHANGED <<end, headers, data, active, put, ret>>

(* What a context does to get out of the way of the ones below.            *)
Progress(c) ==
  \/ PutHeader(c) \/ PutData(c)
  \/ IsrExit(c)
  \/ c = 0 /\ (ExecTake \/ ExecAdvance)

Next ==
  \/ \E c \in Context :
       \/ IsrEnter(c) \/ IsrExit(c) \/ PutTooLong(c) \/ PutHeader(c) \/ PutData(c)
       \/ \E e \in Event : PutReserve(c, e)
  \/ ExecTake \/ ExecAdvance

(* Interrupt handlers end, and interrupts leave time to the contexts they  *)
(* preempt (one timer fires every 600 ms); the thread is in the main loop. *)
Fairness == \A c \in Context : SF_vars(Progress(c))

Spec == Init /\ [][Next]_vars
FairSpec == Spec /\ Fairness

----------------------------------------------------------------------------
(* Properties.                                                             *)

(* The slots between start and end, the ring order taken into account.     *)
InUse(i) == IF start <= end THEN start <= i /\ i < end ELSE start <= i \/ i < end

Writing(c) == put[c].at # "out"

(* Producers preempting each other hold different slots, all of them       *)
(* between start and end, so none writes what another reserved             *)
(* (app_scheduler.c:174-188).                                              *)
OneWriterPerSlot ==
  \A c \in Context : Writing(c) =>
    /\ InUse(put[c].index)
    /\ \A d \in Context : Writing(d) /\ put[d].index = put[c].index => d = c

(* The data pointer a handler got stays good until it returns: its slot is *)
(* in use, is nobody's to write, and still holds the event taken           *)
(* (app_scheduler.c:282).                                                  *)
HandlerSlotKept ==
  ~Idle =>
    /\ InUse(start)
    /\ headers[start] = cur.handler /\ data[start] = cur.data
    /\ cur.handler = cur.data
    /\ \A c \in Context : Writing(c) => put[c].index # start

(* The events accepted and not yet finished, oldest first.  An event whose *)
(* slot is not filled yet is known to the context that is filling it.      *)
Used == IF start <= end THEN end - start ELSE QueueSize + 1 - start + end
SlotAt(n) == IF start + n <= QueueSize THEN start + n ELSE start + n - (QueueSize + 1)
EventAt(i) ==
  IF \E c \in Context : Writing(c) /\ put[c].index = i
  THEN put[CHOOSE c \in Context : Writing(c) /\ put[c].index = i].event
  ELSE IF headers[i] = data[i] THEN headers[i] ELSE None

Fifo ==
  INSTANCE BoundedFifo WITH
    Capacity <- QueueSize,
    queue <- [n \in 1 .. Used |-> EventAt(SlotAt(n - 1))],
    cur <- IF cur.handler = cur.data THEN cur.handler ELSE None

(* The ring is a first-in first-out queue of QueueSize events, and every   *)
(* event it accepted is handled (app_scheduler.c:164, app_scheduler.c:263).*)
IsFifo == Fifo!Spec
=============================================================================
