-------------------------- MODULE Scheduler_proofs --------------------------
(***************************************************************************)
(* Proofs about Scheduler, for every queue size up to 255, any number of   *)
(* interrupt levels and any set of events.                                 *)
(***************************************************************************)
EXTENDS Scheduler, SequenceTheorems, TLAPS

(* Only a context that has been entered is inside a put.                   *)
WritersActive == \A c \in Context : Writing(c) => c \in active

(* A context that has stored the handler of its event has stored it.       *)
HeaderFirst ==
  \A c \in Context :
    /\ Writing(c) => put[c].event \in Event
    /\ put[c].at = "data" => headers[put[c].index] = put[c].event

(* A slot in use that nobody is filling holds one whole event.             *)
SlotsFilled ==
  \A i \in Slot :
    InUse(i) /\ (\A c \in Context : Writing(c) => put[c].index # i) =>
      headers[i] \in Event /\ data[i] = headers[i]

Running == ~Idle => InUse(start) /\ \A c \in Context : Writing(c) => put[c].index # start

Kept == ~Idle => cur.handler = headers[start] /\ cur.data = data[start]

IInv ==
  /\ TypeOK /\ 0 \in active
  /\ WritersActive
  /\ OneWriterPerSlot
  /\ HeaderFirst
  /\ SlotsFilled
  /\ Running
  /\ Kept

(* next_index stays on the ring, and moving an index by one takes exactly  *)
(* one slot into use at the end or out of use at the start.                *)
LEMMA NextIndexType == \A i \in Slot : next_index(i) \in Slot
  BY SchedulerAssumption DEF Slot, next_index

LEMMA Reserve ==
  ASSUME start \in Slot, end \in Slot, ~Full,
         end' = next_index(end), start' = start
  PROVE  /\ ~InUse(end)
         /\ \A i \in Slot : InUse(i)' <=> InUse(i) \/ i = end
  BY SchedulerAssumption DEF Slot, next_index, InUse, Full

LEMMA Free ==
  ASSUME start \in Slot, end \in Slot, ~Empty,
         start' = next_index(start), end' = end
  PROVE  \A i \in Slot : InUse(i)' <=> InUse(i) /\ i # start
  BY SchedulerAssumption DEF Slot, next_index, InUse, Empty

LEMMA UseStart ==
  ASSUME start \in Slot, end \in Slot
  PROVE  InUse(start) <=> ~Empty
  BY SchedulerAssumption DEF Slot, InUse, Empty

LEMMA InitOK == Init => IInv
<1> SUFFICES ASSUME Init PROVE IInv
  OBVIOUS
<1>1. 0 \in Slot /\ 0 \in Context
  BY SchedulerAssumption DEF Slot, Context
<1>2. TypeOK
  BY <1>1 DEF Init, TypeOK, Out
<1>3. \A c \in Context : ~Writing(c)
  BY DEF Init, Writing, Out
<1>4. \A i \in Slot : ~InUse(i)
  BY SchedulerAssumption DEF Init, InUse, Slot
<1>5. QED
  BY <1>2, <1>3, <1>4
     DEF Init, Out, Idle, IInv, WritersActive, OneWriterPerSlot, HeaderFirst, SlotsFilled, Running, Kept, Writing

LEMMA StepOK == IInv /\ [Next]_vars => IInv'
<1> SUFFICES ASSUME IInv, [Next]_vars PROVE IInv'
  OBVIOUS
<1> USE DEF IInv
<1>0. 0 \in Context /\ start \in Slot /\ end \in Slot
  BY SchedulerAssumption DEF Context, TypeOK
<1>1. ASSUME NEW c \in Context, IsrEnter(c) PROVE IInv'
  BY <1>1 DEF IsrEnter, TypeOK, WritersActive, OneWriterPerSlot, HeaderFirst, SlotsFilled,
              Running, Kept, Idle, InUse, Writing
<1>2. ASSUME NEW c \in Context, IsrExit(c) PROVE IInv'
  BY <1>2 DEF IsrExit, TypeOK, WritersActive, OneWriterPerSlot, HeaderFirst, SlotsFilled,
              Running, Kept, Idle, InUse, Writing
<1>3. ASSUME NEW c \in Context, PutTooLong(c) PROVE IInv'
  BY <1>3 DEF PutTooLong, TypeOK, WritersActive, OneWriterPerSlot, HeaderFirst, SlotsFilled,
              Running, Kept, Idle, InUse, Writing
<1>4. ASSUME NEW c \in Context, NEW e \in Event, PutReserve(c, e) PROVE IInv'
  <2>1. CASE Full
    BY <1>4, <2>1 DEF PutReserve, TypeOK, WritersActive, OneWriterPerSlot, HeaderFirst,
              SlotsFilled, Running, Kept, Idle, InUse, Writing
  <2>2. CASE ~Full
    <3>1. /\ put' = [put EXCEPT ![c] = [at |-> "header", index |-> end, event |-> e]]
          /\ end' = next_index(end) /\ start' = start
          /\ c \in active /\ put[c].at = "out"
          /\ UNCHANGED <<headers, data, active, cur>>
          /\ ret' = "ok"
      BY <1>4, <2>2 DEF PutReserve, Runs
    <3>2. ~InUse(end) /\ \A i \in Slot : InUse(i)' <=> InUse(i) \/ i = end
      BY <1>0, <2>2, <3>1, Reserve
    <3>3. TypeOK'
      BY <1>0, <3>1, NextIndexType DEF TypeOK
    <3>4. /\ \A d \in Context : d # c => put'[d] = put[d]
          /\ put'[c] = [at |-> "header", index |-> end, event |-> e]
      BY <3>1 DEF TypeOK
    <3>5. /\ Writing(c)' /\ ~Writing(c)
          /\ \A d \in Context : d # c => (Writing(d)' <=> Writing(d))
      BY <3>1, <3>4 DEF Writing
    <3>6. WritersActive'
      BY <3>1, <3>5 DEF WritersActive
    <3>7. OneWriterPerSlot'
      BY <1>0, <3>2, <3>4, <3>5 DEF OneWriterPerSlot, TypeOK
    <3>8. HeaderFirst'
      BY <3>1, <3>4, <3>5 DEF HeaderFirst
    <3>9. SlotsFilled'
      BY <3>1, <3>2, <3>4, <3>5 DEF SlotsFilled
    <3>10. Running' /\ Kept'
      BY <1>0, <3>1, <3>2, <3>4, <3>5 DEF Running, Kept, Idle
    <3>11. QED
      BY <3>1, <3>3, <3>6, <3>7, <3>8, <3>9, <3>10
  <2>3. QED
    BY <2>1, <2>2
<1>5. ASSUME NEW c \in Context, PutHeader(c) PROVE IInv'
  <2>1. /\ headers' = [headers EXCEPT ![put[c].index] = put[c].event]
        /\ UNCHANGED <<start, end, data, active, ret, cur>>
        /\ Writing(c) /\ put[c].index \in Slot /\ put[c].event \in Event
    BY <1>5 DEF PutHeader, Writing, TypeOK, HeaderFirst
  <2>2. \A d \in Context : /\ Writing(d)' <=> Writing(d)
                           /\ put'[d].index = put[d].index /\ put'[d].event = put[d].event
                           /\ d # c => put'[d] = put[d]
    BY <1>5 DEF PutHeader, Writing, TypeOK
  <2>3. \A i \in Slot : InUse(i)' <=> InUse(i)
    BY <2>1 DEF InUse
  <2>4. TypeOK'
    BY <1>5, <2>1 DEF PutHeader, TypeOK
  <2>5. WritersActive' /\ OneWriterPerSlot'
    BY <2>1, <2>2, <2>3 DEF WritersActive, OneWriterPerSlot, TypeOK
  <2>6. HeaderFirst'
    BY <2>1, <2>2 DEF HeaderFirst, OneWriterPerSlot, TypeOK, Writing
  <2>7. SlotsFilled'
    BY <2>1, <2>2, <2>3 DEF SlotsFilled, TypeOK
  <2>8. Running' /\ Kept'
    BY <1>0, <2>1, <2>2, <2>3 DEF Running, Kept, Idle, TypeOK
  <2>9. QED
    BY <2>1, <2>4, <2>5, <2>6, <2>7, <2>8
<1>6. ASSUME NEW c \in Context, PutData(c) PROVE IInv'
  <2>1. /\ data' = [data EXCEPT ![put[c].index] = put[c].event]
        /\ put' = [put EXCEPT ![c] = Out]
        /\ UNCHANGED <<start, end, headers, active, ret, cur>>
        /\ Writing(c) /\ put[c].index \in Slot /\ put[c].event \in Event
        /\ headers[put[c].index] = put[c].event
    BY <1>6 DEF PutData, Writing, TypeOK, HeaderFirst
  <2>2. /\ ~Writing(c)'
        /\ \A d \in Context : d # c => put'[d] = put[d] /\ (Writing(d)' <=> Writing(d))
    BY <2>1 DEF Writing, TypeOK, Out
  <2>3. \A i \in Slot : InUse(i)' <=> InUse(i)
    BY <2>1 DEF InUse
  <2>4. TypeOK'
    BY <1>0, <2>1, SchedulerAssumption DEF TypeOK, Out, Slot
  <2>5. WritersActive' /\ OneWriterPerSlot'
    BY <2>1, <2>2, <2>3 DEF WritersActive, OneWriterPerSlot, TypeOK
  <2>6. HeaderFirst'
    BY <2>1, <2>2 DEF HeaderFirst, Writing
  <2>7. SlotsFilled'
    BY <2>1, <2>2, <2>3 DEF SlotsFilled, TypeOK
  <2>8. Running' /\ Kept'
    BY <1>0, <2>1, <2>2, <2>3 DEF Running, Kept, Idle, TypeOK
  <2>9. QED
    BY <2>1, <2>4, <2>5, <2>6, <2>7, <2>8
<1>7. CASE ExecTake
  <2>1. \A c \in Context : ~Writing(c)
    BY <1>7, SchedulerAssumption DEF ExecTake, Runs, WritersActive, Writing, Context
  <2>2. /\ cur' = [handler |-> headers[start], data |-> data[start]]
        /\ UNCHANGED <<start, end, headers, data, active, put, ret>>
        /\ InUse(start)
    BY <1>0, <1>7, UseStart DEF ExecTake
  <2>3. QED
    BY <1>0, <2>1, <2>2 DEF TypeOK, WritersActive, OneWriterPerSlot, HeaderFirst, SlotsFilled,
                  Running, Kept, Idle, InUse, Writing
<1>8. CASE ExecAdvance
  <2>1. \A c \in Context : ~Writing(c)
    BY <1>8, SchedulerAssumption DEF ExecAdvance, Runs, WritersActive, Writing, Context
  <2>2. /\ start' = next_index(start)
        /\ cur' = [handler |-> None, data |-> None]
        /\ UNCHANGED <<end, headers, data, active, put, ret>>
        /\ ~Empty
    BY <1>0, <1>8, UseStart DEF ExecAdvance, Running
  <2>3. \A i \in Slot : InUse(i)' <=> InUse(i) /\ i # start
    BY <1>0, <2>2, Free
  <2>4. TypeOK'
    BY <1>0, <2>2, NextIndexType DEF TypeOK
  <2>5. QED
    BY <2>1, <2>2, <2>3, <2>4 DEF WritersActive, OneWriterPerSlot, HeaderFirst, SlotsFilled,
                  Running, Kept, Idle, Writing
<1>9. CASE UNCHANGED vars
  BY <1>9 DEF vars, TypeOK, WritersActive, OneWriterPerSlot, HeaderFirst, SlotsFilled,
              Running, Kept, Idle, InUse, Writing
<1>10. QED
  BY <1>1, <1>2, <1>3, <1>4, <1>5, <1>6, <1>7, <1>8, <1>9 DEF Next

LEMMA Inductive == Spec => []IInv
  BY InitOK, StepOK, PTL DEF Spec

(* The indices stay on the ring and every variable keeps its type.         *)
THEOREM TypeCorrect == Spec => []TypeOK
<1>1. IInv => TypeOK
  BY DEF IInv
<1>2. QED
  BY Inductive, <1>1, PTL

(* Whenever app_sched_execute looks at the queue, no context is inside a   *)
(* put.                                                                    *)
NoGap == Runs(0) /\ put[0].at = "out" => \A c \in Context : ~Writing(c)

(* The comment of app_sched_event_put: filling the slot outside the        *)
(* critical region is safe, because the consumer never interrupts a        *)
(* producer (app_scheduler.c:192).                                         *)
THEOREM ConsumerSeesNoGap == Spec => []NoGap
<1>1. IInv => NoGap
  BY SchedulerAssumption DEF IInv, NoGap, Runs, WritersActive, Writing, Context
<1>2. QED
  BY Inductive, <1>1, PTL

(* Preempting producers never share a slot (app_scheduler.c:174).          *)
THEOREM SingleWriter == Spec => []OneWriterPerSlot
<1>1. IInv => OneWriterPerSlot
  BY DEF IInv
<1>2. QED
  BY Inductive, <1>1, PTL

(* A running handler keeps its slot, and the event in it is the whole one  *)
(* that was put (app_scheduler.c:282).                                     *)
THEOREM HandlerSafe == Spec => []HandlerSlotKept
<1>1. IInv => HandlerSlotKept
  BY DEF IInv, Running, Kept, SlotsFilled, HandlerSlotKept, TypeOK
<1>2. QED
  BY Inductive, <1>1, PTL

----------------------------------------------------------------------------
(* The ring as the queue of BoundedFifo.                                   *)

Queue == [n \in 1 .. Used |-> EventAt(SlotAt(n - 1))]
Taken == IF cur.handler = cur.data THEN cur.handler ELSE None

(* The slots in use, counted from the start index.                         *)
LEMMA Ring ==
  ASSUME start \in Slot, end \in Slot
  PROVE  /\ Used \in 0 .. QueueSize
         /\ (Full <=> Used = QueueSize) /\ (Empty <=> Used = 0)
         /\ SlotAt(0) = start /\ SlotAt(Used) = end
         /\ \A n \in 0 .. Used - 1 : SlotAt(n) \in Slot /\ InUse(SlotAt(n))
  BY SchedulerAssumption DEF Slot, Used, SlotAt, Full, Empty, next_index, InUse

(* A slot being filled holds the event its writer has, any other the event *)
(* stored there.                                                           *)
Contents ==
  \A i \in Slot :
    /\ \A c \in Context : Writing(c) /\ put[c].index = i => EventAt(i) = put[c].event
    /\ (\A c \in Context : Writing(c) => put[c].index # i) /\ headers[i] = data[i] =>
         EventAt(i) = headers[i]

QueueOK ==
  /\ Queue \in Seq(Event) /\ Len(Queue) = Used
  /\ \A n \in 1 .. Used, i \in Slot : i = SlotAt(n - 1) => Queue[n] = EventAt(i)

LEMMA SlotContents == IInv => Contents
<1> SUFFICES ASSUME IInv, NEW i \in Slot
             PROVE  /\ \A c \in Context : Writing(c) /\ put[c].index = i => EventAt(i) = put[c].event
                    /\ (\A c \in Context : Writing(c) => put[c].index # i) /\ headers[i] = data[i] =>
                         EventAt(i) = headers[i]
  BY DEF Contents
<1>1. ASSUME NEW c \in Context, Writing(c), put[c].index = i PROVE EventAt(i) = put[c].event
  <2>1. \A d \in Context : Writing(d) /\ put[d].index = i => d = c
    BY <1>1 DEF IInv, OneWriterPerSlot
  <2>2. (CHOOSE d \in Context : Writing(d) /\ put[d].index = i) = c
    BY <1>1, <2>1
  <2> QED
    BY <1>1, <2>2 DEF EventAt
<1>2. ASSUME \A c \in Context : Writing(c) => put[c].index # i, headers[i] = data[i]
      PROVE  EventAt(i) = headers[i]
  BY <1>2 DEF EventAt
<1> QED
  BY <1>1, <1>2

LEMMA QueueTyped == IInv => QueueOK
<1> SUFFICES ASSUME IInv PROVE QueueOK
  OBVIOUS
<1>1. start \in Slot /\ end \in Slot
  BY DEF IInv, TypeOK
<1>2. \A i \in Slot : InUse(i) => EventAt(i) \in Event
  BY SlotContents DEF Contents, IInv, HeaderFirst, SlotsFilled
<1>3. \A n \in 1 .. Used : EventAt(SlotAt(n - 1)) \in Event
  <2> SUFFICES ASSUME NEW n \in 1 .. Used PROVE EventAt(SlotAt(n - 1)) \in Event
    OBVIOUS
  <2>1. n - 1 \in 0 .. Used - 1
    BY <1>1, Ring
  <2> QED
    BY <1>1, <1>2, <2>1, Ring
<1>4. Queue \in [1 .. Used -> Event] /\ Used \in Nat
  BY <1>1, <1>3, Ring DEF Queue
<1> QED
  BY <1>4, SeqDef, LenProperties DEF Queue, QueueOK

(* The same of the state after a step.                                     *)
LEMMA AfterStep == IInv' => Contents' /\ QueueOK'
  BY SlotContents, QueueTyped, PTL

(* The queue does not change while the indices do not and no slot in use   *)
(* gets another event.                                                     *)
LEMMA QueueKept ==
  ASSUME IInv, IInv', start' = start, end' = end, \A i \in Slot : InUse(i) => EventAt(i)' = EventAt(i)
  PROVE  Queue' = Queue
<1>1. start \in Slot /\ end \in Slot
  BY DEF IInv, TypeOK
<1>2. Used' = Used /\ \A n \in Int : SlotAt(n)' = SlotAt(n)
  BY DEF Used, SlotAt
<1>3. /\ Queue \in Seq(Event) /\ Len(Queue) = Used
      /\ Queue' \in Seq(Event) /\ Len(Queue') = Used
  BY <1>2, QueueTyped, AfterStep DEF QueueOK
<1>4. ASSUME NEW n \in 1 .. Used PROVE Queue'[n] = Queue[n]
  <2>1. n - 1 \in 0 .. Used - 1 /\ n \in 1 .. Used'
    BY <1>1, <1>2, Ring
  <2>2. PICK i \in Slot : i = SlotAt(n - 1) /\ InUse(i)
    BY <1>1, <2>1, Ring
  <2>3. i = SlotAt(n - 1)'
    BY <1>2, <2>1, <2>2
  <2> QED
    BY <2>1, <2>2, <2>3, QueueTyped, AfterStep DEF QueueOK
<1> QED
  BY <1>3, <1>4, SeqEqual

(* A producer fills its slot: the queue holds the event since the slot was *)
(* reserved.                                                               *)
LEMMA Filling ==
  ASSUME IInv, IInv', NEW c \in Context, PutHeader(c) \/ PutData(c)
  PROVE  UNCHANGED <<Queue, Taken, ret>>
<1>0. PICK k \in Slot : k = put[c].index
  BY DEF IInv, TypeOK
<1>1. /\ start' = start /\ end' = end /\ cur' = cur /\ ret' = ret
      /\ Writing(c) /\ \A i \in Slot : i # k => headers'[i] = headers[i] /\ data'[i] = data[i]
  BY <1>0 DEF PutHeader, PutData, Writing, IInv, TypeOK
<1>2. \A d \in Context : d # c => put'[d] = put[d]
  BY DEF PutHeader, PutData, IInv, TypeOK
<1>3. \/ Writing(c)' /\ put'[c].index = k /\ put'[c].event = put[c].event
      \/ ~Writing(c)' /\ headers'[k] = put[c].event /\ data'[k] = put[c].event
  BY <1>0 DEF PutHeader, PutData, Writing, Out, IInv, TypeOK, HeaderFirst
<1>4. ASSUME NEW i \in Slot, InUse(i) PROVE EventAt(i)' = EventAt(i)
  <2>a. Contents /\ Contents'
    BY SlotContents, AfterStep
  <2>b. \A d \in Context : Writing(d) /\ put[d].index = k => d = c
    BY <1>0, <1>1 DEF IInv, OneWriterPerSlot
  <2>1. CASE i = k
    <3>1. EventAt(i) = put[c].event
      BY <1>0, <1>1, <2>1, <2>a DEF Contents
    <3>2. CASE Writing(c)' /\ put'[c].index = k /\ put'[c].event = put[c].event
      BY <1>1, <2>1, <2>a, <3>1, <3>2 DEF Contents
    <3>3. CASE ~Writing(c)' /\ headers'[k] = put[c].event /\ data'[k] = put[c].event
      <4>1. \A d \in Context : Writing(d)' => put'[d].index # i
        BY <1>2, <2>1, <2>b, <3>3 DEF Writing
      <4> QED
        BY <1>1, <2>1, <2>a, <3>1, <3>3, <4>1 DEF Contents
    <3> QED
      BY <1>3, <3>2, <3>3
  <2>2. CASE i # k /\ \E d \in Context : Writing(d) /\ put[d].index = i
    <3>1. PICK d \in Context : Writing(d) /\ put[d].index = i
      BY <2>2
    <3>2. d # c /\ put'[d] = put[d] /\ Writing(d)'
      BY <1>0, <1>2, <2>2, <3>1 DEF Writing
    <3> QED
      BY <2>a, <3>1, <3>2 DEF Contents
  <2>3. CASE i # k /\ ~\E d \in Context : Writing(d) /\ put[d].index = i
    <3>1. \A d \in Context : Writing(d)' => put'[d].index # i
      BY <1>2, <1>3, <2>3 DEF Writing
    <3>2. headers[i] = data[i]
      BY <1>4, <2>3 DEF IInv, SlotsFilled
    <3> QED
      BY <1>1, <2>a, <2>3, <3>1, <3>2 DEF Contents
  <2> QED
    BY <2>1, <2>2, <2>3
<1>5. Queue' = Queue
  BY <1>1, <1>4, QueueKept
<1> QED
  BY <1>1, <1>5 DEF Taken

(* An event is accepted while there is room and goes to the end.           *)
LEMMA Accepting ==
  ASSUME IInv, IInv', NEW c \in Context, NEW e \in Event, PutReserve(c, e), ~Full
  PROVE  Len(Queue) < QueueSize /\ Queue' = Append(Queue, e) /\ ret' = "ok" /\ Taken' = Taken
<1>1. /\ put' = [put EXCEPT ![c] = [at |-> "header", index |-> end, event |-> e]]
      /\ end' = next_index(end) /\ start' = start /\ ret' = "ok"
      /\ UNCHANGED <<headers, data, cur>> /\ put[c].at = "out"
  BY DEF PutReserve
<1>2. start \in Slot /\ end \in Slot
  BY DEF IInv, TypeOK
<1>b. PICK k \in Slot : k = end
  BY <1>2
<1>3. /\ ~InUse(end) /\ Used \in 0 .. QueueSize - 1 /\ Used' = Used + 1
      /\ \A n \in Int : SlotAt(n)' = SlotAt(n)
  <2>1. ~InUse(end) /\ Used \in 0 .. QueueSize /\ Used # QueueSize
    BY <1>1, <1>2, Reserve, Ring
  <2>2. Used' = Used + 1
    BY <1>1, <1>2, SchedulerAssumption DEF Used, Full, next_index, Slot
  <2> QED
    BY <1>1, <2>1, <2>2, SchedulerAssumption DEF SlotAt
<1>4. /\ \A d \in Context : d # c => put'[d] = put[d]
      /\ put'[c] = [at |-> "header", index |-> end, event |-> e]
  BY <1>1 DEF IInv, TypeOK
<1>5. /\ Writing(c)' /\ ~Writing(c)
      /\ \A d \in Context : d # c => (Writing(d)' <=> Writing(d))
  BY <1>1, <1>4 DEF Writing
<1>a. Contents /\ Contents' /\ QueueOK /\ QueueOK'
  BY SlotContents, QueueTyped, AfterStep
<1>6. EventAt(k)' = e
  BY <1>b, <1>4, <1>5, <1>a DEF Contents
<1>7. ASSUME NEW i \in Slot, InUse(i) PROVE EventAt(i)' = EventAt(i)
  <2>1. i # end
    BY <1>3, <1>7
  <2>2. CASE \E d \in Context : Writing(d) /\ put[d].index = i
    BY <1>4, <1>5, <1>a, <2>2 DEF Contents
  <2>3. CASE ~\E d \in Context : Writing(d) /\ put[d].index = i
    <3>1. \A d \in Context : Writing(d)' => put'[d].index # i
      BY <1>4, <1>5, <2>1, <2>3
    <3>2. headers[i] = data[i]
      BY <1>7, <2>3 DEF IInv, SlotsFilled
    <3> QED
      BY <1>1, <1>a, <2>3, <3>1, <3>2 DEF Contents
  <2> QED
    BY <2>2, <2>3
<1>8. /\ Queue \in Seq(Event) /\ Len(Queue) = Used
      /\ Queue' \in Seq(Event) /\ Len(Queue') = Used + 1
  BY <1>3, <1>a DEF QueueOK
<1>9. /\ Append(Queue, e) \in Seq(Event) /\ Len(Append(Queue, e)) = Used + 1
      /\ \A n \in 1 .. Used : Append(Queue, e)[n] = Queue[n]
      /\ Append(Queue, e)[Used + 1] = e
  BY <1>8, AppendProperties
<1>10. ASSUME NEW n \in 1 .. Used + 1 PROVE Queue'[n] = Append(Queue, e)[n]
  <2>1. CASE n = Used + 1
    <3>1. n - 1 = Used /\ n - 1 \in Int /\ n \in 1 .. Used'
      BY <1>3, <2>1
    <3>2. k = SlotAt(n - 1)
      BY <1>2, <1>b, <3>1, Ring
    <3>3. k = SlotAt(n - 1)'
      BY <1>3, <3>1, <3>2
    <3> QED
      BY <1>6, <1>9, <1>a, <2>1, <3>1, <3>3 DEF QueueOK
  <2>2. CASE n # Used + 1
    <3>1. n \in 1 .. Used /\ n \in 1 .. Used' /\ n - 1 \in 0 .. Used - 1
      BY <1>3, <2>2
    <3>2. PICK i \in Slot : i = SlotAt(n - 1) /\ InUse(i)
      BY <1>2, <3>1, Ring
    <3>3. i = SlotAt(n - 1)'
      BY <1>3, <3>1, <3>2
    <3> QED
      BY <1>7, <1>9, <1>a, <3>1, <3>2, <3>3 DEF QueueOK
  <2> QED
    BY <2>1, <2>2
<1>11. Queue' = Append(Queue, e)
  BY <1>8, <1>9, <1>10, SeqEqual
<1> QED
  BY <1>1, <1>3, <1>8, <1>11, SchedulerAssumption DEF Taken

(* The thread takes the oldest event, and drops it when its handler is     *)
(* done.                                                                   *)
LEMMA Taking ==
  ASSUME IInv, IInv', ExecTake
  PROVE  /\ Taken = None /\ Queue # << >> /\ Taken' = Head(Queue)
         /\ UNCHANGED <<Queue, ret>>
<1>1. /\ start' = start /\ end' = end /\ UNCHANGED <<headers, data, put, ret>>
      /\ cur' = [handler |-> headers[start], data |-> data[start]]
      /\ cur.handler = None /\ ~Empty
  BY DEF ExecTake, Idle
<1>2. start \in Slot /\ end \in Slot /\ \A c \in Context : ~Writing(c)
  BY SchedulerAssumption DEF ExecTake, Runs, WritersActive, Writing, Context, IInv, TypeOK
<1>3. InUse(start) /\ Used \in 1 .. QueueSize /\ SlotAt(0) = start
  BY <1>1, <1>2, UseStart, Ring
<1>4. headers[start] = data[start] /\ EventAt(start) = headers[start]
  BY <1>2, <1>3, SlotContents DEF IInv, SlotsFilled, Contents
<1>5. Queue \in Seq(Event) /\ Len(Queue) = Used /\ Queue[1] = EventAt(start)
  BY <1>2, <1>3, QueueTyped DEF QueueOK
<1>6. Queue # << >> /\ Head(Queue) = Queue[1]
  BY <1>3, <1>5
<1>7. \A i \in Slot : EventAt(i)' = EventAt(i)
  BY <1>1 DEF EventAt, Writing
<1>8. Queue' = Queue
  BY <1>1, <1>7, QueueKept
<1> QED
  BY <1>1, <1>4, <1>5, <1>6, <1>8 DEF Taken

LEMMA Advancing ==
  ASSUME IInv, IInv', ExecAdvance
  PROVE  /\ Taken # None /\ Taken' = None
         /\ Queue' = Tail(Queue) /\ ret' = ret
<1>1. /\ start' = next_index(start) /\ end' = end /\ UNCHANGED <<headers, data, put, ret>>
      /\ cur' = [handler |-> None, data |-> None]
      /\ ~Idle
  BY DEF ExecAdvance
<1>2. start \in Slot /\ end \in Slot /\ InUse(start) /\ \A c \in Context : ~Writing(c)
  BY <1>1, SchedulerAssumption
     DEF ExecAdvance, Runs, WritersActive, Writing, Context, IInv, TypeOK, Running
<1>3. Taken # None /\ Taken' = None
  <2>1. headers[start] \in Event /\ data[start] = headers[start]
    BY <1>2 DEF IInv, SlotsFilled
  <2> QED
    BY <1>1, <2>1, SchedulerAssumption DEF IInv, Kept, Taken
<1>4. /\ ~Empty /\ Used \in 1 .. QueueSize /\ Used' = Used - 1
      /\ \A n \in 0 .. QueueSize - 1 : SlotAt(n)' = SlotAt(n + 1)
  <2>1. ~Empty /\ Used \in 0 .. QueueSize /\ Used # 0
    BY <1>2, UseStart, Ring
  <2>2. Used' = Used - 1
    BY <1>1, <1>2, <2>1, SchedulerAssumption DEF Used, Empty, next_index, Slot
  <2>3. \A n \in 0 .. QueueSize - 1 : SlotAt(n)' = SlotAt(n + 1)
    BY <1>1, <1>2, SchedulerAssumption DEF SlotAt, next_index, Slot
  <2> QED
    BY <2>1, <2>2, <2>3
<1>5. \A i \in Slot : EventAt(i)' = EventAt(i)
  BY <1>1 DEF EventAt, Writing
<1>6. /\ QueueOK /\ QueueOK'
      /\ Queue \in Seq(Event) /\ Len(Queue) = Used
      /\ Queue' \in Seq(Event) /\ Len(Queue') = Used - 1
  BY <1>4, QueueTyped, AfterStep DEF QueueOK
<1>7. /\ Tail(Queue) \in Seq(Event) /\ Len(Tail(Queue)) = Used - 1
      /\ \A n \in 1 .. Used - 1 : Tail(Queue)[n] = Queue[n + 1]
  <2>1. Queue # << >>
    BY <1>4, <1>6
  <2> QED
    BY <1>6, <2>1, HeadTailProperties
<1>8. ASSUME NEW n \in 1 .. Used - 1 PROVE Queue'[n] = Tail(Queue)[n]
  <2>1. /\ n \in 1 .. Used' /\ n + 1 \in 1 .. Used /\ n - 1 \in 0 .. QueueSize - 1
        /\ n \in 0 .. Used - 1 /\ n - 1 + 1 = n /\ n + 1 - 1 = n
    BY <1>4, SchedulerAssumption
  <2>2. PICK i \in Slot : i = SlotAt(n)
    BY <1>2, <2>1, Ring
  <2>3. i = SlotAt(n - 1)'
    BY <1>4, <2>1, <2>2
  <2>4. Queue'[n] = EventAt(i)'
    BY <1>6, <2>1, <2>3 DEF QueueOK
  <2>5. Queue[n + 1] = EventAt(i)
    BY <1>6, <2>1, <2>2 DEF QueueOK
  <2> QED
    BY <1>5, <1>7, <2>4, <2>5
<1>9. Queue' = Tail(Queue)
  BY <1>6, <1>7, <1>8, SeqEqual
<1> QED
  BY <1>1, <1>3, <1>9

(* The ring implements the bounded queue of BoundedFifo, whatever puts     *)
(* preempt each other: every step is a step of that queue or leaves it     *)
(* alone.                                                                  *)
THEOREM FifoImplements == Spec => Fifo!Init /\ [][Fifo!Next]_(Fifo!fvars)
<1>1. Init => Fifo!Init
  <2> SUFFICES ASSUME Init PROVE Fifo!Init
    OBVIOUS
  <2>1. IInv /\ Used = 0
    BY InitOK DEF Init, Used
  <2>2. Queue = << >>
    BY <2>1, QueueTyped, EmptySeq DEF QueueOK
  <2> QED
    BY <2>2 DEF Init, Queue, Fifo!Init
<1>2. IInv /\ IInv' /\ [Next]_vars => [Fifo!Next]_(Fifo!fvars)
  <2> SUFFICES ASSUME IInv, IInv', [Next]_vars
               PROVE  Fifo!Next \/ UNCHANGED <<Queue, Taken, ret>>
    BY DEF Fifo!fvars, Queue, Taken
  <2>1. ASSUME NEW c \in Context, IsrEnter(c) \/ IsrExit(c) \/ PutTooLong(c) PROVE UNCHANGED <<Queue, Taken>>
    <3>1. UNCHANGED <<start, end, headers, data, put, cur>>
      BY <2>1 DEF IsrEnter, IsrExit, PutTooLong
    <3>2. \A i \in Slot : EventAt(i)' = EventAt(i)
      BY <3>1 DEF EventAt, Writing
    <3> QED
      BY <3>1, <3>2, QueueKept DEF Taken
  <2>2. ASSUME NEW c \in Context, IsrEnter(c) \/ IsrExit(c) PROVE UNCHANGED <<Queue, Taken, ret>>
    BY <2>1, <2>2 DEF IsrEnter, IsrExit
  <2>3. ASSUME NEW c \in Context, PutTooLong(c) PROVE Fifo!TooLong
    BY <2>1, <2>3 DEF PutTooLong, Fifo!TooLong, Queue, Taken
  <2>4. ASSUME NEW c \in Context, NEW e \in Event, PutReserve(c, e) PROVE Fifo!Accept(e) \/ Fifo!Refuse
    <3>1. CASE Full
      <4>1. UNCHANGED <<start, end, headers, data, put, cur>> /\ ret' = "no_mem"
        BY <2>4, <3>1 DEF PutReserve
      <4>2. \A i \in Slot : EventAt(i)' = EventAt(i)
        BY <4>1 DEF EventAt, Writing
      <4>3. UNCHANGED <<Queue, Taken>> /\ Len(Queue) = QueueSize
        BY <3>1, <4>1, <4>2, QueueKept, QueueTyped, Ring DEF Taken, QueueOK, IInv, TypeOK
      <4> QED
        BY <4>1, <4>3 DEF Fifo!Refuse, Queue, Taken
    <3>2. CASE ~Full
      <4>1. Len(Queue) < QueueSize /\ Queue' = Append(Queue, e) /\ ret' = "ok" /\ Taken' = Taken
        BY <2>4, <3>2, Accepting
      <4> QED
        BY <4>1 DEF Fifo!Accept, Queue, Taken
    <3> QED
      BY <3>1, <3>2
  <2>5. ASSUME NEW c \in Context, PutHeader(c) \/ PutData(c) PROVE UNCHANGED <<Queue, Taken, ret>>
    BY <2>5, Filling
  <2>6. CASE ExecTake
    BY <2>6, Taking DEF Fifo!Take, Fifo!Next, Queue, Taken
  <2>7. CASE ExecAdvance
    BY <2>7, Advancing DEF Fifo!Finish, Fifo!Next, Queue, Taken
  <2>8. CASE UNCHANGED vars
    <3>1. \A i \in Slot : EventAt(i)' = EventAt(i)
      BY <2>8 DEF EventAt, Writing, vars
    <3> QED
      BY <2>8, <3>1, QueueKept DEF Taken, vars
  <2> QED
    BY <2>2, <2>3, <2>4, <2>5, <2>6, <2>7, <2>8 DEF Next, Fifo!Next
<1> QED
  BY Inductive, <1>1, <1>2, PTL DEF Spec
=============================================================================
