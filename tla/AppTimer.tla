------------------------------ MODULE AppTimer ------------------------------
(***************************************************************************)
(* The timer module app_timer.c: a thread that starts and stops timers,    *)
(* the RTC1 interrupt that finds the expired ones, the software interrupt  *)
(* SWI that updates the list of running timers and sets the compare        *)
(* register, and the counter that goes on between any two of their steps.  *)
(*                                                                         *)
(* Both interrupts have the same priority: neither preempts the other, and *)
(* the thread runs when none is pending.  So the operation queue never     *)
(* holds more than one operation: SWI takes it as soon as it is signalled. *)
(*                                                                         *)
(* The code uses counter values only in differences modulo 2^24: here they *)
(* are all counted from m_ticks_latest, and change when that does.         *)
(***************************************************************************)
EXTENDS Integers, SequencesExt

CONSTANTS
  Timers,      (* the timers created with app_timer_create                 *)
  Repeated,    (* those of mode APP_TIMER_MODE_REPEATED                    *)
  Intervals,   (* bound: the timeouts a client asks for, in ticks          *)
  Modulus,     (* MAX_RTC_COUNTER_VAL + 1                                  *)
  MaxLag       (* ticks that pass while the processor has work to do: in   *)
               (* a step of the thread, before an interrupt, in SWI        *)

MinTimeout == 5     (* APP_TIMER_MIN_TIMEOUT_TICKS                         *)
OffsetMin  == 3     (* RTC_COMPARE_OFFSET_MIN                              *)

(* An expiry waits for RTC1's interrupt and, at worst, for updates of the  *)
(* list made in between, each of which sets the compare value further on.  *)
(* There is one update for each timer due at about the same time: it is    *)
(* stopped before it expires, and the next one inherits the delay.         *)
MaxLate == Cardinality(Timers) * (OffsetMin - 1 + MaxLag) + 2 * MaxLag

(* The intervals are long enough for the interrupts to keep up, and short  *)
(* enough for half the range of the counter.                               *)
ASSUME AppTimerAssumption ==
  /\ IsFiniteSet(Timers) /\ Repeated \subseteq Timers
  /\ MaxLag \in Nat \ {0} /\ Modulus \in Nat \ {0}
  /\ \A n \in Intervals :
       n \in Nat /\ n >= MinTimeout /\ n > MaxLate /\ n >= 4 * MaxLag
       /\ 2 * (n + MaxLate + MaxLag) < Modulus

VARIABLES
  counter,         (* RTC1's counter, from m_ticks_latest                  *)
  cc,              (* its compare register, likewise ...                   *)
  deaf,            (* ... written too near to the counter to be noticed    *)
  rtc1_running,    (* m_rtc1_running, and RTC1's interrupt enabled         *)
  rtc1_pending, swi_pending,
  level,           (* "thread", or where the interrupt handler stands      *)
  pre,             (* pre_counter_val of compare_reg_update, 0 outside     *)
  list,            (* the list from mp_timer_id_head                       *)
  ticks_to_expire, (* of each timer, after the expiry of the one before it *)
  is_running,
  periodic,        (* ticks_periodic_interval                              *)
  elapsed,         (* m_ticks_elapsed: ticks not yet taken by SWI          *)
  op,              (* m_op_queue                                           *)
  call,            (* where the thread stands in a function                *)
  want,            (* history: the timers started and not stopped or over  *)
  left,            (* history: ticks to go till their handler is due       *)
  lag              (* ticks since the thread or an interrupt last began or *)
                   (* ended its work                                       *)

rtcVars  == <<counter, cc, deaf, rtc1_running, rtc1_pending>>
listVars == <<list, ticks_to_expire, is_running, periodic>>
histVars == <<want, left>>
vars == <<rtcVars, swi_pending, level, pre, listVars, elapsed, op, call, histVars, lag>>

NoTicks == -1
NoOp    == [type |-> "none"]

Operations ==
  {NoOp, [type |-> "stop_all"]}
  \cup [type : {"stop"}, timer : Timers]
  \cup [type : {"start"}, timer : Timers, at : 0 .. Modulus - 1, ticks : Intervals,
        waited : Nat]     (* history: ticks since it was queued            *)

Calls == {<<"none">>, <<"queued">>} \cup ({"stopping"} \X Timers)

TypeOK ==
  /\ counter \in 0 .. Modulus - 1 /\ cc \in 0 .. Modulus - 1 /\ pre \in 0 .. Modulus - 1
  /\ deaf \in BOOLEAN
  /\ rtc1_running \in BOOLEAN /\ rtc1_pending \in BOOLEAN /\ swi_pending \in BOOLEAN
  /\ level \in {"thread", "compare", "set", "post"}
  /\ list \in Seq(Timers) /\ IsInjective(list)
  /\ ticks_to_expire \in [Timers -> 0 .. Modulus - 1]
  /\ is_running \in [Timers -> BOOLEAN]
  /\ periodic \in [Timers -> Intervals \cup {0}]
  /\ elapsed \in -1 .. Modulus - 1
  /\ op \in Operations
  /\ call \in Calls
  /\ want \subseteq Timers /\ left \in [Timers -> Int]
  /\ lag \in 0 .. MaxLag

Init ==
  /\ counter = 0 /\ cc = 0 /\ deaf = FALSE
  /\ rtc1_running = FALSE /\ rtc1_pending = FALSE /\ swi_pending = FALSE
  /\ level = "thread" /\ pre = 0
  /\ list = << >>
  /\ ticks_to_expire = [t \in Timers |-> 0]
  /\ is_running = [t \in Timers |-> FALSE]
  /\ periodic = [t \in Timers |-> 0]
  /\ elapsed = NoTicks
  /\ op = NoOp /\ call = <<"none">>
  /\ want = {} /\ left = [t \in Timers |-> 0]
  /\ lag = 0

----------------------------------------------------------------------------
(* Time.                                                                   *)

ticks_diff_get(now, old) == (now - old) % Modulus

HalfRange == (Modulus - 1) \div 2

Rtc1Due == rtc1_pending /\ rtc1_running
Busy    == Rtc1Due \/ swi_pending \/ level # "thread" \/ call # <<"none">>

(* RTC1 counts; the compare event comes with the counter it asks for.      *)
(* Time is its counter: none passes while it is stopped.                   *)
Tick ==
  /\ rtc1_running
  /\ Busy => lag < MaxLag
  /\ lag' = IF Busy THEN lag + 1 ELSE 0
  /\ counter' = (counter + 1) % Modulus
  /\ rtc1_pending' = (rtc1_pending \/ (counter' = cc /\ ~deaf))
  /\ deaf' = FALSE
  /\ left' = [t \in Timers |-> IF t \in want THEN left[t] - 1 ELSE left[t]]
  /\ op' = IF op.type = "start" THEN [op EXCEPT !.waited = @ + 1] ELSE op
  /\ UNCHANGED <<cc, rtc1_running, swi_pending, level, pre, listVars, elapsed, call, want>>

(* NRF_RTC1->CC[0] is written: a value one ahead may go unnoticed.         *)
rtc1_compare0_set(value) ==
  /\ cc' = value
  /\ deaf' \in IF value = (counter + 1) % Modulus THEN BOOLEAN ELSE {FALSE}

----------------------------------------------------------------------------
(* The thread.                                                             *)

ThreadRuns == level = "thread" /\ ~Rtc1Due /\ ~swi_pending

(* timer_start_op_schedule, up to the end of its critical region.  A bound: *)
(* a timer is started only if another has expired, or the counter was      *)
(* cleared, less than half its range ago.                                  *)
app_timer_start(t, n) ==
  /\ ThreadRuns /\ call = <<"none">>
  /\ counter < HalfRange
  /\ op' = [type |-> "start", timer |-> t, at |-> counter, ticks |-> n, waited |-> 0]
  /\ call' = <<"queued">>
  /\ want' = want \cup {t}
  /\ left' = IF t \in want THEN left ELSE [left EXCEPT ![t] = n]
  /\ lag' = 0
  /\ UNCHANGED <<rtcVars, swi_pending, level, pre, listVars, elapsed>>

(* Mutation of app_timer_stop: the timer is marked, its node stays.        *)
app_timer_stopMarks(t) ==
  /\ ThreadRuns /\ call = <<"none">>
  /\ is_running' = [is_running EXCEPT ![t] = FALSE]
  /\ want' = want \ {t} /\ left' = [left EXCEPT ![t] = 0]
  /\ lag' = 0
  /\ UNCHANGED <<rtcVars, swi_pending, level, pre, list, ticks_to_expire, periodic, elapsed, op, call>>

app_timer_stop(t) ==
  /\ ThreadRuns /\ call = <<"none">>
  /\ is_running' = [is_running EXCEPT ![t] = FALSE]
  /\ call' = <<"stopping", t>>
  /\ want' = want \ {t} /\ left' = [left EXCEPT ![t] = 0]
  /\ lag' = 0
  /\ UNCHANGED <<rtcVars, swi_pending, level, pre, list, ticks_to_expire, periodic, elapsed, op>>

timer_stop_op_schedule ==
  /\ ThreadRuns
  /\ \E t \in Timers : call = <<"stopping", t>> /\ op' = [type |-> "stop", timer |-> t]
  /\ call' = <<"queued">>
  /\ lag' = 0
  /\ UNCHANGED <<rtcVars, swi_pending, level, pre, listVars, elapsed, histVars>>

app_timer_stop_all ==
  /\ ThreadRuns /\ call = <<"none">>
  /\ op' = [type |-> "stop_all"]
  /\ call' = <<"queued">>
  /\ want' = {} /\ left' = [t \in Timers |-> 0]
  /\ lag' = 0
  /\ UNCHANGED <<rtcVars, swi_pending, level, pre, listVars, elapsed>>

(* The operation is queued: the function signals SWI and returns.          *)
timer_list_handler_sched ==
  /\ ThreadRuns /\ call = <<"queued">>
  /\ swi_pending' = TRUE
  /\ call' = <<"none">>
  /\ lag' = 0
  /\ UNCHANGED <<rtcVars, level, pre, listVars, elapsed, op, histVars>>

----------------------------------------------------------------------------
(* The list: each timer has the ticks from the expiry of the one before.   *)

(* Ticks from the last known counter value to the expiry of the i-th.      *)
Offset(l, ticks, i) ==
  LET sum[j \in 0 .. Len(l)] == IF j = 0 THEN 0 ELSE sum[j - 1] + ticks[l[j]]
  IN  sum[i]

(* How many of the list have expired after n ticks.                        *)
Expired(l, ticks, n) == CHOOSE k \in 0 .. Len(l) :
  \A i \in 1 .. Len(l) : Offset(l, ticks, i) <= n <=> i <= k

(* Timer t is put before those that expire no earlier than after n ticks.  *)
timer_list_insert(s, t, n) ==
  LET before == Expired(s.list, s.ticks, n - 1)
      rest   == n - Offset(s.list, s.ticks, before)
  IN  [list  |-> InsertAt(s.list, before + 1, t),
       ticks |-> [u \in Timers |->
         IF u = t THEN rest
         ELSE IF before < Len(s.list) /\ u = s.list[before + 1] THEN s.ticks[u] - rest
         ELSE s.ticks[u]]]

(* Mutation of timer_list_remove: the timer after t keeps its ticks.       *)
timer_list_removeAlone(s, t) ==
  [list  |-> SelectSeq(s.list, LAMBDA u : u # t),
   ticks |-> [s.ticks EXCEPT ![t] = 0]]

(* The timer after t inherits its ticks.                                   *)
timer_list_remove(s, t) ==
  LET at == CHOOSE i \in 1 .. Len(s.list) : s.list[i] = t
  IN  [list  |-> RemoveAt(s.list, at),
       ticks |-> [u \in Timers |->
         IF u = t THEN 0
         ELSE IF at < Len(s.list) /\ u = s.list[at + 1] THEN s.ticks[u] + s.ticks[t]
         ELSE s.ticks[u]]]

(* Ticks to an expiry n after the counter was at: the upper half of the    *)
(* range is taken to be before the last known value.                       *)
TicksFrom(at, n) == IF at < HalfRange THEN at + n ELSE Max({0, n - ticks_diff_get(0, at)})

----------------------------------------------------------------------------
(* The interrupt of RTC1.                                                  *)

(* History: a handler has been called; it is due again, or the timer is    *)
(* over unless the thread has just started it again.                       *)
Executed(ts) ==
  LET again(t) == op.type = "start" /\ op.timer = t
  IN  /\ want' = {t \in want : t \in ts => t \in Repeated \/ again(t)}
      /\ left' = [t \in Timers |->
           IF t \notin ts \cap want THEN left[t]
           ELSE IF t \in Repeated THEN left[t] + periodic[t]
           ELSE IF again(t) THEN op.ticks - op.waited ELSE 0]

(* timer_timeouts_check: the handlers of all expired timers are called; the *)
(* expired ticks are left to SWI, in the place of ticks it has not taken.  *)
(* The event comes again if it comes after it was cleared.                 *)
RTC1_IRQHandler ==
  /\ level = "thread" /\ Rtc1Due
  /\ rtc1_pending' \in IF counter = cc THEN BOOLEAN ELSE {FALSE}
  /\ IF list = << >> THEN UNCHANGED <<is_running, elapsed, swi_pending, histVars>>
     ELSE LET k  == Expired(list, ticks_to_expire, counter)
              ts == {list[i] : i \in 1 .. k}
          IN  /\ Executed({t \in ts : is_running[t]})
              /\ is_running' = [t \in Timers |-> is_running[t] /\ t \notin ts]
              /\ elapsed' = Offset(list, ticks_to_expire, k)
              /\ swi_pending' = TRUE
  /\ lag' = 0
  /\ UNCHANGED <<counter, cc, deaf, rtc1_running, level, pre, list, ticks_to_expire, periodic, op,
                 call>>

----------------------------------------------------------------------------
(* The software interrupt: timer_list_handler.                             *)

(* expired_timers_handler: what is left of the list, and the repeated      *)
(* timers to be restarted, the last to expire first.                       *)
Remaining(k, n) ==
  [list  |-> SubSeq(list, k + 1, Len(list)),
   ticks |-> [t \in Timers |->
     IF \E i \in 1 .. k : list[i] = t THEN 0
     ELSE IF k < Len(list) /\ t = list[k + 1]
     THEN ticks_to_expire[t] - (n - Offset(list, ticks_to_expire, k))
     ELSE ticks_to_expire[t]]]

Restarted(k) == {list[i] : i \in {j \in 1 .. k : periodic[list[j]] # 0}}

(* Restarted timers count from their expiry, not from now; n ticks have    *)
(* been added to the last known value.                                     *)
Restart(s, k, n) ==
  LET due(i) == ticks_diff_get(Offset(list, ticks_to_expire, i), n)
      after[i \in 0 .. k] ==
        IF i = 0 THEN s
        ELSE LET t == list[k + 1 - i]
             IN  IF t \in Restarted(k)
                 THEN timer_list_insert(after[i - 1], t, TicksFrom(due(k + 1 - i), periodic[t]))
                 ELSE after[i - 1]
  IN  after[k]

(* Mutation of Starts: a timer that runs is started once more.             *)
StartsTwice(running) == op.type = "start"

(* A start of a timer that runs is ignored.                                *)
Starts(running) == op.type = "start" /\ ~running[op.timer]

(* list_insertions_handler, after the restarts: the queued operation.      *)
Operate(s, running, n) ==
  CASE Starts(running) ->
         /\ LET r == timer_list_insert(s, op.timer,
                       TicksFrom(ticks_diff_get(op.at, n), op.ticks))
            IN  list' = r.list /\ ticks_to_expire' = r.ticks
         /\ is_running' = [running EXCEPT ![op.timer] = TRUE]
         /\ periodic' = [periodic EXCEPT ![op.timer] = IF op.timer \in Repeated THEN op.ticks ELSE 0]
    [] op.type = "stop" ->
         /\ LET r == IF op.timer \in Range(s.list) THEN timer_list_remove(s, op.timer) ELSE s
            IN  list' = r.list /\ ticks_to_expire' = r.ticks
         /\ is_running' = [running EXCEPT ![op.timer] = FALSE]
         /\ UNCHANGED periodic
    [] op.type = "stop_all" ->
         /\ list' = << >> /\ ticks_to_expire' = [t \in Timers |-> 0]
         /\ is_running' = [t \in Timers |-> running[t] /\ t \notin Range(s.list)]
         /\ UNCHANGED periodic
    [] OTHER ->
         /\ list' = s.list /\ ticks_to_expire' = s.ticks /\ is_running' = running
         /\ UNCHANGED periodic

First(l) == IF l = << >> THEN {} ELSE {Head(l)}

(* The last known value moves on by the elapsed ticks.  (timer_list_remove *)
(* clears the counter with the last timer; so does ReadCounter after it.)  *)
timer_list_handler ==
  /\ level = "thread" /\ swi_pending /\ ~Rtc1Due
  /\ LET n == Max({elapsed, 0})
         k == IF elapsed = NoTicks THEN 0 ELSE Expired(list, ticks_to_expire, n)
     IN  /\ Operate(Restart(Remaining(k, n), k, n),
                    [t \in Timers |-> is_running[t] \/ t \in Restarted(k)], n)
         /\ counter' = ticks_diff_get(counter, n) /\ cc' = ticks_diff_get(cc, n)
         /\ level' = IF elapsed # NoTicks \/ First(list') # First(list)
                     THEN "compare" ELSE "thread"
  /\ swi_pending' = FALSE
  /\ elapsed' = NoTicks
  /\ op' = NoOp
  /\ lag' = 0
  /\ UNCHANGED <<deaf, rtc1_running, rtc1_pending, pre, call, histVars>>

(* compare_reg_update: the counter is read and RTC1 started, or stopped    *)
(* and cleared.  An event of before may be left over when it starts.       *)
ReadCounter ==
  /\ level = "compare"
  /\ IF list = << >>
     THEN /\ rtc1_running' = FALSE /\ counter' = 0 /\ cc' = 0 /\ pre' = 0 /\ deaf' = FALSE
          /\ rtc1_pending' = FALSE
          /\ level' = "thread"
     ELSE /\ pre' = counter
          /\ rtc1_running' = TRUE
          /\ rtc1_pending' \in IF rtc1_running THEN {rtc1_pending} ELSE BOOLEAN
          /\ level' = "set"
          /\ UNCHANGED <<counter, cc, deaf>>
  /\ UNCHANGED <<swi_pending, listVars, elapsed, op, call, histVars, lag>>

SetCompare ==
  /\ level = "set"
  /\ rtc1_compare0_set(Max({ticks_to_expire[Head(list)], pre + OffsetMin}) % Modulus)
  /\ level' = "post"
  /\ UNCHANGED <<counter, rtc1_running, rtc1_pending, swi_pending, pre, listVars, elapsed, op,
                 call, histVars, lag>>

(* Mutation of ReadAgain: the compare value is trusted to be far enough.   *)
ReadAgainNever ==
  /\ level = "post"
  /\ level' = "thread" /\ pre' = 0
  /\ lag' = 0
  /\ UNCHANGED <<rtcVars, swi_pending, listVars, elapsed, op, call, histVars>>

(* The counter may have come too near to the compare value meanwhile: the  *)
(* interrupt is made pending.                                              *)
ReadAgain ==
  /\ level = "post"
  /\ IF ticks_diff_get(counter, pre) + OffsetMin > ticks_diff_get(cc, pre)
     THEN rtc1_compare0_set(counter) /\ rtc1_pending' = TRUE
     ELSE UNCHANGED <<cc, deaf, rtc1_pending>>
  /\ level' = "thread" /\ pre' = 0
  /\ lag' = 0
  /\ UNCHANGED <<counter, rtc1_running, swi_pending, listVars, elapsed, op, call, histVars>>

----------------------------------------------------------------------------
Thread ==
  \/ \E t \in Timers, n \in Intervals : app_timer_start(t, n)
  \/ \E t \in Timers : app_timer_stop(t)
  \/ timer_stop_op_schedule \/ app_timer_stop_all \/ timer_list_handler_sched

Interrupt ==
  \/ RTC1_IRQHandler
  \/ timer_list_handler \/ ReadCounter \/ SetCompare \/ ReadAgain

Next == Tick \/ Thread \/ Interrupt

Spec == Init /\ [][Next]_vars

----------------------------------------------------------------------------
(* No handler is called before its time, the k-th call of a repeated one   *)
(* not before k intervals since app_timer_start, whatever the delays, the  *)
(* early interrupts of compare_reg_update and the wrap of the counter      *)
(* (app_timer.c:424).                                                      *)
NeverEarly ==
  [][RTC1_IRQHandler =>
       \A t \in want : is_running[t] /\ ~is_running'[t] => left[t] <= 0]_vars

(* No handler is called later than the delays of the processor explain: no *)
(* expiry is missed because the compare register was set too late, none    *)
(* waits for the counter to wrap, and a repeated timer does not drift      *)
(* (app_timer.c:674).                                                      *)
Punctual == \A t \in want : left[t] >= -MaxLate

(* When nothing is under way the list holds the timers that were started   *)
(* and neither stopped nor over: a restart that SWI makes between the two  *)
(* halves of app_timer_stop does not bring a timer back (app_timer.c:1026).*)
ListAsWanted ==
  ~Busy => /\ Range(list) = want
           /\ \A t \in Timers : is_running[t] <=> t \in want
=============================================================================
