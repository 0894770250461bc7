------------------------------- MODULE Iatwa -------------------------------
(***************************************************************************)
(* The program of main.c: the boot sequence, the repeated app_timer whose  *)
(* interrupt posts to the event scheduler, the main loop that feeds the    *)
(* watchdog, drains the scheduler and sleeps, and the measurement that     *)
(* runs from the scheduler.                                                *)
(*                                                                         *)
(* Time is discrete.  A handler may take any time, for ever included; the  *)
(* rest of the main loop takes none.  The scheduler is the bounded FIFO    *)
(* that Scheduler implements, sd_write the call that SdCard implements.    *)
(***************************************************************************)
EXTENDS Integers, Sequences

CONSTANTS
  Period,     (* TIME_INTERVAL, the period of the timer                    *)
  Wdt,        (* NRFX_WDT_CONFIG_RELOAD_VALUE, the patience of the watchdog*)
  QueueSize,  (* SCHED_QUEUE_SIZE                                          *)
  MaxWork     (* the time one measurement takes at most                    *)

(* A queue of ten events, 600 ms and 4000 ms: 4000 < 8 * 600.              *)
ASSUME IatwaAssumption ==
  /\ Period \in Nat \ {0}
  /\ Wdt \in Nat \ {0}
  /\ QueueSize \in Nat
  /\ MaxWork \in Nat
  /\ Wdt < (QueueSize - 2) * Period

VARIABLES
  pc,      (* where main stands                                            *)
  queue,   (* the events of the scheduler; the head stays while it is run  *)
  tick,    (* time since the timer last expired                            *)
  dog,     (* time since the watchdog was last fed                         *)
  work,    (* time the measurement under way has taken                     *)
  fault,   (* APP_ERROR_CHECK has stopped the program                      *)
  sdst, sdcard, sdret,   (* the state of sd_write                          *)
  owed,    (* history: expiries of the timer not yet measured              *)
  file     (* history: what this boot has put into data.txt                *)

sdVars == <<sdst, sdcard, sdret>>
vars == <<pc, queue, tick, dog, work, fault, sdVars, owed, file>>

Sd == INSTANCE SdCall WITH st <- sdst, card <- sdcard, ret <- sdret

Boot    == {"uart_init", "twi_init", "bmp388_init", "dps368_init", "smpb_init", "marker", "start"}
Working == {"get_data", "sd_write"}
Looping == {"feed", "execute", "ran", "drained", "asleep"} \cup Working
Events  == {"timeout", "measure"}

TypeOK ==
  /\ pc \in Boot \cup {"halt"} \cup Looping
  /\ queue \in Seq(Events)
  /\ tick \in 0 .. Period
  /\ dog \in 0 .. Wdt
  /\ work \in 0 .. MaxWork
  /\ fault \in BOOLEAN
  /\ sdst \in {"idle", "call", "doomed", "dead"}
  /\ sdcard \in {"down", "up", "wedged", "mute"}
  /\ sdret \in {"none", "ok", "fail"}
  /\ owed \in Int
  /\ file \in {"nothing", "marker", "bare"}

Init ==
  /\ pc = "uart_init"
  /\ queue = << >> /\ tick = 0 /\ dog = 0 /\ work = 0
  /\ fault = FALSE
  /\ Sd!Init
  /\ owed = 0 /\ file = "nothing"

Alive == ~fault /\ sdst # "dead"

----------------------------------------------------------------------------
(* The boot.                                                               *)

AfterInit(step) ==
  CASE step = "uart_init"   -> "twi_init"
    [] step = "twi_init"    -> "bmp388_init"
    [] step = "bmp388_init" -> "dps368_init"
    [] step = "dps368_init" -> "smpb_init"
    [] step = "smpb_init"   -> "marker"

(* An initialisation succeeds, or main stops in while(1).                  *)
Initialize ==
  /\ Alive
  /\ pc \in {"uart_init", "twi_init", "bmp388_init", "dps368_init", "smpb_init"}
  /\ pc' = AfterInit(pc) \/ pc' = "halt"
  /\ UNCHANGED <<queue, tick, dog, work, fault, sdVars, owed, file>>

(* sd_write is under way, from the boot or from a measurement.             *)
Writing == pc \in {"marker", "sd_write"} /\ Alive

SdBegin ==
  /\ Writing /\ sdret = "none" /\ sdst = "idle"
  /\ Sd!Call
  /\ UNCHANGED <<pc, queue, tick, dog, work, fault, owed, file>>

SdStep ==
  /\ Writing
  /\ Sd!Step
  /\ UNCHANGED <<pc, queue, tick, dog, work, fault, owed, file>>

(* A write that was answered with 0 may have reached the file.             *)
Stored(line) ==
  file' = IF line = "marker" THEN "marker"
          ELSE IF file = "nothing" THEN "bare" ELSE file

Store(line) == UNCHANGED file \/ (sdret = "ok" /\ Stored(line))

(* sd_write has returned to main, which does not look at the result.       *)
MarkerDone ==
  /\ pc = "marker" /\ Alive
  /\ sdst = "idle" /\ sdret # "none"
  /\ Store("marker")
  /\ sdret' = "none"
  /\ pc' = "start"
  /\ UNCHANGED <<queue, tick, dog, work, fault, sdst, sdcard, owed>>

(* Scheduler, timer and watchdog start.                                    *)
Start ==
  /\ pc = "start"
  /\ queue' = << >> /\ tick' = 0 /\ dog' = 0 /\ owed' = 0
  /\ pc' = "feed"
  /\ UNCHANGED <<work, fault, sdVars, file>>

----------------------------------------------------------------------------
(* The main loop.                                                          *)

(* Mutation of Feed: the watchdog is only fed when there is nothing to do. *)
FeedWhenIdle ==
  /\ pc = "feed" /\ Alive
  /\ dog' = IF queue = << >> THEN 0 ELSE dog
  /\ pc' = "execute"
  /\ UNCHANGED <<queue, tick, work, fault, sdVars, owed, file>>

Feed ==
  /\ pc = "feed" /\ Alive
  /\ dog' = 0
  /\ pc' = "execute"
  /\ UNCHANGED <<queue, tick, work, fault, sdVars, owed, file>>

(* app_sched_execute runs the oldest event.  That of the timer calls       *)
(* app_timer_handler, which posts the measurement and ignores the answer.  *)
RunTimeout ==
  /\ pc = "execute" /\ Alive
  /\ queue # << >> /\ Head(queue) = "timeout"
  /\ queue' = IF Len(queue) < QueueSize THEN Append(queue, "measure") ELSE queue
  /\ pc' = "ran"
  /\ UNCHANGED <<tick, dog, work, fault, sdVars, owed, file>>

RunMeasure ==
  /\ pc = "execute" /\ Alive
  /\ queue # << >> /\ Head(queue) = "measure"
  /\ work' = 0
  /\ pc' = "get_data"
  /\ UNCHANGED <<queue, tick, dog, fault, sdVars, owed, file>>

(* get_data returns, with an error or not: sd_write_sensordata follows.    *)
GotData ==
  /\ pc = "get_data" /\ Alive
  /\ pc' = "sd_write"
  /\ UNCHANGED <<queue, tick, dog, work, fault, sdVars, owed, file>>

MeasureDone ==
  /\ pc = "sd_write" /\ Alive
  /\ sdst = "idle" /\ sdret # "none"
  /\ Store("record")
  /\ sdret' = "none"
  /\ owed' = owed - 1
  /\ pc' = "ran"
  /\ UNCHANGED <<queue, tick, dog, work, fault, sdst, sdcard>>

(* Mutation of Advance: the watchdog is fed after each event.              *)
AdvanceFeeds ==
  /\ pc = "ran" /\ Alive
  /\ queue' = Tail(queue) /\ dog' = 0
  /\ pc' = "execute"
  /\ UNCHANGED <<tick, work, fault, sdVars, owed, file>>

(* Mutation of Advance: one event for each turn of the main loop.           *)
AdvanceOnce ==
  /\ pc = "ran" /\ Alive
  /\ queue' = Tail(queue)
  /\ pc' = "drained"
  /\ UNCHANGED <<tick, dog, work, fault, sdVars, owed, file>>

(* The handler has returned: its slot is freed.                            *)
Advance ==
  /\ pc = "ran" /\ Alive
  /\ queue' = Tail(queue)
  /\ pc' = "execute"
  /\ UNCHANGED <<tick, dog, work, fault, sdVars, owed, file>>

Drained ==
  /\ pc = "execute" /\ Alive
  /\ queue = << >>
  /\ pc' = "drained"
  /\ UNCHANGED <<queue, tick, dog, work, fault, sdVars, owed, file>>

(* __WFI: an interrupt served since the queue was found empty is not seen. *)
Sleep ==
  /\ pc = "drained" /\ Alive
  /\ pc' = "asleep"
  /\ UNCHANGED <<queue, tick, dog, work, fault, sdVars, owed, file>>

(* An interrupt other than the timer's, of a bus for instance.             *)
Wake ==
  /\ pc = "asleep" /\ Alive
  /\ pc' = "feed"
  /\ UNCHANGED <<queue, tick, dog, work, fault, sdVars, owed, file>>

----------------------------------------------------------------------------
(* Time, the timer and the watchdog.                                       *)

(* Mutation of Pass: the watchdog has not been enabled.                     *)
PassUnwatched ==
  /\ pc \in Working \cup {"asleep"} /\ Alive
  /\ tick < Period
  /\ pc \in Working => work < MaxWork
  /\ tick' = tick + 1 /\ dog' = dog + 1
  /\ work' = IF pc \in Working THEN work + 1 ELSE work
  /\ UNCHANGED <<pc, queue, fault, sdVars, owed, file>>

Pass ==
  /\ pc \in Working \cup {"asleep"} /\ Alive
  /\ tick < Period /\ dog < Wdt
  /\ pc \in Working => work < MaxWork
  /\ tick' = tick + 1 /\ dog' = dog + 1
  /\ work' = IF pc \in Working THEN work + 1 ELSE work
  /\ UNCHANGED <<pc, queue, fault, sdVars, owed, file>>

(* Mutation of Expire: the timer interrupt feeds the watchdog.              *)
ExpireFeeds ==
  /\ pc \in Looping /\ Alive
  /\ tick = Period
  /\ tick' = 0 /\ dog' = 0
  /\ IF Len(queue) < QueueSize
     THEN queue' = Append(queue, "timeout") /\ fault' = FALSE
     ELSE queue' = queue /\ fault' = TRUE
  /\ owed' = owed + 1
  /\ pc' = IF pc = "asleep" THEN "feed" ELSE pc
  /\ UNCHANGED <<work, sdVars, file>>

(* Mutation of Expire: an expiry is not posted while an event is pending.  *)
ExpireCoalesced ==
  /\ pc \in Looping /\ Alive
  /\ tick = Period
  /\ tick' = 0
  /\ queue' = IF queue = << >> THEN <<"timeout">> ELSE queue
  /\ owed' = owed + 1
  /\ pc' = IF pc = "asleep" THEN "feed" ELSE pc
  /\ UNCHANGED <<dog, work, fault, sdVars, file>>

(* Mutation of Expire: the interrupt is served and the processor sleeps on. *)
ExpireAsleep ==
  /\ pc \in Looping /\ Alive
  /\ tick = Period
  /\ tick' = 0
  /\ IF Len(queue) < QueueSize
     THEN queue' = Append(queue, "timeout") /\ fault' = FALSE
     ELSE queue' = queue /\ fault' = TRUE
  /\ owed' = owed + 1
  /\ UNCHANGED <<pc, dog, work, sdVars, file>>

(* RTC1: timeout_handler_exec posts the event under APP_ERROR_CHECK; the   *)
(* processor wakes.                                                        *)
Expire ==
  /\ pc \in Looping /\ Alive
  /\ tick = Period
  /\ tick' = 0
  /\ IF Len(queue) < QueueSize
     THEN queue' = Append(queue, "timeout") /\ fault' = FALSE
     ELSE queue' = queue /\ fault' = TRUE
  /\ owed' = owed + 1
  /\ pc' = IF pc = "asleep" THEN "feed" ELSE pc
  /\ UNCHANGED <<dog, work, sdVars, file>>

Bite == pc \in Looping /\ dog = Wdt

(* The watchdog bites, or app_error_fault_handler resets the system.       *)
SystemReset ==
  /\ Bite \/ ~Alive
  /\ pc' = "uart_init"
  /\ queue' = << >> /\ tick' = 0 /\ dog' = 0 /\ work' = 0
  /\ fault' = FALSE
  /\ Sd!Reset
  /\ owed' = 0 /\ file' = "nothing"

----------------------------------------------------------------------------
Loop ==
  Feed \/ RunTimeout \/ RunMeasure \/ Advance \/ Drained \/ Sleep

Next ==
  \/ Initialize \/ SdBegin \/ SdStep \/ MarkerDone \/ Start
  \/ Loop \/ GotData \/ MeasureDone \/ Wake
  \/ Pass \/ Expire \/ SystemReset

(* Time goes on, the timer and the watchdog are hardware, and the main     *)
(* loop runs; nothing says that a boot step or a handler ever ends.        *)
Fairness ==
  /\ WF_vars(Start) /\ WF_vars(Loop)
  /\ WF_vars(Pass) /\ WF_vars(Expire) /\ WF_vars(SystemReset)

Spec == Init /\ [][Next]_vars
FairSpec == Spec /\ Fairness

(* The sensors answer and sd_write returns, each measurement in time.      *)
FastSpec == FairSpec /\ WF_vars(GotData \/ SdBegin \/ SdStep \/ MeasureDone)

----------------------------------------------------------------------------
(* Properties.                                                             *)

(* The watchdog bites before the queue can fill, however long a handler    *)
(* hangs: the put in the timer interrupt never trips APP_ERROR_CHECK       *)
(* (app_timer.c:391), the unchecked put of app_timer_handler never drops   *)
(* a measurement (main.c:115).                                             *)
QueueNeverFull ==
  /\ ~fault
  /\ pc = "execute" => Len(queue) < QueueSize

(* Each expiry of the timer is in the queue, as one event or the other,    *)
(* until it has been measured: none is lost, none is measured twice.       *)
NoTickLost ==
  pc \in Looping => owed = Len(queue) - (IF pc = "ran" THEN 1 ELSE 0)

(* An expiry between app_sched_execute and __WFI is slept over, but no     *)
(* longer than to the next one: the loop never resumes with more than two  *)
(* measurements to make (main.c:351).                                      *)
SleepsOverOne == pc \in {"feed", "drained", "asleep"} => owed <= 2

(* Whatever hangs after the boot, the loop is soon back at its head or the *)
(* system has been reset (main.c:350).                                     *)
NoHangSurvives == pc \in Looping \ {"feed"} ~> pc \in {"feed", "uart_init"}

(* How long a measurement may take, from the two measurements the loop may *)
(* find due and the expiries while it catches up: with 600 ms and 4000 ms, *)
(* MaxWork may be 443 ms.                                                  *)
FastEnough ==
  /\ MaxWork < Period
  /\ 2 * Period * MaxWork < (Wdt - Period) * (Period - MaxWork)

(* With measurements that are FastEnough the watchdog, fed only when the   *)
(* queue is empty, never bites, even after a slept-over expiry has left    *)
(* two measurements to catch up with (main.c:350).                         *)
NeverBites == pc \in Looping => dog < Wdt

(* ... and the program catches up with every expiry.                       *)
CatchesUp == owed > 0 ~> owed = 0

(* "Every time we reset, append "MEASUREMENT" to file that contains sensor *)
(* data" (main.c:334).  The result of that sd_write is not looked at: a    *)
(* boot may store its records with no marker before them.                  *)
MarkerHeadsBoot == file # "bare"
=============================================================================
