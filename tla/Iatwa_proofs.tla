---------------------------- MODULE Iatwa_proofs ----------------------------
(***************************************************************************)
(* Proofs about Iatwa, for every period, watchdog, queue size and length   *)
(* of a measurement with Wdt < (QueueSize - 2) * Period.                   *)
(*                                                                         *)
(* The argument is about Due, the timer time that is still to be measured. *)
(* It grows only as time passes, with dog; an expiry turns tick into owed  *)
(* and leaves it alone; a measurement takes a Period off it.  The loop is  *)
(* at its head with 2 * Period at most, so it never exceeds                *)
(* Wdt + 2 * Period, less than a full queue of periods.                    *)
(***************************************************************************)
EXTENDS Iatwa, TLAPS

Due == Period * owed + tick

HeadStays == pc \in Working \cup {"ran"} => queue # << >>

Backlog ==
  /\ pc \in Working \cup {"execute", "ran"} => Due <= dog + 2 * Period
  /\ pc = "feed" => Due <= 2 * Period
  /\ pc = "drained" => Due <= Period
  /\ pc = "asleep" => owed <= 1

IInv ==
  /\ TypeOK
  /\ ~fault
  /\ HeadStays
  /\ NoTickLost
  /\ Backlog

(* Multiplying by a positive period keeps and reflects the order.          *)
LEMMA PeriodMono ==
  ASSUME NEW a \in Int, NEW b \in Int
  PROVE  /\ a <= b => Period * a <= Period * b
         /\ a < b => Period * a + Period <= Period * b
  BY IatwaAssumption

(* Fewer events than the queue holds are due while the loop is running.    *)
LEMMA Room ==
  ASSUME IInv, pc \in Looping
  PROVE  /\ owed \in Nat
         /\ Due <= Wdt + 2 * Period
         /\ owed < QueueSize
         /\ tick = Period => owed + 1 < QueueSize
<1>1. owed \in Nat
  BY DEF IInv, TypeOK, NoTickLost, HeadStays
<1>2. Due <= Wdt + 2 * Period
  <2>1. CASE pc = "asleep"
    <3>1. Period * owed <= Period * 1
      BY <2>1, <1>1, PeriodMono DEF IInv, Backlog
    <3>2. QED
      BY <3>1, <1>1, <2>1, IatwaAssumption DEF IInv, TypeOK, Due
  <2>2. CASE pc # "asleep"
    BY <1>1, <2>2, IatwaAssumption DEF IInv, TypeOK, Backlog, Looping, Due
  <2>3. QED
    BY <2>1, <2>2
<1>3. Wdt + 2 * Period < Period * QueueSize
  BY IatwaAssumption
<1>4. Period * owed + tick < Period * QueueSize
  BY <1>1, <1>2, <1>3, IatwaAssumption DEF Due, IInv, TypeOK
<1>5. owed < QueueSize
  BY <1>1, <1>4, PeriodMono, IatwaAssumption DEF IInv, TypeOK
<1>6. ASSUME tick = Period PROVE owed + 1 < QueueSize
  <2>1. Period * (owed + 1) < Period * QueueSize
    BY <1>1, <1>4, <1>6, IatwaAssumption
  <2>2. QED
    BY <1>1, <2>1, PeriodMono, IatwaAssumption
<1>7. QED
  BY <1>1, <1>2, <1>5, <1>6

LEMMA InitOK == Init => IInv
<1> SUFFICES ASSUME Init PROVE IInv
  OBVIOUS
<1>1. 0 \in 0 .. Period /\ 0 \in 0 .. Wdt /\ 0 \in 0 .. MaxWork
  BY IatwaAssumption
<1>2. TypeOK
  <2>1. pc \in Boot /\ queue \in Seq(Events)
    BY DEF Init, Boot
  <2>2. tick \in 0 .. Period /\ dog \in 0 .. Wdt /\ work \in 0 .. MaxWork /\ owed \in Int
    BY <1>1 DEF Init
  <2>3. /\ sdst \in {"idle", "call", "doomed", "dead"}
        /\ sdcard \in {"down", "up", "wedged", "mute"}
        /\ sdret \in {"none", "ok", "fail"}
    BY DEF Init, Sd!Init
  <2>4. QED
    BY <2>1, <2>2, <2>3 DEF Init, TypeOK
<1>3. ~fault /\ HeadStays /\ NoTickLost /\ Backlog
  BY DEF Init, HeadStays, NoTickLost, Backlog, Working, Looping
<1>4. QED
  BY <1>2, <1>3 DEF IInv

LEMMA StepOK == IInv /\ [Next]_vars => IInv'
<1> SUFFICES ASSUME IInv, [Next]_vars PROVE IInv'
  OBVIOUS
<1> USE IatwaAssumption
        DEF IInv, TypeOK, HeadStays, NoTickLost, Backlog, Due, Boot, Working, Looping, Events, sdVars
<1>1. CASE Initialize
  BY <1>1, SMTT(30) DEF Initialize, AfterInit
<1>2. CASE SdBegin
  BY <1>2 DEF SdBegin, Writing, Sd!Call
<1>3. CASE SdStep
  BY <1>3 DEF SdStep, Writing, Sd!Step, Sd!Identified, Sd!Misidentified, Sd!Unanswered,
              Sd!Die, Sd!Succeed, Sd!Fail
<1>4. CASE MarkerDone
  BY <1>4 DEF MarkerDone, Store, Stored
<1>5. CASE Start
  BY <1>5 DEF Start
<1>6. CASE Feed
  BY <1>6 DEF Feed
<1>7. CASE RunTimeout
  <2>1. Len(queue) = owed /\ owed < QueueSize
    BY <1>7, Room DEF RunTimeout
  <2>2. QED
    BY <1>7, <2>1 DEF RunTimeout
<1>8. CASE RunMeasure
  BY <1>8 DEF RunMeasure
<1>9. CASE GotData
  BY <1>9 DEF GotData
<1>10. CASE MeasureDone
  BY <1>10 DEF MeasureDone, Store, Stored
<1>11. CASE Advance
  BY <1>11 DEF Advance
<1>12. CASE Drained
  BY <1>12 DEF Drained
<1>13. CASE Sleep
  <2>1. owed \in Nat
    BY <1>13, Room DEF Sleep
  <2>2. owed <= 1
    BY <1>13, <2>1, PeriodMono DEF Sleep
  <2>3. QED
    BY <1>13, <2>2 DEF Sleep
<1>14. CASE Wake
  <2>1. owed \in Nat /\ Period * owed <= Period
    BY <1>14, Room, PeriodMono DEF Wake
  <2>2. QED
    BY <1>14, <2>1 DEF Wake
<1>15. CASE Pass
  BY <1>15 DEF Pass
<1>16. CASE Expire
  <2>1. owed \in Nat /\ Len(queue) < QueueSize
    BY <1>16, Room DEF Expire
  <2>2. queue' = Append(queue, "timeout") /\ fault' = FALSE
    BY <1>16, <2>1 DEF Expire
  <2>3. Due' = Due
    BY <1>16, <2>1 DEF Expire
  <2>4. pc = "asleep" => Period * owed <= Period
    <3>1. owed <= 1 => Period * owed <= Period * 1
      BY <2>1, PeriodMono
    <3>2. QED
      BY <3>1
  <2>5. TypeOK'
    <3>1. queue' \in Seq(Events)
      BY <2>2
    <3>2. pc' \in Looping
      BY <1>16 DEF Expire
    <3>3. tick' \in 0 .. Period /\ owed' \in Int
      BY <1>16 DEF Expire
    <3>4. QED
      BY <1>16, <2>2, <3>1, <3>2, <3>3 DEF Expire
  <2>6. HeadStays' /\ NoTickLost'
    BY <1>16, <2>2 DEF Expire
  <2>7. Backlog'
    BY <1>16, <2>3, <2>4 DEF Expire
  <2>8. QED
    BY <2>2, <2>5, <2>6, <2>7
<1>17. CASE SystemReset
  <2>1. Init'
    BY <1>17 DEF SystemReset, Sd!Reset, Init, Sd!Init
  <2>2. QED
    BY <2>1, InitOK, PTL
<1>18. CASE UNCHANGED vars
  BY <1>18 DEF vars
<1>19. QED
  BY <1>1, <1>2, <1>3, <1>4, <1>5, <1>6, <1>7, <1>8, <1>9, <1>10, <1>11, <1>12, <1>13,
     <1>14, <1>15, <1>16, <1>17, <1>18
     DEF Next, Loop

LEMMA Invariance == Spec => []IInv
  BY InitOK, StepOK, PTL DEF Spec

(* Type correctness of the program.                                        *)
THEOREM TypeCorrect == Spec => []TypeOK
<1>1. IInv => TypeOK
  BY DEF IInv
<1>2. QED
  BY <1>1, Invariance, PTL

(* Neither put is ever refused: APP_ERROR_CHECK of the timer interrupt     *)
(* (app_timer.c:391) never stops the program, however long a handler       *)
(* hangs.                                                                  *)
THEOREM NeverFull == Spec => []QueueNeverFull
<1>1. IInv => QueueNeverFull
  BY Room DEF IInv, QueueNeverFull, NoTickLost, Looping
<1>2. QED
  BY <1>1, Invariance, PTL

(* Every expiry of the timer is in the queue until it has been measured.   *)
THEOREM NothingLost == Spec => []NoTickLost
<1>1. IInv => NoTickLost
  BY DEF IInv
<1>2. QED
  BY <1>1, Invariance, PTL

(* The loop resumes with two measurements to make at most (main.c:351).    *)
THEOREM TwoAtMost == Spec => []SleepsOverOne
<1>1. IInv => SleepsOverOne
  <2> SUFFICES ASSUME IInv, pc \in {"feed", "drained", "asleep"} PROVE owed <= 2
    BY DEF SleepsOverOne
  <2>1. owed \in Nat /\ tick \in Nat
    BY Room DEF IInv, TypeOK, Looping
  <2>2. CASE pc = "asleep"
    BY <2>1, <2>2 DEF IInv, Backlog
  <2>3. CASE pc # "asleep"
    <3>1. Period * owed <= Period * 2
      BY <2>1, <2>3, IatwaAssumption DEF IInv, Backlog, Due
    <3>2. QED
      BY <3>1, <2>1, PeriodMono, IatwaAssumption
  <2>4. QED
    BY <2>2, <2>3
<1>2. QED
  BY <1>1, Invariance, PTL

----------------------------------------------------------------------------
(* Measurements that are FastEnough.  While the loop works, what has been  *)
(* taken from the watchdog's patience, weighted with the time a period     *)
(* leaves free, is paid for by what is no longer due.                      *)

Free == Period - MaxWork

Spent == IF pc \in Working THEN work ELSE 0

Paid ==
  /\ pc \in Working \cup {"execute", "ran", "drained"} =>
       Free * dog + MaxWork * Due <= 2 * Period * MaxWork + Period * Spent
  /\ pc = "asleep" => Free * (dog - tick) <= 2 * Period * MaxWork
  /\ pc = "feed" => dog < Wdt

LEMMA TimesMono ==
  ASSUME NEW g \in Nat, NEW a \in Int, NEW b \in Int
  PROVE  /\ a <= b => g * a <= g * b
         /\ g * a < g * b => a < b
  OBVIOUS

(* The debt a loop that still works can have run up.                       *)
LEMMA Debt ==
  ASSUME FastEnough, IInv, Paid, pc \in Working \cup {"execute", "ran", "drained"}
  PROVE  Free * dog <= 2 * Period * MaxWork
<1> USE IatwaAssumption
<1>1. /\ owed \in Nat /\ tick \in Nat /\ dog \in Nat /\ work \in 0 .. MaxWork
      /\ MaxWork \in Nat /\ Period \in Nat /\ Free \in Nat /\ Due \in Nat
  BY Room DEF IInv, TypeOK, Looping, Free, FastEnough, Due
<1>2. Free * dog \in Int /\ MaxWork * Due \in Nat /\ Period * work \in Nat
  BY <1>1
<1>3. CASE pc \in Working
  <2>1. owed >= 1
    BY <1>3 DEF IInv, TypeOK, NoTickLost, HeadStays, Working, Looping
  <2>2. Period <= Due
    <3>1. Period * 1 <= Period * owed
      BY <2>1, <1>1, TimesMono
    <3>2. QED
      BY <3>1, <1>1 DEF Due
  <2>3. MaxWork * Period <= MaxWork * Due
    BY <2>2, <1>1, TimesMono
  <2>4. Period * work <= Period * MaxWork
    BY <1>1, TimesMono
  <2>5. QED
    BY <1>1, <1>2, <1>3, <2>3, <2>4 DEF Paid, Spent
<1>4. CASE pc \notin Working
  BY <1>1, <1>2, <1>4 DEF Paid, Spent
<1>5. QED
  BY <1>3, <1>4

LEMMA PaidDog == FastEnough /\ IInv /\ Paid => NeverBites
<1> SUFFICES ASSUME FastEnough, IInv, Paid, pc \in Looping PROVE dog < Wdt
  BY DEF NeverBites
<1> USE IatwaAssumption
<1>1. /\ dog \in Nat /\ tick \in 0 .. Period /\ Free \in Nat
      /\ Wdt \in Nat /\ Period \in Nat
  BY DEF IInv, TypeOK, Free, FastEnough
<1>2. 2 * Period * MaxWork < Free * (Wdt - Period)
  BY DEF FastEnough, Free
<1>3. CASE pc \in Working \cup {"execute", "ran", "drained"}
  <2>1. Free * dog < Free * (Wdt - Period)
    BY <1>1, <1>2, <1>3, Debt
  <2>2. dog < Wdt - Period
    BY <2>1, <1>1, TimesMono
  <2>3. QED
    BY <2>2, <1>1
<1>4. CASE pc = "asleep"
  <2>1. Free * (dog - tick) < Free * (Wdt - Period)
    BY <1>1, <1>2, <1>4 DEF Paid
  <2>2. dog - tick < Wdt - Period
    BY <2>1, <1>1, TimesMono
  <2>3. QED
    BY <2>2, <1>1
<1>5. CASE pc = "feed"
  BY <1>5 DEF Paid
<1>6. QED
  BY <1>3, <1>4, <1>5 DEF Looping

LEMMA PaidStep ==
  ASSUME FastEnough
  PROVE  IInv /\ IInv' /\ Paid /\ [Next]_vars => Paid'
<1> SUFFICES ASSUME IInv, IInv', Paid, [Next]_vars PROVE Paid'
  OBVIOUS
<1> USE IatwaAssumption
<1> USE DEF Boot, Working, Looping, Spent
<1>1. /\ owed \in Int /\ tick \in 0 .. Period /\ dog \in 0 .. Wdt /\ work \in 0 .. MaxWork
      /\ MaxWork \in Nat /\ Period \in Nat /\ Wdt \in Nat /\ Free \in Nat
      /\ dog < Wdt \/ pc \notin Looping
  BY PaidDog DEF IInv, TypeOK, Free, FastEnough, NeverBites
<1>2. pc \in Looping => owed \in Nat /\ Due \in Nat
  BY <1>1, Room DEF Due
<1>3. CASE Feed
  <2>1. Due \in Nat /\ Due <= 2 * Period
    BY <1>2, <1>3 DEF Feed, IInv, Backlog
  <2>2. MaxWork * Due <= MaxWork * (2 * Period)
    BY <2>1, <1>1, TimesMono
  <2>3. Due' = Due /\ dog' = 0 /\ pc' = "execute"
    BY <1>3 DEF Feed, Due
  <2>4. Free * 0 = 0 /\ Period * 0 = 0
    BY <1>1
  <2>5. QED
    BY <1>1, <2>1, <2>2, <2>3, <2>4 DEF Paid
<1>4. CASE RunTimeout \/ Advance \/ Drained
  BY <1>4 DEF RunTimeout, Advance, Drained, Paid, Due
<1>5. CASE RunMeasure
  BY <1>5 DEF RunMeasure, Paid, Due
<1>6. CASE GotData
  BY <1>6 DEF GotData, Paid, Due
<1>7. CASE MeasureDone
  <2>1. Period * work <= Period * MaxWork
    BY <1>1, TimesMono
  <2>2. Due' = Due - Period /\ dog' = dog /\ pc = "sd_write" /\ pc' = "ran"
    BY <1>1, <1>7 DEF MeasureDone, Due
  <2>3. MaxWork * Due' = MaxWork * Due - MaxWork * Period
    BY <1>1, <1>2, <2>2
  <2>4. Due \in Nat /\ Free * dog \in Int /\ MaxWork * Due \in Int /\ Period * work \in Int
    BY <1>1, <1>2, <2>2
  <2>5. QED
    BY <1>1, <2>1, <2>2, <2>3, <2>4 DEF Paid
<1>8. CASE Sleep
  <2>1. pc = "drained" /\ pc' = "asleep" /\ dog' = dog /\ tick' = tick
    BY <1>8 DEF Sleep
  <2>2. Free * dog <= 2 * Period * MaxWork
    BY <2>1, Debt
  <2>3. Free * (dog - tick) <= Free * dog
    BY <1>1, TimesMono
  <2>4. Free * (dog - tick) <= 2 * Period * MaxWork
    BY <1>1, <2>2, <2>3
  <2>5. QED
    BY <2>1, <2>4 DEF Paid, Free
<1>9. CASE Wake
  BY <1>1, <1>9 DEF Wake, Paid
<1>10. CASE Pass
  <2>1. CASE pc = "asleep"
    <3>1. dog' - tick' = dog - tick /\ pc' = "asleep"
      BY <1>1, <1>10, <2>1 DEF Pass
    <3>2. QED
      BY <3>1, <2>1 DEF Paid, Free
  <2>2. CASE pc \in Working
    <3>1. Due' = Due + 1 /\ dog' = dog + 1 /\ work' = work + 1 /\ pc' = pc
      BY <1>1, <1>10, <2>2 DEF Pass, Due
    <3>2. /\ Free * dog' = Free * dog + Free
          /\ MaxWork * Due' = MaxWork * Due + MaxWork
          /\ Period * work' = Period * work + Period
      BY <1>1, <1>2, <2>2, <3>1
    <3>3. Free + MaxWork = Period
      BY <1>1 DEF Free
    <3>4. Free * dog \in Int /\ MaxWork * Due \in Int /\ Period * work \in Int
      BY <1>1, <1>2, <2>2
    <3>5. QED
      BY <1>1, <2>2, <3>1, <3>2, <3>3, <3>4 DEF Paid
  <2>3. QED
    BY <1>10, <2>1, <2>2 DEF Pass
<1>11. CASE Expire
  <2>1. Due' = Due /\ dog' = dog /\ work' = work
    BY <1>1, <1>11 DEF Expire, Due
  <2>2. CASE pc = "asleep"
    BY <1>1, <1>11, <2>1, <2>2 DEF Expire, Paid
  <2>3. CASE pc # "asleep"
    BY <1>1, <1>11, <2>1, <2>3 DEF Expire, Paid
  <2>4. QED
    BY <2>2, <2>3
<1>12. CASE Initialize \/ MarkerDone \/ Start \/ SystemReset
  BY <1>12 DEF Initialize, AfterInit, MarkerDone, Start, SystemReset, Paid
<1>13. CASE SdBegin \/ SdStep
  BY <1>13 DEF SdBegin, SdStep, Paid, Due
<1>14. CASE UNCHANGED vars
  BY <1>14 DEF vars, Paid, Due
<1>15. QED
  BY <1>3, <1>4, <1>5, <1>6, <1>7, <1>8, <1>9, <1>10, <1>11, <1>12, <1>13, <1>14
     DEF Next, Loop

(* A watchdog that is fed only when the queue is empty never bites if each *)
(* measurement is FastEnough (main.c:350).                                 *)
THEOREM Unbitten ==
  ASSUME FastEnough
  PROVE  Spec => []NeverBites
<1>1. Init => Paid
  BY DEF Init, Paid, Working
<1>2. Spec => []Paid
  BY <1>1, PaidStep, Invariance, PTL DEF Spec
<1>3. IInv /\ Paid => NeverBites
  BY PaidDog
<1>4. QED
  BY <1>2, <1>3, Invariance, PTL
=============================================================================
