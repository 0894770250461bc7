----------------------------- MODULE Twi_proofs -----------------------------
(***************************************************************************)
(* Proofs about Twi, for any set of chips and clients that satisfies       *)
(* NoAlias and payloads of any length.                                     *)
(***************************************************************************)
EXTENDS Twi, TLAPS

(* What a control block says of its own transfer, whoever started it.      *)
BlockOK(i) ==
  /\ cb[i].moved <= cb[i].len
  /\ cb[i].busy /\ ~cb[i].stop =>
       /\ ~cb[i].error
       /\ cb[i].op = "rx" => cb[i].moved < cb[i].len
  /\ cb[i].busy /\ cb[i].stop /\ ~cb[i].error =>
       cb[i].moved = cb[i].len /\ Answered(i)

(* The block holds the transfer the thread is at, and the flag and the     *)
(* event agree about its end.                                              *)
Own(i) ==
  /\ cb[i].op = op /\ cb[i].addr = call.addr /\ cb[i].len = OpLen
  /\ cb[i].busy => ~done
  /\ ~cb[i].busy /\ done => cb[i].event = "done" /\ cb[i].moved = OpLen
  /\ ~cb[i].busy /\ ~done => cb[i].event = "nack"

(* Bus 1 carries a phantom: a transfer to an address nobody there has.     *)
Phantom == cb[1].busy /\ ~Answered(1)

(* What each point of the thread knows.                                    *)
ThreadOK ==
  /\ pc # "idle" => <<call.ins, call.addr>> \in Clients
  /\ pc \in {"issue0", "wait0"} => call.ins = 0
  /\ pc = "issue0" => ~done
  /\ pc = "issue1" /\ call.ins = 1 => ~done
  /\ pc = "wait0" => Own(0) /\ err = "ok"
  /\ pc \in {"issue1", "wait1"} /\ call.ins = 0 => done /\ Through(0)
  /\ pc = "wait1" => err \in {"ok", "busy"}
  /\ pc = "wait1" /\ call.ins = 1 /\ err = "ok" => Own(1)
  /\ pc = "wait1" /\ call.ins = 1 /\ err = "busy" =>
       ~done /\ (~cb[1].busy => cb[1].event = "nack")
  /\ pc = "ret" => err \in {"ok", "busy"}
  /\ pc = "ret" \/ (pc = "idle" /\ err \in {"ok", "busy"}) =>
       Through(call.ins) /\ (err = "busy" => call.ins = 0)

(* A transfer on bus 1 is the one a call for instance 1 waits for, or a    *)
(* phantom; a transfer on bus 0 is always waited for.                      *)
BusOK ==
  /\ cb[0].busy => pc = "wait0"
  /\ cb[1].busy => Phantom \/ (pc = "wait1" /\ call.ins = 1 /\ err = "ok")

IInv == TypeOK /\ BlockOK(0) /\ BlockOK(1) /\ ThreadOK /\ BusOK

USE DEF Ins, Issue, Wait

LEMMA InitOK == Init => IInv
<1> SUFFICES ASSUME Init PROVE IInv
  OBVIOUS
<1>1. call \in Calls /\ call.addr \in Addr
  BY DEF Init, Calls
<1>2. TypeOK
  BY <1>1 DEF Init, TypeOK, Pcs, Ops, ControlBlock
<1>3. BlockOK(0) /\ BlockOK(1)
  BY DEF Init, BlockOK
<1>4. ThreadOK /\ BusOK
  BY DEF Init, ThreadOK, BusOK
<1>5. QED
  BY <1>2, <1>3, <1>4 DEF IInv

LEMMA TypeStep == TypeOK /\ [Next]_vars => TypeOK'
<1> SUFFICES ASSUME TypeOK, [Next]_vars PROVE TypeOK'
  OBVIOUS
<1> USE DEF TypeOK, Pcs, Ops
<1>1. ASSUME NEW c \in Calls, Call(c) PROVE TypeOK'
  BY <1>1 DEF Call
<1>2. ASSUME NEW c \in Calls, Reject(c) PROVE TypeOK'
  BY <1>2 DEF Reject
<1>3. CASE Enter
  BY <1>3 DEF Enter
<1>4. ASSUME NEW i \in Ins, Xfer(i) PROVE TypeOK'
  <2>1. call.addr \in Addr /\ OpLen \in Nat
    BY DEF Calls, OpLen
  <2>2. CASE cb[i].busy
    BY <1>4, <2>2 DEF Xfer
  <2>3. CASE ~cb[i].busy
    <3> DEFINE new == [busy |-> TRUE, op |-> op, addr |-> call.addr, len |-> OpLen,
                       moved |-> IF op = "tx" THEN 1 ELSE 0,
                       stop |-> FALSE, error |-> FALSE, event |-> "none"]
    <3>1. new \in ControlBlock
      BY <2>1 DEF ControlBlock
    <3>2. cb' = [cb EXCEPT ![i] = new]
      BY <1>4, <2>3 DEF Xfer
    <3> HIDE DEF new
    <3>3. cb' \in [Ins -> ControlBlock]
      BY <3>1, <3>2
    <3>4. QED
      BY <1>4, <2>3, <3>3 DEF Xfer
  <2>4. QED
    BY <2>2, <2>3
<1>5. ASSUME NEW i \in Ins, Released(i) PROVE TypeOK'
  BY <1>5 DEF Released
<1>6. CASE Return
  BY <1>6 DEF Return
<1>7. ASSUME NEW i \in Ins, TxdSent(i) PROVE TypeOK'
  <2>1. CASE cb[i].moved < cb[i].len
    BY <1>7, <2>1 DEF TxdSent, ControlBlock
  <2>2. CASE ~(cb[i].moved < cb[i].len)
    BY <1>7, <2>2, ZenonT(40) DEF TxdSent, ControlBlock
  <2>3. QED
    BY <2>1, <2>2
<1>8. ASSUME NEW i \in Ins, RxdReady(i) PROVE TypeOK'
  BY <1>8 DEF RxdReady, ControlBlock
<1>9. ASSUME NEW i \in Ins, Error(i) PROVE TypeOK'
  BY <1>9, ZenonT(40) DEF Error, ControlBlock
<1>10. ASSUME NEW i \in Ins, Stopped(i) PROVE TypeOK'
  <2>1. cb[i] \in ControlBlock
    OBVIOUS
  <2>2. CASE cb[i].error
    <3>1. cb' = [cb EXCEPT ![i].busy = FALSE, ![i].event = "nack"]
      BY <1>10, <2>2 DEF Stopped
    <3>2. cb' \in [Ins -> ControlBlock]
      BY <2>1, <3>1 DEF ControlBlock
    <3>3. done' \in BOOLEAN
      BY <1>10 DEF Stopped
    <3>4. QED
      BY <1>10, <3>2, <3>3 DEF Stopped
  <2>3. CASE ~cb[i].error
    <3>1. cb' = [cb EXCEPT ![i].busy = FALSE, ![i].event = "done"]
      BY <1>10, <2>3 DEF Stopped
    <3>2. cb' \in [Ins -> ControlBlock]
      BY <2>1, <3>1 DEF ControlBlock
    <3>3. done' \in BOOLEAN
      BY <1>10 DEF Stopped
    <3>4. QED
      BY <1>10, <3>2, <3>3 DEF Stopped
  <2>4. QED
    BY <2>2, <2>3
<1>11. CASE UNCHANGED vars
  BY <1>11 DEF vars
<1>12. QED
  BY <1>1, <1>2, <1>3, <1>4, <1>5, <1>6, <1>7, <1>8, <1>9, <1>10, <1>11 DEF Next, Thread, Irq

LEMMA StepOK == IInv /\ [Next]_vars => IInv'
<1> SUFFICES ASSUME IInv, [Next]_vars PROVE IInv'
  OBVIOUS
<1>0. TypeOK'
  BY TypeStep DEF IInv
<1> USE TwiAssumption, <1>0 DEF IInv, TypeOK, Calls, BlockOK, Answered, ThreadOK, BusOK, Phantom, Own, Through, OpLen
<1>1. ASSUME NEW c \in Calls, Call(c) PROVE IInv'
  BY <1>1 DEF Call
<1>2. ASSUME NEW c \in Calls, Reject(c) PROVE IInv'
  BY <1>2 DEF Reject
<1>3. CASE Enter
  BY <1>3 DEF Enter
<1>4. ASSUME NEW i \in Ins, Xfer(i) PROVE IInv'
  <2>1. BlockOK(0)' /\ BlockOK(1)'
    BY <1>4, NoAlias DEF Xfer, ControlBlock
  <2>2. ThreadOK'
    BY <1>4, NoAlias DEF Xfer, ControlBlock
  <2>3. BusOK'
    BY <1>4, NoAlias DEF Xfer, ControlBlock
  <2>4. QED
    BY <2>1, <2>2, <2>3
<1>5. ASSUME NEW i \in Ins, Released(i) PROVE IInv'
  <2>1. BlockOK(0)' /\ BlockOK(1)'
    BY <1>5 DEF Released
  <2>2. ThreadOK'
    BY <1>5 DEF Released
  <2>3. BusOK'
    BY <1>5 DEF Released
  <2>4. QED
    BY <2>1, <2>2, <2>3
<1>6. CASE Return
  BY <1>6 DEF Return, ControlBlock
<1>7. ASSUME NEW i \in Ins, TxdSent(i) PROVE IInv'
  <2>1. BlockOK(0)' /\ BlockOK(1)'
    BY <1>7 DEF TxdSent, Running, ControlBlock
  <2>2. ThreadOK'
    BY <1>7 DEF TxdSent, Running, ControlBlock
  <2>3. BusOK'
    BY <1>7 DEF TxdSent, Running, ControlBlock
  <2>4. QED
    BY <2>1, <2>2, <2>3
<1>8. ASSUME NEW i \in Ins, RxdReady(i) PROVE IInv'
  <2>1. BlockOK(0)' /\ BlockOK(1)'
    BY <1>8 DEF RxdReady, Running, ControlBlock
  <2>2. ThreadOK'
    BY <1>8 DEF RxdReady, Running, ControlBlock
  <2>3. BusOK'
    BY <1>8 DEF RxdReady, Running, ControlBlock
  <2>4. QED
    BY <2>1, <2>2, <2>3
<1>9. ASSUME NEW i \in Ins, Error(i) PROVE IInv'
  <2>1. BlockOK(0)' /\ BlockOK(1)'
    BY <1>9 DEF Error, Running, ControlBlock
  <2>2. ThreadOK'
    BY <1>9 DEF Error, Running, ControlBlock
  <2>3. BusOK'
    BY <1>9 DEF Error, Running, ControlBlock
  <2>4. QED
    BY <2>1, <2>2, <2>3
<1>10. ASSUME NEW i \in Ins, Stopped(i) PROVE IInv'
  <2>1. BlockOK(0)' /\ BlockOK(1)'
    BY <1>10 DEF Stopped, ControlBlock
  <2>2. ThreadOK'
    BY <1>10 DEF Stopped, ControlBlock
  <2>3. BusOK'
    BY <1>10 DEF Stopped, ControlBlock
  <2>4. QED
    BY <2>1, <2>2, <2>3
<1>11. CASE UNCHANGED vars
  BY <1>11 DEF vars
<1>12. QED
  BY <1>1, <1>2, <1>3, <1>4, <1>5, <1>6, <1>7, <1>8, <1>9, <1>10, <1>11 DEF Next, Thread, Irq

LEMMA Inductive == Spec => []IInv
<1>1. QED
  BY InitOK, StepOK, PTL DEF Spec

(* Every variable keeps its type, in every run with any payload sizes.     *)
THEOREM TypeCorrect == Spec => []TypeOK
<1>1. IInv => TypeOK
  BY DEF IInv
<1>2. QED
  BY Inductive, <1>1, PTL

(* A call for instance 0 never meets a busy bus 0: nothing that returned   *)
(* before it left a transfer there (twi.c:87, twi.c:116).                  *)
THEOREM BusZero == Spec => []BusZeroQuiet
<1>1. IInv => BusZeroQuiet
  BY DEF IInv, BusOK, BusZeroQuiet
<1>2. QED
  BY Inductive, <1>1, PTL

(* A wait on the shared flag ends only by the transfer it waits for        *)
(* (twi.c:89, twi.c:93).                                                   *)
THEOREM WaitSound == Spec => []WaitEndsOnOwnTransfer
<1>1. IInv => WaitEndsOnOwnTransfer
  BY TwiAssumption DEF IInv, ThreadOK, Own, Through, WaitEndsOnOwnTransfer, TypeOK, Calls
<1>2. QED
  BY Inductive, <1>1, PTL

(* A reported success is true, and the one error reported is a false alarm *)
(* of instance 0 (twi.c:92, twi.c:121).                                    *)
THEOREM SuccessHonest == Spec => []HonestSuccess
<1>1. IInv => HonestSuccess
  BY DEF IInv, ThreadOK, HonestSuccess
<1>2. QED
  BY Inductive, <1>1, PTL

(* The flag is never down while the awaited bus rests after a good         *)
(* transfer: a call spins for good only after an error (twi.c:15).         *)
THEOREM NoLoss == Spec => []NoLostCompletion
<1>1. IInv => NoLostCompletion
  BY DEF IInv, TypeOK, ThreadOK, Own, NoLostCompletion
<1>2. QED
  BY Inductive, <1>1, PTL

(* Nothing releases a call whose transfer failed or was refused: only a    *)
(* reset ends it.                                                          *)
THEOREM HungForever == Spec => NeverRescued
<1>1. IInv /\ [Next]_vars => [Hung => Hung']_vars
  <2> SUFFICES ASSUME IInv, [Next]_vars, Hung PROVE Hung'
    OBVIOUS
  <2> USE DEF IInv, TypeOK, BusOK, BlockOK, Phantom, Answered, ThreadOK, Own, Hung
  <2>1. ASSUME NEW c \in Calls, Call(c) \/ Reject(c) PROVE FALSE
    BY <2>1 DEF Call, Reject
  <2>2. CASE Thread
    BY <2>2 DEF Thread, Enter, Return, Xfer, Released
  <2>3. ASSUME NEW i \in Ins, TxdSent(i) \/ RxdReady(i) \/ Error(i) PROVE Hung'
    BY <2>3 DEF TxdSent, RxdReady, Error, Running, ControlBlock
  <2>4. ASSUME NEW i \in Ins, Stopped(i) PROVE Hung'
    BY <2>4 DEF Stopped, ControlBlock
  <2>5. QED
    BY <2>1, <2>2, <2>3, <2>4 DEF Next, Irq, vars
<1>2. QED
  BY Inductive, <1>1, PTL DEF Spec, NeverRescued

(* A received byte is stored only while the call that owns the buffer is   *)
(* waiting for it, so a phantom never writes to a dead stack frame.        *)
THEOREM BufferLive == Spec => LiveBuffer
<1> DEFINE A == \A i \in Ins :
       cb[i].op = "rx" /\ cb'[i].op = "rx" /\ cb'[i].moved > cb[i].moved =>
         pc = Wait(i) /\ call.ins = i
<1>1. IInv /\ [Next]_vars => [A]_vars
  <2> SUFFICES ASSUME IInv, [Next]_vars, NEW j \in Ins,
                      cb[j].op = "rx", cb'[j].op = "rx", cb'[j].moved > cb[j].moved
               PROVE pc = Wait(j) /\ call.ins = j
    BY DEF A
  <2> USE DEF IInv, TypeOK, BusOK, BlockOK, Phantom, Answered, ThreadOK, Own
  <2>0. cb[j].moved \in Nat /\ cb' # cb
    BY DEF ControlBlock
  <2>1. ASSUME NEW c \in Calls, Call(c) \/ Reject(c) PROVE FALSE
    BY <2>0, <2>1 DEF Call, Reject
  <2>2. ASSUME NEW i \in Ins, Xfer(i) PROVE FALSE
    <3>1. ~cb[i].busy /\ i = j
      BY <2>0, <2>2 DEF Xfer
    <3>2. cb'[j].moved = IF op = "tx" THEN 1 ELSE 0
      BY <2>2, <3>1 DEF Xfer
    <3>3. cb'[j].op = op
      BY <2>2, <3>1 DEF Xfer
    <3>4. QED
      BY <2>0, <3>2, <3>3
  <2>3. CASE Enter \/ Return \/ \E i \in Ins : Released(i)
    BY <2>0, <2>3 DEF Enter, Return, Released
  <2>4. ASSUME NEW i \in Ins, RxdReady(i) PROVE pc = Wait(j) /\ call.ins = j
    BY <2>4 DEF RxdReady, Running, ControlBlock
  <2>5. ASSUME NEW i \in Ins, TxdSent(i) \/ Error(i) \/ Stopped(i) PROVE FALSE
    BY <2>5 DEF TxdSent, Error, Stopped, Running, ControlBlock
  <2>6. QED
    BY <2>0, <2>1, <2>2, <2>4, <2>5, <2>3 DEF Next, Thread, Irq, vars
<1>2. QED
  BY Inductive, <1>1, PTL DEF Spec, LiveBuffer

----------------------------------------------------------------------------

(* The mapped state, named so that the steps below stay readable.          *)
AbsSt  == IF pc = "idle" THEN "idle" ELSE IF Hung THEN "hung" ELSE "active"
AbsRes == IF pc = "idle" THEN err ELSE "none"

(* twi_read and twi_write implement the blocking call of TwiCall: every    *)
(* step is a step of the promise or leaves its state alone.                *)
THEOREM Refinement == Spec => Promise!Init /\ [][Promise!Next]_(Promise!avars)
<1>1. Init => Promise!Init
  BY DEF Init, Promise!Init, Calls, Todo
<1>2. IInv /\ IInv' /\ [Next]_vars => [Promise!Next]_(Promise!avars)
  <2> SUFFICES ASSUME IInv, IInv', [Next]_vars
               PROVE Promise!Next \/ UNCHANGED <<AbsSt, call.ins, Todo, AbsRes>>
    BY DEF Promise!avars, AbsSt, AbsRes
  <2> USE DEF IInv, TypeOK, BlockOK, Answered, BusOK, Phantom, ThreadOK, Own, AbsSt, AbsRes, Todo, Moved, Hung
  <2>1. ASSUME NEW c \in Calls, Call(c) PROVE Promise!Call
    BY <2>1 DEF Call, Calls, Promise!Call
  <2>2. ASSUME NEW c \in Calls, Reject(c) PROVE Promise!Reject
    BY <2>2 DEF Reject, Calls, Promise!Reject
  <2>3. CASE Enter
    BY <2>3 DEF Enter
  <2>4. ASSUME NEW i \in Ins, Xfer(i)
        PROVE Promise!Hang \/ UNCHANGED <<AbsSt, call.ins, Todo, AbsRes>>
    <3>1. CASE cb[i].busy
      BY <2>4, <3>1 DEF Xfer, Promise!Hang, Calls
    <3>2. CASE ~cb[i].busy
      BY <2>4, <3>2 DEF Xfer, Calls, ControlBlock
    <3>3. QED
      BY <3>1, <3>2
  <2>5. ASSUME NEW i \in Ins, Released(i)
        PROVE UNCHANGED <<AbsSt, call.ins, Todo, AbsRes>>
    BY <2>5 DEF Released, Calls
  <2>6. CASE Return
    BY <2>6 DEF Return, Calls, Promise!Next, Promise!Step, Promise!Succeed, Promise!ReportBusy
  <2>7. ASSUME NEW i \in Ins, TxdSent(i) \/ RxdReady(i)
        PROVE UNCHANGED <<AbsSt, call.ins, Todo, AbsRes>>
    BY <2>7 DEF TxdSent, RxdReady, Running, ControlBlock
  <2>8. ASSUME NEW i \in Ins, Error(i)
        PROVE Promise!Hang \/ UNCHANGED <<AbsSt, call.ins, Todo, AbsRes>>
    BY <2>8 DEF Error, Running, ControlBlock, Promise!Hang
  <2>9. ASSUME NEW i \in Ins, Stopped(i)
        PROVE Promise!Transfer \/ UNCHANGED <<AbsSt, call.ins, Todo, AbsRes>>
    BY <2>9 DEF Stopped, ControlBlock, Promise!Transfer
  <2>10. CASE UNCHANGED vars
    BY <2>10 DEF vars
  <2>11. QED
    BY <2>1, <2>2, <2>3, <2>4, <2>5, <2>6, <2>7, <2>8, <2>9, <2>10
       DEF Next, Thread, Irq, Promise!Next, Promise!Step
<1>3. QED
  BY Inductive, <1>1, <1>2, PTL DEF Spec
=============================================================================
