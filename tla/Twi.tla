-------------------------------- MODULE Twi --------------------------------
(***************************************************************************)
(* The blocking I2C calls of twi.c over the interrupt-driven nrfx_twi      *)
(* driver.  One thread makes the calls; the two TWI interrupts, of equal   *)
(* priority, interleave with it (never with each other) and share with it  *)
(* the single flag twi_transfer_done.                                      *)
(*                                                                         *)
(* twi_rx and twi_tx have no break in "case 0": a call for instance 0 runs *)
(* its transfer on bus 0, waits for it, and then starts the same transfer  *)
(* on bus 1, where nothing waits for its end.  It is called the phantom    *)
(* transfer here.                                                          *)
(***************************************************************************)
EXTENDS Integers

CONSTANTS
  Addr,      (* I2C addresses                                              *)
  Clients,   (* the <<instance, address>> pairs the sensor drivers use     *)
  Present,   (* the <<instance, address>> pairs a chip answers to          *)
  MaxMsg,    (* longest payload of twi_write (31 in the code)              *)
  MaxSize    (* bound: longest payload a caller asks for                   *)

Ins == {0, 1}

ASSUME TwiAssumption ==
  /\ Clients \subseteq Ins \X Addr
  /\ Present \subseteq Ins \X Addr
  /\ MaxMsg \in Nat
  /\ MaxSize \in Nat

(* No chip on bus 1 answers to an address the drivers use on bus 0: 0x76   *)
(* (BMP388) and 0x70 (2SMPB) are on bus 0, 0x77 (DPS368) alone on bus 1.   *)
ASSUME NoAlias ==
  \A a \in Addr : <<0, a>> \in Clients => <<1, a>> \notin Present

VARIABLES
  pc,      (* where the calling thread stands                              *)
  call,    (* the arguments of the current (or last) twi_read / twi_write  *)
  op,      (* the transfer it is at: "tx" in twi_tx, "rx" in twi_rx        *)
  done,    (* twi_transfer_done                                            *)
  err,     (* the err of twi_tx / twi_rx                                   *)
  cb       (* the driver's control block of each instance                  *)

vars == <<pc, call, op, done, err, cb>>

Calls == [fn : {"read", "write"}, ins : Ins, addr : Addr, size : 1 .. MaxSize]
Ops   == {"tx", "rx"}
Pcs   == {"idle", "enter", "issue0", "wait0", "issue1", "wait1", "ret"}

(* moved is bytes_transferred; stop says that the STOP task or its short   *)
(* has been armed; event is the type last handed to twi_handler.           *)
ControlBlock ==
  [busy : BOOLEAN, op : Ops, addr : Addr, len : Nat, moved : Nat,
   stop : BOOLEAN, error : BOOLEAN, event : {"none", "done", "nack"}]

TypeOK ==
  /\ pc \in Pcs
  /\ call \in Calls
  /\ op \in Ops
  /\ done \in BOOLEAN
  /\ err \in {"none", "ok", "busy", "rejected"}
  /\ cb \in [Ins -> ControlBlock]

Issue(i) == IF i = 0 THEN "issue0" ELSE "issue1"
Wait(i)  == IF i = 0 THEN "wait0" ELSE "wait1"

(* Bytes of the transfer at hand: twi_read first sends the one-byte        *)
(* command, twi_write sends the command and the payload in one message.    *)
OpLen ==
  IF op = "rx" THEN call.size ELSE IF call.fn = "read" THEN 1 ELSE call.size + 1

----------------------------------------------------------------------------
(* The thread.                                                             *)

Init ==
  /\ pc = "idle"
  /\ call \in {c \in Calls : <<c.ins, c.addr>> \in Clients}
  /\ op = "tx"
  /\ done = FALSE
  /\ err = "none"
  /\ cb = [i \in Ins |->
             [busy |-> FALSE, op |-> "tx", addr |-> call.addr, len |-> 0, moved |-> 0,
              stop |-> FALSE, error |-> FALSE, event |-> "none"]]

(* twi_read or twi_write is entered by the driver of a client.             *)
Call(c) ==
  /\ pc = "idle"
  /\ <<c.ins, c.addr>> \in Clients
  /\ c.fn = "write" => c.size <= MaxMsg
  /\ call' = c
  /\ op' = "tx"
  /\ done' = FALSE
  /\ pc' = "enter"
  /\ UNCHANGED <<err, cb>>

(* twi_write returns message_too_large before it touches the bus.          *)
Reject(c) ==
  /\ pc = "idle"
  /\ <<c.ins, c.addr>> \in Clients
  /\ c.fn = "write" /\ c.size > MaxMsg
  /\ call' = c
  /\ err' = "rejected"
  /\ UNCHANGED <<pc, op, done, cb>>

(* Mutation of Enter: the flag is not lowered before a transfer.           *)
EnterFlagUp ==
  /\ pc = "enter"
  /\ err' = "ok"
  /\ pc' = Issue(call.ins)
  /\ UNCHANGED <<call, op, done, cb>>

(* The head of twi_tx / twi_rx.                                            *)
Enter ==
  /\ pc = "enter"
  /\ done' = FALSE
  /\ err' = "ok"
  /\ pc' = Issue(call.ins)
  /\ UNCHANGED <<call, op, cb>>

(* nrf_drv_twi_tx / _rx, that is twi_xfer, with the interrupt of the       *)
(* instance masked: NRFX_ERROR_BUSY, or a transfer started with its first  *)
(* byte handed to the peripheral.                                          *)
Xfer(i) ==
  /\ pc = Issue(i)
  /\ IF cb[i].busy
     THEN err' = "busy" /\ UNCHANGED cb
     ELSE /\ err' = "ok"
          /\ cb' = [cb EXCEPT ![i] =
               [busy |-> TRUE, op |-> op, addr |-> call.addr, len |-> OpLen,
                moved |-> IF op = "tx" THEN 1 ELSE 0,
                stop |-> FALSE, error |-> FALSE, event |-> "none"]]
  /\ pc' = Wait(i)
  /\ UNCHANGED <<call, op, done>>

(* Mutation of Released: case 0 goes on without its wait.                  *)
ReleasedEarly(i) ==
  /\ pc = Wait(i)
  /\ i = 0 \/ done
  /\ pc' = IF i = 0 THEN "issue1" ELSE "ret"
  /\ UNCHANGED <<call, op, done, err, cb>>

(* while (twi_transfer_done == false) ends; case 0 falls through to case 1 *)
Released(i) ==
  /\ pc = Wait(i)
  /\ done
  /\ pc' = IF i = 0 THEN "issue1" ELSE "ret"
  /\ UNCHANGED <<call, op, done, err, cb>>

(* Mutations of Return: a refused twi_read starts over; twi_read returns   *)
(* after the command byte.                                                 *)
ReturnRetry ==
  /\ pc = "ret"
  /\ IF err = "busy"
     THEN op' = "tx" /\ pc' = "enter"
     ELSE IF call.fn = "read" /\ op = "tx"
          THEN op' = "rx" /\ pc' = "enter"
          ELSE op' = op /\ pc' = "idle"
  /\ UNCHANGED <<call, done, err, cb>>
ReturnNoRx ==
  /\ pc = "ret"
  /\ pc' = "idle"
  /\ UNCHANGED <<call, op, done, err, cb>>

(* twi_tx or twi_rx has returned: twi_read goes on to its second transfer, *)
(* or the call returns err to its caller.                                  *)
Return ==
  /\ pc = "ret"
  /\ IF call.fn = "read" /\ op = "tx" /\ err = "ok"
     THEN op' = "rx" /\ pc' = "enter"
     ELSE op' = op /\ pc' = "idle"
  /\ UNCHANGED <<call, done, err, cb>>

----------------------------------------------------------------------------
(* The interrupt of instance i, one action per event it serves.            *)

Running(i) == cb[i].busy /\ ~cb[i].stop

(* An answer from the chip: the peripheral goes past the address byte only *)
(* if one is there.                                                        *)
Answered(i) == <<i, cb[i].addr>> \in Present

(* TXDSENT: the next byte goes out, or the transfer is stopped.            *)
TxdSent(i) ==
  /\ Running(i) /\ Answered(i)
  /\ cb[i].op = "tx"
  /\ cb' = IF cb[i].moved < cb[i].len
           THEN [cb EXCEPT ![i].moved = @ + 1]
           ELSE [cb EXCEPT ![i].stop = TRUE]
  /\ UNCHANGED <<pc, call, op, done, err>>

(* RXDREADY: a byte is stored in the caller's buffer; the last one comes   *)
(* with the STOP short armed.                                              *)
RxdReady(i) ==
  /\ Running(i) /\ Answered(i)
  /\ cb[i].op = "rx"
  /\ cb' = [cb EXCEPT ![i].moved = @ + 1, ![i].stop = (cb[i].moved + 1 = cb[i].len)]
  /\ UNCHANGED <<pc, call, op, done, err>>

(* ERROR: no acknowledge, or an overrun.  The driver triggers STOP.        *)
Error(i) ==
  /\ Running(i)
  /\ cb' = [cb EXCEPT ![i].error = TRUE, ![i].stop = TRUE]
  /\ UNCHANGED <<pc, call, op, done, err>>

(* Mutations of Stopped: every event raises the flag; the end of a receive *)
(* does not; an error without a known source leaves the event type unset.  *)
StoppedAnyEvent(i) ==
  /\ cb[i].busy /\ cb[i].stop
  /\ cb' = [cb EXCEPT ![i].busy = FALSE, ![i].event = IF cb[i].error THEN "nack" ELSE "done"]
  /\ done' = TRUE
  /\ UNCHANGED <<pc, call, op, err>>
StoppedTxOnly(i) ==
  /\ cb[i].busy /\ cb[i].stop
  /\ cb' = [cb EXCEPT ![i].busy = FALSE, ![i].event = IF cb[i].error THEN "nack" ELSE "done"]
  /\ done' = (done \/ (~cb[i].error /\ cb[i].op = "tx"))
  /\ UNCHANGED <<pc, call, op, err>>
StoppedUnset(i) ==
  /\ cb[i].busy /\ cb[i].stop
  /\ cb' = [cb EXCEPT ![i].busy = FALSE, ![i].event = IF cb[i].error THEN "unset" ELSE "done"]
  /\ done' = (done \/ ~cb[i].error)
  /\ UNCHANGED <<pc, call, op, err>>

(* STOPPED: busy is cleared, then twi_handler is called; it looks at       *)
(* NRFX_TWI_EVT_DONE only.                                                 *)
Stopped(i) ==
  /\ cb[i].busy /\ cb[i].stop
  /\ LET event == IF cb[i].error THEN "nack" ELSE "done" IN
       /\ cb' = [cb EXCEPT ![i].busy = FALSE, ![i].event = event]
       /\ done' = (done \/ event = "done")
  /\ UNCHANGED <<pc, call, op, err>>

Irq(i) == TxdSent(i) \/ RxdReady(i) \/ Error(i) \/ Stopped(i)

Thread ==
  \/ Enter
  \/ Return
  \/ \E i \in Ins : Xfer(i) \/ Released(i)

Next ==
  \/ \E c \in Calls : Call(c) \/ Reject(c)
  \/ Thread
  \/ \E i \in Ins : Irq(i)

(* A started call is run by the processor and a started transfer comes to  *)
(* an end on the wire; nobody has to make another call.                    *)
Fairness ==
  /\ WF_vars(Thread)
  /\ \A i \in Ins : WF_vars(Irq(i))

Spec == Init /\ [][Next]_vars
FairSpec == Spec /\ Fairness

----------------------------------------------------------------------------
(* Properties.                                                             *)

(* The transfer at hand has gone through on bus i: started for this call,  *)
(* every byte moved, acknowledged.                                         *)
Through(i) ==
  /\ ~cb[i].busy
  /\ cb[i].event = "done"
  /\ cb[i].op = op /\ cb[i].addr = call.addr
  /\ cb[i].len = OpLen /\ cb[i].moved = OpLen

(* Bus 0 is at rest whenever no call stands in its first wait, so a call   *)
(* for instance 0 is never refused there: only bus 1 can be left busy      *)
(* behind a call that has returned (twi.c:87, twi.c:116).                  *)
BusZeroQuiet == cb[0].busy => pc = "wait0"

(* The flag is shared by both buses and every transfer, yet a wait that    *)
(* ends has been ended by the transfer it waited for, not by a transfer    *)
(* left over on the other bus (twi.c:89, twi.c:93).                        *)
WaitEndsOnOwnTransfer ==
  /\ pc = "wait0" /\ done => Through(0)
  /\ pc = "wait1" /\ done => Through(call.ins)
  /\ pc = "issue1" /\ call.ins = 0 => done /\ Through(0)

(* What the caller is told.  Success is true: all the bytes went over the  *)
(* bus of the sensor.  And the only error a transfer reports is a false    *)
(* one: NRFX_ERROR_BUSY from the phantom transfer of an instance 0 call    *)
(* whose own transfer went through (twi.c:92, twi.c:121).                  *)
HonestSuccess ==
  (pc = "ret" \/ (pc = "idle" /\ err \in {"ok", "busy"})) =>
    /\ Through(call.ins)
    /\ err = "busy" => call.ins = 0

(* No completion is lost: if the bus a thread waits for is at rest and the *)
(* flag is down, that bus last ended in an error.  So a call spins for     *)
(* good only because a chip did not acknowledge (twi.c:15) or because bus  *)
(* 1 refused it while a phantom transfer was on it.                        *)
NoLostCompletion ==
  \A i \in Ins :
    pc = Wait(i) /\ call.ins = i /\ ~cb[i].busy /\ ~done => cb[i].event = "nack"

(* A thread that will spin for good: its transfer ended in an error or was *)
(* refused, and nothing will raise the flag.                               *)
Hung ==
  \E i \in Ins :
    /\ pc = Wait(i) /\ call.ins = i /\ ~done
    /\ \/ err = "busy"
       \/ cb[i].error
       \/ ~cb[i].busy

(* A call whose transfer failed is never rescued by a transfer of another  *)
(* call that ends later: it stays in the loop until the chip is reset, and *)
(* never returns a stale buffer as a success.                              *)
NeverRescued == [][Hung => Hung']_vars

(* The driver stores a received byte only while the call that owns the     *)
(* buffer stands in its wait: a phantom receive, which points to the stack *)
(* of a call that may have returned, never gets a byte (twi.c:92).         *)
LiveBuffer ==
  [][\A i \in Ins :
       cb[i].op = "rx" /\ cb'[i].op = "rx" /\ cb'[i].moved > cb[i].moved =>
         pc = Wait(i) /\ call.ins = i]_vars

(* Every call returns, or spins for one of the reasons in Hung.            *)
ReturnsOrHangs == (pc # "idle") ~> (pc = "idle" \/ Hung)

(* The transfer op has gone through, as the thread can tell from where it  *)
(* stands.                                                                 *)
Moved ==
  \/ pc = "ret"
  \/ pc \in {"issue1", "wait1"} /\ call.ins = 0
  \/ pc \in {"wait0", "wait1"} /\ done

(* Transfers the call still has to make.                                   *)
Todo ==
  IF pc = "idle" THEN 0
  ELSE (IF call.fn = "read" /\ op = "tx" THEN 1 ELSE 0) + (IF Moved THEN 0 ELSE 1)

Promise ==
  INSTANCE TwiCall WITH
    st   <- IF pc = "idle" THEN "idle" ELSE IF Hung THEN "hung" ELSE "active",
    ins  <- call.ins,
    todo <- Todo,
    res  <- IF pc = "idle" THEN err ELSE "none"

(* twi_read and twi_write keep the promise of TwiCall: their transfers go  *)
(* through once and in order on the sensor's own bus, and every call comes *)
(* to an end or hangs (twi.c:136, twi.c:161).                              *)
KeepsPromise == Promise!Spec
=============================================================================
