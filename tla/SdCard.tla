------------------------------- MODULE SdCard -------------------------------
(***************************************************************************)
(* sd_write of sdcard.c over the glue of diskio_blkdev.c, the block device *)
(* of nrf_block_dev_sdc.c and the driver of app_sdcard.c.  The thread      *)
(* waits in disk_initialize, disk_read and disk_write for the events the   *)
(* SPI interrupt brings.                                                   *)
(*                                                                         *)
(* FatFs is external: each of its functions makes requests to the disk and *)
(* then succeeds or fails.  A reset (watchdog, APP_ERROR_CHECK, power) may *)
(* come at any time and clears the RAM.                                    *)
(***************************************************************************)
EXTENDS AppSdcard

CONSTANT MaxIo     (* bound: requests of FatFs in one sd_write             *)

ASSUME SdCardAssumption == MaxIo \in Nat \ {0}

VARIABLES
  pc,       (* where the thread stands                                     *)
  retries,  (* the retries of sd_write                                     *)
  noinit,   (* the STA_NOINIT bit of the drive                             *)
  busy,     (* the busy flag of the drive                                  *)
  last,     (* last_result of the drive is SUCCESS                         *)
  active,   (* m_active_sdc_dev points to the block device                 *)
  ios,      (* requests FatFs has made in this call                        *)
  ret,      (* what the last sd_write returned                             *)
  began,    (* history: identifications begun in this (or the last) call   *)
  doomed    (* history: this call was made to a card gone mute             *)

drive  == <<retries, noinit, busy, last, active>>
callVars == <<ios, ret, began, doomed>>
vars   == <<sdcVars, pc, drive, callVars>>

(* The FatFs functions sd_write calls, in order.                           *)
FatFs == {"f_mount", "f_opendir", "f_readdir", "f_open", "f_write", "f_close"}

After(f) ==
  CASE f = "f_mount"   -> "f_opendir"
    [] f = "f_opendir" -> "f_readdir"
    [] f = "f_readdir" -> "f_open"
    [] f = "f_open"    -> "f_write"
    [] f = "f_write"   -> "f_close"

(* pc is <<where, FatFs function>>.                                        *)
Idle == <<"idle", "f_mount">>

TypeOK ==
  /\ SdcTypeOK
  /\ pc \in {"idle", "retry", "initwait", "fatfs", "iowait"} \X FatFs
  /\ retries \in 0 .. 3
  /\ {noinit, busy, last, active, doomed} \subseteq BOOLEAN
  /\ ios \in 0 .. MaxIo
  /\ ret \in {"none", "ok", "fail"}
  /\ began \in 0 .. 3

Init ==
  /\ SdcInit
  /\ pc = Idle
  /\ retries = 0
  /\ noinit = TRUE /\ busy = FALSE /\ last = TRUE
  /\ active = FALSE
  /\ ios = 0 /\ ret = "none" /\ began = 0 /\ doomed = FALSE

(* The condition of the drivers after an unanswered read or write.         *)
Mute == ~noinit /\ m_cb.op = "idle" /\ m_cb.bus # "idle"

(* The condition after an identification that failed half-way.             *)
Wedged == noinit /\ active /\ m_cb.op = "uninit"

Waiting == pc[1] \in {"initwait", "iowait"}

----------------------------------------------------------------------------
(* disk_initialize.                                                        *)

(* Mutation of SdWrite: one try.                                           *)
SdWriteOnce ==
  /\ pc = Idle /\ ~fault
  /\ pc' = <<"retry", "f_mount">>
  /\ retries' = 1
  /\ ios' = 0 /\ ret' = "none" /\ began' = 0 /\ doomed' = Mute
  /\ UNCHANGED <<sdcVars, noinit, busy, last, active>>

(* The head of sd_write.                                                   *)
SdWrite ==
  /\ pc = Idle /\ ~fault
  /\ pc' = <<"retry", "f_mount">>
  /\ retries' = 3
  /\ ios' = 0 /\ ret' = "none" /\ began' = 0 /\ doomed' = Mute
  /\ UNCHANGED <<sdcVars, noinit, busy, last, active>>

Retry == pc[1] = "retry" /\ ~fault

(* The disk has been initialised by an earlier call.                       *)
AlreadyUp ==
  /\ Retry /\ retries > 0 /\ ~noinit
  /\ pc' = <<"fatfs", "f_mount">>
  /\ retries' = retries - 1
  /\ UNCHANGED <<sdcVars, noinit, busy, last, active, callVars>>

(* block_dev_sdc_init takes the device and starts the identification.      *)
BeginInit ==
  /\ Retry /\ retries > 0 /\ noinit
  /\ ~active /\ m_cb.op = "uninit"
  /\ AppSdcInit
  /\ active' = TRUE
  /\ busy' = TRUE
  /\ began' = began + 1
  /\ pc' = <<"initwait", "f_mount">>
  /\ UNCHANGED <<retries, noinit, last, ios, ret, doomed>>

(* Mutation of Unwind: the device is freed whatever app_sdc_uninit says.   *)
UnwindAlways ==
  /\ Retry /\ retries > 0 /\ noinit
  /\ active /\ ~BusyCheck
  /\ active' = FALSE
  /\ AppSdcUninit
  /\ last' = (m_cb.op = "idle")
  /\ busy' = FALSE
  /\ retries' = retries - 1
  /\ UNCHANGED <<pc, noinit, callVars>>

(* block_dev_sdc_init answers NRF_ERROR_BUSY since the device was not      *)
(* freed by an earlier failure; disk_initialize then uninitialises the     *)
(* block device, which frees it only if app_sdc_uninit succeeds.           *)
Unwind ==
  /\ Retry /\ retries > 0 /\ noinit
  /\ active /\ ~BusyCheck
  /\ IF m_cb.op = "idle"
     THEN AppSdcUninit /\ active' = FALSE /\ last' = TRUE
     ELSE evt' = NoEvent /\ active' = TRUE /\ last' = FALSE /\ UNCHANGED <<m_cb, spi, fault>>
  /\ busy' = FALSE
  /\ retries' = retries - 1
  /\ UNCHANGED <<pc, noinit, callVars>>

(* while (busy) has ended in disk_initialize.                              *)
EndInit ==
  /\ pc[1] = "initwait" /\ ~busy /\ ~fault
  /\ noinit' = ~last
  /\ retries' = retries - 1
  /\ pc' = IF last THEN <<"fatfs", "f_mount">> ELSE <<"retry", "f_mount">>
  /\ UNCHANGED <<sdcVars, busy, last, active, callVars>>

Return(r) ==
  /\ pc' = Idle
  /\ ret' = r
  /\ UNCHANGED <<sdcVars, drive, ios, began, doomed>>

NoDisk == Retry /\ retries = 0 /\ noinit /\ Return("fail")

----------------------------------------------------------------------------
(* The FatFs calls.                                                        *)

(* disk_read, disk_write.  f_mount only reads.                             *)
Request(n) ==
  /\ pc[1] = "fatfs" /\ ~fault
  /\ ios < MaxIo
  /\ active /\ ~BusyCheck
  /\ BlockRead(n) \/ (pc[2] # "f_mount" /\ BlockWrite(n))
  /\ busy' = TRUE
  /\ ios' = ios + 1
  /\ pc' = <<"iowait", pc[2]>>
  /\ UNCHANGED <<retries, noinit, last, active, ret, began, doomed>>

(* while (busy) has ended in disk_read or disk_write.                      *)
EndRequest ==
  /\ pc[1] = "iowait" /\ ~busy /\ ~fault
  /\ pc' = <<"fatfs", pc[2]>>
  /\ UNCHANGED <<sdcVars, drive, callVars>>

(* A FatFs function returns FR_OK; f_mount has read the boot sector.  The  *)
(* result of f_close is ignored, so it need not be FR_OK.                  *)
FatFsOk ==
  /\ pc[1] = "fatfs" /\ ~fault
  /\ ios > 0
  /\ last \/ pc[2] = "f_close"
  /\ IF pc[2] = "f_close"
     THEN Return("ok")
     ELSE /\ pc' = <<"fatfs", After(pc[2])>>
          /\ UNCHANGED <<sdcVars, drive, callVars>>

(* It fails: a request has, or the volume is not what it should be.        *)
FatFsFail ==
  /\ pc[1] = "fatfs" /\ ~fault
  /\ ios > 0
  /\ pc[2] # "f_close"
  /\ Return("fail")

----------------------------------------------------------------------------
(* The SPI interrupt, with the handlers the event goes through: sdc_handler*)
(* and block_dev_handler.                                                  *)
SpiIrq ==
  /\ ~fault
  /\ \E r \in Answers : SpiHandler(r)
  /\ IF evt' = NoEvent
     THEN UNCHANGED <<busy, last>>
     ELSE busy' = FALSE /\ last' = (evt'.result = "success")
  /\ UNCHANGED <<pc, retries, noinit, active, callVars>>

SystemReset ==
  /\ m_cb' = ClearedCb /\ spi' = "off" /\ fault' = FALSE /\ evt' = NoEvent
  /\ pc' = Idle
  /\ retries' = 0
  /\ noinit' = TRUE /\ busy' = FALSE /\ last' = TRUE
  /\ active' = FALSE
  /\ ios' = 0 /\ ret' = "none" /\ began' = 0 /\ doomed' = FALSE

Thread ==
  \/ AlreadyUp \/ BeginInit \/ Unwind \/ EndInit \/ NoDisk
  \/ \E n \in 1 .. MaxBlocks : Request(n)
  \/ EndRequest \/ FatFsOk \/ FatFsFail

Next == SdWrite \/ Thread \/ SpiIrq \/ SystemReset

(* The thread runs, an SPI transfer ends.                                  *)
Fairness == WF_vars(Thread) /\ WF_vars(SpiIrq)

Spec == Init /\ [][Next]_vars
FairSpec == Spec /\ Fairness

----------------------------------------------------------------------------
(* Properties.                                                             *)

(* The four layers agree on who owns the card, at every point where one    *)
(* relies on another: a free block device has a driver that is off, so     *)
(* app_sdc_init is never refused; no request is made while an operation    *)
(* is in progress; an event always finds the device it is passed on to     *)
(* (sdc_handler takes m_active_sdc_dev unchecked, nrf_block_dev_sdc.c:78); *)
(* and a thread that waits for busy to fall has an interrupt to come       *)
(* (diskio_blkdev.c:118).                                                  *)
LayersAgree ==
  /\ ~active => m_cb.op = "uninit" /\ spi = "off"
  /\ pc[1] = "retry" => ~BusyCheck
  /\ pc[1] = "fatfs" => active /\ ~noinit /\ (BusyCheck => fault)
  /\ evt # NoEvent => active
  /\ Waiting /\ busy => fault \/ (spi = "xfer" /\ BusyCheck)

(* The three tries of sd_write are not three tries of the card: a failed   *)
(* try leaves the block device taken and the next one only frees it.  Yet  *)
(* a call that gives up has tried the card once, and never three times,    *)
(* unless an identification has failed half-way (sdcard.c:31).             *)
TriesReachCard ==
  /\ began <= 2
  /\ pc = Idle /\ ret = "fail" /\ noinit /\ ~Wedged => began >= 1

(* app_sdc_info_get: not NULL from SDC_OP_IDLE on.                         *)
InfoGet == m_cb.op \in {"idle", "read", "write"}

(* "Pointer to the card information structure or NULL if card is not       *)
(* initialized" (app_sdcard.h:203).  After an unanswered identification    *)
(* the card is uninitialised, its SPI off, and the operation is idle.      *)
InfoOnlyIfInitialized == InfoGet => spi # "off"

Call ==
  INSTANCE SdCall WITH
    st   <- IF fault THEN "dead"
            ELSE IF pc = Idle THEN "idle"
            ELSE IF doomed THEN "doomed" ELSE "call",
    card <- IF fault \/ Mute THEN "mute"
            ELSE IF Wedged THEN "wedged"
            ELSE IF noinit THEN "down" ELSE "up",
    ret  <- ret

(* sd_write is the call of SdCall.  It always returns or stops the program *)
(* (only on a card that went mute, diskio_blkdev.c:212); once wedged it    *)
(* fails until the next reset (nrf_block_dev_sdc.c:150, 213); and a 0 says *)
(* that a card was there, no more (sdcard.c:93).                           *)
KeepsPromise == Call!Spec
=============================================================================
