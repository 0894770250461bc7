----------------------------- MODULE AppSdcard -----------------------------
(***************************************************************************)
(* The SD card driver app_sdcard.c: a state machine run by the interrupt   *)
(* that ends each SPI transfer.  spi_handler reads the answer of the card, *)
(* resumes the protothread of the operation (identification, read, write)  *)
(* and the protothread starts the next transfer or exits with a result,    *)
(* which goes to the owner of the driver as an event.                      *)
(*                                                                         *)
(* The card is external: it may answer anything, or not at all.  The SPI   *)
(* transfers that move one block of data are one transfer here.            *)
(***************************************************************************)
EXTENDS Naturals

CONSTANTS
  MaxRetryInit,  (* SDC_MAX_RETRY_COUNT_INIT                               *)
  MaxRetry,      (* SDC_MAX_RETRY_COUNT                                    *)
  MaxBlocks      (* bound: blocks in one request                           *)

ASSUME SdcAssumption ==
  /\ MaxRetryInit \in Nat \ {0}
  /\ MaxRetry \in Nat \ {0}
  /\ MaxBlocks \in Nat \ {0}

VARIABLES
  m_cb,    (* the control block: operation, bus state, protothread         *)
  spi,     (* the SPI driver: "off", "free" or in a transfer, "xfer"       *)
  fault,   (* APP_ERROR_CHECK has stopped the program                      *)
  evt      (* the event handed to the owner's handler in the last step     *)

sdcVars == <<m_cb, spi, fault, evt>>

(* Answers to a command: nothing but 0xFF, R1 clean, R1 with the in-idle   *)
(* flag, R1 with "illegal command", R1 with another error flag.            *)
Answers == {"none", "ready", "idle", "illegal", "error"}

Tokens  == {"empty", "start", "bad"}       (* while a data block is awaited *)
Results == {"success", "silent", "timeout", "communication", "data"}

(* pt is the place the protothread yielded at, named after the transfer it *)
(* started; left, count and retry are blocks_left, block_count and         *)
(* retry_count.                                                            *)
ControlBlock ==
  [op      : {"uninit", "reset", "ident", "idle", "read", "write"},
   bus     : {"idle", "cmd", "acmd", "wait", "data"},
   pt      : {"none",
              "cmd0", "cmd0again", "cmd8", "acmd41", "acmd41poll", "cmd1", "cmd58",
              "cmd16", "cmd9",
              "rcmd", "token", "chunk", "crc", "pad", "cmd12",
              "wcmd", "cmd25", "wtoken", "wchunk", "wcrc", "wbusy", "stop", "stopbusy"},
   version : {"unknown", "mmc", "sdv2"},
   count   : 0 .. MaxBlocks,
   left    : 0 .. MaxBlocks,
   retry   : Nat]

NoEvent == [type |-> "none", result |-> "success"]

SdcTypeOK ==
  /\ m_cb \in ControlBlock
  /\ m_cb.retry <= MaxRetryInit + 1 \/ m_cb.retry <= MaxRetry + 1
  /\ spi \in {"off", "free", "xfer"}
  /\ fault \in BOOLEAN
  /\ evt \in [type : {"none", "init", "read", "write"}, result : Results]

ClearedCb ==
  [op |-> "uninit", bus |-> "idle", pt |-> "none", version |-> "unknown",
   count |-> 0, left |-> 0, retry |-> 0]

SdcInit ==
  /\ m_cb = ClearedCb
  /\ spi = "off"
  /\ fault = FALSE
  /\ evt = NoEvent

----------------------------------------------------------------------------
(* The steps a protothread is made of.  c is the control block as the      *)
(* handler has changed it so far; the transfer that has just ended leaves  *)
(* the SPI driver free.                                                    *)

Transfer(c) ==
  /\ m_cb' = c
  /\ spi' = "xfer"
  /\ evt' = NoEvent
  /\ UNCHANGED fault

(* sdc_cmd under APP_ERROR_CHECK: the bus must be idle, and the transfer   *)
(* be taken by the SPI driver, whose state is drv.                         *)
SdcCmd(c, drv, bus, at) ==
  IF c.bus = "idle" /\ drv = "free"
  THEN Transfer([c EXCEPT !.bus = bus, !.pt = at])
  ELSE /\ m_cb' = c
       /\ fault' = TRUE
       /\ evt' = NoEvent
       /\ UNCHANGED spi

Cmd(c, at)  == SdcCmd(c, "free", "cmd", at)
Acmd(c, at) == SdcCmd(c, "free", "acmd", at)

(* The protothread has exited: the operation is over, the owner is told.   *)
(* A failed identification is rolled back by app_sdc_uninit.               *)
Exit(c, result) ==
  /\ evt' = [type |-> IF c.op = "ident" THEN "init" ELSE c.op, result |-> result]
  /\ IF c.op = "ident"
     THEN IF result = "success"
          THEN m_cb' = [c EXCEPT !.op = "idle"] /\ spi' = "free"
          ELSE m_cb' = [c EXCEPT !.op = "uninit", !.bus = "idle"] /\ spi' = "off"
     ELSE /\ m_cb' = [c EXCEPT !.op = "idle", !.bus = "idle", !.count = 0, !.left = 0]
          /\ spi' = "free"
  /\ UNCHANGED fault

(* SDC_RESP_CHECK.                                                         *)
Checked(c, r, Continue) ==
  IF r \in {"illegal", "error"} THEN Exit(c, "communication") ELSE Continue

(* One more round of a wait loop, at most limit times.                     *)
Retried(c) == [c EXCEPT !.retry = @ + 1]

Again(c, limit, Round) ==
  IF Retried(c).retry > limit THEN Exit(Retried(c), "timeout") ELSE Round

----------------------------------------------------------------------------
(* sdc_pt_sub_data_read.                                                   *)

(* The search for a start token in what was received.                      *)
SearchToken(c, t) ==
  CASE t = "start" -> Transfer([c EXCEPT !.bus = "data", !.pt = "chunk"])
    [] t = "bad"   -> Exit(c, "data")
    [] t = "empty" -> Transfer([c EXCEPT !.pt = "token"])

NextBlock(c, t) == SearchToken([c EXCEPT !.retry = 1, !.bus = "wait"], t)

ReadBlocks(c) == \E t \in Tokens : NextBlock([c EXCEPT !.left = c.count], t)

SubDataRead(c) ==
  \/ /\ c.pt = "token"
     /\ \E t \in Tokens : Again(c, MaxRetry, SearchToken(Retried(c), t))
  \/ c.pt = "chunk" /\ Transfer([c EXCEPT !.left = @ - 1, !.pt = "crc"])
  \/ /\ c.pt = "crc"
     /\ IF c.left > 0 THEN NextBlock(c, "empty") ELSE Transfer([c EXCEPT !.pt = "pad"])

(* sdc_pt_identification.                                                  *)
ReadCsd(c) == Cmd([c EXCEPT !.count = 1], "cmd9")

SetBlockLength(c) == IF c.version # "sdv2" THEN Cmd(c, "cmd16") ELSE ReadCsd(c)

PollAcmd41(c, r) ==
  IF r = "idle"
  THEN Again(c, MaxRetryInit, Acmd(Retried(c), "acmd41poll"))
  ELSE Cmd(c, "cmd58")

PollCmd1(c) == Again(c, MaxRetryInit, Cmd(Retried(c), "cmd1"))

Identification(c, r) ==
  \/ c.pt = "cmd0" /\ Cmd(c, "cmd0again")
  \/ c.pt = "cmd0again" /\ Checked(c, r, Cmd(c, "cmd8"))
  \/ /\ c.pt = "cmd8"
     /\ LET v2 == [c EXCEPT !.version = "sdv2"] IN
          IF r = "illegal"
          THEN Acmd([c EXCEPT !.retry = 0], "acmd41")
          ELSE Checked(v2, r, Acmd([v2 EXCEPT !.retry = 0], "acmd41"))
  \/ /\ c.pt = "acmd41"
     /\ IF r = "illegal"
        THEN PollCmd1([c EXCEPT !.version = "mmc"])
        ELSE Checked(c, r, PollAcmd41(c, r))
  \/ c.pt = "acmd41poll" /\ Checked(c, r, PollAcmd41(c, r))
  \/ c.pt = "cmd1" /\ Checked(c, r, IF r = "idle" THEN PollCmd1(c) ELSE SetBlockLength(c))
  \/ c.pt = "cmd58" /\ Checked(c, r, SetBlockLength(c))
  \/ c.pt = "cmd16" /\ Checked(c, r, ReadCsd(c))
  \/ c.pt = "cmd9" /\ Checked(c, r, ReadBlocks(c))
  \/ SubDataRead(c)
  \/ c.pt = "pad" /\ Exit([c EXCEPT !.bus = "idle"], "success")

(* sdc_pt_read.                                                            *)
Read(c, r) ==
  \/ c.pt = "rcmd" /\ Checked(c, r, ReadBlocks(c))
  \/ SubDataRead(c)
  \/ /\ c.pt = "pad"
     /\ LET d == [c EXCEPT !.bus = "idle"] IN
          IF c.count > 1 THEN Cmd(d, "cmd12") ELSE Exit(d, "success")
  \/ c.pt = "cmd12" /\ Exit(c, "success")

(* sdc_pt_write.                                                           *)
StartBlock(c) == Transfer([c EXCEPT !.bus = "data", !.pt = "wtoken"])

WriteBlocks(c) == StartBlock([c EXCEPT !.left = c.count])

BusyWait(c, at) == Again(c, MaxRetry, Transfer([Retried(c) EXCEPT !.pt = at]))

(* Mutation of BlockStored: one block too many.                            *)
BlockStoredOneMore(c) ==
  IF c.left >= 0 THEN StartBlock(c)
  ELSE IF c.count > 1 THEN Transfer([c EXCEPT !.pt = "stop"])
  ELSE Exit(c, "success")

(* What follows a block the card has stored.                               *)
BlockStored(c) ==
  IF c.left > 0 THEN StartBlock(c)
  ELSE IF c.count > 1 THEN Transfer([c EXCEPT !.pt = "stop"])
  ELSE Exit(c, "success")

Write(c, r) ==
  \/ /\ c.pt = "wcmd"
     /\ Checked(c, r, IF c.version # "mmc" /\ c.count > 1 THEN Cmd(c, "cmd25") ELSE WriteBlocks(c))
  \/ c.pt = "cmd25" /\ Checked(c, r, WriteBlocks(c))
  \/ c.pt = "wtoken" /\ Transfer([c EXCEPT !.pt = "wchunk"])
  \/ c.pt = "wchunk" /\ Transfer([c EXCEPT !.bus = "wait", !.pt = "wcrc"])
  \/ /\ c.pt = "wcrc"
     /\ \/ BusyWait([c EXCEPT !.retry = 0], "wbusy")
        \/ \E e \in {"data", "communication"} : Exit(c, e)
  \/ /\ c.pt = "wbusy"
     /\ \/ BusyWait(c, "wbusy")
        \/ BlockStored([c EXCEPT !.bus = "idle", !.left = @ - 1])
  \/ c.pt = "stop" /\ BusyWait([c EXCEPT !.bus = "wait", !.retry = 0], "stopbusy")
  \/ /\ c.pt = "stopbusy"
     /\ BusyWait(c, "stopbusy") \/ Exit([c EXCEPT !.bus = "idle"], "success")

----------------------------------------------------------------------------
(* spi_handler.                                                            *)

InCommand == m_cb.bus \in {"cmd", "acmd"}

(* Mutation of NoResponse: the owner is not told.                          *)
NoResponseUntold ==
  /\ InCommand /\ m_cb.pt # "cmd12"
  /\ evt' = NoEvent
  /\ m_cb' = [m_cb EXCEPT !.op = "idle", !.bus = "idle"]
  /\ spi' = IF m_cb.op = "ident" THEN "off" ELSE "free"
  /\ UNCHANGED fault

(* Command response missing.  An identification is rolled back by          *)
(* app_sdc_uninit, and then the operation is set to idle all the same; for *)
(* a read or a write the bus state stays that of the command.              *)
NoResponse ==
  /\ InCommand /\ m_cb.pt # "cmd12"
  /\ evt' = [type |-> IF m_cb.op = "ident" THEN "init" ELSE m_cb.op, result |-> "silent"]
  /\ IF m_cb.op = "ident"
     THEN m_cb' = [m_cb EXCEPT !.op = "idle", !.bus = "idle"] /\ spi' = "off"
     ELSE m_cb' = [m_cb EXCEPT !.op = "idle"] /\ spi' = "free"
  /\ UNCHANGED fault

(* CMD55 was accepted: the application command itself follows.             *)
AcmdBody == Transfer([m_cb EXCEPT !.bus = "cmd"])

(* The protothread of the operation is scheduled; after the clocks of the  *)
(* reset it is the identification that starts.                             *)
Schedule(c, r) ==
  \/ c.op = "reset" /\ Cmd([c EXCEPT !.op = "ident"], "cmd0")
  \/ c.op = "ident" /\ Identification(c, r)
  \/ c.op = "read" /\ Read(c, r)
  \/ c.op = "write" /\ Write(c, r)

SpiHandler(r) ==
  /\ spi = "xfer"
  /\ IF ~InCommand THEN r = "ready" /\ Schedule(m_cb, r)
     ELSE IF r = "none" /\ m_cb.pt # "cmd12" THEN NoResponse
     ELSE IF m_cb.bus = "acmd" /\ r \in {"ready", "idle"} THEN AcmdBody
     ELSE Schedule([m_cb EXCEPT !.bus = "idle"], r)

----------------------------------------------------------------------------
(* The calls of the owner.                                                 *)

BusyCheck == m_cb.op \notin {"idle", "uninit"}      (* app_sdc_busy_check  *)

(* app_sdc_init with the card uninitialised: 80 clocks, no command yet.    *)
AppSdcInit ==
  IF spi = "off"
  THEN Transfer([m_cb EXCEPT !.op = "reset", !.bus = "idle", !.version = "unknown"])
  ELSE fault' = TRUE /\ evt' = NoEvent /\ UNCHANGED <<m_cb, spi>>

(* app_sdc_uninit with the card idle.                                      *)
AppSdcUninit ==
  /\ m_cb' = [m_cb EXCEPT !.op = "uninit", !.bus = "idle"]
  /\ spi' = "off"
  /\ evt' = NoEvent
  /\ UNCHANGED fault

(* app_sdc_block_read and app_sdc_block_write with the card idle.          *)
BlockRead(n) ==
  SdcCmd([m_cb EXCEPT !.op = "read", !.count = n, !.left = n], spi, "cmd", "rcmd")

BlockWrite(n) ==
  SdcCmd([m_cb EXCEPT !.op = "write", !.count = n, !.left = n], spi,
         IF n > 1 /\ m_cb.version # "mmc" THEN "acmd" ELSE "cmd", "wcmd")
=============================================================================
