---------------------------- MODULE SdCard_proofs ----------------------------
(***************************************************************************)
(* Proofs about SdCard, for every limit of the wait loops, every size of a *)
(* request and every number of requests FatFs makes.                       *)
(*                                                                         *)
(* The argument has two halves.  Of the driver, Running says what holds    *)
(* of the control block while a transfer is on its way; from it follows    *)
(* that the interrupt never meets an APP_ERROR_CHECK and ends an operation *)
(* in one of a few ways (HandlerStep).  Of the layers above, Owners says   *)
(* who has the card at each place the thread may stand.                    *)
(***************************************************************************)
EXTENDS SdCard, TLAPS

(* The transfers that carry a command: only these have an answer.          *)
CmdPts == {"cmd0", "cmd0again", "cmd8", "acmd41", "acmd41poll", "cmd1", "cmd58", "cmd16", "cmd9",
           "rcmd", "cmd12", "wcmd", "cmd25"}

(* What the protothread has in hand at the transfer it waits for.          *)
InHand(c) ==
  /\ c.pt \in {"token", "chunk", "wtoken", "wchunk", "wcrc", "wbusy"} => c.left >= 1
  /\ c.pt \in {"rcmd", "wcmd", "cmd25", "cmd9"} => c.count >= 1
  /\ c.pt \in {"acmd41", "acmd41poll", "cmd1"} => c.retry <= MaxRetryInit
  /\ c.pt \in {"token", "wbusy", "stopbusy"} => c.retry <= MaxRetry

Block(c) ==
  /\ c \in ControlBlock
  /\ c.retry <= MaxRetryInit + 1 \/ c.retry <= MaxRetry + 1

(* A transfer is on its way.                                               *)
Running(c) ==
  /\ Block(c)
  /\ c.op \in {"reset", "ident", "read", "write"}
  /\ IF c.op = "reset" THEN c.bus = "idle"
     ELSE InHand(c) /\ (c.bus \in {"cmd", "acmd"} <=> c.pt \in CmdPts)

(* It has ended and the protothread is about to go on.                     *)
Ready(c) ==
  /\ Block(c)
  /\ c.op \in {"reset", "ident", "read", "write"}
  /\ c.bus \notin {"cmd", "acmd"}
  /\ c.op = "reset" \/ c.pt \in CmdPts => c.bus = "idle"
  /\ c.op # "reset" => InHand(c)

Sdc == spi = "xfer" => Running(m_cb)

----------------------------------------------------------------------------
(* Who has the card, by where the thread stands.                           *)

Standing ==
  /\ pc[1] = "idle" => pc = Idle
  /\ fault => pc[1] = "iowait" /\ busy
  /\ pc[1] = "initwait" => active /\ noinit
  /\ pc[1] \in {"fatfs", "iowait"} => active /\ ~noinit
  /\ ~active => noinit /\ m_cb.op = "uninit" /\ spi = "off"
  /\ evt # NoEvent => active

(* Nothing is under way.                                                   *)
Quiet ==
  /\ ~BusyCheck /\ spi # "xfer"
  /\ ~noinit => m_cb.op = "idle" /\ spi = "free"

Rest == ~Waiting \/ ~busy => Quiet /\ (noinit /\ pc[1] # "initwait" => spi = "off")

Identifying ==
  pc[1] = "initwait" =>
    IF busy THEN spi = "xfer" /\ m_cb.op \in {"reset", "ident"}
    ELSE IF last THEN m_cb.op = "idle" /\ m_cb.bus = "idle" /\ spi = "free"
    ELSE spi = "off"

Transferring ==
  pc[1] = "iowait" /\ busy /\ ~fault => spi = "xfer" /\ m_cb.op \in {"read", "write"}

(* A call made to a mute card stops the program at its first request.      *)
Doom ==
  doomed =>
    /\ ~noinit
    /\ pc # Idle /\ ~fault => Mute /\ ios = 0 /\ pc[1] \in {"retry", "fatfs"}

Owners == Standing /\ Rest /\ Identifying /\ Transferring /\ Doom

(* How often the card has been tried, against the tries that are left.     *)
Tries ==
  /\ began <= 2
  /\ pc[1] = "initwait" => 2 * began + retries <= 5 /\ retries >= 1 /\ began >= 1
  /\ pc[1] = "retry" /\ noinit =>
       /\ 2 * began + retries <= IF active THEN 4 ELSE 3
       /\ began = 0 /\ ~Wedged => retries >= IF active THEN 3 ELSE 2
  /\ ret # "none" => pc = Idle
  /\ pc = Idle /\ ret = "fail" /\ noinit /\ ~Wedged => began >= 1

SdInv == TypeOK /\ Sdc /\ Owners /\ Tries

----------------------------------------------------------------------------
(* The steps a protothread is made of.                                     *)

(* An operation that has ended, as its owner finds the driver.             *)
Ended(op) ==
  /\ Block(m_cb')
  /\ evt' \in [type : {"init", "read", "write"}, result : Results]
  /\ IF op = "ident"
     THEN \/ m_cb'.op = "idle" /\ m_cb'.bus = "idle" /\ spi' = "free" /\ evt'.result = "success"
          \/ m_cb'.op \in {"idle", "uninit"} /\ spi' = "off" /\ evt'.result # "success"
     ELSE m_cb'.op = "idle" /\ spi' = "free"

(* What the interrupt does of an operation: go on, or end it.              *)
Outcome(op) ==
  /\ fault' = fault
  /\ \/ spi' = "xfer" /\ Running(m_cb') /\ m_cb'.op = op /\ evt' = NoEvent
     \/ Ended(op)

Operations == {"ident", "read", "write"}

LEMMA Sends ==
  ASSUME NEW c, Running(c), Transfer(c)
  PROVE  Outcome(c.op)
  BY DEF Transfer, Outcome

LEMMA Commands ==
  ASSUME NEW c, Block(c), c.op \in Operations, c.bus = "idle",
         NEW at \in CmdPts, NEW bus \in {"cmd", "acmd"},
         at \in {"rcmd", "wcmd", "cmd25", "cmd9"} => c.count >= 1,
         at \in {"acmd41", "acmd41poll", "cmd1"} => c.retry <= MaxRetryInit,
         SdcCmd(c, "free", bus, at)
  PROVE  Outcome(c.op)
<1> DEFINE d == [c EXCEPT !.bus = bus, !.pt = at]
<1>1. /\ d \in ControlBlock /\ d.op = c.op /\ d.bus = bus /\ d.pt = at
      /\ d.count = c.count /\ d.retry = c.retry /\ Transfer(d)
  BY ZenonT(40) DEF Block, ControlBlock, CmdPts, SdcCmd
<1> HIDE DEF d
<1>2. Running(d)
  BY <1>1 DEF Running, Block, InHand, CmdPts, Operations
<1> QED
  BY <1>1, <1>2, Sends

LEMMA Exits ==
  ASSUME NEW c, Block(c), c.op \in Operations, NEW result \in Results,
         c.op = "ident" /\ result = "success" => c.bus = "idle",
         Exit(c, result)
  PROVE  Outcome(c.op)
<1>1. fault' = fault
  BY DEF Exit
<1>2. /\ evt' \in [type : {"init", "read", "write"}, result : Results]
      /\ evt'.result = result
  BY DEF Exit, Operations
<1>3. Block(m_cb')
  <2>1. CASE c.op = "ident"
    BY <2>1, ZenonT(40) DEF Exit, Block, ControlBlock
  <2>2. CASE c.op # "ident"
    <3> DEFINE d == [c EXCEPT !.op = "idle", !.bus = "idle", !.count = 0, !.left = 0]
    <3>1. 0 \in 0 .. MaxBlocks
      BY SdcAssumption
    <3>2. d \in ControlBlock /\ d.retry = c.retry
      BY <3>1 DEF Block, ControlBlock
    <3>3. m_cb' = d
      BY <2>2 DEF Exit
    <3> QED
      BY <3>2, <3>3 DEF Block
  <2> QED
    BY <2>1, <2>2
<1>4. CASE c.op = "ident"
  <2>1. \/ m_cb'.op = "idle" /\ m_cb'.bus = c.bus /\ spi' = "free" /\ result = "success"
        \/ m_cb'.op = "uninit" /\ spi' = "off" /\ result # "success"
    BY <1>4 DEF Exit, Block, ControlBlock
  <2> QED
    BY <1>1, <1>2, <1>3, <1>4, <2>1 DEF Outcome, Ended
<1>5. CASE c.op # "ident"
  <2>1. m_cb'.op = "idle" /\ spi' = "free"
    BY <1>5 DEF Exit, Block, ControlBlock
  <2> QED
    BY <1>1, <1>2, <1>3, <1>5, <2>1 DEF Outcome, Ended
<1> QED
  BY <1>4, <1>5

LEMMA Fails ==
  ASSUME NEW c, Block(c), c.op \in Operations, NEW e \in Results \ {"success"}, Exit(c, e)
  PROVE  Outcome(c.op)
  BY Exits

(* A round of a wait loop that may be made leaves the count within bounds. *)
LEMMA Counted ==
  ASSUME NEW c, Block(c), NEW limit \in {MaxRetryInit, MaxRetry}, c.retry <= limit
  PROVE  /\ Block(Retried(c)) /\ Retried(c).retry = c.retry + 1
         /\ Retried(c).op = c.op /\ Retried(c).bus = c.bus /\ Retried(c).pt = c.pt
         /\ Retried(c).count = c.count /\ Retried(c).left = c.left
         /\ Retried(c).version = c.version
  BY SdcAssumption DEF Block, ControlBlock, Retried

----------------------------------------------------------------------------
(* sdc_pt_sub_data_read.                                                   *)

LEMMA Searches ==
  ASSUME NEW c, Block(c), c.op \in Operations, c.bus \notin {"cmd", "acmd"}, c.left >= 1,
         c.retry <= MaxRetry, NEW t \in Tokens, SearchToken(c, t)
  PROVE  Outcome(c.op)
<1>1. CASE t = "start"
  <2> DEFINE d == [c EXCEPT !.bus = "data", !.pt = "chunk"]
  <2>1. /\ d \in ControlBlock /\ d.op = c.op /\ d.bus = "data" /\ d.pt = "chunk"
        /\ d.left = c.left /\ d.retry = c.retry /\ Transfer(d)
    BY <1>1 DEF SearchToken, Block, ControlBlock
  <2> HIDE DEF d
  <2>2. Running(d)
    BY <2>1 DEF Running, Block, InHand, CmdPts, Operations
  <2> QED
    BY <2>1, <2>2, Sends
<1>2. CASE t = "bad"
  BY <1>2, Fails DEF SearchToken, Results
<1>3. CASE t = "empty"
  <2> DEFINE d == [c EXCEPT !.pt = "token"]
  <2>1. /\ d \in ControlBlock /\ d.op = c.op /\ d.bus = c.bus /\ d.pt = "token"
        /\ d.left = c.left /\ d.retry = c.retry /\ Transfer(d)
    BY <1>3 DEF SearchToken, Block, ControlBlock
  <2> HIDE DEF d
  <2>2. Running(d)
    BY <2>1 DEF Running, Block, InHand, CmdPts, Operations
  <2> QED
    BY <2>1, <2>2, Sends
<1> QED
  BY <1>1, <1>2, <1>3 DEF Tokens

LEMMA NextBlocks ==
  ASSUME NEW c, Block(c), c.op \in Operations, c.left >= 1, NEW t \in Tokens, NextBlock(c, t)
  PROVE  Outcome(c.op)
<1> DEFINE d == [c EXCEPT !.retry = 1, !.bus = "wait"]
<1>1. /\ d \in ControlBlock /\ d.op = c.op /\ d.bus = "wait" /\ d.left = c.left /\ d.retry = 1
      /\ SearchToken(d, t)
  BY DEF NextBlock, Block, ControlBlock
<1> HIDE DEF d
<1>2. Block(d) /\ d.retry <= MaxRetry
  BY <1>1, SdcAssumption DEF Block
<1> QED
  BY <1>1, <1>2, Searches

LEMMA ReadsBlocks ==
  ASSUME NEW c, Block(c), c.op \in Operations, c.count >= 1, ReadBlocks(c)
  PROVE  Outcome(c.op)
<1> DEFINE d == [c EXCEPT !.left = c.count]
<1>1. /\ d \in ControlBlock /\ d.op = c.op /\ d.left = c.count /\ d.retry = c.retry
      /\ \E t \in Tokens : NextBlock(d, t)
  BY DEF ReadBlocks, Block, ControlBlock
<1> HIDE DEF d
<1>2. Block(d) /\ d.left >= 1
  BY <1>1 DEF Block
<1> QED
  BY <1>1, <1>2, NextBlocks

LEMMA SubReads ==
  ASSUME NEW c, Ready(c), c.op \in Operations, SubDataRead(c)
  PROVE  Outcome(c.op)
<1>a. Block(c) /\ InHand(c)
  BY DEF Ready, Operations
<1>1. ASSUME c.pt = "token", NEW t \in Tokens, Again(c, MaxRetry, SearchToken(Retried(c), t))
      PROVE  Outcome(c.op)
  <2> DEFINE d == Retried(c)
  <2>1. /\ Block(d) /\ d.op = c.op /\ d.left >= 1 /\ d.bus \notin {"cmd", "acmd"}
        /\ c.retry <= MaxRetry
    BY <1>1, <1>a, Counted DEF InHand, Ready
  <2>2. CASE d.retry > MaxRetry
    BY <1>1, <2>1, <2>2, Fails DEF Again, Results
  <2>3. CASE ~(d.retry > MaxRetry)
    <3>1. SearchToken(d, t) /\ d.retry <= MaxRetry
      BY <1>1, <2>1, <2>3, SdcAssumption DEF Again, Block, ControlBlock
    <3> QED
      BY <2>1, <2>3, <3>1, Searches
  <2> QED
    BY <2>2, <2>3
<1>2. CASE c.pt = "chunk" /\ Transfer([c EXCEPT !.left = @ - 1, !.pt = "crc"])
  <2> DEFINE d == [c EXCEPT !.left = @ - 1, !.pt = "crc"]
  <2>a. c.left - 1 \in 0 .. MaxBlocks
    BY <1>2, <1>a, SdcAssumption DEF Block, ControlBlock, InHand
  <2>1. /\ d \in ControlBlock /\ d.op = c.op /\ d.bus = c.bus /\ d.pt = "crc"
        /\ d.retry = c.retry /\ Transfer(d)
    BY <1>2, <1>a, <2>a DEF Block, ControlBlock
  <2> HIDE DEF d
  <2>2. Running(d)
    BY <1>a, <2>1 DEF Ready, Running, Block, InHand, CmdPts, Operations
  <2> QED
    BY <2>1, <2>2, Sends
<1>3. CASE /\ c.pt = "crc"
           /\ IF c.left > 0 THEN NextBlock(c, "empty") ELSE Transfer([c EXCEPT !.pt = "pad"])
  <2>1. CASE c.left > 0
    BY <1>a, <1>3, <2>1, NextBlocks DEF Tokens, Block, ControlBlock
  <2>2. CASE ~(c.left > 0)
    <3> DEFINE d == [c EXCEPT !.pt = "pad"]
    <3>1. /\ d \in ControlBlock /\ d.op = c.op /\ d.bus = c.bus /\ d.pt = "pad"
          /\ d.retry = c.retry /\ Transfer(d)
      BY <1>3, <1>a, <2>2 DEF Block, ControlBlock
    <3> HIDE DEF d
    <3>2. Running(d)
      BY <1>a, <3>1 DEF Ready, Running, Block, InHand, CmdPts, Operations
    <3> QED
      BY <3>1, <3>2, Sends
  <2> QED
    BY <2>1, <2>2
<1> QED
  BY <1>1, <1>2, <1>3 DEF SubDataRead

----------------------------------------------------------------------------
(* sdc_pt_identification.                                                  *)

Idling(c) == Block(c) /\ c.op \in Operations /\ c.bus = "idle"

LEMMA SetsLength ==
  ASSUME NEW c, Idling(c), ReadCsd(c) \/ SetBlockLength(c)
  PROVE  Outcome(c.op)
<1>1. CASE ReadCsd(c)
  <2> DEFINE d == [c EXCEPT !.count = 1]
  <2>1. 1 \in 0 .. MaxBlocks
    BY SdcAssumption
  <2>2. /\ d \in ControlBlock /\ d.op = c.op /\ d.bus = c.bus /\ d.count = 1 /\ d.retry = c.retry
        /\ Cmd(d, "cmd9")
    BY <1>1, <2>1 DEF ReadCsd, Idling, Block, ControlBlock
  <2> HIDE DEF d
  <2> QED
    BY <2>2, Commands DEF Cmd, CmdPts, Idling, Block
<1>2. CASE SetBlockLength(c) /\ ~ReadCsd(c)
  BY <1>2, Commands DEF SetBlockLength, Cmd, CmdPts, Idling, Block, ControlBlock
<1> QED
  BY <1>1, <1>2

LEMMA Polls ==
  ASSUME NEW c, Idling(c), c.retry <= MaxRetryInit, NEW r, PollAcmd41(c, r) \/ PollCmd1(c)
  PROVE  Outcome(c.op)
<1> DEFINE d == Retried(c)
<1>1. Idling(d) /\ d.op = c.op
  BY Counted DEF Idling
<1>2. CASE PollAcmd41(c, r) /\ r # "idle"
  BY <1>2, Commands DEF PollAcmd41, Cmd, CmdPts, Idling
<1>3. CASE Exit(d, "timeout")
  BY <1>1, <1>3, Fails DEF Idling, Results
<1>4. CASE ~(d.retry > MaxRetryInit) /\ (Acmd(d, "acmd41poll") \/ Cmd(d, "cmd1"))
  <2>1. d.retry <= MaxRetryInit
    BY <1>1, <1>4, SdcAssumption DEF Idling, Block, ControlBlock
  <2> QED
    BY <1>1, <1>4, <2>1, Commands DEF Acmd, Cmd, CmdPts, Idling
<1> QED
  BY <1>2, <1>3, <1>4 DEF PollAcmd41, PollCmd1, Again

LEMMA Identifies ==
  ASSUME NEW c, Ready(c), c.op = "ident", NEW r \in Answers, Identification(c, r)
  PROVE  Outcome("ident")
<1>a. Block(c) /\ InHand(c)
  BY DEF Ready
<1>b. c.pt \in CmdPts => Idling(c)
  BY DEF Ready, Idling, Operations
<1>c. ASSUME Exit(c, "communication") PROVE Outcome("ident")
  BY <1>a, <1>c, Fails DEF Operations, Results
<1>1. CASE c.pt = "cmd0" /\ Cmd(c, "cmd0again")
  BY <1>b, <1>1, Commands DEF Cmd, CmdPts, Idling
<1>2. CASE c.pt = "cmd0again" /\ Checked(c, r, Cmd(c, "cmd8"))
  BY <1>b, <1>c, <1>2, Commands DEF Checked, Cmd, CmdPts, Idling
<1>3. CASE /\ c.pt = "cmd8"
           /\ LET v2 == [c EXCEPT !.version = "sdv2"] IN
                IF r = "illegal"
                THEN Acmd([c EXCEPT !.retry = 0], "acmd41")
                ELSE Checked(v2, r, Acmd([v2 EXCEPT !.retry = 0], "acmd41"))
  <2>1. CASE r = "illegal"
    <3> DEFINE d == [c EXCEPT !.retry = 0]
    <3>1. /\ d \in ControlBlock /\ d.op = c.op /\ d.bus = c.bus /\ d.retry = 0
          /\ Acmd(d, "acmd41")
      BY <1>a, <1>3, <2>1 DEF Block, ControlBlock
    <3> HIDE DEF d
    <3> QED
      BY <1>b, <1>3, <3>1, Commands, SdcAssumption DEF Acmd, CmdPts, Idling, Block
  <2>2. CASE r = "error"
    <3> DEFINE d == [c EXCEPT !.version = "sdv2"]
    <3>1. d \in ControlBlock /\ d.op = c.op /\ d.retry = c.retry /\ Exit(d, "communication")
      BY <1>a, <1>3, <2>2 DEF Checked, Block, ControlBlock
    <3> HIDE DEF d
    <3> QED
      BY <1>a, <3>1, Fails DEF Block, Operations, Results
  <2>3. CASE r \notin {"illegal", "error"}
    <3> DEFINE d == [[c EXCEPT !.version = "sdv2"] EXCEPT !.retry = 0]
    <3>1. /\ d \in ControlBlock /\ d.op = c.op /\ d.bus = c.bus /\ d.retry = 0
          /\ Acmd(d, "acmd41")
      BY <1>a, <1>3, <2>3 DEF Checked, Block, ControlBlock
    <3> HIDE DEF d
    <3> QED
      BY <1>b, <1>3, <3>1, Commands, SdcAssumption DEF Acmd, CmdPts, Idling, Block
  <2> QED
    BY <2>1, <2>2, <2>3
<1>4. CASE /\ c.pt = "acmd41"
           /\ IF r = "illegal"
              THEN PollCmd1([c EXCEPT !.version = "mmc"])
              ELSE Checked(c, r, PollAcmd41(c, r))
  <2>1. CASE r = "illegal"
    <3> DEFINE d == [c EXCEPT !.version = "mmc"]
    <3>1. /\ d \in ControlBlock /\ d.op = c.op /\ d.bus = c.bus /\ d.retry = c.retry
          /\ PollCmd1(d)
      BY <1>a, <1>4, <2>1 DEF Block, ControlBlock
    <3> HIDE DEF d
    <3> QED
      BY <1>a, <1>b, <1>4, <3>1, Polls DEF CmdPts, Idling, Block, InHand
  <2>2. CASE r # "illegal"
    BY <1>a, <1>b, <1>c, <1>4, <2>2, Polls DEF Checked, CmdPts, InHand
  <2> QED
    BY <2>1, <2>2
<1>5. CASE c.pt = "acmd41poll" /\ Checked(c, r, PollAcmd41(c, r))
  BY <1>a, <1>b, <1>c, <1>5, Polls DEF Checked, CmdPts, InHand
<1>6. CASE c.pt = "cmd1" /\ Checked(c, r, IF r = "idle" THEN PollCmd1(c) ELSE SetBlockLength(c))
  BY <1>a, <1>b, <1>c, <1>6, Polls, SetsLength DEF Checked, CmdPts, InHand
<1>7. CASE c.pt = "cmd58" /\ Checked(c, r, SetBlockLength(c))
  BY <1>b, <1>c, <1>7, SetsLength DEF Checked, CmdPts
<1>8. CASE c.pt = "cmd16" /\ Checked(c, r, ReadCsd(c))
  BY <1>b, <1>c, <1>8, SetsLength DEF Checked, CmdPts
<1>9. CASE c.pt = "cmd9" /\ Checked(c, r, ReadBlocks(c))
  BY <1>a, <1>c, <1>9, ReadsBlocks DEF Checked, InHand, Operations
<1>10. CASE SubDataRead(c)
  BY <1>10, SubReads DEF Operations
<1>11. CASE c.pt = "pad" /\ Exit([c EXCEPT !.bus = "idle"], "success")
  <2> DEFINE d == [c EXCEPT !.bus = "idle"]
  <2>1. /\ d \in ControlBlock /\ d.op = c.op /\ d.bus = "idle" /\ d.retry = c.retry
        /\ Exit(d, "success")
    BY <1>a, <1>11 DEF Block, ControlBlock
  <2> HIDE DEF d
  <2> QED
    BY <1>a, <2>1, Exits DEF Block, Operations, Results
<1> QED
  BY <1>1, <1>2, <1>3, <1>4, <1>5, <1>6, <1>7, <1>8, <1>9, <1>10, <1>11 DEF Identification

----------------------------------------------------------------------------
(* sdc_pt_read and sdc_pt_write.                                           *)

LEMMA Reads ==
  ASSUME NEW c, Ready(c), c.op = "read", NEW r \in Answers, Read(c, r)
  PROVE  Outcome("read")
<1>a. Block(c) /\ InHand(c) /\ c.op \in Operations
  BY DEF Ready, Operations
<1>1. CASE c.pt = "rcmd" /\ Checked(c, r, ReadBlocks(c))
  BY <1>a, <1>1, ReadsBlocks, Fails DEF Checked, InHand, Results
<1>2. CASE SubDataRead(c)
  BY <1>a, <1>2, SubReads
<1>3. CASE /\ c.pt = "pad"
           /\ LET d == [c EXCEPT !.bus = "idle"] IN
                IF c.count > 1 THEN Cmd(d, "cmd12") ELSE Exit(d, "success")
  <2> DEFINE d == [c EXCEPT !.bus = "idle"]
  <2>1. /\ d \in ControlBlock /\ d.op = "read" /\ d.bus = "idle" /\ d.retry = c.retry
        /\ Cmd(d, "cmd12") \/ Exit(d, "success")
    BY <1>a, <1>3 DEF Block, ControlBlock
  <2> HIDE DEF d
  <2>2. Block(d)
    BY <1>a, <2>1 DEF Block
  <2>3. CASE Cmd(d, "cmd12")
    BY <2>1, <2>2, <2>3, Commands DEF Cmd, CmdPts, Operations
  <2>4. CASE Exit(d, "success")
    BY <2>1, <2>2, <2>4, Exits DEF Operations, Results
  <2> QED
    BY <2>1, <2>3, <2>4
<1>4. CASE c.pt = "cmd12" /\ Exit(c, "success")
  BY <1>a, <1>4, Exits DEF Results
<1> QED
  BY <1>1, <1>2, <1>3, <1>4 DEF Read

(* A transfer other than a command.                                        *)
LEMMA SendsBlock ==
  ASSUME NEW c, Block(c), c.op = "write", NEW bus \in {"idle", "wait", "data"},
         NEW at \in {"wtoken", "wchunk", "wcrc", "wbusy", "stop", "stopbusy"},
         at \in {"wtoken", "wchunk", "wcrc", "wbusy"} => c.left >= 1,
         at \in {"wbusy", "stopbusy"} => c.retry <= MaxRetry,
         Transfer([c EXCEPT !.bus = bus, !.pt = at])
  PROVE  Outcome("write")
<1> DEFINE d == [c EXCEPT !.bus = bus, !.pt = at]
<1>1. /\ d \in ControlBlock /\ d.op = "write" /\ d.bus = bus /\ d.pt = at
      /\ d.left = c.left /\ d.retry = c.retry /\ Transfer(d)
  BY DEF Block, ControlBlock
<1> HIDE DEF d
<1>2. Running(d)
  BY <1>1 DEF Running, Block, InHand, CmdPts
<1> QED
  BY <1>1, <1>2, Sends

LEMMA StartsBlock ==
  ASSUME NEW c, Block(c), c.op = "write", c.left >= 1, StartBlock(c)
  PROVE  Outcome("write")
  BY SendsBlock DEF StartBlock

LEMMA WritesBlocks ==
  ASSUME NEW c, Block(c), c.op = "write", c.count >= 1, WriteBlocks(c)
  PROVE  Outcome("write")
<1> DEFINE d == [c EXCEPT !.left = c.count]
<1>1. /\ d \in ControlBlock /\ d.op = c.op /\ d.left = c.count /\ d.retry = c.retry
      /\ StartBlock(d)
  BY DEF WriteBlocks, Block, ControlBlock
<1> HIDE DEF d
<1> QED
  BY <1>1, StartsBlock DEF Block

LEMMA BusyWaits ==
  ASSUME NEW c, Block(c), c.op = "write", c.bus \notin {"cmd", "acmd"}, c.retry <= MaxRetry,
         NEW at \in {"wbusy", "stopbusy"}, at = "wbusy" => c.left >= 1,
         BusyWait(c, at)
  PROVE  Outcome("write")
<1>1. PICK e : e = Retried(c)
  OBVIOUS
<1>2. /\ Block(e) /\ e.retry = c.retry + 1 /\ e.op = c.op /\ e.bus = c.bus /\ e.left = c.left
  BY <1>1, Counted
<1>3. IF e.retry > MaxRetry THEN Exit(e, "timeout") ELSE Transfer([e EXCEPT !.pt = at])
  BY <1>1 DEF BusyWait, Again
<1>4. CASE e.retry > MaxRetry
  BY <1>2, <1>3, <1>4, Fails DEF Operations, Results
<1>5. CASE ~(e.retry > MaxRetry)
  <2> DEFINE d == [e EXCEPT !.pt = at]
  <2>1. /\ d \in ControlBlock /\ d.op = "write" /\ d.bus = c.bus /\ d.pt = at
        /\ d.left = c.left /\ d.retry = e.retry /\ Transfer(d)
    BY <1>2, <1>3, <1>5 DEF Block, ControlBlock
  <2>2. e.retry <= MaxRetry
    BY <1>2, <1>5, SdcAssumption DEF Block, ControlBlock
  <2> HIDE DEF d
  <2>3. Running(d)
    BY <1>2, <2>1, <2>2 DEF Running, Block, InHand, CmdPts
  <2> QED
    BY <2>1, <2>3, Sends
<1> QED
  BY <1>4, <1>5

LEMMA BlocksStored ==
  ASSUME NEW c, Block(c), c.op = "write", c.bus = "idle", BlockStored(c)
  PROVE  Outcome("write")
<1>1. CASE c.left > 0
  BY <1>1, StartsBlock DEF BlockStored, Block, ControlBlock
<1>2. CASE ~(c.left > 0) /\ c.count > 1
  <2>1. [c EXCEPT !.pt = "stop"] = [c EXCEPT !.bus = "idle", !.pt = "stop"]
    BY DEF Block, ControlBlock
  <2> QED
    BY <1>2, <2>1, SendsBlock DEF BlockStored
<1>3. CASE ~(c.left > 0) /\ ~(c.count > 1)
  BY <1>3, Exits DEF BlockStored, Operations, Results
<1> QED
  BY <1>1, <1>2, <1>3

LEMMA Writes ==
  ASSUME NEW c, Ready(c), c.op = "write", NEW r \in Answers, Write(c, r)
  PROVE  Outcome("write")
<1>a. /\ Block(c) /\ InHand(c) /\ c.op \in Operations /\ c.bus \notin {"cmd", "acmd"}
      /\ c.pt \in CmdPts => c.bus = "idle"
  BY DEF Ready, Operations
<1>b. ASSUME NEW e \in {"data", "communication"}, Exit(c, e) PROVE Outcome("write")
  BY <1>a, <1>b, Fails DEF Results
<1>1. CASE c.pt = "wcmd" /\ Checked(c, r, IF c.version # "mmc" /\ c.count > 1
                                         THEN Cmd(c, "cmd25") ELSE WriteBlocks(c))
  BY <1>a, <1>b, <1>1, Commands, WritesBlocks DEF Checked, Cmd, CmdPts, InHand
<1>2. CASE c.pt = "cmd25" /\ Checked(c, r, WriteBlocks(c))
  BY <1>a, <1>b, <1>2, WritesBlocks DEF Checked, InHand
<1>3. CASE c.pt = "wtoken" /\ Transfer([c EXCEPT !.pt = "wchunk"])
  <2>1. [c EXCEPT !.pt = "wchunk"] = [c EXCEPT !.bus = c.bus, !.pt = "wchunk"]
        /\ c.bus \in {"idle", "wait", "data"}
    BY <1>a DEF Block, ControlBlock
  <2> QED
    BY <1>a, <1>3, <2>1, SendsBlock DEF InHand
<1>4. CASE c.pt = "wchunk" /\ Transfer([c EXCEPT !.bus = "wait", !.pt = "wcrc"])
  BY <1>a, <1>4, SendsBlock DEF InHand
<1>5. CASE /\ c.pt = "wcrc"
           /\ \/ BusyWait([c EXCEPT !.retry = 0], "wbusy")
              \/ \E e \in {"data", "communication"} : Exit(c, e)
  <2>1. CASE BusyWait([c EXCEPT !.retry = 0], "wbusy")
    <3> DEFINE d == [c EXCEPT !.retry = 0]
    <3>1. /\ d \in ControlBlock /\ d.op = c.op /\ d.bus = c.bus /\ d.left = c.left /\ d.retry = 0
          /\ BusyWait(d, "wbusy")
      BY <1>a, <2>1 DEF Block, ControlBlock
    <3> HIDE DEF d
    <3> QED
      BY <1>a, <1>5, <3>1, BusyWaits, SdcAssumption DEF Block, InHand
  <2> QED
    BY <1>b, <1>5, <2>1
<1>6. CASE /\ c.pt = "wbusy"
           /\ \/ BusyWait(c, "wbusy")
              \/ BlockStored([c EXCEPT !.bus = "idle", !.left = @ - 1])
  <2>1. CASE BusyWait(c, "wbusy")
    BY <1>a, <1>6, <2>1, BusyWaits DEF InHand
  <2>2. CASE BlockStored([c EXCEPT !.bus = "idle", !.left = @ - 1])
    <3> DEFINE d == [c EXCEPT !.bus = "idle", !.left = @ - 1]
    <3>1. c.left - 1 \in 0 .. MaxBlocks
      BY <1>6, <1>a, SdcAssumption DEF Block, ControlBlock, InHand
    <3>2. /\ d \in ControlBlock /\ d.op = c.op /\ d.bus = "idle" /\ d.retry = c.retry
          /\ BlockStored(d)
      BY <1>a, <2>2, <3>1 DEF Block, ControlBlock
    <3> HIDE DEF d
    <3> QED
      BY <1>a, <3>2, BlocksStored DEF Block
  <2> QED
    BY <1>6, <2>1, <2>2
<1>7. CASE c.pt = "stop" /\ BusyWait([c EXCEPT !.bus = "wait", !.retry = 0], "stopbusy")
  <2> DEFINE d == [c EXCEPT !.bus = "wait", !.retry = 0]
  <2>1. /\ d \in ControlBlock /\ d.op = c.op /\ d.bus = "wait" /\ d.retry = 0
        /\ BusyWait(d, "stopbusy")
    BY <1>a, <1>7 DEF Block, ControlBlock
  <2> HIDE DEF d
  <2> QED
    BY <2>1, BusyWaits, SdcAssumption DEF Block
<1>8. CASE /\ c.pt = "stopbusy"
           /\ BusyWait(c, "stopbusy") \/ Exit([c EXCEPT !.bus = "idle"], "success")
  <2>1. CASE BusyWait(c, "stopbusy")
    BY <1>a, <1>8, <2>1, BusyWaits DEF InHand
  <2>2. CASE Exit([c EXCEPT !.bus = "idle"], "success")
    <3> DEFINE d == [c EXCEPT !.bus = "idle"]
    <3>1. /\ d \in ControlBlock /\ d.op = c.op /\ d.bus = "idle" /\ d.retry = c.retry
          /\ Exit(d, "success")
      BY <1>a, <2>2 DEF Block, ControlBlock
    <3> HIDE DEF d
    <3> QED
      BY <1>a, <3>1, Exits DEF Block, Operations, Results
  <2> QED
    BY <1>8, <2>1, <2>2
<1> QED
  BY <1>1, <1>2, <1>3, <1>4, <1>5, <1>6, <1>7, <1>8 DEF Write

----------------------------------------------------------------------------
(* spi_handler: the clocks of the reset are followed by the identification,*)
(* and an operation goes on or ends; APP_ERROR_CHECK is never met.         *)

Scheduled(op) == IF op = "reset" THEN "ident" ELSE op

LEMMA Schedules ==
  ASSUME NEW c, Ready(c), NEW r \in Answers, Schedule(c, r)
  PROVE  Outcome(Scheduled(c.op))
<1>1. CASE c.op = "reset" /\ Cmd([c EXCEPT !.op = "ident"], "cmd0")
  <2> DEFINE d == [c EXCEPT !.op = "ident"]
  <2>1. /\ d \in ControlBlock /\ d.op = "ident" /\ d.bus = "idle" /\ d.retry = c.retry
        /\ Cmd(d, "cmd0")
    BY <1>1 DEF Ready, Block, ControlBlock
  <2> HIDE DEF d
  <2>2. Outcome("ident")
    BY <2>1, Commands DEF Ready, Block, Cmd, CmdPts, Operations
  <2> QED
    BY <1>1, <2>2 DEF Scheduled
<1>2. CASE c.op = "ident" /\ Identification(c, r)
  BY <1>2, Identifies DEF Scheduled
<1>3. CASE c.op = "read" /\ Read(c, r)
  BY <1>3, Reads DEF Scheduled
<1>4. CASE c.op = "write" /\ Write(c, r)
  BY <1>4, Writes DEF Scheduled
<1> QED
  BY <1>1, <1>2, <1>3, <1>4 DEF Schedule

LEMMA HandlerStep ==
  ASSUME Running(m_cb), NEW r \in Answers, SpiHandler(r)
  PROVE  Outcome(Scheduled(m_cb.op))
<1>1. CASE ~InCommand
  <2>1. Ready(m_cb)
    BY <1>1 DEF InCommand, Running, Ready
  <2> QED
    BY <1>1, <2>1, Schedules DEF SpiHandler
<1>2. CASE InCommand
  <2>a. /\ Block(m_cb) /\ m_cb.op \in Operations /\ InHand(m_cb) /\ m_cb.pt \in CmdPts
        /\ Scheduled(m_cb.op) = m_cb.op
    BY <1>2 DEF InCommand, Running, Operations, Scheduled
  <2>1. CASE NoResponse
    <3>1. /\ evt' \in [type : {"init", "read", "write"}, result : Results]
          /\ evt'.result = "silent" /\ fault' = fault
      BY <2>1, <2>a DEF NoResponse, Operations, Results
    <3>2. /\ Block(m_cb') /\ m_cb'.op = "idle"
          /\ IF m_cb.op = "ident" THEN spi' = "off" ELSE spi' = "free"
      BY <2>1, <2>a, ZenonT(40) DEF NoResponse, Block, ControlBlock
    <3> QED
      BY <2>a, <3>1, <3>2 DEF Outcome, Ended
  <2>2. CASE AcmdBody
    <3> DEFINE d == [m_cb EXCEPT !.bus = "cmd"]
    <3>1. /\ d \in ControlBlock /\ d.op = m_cb.op /\ d.bus = "cmd" /\ d.pt = m_cb.pt
          /\ d.left = m_cb.left /\ d.count = m_cb.count /\ d.retry = m_cb.retry /\ Transfer(d)
      BY <2>2, <2>a DEF AcmdBody, Block, ControlBlock
    <3> HIDE DEF d
    <3>2. Running(d)
      BY <2>a, <3>1 DEF Running, Block, InHand, Operations
    <3> QED
      BY <2>a, <3>1, <3>2, Sends
  <2>3. CASE Schedule([m_cb EXCEPT !.bus = "idle"], r)
    <3> DEFINE d == [m_cb EXCEPT !.bus = "idle"]
    <3>1. /\ d \in ControlBlock /\ d.op = m_cb.op /\ d.bus = "idle" /\ d.pt = m_cb.pt
          /\ d.left = m_cb.left /\ d.count = m_cb.count /\ d.retry = m_cb.retry /\ Schedule(d, r)
      BY <2>3, <2>a DEF Block, ControlBlock
    <3> HIDE DEF d
    <3>2. Ready(d)
      BY <2>a, <3>1 DEF Ready, Block, InHand, Operations
    <3> QED
      BY <2>a, <3>1, <3>2, Schedules
  <2> QED
    BY <1>2, <2>1, <2>2, <2>3 DEF SpiHandler
<1> QED
  BY <1>1, <1>2

----------------------------------------------------------------------------
(* The thread, while the driver is left alone.                             *)

LEMMA ThreadAlone ==
  ASSUME SdInv, \/ SdWrite \/ AlreadyUp \/ EndInit \/ NoDisk \/ EndRequest \/ FatFsOk \/ FatFsFail
  PROVE  SdInv'
<1> USE DEF SdInv
<1>a. UNCHANGED sdcVars /\ UNCHANGED active /\ ~fault
  BY DEF SdWrite, AlreadyUp, EndInit, NoDisk, EndRequest, FatFsOk, FatFsFail, Retry, Return, drive
<1>b. /\ pc \in {"idle", "retry", "initwait", "fatfs", "iowait"} \X FatFs
      /\ retries \in 0 .. 3 /\ began \in 0 .. 3
  BY DEF TypeOK
<1>1. TypeOK'
  <2>1. pc' \in {"idle", "retry", "initwait", "fatfs", "iowait"} \X FatFs
    BY <1>b DEF SdWrite, AlreadyUp, EndInit, NoDisk, EndRequest, FatFsOk, FatFsFail, Return, Idle,
       After, FatFs
  <2>2. /\ retries' \in 0 .. 3 /\ began' \in 0 .. 3 /\ ios' \in 0 .. MaxIo
        /\ ret' \in {"none", "ok", "fail"}
    BY SdCardAssumption DEF SdWrite, AlreadyUp, EndInit, NoDisk, EndRequest, FatFsOk, FatFsFail,
       Return, Tries, TypeOK, drive, callVars
  <2>3. {noinit', busy', last', active', doomed'} \subseteq BOOLEAN
    <3>1. {noinit, busy, last, active, doomed} \subseteq BOOLEAN
      BY DEF TypeOK
    <3>2. Mute \in BOOLEAN /\ (~last) \in BOOLEAN
      BY Zenon DEF Mute
    <3>3. /\ UNCHANGED <<busy, last, active>>
          /\ noinit' = noinit \/ noinit' = ~last
          /\ doomed' = doomed \/ doomed' = Mute
      BY DEF SdWrite, AlreadyUp, EndInit, NoDisk, EndRequest, FatFsOk, FatFsFail, Return, drive, callVars
    <3> QED
      BY <3>1, <3>3, <3>2, Zenon
  <2> QED
    BY <1>a, <2>1, <2>2, <2>3 DEF TypeOK, SdcTypeOK, sdcVars
<1>2. Sdc'
  BY <1>a DEF Sdc, sdcVars, Running, Block, InHand
<1>3. CASE SdWrite
  <2>1. /\ pc = Idle /\ pc' = <<"retry", "f_mount">> /\ retries' = 3 /\ ios' = 0 /\ ret' = "none"
        /\ began' = 0 /\ (doomed' => Mute) /\ UNCHANGED <<m_cb, spi, fault, evt, noinit, busy, last, active>>
    BY <1>3 DEF SdWrite, sdcVars
  <2>2. Owners'
    BY <1>a, <2>1 DEF Owners, Standing, Rest, Quiet, BusyCheck, Waiting, Identifying, Transferring,
       Doom, Mute, Idle
  <2>3. Tries'
    BY <2>1 DEF Tries, Owners, Rest, Quiet, BusyCheck, Waiting, Wedged, Idle
  <2> QED
    BY <1>1, <1>2, <2>2, <2>3
<1>4. CASE AlreadyUp
  <2>1. /\ pc[1] = "retry" /\ ~noinit /\ pc' = <<"fatfs", "f_mount">>
        /\ UNCHANGED <<m_cb, spi, fault, evt, noinit, busy, last, active, ios, ret, began, doomed>>
    BY <1>4 DEF AlreadyUp, Retry, sdcVars, callVars
  <2> QED
    BY <1>1, <1>2, <1>a, <2>1 DEF Owners, Standing, Rest, Quiet, BusyCheck, Waiting, Identifying,
       Transferring, Doom, Mute, Idle, Tries, Wedged
<1>5. CASE EndInit
  <2>1. /\ pc[1] = "initwait" /\ ~busy /\ (last <=> ~noinit') /\ retries' = retries - 1
        /\ pc' = IF last THEN <<"fatfs", "f_mount">> ELSE <<"retry", "f_mount">>
        /\ UNCHANGED <<m_cb, spi, fault, evt, busy, last, active, ios, ret, began, doomed>>
    BY <1>5 DEF EndInit, sdcVars, callVars
  <2>2. Owners'
    BY <1>a, <2>1 DEF Owners, Standing, Rest, Quiet, BusyCheck, Waiting, Identifying,
       Transferring, Doom, Mute, Idle
  <2>3. Tries'
    BY <1>b, <2>1 DEF Owners, Standing, Tries, Wedged, Idle
  <2> QED
    BY <1>1, <1>2, <2>2, <2>3
<1>6. CASE NoDisk \/ FatFsFail \/ (FatFsOk /\ pc[2] = "f_close")
  <2>1. /\ pc' = Idle
        /\ \/ pc[1] = "retry" /\ retries = 0 /\ noinit
           \/ pc[1] = "fatfs"
        /\ UNCHANGED <<m_cb, spi, fault, evt, retries, noinit, busy, last, active, ios, began, doomed>>
    BY <1>6 DEF NoDisk, FatFsFail, FatFsOk, Return, Retry, sdcVars, drive
  <2>2. Owners'
    BY <1>a, <2>1 DEF Owners, Standing, Rest, Quiet, BusyCheck, Waiting, Identifying,
       Transferring, Doom, Mute, Idle
  <2>3. Tries'
    BY <1>b, <2>1 DEF Owners, Standing, Tries, Wedged, Idle
  <2> QED
    BY <1>1, <1>2, <2>2, <2>3
<1>7. CASE EndRequest \/ (FatFsOk /\ pc[2] # "f_close")
  <2>1. /\ pc'[1] = "fatfs"
        /\ pc[1] = "fatfs" \/ (pc[1] = "iowait" /\ ~busy)
        /\ UNCHANGED <<m_cb, spi, fault, evt, retries, noinit, busy, last, active, ios, ret, began, doomed>>
    BY <1>7 DEF EndRequest, FatFsOk, sdcVars, drive, callVars
  <2>2. pc' # Idle
    BY <2>1 DEF Idle
  <2> QED
    BY <1>1, <1>2, <1>a, <2>1, <2>2 DEF Owners, Standing, Rest, Quiet, BusyCheck, Waiting, Identifying,
       Transferring, Doom, Mute, Tries, Wedged, Idle
<1> QED
  BY <1>3, <1>4, <1>5, <1>6, <1>7

(* The thread calls the driver.                                            *)

LEMMA Nothing == NoEvent \in [type : {"none", "init", "read", "write"}, result : Results]
  BY DEF NoEvent, Results

LEMMA BeginsInit == SdInv /\ BeginInit => SdInv'
<1> SUFFICES ASSUME SdInv, BeginInit PROVE SdInv'
  OBVIOUS
<1> USE DEF SdInv
<1>a. m_cb \in ControlBlock /\ spi = "off" /\ retries \in 0 .. 3 /\ began \in 0 .. 3 /\ Block(m_cb)
  BY DEF TypeOK, SdcTypeOK, BeginInit, Owners, Standing, Block
<1> DEFINE d == [m_cb EXCEPT !.op = "reset", !.bus = "idle", !.version = "unknown"]
<1>1. /\ d \in ControlBlock /\ d.op = "reset" /\ d.bus = "idle" /\ d.retry = m_cb.retry
      /\ m_cb' = d /\ spi' = "xfer" /\ evt' = NoEvent /\ fault' = fault
  BY <1>a DEF BeginInit, AppSdcInit, Transfer, ControlBlock
<1> HIDE DEF d
<1>2. Sdc'
  BY <1>a, <1>1 DEF Sdc, Running, Block
<1>3. /\ pc[1] = "retry" /\ ~fault /\ retries > 0 /\ noinit /\ ~active
      /\ active' = TRUE /\ busy' = TRUE /\ began' = began + 1 /\ pc' = <<"initwait", "f_mount">>
      /\ UNCHANGED <<retries, noinit, last, ios, ret, doomed>>
  BY DEF BeginInit, Retry
<1>4. Tries'
  BY <1>a, <1>3 DEF Tries, Idle
<1>5. TypeOK'
  BY <1>a, <1>1, <1>3, <1>4, Nothing DEF TypeOK, SdcTypeOK, Tries, FatFs
<1>6. Owners'
  BY <1>1, <1>3 DEF Owners, Standing, Rest, Waiting, Identifying, Transferring, Doom, Idle
<1> QED
  BY <1>2, <1>4, <1>5, <1>6

LEMMA Unwinds == SdInv /\ Unwind => SdInv'
<1> SUFFICES ASSUME SdInv, Unwind PROVE SdInv'
  OBVIOUS
<1> USE DEF SdInv
<1>a. m_cb \in ControlBlock /\ retries \in 0 .. 3 /\ began \in 0 .. 3 /\ Block(m_cb)
  BY DEF TypeOK, SdcTypeOK, Block
<1>1. /\ pc[1] = "retry" /\ ~fault /\ retries > 0 /\ noinit /\ active
      /\ m_cb.op \in {"idle", "uninit"} /\ spi = "off"
      /\ evt' = NoEvent /\ busy' = FALSE /\ retries' = retries - 1
      /\ UNCHANGED <<fault, pc, noinit, ios, ret, began, doomed>>
  BY DEF Unwind, Retry, AppSdcUninit, BusyCheck, callVars, Owners, Rest, Waiting
<1>2. /\ m_cb' \in ControlBlock /\ m_cb'.op = "uninit" /\ spi' = "off"
      /\ m_cb'.retry = m_cb.retry
      /\ \/ m_cb.op = "idle" /\ active' = FALSE /\ last' = TRUE
         \/ m_cb.op = "uninit" /\ active' = TRUE /\ last' = FALSE
  BY <1>a, <1>1, ZenonT(40) DEF Unwind, AppSdcUninit, ControlBlock
<1>3. Sdc'
  BY <1>2 DEF Sdc
<1>4. Tries'
  BY <1>a, <1>1, <1>2 DEF Tries, Wedged, Idle
<1>5. TypeOK'
  <2>1. SdcTypeOK'
    BY <1>a, <1>1, <1>2, Nothing DEF TypeOK, SdcTypeOK
  <2>2. retries' \in 0 .. 3
    BY <1>a, <1>1
  <2>3. {noinit', busy', last', active', doomed'} \subseteq BOOLEAN
    BY <1>1, <1>2 DEF TypeOK
  <2> QED
    BY <1>1, <2>1, <2>2, <2>3 DEF TypeOK
<1>6. Owners'
  BY <1>1, <1>2 DEF Owners, Standing, Rest, Quiet, BusyCheck, Waiting, Identifying, Transferring, Doom,
     Idle
<1> QED
  BY <1>3, <1>4, <1>5, <1>6

(* The card is idle when a request is made, and the driver stops the       *)
(* program if and only if the card is mute.                                *)
LEMMA Requested ==
  ASSUME SdInv, NEW n \in 1 .. MaxBlocks, Request(n)
  PROVE  /\ pc[1] = "fatfs" /\ pc' = <<"iowait", pc[2]>> /\ busy' = TRUE /\ ios' = ios + 1
         /\ UNCHANGED <<retries, noinit, last, active, ret, began, doomed>>
         /\ evt' = NoEvent /\ Block(m_cb') /\ m_cb'.op \in {"read", "write"}
         /\ ~noinit /\ active /\ m_cb.op = "idle" /\ spi = "free" /\ ~fault /\ ios < MaxIo
         /\ IF Mute THEN fault' = TRUE /\ spi' = spi
            ELSE fault' = fault /\ spi' = "xfer" /\ Running(m_cb')
<1> USE DEF SdInv
<1>1. /\ pc[1] = "fatfs" /\ pc' = <<"iowait", pc[2]>> /\ busy' = TRUE /\ ios' = ios + 1
      /\ UNCHANGED <<retries, noinit, last, active, ret, began, doomed>> /\ ~fault /\ ios < MaxIo
  BY DEF Request
<1>2. ~noinit /\ active /\ m_cb.op = "idle" /\ spi = "free" /\ Block(m_cb)
  BY <1>1 DEF Owners, Standing, Rest, Quiet, Waiting, TypeOK, SdcTypeOK, Block
<1>3. ASSUME NEW op \in {"read", "write"}, NEW at \in {"rcmd", "wcmd"}, NEW bus \in {"cmd", "acmd"},
             SdcCmd([m_cb EXCEPT !.op = op, !.count = n, !.left = n], spi, bus, at)
      PROVE  /\ evt' = NoEvent /\ Block(m_cb') /\ m_cb'.op \in {"read", "write"}
             /\ IF Mute THEN fault' = TRUE /\ spi' = spi
                ELSE fault' = fault /\ spi' = "xfer" /\ Running(m_cb')
  <2> DEFINE d == [m_cb EXCEPT !.op = op, !.count = n, !.left = n]
  <2>1. n \in 0 .. MaxBlocks /\ n >= 1
    BY SdcAssumption
  <2>2. /\ d \in ControlBlock /\ d.op = op /\ d.bus = m_cb.bus /\ d.count = n /\ d.retry = m_cb.retry
        /\ SdcCmd(d, spi, bus, at)
    BY <1>2, <1>3, <2>1 DEF Block, ControlBlock
  <2> HIDE DEF d
  <2>3. CASE Mute
    BY <1>2, <2>2, <2>3 DEF SdcCmd, Mute, Block
  <2>4. CASE ~Mute
    <3>1. d.bus = "idle"
      BY <1>2, <2>2, <2>4 DEF Mute
    <3> DEFINE e == [d EXCEPT !.bus = bus, !.pt = at]
    <3>2. /\ e \in ControlBlock /\ e.op = op /\ e.bus = bus /\ e.pt = at /\ e.count = n
          /\ e.retry = m_cb.retry /\ Transfer(e)
      BY <1>2, <2>2, <3>1 DEF SdcCmd, ControlBlock
    <3> HIDE DEF e
    <3>3. Running(e)
      BY <1>2, <2>1, <3>2 DEF Running, Block, InHand, CmdPts
    <3> QED
      BY <2>4, <3>2, <3>3 DEF Transfer, Running
  <2> QED
    BY <2>3, <2>4
<1>4. CASE BlockRead(n)
  BY <1>1, <1>2, <1>3, <1>4 DEF BlockRead
<1>5. CASE BlockWrite(n)
  BY <1>1, <1>2, <1>3, <1>5 DEF BlockWrite
<1> QED
  BY <1>4, <1>5 DEF Request

LEMMA Requests ==
  ASSUME SdInv, NEW n \in 1 .. MaxBlocks, Request(n)
  PROVE  SdInv'
<1>a. /\ pc[1] = "fatfs" /\ pc' = <<"iowait", pc[2]>> /\ busy' = TRUE /\ ios' = ios + 1
      /\ UNCHANGED <<retries, noinit, last, active, ret, began, doomed>>
      /\ evt' = NoEvent /\ Block(m_cb') /\ m_cb'.op \in {"read", "write"}
      /\ ~noinit /\ active /\ m_cb.op = "idle" /\ spi = "free" /\ ~fault /\ ios < MaxIo
      /\ IF Mute THEN fault' = TRUE /\ spi' = spi
         ELSE fault' = fault /\ spi' = "xfer" /\ Running(m_cb')
  BY Requested
<1> USE DEF SdInv
<1>1. Sdc'
  BY <1>a DEF Sdc
<1>2. TypeOK'
  <2>1. /\ m_cb' \in ControlBlock /\ (m_cb'.retry <= MaxRetryInit + 1 \/ m_cb'.retry <= MaxRetry + 1)
        /\ fault' \in BOOLEAN /\ spi' \in {"off", "free", "xfer"}
        /\ evt' \in [type : {"none", "init", "read", "write"}, result : Results]
    BY <1>a, Nothing DEF Block, TypeOK, SdcTypeOK
  <2>2. ios' \in 0 .. MaxIo /\ pc' \in {"idle", "retry", "initwait", "fatfs", "iowait"} \X FatFs
    BY <1>a, SdCardAssumption DEF TypeOK
  <2> QED
    BY <1>a, <2>1, <2>2 DEF TypeOK, SdcTypeOK
<1>3. Owners'
  BY <1>a DEF Owners, Standing, Rest, Waiting, Identifying, Transferring, Doom, Mute, Idle
<1>4. Tries'
  BY <1>a DEF Tries, Idle
<1> QED
  BY <1>1, <1>2, <1>3, <1>4

----------------------------------------------------------------------------
(* The interrupt.                                                          *)

LEMMA Interrupts == SdInv /\ SpiIrq => SdInv'
<1> SUFFICES ASSUME SdInv, SpiIrq PROVE SdInv'
  OBVIOUS
<1>1. PICK r \in Answers : SpiHandler(r)
  BY DEF SpiIrq
<1>2. /\ ~fault /\ spi = "xfer" /\ Running(m_cb)
      /\ UNCHANGED <<pc, retries, noinit, active, ios, ret, began, doomed>>
  BY <1>1 DEF SpiIrq, SpiHandler, callVars, SdInv, Sdc
<1>3. /\ Waiting /\ busy
      /\ pc[1] = "initwait" => m_cb.op \in {"reset", "ident"}
      /\ pc[1] = "iowait" => m_cb.op \in {"read", "write"}
  BY <1>2 DEF SdInv, Owners, Rest, Quiet, Identifying, Transferring, Waiting
<1>4. Outcome(Scheduled(m_cb.op))
  BY <1>1, <1>2, HandlerStep
<1> USE DEF SdInv
<1>5. pc \in {"idle", "retry", "initwait", "fatfs", "iowait"} \X FatFs /\ active
  BY <1>3 DEF TypeOK, Waiting, Owners, Standing
<1>6. CASE /\ spi' = "xfer" /\ Running(m_cb') /\ m_cb'.op = Scheduled(m_cb.op) /\ evt' = NoEvent
  <2>1. UNCHANGED <<busy, last>> /\ fault' = fault
    BY <1>4, <1>6 DEF SpiIrq, Outcome
  <2>2. TypeOK'
    BY <1>2, <1>6, <2>1, Nothing DEF TypeOK, SdcTypeOK, Running, Block
  <2>3. Sdc'
    BY <1>6 DEF Sdc
  <2>4. Owners'
    BY <1>2, <1>3, <1>5, <1>6, <2>1 DEF Owners, Standing, Rest, Waiting, Identifying, Transferring, Doom,
       Scheduled, Idle
  <2>5. Tries'
    BY <1>2, <1>3 DEF Tries, Waiting, Idle
  <2> QED
    BY <2>2, <2>3, <2>4, <2>5
<1>7. CASE Ended(Scheduled(m_cb.op))
  <2>1. /\ Block(m_cb') /\ evt' \in [type : {"init", "read", "write"}, result : Results]
        /\ fault' = fault
        /\ IF pc[1] = "initwait"
           THEN \/ m_cb'.op = "idle" /\ m_cb'.bus = "idle" /\ spi' = "free" /\ evt'.result = "success"
                \/ m_cb'.op \in {"idle", "uninit"} /\ spi' = "off" /\ evt'.result # "success"
           ELSE m_cb'.op = "idle" /\ spi' = "free"
    BY <1>3, <1>4, <1>7 DEF Ended, Outcome, Scheduled, Waiting
  <2>2. evt' # NoEvent
    BY <2>1 DEF NoEvent
  <2>3. /\ busy' = FALSE
        /\ last' = (evt'.result = "success")
    BY <2>2 DEF SpiIrq
  <2>4. last' <=> evt'.result = "success"
    BY <2>3
  <2>5. TypeOK'
    <3>1. SdcTypeOK'
      BY <2>1 DEF SdcTypeOK, Block, TypeOK, Results
    <3>2. {noinit', busy', last', active', doomed'} \subseteq BOOLEAN
      BY <1>2, <2>3 DEF TypeOK
    <3> QED
      BY <1>2, <3>1, <3>2 DEF TypeOK
  <2>6. Sdc'
    BY <2>1 DEF Sdc
  <2>7. Owners'
    BY <1>2, <1>3, <1>5, <2>1, <2>3, <2>4 DEF Owners, Standing, Rest, Quiet, BusyCheck, Waiting,
       Identifying, Transferring, Doom, Idle
  <2>8. Tries'
    BY <1>2, <1>3 DEF Tries, Waiting, Idle
  <2> QED
    BY <2>5, <2>6, <2>7, <2>8
<1> QED
  BY <1>4, <1>6, <1>7 DEF Outcome

----------------------------------------------------------------------------
(* A reset leaves what Init does.                                          *)

LEMMA SdStarts == Init => SdInv
<1> SUFFICES ASSUME Init PROVE SdInv
  OBVIOUS
<1>1. Block(ClearedCb) /\ ClearedCb.op = "uninit"
  BY SdcAssumption DEF ClearedCb, Block, ControlBlock
<1> USE DEF Init, SdcInit, SdInv
<1>2. pc[1] = "idle"
  BY DEF Idle
<1>3. TypeOK
  <2>1. SdcTypeOK
    BY <1>1, Nothing DEF SdcTypeOK, Block
  <2>2. pc \in {"idle", "retry", "initwait", "fatfs", "iowait"} \X FatFs
    BY DEF Idle, FatFs
  <2>3. {noinit, busy, last, active, doomed} \subseteq BOOLEAN
    OBVIOUS
  <2>4. 0 \in 0 .. MaxIo
    BY SdCardAssumption
  <2> QED
    BY <2>1, <2>2, <2>3, <2>4 DEF TypeOK
<1>4. Sdc /\ Owners
  BY <1>1, <1>2 DEF Sdc, Owners, Standing, Rest, Quiet, BusyCheck, Waiting, Identifying, Transferring, Doom
<1>5. Tries
  BY <1>2 DEF Tries
<1> QED
  BY <1>3, <1>4, <1>5

LEMMA Resets == SystemReset => SdInv'
<1> SUFFICES ASSUME SystemReset PROVE SdInv'
  OBVIOUS
<1>1. Block(ClearedCb) /\ ClearedCb.op = "uninit"
  BY SdcAssumption DEF ClearedCb, Block, ControlBlock
<1> USE DEF SystemReset, SdInv
<1>2. pc'[1] = "idle"
  BY DEF Idle
<1>3. TypeOK'
  <2>1. SdcTypeOK'
    BY <1>1, Nothing DEF SdcTypeOK, Block
  <2>2. pc' \in {"idle", "retry", "initwait", "fatfs", "iowait"} \X FatFs
    BY DEF Idle, FatFs
  <2>3. {noinit', busy', last', active', doomed'} \subseteq BOOLEAN
    OBVIOUS
  <2>4. 0 \in 0 .. MaxIo
    BY SdCardAssumption
  <2> QED
    BY <2>1, <2>2, <2>3, <2>4 DEF TypeOK
<1>4. Sdc' /\ Owners'
  BY <1>1, <1>2 DEF Sdc, Owners, Standing, Rest, Quiet, BusyCheck, Waiting, Identifying, Transferring, Doom
<1>5. Tries'
  BY <1>2 DEF Tries
<1> QED
  BY <1>3, <1>4, <1>5

LEMMA SdIdles == SdInv /\ UNCHANGED vars => SdInv'
<1> SUFFICES ASSUME SdInv, UNCHANGED vars PROVE SdInv'
  OBVIOUS
<1> USE DEF SdInv, vars, sdcVars, drive, callVars
<1>1. TypeOK'
  BY DEF TypeOK, SdcTypeOK
<1>2. Sdc'
  BY DEF Sdc, Running, Block, InHand
<1>3. Owners'
  BY DEF Owners, Standing, Rest, Quiet, BusyCheck, Waiting, Identifying, Transferring, Doom, Mute
<1>4. Tries'
  BY DEF Tries, Wedged
<1> QED
  BY <1>1, <1>2, <1>3, <1>4

THEOREM SdInvariant == Spec => []SdInv
<1>1. SdInv /\ Thread => SdInv'
  BY ThreadAlone, BeginsInit, Unwinds, Requests DEF Thread
<1>2. SdInv /\ [Next]_vars => SdInv'
  BY <1>1, ThreadAlone, Interrupts, Resets, SdIdles DEF Next
<1> QED
  BY <1>2, SdStarts, PTL DEF Spec

(* The type invariant, with the bounds of the block and retry counts.      *)
THEOREM SdTyped == Spec => []TypeOK
<1>1. SdInv => TypeOK
  BY DEF SdInv
<1> QED
  BY <1>1, SdInvariant, PTL

(* The layers agree on who owns the card.                                  *)
THEOREM SdLayers == Spec => []LayersAgree
<1>1. SdInv => LayersAgree
  BY DEF SdInv, Owners, Standing, Rest, Quiet, BusyCheck, Waiting, Identifying, Transferring, LayersAgree
<1> QED
  BY <1>1, SdInvariant, PTL

(* A call that gives up has tried the card once or twice.                  *)
THEOREM SdTries == Spec => []TriesReachCard
<1>1. SdInv => TriesReachCard
  BY DEF SdInv, Tries, TriesReachCard
<1> QED
  BY <1>1, SdInvariant, PTL

----------------------------------------------------------------------------
(* sd_write as its caller sees it.                                         *)

CallSt == IF fault THEN "dead" ELSE IF pc = Idle THEN "idle" ELSE IF doomed THEN "doomed" ELSE "call"

CardSt == IF fault \/ Mute THEN "mute" ELSE IF Wedged THEN "wedged" ELSE IF noinit THEN "down" ELSE "up"

Unseen == UNCHANGED <<CallSt, CardSt, ret>>

LEMMA CallSeen ==
  ASSUME SdInv, \/ SdWrite \/ NoDisk \/ EndRequest \/ FatFsOk \/ FatFsFail \/ AlreadyUp
  PROVE  Call!Next \/ Unseen
<1> USE DEF CallSt, CardSt, Unseen, Mute, Wedged
<1>1. CASE SdWrite
  <2>1. /\ pc = Idle /\ ~fault /\ pc' # Idle /\ ret' = "none" /\ doomed' = Mute
        /\ UNCHANGED <<m_cb, spi, fault, noinit, active>>
    BY <1>1 DEF SdWrite, sdcVars, Idle
  <2>2. CallSt = "idle" /\ CardSt' = CardSt /\ CallSt' = IF CardSt = "mute" THEN "doomed" ELSE "call"
    BY <2>1
  <2>3. Call!Call
    BY <2>1, <2>2 DEF Call!Call
  <2> QED
    BY <2>3 DEF Call!Next
<1>2. CASE NoDisk \/ FatFsFail \/ (FatFsOk /\ pc[2] = "f_close")
  <2>1. /\ pc # Idle /\ ~fault /\ pc' = Idle
        /\ NoDisk \/ FatFsFail \/ FatFsOk
        /\ \/ ret' = "fail"
           \/ ret' = "ok" /\ pc[1] = "fatfs"
        /\ \/ pc[1] = "retry" /\ noinit
           \/ pc[1] = "fatfs" /\ ios > 0
        /\ UNCHANGED <<m_cb, spi, fault, noinit, active, doomed>>
    BY <1>2 DEF NoDisk, FatFsFail, FatFsOk, Return, Retry, sdcVars, drive, Idle
  <2>2. ~doomed /\ (pc[1] = "fatfs" => ~noinit)
    BY <2>1 DEF SdInv, Owners, Standing, Doom
  <2>3. /\ CallSt = "call" /\ CallSt' = "idle" /\ CardSt' = CardSt
        /\ ret' = "ok" => CardSt \in {"up", "mute"}
    BY <2>1, <2>2
  <2>4. Call!Succeed \/ Call!Fail
    BY <2>1, <2>3 DEF Call!Succeed, Call!Fail
  <2> QED
    BY <2>4 DEF Call!Next, Call!Step
<1>3. CASE EndRequest \/ AlreadyUp \/ (FatFsOk /\ pc[2] # "f_close")
  <2>1. /\ pc # Idle /\ pc' # Idle
        /\ UNCHANGED <<m_cb, spi, fault, noinit, active, doomed, ret>>
    BY <1>3 DEF EndRequest, AlreadyUp, FatFsOk, Retry, sdcVars, drive, callVars, Idle
  <2> QED
    BY <2>1
<1> QED
  BY <1>1, <1>2, <1>3

(* An identification, as the thread has it.                                *)
LEMMA InitSeen ==
  ASSUME SdInv, BeginInit \/ Unwind \/ EndInit
  PROVE  Call!Identified \/ Unseen
<1> USE DEF CallSt, CardSt, Unseen, Mute, Wedged
<1>1. CASE BeginInit \/ Unwind
  <2>1. /\ pc # Idle /\ pc' # Idle /\ ~fault /\ noinit
        /\ UNCHANGED <<noinit, doomed, ret>>
    BY <1>1 DEF BeginInit, Unwind, Retry, callVars, Idle
  <2>2. /\ fault' = fault
        /\ (active' /\ m_cb'.op = "uninit") <=> (active /\ m_cb.op = "uninit")
    <3>1. CASE BeginInit
      <4>1. spi = "off" /\ m_cb \in ControlBlock /\ ~active
        BY <3>1 DEF BeginInit, SdInv, Owners, Standing, TypeOK, SdcTypeOK
      <4>2. m_cb'.op = "reset" /\ fault' = fault
        BY <3>1, <4>1 DEF BeginInit, AppSdcInit, Transfer, ControlBlock
      <4> QED
        BY <4>1, <4>2
    <3>2. CASE Unwind
      BY <3>2 DEF Unwind, AppSdcUninit
    <3> QED
      BY <1>1, <3>1, <3>2
  <2> QED
    BY <2>1, <2>2
<1>2. CASE EndInit
  <2>1. /\ pc[1] = "initwait" /\ ~busy /\ ~fault /\ pc' # Idle
        /\ last <=> ~noinit'
        /\ UNCHANGED <<m_cb, spi, fault, active, doomed, ret>>
    BY <1>2 DEF EndInit, sdcVars, callVars, Idle
  <2>2. /\ pc # Idle /\ noinit /\ ~doomed
        /\ last => m_cb.op = "idle" /\ m_cb.bus = "idle"
    BY <2>1 DEF SdInv, Owners, Standing, Identifying, Doom, Idle
  <2>3. CASE last
    BY <2>1, <2>2, <2>3 DEF Call!Identified
  <2>4. CASE ~last
    BY <2>1, <2>2, <2>4
  <2> QED
    BY <2>3, <2>4
<1> QED
  BY <1>1, <1>2

(* Only a mute card stops the program.                                     *)
LEMMA RequestSeen ==
  ASSUME SdInv, NEW n \in 1 .. MaxBlocks, Request(n)
  PROVE  Call!Die \/ Unseen
<1>1. /\ pc[1] = "fatfs" /\ pc' = <<"iowait", pc[2]>> /\ UNCHANGED <<noinit, ret, doomed>>
      /\ ~noinit /\ ~fault /\ m_cb'.op \in {"read", "write"}
      /\ IF Mute THEN fault' = TRUE ELSE fault' = fault
  BY Requested
<1>2. pc # Idle /\ pc' # Idle
  BY <1>1 DEF Idle
<1>3. doomed => Mute
  BY <1>1, <1>2 DEF SdInv, Owners, Doom
<1>4. CASE Mute
  BY <1>1, <1>2, <1>4 DEF CallSt, CardSt, Call!Die
<1>5. CASE ~Mute
  BY <1>1, <1>2, <1>3, <1>5 DEF CallSt, CardSt, Unseen, Mute, Wedged
<1> QED
  BY <1>4, <1>5

LEMMA IrqSeen ==
  ASSUME SdInv, SpiIrq
  PROVE  Call!Misidentified \/ Call!Unanswered \/ Unseen
<1>1. PICK r \in Answers : SpiHandler(r)
  BY DEF SpiIrq
<1>2. /\ ~fault /\ spi = "xfer" /\ Running(m_cb)
      /\ UNCHANGED <<pc, noinit, active, ret, doomed>>
  BY <1>1 DEF SpiIrq, SpiHandler, callVars, SdInv, Sdc
<1>3. /\ pc # Idle /\ active /\ ~doomed
      /\ \/ noinit /\ m_cb.op \in {"reset", "ident"}
         \/ ~noinit /\ m_cb.op \in {"read", "write"}
  BY <1>2 DEF SdInv, Owners, Standing, Rest, Quiet, Identifying, Transferring, Waiting, Doom, Idle
<1>4. Outcome(Scheduled(m_cb.op))
  BY <1>1, <1>2, HandlerStep
<1>5. /\ fault' = fault
      /\ noinit => m_cb'.op \in {"ident", "idle", "uninit"}
      /\ ~noinit => m_cb'.op \in {"read", "write", "idle"}
  BY <1>3, <1>4 DEF Outcome, Ended, Scheduled
<1>6. CallSt = "call" /\ CallSt' = "call"
  BY <1>2, <1>3, <1>5 DEF CallSt
<1>7. CASE noinit
  <2>1. CardSt = "down" /\ CardSt' = IF m_cb'.op = "uninit" THEN "wedged" ELSE "down"
    BY <1>2, <1>3, <1>5, <1>7 DEF CardSt, Mute, Wedged
  <2> QED
    BY <1>2, <1>6, <2>1 DEF Call!Misidentified, Unseen, CallSt, CardSt
<1>8. CASE ~noinit
  <2>1. CardSt = "up" /\ CardSt' \in {"up", "mute"}
    BY <1>2, <1>3, <1>5, <1>8 DEF CardSt, Mute, Wedged
  <2> QED
    BY <1>2, <1>6, <2>1 DEF Call!Unanswered, Unseen, CallSt, CardSt
<1> QED
  BY <1>7, <1>8

(* sd_write over its four layers implements the call of SdCall: every step *)
(* is a step of the abstract call or leaves its state alone.               *)
THEOREM SdImplements == Spec => Call!Init /\ [][Call!Next]_(Call!avars)
<1>1. Init => Call!Init
  BY DEF Init, SdcInit, ClearedCb, Mute, Wedged, Call!Init
<1>2. SdInv /\ [Next]_vars => [Call!Next]_(Call!avars)
  <2> SUFFICES ASSUME SdInv, [Next]_vars PROVE Call!Next \/ Unseen
    BY DEF Call!avars, Unseen, CallSt, CardSt
  <2>1. CASE Thread \/ SdWrite
    BY <2>1, CallSeen, InitSeen, RequestSeen DEF Thread, Call!Next, Call!Step
  <2>2. CASE SpiIrq
    BY <2>2, IrqSeen DEF Call!Next, Call!Step
  <2>3. CASE SystemReset
    <3>1. Call!Reset
      BY <2>3 DEF SystemReset, ClearedCb, Mute, Wedged, Call!Reset
    <3> QED
      BY <3>1 DEF Call!Next
  <2>4. CASE UNCHANGED vars
    BY <2>4 DEF vars, sdcVars, drive, callVars, Unseen, CallSt, CardSt, Mute, Wedged
  <2> QED
    BY <2>1, <2>2, <2>3, <2>4 DEF Next
<1> QED
  BY <1>1, <1>2, SdInvariant, PTL DEF Spec
=============================================================================
