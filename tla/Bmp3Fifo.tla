------------------------------ MODULE Bmp3Fifo ------------------------------
(***************************************************************************)
(* The FIFO of the BMP3 sensor and the functions of bmp3.c that configure, *)
(* read and parse it.  The sensor adds frames whenever it likes: between   *)
(* the read of the FIFO's length and that of its bytes, too.               *)
(*                                                                         *)
(* As in Bmp3, a transfer that was made may be reported as failed.  The    *)
(* sensor is external: a frame read in part is sent again, after the last  *)
(* frame comes the time, if it is enabled, and then nothing but empty bytes.*)
(***************************************************************************)
EXTENDS Integers, SequencesExt

CONSTANTS
  Profiles,    (* bound: what a client puts into dev->fifo->settings       *)
  Selections,  (* bound: the desired_settings it passes                    *)
  Requests,    (* bound: its req_frames                                    *)
  Capacity,    (* bytes the sensor's FIFO holds                            *)
  MaxSamples,  (* bound: the measurements made                             *)
  MaxConfigs   (* bound: the calls of bmp3_set_fifo_settings               *)

Settings == [stop : BOOLEAN, time : BOOLEAN, press : BOOLEAN, temp : BOOLEAN]
Fields   == {"stop", "time", "press", "temp"}

(* "others" are the settings of FIFO_CONFIG_2, the last to be written.     *)
ASSUME Bmp3FifoAssumption ==
  /\ Profiles \subseteq Settings
  /\ Selections \subseteq SUBSET (Fields \cup {"others"}) /\ {} \notin Selections
  /\ Requests \subseteq Nat \ {0}
  /\ Capacity \in Nat /\ MaxSamples \in Nat /\ MaxConfigs \in Nat

VARIABLES
  chip,     (* FIFO_CONFIG_1 of the sensor                                 *)
  fifo,     (* the frames in its FIFO                                      *)
  samples,  (* how many measurements it has made                           *)
  dev,      (* dev->fifo->settings                                         *)
  pc,       (* the driver's next transfer                                  *)
  configs,  (* how many calls of bmp3_set_fifo_settings were made          *)
  sel,      (* desired_settings of the call under way                      *)
  buffer,   (* dev->fifo->data: the frames in the buffer, zeros after them *)
  byte_count, start_idx, config_err, frame_not_available,
  given,    (* history: the frames extracted since the buffer was read     *)
  timed,    (* history: time_en of driver and sensor at that read          *)
  overran,  (* history: frames lost between its length and its bytes       *)
  usable    (* the client: the last bmp3_get_fifo_data returned BMP3_OK    *)

chipVars == <<chip, fifo, samples>>
dataVars == <<buffer, byte_count, start_idx, config_err, frame_not_available>>
histVars == <<given, timed, overran, usable>>
vars     == <<chipVars, dev, pc, configs, sel, dataVars, histVars>>

(* Bytes of a frame, its header included.                                  *)
Bytes == [press_temp |-> 7, temp |-> 4, press |-> 4, time |-> 4, change |-> 2]

DataKinds == {"press_temp", "temp", "press"}

(* A frame in the buffer has fewer bytes than its kind if it was cut.      *)
Frame(kind, n) == [kind |-> kind, sample |-> n, bytes |-> Bytes[kind]]

(* Bytes of a sequence of frames.                                          *)
Size(fs) == FoldLeft(LAMBDA n, f : n + f.bytes, 0, fs)

Frames == [kind : DOMAIN Bytes \cup {"empty"}, sample : 0 .. MaxSamples,
           bytes : 0 .. Capacity + 4]

TypeOK ==
  /\ chip \in Settings /\ dev \in Settings
  /\ fifo \in Seq(Frames) /\ Size(fifo) <= Capacity
  /\ samples \in 0 .. MaxSamples
  /\ pc \in {"idle", "config_1", "config_1_write", "config_2", "config_2_write", "length", "data",
             "cmd_rdy", "flush", "cmd_err"}
  /\ configs \in 0 .. MaxConfigs /\ sel \in Selections \cup {{}}
  /\ buffer \in Seq(Frames) /\ Size(buffer) \in {0, byte_count}
  /\ byte_count \in 0 .. Capacity + 4 /\ start_idx \in 0 .. byte_count + 6
  /\ config_err \in BOOLEAN /\ frame_not_available \in BOOLEAN
  /\ given \in Seq(Frames)
  /\ timed \in [dev : BOOLEAN, chip : BOOLEAN] /\ overran \in BOOLEAN /\ usable \in BOOLEAN

Off == [stop |-> FALSE, time |-> FALSE, press |-> FALSE, temp |-> FALSE]

Init ==
  /\ chip = Off /\ fifo = << >> /\ samples = 0
  /\ dev = Off /\ pc = "idle" /\ configs = 0 /\ sel = {}
  /\ buffer = << >> /\ byte_count = 0 /\ start_idx = 0
  /\ config_err = FALSE /\ frame_not_available = FALSE
  /\ given = << >> /\ timed = [dev |-> FALSE, chip |-> FALSE] /\ overran = FALSE /\ usable = FALSE

----------------------------------------------------------------------------
(* The sensor.                                                             *)

(* A full FIFO takes no more frames, or gives up its oldest.               *)
Put(f) ==
  LET all    == Append(fifo, f)
      from   == CHOOSE k \in 1 .. Len(all) + 1 :
                  /\ Size(SubSeq(all, k, Len(all))) <= Capacity
                  /\ \A j \in 1 .. k - 1 : Size(SubSeq(all, j, Len(all))) > Capacity
      stored == IF chip'.stop /\ from > 1 THEN fifo ELSE SubSeq(all, from, Len(all))
  IN  /\ fifo' = stored
      /\ overran' = (overran \/ (pc = "data" /\ from > 1 /\ ~chip'.stop))

(* A measurement is stored with what is enabled of it.                     *)
Sample ==
  /\ samples < MaxSamples
  /\ samples' = samples + 1
  /\ UNCHANGED chip
  /\ \/ chip.press /\ chip.temp /\ Put(Frame("press_temp", samples'))
     \/ chip.press /\ ~chip.temp /\ Put(Frame("press", samples'))
     \/ ~chip.press /\ chip.temp /\ Put(Frame("temp", samples'))
  /\ UNCHANGED <<dev, pc, configs, sel, dataVars, given, timed, usable>>

(* FIFO_CONFIG_1 is written with v.                                        *)
WriteConfig(v) ==
  /\ chip' = v
  /\ IF v = chip THEN UNCHANGED <<fifo, overran>> ELSE Put(Frame("change", 0))
  /\ UNCHANGED samples

(* n bytes are read: how many whole frames, and the whole buffer.          *)
Whole(n) == CHOOSE k \in 0 .. Len(fifo) :
  /\ Size(SubSeq(fifo, 1, k)) <= n
  /\ k < Len(fifo) => Size(SubSeq(fifo, 1, k + 1)) > n

Piece(f, n) == IF n = 0 THEN << >> ELSE <<[f EXCEPT !.bytes = n]>>

Burst(n) ==
  LET k    == Whole(n)
      rest == n - Size(SubSeq(fifo, 1, k))
      time == IF chip.time /\ rest >= Bytes["time"] THEN <<Frame("time", 0)>> ELSE << >>
      none == [kind |-> "empty", sample |-> 0, bytes |-> 0]
  IN  SubSeq(fifo, 1, k) \o
        IF k < Len(fifo) THEN Piece(fifo[k + 1], rest)
        ELSE time \o Piece(none, rest - Size(time))

----------------------------------------------------------------------------
(* bmp3_set_fifo_settings.                                                 *)

(* One transfer: the function goes on, or returns with its error.          *)
Goto(p) == pc' = p /\ UNCHANGED <<configs, sel>>
Return  == pc' = "idle" /\ sel' = {} /\ UNCHANGED configs

SetFifoSettings ==
  /\ pc = "idle"
  /\ configs < MaxConfigs /\ configs' = configs + 1
  /\ \E p \in Profiles, s \in Selections :
       /\ dev' = p /\ sel' = s
       /\ pc' = IF s \cap Fields # {} THEN "config_1" ELSE "config_2"
  /\ UNCHANGED <<chipVars, dataVars, histVars>>

(* FIFO_CONFIG_1 is done with: an error is forgotten if there is more.     *)
AfterConfig1 == IF "others" \in sel THEN Goto("config_2") ELSE Return

(* fill_fifo_config_1: enabled pressure brings temperature with it.        *)
ReadConfig1 ==
  /\ pc = "config_1"
  /\ \/ Goto("config_1_write")
     \/ AfterConfig1
  /\ UNCHANGED <<chipVars, dev, dataVars, histVars>>

Filled == IF "press" \in sel /\ dev.press THEN [dev EXCEPT !.temp = TRUE] ELSE dev

WriteConfig1 ==
  /\ pc = "config_1_write"
  /\ dev' = Filled
  /\ WriteConfig([chip EXCEPT
       !.stop  = IF "stop" \in sel THEN dev'.stop ELSE @,
       !.time  = IF "time" \in sel THEN dev'.time ELSE @,
       !.press = IF "press" \in sel THEN dev'.press ELSE @,
       !.temp  = IF sel \cap {"press", "temp"} # {} THEN dev'.temp ELSE @])
  /\ AfterConfig1
  /\ UNCHANGED <<dataVars, given, timed, usable>>

ReadConfig2 ==
  /\ pc = "config_2"
  /\ Goto("config_2_write") \/ Return
  /\ UNCHANGED <<chipVars, dev, dataVars, histVars>>

WriteConfig2 ==
  /\ pc = "config_2_write"
  /\ Return
  /\ UNCHANGED <<chipVars, dev, dataVars, histVars>>

----------------------------------------------------------------------------
(* bmp3_get_fifo_data: the buffer is cleared first of all.  A client reads *)
(* again when there is no frame left, or when the last read has failed.    *)

GetFifoData ==
  /\ pc = "idle"
  /\ usable => frame_not_available
  /\ pc' = "length"
  /\ buffer' = << >> /\ byte_count' = 0 /\ start_idx' = 0
  /\ config_err' = FALSE /\ frame_not_available' = FALSE
  /\ given' = << >> /\ overran' = FALSE /\ usable' = FALSE
  /\ UNCHANGED <<chipVars, dev, configs, sel, timed>>

(* If the read is reported as failed the length is what the stack held.    *)
ReadLength ==
  /\ pc = "length"
  /\ \/ /\ byte_count' = Size(fifo) + (IF dev.time THEN Bytes["time"] ELSE 0)
        /\ Goto("data")
     \/ byte_count' \in {0, Capacity + Bytes["time"]} /\ Return
  /\ UNCHANGED <<chipVars, dev, buffer, start_idx, config_err, frame_not_available, histVars>>

(* The sensor parts with the frames that were read whole.                  *)
ReadFifo ==
  /\ pc = "data"
  /\ buffer' = Burst(byte_count)
  /\ fifo' = SubSeq(fifo, Whole(byte_count) + 1, Len(fifo))
  /\ timed' = [dev |-> dev.time, chip |-> chip.time]
  /\ usable' \in BOOLEAN
  /\ Return
  /\ UNCHANGED <<chip, samples, dev, byte_count, start_idx, config_err, frame_not_available,
                 given, overran>>

----------------------------------------------------------------------------
(* bmp3_extract_fifo_data.                                                 *)

(* get_header_info: the frame at an index of the buffer.  Where none       *)
(* begins the byte is a zero, part of an empty frame or data.              *)
Begins(i, at) == Size(SubSeq(buffer, 1, i - 1)) = at

HeaderAt(at) ==
  IF \E i \in 1 .. Len(buffer) : Begins(i, at)
  THEN buffer[CHOOSE i \in 1 .. Len(buffer) : Begins(i, at)]
  ELSE [kind |-> "empty", sample |-> 0, bytes |-> 0]

(* Mutation of Advance: the operation code of the frame is left.           *)
AdvanceHeader(kind) == IF kind \in {"change", "empty"} THEN 1 ELSE Bytes[kind]

(* The index moves on by the header and what the switch adds.              *)
Advance(kind) == IF kind \in {"change", "empty"} THEN 2 ELSE Bytes[kind]

(* parse_fifo_data_frame.                                                  *)
Parse(s) ==
  LET f == HeaderAt(s.at)
  IN  [at     |-> s.at + Advance(f.kind),
       frames |-> IF f.kind \in DataKinds THEN Append(s.frames, f) ELSE s.frames,
       err    |-> s.err \/ f.kind = "empty"]

(* Mutation of Parsed: the loop has no look at the byte count.             *)
ParsedPastEnd(req) ==
  FoldLeft(LAMBDA s, k : IF Len(s.frames) < req THEN Parse(s) ELSE s,
           [at |-> start_idx, frames |-> << >>, err |-> config_err],
           [k \in 1 .. byte_count |-> k])

(* The loop: until req frames are found or the bytes are used up.          *)
Parsed(req) ==
  FoldLeft(LAMBDA s, k : IF Len(s.frames) < req /\ s.at < byte_count THEN Parse(s) ELSE s,
           [at |-> start_idx, frames |-> << >>, err |-> config_err],
           [k \in 1 .. byte_count |-> k])

(* What was parsed without a data frame is parsed again.                   *)
Extract ==
  /\ pc = "idle" /\ usable /\ ~frame_not_available
  /\ \E req \in Requests :
       LET s == Parsed(req)
       IN  /\ IF s.frames = << >>
              THEN frame_not_available' = TRUE /\ UNCHANGED start_idx
              ELSE start_idx' = s.at /\ UNCHANGED frame_not_available
           /\ config_err' = s.err
           /\ given' = given \o s.frames
  /\ UNCHANGED <<chipVars, dev, pc, configs, sel, buffer, byte_count, timed, overran, usable>>

----------------------------------------------------------------------------
(* bmp3_fifo_flush.                                                        *)

FifoFlush ==
  /\ pc = "idle"
  /\ pc' = "cmd_rdy"
  /\ UNCHANGED <<chipVars, dev, configs, sel, dataVars, histVars>>

ReadCmdRdy ==
  /\ pc = "cmd_rdy"
  /\ Goto("flush") \/ Return
  /\ UNCHANGED <<chipVars, dev, dataVars, histVars>>

(* The FIFO is emptied, or the command is refused.                         *)
WriteFlush ==
  /\ pc = "flush"
  /\ fifo' \in {<< >>, fifo}
  /\ Goto("cmd_err") \/ Return
  /\ UNCHANGED <<chip, samples, dev, dataVars, histVars>>

ReadCmdErr ==
  /\ pc = "cmd_err"
  /\ Return
  /\ UNCHANGED <<chipVars, dev, dataVars, histVars>>

Next ==
  \/ Sample
  \/ SetFifoSettings \/ ReadConfig1 \/ WriteConfig1 \/ ReadConfig2 \/ WriteConfig2
  \/ GetFifoData \/ ReadLength \/ ReadFifo \/ Extract
  \/ FifoFlush \/ ReadCmdRdy \/ WriteFlush \/ ReadCmdErr

Spec == Init /\ [][Next]_vars

----------------------------------------------------------------------------
(* The data frames of a sequence of frames.                                *)
DataOf(fs) == FoldLeft(LAMBDA s, f : IF f.kind \in DataKinds THEN Append(s, f) ELSE s, << >>, fs)

DataFrames == DataOf(buffer)
IsWhole(f) == f.bytes = Bytes[f.kind]

(* A client may turn temperature off and leave pressure on: it is only the *)
(* setting of pressure that brings temperature with it (bmp3.c:2645).      *)
TempAlone == \E s \in Selections : "temp" \in s /\ "press" \notin s

(* The index of the parser never leaves the frames of the buffer: what is  *)
(* extracted is each data frame once and in order, all of them once the    *)
(* driver says that there is no frame left.  Pressure comes with its       *)
(* temperature, unless a client selects temperature alone.  The driver     *)
(* reads more bytes than the whole frames take in two cases: time_en has   *)
(* it ask for four more than the length it was told (bmp3.c:1031), or the  *)
(* full FIFO has lost frames since.  Only then is a frame cut, which is the *)
(* last; and an error is told only of empty bytes, which come of a lost    *)
(* frame or of a time_en that the sensor was not given, the write having   *)
(* failed and the error been swallowed.                                    *)
FramesExtracted ==
  /\ IsPrefix(given, DataFrames)
  /\ usable /\ frame_not_available => given = DataFrames
  /\ config_err => (timed.dev /\ ~timed.chip) \/ overran
  /\ \A i \in 1 .. Len(given) :
       /\ given[i].kind = "press" => TempAlone
       /\ IsWhole(given[i])
            \/ ((timed.dev \/ overran) /\ i = Len(given) /\ given[i] = Last(buffer))
=============================================================================
