-------------------------------- MODULE Bmp3 --------------------------------
(***************************************************************************)
(* The BMP3 driver of bmp3.c and the sensor it drives.  The driver is      *)
(* straight-line code with a bus transfer at each step; the sensor ends    *)
(* its measurements by itself between any two of them.                     *)
(*                                                                         *)
(* A transfer that returns has been made (Twi, HonestSuccess): the error   *)
(* twi_read or twi_write may report for it is the driver's BMP3_E_COMM_FAIL*)
(* all the same.                                                           *)
(*                                                                         *)
(* The sensor is external: its registers obey what bmp3.c and its comments *)
(* rely on.  FIFO, interrupt pin and I2C watchdog settings are left out.   *)
(***************************************************************************)
EXTENDS Integers

CONSTANTS
  Profiles,     (* bound: the settings a client may put into dev->settings *)
  Selections    (* bound: the desired_settings a client may pass           *)

Modes    == {"sleep", "forced", "normal"}
Settings == [mode : Modes, press : BOOLEAN, temp : BOOLEAN,
             pos : 0 .. 5, tos : 0 .. 5, odr : 0 .. 31, iir : 0 .. 7]
PwrSel   == {"press_en", "temp_en"}
OsrSel   == {"press_os", "temp_os"}
OdrSel   == OsrSel \cup {"odr", "iir"}

MaxOdr == 17     (* BMP3_ODR_0_001_HZ                                      *)

ASSUME Bmp3Assumption ==
  /\ Profiles \subseteq Settings
  /\ Selections \subseteq SUBSET (PwrSel \cup OdrSel)

VARIABLES
  chip,      (* the settings in the sensor's registers                     *)
  conv,      (* the measurement under way: "mine" was started since        *)
             (* bmp3_set_op_mode was last called                           *)
  data,      (* whose measurement the data registers hold                  *)
  cmderr,    (* the command error bit of the sensor                        *)
  dev,       (* dev->settings                                              *)
  status,    (* dev->status.err, from bmp3_get_status to the next call     *)
  got,       (* whose measurement bmp3_get_sensor_data returned, as above  *)
  pc,        (* the driver's next transfer                                 *)
  fn,        (* the function called, or that has returned if idle          *)
  sel,       (* desired_settings                                           *)
  reg,       (* register values read for a read-modify-write               *)
  rslt,      (* what the function returned                                 *)
  before     (* history: chip when bmp3_set_sensor_settings was called     *)

chipVars == <<chip, conv, data, cmderr>>
devVars  == <<dev, status, got>>
callVars == <<fn, sel, before>>
vars     == <<chipVars, devVars, pc, callVars, reg, rslt>>

Functions ==
  {"bmp3_init", "bmp3_soft_reset", "bmp3_set_sensor_settings", "bmp3_set_op_mode",
   "bmp3_get_sensor_settings", "bmp3_get_sensor_data", "bmp3_get_status"}

(* The first transfer of each function; that of bmp3_set_sensor_settings   *)
(* depends on what is selected.                                            *)
Entry(f) ==
  CASE f = "bmp3_init"                -> "chip_id"
    [] f = "bmp3_soft_reset"          -> "cmd_rdy"
    [] f = "bmp3_set_op_mode"         -> "mode"
    [] f = "bmp3_get_sensor_settings" -> "settings"
    [] f = "bmp3_get_sensor_data"     -> "data"
    [] f = "bmp3_get_status"          -> "sens_status"

Pcs == {"idle", "chip_id", "cmd_rdy", "soft_reset", "cmd_err", "calib",
        "pwr", "pwr_write", "osr", "osr_write",
        "mode", "sleep", "sleep_write", "normal_osr", "power", "power_write", "conf_err",
        "settings", "data", "sens_status", "event", "int_status", "err"}

Results == {"none", "ok", "comm_fail", "dev_not_found", "cmd_exec_failed",
            "invalid_odr_osr", "configuration_err"}

TypeOK ==
  /\ chip \in Settings /\ chip.odr <= MaxOdr
  /\ dev \in Settings /\ reg \in Settings /\ before \in Settings
  /\ conv \in {"none", "mine", "other"}
  /\ data \in {"none", "partial", "mine", "other"}
  /\ cmderr \in BOOLEAN
  /\ status \in [fatal : BOOLEAN, cmd : BOOLEAN, conf : BOOLEAN]
  /\ got \in {"none", "partial", "mine", "other"}
  /\ pc \in Pcs
  /\ fn \in Functions \cup {"none"}
  /\ sel \in Selections \cup {{}}
  /\ rslt \in Results

(* The sensor's registers after power-on.                                  *)
ResetSettings == [mode |-> "sleep", press |-> FALSE, temp |-> FALSE,
                  pos |-> 2, tos |-> 0, odr |-> 0, iir |-> 0]

(* struct bmp3_dev, static and zeroed.                                     *)
ZeroSettings == [ResetSettings EXCEPT !.pos = 0]

NoStatus == [fatal |-> FALSE, cmd |-> FALSE, conf |-> FALSE]

Init ==
  /\ chip = ResetSettings /\ conv = "none" /\ data = "none" /\ cmderr = FALSE
  /\ dev = ZeroSettings
  /\ status = NoStatus /\ got = "none"
  /\ pc = "idle" /\ fn = "none" /\ sel = {} /\ before = ResetSettings
  /\ reg = ZeroSettings
  /\ rslt = "none"

----------------------------------------------------------------------------
(* Measurement time and data rate, in microseconds.                        *)

MeasTime(s) ==
  234 + (IF s.press THEN 392 + 2000 * 2 ^ s.pos ELSE 0)
      + (IF s.temp THEN 313 + 2000 * 2 ^ s.tos ELSE 0)

(* validate_osr_and_odr_settings.                                          *)
Proper(s) == MeasTime(s) < 5000 * 2 ^ s.odr

----------------------------------------------------------------------------
(* The sensor.                                                             *)

(* Its configuration error: normal mode cannot keep the rate.              *)
ConfError == chip.mode = "normal" /\ ~Proper(chip)

(* PWR_CTRL is written with v.  Out of sleep only sleep is accepted; from  *)
(* sleep, the other modes start to measure.                                *)
WritePwr(v) ==
  /\ chip' = [chip EXCEPT !.press = v.press, !.temp = v.temp,
                          !.mode = IF "sleep" \in {v.mode, chip.mode} THEN v.mode ELSE chip.mode]
  /\ conv' = IF v.mode = "sleep" THEN "none"
             ELSE IF chip.mode = "sleep" THEN "mine" ELSE conv
  /\ UNCHANGED <<data, cmderr>>

(* A measurement ends; in normal mode the next one begins.                 *)
Measured ==
  /\ conv # "none" /\ ~ConfError
  /\ data' = IF chip.press /\ chip.temp THEN conv ELSE "partial"
  /\ IF chip.mode = "normal"
     THEN conv' = "mine" /\ UNCHANGED chip
     ELSE conv' = "none" /\ chip' = [chip EXCEPT !.mode = "sleep"]
  /\ UNCHANGED <<cmderr, devVars, pc, callVars, reg, rslt>>

(* A soft reset is carried out, or refused with a command error.           *)
ObeyReset ==
  \/ chip' = ResetSettings /\ conv' = "none" /\ data' = "none" /\ cmderr' = FALSE
  \/ cmderr' = TRUE /\ UNCHANGED <<chip, conv, data>>

----------------------------------------------------------------------------
(* A function runs to its next transfer, or returns.                       *)

Goto(p) == pc' = p /\ UNCHANGED <<callVars, rslt, reg>>

(* What was read of a register is kept for the write.                      *)
Holding(p) == pc' = p /\ reg' = chip /\ UNCHANGED <<callVars, rslt>>

Finish(r) == pc' = "idle" /\ rslt' = r /\ reg' = ZeroSettings /\ UNCHANGED callVars

(* The transfer was reported as ok, or the function returns its failure.   *)
Then(ok, p) == IF ok THEN Goto(p) ELSE Finish("comm_fail")

ThenHolding(ok, p) == IF ok THEN Holding(p) ELSE Finish("comm_fail")

(* History only: from now on a measurement already begun is not "mine".    *)
Aged(x) == IF x \in {"mine", "partial"} THEN "other" ELSE x

Start(f) ==
  /\ pc = "idle"
  /\ fn' = f
  /\ pc' = Entry(f)
  /\ before' = ResetSettings /\ sel' = {} /\ rslt' = "none"
  /\ IF f = "bmp3_set_op_mode" THEN conv' = Aged(conv) /\ data' = Aged(data)
     ELSE UNCHANGED <<conv, data>>
  /\ status' = NoStatus /\ got' = "none"
  /\ UNCHANGED <<chip, cmderr, dev, reg>>

(* bmp3_set_sensor_settings with nothing selected makes no transfer.       *)
StartSettings(s) ==
  /\ pc = "idle"
  /\ fn' = "bmp3_set_sensor_settings"
  /\ sel' = s
  /\ before' = chip
  /\ pc' = IF s \cap PwrSel # {} THEN "pwr" ELSE IF s \cap OdrSel # {} THEN "osr" ELSE "idle"
  /\ rslt' = IF s = {} THEN "ok" ELSE "none"
  /\ status' = NoStatus /\ got' = "none"
  /\ UNCHANGED <<chipVars, dev, reg>>

----------------------------------------------------------------------------
(* bmp3_init and bmp3_soft_reset.                                          *)

ReadChipId ==
  /\ pc = "chip_id"
  /\ \E ok \in BOOLEAN : Then(ok, "cmd_rdy") \/ (ok /\ Finish("dev_not_found"))
  /\ UNCHANGED <<chipVars, devVars>>

ReadCmdRdy ==
  /\ pc = "cmd_rdy"
  /\ Goto("soft_reset") \/ Finish("cmd_exec_failed")
  /\ UNCHANGED <<chipVars, devVars>>

WriteSoftReset ==
  /\ pc = "soft_reset"
  /\ ObeyReset
  /\ \E ok \in BOOLEAN : Then(ok, "cmd_err")
  /\ UNCHANGED devVars

(* Mutation of ReadCmdErr: the bits looked at are not those of the errors. *)
ReadCmdErrBlind ==
  /\ pc = "cmd_err"
  /\ \E ok \in BOOLEAN :
       IF ~ok THEN Finish("cmd_exec_failed")
       ELSE IF fn = "bmp3_init" THEN Goto("calib") ELSE Finish("ok")
  /\ UNCHANGED <<chipVars, devVars>>

(* The mask is BMP3_REG_CMD, 0x7E: the configuration error is in it.       *)
ReadCmdErr ==
  /\ pc = "cmd_err"
  /\ \E ok \in BOOLEAN :
       IF ~ok \/ cmderr \/ ConfError THEN Finish("cmd_exec_failed")
       ELSE IF fn = "bmp3_init" THEN Goto("calib") ELSE Finish("ok")
  /\ UNCHANGED <<chipVars, devVars>>

ReadCalib ==
  /\ pc = "calib"
  /\ Finish("ok") \/ Finish("comm_fail")
  /\ UNCHANGED <<chipVars, devVars>>

----------------------------------------------------------------------------
(* bmp3_set_sensor_settings.                                               *)

ReadPwr ==
  /\ pc = "pwr"
  /\ \E ok \in BOOLEAN : ThenHolding(ok, "pwr_write")
  /\ UNCHANGED <<chipVars, devVars>>

(* The mode goes back as it was read.                                      *)
WritePwrCtrl ==
  /\ pc = "pwr_write"
  /\ WritePwr([reg EXCEPT !.press = IF "press_en" \in sel THEN dev.press ELSE @,
                          !.temp = IF "temp_en" \in sel THEN dev.temp ELSE @])
  /\ \E ok \in BOOLEAN :
       IF ok /\ sel \cap OdrSel = {} THEN Finish("ok") ELSE Then(ok, "osr")
  /\ UNCHANGED devVars

(* Mutation of ReadOsr: an odr out of range is written as it is.           *)
ReadOsrUnlimited ==
  /\ pc = "osr"
  /\ \E ok \in BOOLEAN :
       IF ok /\ dev.mode = "normal" /\ ~Proper(dev)
       THEN Finish("invalid_odr_osr") ELSE ThenHolding(ok, "osr_write")
  /\ UNCHANGED <<chipVars, devVars>>

(* What is to be written is filled in, an odr out of range is limited, and *)
(* for normal mode the settings of dev are validated.                      *)
ReadOsr ==
  /\ pc = "osr"
  /\ \E ok \in BOOLEAN :
       LET limited == IF ok /\ "odr" \in sel /\ dev.odr > MaxOdr
                      THEN [dev EXCEPT !.odr = MaxOdr] ELSE dev
       IN  /\ dev' = limited
           /\ IF ok /\ dev.mode = "normal" /\ ~Proper(limited)
              THEN Finish("invalid_odr_osr") ELSE ThenHolding(ok, "osr_write")
  /\ UNCHANGED <<chipVars, status, got>>

(* Mutation of WriteOsr: the selection of a single oversampling is lost.   *)
WriteOsrBoth ==
  /\ pc = "osr_write"
  /\ chip' = [chip EXCEPT
       !.pos = IF sel \cap OsrSel # {} THEN dev.pos ELSE @,
       !.tos = IF sel \cap OsrSel # {} THEN dev.tos ELSE @,
       !.odr = IF "odr" \in sel THEN dev.odr ELSE @,
       !.iir = IF "iir" \in sel THEN dev.iir ELSE @]
  /\ \E ok \in BOOLEAN : IF ok THEN Finish("ok") ELSE Finish("comm_fail")
  /\ UNCHANGED <<conv, data, cmderr, devVars>>

(* The burst write: a register is in it if one of its settings is selected.*)
WriteOsr ==
  /\ pc = "osr_write"
  /\ chip' = [chip EXCEPT
       !.pos = IF "press_os" \in sel THEN dev.pos ELSE IF "temp_os" \in sel THEN reg.pos ELSE @,
       !.tos = IF "temp_os" \in sel THEN dev.tos ELSE IF "press_os" \in sel THEN reg.tos ELSE @,
       !.odr = IF "odr" \in sel THEN dev.odr ELSE @,
       !.iir = IF "iir" \in sel THEN dev.iir ELSE @]
  /\ \E ok \in BOOLEAN : IF ok THEN Finish("ok") ELSE Finish("comm_fail")
  /\ UNCHANGED <<conv, data, cmderr, devVars>>

----------------------------------------------------------------------------
(* bmp3_set_op_mode.                                                       *)

(* Asleep, the wanted mode, that of dev, is set.                           *)
Dispatch ==
  CASE dev.mode = "sleep"  -> Finish("ok")
    [] dev.mode = "forced" -> Goto("power")
    [] dev.mode = "normal" -> Goto("normal_osr")

(* Mutation of ReadMode: the mode is set from whatever mode the chip is in.*)
ReadModeOnly ==
  /\ pc = "mode"
  /\ Dispatch \/ Finish("comm_fail")
  /\ UNCHANGED <<chipVars, devVars>>

(* The result of the read is looked at only if the chip is asleep:         *)
(* otherwise that of put_device_to_sleep takes its place.                  *)
ReadMode ==
  /\ pc = "mode"
  /\ \/ chip.mode # "sleep" /\ Goto("sleep")
     \/ chip.mode = "sleep" /\ (Dispatch \/ Finish("comm_fail"))
  /\ UNCHANGED <<chipVars, devVars>>

ReadToSleep ==
  /\ pc = "sleep"
  /\ \E ok \in BOOLEAN : ThenHolding(ok, "sleep_write")
  /\ UNCHANGED <<chipVars, devVars>>

WriteSleep ==
  /\ pc = "sleep_write"
  /\ WritePwr([reg EXCEPT !.mode = "sleep"])
  /\ Dispatch \/ Finish("comm_fail")
  /\ UNCHANGED devVars

(* validate_normal_mode_settings: what was read is parsed into dev even if *)
(* the read is reported as failed.                                         *)
ReadNormalOsr ==
  /\ pc = "normal_osr"
  /\ dev' = [dev EXCEPT !.pos = chip.pos, !.tos = chip.tos,
                        !.odr = chip.odr, !.iir = chip.iir]
  /\ \E ok \in BOOLEAN :
       IF ok /\ ~Proper(dev') THEN Finish("invalid_odr_osr") ELSE Then(ok, "power")
  /\ UNCHANGED <<chipVars, status, got>>

ReadPower ==
  /\ pc = "power"
  /\ \E ok \in BOOLEAN : ThenHolding(ok, "power_write")
  /\ UNCHANGED <<chipVars, devVars>>

WritePower ==
  /\ pc = "power_write"
  /\ WritePwr([reg EXCEPT !.mode = dev.mode])
  /\ \E ok \in BOOLEAN :
       IF ok /\ dev.mode = "forced" THEN Finish("ok") ELSE Then(ok, "conf_err")
  /\ UNCHANGED devVars

ReadConfErr ==
  /\ pc = "conf_err"
  /\ \/ Finish(IF ConfError THEN "configuration_err" ELSE "ok")
     \/ Finish("comm_fail")
  /\ UNCHANGED <<chipVars, devVars>>

----------------------------------------------------------------------------
(* bmp3_get_sensor_settings, bmp3_get_sensor_data and bmp3_get_status.     *)

ReadSettings ==
  /\ pc = "settings"
  /\ \/ Finish("ok") /\ dev' = chip
     \/ Finish("comm_fail") /\ UNCHANGED dev
  /\ UNCHANGED <<chipVars, status, got>>

ReadData ==
  /\ pc = "data"
  /\ \/ Finish("ok") /\ got' = data
     \/ Finish("comm_fail") /\ UNCHANGED got
  /\ UNCHANGED <<chipVars, dev, status>>

ReadStatus ==
  /\ \E next \in {<<"sens_status", "event">>, <<"event", "int_status">>,
                  <<"int_status", "err">>}, ok \in BOOLEAN :
       pc = next[1] /\ Then(ok, next[2])
  /\ UNCHANGED <<chipVars, devVars>>

(* get_err_status puts the bits into the fields one place on.              *)
ReadErr ==
  /\ pc = "err"
  /\ \/ Finish("ok") /\ status' = [cmd |-> FALSE, conf |-> cmderr, fatal |-> ConfError]
     \/ Finish("comm_fail") /\ UNCHANGED status
  /\ UNCHANGED <<chipVars, dev, got>>

----------------------------------------------------------------------------
(* A client fills dev->settings and calls the functions one after another. *)

Assign ==
  /\ pc = "idle"
  /\ dev' \in Profiles
  /\ status' = NoStatus /\ got' = "none"
  /\ fn' = "none" /\ sel' = {} /\ before' = ResetSettings /\ rslt' = "none"
  /\ UNCHANGED <<chipVars, pc, reg>>

Call ==
  \/ \E f \in Functions \ {"bmp3_set_sensor_settings"} : Start(f)
  \/ \E s \in Selections : StartSettings(s)

(* The microcontroller is reset between two transfers; the sensor is not.  *)
Restart ==
  /\ dev' = ZeroSettings
  /\ status' = NoStatus /\ got' = "none"
  /\ pc' = "idle" /\ fn' = "none" /\ sel' = {} /\ before' = ResetSettings
  /\ reg' = ZeroSettings /\ rslt' = "none"
  /\ UNCHANGED chipVars

Transfer ==
  \/ ReadChipId \/ ReadCmdRdy \/ WriteSoftReset \/ ReadCmdErr \/ ReadCalib
  \/ ReadPwr \/ WritePwrCtrl \/ ReadOsr \/ WriteOsr
  \/ ReadMode \/ ReadToSleep \/ WriteSleep
  \/ ReadNormalOsr \/ ReadPower \/ WritePower \/ ReadConfErr
  \/ ReadSettings \/ ReadData \/ ReadStatus \/ ReadErr

Next == Assign \/ Call \/ Transfer \/ Measured \/ Restart

Spec == Init /\ [][Next]_vars

----------------------------------------------------------------------------
Returned(f) == pc = "idle" /\ fn = f /\ rslt = "ok"

(* bmp3_set_op_mode that returns BMP3_OK has done what dev->settings asks, *)
(* from whatever mode the chip was in and though a forced measurement may  *)
(* have ended between any two transfers: the chip sleeps, or measures in   *)
(* normal mode at a rate it can keep, or has begun a forced measurement of *)
(* this call's (bmp3.c:1306).                                              *)
ModeObeyed ==
  Returned("bmp3_set_op_mode") =>
    CASE dev.mode = "sleep"  -> chip.mode = "sleep" /\ conv = "none"
      [] dev.mode = "normal" -> chip.mode = "normal" /\ Proper(chip)
      [] dev.mode = "forced" -> conv = "mine" \/ data \in {"mine", "partial"}

(* bmp3_set_sensor_settings that returns BMP3_OK has put the selected      *)
(* settings into the chip and has left the others there as they were, two  *)
(* of which share a register with each selected one (bmp3.c:870).          *)
SettingsWritten ==
  Returned("bmp3_set_sensor_settings") =>
    LET Want(s, field) == IF s \in sel THEN dev[field] ELSE before[field]
    IN  /\ chip.press = Want("press_en", "press") /\ chip.temp = Want("temp_en", "temp")
        /\ chip.pos = Want("press_os", "pos") /\ chip.tos = Want("temp_os", "tos")
        /\ chip.odr = Want("odr", "odr") /\ chip.iir = Want("iir", "iir")

(* bmp3_init and bmp3_soft_reset return BMP3_OK only if the chip has       *)
(* carried the reset out: it is asleep with its power-on settings, in      *)
(* whatever mode a microcontroller that was reset had left it, though the  *)
(* error bits are masked with a register address (bmp3.c:1237).            *)
ResetDone ==
  Returned("bmp3_init") \/ Returned("bmp3_soft_reset") =>
    chip = ResetSettings /\ conv = "none"

(* What bmp3_get_status reports as a fatal error is one (bmp3_defs.h):     *)
(* violated, the configuration error bit is put into dev->status.err.fatal *)
(* (bmp3.c:2794).                                                          *)
FatalIsFatal == ~status.fatal
=============================================================================
