----------------------------- MODULE Bmp3_proofs -----------------------------
(***************************************************************************)
(* Proofs about Bmp3, for every set of settings and selections a client    *)
(* may use.                                                                *)
(*                                                                         *)
(* The properties are about a function that has returned, and say nothing  *)
(* of the transfers on the way there.  DriverInv says of each what the     *)
(* function has achieved when it gets there, and that the sensor, which    *)
(* may end a measurement at any moment, does not undo it.                  *)
(***************************************************************************)
EXTENDS Bmp3, TLAPS

(* The function that makes a transfer.                                     *)
InInit     == pc \in {"chip_id", "cmd_rdy", "soft_reset", "cmd_err", "calib"}
InSettings == pc \in {"pwr", "pwr_write", "osr", "osr_write"}
InMode     == pc \in {"mode", "sleep", "sleep_write", "normal_osr", "power", "power_write", "conf_err"}
InRest     == pc \in {"settings", "data", "sens_status", "event", "int_status", "err"}

FnOf ==
  /\ InInit => fn \in {"bmp3_init", "bmp3_soft_reset"}
  /\ InSettings => fn = "bmp3_set_sensor_settings"
  /\ InMode => fn = "bmp3_set_op_mode"
  /\ InRest => fn \in {"bmp3_get_sensor_settings", "bmp3_get_sensor_data", "bmp3_get_status"}

(* The rate that is about to be written is one the sensor has.             *)
Limited == pc = "osr_write" /\ "odr" \in sel => dev.odr <= MaxOdr

(* The chip measures when it is awake.                                     *)
Awake3 == conv = "none" <=> chip.mode = "sleep"

(* A reset that was not refused has been carried out.                      *)
Obeyed == chip = ResetSettings /\ conv = "none"

ResetOn ==
  /\ pc = "cmd_err" /\ ~cmderr => Obeyed
  /\ pc = "calib" => Obeyed

(* What bmp3_set_sensor_settings has written, and what it has left alone.  *)
PwrOld == chip.press = before.press /\ chip.temp = before.temp
OsrOld == chip.pos = before.pos /\ chip.tos = before.tos /\ chip.odr = before.odr /\ chip.iir = before.iir
PwrPut ==
  /\ chip.press = IF "press_en" \in sel THEN dev.press ELSE before.press
  /\ chip.temp = IF "temp_en" \in sel THEN dev.temp ELSE before.temp

SettingsOn ==
  /\ InSettings => OsrOld
  /\ pc \in {"pwr", "pwr_write"} => PwrOld
  /\ pc = "pwr_write" => reg.press = before.press /\ reg.temp = before.temp
  /\ pc \in {"osr", "osr_write"} => PwrPut
  /\ pc = "osr_write" => reg.pos = before.pos /\ reg.tos = before.tos

(* bmp3_set_op_mode wakes the chip only from sleep, into the mode wanted.  *)
ModeOn ==
  /\ pc \in {"normal_osr", "power", "power_write"} => chip.mode = "sleep"
  /\ pc = "normal_osr" => dev.mode = "normal"
  /\ pc \in {"power", "power_write"} => dev.mode # "sleep"
  /\ pc = "conf_err" => dev.mode = "normal" /\ chip.mode = "normal"
  /\ Returned("bmp3_set_op_mode") /\ dev.mode = "forced" => conv # "other"

Typed == TypeOK /\ Limited

Achieved ==
  /\ FnOf /\ Awake3
  /\ ResetOn /\ SettingsOn /\ ModeOn
  /\ ResetDone /\ SettingsWritten /\ ModeObeyed

DriverInv == Typed /\ Achieved

----------------------------------------------------------------------------
(* Types, and the rate that is written.                                    *)

LEMMA ConstantSettings ==
  /\ ResetSettings \in Settings /\ ResetSettings.odr <= MaxOdr
  /\ ResetSettings.mode = "sleep" /\ ZeroSettings \in Settings
  /\ NoStatus \in [fatal : BOOLEAN, cmd : BOOLEAN, conf : BOOLEAN]
<1>1. ResetSettings \in Settings /\ ResetSettings.odr <= MaxOdr /\ ResetSettings.mode = "sleep"
  BY DEF ResetSettings, Settings, Modes, MaxOdr
<1> QED
  BY <1>1 DEF ZeroSettings, Settings, NoStatus

(* PWR_CTRL is written.                                                    *)
LEMMA PwrCtrlWritten ==
  ASSUME TypeOK, NEW v \in Settings, WritePwr(v)
  PROVE  /\ chip' \in Settings /\ conv' \in {"none", "mine", "other"}
         /\ UNCHANGED <<data, cmderr>>
         /\ chip'.press = v.press /\ chip'.temp = v.temp
         /\ chip'.pos = chip.pos /\ chip'.tos = chip.tos
         /\ chip'.odr = chip.odr /\ chip'.iir = chip.iir
         /\ chip'.mode = IF "sleep" \in {v.mode, chip.mode} THEN v.mode ELSE chip.mode
  BY DEF WritePwr, TypeOK, Settings, Modes

LEMMA TransferTyped == Typed /\ Transfer => Typed'
<1> SUFFICES ASSUME Typed, Transfer PROVE Typed'
  OBVIOUS
<1> USE DEF Typed
<1>a. /\ chip \in Settings /\ chip.odr <= MaxOdr /\ dev \in Settings /\ reg \in Settings
      /\ sel \in Selections \cup {{}}
  BY DEF TypeOK
<1>1. CASE \/ ReadChipId \/ ReadCmdRdy \/ ReadCmdErr \/ ReadCalib
           \/ ReadPwr \/ ReadMode \/ ReadToSleep \/ ReadPower \/ ReadConfErr
  <2>1. /\ pc' \in Pcs \ {"osr_write"} /\ rslt' \in Results /\ reg' \in Settings
        /\ UNCHANGED <<chipVars, devVars, callVars>>
    <3>1. CASE ReadChipId \/ ReadCmdRdy \/ ReadCmdErr \/ ReadCalib
      BY <3>1, <1>a, ConstantSettings DEF ReadChipId, ReadCmdRdy, ReadCmdErr, ReadCalib, Goto,
         Then, Finish, Pcs, Results, TypeOK
    <3>2. CASE ReadPwr \/ ReadToSleep \/ ReadPower \/ ReadConfErr
      BY <3>2, <1>a, ConstantSettings DEF ReadPwr, ReadToSleep, ReadPower, ReadConfErr, Holding,
         ThenHolding, Finish, Pcs, Results, TypeOK
    <3>3. CASE ReadMode
      BY <3>3, <1>a, ConstantSettings, ZenonT(40) DEF ReadMode, Dispatch, Goto, Finish, Pcs, Results, TypeOK,
         Settings, Modes
    <3> QED
      BY <1>1, <3>1, <3>2, <3>3
  <2> QED
    BY <2>1 DEF TypeOK, Limited, chipVars, devVars, callVars
<1>2. CASE WriteSoftReset
  <2>1. /\ pc' \in Pcs \ {"osr_write"} /\ rslt' \in Results /\ reg' \in Settings
        /\ UNCHANGED <<devVars, callVars>>
    BY <1>2, <1>a, ConstantSettings DEF WriteSoftReset, Then, Goto, Finish, Pcs, Results, TypeOK
  <2>2. /\ chip' \in Settings /\ chip'.odr <= MaxOdr
        /\ conv' \in {"none", "mine", "other"}
        /\ data' \in {"none", "partial", "mine", "other"} /\ cmderr' \in BOOLEAN
    BY <1>2, ConstantSettings DEF WriteSoftReset, ObeyReset, TypeOK
  <2> QED
    BY <2>1, <2>2 DEF TypeOK, Limited, devVars, callVars
<1>3. CASE WritePwrCtrl
  <2> DEFINE v == [reg EXCEPT !.press = IF "press_en" \in sel THEN dev.press ELSE @,
                              !.temp = IF "temp_en" \in sel THEN dev.temp ELSE @]
  <2>1. v \in Settings /\ WritePwr(v)
    BY <1>3, <1>a DEF WritePwrCtrl, Settings
  <2>2. /\ pc' \in Pcs \ {"osr_write"} /\ rslt' \in Results /\ reg' \in Settings
        /\ UNCHANGED <<devVars, callVars>>
    BY <1>3, <1>a, ConstantSettings DEF WritePwrCtrl, Then, Goto, Finish, Pcs, Results, TypeOK
  <2> HIDE DEF v
  <2> QED
    BY <2>1, <2>2, PwrCtrlWritten DEF TypeOK, Limited, devVars, callVars
<1>4. CASE ReadOsr
  <2>1. PICK ok \in BOOLEAN :
          LET limited == IF ok /\ "odr" \in sel /\ dev.odr > MaxOdr
                         THEN [dev EXCEPT !.odr = MaxOdr] ELSE dev
          IN  /\ dev' = limited
              /\ IF ok /\ dev.mode = "normal" /\ ~Proper(limited)
                 THEN Finish("invalid_odr_osr") ELSE ThenHolding(ok, "osr_write")
    BY <1>4 DEF ReadOsr
  <2>2. dev' \in Settings /\ (ok /\ "odr" \in sel => dev'.odr <= MaxOdr)
    BY <2>1, <1>a DEF Settings, MaxOdr
  <2>3. /\ pc' \in Pcs /\ rslt' \in Results /\ reg' \in Settings
        /\ pc' = "osr_write" => ok
        /\ UNCHANGED <<chipVars, status, got, callVars>>
    BY <1>4, <2>1, <1>a, ConstantSettings DEF ReadOsr, ThenHolding, Holding, Finish, Pcs, Results, TypeOK
  <2> QED
    BY <2>2, <2>3 DEF TypeOK, Limited, chipVars, callVars
<1>5. CASE WriteOsr
  <2>1. chip' \in Settings /\ chip'.odr <= MaxOdr
    BY <1>5, <1>a DEF WriteOsr, Limited, Settings
  <2>2. /\ pc' = "idle" /\ rslt' \in Results /\ reg' \in Settings
        /\ UNCHANGED <<conv, data, cmderr, devVars, callVars>>
    BY <1>5, ConstantSettings DEF WriteOsr, Finish, Results
  <2> QED
    BY <2>1, <2>2 DEF TypeOK, Limited, Pcs, devVars, callVars
<1>6. CASE WriteSleep
  <2>1. [reg EXCEPT !.mode = "sleep"] \in Settings
    BY <1>a DEF Settings, Modes
  <2>2. /\ pc' \in Pcs \ {"osr_write"} /\ rslt' \in Results /\ reg' \in Settings
        /\ UNCHANGED <<devVars, callVars>>
    BY <1>6, <1>a, ConstantSettings, ZenonT(40) DEF WriteSleep, Dispatch, Goto, Finish, Pcs, Results, TypeOK,
       Settings, Modes
  <2> QED
    BY <1>6, <2>1, <2>2, PwrCtrlWritten DEF WriteSleep, TypeOK, Limited, devVars, callVars
<1>7. CASE ReadNormalOsr
  <2>1. dev' \in Settings
    BY <1>7, <1>a DEF ReadNormalOsr, Settings
  <2>2. /\ pc' \in Pcs \ {"osr_write"} /\ rslt' \in Results /\ reg' \in Settings
        /\ UNCHANGED <<chipVars, status, got, callVars>>
    BY <1>7, <1>a, ConstantSettings DEF ReadNormalOsr, Then, Goto, Finish, Pcs, Results, TypeOK
  <2> QED
    BY <2>1, <2>2 DEF TypeOK, Limited, chipVars, callVars
<1>8. CASE WritePower
  <2>1. [reg EXCEPT !.mode = dev.mode] \in Settings
    BY <1>a DEF Settings
  <2>2. /\ pc' \in Pcs \ {"osr_write"} /\ rslt' \in Results /\ reg' \in Settings
        /\ UNCHANGED <<devVars, callVars>>
    BY <1>8, <1>a, ConstantSettings DEF WritePower, Then, Goto, Finish, Pcs, Results, TypeOK
  <2> QED
    BY <1>8, <2>1, <2>2, PwrCtrlWritten DEF WritePower, TypeOK, Limited, devVars, callVars
<1>9. CASE ReadSettings \/ ReadData \/ ReadStatus \/ ReadErr
  <2>1. /\ pc' \in Pcs \ {"osr_write"} /\ rslt' \in Results /\ reg' \in Settings
        /\ UNCHANGED <<chipVars, callVars>>
    <3>1. CASE ReadSettings \/ ReadData \/ ReadErr
      BY <3>1, ConstantSettings DEF ReadSettings, ReadData, ReadErr, Finish, Pcs, Results
    <3>2. CASE ReadStatus
      BY <3>2, <1>a, ConstantSettings DEF ReadStatus, Then, Goto, Finish, Pcs, Results, TypeOK
    <3> QED
      BY <1>9, <3>1, <3>2
  <2>2. /\ dev' \in Settings /\ got' \in {"none", "partial", "mine", "other"}
        /\ status' \in [fatal : BOOLEAN, cmd : BOOLEAN, conf : BOOLEAN]
    <3>1. CASE ReadSettings \/ ReadData \/ ReadStatus
      BY <1>a, <3>1 DEF ReadSettings, ReadData, ReadStatus, TypeOK, devVars
    <3>2. CASE ReadErr
      <4>1. ConfError \in BOOLEAN
        BY DEF ConfError
      <4>2. /\ dev' = dev /\ got' = got
            /\ status' = status \/ status' = [cmd |-> FALSE, conf |-> cmderr, fatal |-> ConfError]
        BY <3>2 DEF ReadErr
      <4>3. cmderr \in BOOLEAN /\ status \in [fatal : BOOLEAN, cmd : BOOLEAN, conf : BOOLEAN]
            /\ got \in {"none", "partial", "mine", "other"}
        BY DEF TypeOK
      <4>4. \A c, e \in BOOLEAN : [cmd |-> FALSE, conf |-> c, fatal |-> e] \in
                [fatal : BOOLEAN, cmd : BOOLEAN, conf : BOOLEAN]
        OBVIOUS
      <4>5. status' \in [fatal : BOOLEAN, cmd : BOOLEAN, conf : BOOLEAN]
        BY <4>1, <4>2, <4>3, <4>4, Zenon
      <4> QED
        BY <1>a, <4>2, <4>3, <4>5
    <3> QED
      BY <1>9, <3>1, <3>2
  <2> QED
    BY <2>1, <2>2 DEF TypeOK, Limited, chipVars, callVars
<1> QED
  BY <1>1, <1>2, <1>3, <1>4, <1>5, <1>6, <1>7, <1>8, <1>9 DEF Transfer
----------------------------------------------------------------------------
(* bmp3_init and bmp3_soft_reset.                                          *)
LEMMA ResetFunction ==
  ASSUME DriverInv, ReadChipId \/ ReadCmdRdy \/ WriteSoftReset \/ ReadCmdErr \/ ReadCalib
  PROVE  Achieved'
<1> USE DEF DriverInv, Achieved, FnOf, InInit, InSettings, InMode, InRest, Awake3, ResetOn, Obeyed,
            SettingsOn, ModeOn, Returned, ResetDone, SettingsWritten, ModeObeyed
<1>1. /\ pc' \in {"cmd_rdy", "soft_reset", "cmd_err", "calib", "idle"}
      /\ fn' = fn /\ fn \in {"bmp3_init", "bmp3_soft_reset"}
  BY DEF ReadChipId, ReadCmdRdy, WriteSoftReset, ReadCmdErr, ReadCalib, Goto, Then, Finish, callVars
<1>2. CASE ReadChipId \/ ReadCmdRdy
  <2>1. pc' \in {"cmd_rdy", "soft_reset"} \/ (pc' = "idle" /\ rslt' # "ok")
    BY <1>2 DEF ReadChipId, ReadCmdRdy, Goto, Then, Finish
  <2> QED
    BY <1>1, <1>2, <2>1 DEF ReadChipId, ReadCmdRdy, chipVars
<1>3. CASE WriteSoftReset
  <2>1. pc' = "cmd_err" \/ (pc' = "idle" /\ rslt' # "ok")
    BY <1>3 DEF WriteSoftReset, Goto, Then, Finish
  <2> QED
    BY <1>1, <1>3, <2>1, ConstantSettings DEF WriteSoftReset, ObeyReset
<1>4. CASE ReadCmdErr \/ ReadCalib
  <2>1. UNCHANGED chipVars /\ pc' \in {"calib", "idle"}
    BY <1>4 DEF ReadCmdErr, ReadCalib, Goto, Finish
  <2>2. pc' = "calib" \/ (pc' = "idle" /\ rslt' = "ok") => Obeyed
    BY <1>4 DEF ReadCmdErr, ReadCalib, Goto, Finish
  <2> QED
    BY <1>1, <2>1, <2>2 DEF chipVars
<1> QED
  BY <1>2, <1>3, <1>4

(* bmp3_set_sensor_settings.                                               *)
LEMMA SettingsFunction ==
  ASSUME DriverInv, ReadPwr \/ WritePwrCtrl \/ ReadOsr \/ WriteOsr
  PROVE  Achieved'
<1> USE DEF DriverInv, Typed, Achieved, FnOf, InInit, InSettings, InMode, InRest, Awake3, ResetOn,
            SettingsOn, ModeOn, Returned, ResetDone, ModeObeyed, PwrOld, OsrOld, PwrPut
<1>a. /\ chip \in Settings /\ dev \in Settings /\ reg \in Settings
      /\ sel \subseteq PwrSel \cup OdrSel
  BY Bmp3Assumption DEF TypeOK
<1>b. /\ pc' \in {"pwr_write", "osr", "osr_write", "idle"}
      /\ fn = "bmp3_set_sensor_settings" /\ UNCHANGED callVars
  BY DEF ReadPwr, WritePwrCtrl, ReadOsr, WriteOsr, Goto, Holding, Then, ThenHolding, Finish
<1>1. CASE ReadPwr
  <2>1. /\ (pc' = "pwr_write" /\ reg' = chip) \/ (pc' = "idle" /\ rslt' # "ok")
        /\ UNCHANGED <<chipVars, devVars>>
    BY <1>1 DEF ReadPwr, ThenHolding, Holding, Finish
  <2> QED
    BY <1>1, <1>b, <2>1 DEF ReadPwr, SettingsWritten, chipVars, devVars, callVars
<1>2. CASE WritePwrCtrl
  <2> DEFINE v == [reg EXCEPT !.press = IF "press_en" \in sel THEN dev.press ELSE @,
                              !.temp = IF "temp_en" \in sel THEN dev.temp ELSE @]
  <2>1. /\ v \in Settings /\ WritePwr(v)
        /\ v.press = IF "press_en" \in sel THEN dev.press ELSE reg.press
        /\ v.temp = IF "temp_en" \in sel THEN dev.temp ELSE reg.temp
    BY <1>2, <1>a DEF WritePwrCtrl, Settings
  <2>2. conv' = IF v.mode = "sleep" THEN "none" ELSE IF chip.mode = "sleep" THEN "mine" ELSE conv
    BY <2>1 DEF WritePwr
  <2> HIDE DEF v
  <2>3. /\ \/ pc' = "osr"
           \/ pc' = "idle" /\ rslt' = "ok" /\ sel \cap OdrSel = {}
           \/ pc' = "idle" /\ rslt' # "ok"
        /\ UNCHANGED devVars
    BY <1>2 DEF WritePwrCtrl, Then, Goto, Finish
  <2>4. PwrPut' /\ OsrOld' /\ Awake3'
    BY <1>2, <1>b, <2>1, <2>2, <2>3, PwrCtrlWritten DEF WritePwrCtrl, callVars, devVars
  <2>5. pc' = "idle" /\ rslt' = "ok" => SettingsWritten'
    BY <1>b, <2>3, <2>4 DEF SettingsWritten, callVars, devVars, OdrSel, OsrSel
  <2> QED
    BY <1>b, <2>3, <2>4, <2>5 DEF SettingsWritten, callVars, devVars
<1>3. CASE ReadOsr
  <2>1. /\ (pc' = "osr_write" /\ reg' = chip) \/ (pc' = "idle" /\ rslt' # "ok")
        /\ UNCHANGED chipVars
    BY <1>3 DEF ReadOsr, ThenHolding, Holding, Finish
  <2>2. dev'.press = dev.press /\ dev'.temp = dev.temp
    BY <1>3, <1>a DEF ReadOsr, Settings
  <2> QED
    BY <1>3, <1>b, <2>1, <2>2 DEF ReadOsr, SettingsWritten, chipVars, callVars
<1>4. CASE WriteOsr
  <2>1. /\ chip'.mode = chip.mode /\ chip'.press = chip.press /\ chip'.temp = chip.temp
        /\ chip'.pos = IF "press_os" \in sel THEN dev.pos ELSE IF "temp_os" \in sel THEN reg.pos ELSE chip.pos
        /\ chip'.tos = IF "temp_os" \in sel THEN dev.tos ELSE IF "press_os" \in sel THEN reg.tos ELSE chip.tos
        /\ chip'.odr = IF "odr" \in sel THEN dev.odr ELSE chip.odr
        /\ chip'.iir = IF "iir" \in sel THEN dev.iir ELSE chip.iir
        /\ pc' = "idle"
        /\ UNCHANGED <<conv, data, cmderr, devVars>>
    BY <1>4, <1>a DEF WriteOsr, Settings, Finish
  <2>2. SettingsWritten'
    BY <1>4, <1>b, <2>1 DEF WriteOsr, SettingsWritten, callVars, devVars
  <2> QED
    BY <1>b, <2>1, <2>2 DEF callVars, devVars
<1> QED
  BY <1>1, <1>2, <1>3, <1>4

(* bmp3_set_op_mode.                                                       *)
LEMMA ModeFunction ==
  ASSUME DriverInv,
         \/ ReadMode \/ ReadToSleep \/ WriteSleep
         \/ ReadNormalOsr \/ ReadPower \/ WritePower \/ ReadConfErr
  PROVE  Achieved'
<1> USE DEF DriverInv, Typed, Achieved, FnOf, InInit, InSettings, InMode, InRest, Awake3, ResetOn,
            SettingsOn, ModeOn, Returned, ResetDone, SettingsWritten, ModeObeyed
<1>a. /\ chip \in Settings /\ dev \in Settings /\ reg \in Settings /\ dev.mode \in Modes
  BY DEF TypeOK, Settings
<1>b. fn = "bmp3_set_op_mode" /\ fn' = fn
  BY <1>a DEF ReadMode, ReadToSleep, WriteSleep, ReadNormalOsr, ReadPower, WritePower, ReadConfErr,
     Dispatch, Goto, Holding, Then, ThenHolding, Finish, callVars, Modes
(* Once asleep: the function is done, or goes on to wake the chip.         *)
<1>c. Dispatch => \/ dev.mode = "sleep" /\ pc' = "idle"
                  \/ dev.mode = "forced" /\ pc' = "power"
                  \/ dev.mode = "normal" /\ pc' = "normal_osr"
  BY <1>a DEF Dispatch, Goto, Finish, Modes
<1>1. CASE ReadMode
  <2>1. /\ \/ pc' = "sleep"
           \/ chip.mode = "sleep" /\ Dispatch
           \/ pc' = "idle" /\ rslt' # "ok"
        /\ UNCHANGED <<chipVars, devVars>>
    BY <1>1 DEF ReadMode, Goto, Finish
  <2> QED
    BY <1>b, <1>c, <2>1 DEF chipVars, devVars
<1>2. CASE ReadToSleep
  <2>1. /\ pc' = "sleep_write" \/ (pc' = "idle" /\ rslt' # "ok")
        /\ UNCHANGED <<chipVars, devVars>>
    BY <1>2 DEF ReadToSleep, ThenHolding, Holding, Finish
  <2> QED
    BY <1>b, <2>1 DEF chipVars, devVars
<1>3. CASE WriteSleep
  <2> DEFINE v == [reg EXCEPT !.mode = "sleep"]
  <2>1. v \in Settings /\ v.mode = "sleep" /\ WritePwr(v)
    BY <1>3, <1>a DEF WriteSleep, Settings, Modes
  <2>2. conv' = "none"
    BY <2>1 DEF WritePwr
  <2> HIDE DEF v
  <2>3. chip'.mode = "sleep"
    BY <2>1, PwrCtrlWritten
  <2>4. /\ Dispatch \/ (pc' = "idle" /\ rslt' # "ok")
        /\ UNCHANGED devVars
    BY <1>3 DEF WriteSleep, Finish
  <2> QED
    BY <1>b, <1>c, <2>2, <2>3, <2>4 DEF devVars
<1>4. CASE ReadNormalOsr
  <2>1. /\ pc' = "power" \/ (pc' = "idle" /\ rslt' # "ok")
        /\ dev'.mode = dev.mode
        /\ UNCHANGED chipVars
    BY <1>4, <1>a DEF ReadNormalOsr, Then, Goto, Finish, Settings
  <2> QED
    BY <1>4, <1>b, <2>1 DEF ReadNormalOsr, chipVars
<1>5. CASE ReadPower
  <2>1. /\ pc' = "power_write" \/ (pc' = "idle" /\ rslt' # "ok")
        /\ UNCHANGED <<chipVars, devVars>>
    BY <1>5 DEF ReadPower, ThenHolding, Holding, Finish
  <2> QED
    BY <1>5, <1>b, <2>1 DEF ReadPower, chipVars, devVars
<1>6. CASE WritePower
  <2> DEFINE v == [reg EXCEPT !.mode = dev.mode]
  <2>1. v \in Settings /\ v.mode = dev.mode /\ WritePwr(v) /\ chip.mode = "sleep" /\ dev.mode # "sleep"
    BY <1>6, <1>a DEF WritePower, Settings
  <2>2. conv' = "mine"
    BY <2>1 DEF WritePwr
  <2> HIDE DEF v
  <2>3. chip'.mode = dev.mode
    BY <2>1, PwrCtrlWritten
  <2>4. /\ \/ pc' = "idle" /\ dev.mode = "forced"
           \/ pc' = "conf_err" /\ dev.mode = "normal"
           \/ pc' = "idle" /\ rslt' # "ok"
        /\ UNCHANGED devVars
    BY <1>6, <1>a, <2>1 DEF WritePower, Then, Goto, Finish, Modes
  <2> QED
    BY <1>b, <2>1, <2>2, <2>3, <2>4 DEF devVars
<1>7. CASE ReadConfErr
  <2>1. /\ pc' = "idle"
        /\ rslt' = "ok" => Proper(chip)
        /\ UNCHANGED <<chipVars, devVars>>
    BY <1>7 DEF ReadConfErr, Finish, ConfError
  <2> QED
    BY <1>7, <1>b, <2>1 DEF ReadConfErr, chipVars, devVars
<1> QED
  BY <1>1, <1>2, <1>3, <1>4, <1>5, <1>6, <1>7

(* The functions that only read.                                           *)
LEMMA RestFunctions ==
  ASSUME DriverInv, ReadSettings \/ ReadData \/ ReadStatus \/ ReadErr
  PROVE  Achieved'
<1> USE DEF DriverInv, Achieved, FnOf, InInit, InSettings, InMode, InRest, Awake3, ResetOn, Obeyed,
            SettingsOn, ModeOn, Returned, ResetDone, SettingsWritten, ModeObeyed
<1>1. /\ pc' \in {"idle", "event", "int_status", "err"} /\ fn' = fn
      /\ fn \in {"bmp3_get_sensor_settings", "bmp3_get_sensor_data", "bmp3_get_status"}
      /\ UNCHANGED chipVars
  <2>1. CASE ReadSettings \/ ReadData \/ ReadErr
    BY <2>1 DEF ReadSettings, ReadData, ReadErr, Finish, callVars
  <2>2. CASE ReadStatus
    BY <2>2 DEF ReadStatus, Then, Goto, Finish, callVars
  <2> QED
    BY <2>1, <2>2
<1> QED
  BY <1>1 DEF chipVars

----------------------------------------------------------------------------
(* The sensor ends a measurement under the feet of the driver.             *)
LEMMA DriverMeasured == DriverInv /\ Measured => DriverInv'
<1> SUFFICES ASSUME DriverInv, Measured PROVE DriverInv'
  OBVIOUS
<1>1. chip \in Settings
  BY DEF DriverInv, Typed, TypeOK
<1>2. /\ \/ chip' = chip /\ chip.mode = "normal" /\ conv' = "mine"
         \/ chip' = [chip EXCEPT !.mode = "sleep"] /\ chip.mode # "normal" /\ conv' = "none"
      /\ data' = IF chip.press /\ chip.temp THEN conv ELSE "partial"
      /\ conv # "none"
      /\ UNCHANGED <<cmderr, devVars, pc, callVars, reg, rslt>>
  BY DEF Measured
<1>3. /\ chip' \in Settings /\ chip'.odr = chip.odr /\ chip'.press = chip.press
      /\ chip'.temp = chip.temp /\ chip'.pos = chip.pos /\ chip'.tos = chip.tos
      /\ chip'.iir = chip.iir
      /\ \/ chip' = chip /\ chip.mode = "normal" /\ conv' = "mine"
         \/ chip'.mode = "sleep" /\ chip.mode # "normal" /\ conv' = "none"
  BY <1>1, <1>2 DEF Settings, Modes
<1>4. Typed'
  BY <1>2, <1>3 DEF DriverInv, Typed, TypeOK, Limited, devVars, callVars
<1>5. chip.mode # "sleep"
  BY <1>2 DEF DriverInv, Achieved, Awake3
<1> USE DEF DriverInv, Achieved, devVars, callVars
<1>6. FnOf' /\ Awake3'
  BY <1>2, <1>3 DEF FnOf, InInit, InSettings, InMode, InRest, Awake3
<1>7. ResetOn' /\ ResetDone'
  BY <1>2, <1>5, ConstantSettings DEF ResetOn, ResetDone, Obeyed, Returned
<1>8. SettingsOn' /\ SettingsWritten'
  BY <1>2, <1>3 DEF SettingsOn, SettingsWritten, Returned, PwrOld, OsrOld, PwrPut, InSettings
<1>9. ModeOn'
  BY <1>2, <1>5 DEF ModeOn, Returned
<1>10. ModeObeyed'
  <2> SUFFICES ASSUME Returned("bmp3_set_op_mode")' PROVE ModeObeyed'
    BY DEF ModeObeyed
  <2>1. /\ Returned("bmp3_set_op_mode") /\ dev' = dev /\ dev.mode \in Modes
        /\ dev.mode = "forced" => conv = "mine"
    BY <1>2 DEF Returned, Typed, TypeOK, Settings, ModeOn
  <2>2. CASE dev.mode = "sleep"
    BY <1>5, <2>1, <2>2 DEF ModeObeyed
  <2>3. CASE dev.mode = "normal"
    BY <1>2, <2>1, <2>3 DEF ModeObeyed
  <2>4. CASE dev.mode = "forced"
    BY <1>2, <2>1, <2>4 DEF ModeObeyed
  <2> QED
    BY <2>1, <2>2, <2>3, <2>4 DEF Modes
<1> QED
  BY <1>4, <1>6, <1>7, <1>8, <1>9, <1>10

(* The client fills dev->settings, calls a function, or is restarted.      *)
LEMMA DriverCalled == DriverInv /\ (Assign \/ Call \/ Restart) => DriverInv'
<1> SUFFICES ASSUME DriverInv, Assign \/ Call \/ Restart PROVE DriverInv'
  OBVIOUS
<1> USE DEF DriverInv, Typed, Achieved, FnOf, InInit, InSettings, InMode, InRest, Awake3, ResetOn,
            SettingsOn, ModeOn, Returned, ResetDone, SettingsWritten, ModeObeyed, Limited
<1>1. CASE Assign
  <2>1. dev' \in Settings /\ pc' = "idle" /\ fn' = "none"
    BY <1>1, Bmp3Assumption DEF Assign
  <2> QED
    BY <1>1, <2>1, ConstantSettings
       DEF Assign, TypeOK, Pcs, Results, Functions, NoStatus, chipVars
<1>2. ASSUME NEW f \in Functions \ {"bmp3_set_sensor_settings"}, Start(f) PROVE DriverInv'
  <2>1. /\ pc' = Entry(f) /\ fn' = f /\ rslt' = "none" /\ sel' = {} /\ before' = ResetSettings
        /\ status' = NoStatus /\ got' = "none"
        /\ UNCHANGED <<chip, cmderr, dev, reg>>
    BY <1>2 DEF Start
  <2>2. \/ pc' = "chip_id" /\ f = "bmp3_init"
        \/ pc' = "cmd_rdy" /\ f = "bmp3_soft_reset"
        \/ pc' = "mode" /\ f = "bmp3_set_op_mode"
        \/ pc' = "settings" /\ f = "bmp3_get_sensor_settings"
        \/ pc' = "data" /\ f = "bmp3_get_sensor_data"
        \/ pc' = "sens_status" /\ f = "bmp3_get_status"
    BY <2>1 DEF Entry, Functions
  <2>3. /\ conv' \in {"none", "mine", "other"} /\ (conv' = "none" <=> conv = "none")
        /\ data' \in {"none", "partial", "mine", "other"}
    BY <1>2 DEF Start, Aged, TypeOK
  <2>4. Typed'
    <3>1. pc' \in Pcs \ {"osr_write"} /\ fn' \in Functions
      BY <2>1, <2>2 DEF Pcs
    <3> QED
      BY <2>1, <2>3, <3>1, ConstantSettings DEF TypeOK, Results
  <2>5. (FnOf /\ ResetOn /\ SettingsOn /\ ModeOn)'
    BY <2>1, <2>2
  <2>6. (Awake3 /\ ResetDone /\ SettingsWritten /\ ModeObeyed)'
    BY <2>1, <2>3
  <2> QED
    BY <2>4, <2>5, <2>6
<1>3. ASSUME NEW s \in Selections, StartSettings(s) PROVE DriverInv'
  <2>1. /\ fn' = "bmp3_set_sensor_settings" /\ sel' = s /\ before' = chip
        /\ pc' \in {"pwr", "osr", "idle"}
        /\ pc' = "osr" => s \cap PwrSel = {}
        /\ rslt' = IF s = {} THEN "ok" ELSE "none"
        /\ status' = NoStatus /\ got' = "none"
        /\ UNCHANGED <<chipVars, dev, reg>>
    BY <1>3 DEF StartSettings
  <2>2. TypeOK'
    BY <2>1 DEF TypeOK, Pcs, Results, Functions, NoStatus, chipVars
  <2>3. (Limited /\ FnOf /\ ResetOn /\ ModeOn /\ Awake3 /\ ResetDone /\ ModeObeyed)'
    BY <2>1 DEF chipVars
  <2>4. (SettingsOn /\ SettingsWritten)'
    BY <2>1 DEF chipVars, PwrOld, OsrOld, PwrPut, PwrSel
  <2> QED
    BY <2>2, <2>3, <2>4
<1>4. CASE Restart
  <2>1. TypeOK'
    BY <1>4, ConstantSettings DEF Restart, TypeOK, Pcs, Results, NoStatus, chipVars
  <2>2. pc' = "idle" /\ fn' = "none" /\ UNCHANGED <<chip, conv>>
    BY <1>4 DEF Restart, chipVars
  <2> QED
    BY <2>1, <2>2
<1> QED
  BY <1>1, <1>2, <1>3, <1>4 DEF Call

LEMMA DriverIdles == DriverInv /\ UNCHANGED vars => DriverInv'
<1> SUFFICES ASSUME DriverInv, UNCHANGED vars PROVE DriverInv'
  OBVIOUS
<1> USE DEF vars, chipVars, devVars, callVars, DriverInv, Typed, Achieved
<1>1. TypeOK' /\ Limited'
  BY DEF TypeOK, Limited
<1>2. FnOf' /\ Awake3' /\ ResetOn' /\ ModeOn'
  BY DEF FnOf, InInit, InSettings, InMode, InRest, Awake3, ResetOn, Obeyed, ModeOn, Returned
<1>3. SettingsOn' /\ ResetDone' /\ SettingsWritten'
  BY DEF SettingsOn, InSettings, PwrOld, OsrOld, PwrPut, ResetDone, SettingsWritten, Returned
<1>4. ModeObeyed'
  BY DEF ModeObeyed, Returned
<1> QED
  BY <1>1, <1>2, <1>3, <1>4

LEMMA DriverStarts == Init => DriverInv
<1>1. Init => Typed
  BY ConstantSettings DEF Init, Typed, TypeOK, Limited, Pcs, Results
<1>2. Init => Achieved
  BY ConstantSettings DEF Init, Achieved, FnOf, InInit, InSettings, InMode, InRest,
     Awake3, ResetOn, SettingsOn, ModeOn, Returned, ResetDone, SettingsWritten, ModeObeyed
<1> QED
  BY <1>1, <1>2 DEF DriverInv

THEOREM DriverInvariant == Spec => []DriverInv
<1>1. DriverInv /\ Transfer => DriverInv'
  BY TransferTyped, ResetFunction, SettingsFunction, ModeFunction, RestFunctions
     DEF DriverInv, Transfer
<1>2. DriverInv /\ [Next]_vars => DriverInv'
  BY <1>1, DriverCalled, DriverMeasured, DriverIdles DEF Next
<1> QED
  BY <1>2, DriverStarts, PTL DEF Spec

(* Every register has a value it can hold, whatever rate is asked for.     *)
THEOREM DriverTyped == Spec => []TypeOK
<1>1. DriverInv => TypeOK
  BY DEF DriverInv, Typed
<1> QED
  BY <1>1, DriverInvariant, PTL

(* bmp3_set_op_mode that returns BMP3_OK has done what it was asked.       *)
THEOREM ModeSet == Spec => []ModeObeyed
<1>1. DriverInv => ModeObeyed
  BY DEF DriverInv, Achieved
<1> QED
  BY <1>1, DriverInvariant, PTL

(* bmp3_set_sensor_settings that returns BMP3_OK has written what was      *)
(* selected and nothing else.                                              *)
THEOREM SettingsSet == Spec => []SettingsWritten
<1>1. DriverInv => SettingsWritten
  BY DEF DriverInv, Achieved
<1> QED
  BY <1>1, DriverInvariant, PTL

(* A soft reset that is reported as done has been done.                    *)
THEOREM ResetHonest == Spec => []ResetDone
<1>1. DriverInv => ResetDone
  BY DEF DriverInv, Achieved
<1> QED
  BY <1>1, DriverInvariant, PTL
=============================================================================
