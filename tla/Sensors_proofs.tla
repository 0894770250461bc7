--------------------------- MODULE Sensors_proofs ---------------------------
(***************************************************************************)
(* Proofs about Sensors.                                                   *)
(*                                                                         *)
(* Compensated and StartsAtRest say what is true of a step of get_data     *)
(* because of what went before it: the boot, or the drivers called earlier *)
(* in the same get_data.  IInv carries that from step to step, whatever    *)
(* bmp3.c does.  What bmp3.c does is BmpInv.  Held says whose sample is    *)
(* where when the drivers get to a step; with both of them it is           *)
(* inductive, and gives RecordHonest.                                      *)
(*                                                                         *)
(* The last section is about Coeffs, for every raw value of a coefficient. *)
(***************************************************************************)
EXTENDS Sensors, Bmp3_proofs, Coeffs

Registers == {"PRS_CFG", "TMP_CFG", "CFG_REG"}

DpsType  == [ready : BOOLEAN, coefs : BOOLEAN, cfg : SUBSET Registers,
             meas : {"none", "tmp", "prs"}, whose : Owners, tmp : Owners, prs : Owners]
SmpbType == [iir : BOOLEAN, meas : Owners, data : Owners]

(* As much of the type as the proofs need.                                 *)
ChipsTyped ==
  /\ dps \in DpsType /\ smpb \in SmpbType
  /\ dcoeffs \in {"none", "good"} /\ scoeffs \in {"none", "good"}

(* What the boot has done when it gets to a step.                          *)
Booted ==
  /\ step = "coeffs" => dps.coefs
  /\ step \in {"PRS_CFG", "TMP_CFG", "CFG_REG", "smpb_coeffs", "IIR_CNT"} => dcoeffs = "good"
  /\ step = "TMP_CFG" => "PRS_CFG" \in dps.cfg
  /\ step = "CFG_REG" => {"PRS_CFG", "TMP_CFG"} \subseteq dps.cfg
  /\ step \in {"smpb_coeffs", "IIR_CNT"} => dps.cfg = Registers
  /\ step = "IIR_CNT" => scoeffs = "good"

(* Who may be measuring: nobody once the BMP388 has been read, but the one *)
(* that was started last.                                                  *)
Quiet ==
  /\ step = "bmp388" /\ at = "data" => AtRest
  /\ step \in {"snsr_rdy", "start_tmp", "start_prs", "CTRL_MEAS"} => AtRest
  /\ step \in {"tmp", "prs"} => smpb.meas = "none"

IInv == ChipsTyped /\ Booted /\ Compensated /\ Quiet

LEMMA Starts == SensorsInit => IInv
  BY DEF SensorsInit, BmpInit, IInv, ChipsTyped, Booted, Compensated, Quiet, DataSteps, Owners,
         Registers, DpsType, SmpbType

(* The steps of the boot.                                                  *)
LEMMA BootKeeps ==
  ASSUME IInv,
         \/ BmpInitialized \/ InitReady \/ PollCoefs \/ ReadCoeffs \/ Configure
         \/ SmpbCoeffs \/ SmpbFilter \/ SensorsReset
  PROVE  IInv'
<1> USE DEF IInv, ChipsTyped, Booted, Compensated, Quiet, DataSteps, Registers, AtRest
<1>1. CASE BmpInitialized
  BY <1>1 DEF BmpInitialized
<1>2. CASE InitReady
  BY <1>2 DEF InitReady, Goes
<1>3. CASE PollCoefs
  BY <1>3 DEF PollCoefs, Goes
<1>4. CASE ReadCoeffs
  BY <1>4 DEF ReadCoeffs, Goes
<1>5. CASE Configure
  BY <1>5 DEF Configure, Goes, DpsType
<1>6. CASE SmpbCoeffs
  BY <1>6 DEF SmpbCoeffs, Goes
<1>7. CASE SmpbFilter
  BY <1>7 DEF SmpbFilter, Goes, SmpbType
<1>8. CASE SensorsReset
  BY <1>8 DEF SensorsReset
<1> QED
  BY <1>1, <1>2, <1>3, <1>4, <1>5, <1>6, <1>7, <1>8

(* The steps of get_data.                                                  *)
LEMMA DataKeeps ==
  ASSUME IInv,
         \/ Measure \/ BmpReturns \/ PollReady \/ DpsStart \/ DpsTemperature \/ DpsPressure
         \/ SmpbStart \/ SmpbTemperature \/ SmpbPressure \/ Record
  PROVE  IInv'
<1> USE DEF IInv, ChipsTyped, Booted, Compensated, Quiet, DataSteps, Registers, AtRest
<1>1. CASE Measure
  <2>1. dps' \in DpsType /\ dps'.cfg = dps.cfg /\ dps'.coefs = dps.coefs
    <3>1. \A x \in Owners : Older(x) \in Owners
      BY DEF Older, Owners
    <3> QED
      BY <1>1, <3>1 DEF Measure, DpsType
  <2>2. smpb' \in SmpbType /\ smpb'.iir = smpb.iir
    BY <1>1 DEF Measure, SmpbType, Older, Owners
  <2> QED
    BY <1>1, <2>1, <2>2 DEF Measure, GetData
<1>2. CASE BmpReturns
  <2>1. err' = "ok" => at = "data"
    BY <1>2 DEF BmpReturns, GetDataReturns, After, Failed
  <2> QED
    BY <1>2, <2>1 DEF BmpReturns, Returns
<1>3. CASE PollReady
  BY <1>3 DEF PollReady, Goes
<1>4. CASE DpsStart
  <2>1. dps' \in DpsType /\ dps'.cfg = dps.cfg /\ dps'.coefs = dps.coefs
    <3>1. PICK next \in {<<"start_tmp", "tmp">>, <<"start_prs", "prs">>} :
            dps' = [dps EXCEPT !.meas = next[2], !.whose = "mine"]
      BY <1>4 DEF DpsStart
    <3>2. next[2] \in {"tmp", "prs"}
      BY <3>1
    <3> QED
      BY <3>1, <3>2 DEF DpsType, Owners
  <2> QED
    BY <1>4, <2>1 DEF DpsStart, Goes
<1>5. CASE DpsTemperature
  BY <1>5 DEF DpsTemperature, Goes
<1>6. CASE DpsPressure
  BY <1>6 DEF DpsPressure
<1>7. CASE SmpbStart
  BY <1>7 DEF SmpbStart, Returns, SmpbType, Owners
<1>8. CASE SmpbTemperature
  BY <1>8 DEF SmpbTemperature, Returns
<1>9. CASE SmpbPressure
  BY <1>9 DEF SmpbPressure, Returns
<1>10. CASE Record
  BY <1>10 DEF Record
<1> QED
  BY <1>1, <1>2, <1>3, <1>4, <1>5, <1>6, <1>7, <1>8, <1>9, <1>10

(* The transfers of bmp3.c, the chips, and stuttering.                     *)
LEMMA RestKeeps ==
  ASSUME IInv,
         \/ BmpStep \/ BecomesReady \/ DpsMeasured \/ SmpbMeasured \/ UNCHANGED everything
  PROVE  IInv'
<1> USE DEF IInv, ChipsTyped, Booted, Compensated, Quiet, DataSteps, Registers, AtRest
<1>1. CASE BmpStep
  <2>1. UNCHANGED sensorVars
    BY <1>1 DEF BmpStep
  <2>2. step = "bmp388" /\ at' = "data" => at = "data" \/ AtRest
    BY <1>1 DEF BmpStep, StartWait, ReadSample, bmpVars
  <2> QED
    BY <2>1, <2>2 DEF sensorVars
<1>2. CASE BecomesReady
  <2>1. /\ dps' \in DpsType /\ dps'.cfg = dps.cfg /\ dps'.meas = dps.meas
        /\ dps.coefs => dps'.coefs
    BY <1>2 DEF BecomesReady, DpsType
  <2> QED
    BY <1>2, <2>1 DEF BecomesReady, allVars, bmpVars
<1>3. CASE DpsMeasured
  <2>1. dps' \in DpsType /\ dps'.cfg = dps.cfg /\ dps'.coefs = dps.coefs /\ dps'.meas = "none"
    <3>1. CASE dps.meas = "tmp"
      BY <1>3, <3>1 DEF DpsMeasured, DpsType, Owners
    <3>2. CASE dps.meas = "prs"
      BY <1>3, <3>2 DEF DpsMeasured, DpsType, Owners
    <3> QED
      BY <1>3, <3>1, <3>2 DEF DpsMeasured, DpsType
  <2> QED
    BY <1>3, <2>1 DEF DpsMeasured, allVars, bmpVars
<1>4. CASE SmpbMeasured
  <2>1. smpb' \in SmpbType /\ smpb'.iir = smpb.iir /\ smpb'.meas = "none"
    BY <1>4 DEF SmpbMeasured, SmpbType, Owners
  <2> QED
    BY <1>4, <2>1 DEF SmpbMeasured, allVars, bmpVars
<1>5. CASE UNCHANGED everything
  BY <1>5 DEF everything, allVars, bmpVars, sensorVars
<1> QED
  BY <1>1, <1>2, <1>3, <1>4, <1>5

THEOREM Invariant == SensorsSpec => []IInv
<1>1. IInv /\ [SensorsNext]_everything => IInv'
  BY BootKeeps, DataKeeps, RestKeeps DEF SensorsNext
<1> QED
  BY <1>1, Starts, PTL DEF SensorsSpec

(* The coefficients and the configuration that the drivers reckon with     *)
(* are the sensors' own, after every boot that has been survived.          *)
THEOREM CoefficientsGood == SensorsSpec => []Compensated
  BY Invariant, PTL DEF IInv

(* The DPS368 and the 2SMPB are started only at rest.                      *)
THEOREM StartedAtRest == SensorsSpec => StartsAtRest
<1>1. IInv /\ [SensorsNext]_everything =>
        [/\ DpsStart => dps.meas = "none"
         /\ SmpbStart => smpb.meas = "none"]_everything
  BY DEF IInv, Quiet, AtRest, DpsStart, SmpbStart
<1> QED
  BY <1>1, Invariant, PTL DEF SensorsSpec, StartsAtRest
-----------------------------------------------------------------------------
(***************************************************************************)
(* Why the BMP388 keeps its settings and why its samples are fresh, for    *)
(* every wait of bmp388_get_data that is long enough: every step of Bmp388 *)
(* keeps BmpInv.                                                           *)
(*                                                                         *)
(* Normal mode is never asked for, so the chip is asleep or makes one      *)
(* forced measurement. The power mode is written only after the mode was   *)
(* read or made sleep, and nothing but the driver wakes the chip: so the   *)
(* write is accepted and begins a measurement of this call's.              *)
(***************************************************************************)
(* The modes the program meets.                                            *)
Registers388 == [mode : {"sleep", "forced"}, press : BOOLEAN, temp : BOOLEAN,
                 pos : 0 .. 5, tos : 0 .. 5, odr : 0 .. 31, iir : 0 .. 7]

(* The settings of bmp388_init.                                            *)
Settled(s) ==
  s.press = TRUE /\ s.temp = TRUE /\ s.pos = 4 /\ s.tos = 1 /\ s.iir = 3

Typed388 ==
  /\ chip \in Registers388 /\ reg \in Registers388 /\ dev \in Registers388
  /\ conv \in {"none", "mine", "other"} /\ data \in {"none", "partial", "mine", "other"}

(* Where the driver may be in each call.                                   *)
Course ==
  /\ at \in Places
  /\ at = "init" => /\ pc \in {"chip_id", "cmd_rdy", "soft_reset", "cmd_err", "calib", "idle"}
                    /\ fn = "bmp3_init"
  /\ at \in {"assign", "ready", "wait", "halted"} => pc = "idle"
  /\ at = "set_settings" => /\ pc \in {"pwr", "pwr_write", "osr", "osr_write", "idle"}
                            /\ sel = SettingsSel
  /\ at \in {"init_mode", "mode"} =>
       /\ pc \in {"mode", "sleep", "sleep_write", "power", "power_write", "idle"}
       /\ fn = "bmp3_set_op_mode"
  /\ at = "data" => pc \in {"data", "idle"} /\ fn = "bmp3_get_sensor_data"

(* How far the settings have got to the chip.                              *)
Arrived ==
  /\ at \notin {"init", "halted"} => dev.mode = "forced" /\ Settled(dev)
  /\ at = "set_settings" /\ pc \in {"osr", "osr_write"} => chip.press = TRUE /\ chip.temp = TRUE
  /\ at = "set_settings" /\ pc = "idle" /\ rslt = "ok" => Settled(chip)
  /\ at \in {"init_mode", "ready", "mode", "wait", "data"} => Settled(chip)
  /\ at \in {"init_mode", "mode"} /\ pc \in {"sleep_write", "power_write"} => Settled(reg)

(* The chip measures when it is awake, and sleeps when it is to be woken.  *)
Awake ==
  /\ conv = "none" <=> chip.mode = "sleep"
  /\ pc \in {"power", "power_write"} => chip.mode = "sleep"

(* This call's measurement is under way or done.                           *)
Taken == conv = "mine" \/ (conv = "none" /\ data = "mine")

Fresh ==
  /\ at = "mode" /\ pc = "idle" /\ rslt = "ok" => Taken
  /\ at = "wait" => Taken
  /\ at = "data" => conv = "none" /\ data = "mine"
  /\ at = "data" /\ pc = "idle" /\ rslt = "ok" => got = "mine"
  /\ FreshSample

BmpInv == Typed388 /\ Course /\ Arrived /\ Awake /\ Fresh

LEMMA SettledTime == ASSUME NEW s, Settled(s) PROVE MeasTime(s) = MeasTime(Wanted(0))
  BY DEF Settled, MeasTime, Wanted

LEMMA SettingsTyped ==
  /\ ResetSettings \in Registers388 /\ ResetSettings.mode = "sleep"
  /\ ZeroSettings \in Registers388
<1>1. ResetSettings \in Registers388 /\ ResetSettings.mode = "sleep"
  BY DEF ResetSettings, Registers388
<1> QED
  BY <1>1 DEF ZeroSettings, Registers388

LEMMA BmpStarts == BmpInit => BmpInv
<1> SUFFICES ASSUME BmpInit PROVE BmpInv
  OBVIOUS
<1>1. pc = "chip_id"
  BY DEF BmpInit, Entry
<1>2. Typed388 /\ Awake
  BY <1>1, SettingsTyped DEF BmpInit, Typed388, Awake
<1> QED
  BY <1>1, <1>2 DEF BmpInit, BmpInv, Course, Places, Arrived, Fresh, FreshSample

(* PWR_CTRL is written: the oversampling, the rate and the filter stay.    *)
LEMMA PwrWritten ==
  ASSUME Typed388, Awake, NEW v \in Registers388, WritePwr(v)
  PROVE  /\ chip' \in Registers388 /\ conv' \in {"none", "mine", "other"}
         /\ UNCHANGED <<data, cmderr>>
         /\ chip'.press = v.press /\ chip'.temp = v.temp
         /\ chip'.pos = chip.pos /\ chip'.tos = chip.tos /\ chip'.iir = chip.iir
         /\ conv' = "none" <=> chip'.mode = "sleep"
         /\ v.mode = "sleep" => chip'.mode = "sleep"
         /\ v.mode = "forced" /\ chip.mode = "sleep" => conv' = "mine"
<1>1. chip' \in Registers388
  BY DEF WritePwr, Typed388, Registers388
<1>2. /\ chip'.press = v.press /\ chip'.temp = v.temp
      /\ chip'.pos = chip.pos /\ chip'.tos = chip.tos /\ chip'.iir = chip.iir
      /\ chip'.mode = IF "sleep" \in {v.mode, chip.mode} THEN v.mode ELSE chip.mode
  BY DEF WritePwr, Typed388, Registers388
<1> QED
  BY <1>1, <1>2 DEF WritePwr, Typed388, Awake, Registers388

----------------------------------------------------------------------------
(* The transfers of bmp3_init.                                             *)
LEMMA InitTransfers ==
  ASSUME BmpInv, UNCHANGED bmpVars,
         ReadChipId \/ ReadCmdRdy \/ WriteSoftReset \/ ReadCmdErr \/ ReadCalib
  PROVE  BmpInv'
<1>1. at = "init" /\ at' = "init" /\ err' = err
  BY DEF BmpInv, Course, Places, bmpVars, ReadChipId, ReadCmdRdy, WriteSoftReset, ReadCmdErr, ReadCalib
<1>2. pc' \in {"chip_id", "cmd_rdy", "soft_reset", "cmd_err", "calib", "idle"} /\ fn' = "bmp3_init"
  BY <1>1 DEF BmpInv, Course, ReadChipId, ReadCmdRdy, WriteSoftReset, ReadCmdErr, ReadCalib,
     Goto, Finish, Then, callVars
<1>3. dev' = dev /\ reg' \in Registers388
  BY SettingsTyped DEF BmpInv, Typed388, ReadChipId, ReadCmdRdy, WriteSoftReset, ReadCmdErr, ReadCalib,
     Goto, Finish, Then, devVars
<1>4. /\ chip' \in Registers388 /\ conv' \in {"none", "mine", "other"}
      /\ data' \in {"none", "partial", "mine", "other"}
      /\ conv' = "none" <=> chip'.mode = "sleep"
  <2>1. CASE WriteSoftReset
    BY <2>1, SettingsTyped DEF BmpInv, Typed388, Awake, WriteSoftReset, ObeyReset
  <2>2. CASE ReadChipId \/ ReadCmdRdy \/ ReadCmdErr \/ ReadCalib
    BY <2>2 DEF BmpInv, Typed388, Awake, ReadChipId, ReadCmdRdy, ReadCmdErr, ReadCalib, chipVars
  <2> QED
    BY <2>1, <2>2
<1> QED
  BY <1>1, <1>2, <1>3, <1>4 DEF BmpInv, Typed388, Course, Arrived, Awake, Fresh, FreshSample, Places
----------------------------------------------------------------------------
(* The transfers of bmp3_set_sensor_settings.                              *)
LEMMA SettingsTransfers ==
  ASSUME BmpInv, UNCHANGED bmpVars,
         ReadPwr \/ WritePwrCtrl \/ ReadOsr \/ WriteOsr
  PROVE  BmpInv'
<1>1. at = "set_settings" /\ at' = "set_settings" /\ err' = err
  BY DEF BmpInv, Course, Places, bmpVars, ReadPwr, WritePwrCtrl, ReadOsr, WriteOsr
<1>2. sel = SettingsSel /\ dev.mode = "forced" /\ Settled(dev)
  BY <1>1 DEF BmpInv, Course, Arrived
<1>3. SettingsSel \cap OdrSel # {} /\ {"press_en", "temp_en"} \subseteq SettingsSel
      /\ {"press_os", "temp_os", "iir"} \subseteq SettingsSel /\ "odr" \notin SettingsSel
  BY DEF SettingsSel, OdrSel, OsrSel
<1> USE DEF BmpInv, Course, Places, Arrived, Awake, Fresh, FreshSample
<1>4. CASE ReadPwr
  <2>1. /\ pc' \in {"pwr_write", "idle"} /\ reg' \in Registers388
        /\ pc' = "idle" => rslt' = "comm_fail"
        /\ UNCHANGED <<chipVars, devVars, callVars>>
    BY <1>4, SettingsTyped DEF ReadPwr, ThenHolding, Holding, Finish, Typed388
  <2> QED
    BY <1>1, <1>2, <2>1 DEF Typed388, chipVars, devVars, callVars
<1>5. CASE WritePwrCtrl
  <2> DEFINE v == [reg EXCEPT !.press = dev.press, !.temp = dev.temp]
  <2>1. WritePwr(v)
    BY <1>2, <1>3, <1>5 DEF WritePwrCtrl
  <2>2. v \in Registers388 /\ v.press = TRUE /\ v.temp = TRUE
    BY <1>2 DEF Typed388, Registers388, Settled
  <2>3. /\ pc' \in {"osr", "idle"} /\ reg' \in Registers388
        /\ pc' = "idle" => rslt' = "comm_fail"
        /\ UNCHANGED <<devVars, callVars>>
    BY <1>2, <1>3, <1>5, SettingsTyped DEF WritePwrCtrl, Then, Goto, Finish, Typed388
  <2> QED
    BY <1>1, <1>2, <2>1, <2>2, <2>3, PwrWritten DEF Typed388, devVars, callVars
<1>6. CASE ReadOsr
  <2>1. /\ pc' \in {"osr_write", "idle"} /\ reg' \in Registers388 /\ dev' = dev
        /\ pc' = "idle" => rslt' # "ok"
        /\ UNCHANGED <<chipVars, callVars, got>>
    BY <1>2, <1>3, <1>6, SettingsTyped DEF ReadOsr, ThenHolding, Holding, Finish, Typed388
  <2> QED
    BY <1>1, <1>2, <1>6, <2>1 DEF ReadOsr, Typed388, chipVars, callVars
<1>7. CASE WriteOsr
  <2>1. chip' = [chip EXCEPT !.pos = dev.pos, !.tos = dev.tos, !.odr = @, !.iir = dev.iir]
    BY <1>2, <1>3, <1>7 DEF WriteOsr
  <2>2. /\ chip' \in Registers388 /\ chip'.mode = chip.mode
        /\ Settled(chip')
    BY <1>1, <1>2, <1>7, <2>1, ZenonT(40) DEF WriteOsr, Typed388, Registers388, Settled
  <2>3. /\ pc' = "idle" /\ reg' \in Registers388
        /\ UNCHANGED <<conv, data, devVars, callVars>>
    BY <1>7, SettingsTyped DEF WriteOsr, Finish
  <2> QED
    BY <1>1, <1>2, <2>2, <2>3 DEF Typed388, devVars, callVars
<1> QED
  BY <1>4, <1>5, <1>6, <1>7
----------------------------------------------------------------------------
(* The transfers of bmp3_set_op_mode, for the forced mode.                 *)
LEMMA ModeTransfers ==
  ASSUME BmpInv, UNCHANGED bmpVars,
         ReadMode \/ ReadToSleep \/ WriteSleep \/ ReadPower \/ WritePower
  PROVE  BmpInv'
<1>1. at \in {"init_mode", "mode"} /\ at' = at /\ err' = err
  BY DEF BmpInv, Course, Places, bmpVars, ReadMode, ReadToSleep, WriteSleep, ReadPower, WritePower
<1>2. fn = "bmp3_set_op_mode" /\ dev.mode = "forced" /\ Settled(dev) /\ Settled(chip)
  BY <1>1 DEF BmpInv, Course, Arrived
<1> USE DEF BmpInv, Course, Places, Arrived, Awake, Fresh, FreshSample
<1>3. CASE ReadMode
  <2>1. /\ \/ pc' = "sleep" /\ reg' = reg
           \/ pc' = "power" /\ reg' = reg /\ chip.mode = "sleep"
           \/ pc' = "idle" /\ reg' = ZeroSettings /\ rslt' = "comm_fail"
        /\ UNCHANGED <<chipVars, devVars, callVars>>
    BY <1>2, <1>3 DEF ReadMode, Dispatch, Goto, Finish
  <2> QED
    BY <1>1, <1>2, <2>1, SettingsTyped DEF Typed388, chipVars, devVars, callVars
<1>4. CASE ReadToSleep
  <2>1. /\ \/ pc' = "sleep_write" /\ reg' = chip
           \/ pc' = "idle" /\ reg' = ZeroSettings /\ rslt' = "comm_fail"
        /\ UNCHANGED <<chipVars, devVars, callVars>>
    BY <1>4 DEF ReadToSleep, ThenHolding, Holding, Finish
  <2> QED
    BY <1>1, <1>2, <2>1, SettingsTyped DEF Typed388, chipVars, devVars, callVars
<1>5. CASE WriteSleep
  <2> DEFINE v == [reg EXCEPT !.mode = "sleep"]
  <2>1. WritePwr(v)
    BY <1>5 DEF WriteSleep
  <2>2. v \in Registers388 /\ v.press = TRUE /\ v.temp = TRUE /\ v.mode = "sleep"
    BY <1>1, <1>5 DEF WriteSleep, Typed388, Registers388, Settled
  <2>3. /\ \/ pc' = "power" /\ reg' = reg
           \/ pc' = "idle" /\ reg' = ZeroSettings /\ rslt' = "comm_fail"
        /\ UNCHANGED <<devVars, callVars>>
    BY <1>2, <1>5 DEF WriteSleep, Dispatch, Goto, Finish
  <2>4. chip'.mode = "sleep" /\ Settled(chip')
    BY <1>2, <2>1, <2>2, PwrWritten DEF Settled
  <2> QED
    BY <1>1, <1>2, <2>1, <2>2, <2>3, <2>4, PwrWritten, SettingsTyped DEF Typed388, devVars, callVars
<1>6. CASE ReadPower
  <2>1. /\ \/ pc' = "power_write" /\ reg' = chip
           \/ pc' = "idle" /\ reg' = ZeroSettings /\ rslt' = "comm_fail"
        /\ UNCHANGED <<chipVars, devVars, callVars>>
    BY <1>6 DEF ReadPower, ThenHolding, Holding, Finish
  <2> QED
    BY <1>1, <1>2, <1>6, <2>1, SettingsTyped DEF ReadPower, Typed388, chipVars, devVars, callVars
<1>7. CASE WritePower
  <2> DEFINE v == [reg EXCEPT !.mode = "forced"]
  <2>1. WritePwr(v) /\ chip.mode = "sleep"
    BY <1>2, <1>7 DEF WritePower
  <2>2. v \in Registers388 /\ v.press = TRUE /\ v.temp = TRUE /\ v.mode = "forced"
    BY <1>1, <1>7 DEF WritePower, Typed388, Registers388, Settled
  <2>3. /\ pc' = "idle" /\ reg' = ZeroSettings
        /\ UNCHANGED <<devVars, callVars>>
    BY <1>2, <1>7 DEF WritePower, Then, Finish
  <2>4. conv' = "mine" /\ Settled(chip')
    BY <1>2, <2>1, <2>2, PwrWritten DEF Settled
  <2> QED
    BY <1>1, <1>2, <2>1, <2>2, <2>3, <2>4, PwrWritten, SettingsTyped
       DEF Typed388, Taken, devVars, callVars
<1> QED
  BY <1>3, <1>4, <1>5, <1>6, <1>7

(* The transfer of bmp3_get_sensor_data, and those the program never makes.*)
LEMMA OtherTransfers ==
  ASSUME BmpInv, UNCHANGED bmpVars,
         ReadNormalOsr \/ ReadConfErr \/ ReadSettings \/ ReadData \/ ReadStatus \/ ReadErr
  PROVE  BmpInv'
<1>1. pc \notin {"normal_osr", "conf_err", "settings", "sens_status", "event", "int_status", "err"}
  BY DEF BmpInv, Course, Places
<1>2. ReadData
  BY <1>1 DEF ReadNormalOsr, ReadConfErr, ReadSettings, ReadStatus, ReadErr
<1>3. at = "data" /\ at' = "data" /\ err' = err
  BY <1>2 DEF BmpInv, Course, Places, ReadData, bmpVars
<1>4. /\ pc' = "idle" /\ reg' = ZeroSettings
      /\ rslt' = "ok" => got' = data
      /\ UNCHANGED <<chipVars, dev, callVars>>
  BY <1>2 DEF ReadData, Finish
<1> QED
  BY <1>3, <1>4, SettingsTyped DEF BmpInv, Typed388, Course, Places, Arrived, Awake, Fresh,
     FreshSample, chipVars, callVars

LEMMA TransferKeeps ==
  ASSUME BmpInv, Transfer, UNCHANGED bmpVars
  PROVE  BmpInv'
  BY InitTransfers, SettingsTransfers, ModeTransfers, OtherTransfers DEF Transfer

(* The chip ends its measurement, between any two transfers.               *)
LEMMA MeasuredKeeps ==
  ASSUME BmpInv, Measured, UNCHANGED bmpVars
  PROVE  BmpInv'
<1>1. /\ conv # "none" /\ chip.mode = "forced"
      /\ conv' = "none" /\ chip' = [chip EXCEPT !.mode = "sleep"]
  BY DEF BmpInv, Typed388, Awake, Registers388, Measured
<1>2. /\ chip' \in Registers388 /\ chip'.mode = "sleep"
      /\ chip'.press = chip.press /\ chip'.temp = chip.temp
      /\ Settled(chip) => Settled(chip')
  BY <1>1 DEF BmpInv, Typed388, Registers388, Settled
<1>3. /\ data' = IF chip.press /\ chip.temp THEN conv ELSE "partial"
      /\ UNCHANGED <<devVars, pc, callVars, reg, rslt, at, err>>
  BY DEF Measured, bmpVars
<1>4. data' \in {"none", "partial", "mine", "other"}
  BY <1>3 DEF BmpInv, Typed388
<1>5. Settled(chip) => data' = conv
  BY <1>3 DEF Settled
<1> QED
  BY <1>1, <1>2, <1>3, <1>4, <1>5 DEF BmpInv, Typed388, Course, Arrived, Awake, Fresh, FreshSample,
     Taken, devVars, callVars
----------------------------------------------------------------------------
(* bmp388_init, and the reset that main begins with.                       *)
LEMMA InitKeeps ==
  ASSUME BmpInv, AssignSettings \/ SetSettings \/ SetMode \/ InitReturns \/ InitFails
  PROVE  BmpInv'
<1> USE DEF BmpInv, Course, Places, Arrived, Awake, Fresh, FreshSample, After, Failed
<1>1. CASE AssignSettings
  <2>1. /\ dev' \in Registers388 /\ dev'.mode = "forced" /\ Settled(dev')
    BY <1>1 DEF AssignSettings, Wanted, Settled, Typed388, Registers388
  <2> QED
    BY <1>1, <2>1 DEF AssignSettings, Typed388, chipVars, callVars
<1>2. CASE SetSettings
  <2>1. /\ at = "assign" /\ pc' = "pwr" /\ sel' = SettingsSel /\ at' = "set_settings"
        /\ UNCHANGED <<chipVars, dev, reg, err>>
    BY <1>2 DEF SetSettings, StartSettings, SettingsSel, PwrSel
  <2> QED
    BY <2>1 DEF Typed388, chipVars
<1>3. CASE SetMode
  BY <1>3 DEF SetMode, Start, Entry, Typed388, Aged
<1>4. CASE InitReturns
  BY <1>4 DEF InitReturns, Typed388, vars, chipVars, devVars, callVars
<1>5. CASE InitFails
  BY <1>5 DEF InitFails, Typed388, vars, chipVars, devVars, callVars
<1> QED
  BY <1>1, <1>2, <1>3, <1>4, <1>5

LEMMA ResetKeeps == ASSUME BmpInv, Reset PROVE BmpInv'
<1>1. pc' = "chip_id"
  BY DEF Reset, Entry
<1>2. Typed388' /\ Awake'
  BY <1>1, SettingsTyped DEF BmpInv, Typed388, Awake, Reset, chipVars
<1> QED
  BY <1>1, <1>2 DEF Reset, BmpInv, Course, Places, Arrived, Fresh, FreshSample

(* bmp388_get_data.  WaitAssumption is for ReadSample alone.               *)
LEMMA DataKept ==
  ASSUME BmpInv, GetData \/ StartWait \/ ReadSample \/ GetDataReturns
  PROVE  BmpInv'
<1> USE DEF BmpInv, Course, Places, Arrived, Awake, Fresh, FreshSample, After, Failed
<1>1. CASE GetData
  BY <1>1 DEF GetData, Start, Entry, Typed388, Aged
<1>2. CASE StartWait
  BY <1>2 DEF StartWait, Typed388, Taken, vars, chipVars, devVars, callVars
<1>3. CASE ReadSample
  <2>1. at = "wait" /\ Taken /\ Settled(chip)
    BY <1>3 DEF ReadSample
  <2>2. conv = "none"
    BY <1>3, <2>1, SettledTime, WaitAssumption DEF ReadSample
  <2>3. /\ pc' = "data" /\ fn' = "bmp3_get_sensor_data" /\ at' = "data"
        /\ UNCHANGED <<chip, conv, data, dev, reg, err>>
    BY <1>3 DEF ReadSample, Start, Entry
  <2> QED
    BY <2>1, <2>2, <2>3 DEF Typed388, Taken
<1>4. CASE GetDataReturns
  BY <1>4 DEF GetDataReturns, Typed388, vars, chipVars, devVars, callVars
<1> QED
  BY <1>1, <1>2, <1>3, <1>4

LEMMA IdleKeeps == ASSUME BmpInv, UNCHANGED allVars PROVE BmpInv'
  BY DEF BmpInv, Typed388, Course, Arrived, Awake, Fresh, FreshSample, Taken,
     allVars, vars, bmpVars, chipVars, devVars, callVars

LEMMA SameButMode ==
  ASSUME NEW s \in Registers388, NEW w \in Registers388,
         w.press = s.press, w.temp = s.temp, w.pos = s.pos, w.tos = s.tos,
         w.odr = s.odr, w.iir = s.iir
  PROVE  s = [w EXCEPT !.mode = s.mode]
  BY DEF Registers388

(* What it is for.                                                         *)
LEMMA KeepsSettings == BmpInv => ConfigKept
<1> SUFFICES ASSUME BmpInv, at \in {"ready", "mode", "wait", "data"} PROVE ConfigKept
  BY DEF ConfigKept
<1>1. chip \in Registers388 /\ Settled(chip)
  BY DEF BmpInv, Typed388, Arrived
<1> DEFINE w == Wanted(chip.odr)
<1>2. /\ w \in Registers388
      /\ w.press = chip.press /\ w.temp = chip.temp
      /\ w.pos = chip.pos /\ w.tos = chip.tos /\ w.odr = chip.odr /\ w.iir = chip.iir
  BY <1>1 DEF Registers388, Settled, Wanted
<1>3. chip = [w EXCEPT !.mode = chip.mode]
  <2> HIDE DEF w
  <2> QED
    BY <1>1, <1>2, SameButMode
<1>4. chip.mode \in {"sleep", "forced"}
  BY <1>1 DEF Registers388
<1> QED
  BY <1>3, <1>4 DEF ConfigKept
----------------------------------------------------------------------------
(* The BMP388, in its place among the sensors.                             *)
LEMMA BmpKeeps == BmpInv /\ [SensorsNext]_everything => BmpInv'
<1> SUFFICES ASSUME BmpInv, [SensorsNext]_everything PROVE BmpInv'
  OBVIOUS
<1>1. CASE UNCHANGED allVars
  BY <1>1, IdleKeeps
<1>2. CASE BmpStep
  BY <1>2, InitKeeps, DataKept, TransferKeeps, MeasuredKeeps DEF BmpStep
<1>3. CASE BmpInitialized
  BY <1>1, <1>3, InitKeeps DEF BmpInitialized
<1>4. CASE Measure
  BY <1>4, DataKept DEF Measure
<1>5. CASE BmpReturns
  BY <1>5, DataKept DEF BmpReturns
<1>6. CASE SensorsReset
  BY <1>6, ResetKeeps DEF SensorsReset
<1>7. CASE \/ InitReady \/ PollCoefs \/ ReadCoeffs \/ Configure \/ SmpbCoeffs \/ SmpbFilter
           \/ PollReady \/ DpsStart \/ DpsTemperature \/ DpsPressure
           \/ SmpbStart \/ SmpbTemperature \/ SmpbPressure \/ Record
           \/ BecomesReady \/ DpsMeasured \/ SmpbMeasured \/ UNCHANGED everything
  <2>1. UNCHANGED allVars
    BY <1>7 DEF InitReady, PollCoefs, ReadCoeffs, Configure, SmpbCoeffs, SmpbFilter,
       PollReady, DpsStart, DpsTemperature, DpsPressure, SmpbStart, SmpbTemperature, SmpbPressure,
       Record, BecomesReady, DpsMeasured, SmpbMeasured, Goes, everything
  <2> QED
    BY <1>1, <2>1
<1> QED
  BY <1>2, <1>3, <1>4, <1>5, <1>6, <1>7 DEF SensorsNext

THEOREM BmpInvariant == SensorsSpec => []BmpInv
<1>1. SensorsInit => BmpInv
  BY BmpStarts DEF SensorsInit
<1> QED
  BY <1>1, BmpKeeps, PTL DEF SensorsSpec

(* No error on the way leaves the BMP388 with other settings than those    *)
(* its data is compensated and timed for.                                  *)
THEOREM SettingsKept == SensorsSpec => []ConfigKept
  BY BmpInvariant, KeepsSettings, PTL

(* A sample of the BMP388 is of the measurement the very call has started. *)
THEOREM SampleFresh == SensorsSpec => []FreshSample
<1>1. BmpInv => FreshSample
  BY DEF BmpInv, Fresh
<1> QED
  BY <1>1, BmpInvariant, PTL
----------------------------------------------------------------------------
(* The record.  Filled: whose sample it holds for each sensor.             *)
Filled(b, d, s) == sdata["bmp388"] = b /\ sdata["dps368"] = d /\ sdata["smpb"] = s

(* The measurement of the DPS368, under way or done, is this call's.       *)
TmpOwn == (dps.meas = "tmp" /\ dps.whose = "mine") \/ (dps.meas = "none" /\ dps.tmp = "mine")
PrsOwn == (dps.meas = "prs" /\ dps.whose = "mine") \/ (dps.meas = "none" /\ dps.prs = "mine")

Held ==
  /\ DOMAIN sdata = SensorIds
  /\ step = "bmp388" => Filled("zero", "zero", "zero")
  /\ step \in {"snsr_rdy", "start_tmp", "tmp", "start_prs", "prs"} => Filled("mine", "zero", "zero")
  /\ step \in {"CTRL_MEAS", "TEMP", "PRESS"} => Filled("mine", "mine", "zero")
  /\ step \in DataSteps => result = "none"
  /\ step = "tmp" => TmpOwn
  /\ step \in {"start_prs", "prs", "PRESS"} => temp = "mine"
  /\ step = "prs" => PrsOwn
  /\ step = "TEMP" => smpb.meas = "mine" \/ (smpb.meas = "none" /\ smpb.data = "mine")
  /\ step = "PRESS" => smpb.meas = "none" /\ smpb.data = "mine"
  /\ RecordHonest

LEMMA HeldStarts == SensorsInit => Held
  BY DEF SensorsInit, Held, NoSample, SensorIds, DataSteps, RecordHonest

(* The steps that leave the record alone.                                  *)
LEMMA HeldAside ==
  ASSUME IInv, Held,
         \/ BmpStep \/ BmpInitialized \/ InitReady \/ PollCoefs \/ ReadCoeffs \/ Configure
         \/ SmpbCoeffs \/ SmpbFilter \/ SensorsReset \/ PollReady \/ BecomesReady
         \/ Record \/ UNCHANGED everything
  PROVE  Held'
<1> USE DEF Held, Filled, TmpOwn, PrsOwn, RecordHonest, DataSteps, SensorIds
<1>1. CASE BmpStep \/ UNCHANGED everything
  BY <1>1 DEF BmpStep, everything, sensorVars
<1>2. CASE BmpInitialized
  BY <1>2 DEF BmpInitialized
<1>3. CASE InitReady \/ PollCoefs \/ ReadCoeffs
  BY <1>3 DEF InitReady, PollCoefs, ReadCoeffs, Goes
<1>4. CASE Configure
  BY <1>4 DEF Configure, Goes
<1>5. CASE SmpbCoeffs \/ SmpbFilter
  BY <1>5 DEF SmpbCoeffs, SmpbFilter, Goes
<1>6. CASE SensorsReset
  BY <1>6 DEF SensorsReset, NoSample
<1>7. CASE PollReady \/ Record
  BY <1>7 DEF PollReady, Record, Goes
<1>8. CASE BecomesReady
  <2>1. /\ dps'.meas = dps.meas /\ dps'.whose = dps.whose
        /\ dps'.tmp = dps.tmp /\ dps'.prs = dps.prs
    BY <1>8 DEF IInv, ChipsTyped, BecomesReady, DpsType
  <2> QED
    BY <1>8, <2>1 DEF BecomesReady
<1> QED
  BY <1>1, <1>2, <1>3, <1>4, <1>5, <1>6, <1>7, <1>8

(* The steps that measure, and those that fill the record in.              *)
LEMMA HeldForward ==
  ASSUME IInv, BmpInv, Held,
         \/ Measure \/ BmpReturns \/ DpsStart \/ DpsTemperature \/ DpsPressure
         \/ SmpbStart \/ SmpbTemperature \/ SmpbPressure \/ DpsMeasured \/ SmpbMeasured
  PROVE  Held'
<1> USE DEF Held, Filled, TmpOwn, PrsOwn, RecordHonest, DataSteps, SensorIds
<1>t. dps \in DpsType /\ smpb \in SmpbType
  BY DEF IInv, ChipsTyped
<1>1. CASE Measure
  BY <1>1 DEF Measure, NoSample
<1>2. CASE BmpReturns
  <2>1. err' = "ok" => got = "mine"
    BY <1>2 DEF BmpReturns, GetDataReturns, After, Failed, BmpInv, Fresh
  <2> QED
    BY <1>2, <2>1 DEF BmpReturns, Returns
<1>3. CASE DpsStart
  <2>1. /\ \/ step = "start_tmp" /\ step' = "tmp" /\ dps'.meas = "tmp"
           \/ step = "start_prs" /\ step' = "prs" /\ dps'.meas = "prs"
        /\ dps'.whose = "mine"
    <3>1. PICK next \in {<<"start_tmp", "tmp">>, <<"start_prs", "prs">>} :
            /\ step = next[1] /\ step' = next[2]
            /\ dps' = [dps EXCEPT !.meas = next[2], !.whose = "mine"]
      BY <1>3 DEF DpsStart, Goes
    <3> QED
      BY <1>t, <3>1 DEF DpsType
  <2>2. UNCHANGED <<smpb, temp, sdata, result>>
    BY <1>3 DEF DpsStart, Goes
  <2> QED
    BY <2>1, <2>2
<1>4. CASE DpsTemperature
  BY <1>4 DEF DpsTemperature, Goes
<1>5. CASE DpsPressure
  BY <1>5 DEF DpsPressure, Sample
<1>6. CASE SmpbStart
  <2>1. smpb'.meas = "mine"
    BY <1>t, <1>6 DEF SmpbStart, SmpbType
  <2> QED
    BY <1>6, <2>1 DEF SmpbStart, Returns
<1>7. CASE SmpbTemperature
  BY <1>7 DEF SmpbTemperature, Returns
<1>8. CASE SmpbPressure
  BY <1>8 DEF SmpbPressure, Returns, Sample
<1>9. CASE DpsMeasured
  <2>1. /\ dps.meas = "tmp" => dps'.tmp = dps.whose /\ dps'.prs = dps.prs
        /\ dps.meas = "prs" => dps'.prs = dps.whose /\ dps'.tmp = dps.tmp
        /\ dps'.meas = "none" /\ dps.meas \in {"tmp", "prs"}
    <3>1. CASE dps.meas = "tmp"
      BY <1>t, <1>9, <3>1 DEF DpsMeasured, DpsType
    <3>2. CASE dps.meas = "prs"
      BY <1>t, <1>9, <3>2 DEF DpsMeasured, DpsType
    <3> QED
      BY <1>t, <1>9, <3>1, <3>2 DEF DpsMeasured, DpsType
  <2> QED
    BY <1>9, <2>1 DEF DpsMeasured
<1>10. CASE SmpbMeasured
  <2>1. smpb'.data = smpb.meas /\ smpb'.meas = "none" /\ smpb.meas # "none"
    BY <1>t, <1>10 DEF SmpbMeasured, SmpbType
  <2> QED
    BY <1>10, <2>1 DEF SmpbMeasured
<1> QED
  BY <1>1, <1>2, <1>3, <1>4, <1>5, <1>6, <1>7, <1>8, <1>9, <1>10

(* The record tells no sample for another: every field is zero or of a     *)
(* measurement this get_data has started, and no sensor is left out        *)
(* without the error that says so.                                         *)
THEOREM RecordTrue == SensorsSpec => []RecordHonest
<1>1. IInv /\ BmpInv /\ Held /\ [SensorsNext]_everything => Held'
  BY HeldAside, HeldForward DEF SensorsNext
<1>2. Held => RecordHonest
  BY DEF Held
<1> QED
  BY <1>1, <1>2, HeldStarts, Invariant, BmpInvariant, PTL DEF SensorsSpec
----------------------------------------------------------------------------
(* Types.  Typed, of Bmp3_proofs, is kept by the transfers whoever calls   *)
(* them; what is left is where the drivers stand and what they return.     *)
Standing ==
  /\ step \in BootSteps \cup DataSteps \cup {"idle", "record", "halted"}
  /\ temp \in Owners
  /\ sdata \in [SensorIds -> {"zero", "mine", "other"}]
  /\ result \in {"none", "ok", "fail"}

BmpTyped == Typed /\ at \in Places /\ err \in Results

LEMMA BmpTypedStarts == BmpInit => BmpTyped
<1> SUFFICES ASSUME BmpInit PROVE BmpTyped
  OBVIOUS
<1>1. pc = "chip_id"
  BY DEF BmpInit, Entry
<1> QED
  BY <1>1, ConstantSettings
     DEF BmpInit, BmpTyped, Typed, TypeOK, Limited, Pcs, Functions, Results, Places

(* A function of bmp3.c is called, or main begins anew.                    *)
LEMMA CallTyped ==
  ASSUME BmpTyped, SetSettings \/ SetMode \/ GetData \/ ReadSample \/ Reset
  PROVE  BmpTyped'
<1> USE DEF BmpTyped, Typed, Limited
<1>1. CASE SetSettings
  <2>1. /\ pc' \in {"pwr", "osr", "idle"} /\ rslt' \in {"ok", "none"}
        /\ fn' = "bmp3_set_sensor_settings" /\ sel' = SettingsSel /\ before' = chip
        /\ status' = NoStatus /\ got' = "none" /\ at' = "set_settings"
        /\ UNCHANGED <<chipVars, dev, reg, err>>
    BY <1>1 DEF SetSettings, StartSettings
  <2> QED
    BY <2>1, SelectionAssumption, ConstantSettings
       DEF TypeOK, Pcs, Functions, Results, Places, chipVars
<1>2. CASE SetMode \/ GetData \/ ReadSample
  <2>1. PICK f \in {"bmp3_set_op_mode", "bmp3_get_sensor_data"} : Start(f)
    BY <1>2 DEF SetMode, GetData, ReadSample
  <2>2. /\ pc' \in {"mode", "data"} /\ fn' = f /\ rslt' = "none" /\ sel' = {}
        /\ before' = ResetSettings /\ status' = NoStatus /\ got' = "none"
        /\ UNCHANGED <<chip, cmderr, dev, reg>>
    BY <2>1 DEF Start, Entry
  <2>3. conv' \in {"none", "mine", "other"} /\ data' \in {"none", "partial", "mine", "other"}
    BY <2>1 DEF Start, Aged, TypeOK
  <2>4. at' \in Places /\ err' \in Results
    BY <1>2 DEF SetMode, GetData, ReadSample, Places, Results
  <2> QED
    BY <2>2, <2>3, <2>4, ConstantSettings DEF TypeOK, Pcs, Functions, Results
<1>3. CASE Reset
  <2>1. pc' = "chip_id"
    BY <1>3 DEF Reset, Entry
  <2> QED
    BY <1>3, <2>1, ConstantSettings
       DEF Reset, TypeOK, Pcs, Functions, Results, Places, chipVars
<1> QED
  BY <1>1, <1>2, <1>3

(* What bmp_integration.c does between the calls.                          *)
LEMMA BetweenTyped ==
  ASSUME BmpTyped,
         \/ AssignSettings \/ InitReturns \/ InitFails \/ StartWait \/ GetDataReturns
         \/ UNCHANGED allVars
  PROVE  BmpTyped'
<1> USE DEF BmpTyped, Typed, Limited, TypeOK
<1>1. CASE AssignSettings
  <2>1. dev' \in Settings
    BY <1>1 DEF AssignSettings, Wanted, Settings, Modes
  <2> QED
    BY <1>1, <2>1 DEF AssignSettings, After, Places, chipVars, callVars
<1>2. CASE InitReturns \/ InitFails \/ StartWait \/ GetDataReturns \/ UNCHANGED allVars
  <2>1. UNCHANGED vars /\ at' \in Places /\ err' \in Results
    BY <1>2 DEF InitReturns, InitFails, StartWait, GetDataReturns, Places, Results,
       allVars, bmpVars
  <2> QED
    BY <2>1 DEF vars, chipVars, devVars, callVars
<1> QED
  BY <1>1, <1>2

LEMMA MeasuredTyped == Typed /\ Measured => Typed'
<1> SUFFICES ASSUME Typed, Measured PROVE Typed'
  OBVIOUS
<1>1. /\ chip' = chip \/ chip' = [chip EXCEPT !.mode = "sleep"]
      /\ conv' \in {"none", "mine"}
      /\ data' = conv \/ data' = "partial"
      /\ conv # "none"
      /\ UNCHANGED <<cmderr, devVars, pc, callVars, reg, rslt>>
  BY DEF Measured
<1>2. chip' \in Settings /\ chip'.odr = chip.odr
  BY <1>1 DEF Typed, TypeOK, Settings, Modes
<1> QED
  BY <1>1, <1>2 DEF Typed, TypeOK, Limited, devVars, callVars

LEMMA BmpTypedKept == BmpTyped /\ [SensorsNext]_everything => BmpTyped'
<1> SUFFICES ASSUME BmpTyped, [SensorsNext]_everything PROVE BmpTyped'
  OBVIOUS
<1>1. CASE UNCHANGED allVars
  BY <1>1, BetweenTyped
<1>2. CASE BmpStep
  <2>1. CASE (Transfer \/ Measured) /\ UNCHANGED bmpVars
    BY <2>1, TransferTyped, MeasuredTyped DEF BmpTyped, bmpVars
  <2> QED
    BY <1>2, <2>1, CallTyped, BetweenTyped DEF BmpStep
<1>3. CASE BmpInitialized
  BY <1>1, <1>3, BetweenTyped DEF BmpInitialized
<1>4. CASE Measure
  BY <1>4, CallTyped DEF Measure
<1>5. CASE BmpReturns
  BY <1>5, BetweenTyped DEF BmpReturns
<1>6. CASE SensorsReset
  BY <1>6, CallTyped DEF SensorsReset
<1>7. CASE \/ InitReady \/ PollCoefs \/ ReadCoeffs \/ Configure \/ SmpbCoeffs \/ SmpbFilter
           \/ PollReady \/ DpsStart \/ DpsTemperature \/ DpsPressure
           \/ SmpbStart \/ SmpbTemperature \/ SmpbPressure \/ Record
           \/ BecomesReady \/ DpsMeasured \/ SmpbMeasured \/ UNCHANGED everything
  <2>1. UNCHANGED allVars
    BY <1>7 DEF InitReady, PollCoefs, ReadCoeffs, Configure, SmpbCoeffs, SmpbFilter,
       PollReady, DpsStart, DpsTemperature, DpsPressure, SmpbStart, SmpbTemperature, SmpbPressure,
       Record, BecomesReady, DpsMeasured, SmpbMeasured, Goes, everything
  <2> QED
    BY <1>1, <2>1
<1> QED
  BY <1>2, <1>3, <1>4, <1>5, <1>6, <1>7 DEF SensorsNext

LEMMA StandingKept ==
  ASSUME IInv, BmpInv, Standing, [SensorsNext]_everything
  PROVE  Standing'
<1> USE DEF Standing, BootSteps, DataSteps, Owners
<1>t. dps \in DpsType /\ smpb \in SmpbType
  BY DEF IInv, ChipsTyped
<1>1. CASE \/ BmpStep \/ BmpInitialized \/ BecomesReady \/ DpsMeasured \/ SmpbMeasured
           \/ Record \/ UNCHANGED everything
  BY <1>1 DEF BmpStep, BmpInitialized, BecomesReady, DpsMeasured, SmpbMeasured, Record,
     everything, sensorVars
<1>2. CASE \/ InitReady \/ PollCoefs \/ ReadCoeffs \/ SmpbCoeffs \/ SmpbFilter \/ PollReady
  BY <1>2 DEF InitReady, PollCoefs, ReadCoeffs, SmpbCoeffs, SmpbFilter, PollReady, Goes
<1>3. CASE Configure
  BY <1>3 DEF Configure, Goes
<1>4. CASE DpsStart
  BY <1>4 DEF DpsStart, Goes
<1>5. CASE DpsTemperature
  BY <1>t, <1>5 DEF DpsTemperature, Goes, DpsType
<1>6. CASE DpsPressure
  BY <1>6 DEF DpsPressure, Sample, SensorIds
<1>7. CASE SmpbStart
  BY <1>7 DEF SmpbStart, Returns
<1>8. CASE SmpbTemperature
  BY <1>t, <1>8 DEF SmpbTemperature, Returns, SmpbType
<1>9. CASE SmpbPressure
  BY <1>9 DEF SmpbPressure, Returns, Sample, SensorIds
<1>10. CASE Measure \/ SensorsReset
  BY <1>10 DEF Measure, SensorsReset, NoSample
<1>11. CASE BmpReturns
  <2>1. err' = "ok" => got = "mine"
    BY <1>11 DEF BmpReturns, GetDataReturns, After, Failed, BmpInv, Fresh
  <2> QED
    BY <1>11, <2>1 DEF BmpReturns, Returns, SensorIds
<1> QED
  BY <1>1, <1>2, <1>3, <1>4, <1>5, <1>6, <1>7, <1>8, <1>9, <1>10, <1>11 DEF SensorsNext

(* Every variable has its type, the chips' and the record's as well.       *)
THEOREM SensorsTyped == SensorsSpec => []SensorsTypeOK
<1>1. SensorsInit => BmpTyped /\ Standing
  BY BmpTypedStarts
     DEF SensorsInit, Standing, NoSample, BootSteps, DataSteps, Owners, SensorIds
<1>2. BmpTyped /\ Standing /\ IInv => SensorsTypeOK
  BY DEF SensorsTypeOK, BmpTypeOK, BmpTyped, Typed, Standing, IInv, ChipsTyped, DpsType, SmpbType,
     Registers
<1> QED
  BY <1>1, <1>2, BmpTypedKept, StandingKept, Invariant, BmpInvariant, PTL DEF SensorsSpec
----------------------------------------------------------------------------
(* How the drivers put the coefficients together.                          *)
LEMMA UpperHalf ==
  ASSUME NEW half \in Nat, half > 0, NEW raw \in Nat, raw < 2 * half
  PROVE  raw \div half = IF raw < half THEN 0 ELSE 1
  OBVIOUS

(* For every width that leaves the word a bit to spare, every raw value of *)
(* that width is given the value the sensor means: the unsigned            *)
(* subtraction wraps around to just that (my_util.c:33).                   *)
THEOREM TwosComplementExact ==
  ASSUME NEW Word \in Nat, Word % 2 = 0,
         NEW half \in Nat, half > 0, 2 * half <= Word \div 2,
         NEW raw \in 0 .. 2 * half - 1
  PROVE  getTwosComplement(raw, half, Word) = Meant(raw, half)
<1> DEFINE q == raw \div half
<1>1. Unsigned(raw, Word) = raw
  BY DEF Unsigned
<1>2. q = IF raw < half THEN 0 ELSE 1
  BY UpperHalf
<1>3. CASE raw < half
  BY <1>1, <1>2, <1>3 DEF getTwosComplement, Meant
<1>4. CASE raw >= half
  <2>1. q % 2 = 1
    BY <1>2, <1>4
  <2>2. (raw - 2 * half) % Word = raw - 2 * half + Word
    BY <1>4
  <2>3. Signed(raw - 2 * half + Word, Word) = raw - 2 * half
    BY <1>4 DEF Signed
  <2> QED
    BY <1>1, <1>4, <2>1, <2>2, <2>3 DEF getTwosComplement, Meant
<1> QED
  BY <1>3, <1>4

(* What the halves of a value give when they are put together again.       *)
LEMMA Rejoined ==
  ASSUME NEW r \in Nat
  PROVE  /\ (r \div 16) * 16 + (r % 16) = r
         /\ (r \div 256) * 256 + (r % 256) = r
         /\ r \div 16 \in Nat /\ r \div 256 \in Nat
         /\ r % 16 \in 0 .. 15 /\ r % 256 \in 0 .. 255
  BY SMT

LEMMA Halves ==
  ASSUME NEW high \in 0 .. 15, NEW low \in 0 .. 15
  PROVE  (high * 16 + low) \div 16 = high /\ (high * 16 + low) % 16 = low
  BY SMT

(* The DPS368's coefficients come out of the bytes they share as they were *)
(* put in, c0 and c1 and, with 20 bits, c00 and c10 (dps368.c:26-33).      *)
THEOREM NibblesSplit ==
  ASSUME NEW r \in Nat, NEW s \in Nat
  PROVE  /\ r < 4096 /\ s < 4096 =>
              LET b == Packed12(r, s) IN C0(b[1], b[2]) = r /\ C1(b[2], b[3]) = s
         /\ r < 1048576 /\ s < 1048576 =>
              LET b == Packed20(r, s)
              IN  C00(b[1], b[2], b[3]) = r /\ C10(b[3], b[4], b[5]) = s
<1>1. ASSUME r < 4096, s < 4096
      PROVE  LET b == Packed12(r, s) IN C0(b[1], b[2]) = r /\ C1(b[2], b[3]) = s
  <2>1. s \div 256 \in 0 .. 15
    BY SMT, <1>1
  <2>2. /\ ((r % 16) * 16 + s \div 256) \div 16 = r % 16
        /\ ((r % 16) * 16 + s \div 256) % 16 = s \div 256
    BY SMT, <2>1, Rejoined, Halves
  <2> QED
    BY SMT, <2>2, Rejoined DEF Packed12, C0, C1
<1>2. ASSUME r < 1048576, s < 1048576
      PROVE  LET b == Packed20(r, s)
             IN  C00(b[1], b[2], b[3]) = r /\ C10(b[3], b[4], b[5]) = s
  <2>1. s \div 65536 \in 0 .. 15
    BY SMT, <1>2
  <2>2. /\ ((r % 16) * 16 + s \div 65536) \div 16 = r % 16
        /\ ((r % 16) * 16 + s \div 65536) % 16 = s \div 65536
    BY SMT, <2>1, Rejoined, Halves
  <2>3. (r \div 4096) * 256 + ((r \div 16) % 256) = r \div 16
    BY SMT
  <2>4. (s \div 65536) * 256 + ((s \div 256) % 256) = s \div 256
    BY SMT
  <2>5. (r \div 4096) * 4096 + ((r \div 16) % 256) * 16 + (r % 16) = r
    BY SMT, <2>3, Rejoined
  <2>6. (s \div 65536) * 65536 + ((s \div 256) % 256) * 256 + (s % 256) = s
    BY SMT, <2>4, Rejoined
  <2> QED
    BY SMT, <2>2, <2>5, <2>6 DEF Packed20, C00, C10
<1> QED
  BY <1>1, <1>2

(* The 2SMPB's a0 has the upper half of the shared byte, which is b00's,   *)
(* for its last four bits (smpb.c:36).  If the sensor keeps a0's own in    *)
(* the lower half, the driver's raw value is off by less than 16, and what *)
(* it computes with, a sixteenth of that, by less than one.                *)
THEOREM SharedNibble ==
  ASSUME NEW msb \in 0 .. 255, NEW lsb \in 0 .. 255, NEW shared \in 0 .. 255
  PROVE  A0(msb, lsb, shared) - (msb * 4096 + lsb * 16 + (shared % 16)) \in -15 .. 15
  BY SMT DEF A0
=============================================================================
