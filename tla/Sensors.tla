------------------------------ MODULE Sensors ------------------------------
(***************************************************************************)
(* The three sensors of the program: main initialises the BMP388, the      *)
(* DPS368 and the 2SMPB-02E one after another and stops for good at the    *)
(* first that fails; scheduler_event_handler asks them for a sample in     *)
(* that order, stops asking at the first that fails, and writes the record *)
(* in any case.                                                            *)
(*                                                                         *)
(* A step is a transfer with the code up to the next one.  On bus 0 a      *)
(* transfer that was made may be reported as failed; on bus 1, that of the *)
(* DPS368, a call that returns is a success (TwiCall).                     *)
(*                                                                         *)
(* The sensors are external: they obey what the drivers rely on, namely    *)
(* that a measurement is over when the driver has waited for it.           *)
(***************************************************************************)
EXTENDS Bmp388

VARIABLES
  step,     (* where main and the drivers of this module stand             *)
  dps,      (* the DPS368                                                  *)
  smpb,     (* the 2SMPB-02E                                               *)
  dcoeffs,  (* dps368.c: coef_struct, "none" until coeffs_read             *)
  scoeffs,  (* smpb.c: likewise                                            *)
  temp,     (* whose temperature the driver has read                       *)
  sdata,    (* struct sensor_data: whose sample each sensor's fields hold  *)
  result    (* what get_data returned                                      *)

sensorVars == <<step, dps, smpb, dcoeffs, scoeffs, temp, sdata, result>>
everything == <<allVars, sensorVars>>

BootSteps == {"bmp388_init", "init_ready", "coef_rdy", "coeffs", "PRS_CFG", "TMP_CFG", "CFG_REG",
              "smpb_coeffs", "IIR_CNT"}
DataSteps == {"bmp388", "snsr_rdy", "start_tmp", "tmp", "start_prs", "prs",
              "CTRL_MEAS", "TEMP", "PRESS"}
Owners    == {"none", "mine", "other"}
SensorIds == {"bmp388", "dps368", "smpb"}

SensorsTypeOK ==
  /\ BmpTypeOK
  /\ step \in BootSteps \cup DataSteps \cup {"idle", "record", "halted"}
  /\ dps \in [ready : BOOLEAN, coefs : BOOLEAN, cfg : SUBSET {"PRS_CFG", "TMP_CFG", "CFG_REG"},
              meas : {"none", "tmp", "prs"}, whose : Owners, tmp : Owners, prs : Owners]
  /\ smpb \in [iir : BOOLEAN, meas : Owners, data : Owners]
  /\ dcoeffs \in {"none", "good", "garbage"} /\ scoeffs \in {"none", "good"}
  /\ temp \in Owners
  /\ sdata \in [SensorIds -> {"zero", "mine", "other"}]
  /\ result \in {"none", "ok", "fail"}

NoSample == [s \in SensorIds |-> "zero"]

(* The chips have just been powered; main calls bmp388_init first.         *)
SensorsInit ==
  /\ BmpInit
  /\ step = "bmp388_init"
  /\ dps = [ready |-> FALSE, coefs |-> FALSE, cfg |-> {},
            meas |-> "none", whose |-> "none", tmp |-> "none", prs |-> "none"]
  /\ smpb = [iir |-> FALSE, meas |-> "none", data |-> "none"]
  /\ dcoeffs = "none" /\ scoeffs = "none"
  /\ temp = "none" /\ sdata = NoSample /\ result = "none"

----------------------------------------------------------------------------
(* The chips.                                                              *)

(* After power-on the DPS368 becomes ready and then has its coefficients.  *)
BecomesReady ==
  /\ \/ ~dps.ready /\ dps' = [dps EXCEPT !.ready = TRUE]
     \/ ~dps.coefs /\ dps' = [dps EXCEPT !.coefs = TRUE]
  /\ UNCHANGED <<allVars, step, smpb, dcoeffs, scoeffs, temp, sdata, result>>

DpsMeasured ==
  /\ dps.meas # "none"
  /\ dps' = [dps EXCEPT ![dps.meas] = dps.whose, !.meas = "none", !.whose = "none"]
  /\ UNCHANGED <<allVars, step, smpb, dcoeffs, scoeffs, temp, sdata, result>>

SmpbMeasured ==
  /\ smpb.meas # "none"
  /\ smpb' = [smpb EXCEPT !.data = smpb.meas, !.meas = "none"]
  /\ UNCHANGED <<allVars, step, dps, dcoeffs, scoeffs, temp, sdata, result>>

(* What the driver's wait is long enough for.                              *)
AtRest == dps.meas = "none" /\ smpb.meas = "none"

(* History only: a new call of get_data begins.                            *)
Older(x) == IF x = "mine" THEN "other" ELSE x

Goes(s) == step' = s /\ UNCHANGED <<allVars, sdata, result>>

(* get_data returns and the record is written whatever it returned.        *)
Returns(r) == step' = "record" /\ result' = r

----------------------------------------------------------------------------
(* bmp388_init and bmp388_get_data; 45 ms outlast what another sensor was  *)
(* left to measure.                                                        *)

BmpStep ==
  /\ \/ step = "bmp388_init" /\ (AssignSettings \/ SetSettings \/ SetMode \/ InitReturns)
     \/ step = "bmp388" /\ (StartWait \/ (AtRest /\ ReadSample))
     \/ step \in {"bmp388_init", "bmp388"} /\ Transfer /\ UNCHANGED bmpVars
     \/ Measured /\ UNCHANGED bmpVars
  /\ UNCHANGED sensorVars

BmpInitialized ==
  /\ step = "bmp388_init"
  /\ \/ at = "ready" /\ step' = "init_ready" /\ UNCHANGED allVars
     \/ InitFails /\ step' = "halted"
  /\ UNCHANGED <<dps, smpb, dcoeffs, scoeffs, temp, sdata, result>>

----------------------------------------------------------------------------
(* dps368_init and dps368_get_coeffs.                                      *)

(* The sensor is asked once whether it is ready.                           *)
InitReady ==
  /\ step = "init_ready"
  /\ Goes(IF ~dps.ready THEN "halted" ELSE IF dcoeffs = "none" THEN "coef_rdy" ELSE "PRS_CFG")
  /\ UNCHANGED <<dps, smpb, dcoeffs, scoeffs, temp>>

(* Mutation of PollCoefs: the first answer is taken.                       *)
PollCoefsOnce ==
  /\ step = "coef_rdy"
  /\ Goes("coeffs")
  /\ UNCHANGED <<dps, smpb, dcoeffs, scoeffs, temp>>

PollCoefs ==
  /\ step = "coef_rdy" /\ dps.coefs
  /\ Goes("coeffs")
  /\ UNCHANGED <<dps, smpb, dcoeffs, scoeffs, temp>>

ReadCoeffs ==
  /\ step = "coeffs"
  /\ dcoeffs' = IF dps.coefs THEN "good" ELSE "garbage"
  /\ Goes("PRS_CFG")
  /\ UNCHANGED <<dps, smpb, scoeffs, temp>>

(* Precision of pressure and temperature (with the source that COEF_SRCE   *)
(* names), result shift.                                                   *)
Configure ==
  /\ \E next \in {<<"PRS_CFG", "TMP_CFG">>, <<"TMP_CFG", "CFG_REG">>,
                  <<"CFG_REG", "smpb_coeffs">>} :
       /\ step = next[1]
       /\ dps' = [dps EXCEPT !.cfg = @ \cup {next[1]}]
       /\ Goes(next[2])
  /\ UNCHANGED <<smpb, dcoeffs, scoeffs, temp>>

----------------------------------------------------------------------------
(* smpb_init.                                                              *)

SmpbCoeffs ==
  /\ step = "smpb_coeffs"
  /\ \/ Goes("IIR_CNT") /\ scoeffs' = "good"
     \/ Goes("halted") /\ UNCHANGED scoeffs
  /\ UNCHANGED <<dps, smpb, dcoeffs, temp>>

SmpbFilter ==
  /\ step = "IIR_CNT"
  /\ smpb' = [smpb EXCEPT !.iir = TRUE]
  /\ Goes("idle") \/ Goes("halted")
  /\ UNCHANGED <<dps, dcoeffs, scoeffs, temp>>

----------------------------------------------------------------------------
(* get_data: scheduler_event_handler has cleared the record.               *)

Measure ==
  /\ step = "idle"
  /\ GetData
  /\ step' = "bmp388"
  /\ sdata' = NoSample /\ result' = "none" /\ temp' = "none"
  /\ dps' = [dps EXCEPT !.whose = Older(@), !.tmp = Older(@), !.prs = Older(@)]
  /\ smpb' = [smpb EXCEPT !.meas = Older(@), !.data = Older(@)]
  /\ UNCHANGED <<dcoeffs, scoeffs>>

(* Mutation of BmpReturns: get_data goes on with the next sensor.          *)
BmpReturnsGoesOn ==
  /\ step = "bmp388"
  /\ GetDataReturns
  /\ step' = "snsr_rdy" /\ UNCHANGED result
  /\ sdata' = IF err' = "ok" THEN [sdata EXCEPT !["bmp388"] = got] ELSE sdata
  /\ UNCHANGED <<dps, smpb, dcoeffs, scoeffs, temp>>

BmpReturns ==
  /\ step = "bmp388"
  /\ GetDataReturns
  /\ IF err' = "ok"
     THEN step' = "snsr_rdy" /\ sdata' = [sdata EXCEPT !["bmp388"] = got] /\ UNCHANGED result
     ELSE Returns("fail") /\ UNCHANGED sdata
  /\ UNCHANGED <<dps, smpb, dcoeffs, scoeffs, temp>>

----------------------------------------------------------------------------
(* dps368_get_data.                                                        *)

PollReady ==
  /\ step = "snsr_rdy" /\ dps.ready
  /\ Goes("start_tmp")
  /\ UNCHANGED <<dps, smpb, dcoeffs, scoeffs, temp>>

(* MEAS_CFG is written: a single measurement begins.                       *)
DpsStart ==
  /\ \E next \in {<<"start_tmp", "tmp">>, <<"start_prs", "prs">>} :
       /\ step = next[1]
       /\ dps' = [dps EXCEPT !.meas = next[2], !.whose = "mine"]
       /\ Goes(next[2])
  /\ UNCHANGED <<smpb, dcoeffs, scoeffs, temp>>

(* Mutation of DpsTemperature: there is no wait.                           *)
DpsTemperatureAtOnce ==
  /\ step = "tmp"
  /\ temp' = dps.tmp
  /\ Goes("start_prs")
  /\ UNCHANGED <<dps, smpb, dcoeffs, scoeffs>>

(* After 5 ms.                                                             *)
DpsTemperature ==
  /\ step = "tmp" /\ dps.meas = "none"
  /\ temp' = dps.tmp
  /\ Goes("start_prs")
  /\ UNCHANGED <<dps, smpb, dcoeffs, scoeffs>>

(* A sample is of the measurements its temperature and pressure are of.    *)
Sample(t, p) == IF t = "mine" /\ p = "mine" THEN "mine" ELSE "other"

(* After 40 ms.  Readiness is read and told on the UART, no more.          *)
DpsPressure ==
  /\ step = "prs" /\ dps.meas = "none"
  /\ sdata' = [sdata EXCEPT !["dps368"] = Sample(temp, dps.prs)]
  /\ step' = "CTRL_MEAS"
  /\ UNCHANGED <<allVars, dps, smpb, dcoeffs, scoeffs, temp, result>>

----------------------------------------------------------------------------
(* smpb_get_data.                                                          *)

SmpbStart ==
  /\ step = "CTRL_MEAS"
  /\ smpb' = [smpb EXCEPT !.meas = "mine"]
  /\ \/ step' = "TEMP" /\ UNCHANGED result
     \/ Returns("fail")
  /\ UNCHANGED <<allVars, dps, dcoeffs, scoeffs, temp, sdata>>

(* After 40 ms.                                                            *)
SmpbTemperature ==
  /\ step = "TEMP" /\ smpb.meas = "none"
  /\ \/ step' = "PRESS" /\ temp' = smpb.data /\ UNCHANGED result
     \/ Returns("fail") /\ UNCHANGED temp
  /\ UNCHANGED <<allVars, dps, smpb, dcoeffs, scoeffs, sdata>>

SmpbPressure ==
  /\ step = "PRESS"
  /\ \/ sdata' = [sdata EXCEPT !["smpb"] = Sample(temp, smpb.data)] /\ Returns("ok")
     \/ Returns("fail") /\ UNCHANGED sdata
  /\ UNCHANGED <<allVars, dps, smpb, dcoeffs, scoeffs, temp>>

(* sd_write_sensordata, and back to the main loop.                         *)
Record ==
  /\ step = "record"
  /\ step' = "idle"
  /\ UNCHANGED <<allVars, dps, smpb, dcoeffs, scoeffs, temp, sdata, result>>

----------------------------------------------------------------------------
(* The watchdog or the reset pin: main begins anew, the chips go on.       *)
SensorsReset ==
  /\ Reset
  /\ step' = "bmp388_init"
  /\ dcoeffs' = "none" /\ scoeffs' = "none"
  /\ temp' = "none" /\ sdata' = NoSample /\ result' = "none"
  /\ UNCHANGED <<dps, smpb>>

SensorsNext ==
  \/ BmpStep \/ BmpInitialized
  \/ InitReady \/ PollCoefs \/ ReadCoeffs \/ Configure \/ SmpbCoeffs \/ SmpbFilter
  \/ Measure \/ BmpReturns
  \/ PollReady \/ DpsStart \/ DpsTemperature \/ DpsPressure
  \/ SmpbStart \/ SmpbTemperature \/ SmpbPressure \/ Record
  \/ BecomesReady \/ DpsMeasured \/ SmpbMeasured
  \/ SensorsReset

SensorsSpec == SensorsInit /\ [][SensorsNext]_everything

----------------------------------------------------------------------------
(* What the record says is true: the fields of a sensor are zero or of a   *)
(* measurement this very get_data has started, temperature and pressure    *)
(* both, though no driver stops at a readiness bit; the zeros are those of *)
(* the sensor that failed and those after it, and there are none if        *)
(* get_data returned without error (main.c:247).                           *)
RecordHonest ==
  step = "record" =>
    /\ \A s \in SensorIds : sdata[s] # "other"
    /\ sdata["smpb"] = "mine" => sdata["dps368"] = "mine"
    /\ sdata["dps368"] = "mine" => sdata["bmp388"] = "mine"
    /\ result = "ok" <=> sdata["smpb"] = "mine"

(* From the end of the boot to the next reset the drivers compensate with  *)
(* coefficients that were there when they were read, and the sensors have  *)
(* the precision and the shift the scale factors are for, whatever the     *)
(* transfers reported and however often the microcontroller was reset      *)
(* before (dps368.c:14).                                                   *)
Compensated ==
  step \in DataSteps \cup {"idle", "record"} =>
    /\ dcoeffs = "good" /\ scoeffs = "good"
    /\ dps.cfg = {"PRS_CFG", "TMP_CFG", "CFG_REG"} /\ smpb.iir

(* No sensor is told to start while it measures: not even after a start    *)
(* that was reported as failed, so that get_data returned without a wait,  *)
(* or after a reset in the middle of a measurement (dps368.c:132).         *)
StartsAtRest ==
  [][/\ DpsStart => dps.meas = "none"
     /\ SmpbStart => smpb.meas = "none"]_everything
=============================================================================
