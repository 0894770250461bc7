------------------------------- MODULE Bmp388 -------------------------------
(***************************************************************************)
(* bmp_integration.c on top of the BMP3 driver: main initialises the       *)
(* BMP388 once and then asks it for a sample whenever the timer says so.   *)
(* No data-ready bit is looked at: a sample is read 45 ms after the        *)
(* measurement was started, whenever that ended.  Sensors composes these   *)
(* actions with those of the other sensors.                                *)
(***************************************************************************)
EXTENDS Bmp3

CONSTANT Wait    (* nrf_delay_ms(45), in microseconds                      *)

ASSUME Bmp388Assumption == Wait \in Nat

VARIABLES
  at,      (* where main and its calls of bmp_integration.c stand          *)
  err      (* what bmp388_init or bmp388_get_data returned                 *)

bmpVars == <<at, err>>
allVars == <<vars, bmpVars>>

Places ==
  {"init", "assign", "set_settings", "init_mode", "ready", "mode", "wait", "data", "halted"}

BmpTypeOK == TypeOK /\ at \in Places /\ err \in Results

(* Mutation of Wanted: a filter coefficient, where its code belongs.       *)
WantedCoefficient(odr) ==
  [mode |-> "forced", press |-> TRUE, temp |-> TRUE,
   pos |-> 4, tos |-> 1, odr |-> odr, iir |-> 15]

(* What bmp388_init asks for; the odr is left as it is.                    *)
Wanted(odr) ==
  [mode |-> "forced", press |-> TRUE, temp |-> TRUE,
   pos |-> 4, tos |-> 1, odr |-> odr, iir |-> 3]

(* The wait outlasts a measurement with these settings.                    *)
ASSUME WaitAssumption == MeasTime(Wanted(0)) <= Wait

SettingsSel == {"press_en", "temp_en", "press_os", "temp_os", "iir"}

(* bmp388_init is a client of bmp3.c like any other.                       *)
ASSUME SelectionAssumption == SettingsSel \in Selections

(* main calls bmp388_init first of all, and that bmp3_init.                *)
BmpInit ==
  /\ chip = ResetSettings /\ conv = "none" /\ data = "none" /\ cmderr = FALSE
  /\ dev = ZeroSettings /\ status = NoStatus /\ got = "none"
  /\ pc = Entry("bmp3_init") /\ fn = "bmp3_init"
  /\ sel = {} /\ before = ResetSettings /\ reg = ZeroSettings /\ rslt = "none"
  /\ at = "init" /\ err = "none"

----------------------------------------------------------------------------
(* The function of bmp3.c called at p has returned, with or without error. *)
After(p)  == at = p /\ pc = "idle" /\ rslt = "ok"
Failed(p) == at = p /\ pc = "idle" /\ rslt # "ok"

AssignSettings ==
  /\ After("init")
  /\ dev' = Wanted(dev.odr)
  /\ at' = "assign"
  /\ UNCHANGED <<chipVars, status, got, pc, callVars, reg, rslt, err>>

SetSettings ==
  /\ at = "assign"
  /\ StartSettings(SettingsSel)
  /\ at' = "set_settings"
  /\ UNCHANGED err

(* Mutation of SetMode: the error of the settings is not looked at.        *)
SetModeAnyway ==
  /\ at = "set_settings" /\ pc = "idle"
  /\ Start("bmp3_set_op_mode")
  /\ at' = "init_mode"
  /\ UNCHANGED err

SetMode ==
  /\ After("set_settings")
  /\ Start("bmp3_set_op_mode")
  /\ at' = "init_mode"
  /\ UNCHANGED err

InitReturns ==
  /\ After("init_mode")
  /\ at' = "ready" /\ err' = "ok"
  /\ UNCHANGED vars

(* main lights its LEDs and loops for good: the watchdog does not run yet. *)
InitFails ==
  /\ \E p \in {"init", "set_settings", "init_mode"} : Failed(p)
  /\ at' = "halted" /\ err' = rslt
  /\ UNCHANGED vars

GetData ==
  /\ at = "ready"
  /\ Start("bmp3_set_op_mode")
  /\ at' = "mode" /\ err' = "none"

(* Mutation of StartWait: the sample is read as soon as it was asked for.  *)
StartNoWait ==
  /\ After("mode")
  /\ Start("bmp3_get_sensor_data")
  /\ at' = "data"
  /\ UNCHANGED err

StartWait ==
  /\ After("mode")
  /\ at' = "wait"
  /\ UNCHANGED <<vars, err>>

(* The delay is over: a measurement that takes no longer has ended.        *)
ReadSample ==
  /\ at = "wait"
  /\ MeasTime(chip) <= Wait => conv = "none"
  /\ Start("bmp3_get_sensor_data")
  /\ at' = "data"
  /\ UNCHANGED err

GetDataReturns ==
  /\ \/ After("data") /\ err' = "ok"
     \/ \E p \in {"mode", "data"} : Failed(p) /\ err' = rslt
  /\ at' = "ready"
  /\ UNCHANGED vars

(* The watchdog or the reset pin: main begins anew, the chip goes on.      *)
Reset ==
  /\ dev' = ZeroSettings /\ status' = NoStatus /\ got' = "none"
  /\ pc' = Entry("bmp3_init") /\ fn' = "bmp3_init"
  /\ sel' = {} /\ before' = ResetSettings /\ reg' = ZeroSettings /\ rslt' = "none"
  /\ at' = "init" /\ err' = "none"
  /\ UNCHANGED chipVars

----------------------------------------------------------------------------
(* A sample that bmp388_get_data returns without error is of a measurement *)
(* this very call has started, with pressure and temperature both: never   *)
(* an older one, though no data-ready bit is read, a measurement of an     *)
(* earlier call may still run when this one begins, and the                *)
(* microcontroller may have been reset at any point before                 *)
(* (bmp_integration.c:86).                                                 *)
FreshSample == at = "ready" /\ fn = "bmp3_get_sensor_data" /\ err = "ok" => got = "mine"

(* From the end of bmp388_init to the next reset the chip has the settings *)
(* the data is compensated and timed for, whatever calls have failed since:*)
(* no error on the way leaves it in normal mode, with a sensor off or with *)
(* an oversampling the wait is too short for (bmp_integration.c:60).       *)
ConfigKept ==
  at \in {"ready", "mode", "wait", "data"} =>
    /\ chip.mode \in {"sleep", "forced"}
    /\ chip = [Wanted(chip.odr) EXCEPT !.mode = chip.mode]
=============================================================================
