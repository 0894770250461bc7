# Verification of the iatwa firmware

The program measures air pressure with three I2C sensors every 600 ms and appends a
line per measurement to `data.txt` on an SD card (nRF52, nRF5 SDK 16, no RTOS). This
directory holds TLA+ modules of its control, TLC configurations that check them on
small instances, and TLAPS proofs for all values of the constants.

## 1. Inventory

| Component | State it keeps | Operations | Hard behaviour | What makes it correct |
|---|---|---|---|---|
| **TWI bus calls** `twi.c`, `nrfx_twi.c` | `twi_transfer_done`, a control block per bus | `twi_read`, `twi_write`, `twi_irq_handler` | thread against two interrupts, one flag for both buses, missing `break` in `case 0`, no timeout | a wait is ended by its own transfer; a success is one; a hang has a reason |
| **Event scheduler** `app_scheduler.c` | a ring of slots, start and end index | `app_sched_event_put`, `app_sched_execute` | nested interrupt producers, slot filled outside the critical region | bounded FIFO, no slot with two writers |
| **SD card driver** `app_sdcard.c` | `m_cb`: operation, bus state, nested protothreads, retry count | `app_sdc_init/uninit/block_read/block_write`, `spi_handler` | state machine spread over SPI interrupts, a dozen error exits | one event per operation; consistent state after each exit |
| **Disk glue, block device, `sd_write`** `sdcard.c`, `diskio_blkdev.c`, `nrf_block_dev_sdc.c` | `m_active_sdc_dev`, STA_NOINIT, busy and last-result of the drive | `sd_write`, `disk_initialize/read/write`, `sdc_handler` | four layers with a state each, retries, partial failures | layers agree; what an answer of 0 is worth |
| **Main program** `main.c` | queue contents, handler under way, discarded results | boot, main loop, `app_timer_handler`, `scheduler_event_handler` | wake-up race at `__WFI`, hangs, catch-up | no measurement lost, hang ends in reset |
| **Timer module** `app_timer.c` | list of timers with differences of ticks, operation queue, `m_ticks_latest`, compare register | `app_timer_start/stop/stop_all`, RTC1 and SWI interrupts | the counter goes on between any two steps; thread against two interrupts; wrap of 24 bits | no handler early or missed, the list is what was asked for |
| **Watchdog, fault reset** `nrfx_wdt.c`, `app_error_weak.c` | time since feeding | feed, bite, system reset | queue limit under `APP_ERROR_CHECK` | queue never full, healthy program never bitten |
| **BMP388** `bmp3.c`, `bmp_integration.c` | device settings, calibration | modes, settings, data | order of register writes, fixed waits, a sensor that changes mode by itself | an OK means the chip did it; a sample is new |
| **BMP388 FIFO** `bmp3.c` (not called by the program) | settings, buffer, length, start index | settings, read, parse, flush | the sensor adds and drops frames between two transfers; index arithmetic; swallowed errors | each frame once, in order, whole |
| **DPS368, 2SMPB-02E** `dps368.c`, `smpb.c` | coefficients, sensor configuration | init, get_data | polling without bound, readiness ignored, `get_data` stops at the first failure, resets leave the sensor running | a record holds this call's samples, compensated with the sensor's own coefficients |
| **Helper** `getTwosComplement` `my_util.c` | none | two's complement, bytes to coefficients | unsigned wrap-around, shared nibbles | exact for every width |
| MS5607 `ms5607.c`, `float_to_string` | | | | compiled, called by nothing: left out |
| UART, build files, `obrada_signala.py`, FatFs, rest of the SDK | | | | output, off-line or third-party: left out |

How they interact: RTC1 expires and posts a *timeout* event to the scheduler; the main
loop runs it, and it posts a *measure* event; that one calls the sensor drivers (each a
sequence of blocking TWI calls) and `sd_write` (FatFs, `disk_*`, the block device, the
driver). The thread spins on `twi_transfer_done` and sleeps on the drive's `busy`;
interrupts change both. `APP_ERROR_CHECK` and the watchdog reset everything.

The hazards are listed at their lines in `PROJECT.json`.

## 2. Modules

| Module | Models | Role |
|---|---|---|
| `Twi` | `twi.c` over `nrfx_twi.c`, two buses | component |
| `TwiCall` | what a `twi_read`/`twi_write` promises | abstract specification of `Twi` |
| `Scheduler` | the ring of `app_scheduler.c` | component |
| `BoundedFifo` | a bounded queue with one consumer | abstract specification of `Scheduler` |
| `AppSdcard` | `app_sdcard.c` | component |
| `SdCard` | `sd_write`, disk glue and block device; EXTENDS `AppSdcard` | composition |
| `SdCall` | what `sd_write` promises | abstract specification of `SdCard`, used by `Iatwa` |
| `Iatwa` | `main.c`, timer, watchdog; the queue as the FIFO `Scheduler` implements, `sd_write` as `SdCall` | composition |
| `AppTimer` | `app_timer.c` under RTC1 and SWI | component |
| `Bmp3` | the control of `bmp3.c` over a model of the sensor | component |
| `Bmp3Fifo` | the FIFO functions of `bmp3.c` over a model of the FIFO | component |
| `Bmp388` | `bmp_integration.c`; EXTENDS `Bmp3` | component |
| `Sensors` | `dps368.c`, `smpb.c` and main's boot and `get_data` over all three sensors; EXTENDS `Bmp388` | composition |
| `Coeffs` | `getTwosComplement` and the coefficient bytes | pure functions |
| `Twi_proofs`, `Scheduler_proofs`, `Iatwa_proofs`, `SdCard_proofs`, `Bmp3_proofs`, `Bmp3Fifo_proofs`, `Sensors_proofs`, `AppTimer_proofs` | | proofs |
| `MCTwi`, `MCScheduler`, `MCSdCard`, `MCIatwa`, `MCAppTimer`, `MCBmp3`, `MCBmp3Fifo`, `MCSensors` | | instances for TLC |

Operators named after a bug (`EnterFlagUp`, `AdvanceFeeds`; each has a comment that begins
with "Mutation of") are faulty variants of the operator that follows them; no specification uses
them. Each property is checked to fail when its variant replaces the real operator.

### Twi

The thread's `pc` follows one call: `enter` (flag lowered), `issue0`/`wait0` (case 0),
`issue1`/`wait1` (case 1), `ret`. One interrupt action per cause: a byte sent, a byte
received, an error, the STOP. A call for instance 0 runs its transfer on bus 0 and,
since `case 0` has no `break` (twi.c:87, 116), starts it again on bus 1 and returns
with that *phantom* transfer under way. Payload bytes are counted, not stored.
`NoAlias` (no chip on bus 1 answers to an address used on bus 0) is how the board is
built: 0x76 and 0x70 on bus 0, 0x77 on bus 1. Without it a phantom would be
acknowledged, raise the flag and write into a dead stack frame. Clock stretching and
`twi_init` are not modelled.

### Scheduler

A put takes three steps: reserve (critical region), store the handler, store the data and
return; an interrupt of a higher level may nest between any two. The consumer reads the
head, runs the handler, then moves the start index. `SCHED_QUEUE_SIZE + 1` slots, as in
the code.

### AppSdcard, SdCard

A step is one SPI interrupt: `spi_handler` resumes the protothread that was waiting. The
card may answer anything, or nothing, at each. Block contents and CSD arithmetic are
left out. `sd_write` is the thread: initialise up to three times, then the FatFs
functions in order, each of which makes requests and succeeds or fails. The conditions
a card gets into, as the caller cannot see them, are those of `SdCall`: *down*, *up*,
*wedged* (an identification failed half-way; `app_sdc_uninit` is refused, the device is
never freed, no later call reaches the card before a reset), *mute* (a command went
unanswered and left the bus state behind; the next request trips `APP_ERROR_CHECK`).
The three tries of `sd_write` amount to at most two identifications, since after a failed one
the next only frees the device.

### Iatwa

`pc` runs through the boot, then the loop: `feed`, `execute` (the empty test of
`app_sched_execute`), the handler, `ran` (handler returned, slot not yet free),
`drained` (found empty, not yet asleep), `asleep`. Events are posted in `Expire` and
`RunTimeout`. Time passes while a handler works and in the sleep; everything else takes
none. A timer expiry is due as soon as `tick = Period`, a bite as soon as `dog = Wdt`;
no time passes before either. The handler of a timer expiry runs from the scheduler
(`APP_TIMER_CONFIG_USE_SCHEDULER`), so two events make one measurement. The results of
`get_data` and `sd_write` change nothing in the control, as in the code.
The fault handler resets: only the Debug build type defines `DEBUG`, and prepare_build.sh does not choose it. A reset starts again from cold
RAM with the watchdog stopped; that a real watchdog may outlive a soft reset (hardware)
is left out, it could only end a `halt` sooner.

### Bmp3, Bmp388

The driver is straight-line code, so `pc` is the next bus transfer and an action is a
transfer together with the code up to the next one. A transfer that returns was made
(`HonestSuccess` of `Twi`): each action has an outcome *reported as failed* beside the
other, in which the chip has been read or written all the same. The sensor ends a
measurement (`Measured`) between any two transfers; it takes a mode other than sleep only
when asleep, and reports a configuration error in normal mode when a measurement takes
longer than the period (the formula of `validate_osr_and_odr_settings`); that error is a level, not
cleared by reading. Its fatal error never occurs. `Restart` resets the microcontroller
and leaves the sensor as it is. `conv`, `data` and `got` say whose measurement it is:
"mine" if it was started since `bmp3_set_op_mode` was last called.

`Bmp3` has any client; `Bmp388` has the program's: init, assign, select, set the
mode, then samples. There the wait of 45 ms ends after the measurement if `MeasTime` says so;
the driver's formula is taken as the sensor's time.

Left out: interrupt pin and I2C-watchdog settings, compensation.

### Sensors

`step` is the next transfer of main's boot or of `get_data`; while it is a BMP388 step
the actions of `Bmp388` run. The DPS368 becomes ready, then has its coefficients; polling
loops are guards. A start puts a measurement into the chip (`meas`, `whose`), which ends
by itself; after a driver's wait it is over, the one thing assumed of the sensors' times.
On bus 0 a transfer that was made may be reported as failed; on bus 1 a call returns with
success or not at all (`TwiCall`: the DPS368 is on instance 1). `SensorsReset` restarts
the microcontroller at any point and leaves the chips as they are; a sensor that loses its
power alone is not modelled. As in the code, readiness of the results is not looked at,
and the record is written whatever `get_data` returned. `sdata` says whose samples each
sensor's fields hold, not what they are.

### AppTimer

Counter values are counted from `m_ticks_latest`, as the code uses them only in differences.
The thread starts and stops timers; RTC1 and SWI have the same priority and preempt it.
Each access to the counter is a step (`ReadCounter`, `SetCompare`, `ReadAgain`), and
`Tick` may come between any two, up to `MaxLag` ticks before the interrupt is served.
A timer's request goes through the operation queue to the SWI handler, which updates the
list (`timer_list_insert`, `timer_list_remove` as in the code, on differences), restarts
expired repeated timers and sets the compare register, where `RTC_COMPARE_OFFSET_MIN` and the
second look at the counter are. As only the thread requests, at most one operation
waits. `elapsed` and `left` are history: what the timers should do.
`MaxLate`, what `Punctual` allows, grows with the number of timers (see Findings, observed).
`Punctual` and `NeverEarly` justify the single `Expire` of `Iatwa`.

### Bmp3Fifo

`fifo` is what the sensor holds, frame by frame; `buffer` the frames, or the last piece of one, that
a read put into `dev->fifo->data.buffer`. The length and the bytes are two transfers
(`ReadLength`, `ReadFifo`); `Sample` may come between them, and a full FIFO then loses its
oldest frame or, with `stop_on_full_en`, takes no more. `Parsed` is the loop of
`bmp3_extract_fifo_data` over byte indices: where no frame begins at an index it sees
something that is not a header. The client reads again when the driver says that no frame is
left, and does not parse a read that failed. The settings of FIFO_CONFIG_2 and INT_CTRL
stand for one group (`"others"`) whose content matters to nothing here; the FIFO is enabled
throughout; `parsed_frames`, the sensor time and the watermark are left out. The results of the other calls
have no consequences and are not kept.

### Coeffs

Pure operators, with the word size a parameter: 2^32 in the code, smaller for TLC, any even
number in the proof.

## 3. Runs

| Run | Instance | Question |
|---|---|---|
| `twi` | 2 + 1 chips, payloads 1 to 3, `twi_write` limited to 2 | Every interleaving: what ends a wait, what an error code is worth, when a call hangs, and `TwiCall` |
| `scheduler` | queue of 3, 2 events, thread and 2 interrupt levels | No slot with two writers, a handler keeps its slot, `BoundedFifo` |
| `sdcard` | 2 polls per loop, 1 or 2 blocks, 3 requests per call | Do the layers agree, what do three tries amount to, `SdCall` |
| `sdinfo` | the same | expected to fail, see Findings |
| `iatwa` | step 200 ms: period 3, watchdog 20, queue 10; measurements up to 20 | Queue never full, no expiry lost, every hang ends in a reset |
| `iatwa_fast` | the same, measurements up to 2 | The watchdog never bites; the program catches up |
| `iatwa_marker` | the same | expected to fail, see Findings |
| `bmp3` | 3 settings (forced; normal; sleep with an odr out of range), 5 selections | What BMP3_OK says of mode, settings and reset is true of the chip |
| `bmp3_err` | the same | expected to fail, see Findings |
| `bmp3_fifo` | FIFO of 20 bytes, 3 samples, 2 settings calls, 1 or 2 frames wanted, with and without time and stop-on-full | Is what is extracted what the FIFO held, and when is a frame cut |
| `apptimer` | a repeated and a single-shot timer of 13 ticks, counter modulo 56, lag up to 2 | No handler early or missed, the list is what was asked for |
| `sensors` | the program's settings and wait | Each record is this call's own and complete as far as it claims, with the right coefficients; settings survive; also checks `Coeffs` against its reference |

Bounds. `twi`: a payload of one byte and of more than one take different paths in
`twi_receive_byte` (STOP armed before or between), three bytes go through the general
one, and one is beyond `MaxMsg`. Two chips on bus 0 let a phantom meet another
instance 0 call, the chip on bus 1 lets it meet a call that waits there.
`scheduler`: four slots wrap after four puts; nesting three deep meets every pair of
contexts. `sdcard`: the limits of the retry loops are small, each is reached, and exceeding it
takes the code's exit; three requests let a failed one be followed by one that meets
its traces. `iatwa`: the ratio of the constants is the program's (600 : 4000, ten events); the
proofs cover all others. `bmp3`: the selections take the one setting of a shared register, both, and
none of it; the settings differ in every field, and with what fails half-way
they mix in the chip (oversampling of one, rate of another), so that a normal mode the
chip cannot keep does occur. `sensors` has no bound but `Wait`, the program's. `apptimer`: 56 stands
for 2^24; the counter wraps, an interval is a quarter of it and longer than the smallest one
the module allows plus the lag, the two timers give every order of expiries, starts and stops; a start
is bounded to the first half of the range after the last known value (see Findings, observed). `bmp3_fifo`: 20
bytes hold two pairs of samples and some configuration frames, so a third overruns; of two
settings calls the second may fail and leave driver and sensor disagreed.

`CHECK_DEADLOCK FALSE` is set where the program really stops: a hung TWI call
(`MCTwi`; there is no watchdog in that module) and `while(1)` at boot (`MCIatwa*`).

### Fairness

* `Twi`: the thread runs, and an interrupt that is pending is served.
* `Scheduler`: each context, interrupted as it may be, makes progress again (strong
  fairness: a preempted put or handler is resumed when the interrupt has returned).
* `SdCard`: the SPI peripheral completes each transfer, and the thread runs.
* `Iatwa` (`FairSpec`): the straight-line steps of the loop, time, timer and watchdog.
  Nothing says that a handler or a boot step ends: that is what the watchdog is for.
  `FastSpec` adds that a measurement proceeds, and `MaxWork` that it does so in time.

## 4. Proofs

All are of the form `Spec => []P` or `Spec => [][A]_vars`, from the named assumptions
of the module and no others, by an inductive invariant (`IInv`; `DriverInv`, `SdInv`,
`FifoInv` where modules would clash). TLC has checked each such invariant on the instances
of section 3 before it was proved.

* **Twi_proofs** (`TwiAssumption`, `NoAlias`). The properties are not inductive: they say what is true when
  the flag is up, not why. `IInv` adds what a control block says of its own transfer
  (`BlockOK`), that the block the thread waits for holds its transfer and agrees with
  the flag (`Own`), and that whatever else is on bus 1 is a phantom to an address that
  nobody answers to (`BusOK`). Proved: `TypeCorrect`, `BusZero`, `WaitSound`, `SuccessHonest`,
  `NoLoss`, `HungForever`, `BufferLive`, and `Refinement` (the safety part of
  `KeepsPromise`).
* **Scheduler_proofs** (`SchedulerAssumption`: a queue of 1 to 255). `IInv` adds that
  only entered contexts are inside a put, that a slot in use which nobody fills holds
  one whole event, and what the running handler was given. Proved: `TypeCorrect`,
  `ConsumerSeesNoGap`, `SingleWriter`, `HandlerSafe`, and `FifoImplements`, the safety part of
  `IsFifo`: the queue is read from the ring by an index that wraps, and each step of the ring
  appends to it, drops its head, or leaves it.
* **SdCard_proofs** (`SdcAssumption`, `SdCardAssumption`: the retry limits, blocks and requests are positive).
  `HandlerStep` states once what an SPI interrupt may do to the driver in whatever protothread it
  resumes: the transfer goes on, or the operation ends with one event and a driver in one of
  the states the layers above can cope with. `Owners` says for each place of the thread who has
  the device and what the driver is doing, `Tries` how many identifications the tries so far can have
  begun. Proved: `SdTyped`, `SdLayers`, `SdTries`, and `SdImplements`, the safety
  part of `KeepsPromise`: each step of the four layers is a step of `SdCall` or a stutter.
* **Bmp3_proofs** (`Bmp3Assumption`; any settings, any selections). Each call is straight-line
  code over many transfers, and what it promises is true only of all of them together. `DriverInv`
  gives, for each `pc`, what the transfers so far have put into the chip and what `before`
  still says of the rest, though a forced measurement may end, and with it the mode change, between any two. Proved:
  `DriverTyped`, `ModeSet`, `SettingsSet`, `ResetHonest`.
* **Bmp3Fifo_proofs** (`Bmp3FifoAssumption`; any depth, number of samples, settings and requests).
  The parser runs over bytes and the promise is about frames. `Total` and the `Size` lemmas
  give the bytes of a sequence of frames, the `DataOf` lemmas its data frames (both are
  folds; what they compute is proved by taking the least length at which it would fail, with the library's
  minimum of a well-founded set, since its induction rule is out of the provers' reach).
  `HeaderLaw`: where a frame begins its header is found, and none behind the start of the last. `ParseKeeps` and `Running` carry
  the *place* of the parser, the number of frames it has passed, through the loop. `FifoInv` says that `start_idx` is at a place
  whose data frames have been given, and for which of the reasons (`time_en`, an overrun) the buffer's last piece is cut or empty.
  Proved: `FifoTyped`, `FifoExtracted`.
* **Iatwa_proofs** (`IatwaAssumption`: `Wdt < (QueueSize - 2) * Period`; 4000 < 4800).
  "The queue is not full" says nothing about time, so it is not inductive. The
  invariant speaks of `Due = Period * owed + tick`: an expiry leaves it as it is, time
  raises it together with `dog`, a measurement lowers it, and at the head of the loop
  it is at most two periods (one expiry slept over and one that wakes). So it stays
  below `Wdt + 2 * Period`, a full queue's worth. Proved: `TypeCorrect`, `NeverFull`,
  `NothingLost`, `TwoAtMost`. For `NeverBites` the invariant `Paid` weighs the
  watchdog's time with what is no longer due; `Unbitten` shows that the watchdog never
  bites if `2 * Period * MaxWork < (Wdt - Period) * (Period - MaxWork)` (`FastEnough`): with 600 and
  4000 ms, measurements of up to 443 ms.
* **AppTimer_proofs** (`AppTimerAssumption`: any finite number of timers; intervals longer than `MaxLate`
  and with it short of half the counter; the program's is 19 661 of 16 777 216 ticks). The list holds differences; the list lemmas say what `timer_list_insert`,
  `timer_list_remove`, the expiry of the first timers and their restart make of the times at which timers
  expire (`Expiry`), and no later proof looks at a difference. Even the type is no invariant by itself:
  that differences stay non-negative depends on the counter being near the last known value, and this on the
  compare event being neither missed nor late. So there is one invariant, `TimerInv`, with who is in the list and why
  (`Members`), how long each handler has to wait (`Due`), what a queued start is still worth (`Started`), and how far the
  counter may be at each step between RTC1, SWI and the second look at the counter (`Armed`, `Called`, `Updating`).
  `Chain` bounds how often timers due at about the same time can put each other off: each time one of them has been
  stopped, and it is not back so soon. Proved: `TimerInvariant`, `TimerTyped`, `NoneLate`, `ListRight`, `NoneEarly`. TLC checked
  `TimerInv` on the instance of `apptimer` (1.26 million states) before it was proved.
* **Sensors_proofs** (`WaitAssumption`: `MeasTime(Wanted(0)) <= Wait`; 36.9 and 45 ms; `CoefficientsGood` and `StartedAtRest` do not use
  it). `Compensated` is about the main loop, but why it is true lies in the boot: `Booted` says what
  has been read and written at each of its steps. `Quiet` carries through `get_data` that
  nobody measures once the BMP388 has been read, save the one started last. `Held` says
  whose measurement each driver is about to read and what the record holds by then. Proved: `CoefficientsGood`,
  `StartedAtRest`, with `BmpInv` also `SettingsKept` and `SampleFresh`, and from both `RecordTrue`.
  `BmpInv`, for the BMP388 (its lemmas are about the actions of `Bmp388`): that a returned sample is fresh is not
  inductive. The measurement must have been begun by this call and be over when it is read
  (`Fresh`): the chip was asleep when the mode was written (`Awake`), and the wait is long
  enough for the settings the chip has, which are those of `bmp388_init` (`Arrived`). That
  normal mode never occurs is part of the type (`Typed388`).
  `SensorsTyped` needs besides that the settings the program selects are among those of the driver (`SelectionAssumption`).
  The last section of the module is pure arithmetic about `Coeffs`. `TwosComplementExact`: for every word with an even modulus and every width
  that leaves it a bit to spare, the unsigned subtraction and its conversion give the value
  that is meant. `NibblesSplit`: the DPS368's coefficients survive the shared bytes.
  `SharedNibble` bounds the error of the 2SMPB's a0.

Only model-checked:

* the liveness parts of `IsFifo` and `KeepsPromise` (both), and `ReturnsOrHangs`,
  `NoHangSurvives`, `CatchesUp`: liveness under fairness is beyond the prover.

## 5. Findings

* `sdinfo`: after an unanswered identification `spi_handler` sets the operation to idle
  behind `app_sdc_uninit` (app_sdcard.c:913), so `app_sdc_info_get` returns the
  information of a card that is not initialised; app_sdcard.h:203 promises NULL.
* `iatwa_marker`: main.c:334 says that every reset appends the marker; the result of
  that `sd_write` is discarded, and a boot whose tries fail stores records without it.
* `bmp3_err`: `get_err_status` stores each bit in the next field, so a configuration
  error is reported as `fatal`, which bmp3_defs.h:630 describes as the fatal error. The
  program does not call `bmp3_get_status`.

Observed, with no run of their own: `bmp3_set_sensor_settings` validates by the mode that
is wanted, not the one the chip is in, and can leave a chip in normal mode with a rate
it cannot keep (the trace of `bmp3_err` does so); a comment says the timer handler is an
interrupt handler triggered every 100 ms (main.c:109); it runs from the scheduler, every
600 ms. A hang at boot before `wdt_init` is ended by nothing.

* `list_insertions_handler` tells by half the counter's range whether a timer was started before or
  after the last known value (app_timer.c:635). When timers are started and always stopped
  before they expire, that value stands still while another timer keeps the counter running,
  and a start more than 256 s on expires at once. The program's only timer expires every 600 ms.
* Timers due at about the same time can each put off the next: when the first is stopped just before
  it expires, the update of the list sets the compare value `RTC_COMPARE_OFFSET_MIN` after the
  counter (app_timer.c:690), though the next timer is due no later, and so on with
  the next. `MaxLate` therefore counts the timers; the program has one.
* `bmp3_set_fifo_settings` overwrites the error of one group of settings with the result of
  the next (bmp3.c:952-968).
* With `time_en`, `bmp3_get_fifo_data` reads four bytes more than the length it was told
  (bmp3.c:1031): a sample that has come since is read in part, parsed as a whole one, and
  comes again with the next read. The same happens to the last frame when a full FIFO
  loses old frames between the two reads. `FramesExtracted` admits just these two.
* Pressure brings temperature with it only when pressure itself is set (bmp3.c:2645): a client that
  sets temperature alone can turn it off and leave pressure on. `FramesExtracted` has pressure without
  temperature only for such a client.
* The 2SMPB's a0 takes the upper half of the byte it shares with b00 (smpb.c:37), as b00
  does; by `SharedNibble` the value computed with is off by less than one. The filter value 0x07 is commented "N = 32"
  (smpb.c:69).

## 6. Not modelled

* MS5607 and `float_to_string` (called by nothing), the UART (output only), the build files
  and `obrada_signala.py` (no run-time state).
* FatFs: a third-party library; `SdCard` has it as a client that issues block requests.
* Compensation polynomials: floating point, without control.
* BMP3 interrupt-pin and I2C-watchdog settings, FIFO watermark: register writes of the same pattern as
  the ones modelled, which the program never makes.
* The rest of the vendored nRF5 SDK. `src/` holds about 700 000 lines, of which
  the program's own are some 6 000, most of them `bmp3.c`; nearly all others are register and bit-field headers, `sdk_config.h`
  of a dozen boards, start-up code and drivers and libraries that are not compiled into this
  program. They have no behaviour to model; of the SDK files that run in it (`nrfx_twi.c`,
  `app_scheduler.c`, `app_timer.c`, `app_sdcard.c`, `nrf_block_dev_sdc.c`, `diskio_blkdev.c`,
  `nrfx_wdt.c`) the functions the program reaches are modelled.

## 7. Plan

Done: all modules and proofs above. Next, in this order:

1. `AppTimer` with starts beyond half the range, once the guess of app_timer.c:635 has
   been replaced, and as a refinement of the `Expire` of `Iatwa` for one repeated timer.
2. `Sensors` composed with `Iatwa` in place of its one measuring step.
