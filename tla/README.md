# Specifications of the KER encoder and its calibration

TLA+ models of the joint encoder of this repository: the firmware of the
ATtiny1616 module on every joint (`encoder/src`), the M5 that polls up to sixteen
of them over one RS-485 bus and streams their angles to a PC (`M5`), the bench tool
that talks to a module and drives the calibration station (`encoder/tools/kercal`),
and the numerical procedures that the specification rests on, whose reference
implementations are scripts (`encoder/docs/evidence`). TLC checks each model on small
instances; what matters most of the module, the wire format, the receivers, the M5's tasks,
the host's session and the two angle computations is also proved with TLAPS, for all values of the constants
that satisfy the assumptions the modules state.

    tlc -workers 2 -config MCKerCmd3_module.cfg MCKerCmd3    # any run: module and cfg
    tlapm KerCmd3Proofs.tla                                  # any module with proofs

Section numbers (4.7, 7.2, ...) are those of `encoder/docs/protocol-spec.md`.

## 1. The system

| Part | State | Operations | Interacts with | Hard behaviour |
|---|---|---|---|---|
| CMD=3 protocol, `ker_cmd3.cpp` | read gate, `arm_seen`, unlock, factory mode, staging buffer, running page, records, latch, sampling engine | one handler per received frame, a hook after each read | `main.cpp` calls it; it writes the USERROW through `ker_cal.c` and hands the calibration to `ker_sensor.cpp` | wrapping time-outs, requests in any order, failed and interrupted flash writes |
| Calibration page, `ker_cal.c` | the 32 bytes of USERROW | inspect, seal, program | CMD=3 | torn writes, re-validation at reset |
| Sensor path, `ker_sensor.cpp`, `ker_health.c` | held angle, failure count, health word, counters, calibration in force | read, configuration lock, housekeeping, set_cal | the TLE5012B chip over SSC | chip resets, persistent faults, saturation |
| Main loop, `main.cpp` | receive state, cached angle, read-due flag | one frame and one read per turn | all of the above; the bus | late and queued frames, two copies of the angle |
| Compensation, `ker_comp.c` | none | raw code to output angle | sensor path; the M5 sums its outputs | 16-bit products, the grid of the output |
| M5 tasks, `M5/src/main.cpp` | `SystemState` atomics, two queues of length one | acquisition, stream, GUI, sensor tasks on two cores | RSNexus, USBStream, GUIHandler | every interleaving of their writes |
| M5 receiver, `RSNexus.cpp` | frame automaton, last angle and valid flag per joint | request, read | the bus | lost bytes; a valid flag is never cleared |
| Angle processing, `AngleProcessor.h` | unwrapped angle, jig offsets in flash | process, reset, zero | acquisition | lost frames, lost turns, float32 sums without end |
| USB stream, `USBStream.cpp` | field table, frame buffer | send, recv, PING | the PC | time-outs in the middle of a frame |
| Host link, `kercal/link.py` | framer, frames seen, poisoned flag | request, broadcast, listen | a module on the bench | lost and late replies, matching by SUB only |
| Host module and commands, `module.py`, `cli.py` | the ID it addresses | one method per request, sample, write_page, scan | link | an error after any request; a retry of what was already done |
| Station, `station.py`, `fit.py` | the measurements of a run, two files | measure, fit, commit, validate, grade, record | module, stage, operator | order of commit and grade, faults that look like unit errors |
| Commissioning, `ref_selfcal.py` and variants | turns measured | measure, fit, judge | the station's reference chain | faults that the criteria cannot see |

What makes each part correct:

* CMD=3: it never transmits on a live arm, never writes outside an unlocked,
  recently addressed factory session on a bench, and the identity it answers as is
  one and survives every failure as either the running identity or the default.
* Sensor path: whatever the chip does, the angle that is sent and the health word
  agree, and a sound chip is recovered.
* Main loop: the sensor is never starved and a reply never repeats a reading.
* Sampling: a record that says done is one whole run with exact sums.
* M5: a stop is a stop, a glitch does not reach the PC, a request is served once; the
  angle shown is the joint's, and stays it over any number of frames.
* Framing: after a loss the receivers are back in step within one frame.
* Host: each command ends, an undisturbed one succeeds, and what it reports of the module is so.
* Station and commissioning: no unit is graded better than it is, a sound one
  ships, and a reference chain that passes its criteria is as good as they promise.

`PROJECT.json` lists the hazards line by line, and the properties aimed at each.

## 2. Modules

| Module | Models | State | Actions |
|---|---|---|---|
| `KerPage` | `ker_cal.c` | none: a page is a record of CRC, header and body | operators: inspect, seal, identity pages, what an interrupted or unverified write may leave |
| `IdentityStore` | abstract: what a calibration store promises | stored page, running page | commit, failed write, restart |
| `KerCmd3` | `ker_cmd3.cpp` | as the code's, with time as real time and `millis()` wrapped | one per request and refusal; reset; power failure inside a write; time |
| `KerSensor` | `ker_sensor.cpp`, `ker_health.c` | held angle, failure count, tick, health bits, counters, and the chip's configuration | a read with any outcome, at start and in `loop()`; set_cal; CLR_ERRCNT; reset of chip or module |
| `KerLoop` (extends `KerSensor`) | `loop()` | receive buffer, half of the turn, cached angle, latch | frame half and read half of a turn, arrival of frames, reset |
| `KerSample` | the sampling engine, `Module.sample` | the engine's fields, the record, the host's poll | one reading, cascade frame, gate, host start, status read, field read, error |
| `Framing` | `receivePacket21`, `RSNexus::readPacket`, `Framer` | the bytes either receiver holds | a byte arrives or is lost |
| `M5Control` | the tasks of `M5/src/main.cpp` | `SystemState`, the data queue, program counters and locals | each access to a shared atomic is a step |
| `AngleUnwrap` | `AngleProcessor.h`, `_valid` and `_angle_deg` of `RSNexus`, the angle path of `acquisitionTask` | `_last_raw`, unwrapped angle, joint offset, angle received last, what is shown | a pass with an answer, with a 0 for want of an angle, in silence; one before the first answer; zero; restart |
| `FloatAngle` | `ker_comp.c` with its table, the M5's float32 | page, codes and sums so far | first and next frame, suspension, zero |
| `Protocol` | `protocol.py` | none: bytes, words, pages, records, status words | operators |
| `PageWrite` | abstract: what a command promises about a module's USERROW | the page, the command running and what it said | begin, write, fail (leaving a broken page), end |
| `Host` (extends `Protocol`) | `link.py`, `module.py`, `cli.py` against a module | command, requests to send, replies; link flags; wire; module | send, serve, lose, garble, delay, time out, conclude; restart; cascade frame |
| `Station` | `station.py`, `fit.py`, `station_fit.py` | unit, page in it, phase and position, measurements, the two files | start, repeat, measure, commit or fail, write CSV, write JSON, abandon; slip, reseat |
| `SelfCal` | `ref_selfcal.py`, `reclamp_sweep.py` and two review variants | faults of the station, turns, fitted curve | turn, fit |
| `KerCmd3Proofs` | theorems about `KerPage` and `KerCmd3` | | |
| `KerSensorProofs` | theorems about `KerSensor` and `KerLoop`, and the status words of `Protocol` | | |
| `KerSampleProofs` | theorems about `KerSample`, the record's words of `Protocol`, the record of `Station` | | |
| `FramingProofs`, `M5ControlProofs`, `AngleUnwrapProofs`, `FloatAngleProofs` | theorems about the module of that name | | |
| `HostInvariants` (extends `Host`) | the inductive invariants of `HostProofs` | | |
| `HostProofs` | theorems about the frames and pages of `Protocol`, and about `Host` | | |

`MC*` modules give the constants of the runs; a `.cfg` per run.

How state and actions correspond to the code, beyond the names, which are the
code's:

* **Pages.** `KerPage` keeps a CRC as the content it was computed over: two pages
  have the same CRC exactly if they have the same content. That is stronger than a
  CRC-16 and is what the firmware relies on; a torn write that happens to keep a
  valid CRC is outside the model. A body is one value, `BodyOk` the ones that pass
  the field checks. A write that fails its verify, or is cut by a reset, leaves the old page,
  the new one or a torn one that is neither, as NVM programming may. `Protocol` has the
  same page word by word with the real CRC.
* **Time.** `KerCmd3` counts the real time since each event up to a bound that
  covers every comparison, and computes `millis()` differences modulo `ClockMod`.
  The uptime and run flags are sticky as in the code, and looked at only when a
  frame is handled, as there.
* **Requests.** A request is a gate, a time-out evaluation, a disarm and a handler in one
  step: `ker_on_frame` runs to completion. `GatedRequest`, `Broadcast`, `BadSub`, `NotEligible`,
  `NotUnlocked` are its early returns. Requests that only read are one action.
* **The sensor.** An outcome of `angle_txn` is chosen freely, subject to what the
  chip can do: it shows S_RST in one word only. An angle is a pair of a raw code and
  the calibration it was mapped with. Register contents are the two facts the code
  cares for: whether the chip is configured and whether the lock said so.
* **Two angles.** `angle_out` is `ker_sensor.cpp`'s, `latest_angle_21bit` is
  `main.cpp`'s. `sent` and `comp` are what goes out in this step, `Silent` if nothing.
* **Sampling.** The arm stands at an unwrapped position; the code's differences are
  computed from wrapped codes as it does, the history variables from positions.
  `Module.sample`'s reads of index 1 to 11 return a record that index 0 froze, so they are one step.
* **M5.** `requestStreamStart` is four writes (`StartWrite`), a confirmed jump is
  three and a test (`AcqTrip`), a zero request is a loop over channels and a clear.
  Local computation is attached to the shared access before it. Two angles of the model are always
  a jump apart; which one a channel shows is free in every frame.
  The pair jump_ch/jump_diff is one variable; the PING flag and the display are left out.
* **Unwrapping.** `_valid` is set by the first answer and never cleared, so a module that falls silent is processed
  in every pass with the angle it told last, and the error flag stays down. `seen` is the pose of that angle, and what
  is shown is compared with it: in a pass with an answer it is where the joint is. A zero asked for in silence saves the old
  angle; `sound` says whether it was the jig's. Whole degrees stand for the angles: modules send multiples of 8 LSB, and
  on that grid the M5's float32 arithmetic is exact. `FloatAngle` is where that is shown
  (`ExactOnGrid`), with the unit 2^-18 degree, in which every float32 that occurs is an integer.
* **Words.** Shifts and masks are quotients and remainders; a 32-bit value that TLC's integers
  cannot hold is a pair of words. Status words are built as the module's masks build them and read
  back as `decode_bits` does. The estimate of sigma in `decode_sample` is left out.
* **Host.** A command is the list of requests its method makes, in order (`Plan`), with the time-out
  of each; the module's side is `ker_cmd3.cpp` behind open gates. A time is a number of reply time-outs. A frame
  on its way is in `air`, then in the adapter's `inbox`, then parsed. A late reply may come up to
  `MaxLatency` later, that is during the next request or session. `staging_dirty` is "a word is staged";
  factory mode ends by time-out between sessions only, as no session pauses for 5 s. A write that fails its verify or is
  cut by a restart leaves the old page, the erased one or one of `Torn`, any set of pages `inspect_page` refuses.
  No frame has a checksum: one may be garbled in its ARG, its ID (`OtherIds`) or its SUB (`OtherSubs`), a request or a reply.
  The tool refuses a reply whose ID is not 0; a request whose ID has changed is answered by the module it now names.
  `trouble` keeps the two apart: `garbled` is any garbled frame of the session, `misread` a garbled request.
* **Station.** Angles are millidegrees, so the limits are the source's. `fit` takes the best of a
  set of curves (`PAGES`) by the sum of squares with a discarded constant, instead of a linear solve:
  the units are made from that set, so that the best curve is what the solve would find. A unit has an error
  curve, a loop of hysteresis that changes over the turn, a mounting offset, noise that keeps its sign for
  a while, and the faults of the scripts that attack the procedure: an error above the fitted
  harmonics, a slip in the fixture, a stage that lands apart from two sides or gives way after it was read, an
  error of the reference chain. The statistic of `grade` is kept quadrupled and the hysteresis doubled,
  to stay in integers.
* **Commissioning.** One harmonic, a phasor in tenths of an arc second; mountings are quarter
  turns, so that a turned phasor is exact. The fit is the least-squares solution by Cramer's rule. Noise, the
  scatter of positions and the sub-divisional error have no first harmonic. The artefact's
  drift is linear in time, as in the scripts; `centred` is the thought experiment "equal_means" of
  `selfcal_drift_mechanism.py`.

History variables (marked in each module) exist only in properties.

## 3. Runs

| Run | Instance | Shows |
|---|---|---|
| `cmd3` | two IDs, a blank and a calibrated page (torn ones are reached), distinct time-outs, clock modulo 3 | identity coherent; resets restore running identity or default; staging is of this session; unlock protocol; commits what was staged; SET_ID keeps the calibration; read gate and write guard in real time; refinement of `IdentityStore` |
| `sensor_health` | counters to 2, failures to 3, threshold 2, housekeeping every 2nd read, 2 start attempts | a persistent fault is never frozen; a lock reported good is a configured chip; recovery |
| `loop_turns` | one buffered frame, threshold 1, two failures | what is sent is the published reading; interval reads are served |
| `sample` | runs of 1 and 4 readings around the seam of an 8-code circle, host polling | exact sums or flagged; a result is one whole run |
| `m5_stream` | one channel, a jump confirmed in its 2nd frame | late frames, bridging, flow |
| `m5_zero` | two channels | zeroed only as often as asked |
| `framing_loss` | five frame numbers | resynchronisation, no chimera frames |
| `host` | fifteen commands, two IDs, pages of four words, one of them torn, three sessions or faults | undisturbed commands succeed, on a torn page too; what is found is there; records are snapshots; silence after a cascade frame; refinement of `PageWrite`; each command ends |
| `station` | eleven kinds of unit, six positions a pass, two harmonics, two runs | a grade is true, sound units ship, the record tells the page in the unit |
| `unwrap` | inverted joint of -160 to 80 degrees, steps of 60 degrees, poses to 900 degrees | the angle shown is the one told last; no jump by a turn |
| `float` | a joint of either direction, fourteen codes at the seam and the changes of the float32 step, real table, seven readings | the interpolation stays in 16 bits; sums exact, or off by 5 units at most |
| `selfcal` | four mountings, two clockings, every sign of a clamping error, 3, 10 and 30 arcsec, drifts of 0 to 10 % | the criteria keep the 15 arcsec promise; good stations pass; what going out and back cancels; what the old procedure cannot see |

### What the documents say and the code does not do

These configurations check a statement of a document that the code does not keep; TLC
finds the counterexample. They are not part of the list of runs.

| Configuration | Statement | What happens |
|---|---|---|
| `MCKerCmd3_retry.cfg` | a SET_ID that failed with WRITE_FAIL can be retried | on a virgin part the torn page makes the retry BAD_PAGE |
| `MCKerCmd3_timeout.cfg` | 4.9: factory mode ends after 5 s without an accepted request | left for a whole period of `millis()` it is still open |
| `MCKerSensor_srst.cfg` | `protocol-spec.md:867`: S_RST outside the lock re-runs it | the housekeeping transaction swallows it (`ker_sensor.cpp:248`) |
| `MCKerLoop_zero.cfg` | 4.7, 6.2: 0 is sent only with NO_VALID_ANGLE | a frame buffered during `setup()` is answered before the first read of `loop()` |
| `MCKerLoop_comp.cfg` | 4.7: GET_ANGLE_COMP is what CMD=1/2 would send | not between a COMMIT_CAL and the next read |
| `MCM5Control_report.cfg` | `M5/README.md:81-86`: the jump warning stays until START | a START that races the jump clears it and is stopped |
| `MCM5Control_first.cfg` | `Common.h:168`: the first channel to trip is shown | a START that races the jump lets a later one be shown |
| `MCM5Control_lost.cfg` | `M5/README.md:66`: a zero request zeroes | one made while the offsets are saved is erased (`main.cpp:248`) |
| `MCFraming_same.cfg` | `link.py`: the host's framer is the module's state machine | a header inside a frame restarts the one and resets the other |

Met while modelling, without a configuration of their own:

* `Module.stage` (`module.py:145`) says a STAGE_ADDR is issued again after a time-out; the code raises.
  A `write_page` run again while factory mode is still open gets a NAK SEQUENCE at UNLOCK_1.
* `cmd_set_id` does not compare the ID it reads back; `Module.cmd_info` alone measures the round trip
  that rule 9 of 4.3 asks for before any time-out is relied on; `scan` takes a `timeout` and does not use it.
* `Link._note` (`link.py:82`) would have every cascade frame poison the session; those that
  `reset_input_buffer` throws away (`link.py:120`) do not. `SilentAfterCascade` is about frames the session parsed.
* 7.7 has the reference polled from before SAMPLE_START to after GET_SAMPLE and theta_true be the mean;
  `_measure` polls before only. `GradeIsTrue` allows what the shaft moves in between as an
  error of the grade: the noise check, always clockwise, does not see it.
* 7.2 step 7 forms the errors per direction with that direction's theta_true; `StationRun.grade`
  uses the clockwise one for both. `GradeIsTrue` allows the difference of the landings in the hysteresis.
  Step 1's "discard and repeat" is a RuntimeError that ends the run.
* 9.7 asks for the page words in the record; they are not in it, but can be drawn from the CSV (`RecordTellsUnit`).
  A crash between the two files leaves the CSV of this run beside an older report; a run given up after the commit
  leaves an ungraded page beside an older report that may say it ships. `cmd_fit` writes the file of the page
  before it refuses a unit that does not ship.

### Bounds

* Time is compared with at most four time-outs; the instance makes them 1 or 2 units
  under a clock of period 3, which gives every order of expiry and every wrap, and real time
  saturates above all of them. A USERROW of a later layout is left to the proofs, which take any page. Counters saturate after 1 to 3 steps instead of 255 or 65535:
  the code tests for equality with the limit, so the size does not matter, the reaching of
  it does. Housekeeping every 2nd (1st in `KerLoop`) read instead of 16th lets it fall on any outcome.
* One buffered frame is enough for `KerLoop`: the buffer refills at any step, so frames queue
  without end. Runs of 4 readings saturate `SumD2Max`. Five frame numbers: a receiver holds parts of at most
  two frames and the history looks one further.
* Jump confirmation in the 2nd frame has one bridged frame; one channel suffices where the channels are
  independent, two where one mask or one `jump_ch` joins them. `CountMax` caps history counters of the M5 above
  what the properties compare with.
* `Host`: `DEADLINE` is three times the readings and half a second more in `Module.sample` (`module.py:114`), which covers the run and
  one record read after it; `DeadlineAssumption` asks for that much and no more. `Budget` bounds sessions and faults together (3): a fault in one session and its effect on the next, or two faults
  in one. Pages of four words and a serial number of one keep every index at its ends; `MaxLatency` of two ticks
  lets a reply fall into the next request's window. `Torn` is the page `write_page` writes with its last word erased, and one
  command gives the tool the build default as ID, so that `set_id` meets that page in the session after the failure. A garbled ID reads 1,
  the module's own at first, so that a scan or a read of ID 2 reaches it; a garbled SUB reads NAK or STAGE_DATA. Most indexed records
  have one or two words; GET_SAMPLE has its twelve, hence the `DEADLINE`.
* `Station`: six positions tell two harmonics and their alias apart; `Runs` = 2 lets a run begin on what the
  last one left. `UNITS` holds each fault alone and those that hide one another.
* `AngleUnwrap`: `Reach` is where poses end; two turns lost the same way are not healed by the code and are not claimed.
  `FloatAngle`: seven readings take the sum to 510 degrees, past the changes of the float32 step at 64, 128 and 256. The joint is
  inverted or not: an inverted one's jig offset is a multiple of 4 units and its sum is off by 4 at most; the other's
  may be off by 5, and the run gets there.
* `SelfCal`: four mountings and two clockings are the least that separate the four errors; C2 as it is after one more fixturing (`MCS2Now`) has two levels, 1.8 arcsec apart, where `s2_now` draws from several; production may be
  clamped worse (`ProdLevel`) than any other mounting.

`RxMax`, `CountMax`, `Frames`, `Positions`, `Budget`, `MaxLatency`, `Runs`, `Reach` and `Step` have no counterpart in the code.

`CHECK_DEADLOCK FALSE` stands where the modelled work ends: the budget of `host`, the runs of `station`, the fit of `selfcal`.

### Fairness

* `KerSensor`: weak fairness of the read. `loop()` reads at least every `SSC_INTERVAL_MS`;
  that is itself checked, as `IntervalServed` of `KerLoop`. `Recovers` assumes nothing
  of the chip but that from some time on (`sound`) it neither resets nor fails.
* `KerLoop`: weak fairness of a turn: the Arduino core calls `loop()` for ever and no
  path in it blocks. Nothing is assumed of the bus.
* `M5Control`: weak fairness of the acquisition task, the stream task and the writes of a
  `requestStreamStart` once begun: each blocks for a bounded time (1 ms, 10 ms, 2 ms) and has
  the higher priority on its core. The user and the PC are never obliged to do anything.
* `Host`: weak fairness of the tool and the module together: every wait of the tool has a time-out, and
  the module serves a frame it has received. Nothing is assumed of the wire; a command ends even if every reply is lost.
* The others: safety only.

### Reading the station's results

* `GradeIsTrue` is relative to the reference chain, as 7.7 says: its error is in the fit and in the
  validation alike, so that neither shows it. The largest the run has is 14 millidegrees (50 arcsec), the rated limit.
* `GoodUnitsShip` speaks of units that a perfect station would surely accept
  (three quarters of the limit, as in `station_gate_ref_error.py`), including a unit seated half a turn off.
* `PassingIsTrue` holds for production on the mounting set B was measured on, whose clamping error C2's estimate takes up, even
  one ten times the others'. Clamped once more after commissioning, a good station stays within 10.7 arcsec
  (checked), but one that only passed may be 46 arcsec off: nothing that was measured tells.
* The drift of the artefact between set A and set B is booked to C2. That is why stations of 3 % drift
  are refused, and going out and back does not help: `OutAndBackCancels` shows that sets centred on the same time would.
* A reference that moves after commissioning is seen by no criterion (`reclamp_sweep.py` says so) and is not modelled.

## 4. Proofs

`KerCmd3Proofs` proves, for all sets of IDs and bodies, all initial contents
of the USERROW and all time-outs below the period of the clock, every property the
run of `KerCmd3` checks. The assumptions are those of `KerPage` and `KerCmd3`
(`ASSUME`, evaluated by TLC in each run): the build default is a
valid ID, a body of ones or zeros is not a good one, the time-outs are positive and
smaller than the period.

The inductive invariant `IInv` is needed because none of the properties is inductive:

1. `TypeOK`;
2. for every wrapped difference the code computes, the real time it stands for is
   that difference, or has saturated: this carries the read gate, the write guard and the unlock
   window from `millis()` to real time;
3. factory mode: an armed unlock and factory mode exclude each other, staged words
   and the index exist only in factory mode, the history of the unlock protocol
   matches, and none survives a cascade frame;
4. pages: the running page is valid or none, the ID in use is its ID or the build
   default, and the USERROW, if it would be accepted at reset, is the running page or
   was left by a failed write.

`Inductive` proves `Init => IInv` and `IInv /\ [Next]_vars => IInv'` with one step per
action. `TypeCorrect`, `IdentityIsCoherent`, `ResetIsSafe`, `UnlockIsDisciplined`,
`StagingIsOfThisSession` follow from `IInv`; `ReadGateHolds`, `WriteGuardHolds`, `UnlockWindowHolds`,
`StagedIsCommitted`, `CalibrationIsKept` are action properties proved from `IInv` and each
action; `RefinesStore` shows that every step is a step of `IdentityStore` or leaves its
variables alone. The lemmas about `KerPage` they rest on come first: what `ker_page_inspect` accepts
and what a failed write may leave.

`KerSensorProofs` proves, for all counter limits, thresholds, calibrations and raw codes
that satisfy `SensorAssumption`, the safety properties of `sensor_health`, and that the flags tell
the angle and the sticky bits match the counters. Its `IInv` is `TypeOK`,
those properties and `CountsTheRow`: `consec_fail` is the length of the row of failures
up to its saturation. Without that conjunct the persistent-fault rule is not inductive,
because the code compares a saturating counter and the property speaks of the row. The
threshold is assumed not to exceed the saturation limit, as `PERSIST_FAIL` does not exceed 255.
A read is split into the angle it publishes, the errors it books, the row of failures and the
lock, one lemma each.

The same module goes on to `KerLoop`, for a receive buffer of any length. `LoopDrivesSensor` is a refinement:
every step of `loop()` is a step of `KerSensor` or leaves its variables alone, so what was proved of the sensor path
carries over, and the loop's own invariant `LoopIInv` adds only what `main.cpp` keeps. The two copies of the angle agree
from the moment the copy was first written (`CacheIsPublished`); that is inductive only together with "and then `setup()`
is over", because the reads of `ker_init` publish without writing the copy. `CascadeGetsPublished`, `ValidLatchIsTrue` and
`EveryReplyIsFresh` follow; the last one needs that a reply whose read is still to come is in the same turn.

`KerSampleProofs` proves `SumsAreExact` and `ResultsAreOneRun` for every set of run lengths, circle of codes and
correction. What it assumes, `WithinHalfTurn`, is what the code does: it wraps differences from the first reading into half a
turn, so on an arm that moved further they would be wrong. Under it a wrapped difference is the true one (`WrapExact`), by
the uniqueness of remainders. The invariant adds to the two properties that the reference of a run was a reading
of it (`RefWasSeen`), that a run under way is of the length the host asked for, and that a captured record is a whole
run with the status the host was told (`RecordIsOneRun`). A restart of the module empties the record,
which is why a host that reads on gets an error and no mixture.

The last part of `KerSampleProofs` is about `Station`: `RecordsTellTheUnit`, for any fit, units, positions and
number of runs. The invariant (`RecordInv`) is that from the commit on the page in the unit is the one the measurements so far give, and that the CSV, once
written, is all of them. It is inductive because the fit takes the rows of its own phase only, in order, so that rows measured
later change nothing (`FitRowsStay`), and because reading the CSV back loses no column (`RecordIsRead`). The `ASSUME` of `Station` is not used.
(`StationInit`, `StationNext`, `StationSpec` have the module's name in theirs because `KerSampleProofs` extends `KerSample` as well.)

`FramingProofs` is for every sequence of losses and any number of frames above one. To be back in step is an invariant of
how much each receiver holds against the place of the next byte: the tool always holds the intact part of the
frame; the module may hold nothing for one frame, if a header found it in the middle of another.
`FramesAreNotMixed` needs which bytes those are: until a header is lost, those held are of the frame on the wire and in
the order of their places (`OfOneFrame`).

`M5ControlProofs` is for any number of channels, angles and frames that confirm a jump, and every interleaving. `LateInv` counts
the frames of before a START wherever they are (one held, one queued, one assembled) and lets a frame be sent after
a stop only from a stream task that was past its check. `BridgeInv` is that every channel the task has already checked shows its last good
angle, unless a START has made the frame an old one. `TokenInv` counts what is due on a channel against
what was asked; it needs a history counter that reaches two (`CountMax`), as `zero_all` and a bit of the mask can both be pending.

The first part of `HostProofs` is about functions: what one side encodes the other decodes, for every value.
Frames, requests, NAKs, signed fields and whole pages of any number of harmonics that fit; the same for sampling records is at the end of
`KerSampleProofs`, for the three status words at the end of `KerSensorProofs`. Each rests on lemmas about quotients and remainders by powers of two. That a decoded "valid" or a configuration
called verified means that all checks held is part of it, because the host decides by it whether to go on.

Its second part is about `Host`, for any commands, page lengths, time-outs and budget of sessions and faults. The protocol
has no sequence numbers: a reply is matched by its SUB alone, and what keeps a late one from answering the next request is rule 8, that the tool waits
out the time-out once more before it goes on. Under the assumption that makes the rule sufficient (`LatencyAssumption`: no reply is later than
the time-out and that quiet period together, nor than the listening period that begins a session), `RepliesAreNotMixedUp` shows that when a request is on the wire no reply to an
earlier one is left in the air, the adapter or the tool. The invariant follows one reply through all of them: at most one
is under way, it is due before the window and the quiet period end, and frames arrive in order (`AirInv`, `ToolInv`, `RequestInv`,
`Lateness`). `ScansFindWhatIsThere` is its consequence for `scan`, whose requests all have the same SUB and so depend on the rule most: any number of
frames may be lost or late and any number of replies garbled, in their ID and SUB too. Garbled requests are excepted, for a ping whose ID has changed is answered,
and no check of the link could tell (TLC finds it in a few steps without the exception).
`PageWritesAreAsked` states who may change a page: `COMMIT_CAL` of `write_page` and `SET_ID` of `set_id`, while the tool waits for the answer,
on an unlocked module; that rests on the plan of every command being known (`RequestsOf`). A garbled request may be any, so then only the unlocked module and its write gate are left. `NothingAfterCascade` needs only that a poisoned session is an unsafe one.
`RecordsAreSnapshots` takes the most: the requests left are the script from the number of replies on (`InStep`); in a script
no request of a record but its first has index 0 (`Tidy`); and the replies to a record agree with one another, and with the snapshot
the module holds unless it has lost it (`OneSnapshot`), which the reply on its way must fit as well (`Fits`). A frame that was garbled is excepted,
since nothing on this wire checks it.

Its fourth part is `PagesAreWrittenAsPromised`: the host and the module together implement `PageWrite`, as long as no frame is garbled. A write that fails or is cut short may leave any page of `Torn`. (Enough
garbled words stage a page nobody asked for whose 16-bit CRC is right; the run checks the refinement with garbling, within its budget.)
The session is followed request by request. `PlaceInv` says that the request being sent, waited for or sat out is the one of the plan
at the number of replies so far. `StageInv` says what the module has by then: after the unlock, nothing is staged;
at each STAGE_ADDR and STAGE_DATA the words of the command's page up to that place, and the index at the next (`Ready`). Every way to be there
with something else ends the session: a restart closes factory mode, and what is asked then is refused. After the commit it is that the USERROW is the page.
`PagesInv` is that USERROW and running page are among the known ones. So a COMMIT_CAL that is accepted commits the page of the command, and a
`verified` is said of the words read back after it.

Its last part is `CleanRunsSucceed`, the converse: where nothing goes wrong, nothing is refused either. It is
about whatever page the module has, a torn one of an earlier session included, with the one exception the code makes: where the module
runs on the build default and the USERROW is neither valid nor erased, `do_set_id` has nothing to copy and something to lose, and `cmd_set_id`
ends with a NAK (`Hopeless`, `Declined`). `HeldInv` is that the running page is a valid one or none, through commits of checked pages and identities copied from sound ones; it
needs that every CRC is a word (`CrcIsWord`) and that what `inspect_page` accepts decodes to a page. `Opened` says
what the module has when the tool has d replies: locked, armed or open by the place of the unlock in the plan, nothing staged before a
SET_ID, the new ID after it, and a snapshot behind every record already begun. `TruthTold` is that the replies so far are the module's serial words and the
words of its page, so the key made of them is the right one. With these no request of a plan is refused (`CalmIsAccepted`), and
`CleanInv` follows the one frame on the wire: out, answered within the window (`Fast`), read. `Timed` is about `sample`: the loop of polls ends with a
record that is done before the deadline, by `DeadlineAssumption`. `EndInv` is what has come of it at the end.

`AngleUnwrapProofs` proves both properties of `unwrap` for every joint whose range and margins leave part of the
turn free, either direction, every mounting, step and jig. The invariant is that the
unwrapped angle is off the difference of `_last_raw` and the saved raw angle by whole turns and that `_last_raw` is the raw angle received
last, which is of the pose told last unless the module sent 0 for want of an angle; that the limits heal one
turn is then arithmetic: two candidates a turn apart are not both inside the range with its margins.

`FloatAngleProofs` proves, for every non-decreasing table whose products fit 16 bits (which the generator asserts), every page,
every set of codes and every number of frames, that the interpolated sine lies between its two entries, that the payload
is a multiple of 8 LSB, and that the float32 sums over such payloads are exact. The invariant is that every reading and every sum
is a multiple of 360 units, the sum bounded; each float32 in that range is a multiple of a step that divides 8 LSB.
`SumsStayClose` is what is left where the jig offset is off that grid: the sum is off by 5 units at most, whole turns apart. Half a step of 8 would
not do: an odd sum is rounded to 2 units first, by one, and from there by half of 8. The invariant (`DriftInv`, `Allowed`) relates what a sum is off by to its remainder by 8: between
multiples of 4 it has not been rounded at all, at 4 by one at most, on the grid by 5, and there no further addition rounds it. The ties go to even, which is why
an odd sum rounded to 2 units is a multiple of 4 and is rounded once more only.

Only model-checked:

* `GradeIsTrue` and `GoodUnitsShip` of `Station`, and `SelfCal`: what their folds and least-squares fits compute is a question about sums over all positions of a turn, and
  the grades compare them with limits on a grid. The induction theorems of the library are of no use to the provers here; the few inductions in the proofs
  (`Least`, `FoldExists`) go by a least counterexample instead, and that was not attempted for sums of products.
* All liveness (`Recovers`, `IntervalServed`, `StreamFlows`, `EveryCommandEnds`): fairness and ENABLED are outside what the prover does.

Some invariants are defined but in no run, because they are shallower than those that are: the `TypeOK` of
each module, `RunBehindGate` and `RunAccounts` of `KerSample`, `LatchTellsTruth` and `FreshPerReply` of `KerLoop`, `FlagsTellAngle` and
`StickyMatchesCounters` of `KerSensor`, `UnlockWindow` of `KerCmd3`. Except for the `TypeOK` of `AngleUnwrap`, `Host` and `Station` they are proved.

## 5. Not modelled

* SSC and GPIO pin handling, RS-485 direction switching, drawing and touch geometry, the I2C button task: pin-level I/O.
* The USB and serial streams: a chunked send with a time-out; the receiver that would have to
  resynchronise is not in the repository. The USB schema is data.
* The cascade of several modules on one bus, and broadcasts by the host: every model here has one module. Collisions need a
  model of the RS-485 line itself.
* Noise and its statistics: sigma of a reading, random stations and parts, the tables of odds the scripts print. The models take
  every combination of a few levels instead of a sample of many.
* Higher harmonics than two (`Station`) or one (`SelfCal`): the fits are linear and uniform positions separate them.
* The physics scripts (magnet, budgets), images, tests and release tooling are not parts of the running system.

`PROJECT.json` gives the state of each component under `components`.

## 6. Plan

Done: the module (`KerPage`, `KerCmd3`, `KerSensor`, `KerLoop`, `KerSample`, `Framing`), the M5 (`M5Control`, `AngleUnwrap`), the
angle between them (`FloatAngle`), the host (`Protocol`, `Host`), the station (`Station`) and its commissioning (`SelfCal`);
proofs for all of them but `SelfCal` and the grades of `Station`.

What could follow:

1. `Cascade`: the BULK request and modules answering in turn, one resetting and coming back late.
