------------------------------ MODULE Station ------------------------------
(***************************************************************************)
(* The calibration station of tools/kercal: station.py drives one encoder  *)
(* unit over its circle, fits a page, commits it, validates the unit with  *)
(* the page in it, grades it and writes the record.  The arithmetic is     *)
(* that of docs/evidence/v3-reference/station_fit.py, which fit.py loads,  *)
(* on integers: an angle is a number of millidegrees, so the limits are    *)
(* those of the source.  The units are those of the evidence scripts that  *)
(* attack the procedure: station_sim.py (an error curve over the true      *)
(* angle, a mounting offset, a hysteresis loop), gate_attack_v6.py (errors *)
(* the page cannot hold, loops of another shape, correlated noise),        *)
(* station_gate_ref_error.py (a reference chain with an error of its own)  *)
(* and station_dynamics.py (a stage that gives way after it was read).     *)
(* The averages of GET_SAMPLE are exact but for the noise of the unit.     *)
(***************************************************************************)
EXTENDS Integers, Sequences, FiniteSetsExt, SequencesExt

CONSTANTS N_FIT, N_VAL, N_REPEAT,  \* positions of a pass; repeats of step 2
          PAGES,                   \* the curves among which the fit looks
          Identity,                \* the page of a unit that has none
          UNITS,                   \* units as they come to the station
          Runs                     \* bound: runs that are started

FULL == 360000
Angle == 0 .. FULL - 1
CW == 1
CCW == -1

\* Limits of section 7.2, in millidegrees.
R_MAX == 20
R_MAX_B == 50
GUARD == 95         \* per cent of a limit that the measured statistic may reach
HYST_MAX == 100
H2_MAX == 200
AMP_MAX == 5625     \* what the int16 field of a page holds

HARMONICS == 1 .. 2           \* fitted; a unit may have the third as well

ASSUME StationAssumption ==
  /\ {N_FIT, N_VAL, N_REPEAT} \subseteq Nat \ {0, 1} /\ Runs \in Nat
  /\ Identity \in PAGES
  /\ \A page \in PAGES : \A k \in HARMONICS :
       page.amp[k] \in Nat /\ page.phase[k] \in Angle

VARIABLES
  unit, slip,      \* the unit in the fixture, and how far it has slipped in it
  page,            \* the page in its USERROW, in force
  phase,           \* "idle", "noise", "fit", "commit", "val", "csv" or "json"
  direction, done, \* the pass: its direction and the positions measured
  repeats,         \* step 2: theta_true - theta_s
  measurements,    \* StationRun.measurements
  csv, json,       \* the files of the record: rows, and at most one report
  runs             \* the runs started

station_vars == <<unit, slip, page, phase, direction, done, repeats, measurements, csv, json, runs>>

-----------------------------------------------------------------------------
(* The circle.                                                             *)

wrap(x, turn) == ((x + turn \div 2) % turn) - turn \div 2

Total(f) == FoldSeq(LAMBDA x, sum : x + sum, 0, f)
Mean(f) == Total(f) \div Len(f)
Mapped(f, Op(_)) == [i \in DOMAIN f |-> Op(f[i])]
Largest(f) == CHOOSE x \in Range(f) : \A y \in Range(f) : y <= x
Smallest(f) == CHOOSE x \in Range(f) : \A y \in Range(f) : x <= y

\* Exact for values that lie within half a turn, as those of a unit do.
circular_mean(d, turn) ==
  LET first == d[1]
  IN  (first + Mean(Mapped(d, LAMBDA x : wrap(x - first, turn)))) % turn

Centred(d, turn) ==
  LET mean == circular_mean(d, turn)
  IN  Mapped(d, LAMBDA x : wrap(x - mean, turn))

\* Half the peak to peak, doubled.
peak_to_peak(err, turn) ==
  LET e == Centred(err, turn) IN Largest(e) - Smallest(e)

\* A sine of amplitude 10000, from its values at whole degrees.
Sine ==
  LET Arc(x) == (40000 * x * (180 - x)) \div (40500 - x * (180 - x))
  IN  [x \in 0 .. 359 |-> IF x <= 180 THEN Arc(x) ELSE -Arc(x - 180)]

Wave(x) ==
  LET whole == (x % FULL) \div 1000
      low == Sine[whole]
  IN  low + ((Sine[(whole + 1) % 360] - low) * (x % 1000)) \div 1000

Harmonic(curve, k, x) == (curve.amp[k] * Wave(k * x + curve.phase[k])) \div 10000

-----------------------------------------------------------------------------
(* The unit on the stage.                                                  *)

ErrorAt(u, t) ==
  Total([k \in 1 .. Len(u.amp) |-> Harmonic(u, k, t)])

\* Half the difference of the two directions, 30 % more or less over the turn
\* and "twist" tenths more or less over half a turn.
Loop(u, t) ==
  u.hyst + (u.hyst * (3 * Wave(t + u.loop) + u.twist * Wave(2 * t + u.loop))) \div 100000

\* What SAMPLE_START does not average away: noise that keeps its sign for as
\* many positions as it is correlated.
Noise(u, count) == ((count \div u.run) % 2) * u.noise

\* theta_s at the true angle t.
SensorAt(u, t, way, count) ==
  (t + u.offset + slip + ErrorAt(u, t) + way * Loop(u, t) + Noise(u, count)) % FULL

Correction(p, s) == Total([k \in HARMONICS |-> Harmonic(p, k, s)])

\* The output of a module with page p in it.
OutputAt(p, s) == (s + Correction(p, s)) % FULL

\* move_to and read: the reference tells where the stage came to rest, and
\* that differs from one direction of approach to the other.
Landing(position, way) == position + (IF way = CCW THEN unit.landing ELSE 0)

\* How far the shaft gives way between the last poll of the reference and the
\* end of SAMPLE_START, at every other position: it was approached against the
\* load, or the driver lowered its current.
Creep(way, count) == IF way = CCW /\ count % 2 = 1 THEN unit.creep ELSE 0

\* theta_true at the angle t: the error of the reference chain is the same in
\* every pass.
Believed(t) == t + Harmonic(unit.ref, 1, t) + Harmonic(unit.ref, 2, t)

\* Units: one that is measured perfectly; one with an error above the fitted
\* harmonics, aimed at a limit; and the same unit behind an imperfect reference.
Part(amp, ph, off, hyst) ==
  [amp |-> Append(amp, 0), phase |-> Append(ph, 0), offset |-> off,
   hyst |-> hyst, loop |-> 90000, twist |-> 0, noise |-> 0, run |-> 1,
   ref |-> Identity, landing |-> 0, creep |-> 0, shift |-> 0]

Attack(part, target, run) ==
  [part EXCEPT !.amp = [@ EXCEPT ![Len(@)] = target], !.twist = 3, !.run = run]

Behind(part, amp, ph) == [part EXCEPT !.ref = [amp |-> amp, phase |-> ph]]
-----------------------------------------------------------------------------
(* Steps 2 to 9 on the measurements of a run.                              *)

fit_pos == [i \in 1 .. N_FIT |-> (i - 1) * (FULL \div N_FIT)]
val_pos == [i \in 1 .. N_VAL |-> (2 * i - 1) * (FULL \div (2 * N_VAL))]

\* The values of a function of numbers, in the order of its arguments.
InOrder(f) ==
  FoldLeft(LAMBDA s, i : IF i \in DOMAIN f THEN Append(s, f[i]) ELSE s,
           <<>>, [i \in 1 .. Max(DOMAIN f) |-> i])

\* The measurements the fit is made of, and those of one direction.
fit_rows(m) == InOrder(RestrictValues(m, LAMBDA x : x.phase = "fit"))
_sel(m, ph, way) == InOrder(RestrictValues(m, LAMBDA x : x.phase = ph /\ x.direction = way))

\* Step 2: sigma_mean is above R_MAX / 6.
TooNoisy(values) ==
  LET n == Len(values)
      x == Centred(values, FULL)
      squares == Total(Mapped(x, LAMBDA e : e * e))
  IN  36 * (n * squares - Total(x) * Total(x)) > n * (n - 1) * R_MAX * R_MAX

\* What a page leaves of the differences y at the sensor angles of the data.
Residual(p, y, data) == [i \in DOMAIN y |-> y[i] - Correction(p, data[i].theta_s)]
Spread(r, a0) == Total(Mapped(r, LAMBDA e : (e - a0) * (e - a0)))

\* The third revision of the procedure: no constant, the mounting offset is
\* left in.  (In tenths of a degree: TLC's integers have 32 bits.)
fit_v3(data) ==
  LET y == Mapped(data, LAMBDA x : wrap(x.theta_true - x.theta_s, FULL))
      misfit == [p \in PAGES |-> Spread(Mapped(Residual(p, y, data), LAMBDA e : e \div 100), 0)]
  IN  CHOOSE p \in PAGES : \A q \in PAGES : misfit[p] <= misfit[q]

\* Steps 4 and 5: least squares, a constant included and then discarded.
fit(data) ==
  LET y == Centred(Mapped(data, LAMBDA x : x.theta_true - x.theta_s), FULL)
      misfit == [p \in PAGES |-> LET r == Residual(p, y, data) IN Spread(r, Mean(r))]
  IN  CHOOSE p \in PAGES : \A q \in PAGES : misfit[p] <= misfit[q]

\* Of a run: the pooled samples of both directions.
run_fit(m) == fit(fit_rows(m))

\* Step 6: None where an amplitude does not fit its field; the rounding to
\* the units of the page is below a millidegree.
to_cal(p) == {q \in {p} : \A k \in HARMONICS : q.amp[k] <= AMP_MAX}

run_page(m) == to_cal(run_fit(m))

\* Step 9.
centring(p) == p.amp[2] <= H2_MAX
run_centring(m) == centring(run_fit(m))

\* Steps 7 and 8.  hysteresis is doubled, statistic is quadrupled.
Graded(t, out_cw, out_ccw) ==
  LET e_cw == [i \in DOMAIN t |-> wrap(t[i] - out_cw[i], FULL)]
      e_ccw == [i \in DOMAIN t |-> wrap(t[i] - out_ccw[i], FULL)]
      apart == [i \in DOMAIN t |-> wrap(e_cw[i] - e_ccw[i], FULL)]
      hyst == Largest(Mapped(apart, LAMBDA x : IF x < 0 THEN -x ELSE x))
      stat == peak_to_peak([i \in DOMAIN t |-> 2 * e_ccw[i] + apart[i]], 2 * FULL)
  IN  [grade |-> IF hyst > 2 * HYST_MAX THEN "rework-hysteresis"
                 ELSE IF 100 * stat <= 4 * GUARD * R_MAX THEN "A"
                 ELSE IF 100 * stat <= 4 * GUARD * R_MAX_B THEN "B"
                 ELSE "rework",
       statistic |-> stat, hysteresis |-> hyst]

\* The two directions are paired by position; theta_true is the clockwise one.
grade(m) ==
  LET Sorted(way) == SortSeq(_sel(m, "val", way),
                             LAMBDA x, y : x.position < y.position)
      cw == Sorted(CW)
      Out(x) == x.theta_out
  IN  Graded(Mapped(cw, LAMBDA x : x.theta_true), Mapped(cw, Out), Mapped(Sorted(CCW), Out))

report(m) ==
  LET g == grade(m)
      ok == run_centring(m)
  IN  [verdict |-> g, centring_ok |-> ok, ships |-> g.grade \in {"A", "B"} /\ ok]

\* The CSV: one row per measurement, a column per field.
to_csv(m) ==
  Mapped(m, LAMBDA x : <<x.position, x.direction, x.phase, x.theta_true, x.theta_s, x.theta_out>>)

\* The last two columns in the other order.
from_csv_swapped(rows) ==
  Mapped(rows, LAMBDA r : [position |-> r[1], direction |-> r[2], phase |-> r[3],
                           theta_true |-> r[4], theta_s |-> r[6], theta_out |-> r[5]])

from_csv(rows) ==
  Mapped(rows, LAMBDA r : [position |-> r[1], direction |-> r[2], phase |-> r[3],
                           theta_true |-> r[4], theta_s |-> r[5], theta_out |-> r[6]])

\* kercal fit: page and report of a recorded run, without the hardware.
cmd_fit(rows) == [page |-> run_page(from_csv(rows)), report |-> report(from_csv(rows))]
-----------------------------------------------------------------------------
StationInit ==
  /\ unit \in UNITS /\ slip = 0
  /\ page = Identity
  /\ phase = "idle" /\ direction = CW /\ done = 0
  /\ repeats = <<>> /\ measurements = <<>>
  /\ csv = <<>> /\ json = {}
  /\ runs = 0

\* run_calibration up to step 2: the configuration lock has passed.
Start ==
  /\ phase = "idle" /\ runs < Runs
  /\ phase' = "noise" /\ runs' = runs + 1
  /\ direction' = CW /\ done' = 0 /\ repeats' = <<>> /\ measurements' = <<>>
  /\ UNCHANGED <<unit, slip, page, csv, json>>

\* Any step raises and the run is given up, or the tool is killed: the stage
\* does not settle, the link fails, the lock did not pass, a sample was
\* aborted, saturated or short.  What is in the unit and on disk stays.
Dropped ==
  /\ phase' = "idle" /\ direction' = CW /\ done' = 0
  /\ repeats' = <<>> /\ measurements' = <<>>
  /\ UNCHANGED <<unit, slip, csv, json, runs>>

Abandon == phase # "idle" /\ Dropped /\ UNCHANGED page

\* What module.sample yields at a position that is approached one way.
Sampled(position, way) ==
  LET at == Landing(position, way)
      theta_s == SensorAt(unit, at + Creep(way, done), way, done)
  IN  [position |-> position, theta_true |-> Believed(at), theta_s |-> theta_s,
       theta_out |-> OutputAt(page, theta_s)]

\* Step 2, always clockwise: one repeat, and behind the last one the gate.
Repeat ==
  LET m == Sampled(fit_pos[1], CW)
      values == Append(repeats, m.theta_true - m.theta_s)
  IN
  /\ phase = "noise"
  /\ IF Len(values) < N_REPEAT
       THEN /\ repeats' = values /\ done' = done + 1
            /\ UNCHANGED <<unit, slip, page, phase, direction, measurements, csv, json, runs>>
       ELSE IF TooNoisy(values)
       THEN Dropped /\ UNCHANGED page
       ELSE /\ phase' = "fit" /\ done' = 0 /\ repeats' = values
            /\ UNCHANGED <<unit, slip, page, direction, measurements, csv, json, runs>>

\* The counter-clockwise pass goes down the positions.
Ordered(positions) == IF direction = CW THEN positions ELSE Reverse(positions)

\* One position of a fit or a validation pass; behind the last one the other
\* direction, behind that the next phase.
Measure(ph, positions, next) ==
  LET m == Sampled(Ordered(positions)[done + 1], direction)
      row == [position |-> m.position, direction |-> direction, phase |-> ph,
              theta_true |-> m.theta_true, theta_s |-> m.theta_s,
              theta_out |-> m.theta_out]
  IN
  /\ phase = ph
  /\ measurements' = Append(measurements, row)
  /\ IF done + 1 < Len(positions)
       THEN done' = done + 1 /\ UNCHANGED <<phase, direction>>
       ELSE /\ done' = 0
            /\ direction' = IF direction = CW THEN CCW ELSE CW
            /\ phase' = IF direction = CW THEN phase ELSE next
  /\ UNCHANGED <<unit, slip, page, repeats, csv, json, runs>>

MeasureFit == Measure("fit", fit_pos, "commit")
MeasureVal == Measure("val", val_pos, "csv")

\* Step 6: write_page returned a matching read-back.
Commit ==
  /\ phase = "commit" /\ page' \in run_page(measurements)
  /\ phase' = "val" /\ done' = 0
  /\ UNCHANGED <<unit, slip, direction, repeats, measurements, csv, json, runs>>

\* The page does not fit its fields, or write_page raises or reads back
\* something else: the USERROW holds the old page, the new one or none.
CommitFails ==
  /\ phase = "commit" /\ Dropped
  /\ page' \in LET cal == run_page(measurements)
               IN  IF cal = {} THEN {page} ELSE cal \cup {page, Identity}

\* write_records of the run that was returned, one file after the other.
WriteCsv ==
  /\ phase = "csv" /\ phase' = "json"
  /\ csv' = to_csv(measurements)
  /\ UNCHANGED <<unit, slip, page, direction, done, repeats, measurements, json, runs>>

WriteJson ==
  /\ phase = "json" /\ phase' = "idle"
  /\ json' = {report(measurements)}
  /\ repeats' = <<>> /\ measurements' = <<>>
  /\ UNCHANGED <<unit, slip, page, direction, done, csv, runs>>

\* The housing shifts in its fixture between two passes.
Slip ==
  /\ phase \in {"fit", "commit", "val"} /\ done = 0
  /\ slip = 0 /\ slip' = unit.shift /\ unit.shift # 0
  /\ UNCHANGED <<unit, page, phase, direction, done, repeats, measurements, csv, json, runs>>

\* Between runs the unit is taken apart and seated again: another curve, and
\* the page of the last run still in it.
Reseat ==
  /\ phase = "idle" /\ runs < Runs
  /\ unit' \in UNITS /\ slip' = 0
  /\ UNCHANGED <<page, phase, direction, done, repeats, measurements, csv, json, runs>>

StationNext ==
  \/ Start \/ Abandon \/ Repeat \/ MeasureFit \/ MeasureVal
  \/ Commit \/ CommitFails \/ WriteCsv \/ WriteJson
  \/ Slip \/ Reseat

StationSpec == StationInit /\ [][StationNext]_station_vars

-----------------------------------------------------------------------------
(* What the grade is held against.                                         *)

Measurement ==
  [position : Angle, direction : {CW, CCW}, phase : {"fit", "val"},
   theta_true : Int, theta_s : Angle, theta_out : Angle]

StationTypeOK ==
  /\ unit \in UNITS /\ slip \in {0, unit.shift}
  /\ page \in PAGES
  /\ phase \in {"idle", "noise", "fit", "commit", "val", "csv", "json"}
  /\ direction \in {CW, CCW} /\ done \in 0 .. N_FIT + N_VAL + N_REPEAT
  /\ Len(repeats) <= N_REPEAT /\ Len(measurements) <= 2 * (N_FIT + N_VAL)
  /\ Range(measurements) \subseteq Measurement
  /\ runs \in 0 .. Runs

\* The error of the unit's output at true angle t, without noise, seam and
\* mounting offset.
OutputError(u, p, t, way) ==
  wrap(OutputAt(p, (t + u.offset + ErrorAt(u, t) + way * Loop(u, t)) % FULL) - t - u.offset, FULL)

\* Every angle the checks look at: the positions of both kinds and those
\* half-way between them.
Circle == {i * (FULL \div (2 * (N_FIT + N_VAL))) : i \in 0 .. 2 * (N_FIT + N_VAL) - 1}

TrueErrors(u, p) ==
  LET err == [t \in Circle |-> <<OutputError(u, p, t, CW), OutputError(u, p, t, CCW)>>]
      mean == [t \in Circle |-> err[t][1] + err[t][2]]
      apart == [t \in Circle |-> IF err[t][1] < err[t][2] THEN err[t][2] - err[t][1]
                                 ELSE err[t][1] - err[t][2]]
  IN  [statistic |-> Largest(mean) - Smallest(mean), hysteresis |-> Largest(apart)]

\* What the same unit would be at a perfect station, which mounts it without an
\* offset and knows the true angles: the page it would get, and its errors.
IdealPage(u) ==
  LET Sample(way) ==
        Mapped(fit_pos, LAMBDA t :
          [theta_true |-> t,
           theta_s |-> (t + ErrorAt(u, t) + way * Loop(u, t)) % FULL])
  IN  fit(Sample(CW) \o Sample(CCW))

Ideal == [u \in UNITS |-> LET p == IdealPage(u)
                          IN [page |-> p, errors |-> TrueErrors([u EXCEPT !.offset = 0], p)]]

\* A unit that a perfect station would surely accept, even with the hysteresis
\* that a slipping housing and the landing of the stage add to its own.
SurelyGood(u) ==
  /\ to_cal(Ideal[u].page) # {} /\ centring(Ideal[u].page)
  /\ Ideal[u].errors.statistic <= 3 * R_MAX
  /\ Ideal[u].errors.hysteresis + u.landing + u.shift + u.creep <= 2 * HYST_MAX

\* 7.2, operating characteristic: measured over the whole circle and against
\* the page that is in the unit, no unit above a limit is graded inside it and
\* none well below it is graded outside it, but for the error of the reference
\* chain, which fit and validation share -- whatever page an earlier run
\* left, however the housing slipped between two passes, across the seam, with
\* the directions measured in opposite orders, and with correlated noise.  A
\* stage that gives way after the reference was polled is an error like any
\* other; the noise check, always clockwise, does not see it.
\* (station_fit.grade, StationRun.grade, _measure)
GradeIsTrue ==
  phase = "json" =>
    LET g == grade(measurements)
        true == TrueErrors(unit, page)
        reference == 4 * (unit.ref.amp[1] + unit.ref.amp[2]) + 4 * unit.creep
    IN  /\ g.grade = "A" => true.statistic <= 4 * R_MAX + reference
        /\ g.grade \in {"A", "B"} => true.statistic <= 4 * R_MAX_B + reference
        /\ g.grade \in {"A", "B"} =>
             true.hysteresis <= 2 * HYST_MAX + unit.landing + unit.shift + unit.creep
        /\ true.statistic + reference <= 3 * R_MAX => g.grade \in {"A", "rework-hysteresis"}

\* 7.2, steps 4 and 5: a unit that a perfect station would surely accept ships
\* after one run at this one, whatever its mounting offset, the error of the
\* reference and the page that was in it before.  (fit, run_calibration)
GoodUnitsShip == phase = "json" /\ SurelyGood(unit) => report(measurements).ships

\* 9.7: the record tells which page is in the unit and why it ships: cmd_fit
\* draws from the CSV the page that is in the unit when the report is written,
\* and the report itself.  (run_calibration, write_records, cmd_fit)
RecordTellsUnit ==
  [][json' # json =>
       /\ cmd_fit(csv).page = {page}
       /\ json' = {cmd_fit(csv).report}]_station_vars
=============================================================================
