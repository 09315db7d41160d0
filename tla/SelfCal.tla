------------------------------ MODULE SelfCal ------------------------------
(***************************************************************************)
(* The commissioning of the calibration station: the reference chain is   *)
(* calibrated against itself by remounting (encoder/docs/evidence/         *)
(* v3-reference/ref_selfcal.py and v7-throughbore/reclamp_sweep.py; two    *)
(* variants of the reviews are v5-accuracy-review-scripts/                 *)
(* station_selfcal_attacks.py, the old procedure remounted on the other    *)
(* side of the coupling, and v6-verification-scripts/                      *)
(* selfcal_criteria_oc.py, production on a mounting clamped once more).    *)
(*                                                                         *)
(* A turn measures, over one revolution, psi - theta_s.  The constant of   *)
(* that curve tells how the reference and the horn were mounted, and its   *)
(* first harmonic is the sum of four errors: the reference with coupling   *)
(* C1 (it turns with the reference, by gamma), what this clamping of the   *)
(* reference added (likewise), coupling C2 (it stays with the shaft) and   *)
(* the artefact module (it turns with the horn, by delta, and drifts).     *)
(* The fit separates them; two criteria decide whether the station may be  *)
(* used; in production the fitted reference error is subtracted.           *)
(*                                                                         *)
(* Abstractions.  One harmonic, the first: the fit is linear and uniform   *)
(* positions keep the harmonics apart, so the others are copies of it with *)
(* other multiples of the mounting angles.  A harmonic is a phasor         *)
(* <<re, im>> in tenths of an arcsecond.  Mountings are quarter turns, so  *)
(* that turning a phasor is exact, and noise, the scatter of the positions *)
(* and the sub-divisional error, which have no first harmonic, are absent. *)
(***************************************************************************)
EXTENDS Integers, FiniteSetsExt, SequencesExt

CONSTANTS
    Procedures,     \* a subset of {"v5", "v5_stage", "v6", "b_only"}
    AAngles,        \* A_ANGLES: the mountings of the reference, in quarter turns
    BAngles,        \* B_ANGLES: the clockings of the horn
    CheckAngle,     \* CHECK_ANGLE and CHECK_B_ANGLE: of the turn that is not in the fit
    Gamma,          \* the only mounting of the reference in "b_only"
    R, S1,          \* the errors of the reference and of C1
    S2Now,          \* the errors C2 may have after one more fixturing
    M,              \* the error of the artefact
    ClampLevels,    \* how large the error of one clamping may be
    ProdLevel,      \* and that of the last one, where it is worse than the others
    Drifts,         \* drift of the artefact over the whole commissioning, per mille
    ReproMax, CheckMax  \* REPRO_MAX and CHECK_MAX

VARIABLES
    station,    \* the faults of this station; "centred": a thought experiment
    turns,      \* the turns measured so far
    curve       \* what the fit found, and the verdict; Unfitted before

vars == <<station, turns, curve>>

---------------------------------------------------------------------------
(* Phasors.                                                                *)

Plus(a, b) == <<a[1] + b[1], a[2] + b[2]>>
Times(a, b) == <<a[1] * b[1] - a[2] * b[2], a[1] * b[2] + a[2] * b[1]>>
Neg(a) == <<-a[1], -a[2]>>
Minus(a, b) == Plus(a, Neg(b))
Conj(a) == <<a[1], -a[2]>>
Square(a) == a[1] * a[1] + a[2] * a[2]

\* One quarter turn is a factor i.
Unit(k) == CASE k % 4 = 0 -> <<1, 0>>
             [] k % 4 = 1 -> <<0, 1>>
             [] k % 4 = 2 -> <<-1, 0>>
             [] k % 4 = 3 -> <<0, -1>>

\* Integer division to nearest.
Nearest(a, b) == (2 * a + b) \div (2 * b)

---------------------------------------------------------------------------
(* The plan.                                                               *)

Mount(kind, gamma, delta) ==
    [kind |-> kind, gamma |-> gamma, delta |-> delta, c |-> (gamma - delta) % 4]

SetA(angles) == [i \in DOMAIN angles |-> Mount("A", angles[i], 0)]
SetB(angles, gamma) == [i \in DOMAIN angles |-> Mount("B", gamma, angles[i])]

\* The order of the turns.  OneWay6 does not go back.  "v6": set A out, the check, set A back (the last
\* of these mountings stays for production), set B out and back on it.
\* "b_only": the horn alone, the check in the middle.  "v5": check last.
\* "v5_stage": set A out and back, then the check; it stays for production.
OneWay6 ==
    SetA(AAngles) \o <<Mount("check", CheckAngle, 0)>> \o SetB(BAngles, Last(AAngles))

Seq6 ==
    SetA(AAngles) \o <<Mount("check", CheckAngle, 0)>>
        \o SetA(Reverse(AAngles))
        \o SetB(BAngles \o Reverse(BAngles), Head(AAngles))

SeqB ==
    SetB(BAngles, Gamma) \o <<Mount("check", Gamma, CheckAngle)>>
        \o SetB(Reverse(BAngles), Gamma)

Seq5 == SetA(AAngles) \o <<Mount("check", CheckAngle, 0)>>

SeqStage == SetA(AAngles \o Reverse(AAngles)) \o <<Mount("check", CheckAngle, 0)>>

Plan == [p \in Procedures |-> CASE p = "v5" -> Seq5
                                 [] p = "v5_stage" -> SeqStage
                                 [] p = "v6" -> Seq6
                                 [] p = "b_only" -> SeqB]

CheckTurn(p) == CHOOSE i \in DOMAIN Plan[p] : Plan[p][i].kind = "check"
FitTurns(p) == DOMAIN Plan[p] \ {CheckTurn(p)}
LastOf(p, turnsOfP) == CHOOSE i \in turnsOfP : \A j \in turnsOfP : j <= i

\* The last clamping of the reference, in the fit but for "v5_stage": modules
\* are calibrated on it.
Production(p) ==
    LET clampings == {i \in FitTurns(p) : Plan[p][i].kind = "A"}
    IN  IF p = "v5_stage" THEN CheckTurn(p)
        ELSE IF clampings = {} THEN 1 ELSE LastOf(p, clampings)

---------------------------------------------------------------------------
(* Measuring.                                                              *)

Mounting == Plan[station.procedure][Len(turns) + 1]

\* clamp(): each clamping of the reference adds an error of its own.  It is
\* clamped again at every mounting of set A and of its check, and once before
\* the first turn of "b_only".
Clamped ==
    \/ turns = <<>>
    \/ Mounting.kind # "B" /\ station.procedure # "b_only"

Level == IF Len(turns) + 1 = Production(station.procedure)
         THEN station.prod ELSE station.level

Clamp == IF Clamped THEN {<<Level, 0>>, <<-Level, 0>>} ELSE {Last(turns).clamp}

\* s2_now(): clocking the horn perturbs C2; set A leaves it alone.
Fixturing ==
    IF station.procedure = "b_only" \/ Mounting.kind = "B"
    THEN S2Now ELSE {station.s2}

\* Half the time at which turn i is measured: one after the other, or, for
\* comparison, with both sets about the same mean time.
MeanTime(p, B) == LET on == {i \in DOMAIN Plan[p] : (Plan[p][i].kind = "B") = B}
                  IN  (2 * SumSet(on)) \div Cardinality(on)
InTurn(p, i) == 2 * (i - 1)
EqualMeans(p, i) ==
    InTurn(p, i) - (IF Plan[p][i].kind = "B" THEN MeanTime(p, TRUE) - MeanTime(p, FALSE)
                    ELSE 0)

\* The artefact's error at turn i.
Drifted(p, i) ==
    LET time == IF station.centred THEN EqualMeans(p, i) ELSE InTurn(p, i)
    IN  [k \in 1..2 |->
            M[k] + Nearest((M[k] \div 10) * station.drift * time, 200 * (Len(Plan[p]) - 1))]

\* Remounted between coupling and stage, C1 turns with the encoder; remounted
\* between encoder and coupling, it stays with the shaft.
StageSide(m, clamp) == Times(Plus(Plus(R, S1), clamp), Unit(m.gamma))
EncoderSide(m, clamp) == Plus(Times(Plus(R, clamp), Unit(m.gamma)), S1)

\* turn(): what one revolution measures of a module with the error "mod".
Measured(m, clamp, s2, mod) ==
    LET chain == IF station.procedure = "v5" THEN EncoderSide(m, clamp)
                 ELSE StageSide(m, clamp)
    IN  Minus(Minus(chain, s2), Times(mod, Unit(m.delta)))

Turn ==
    /\ Len(turns) < Len(Plan[station.procedure])
    /\ \E clamp \in Clamp, s2 \in Fixturing :
          turns' = Append(turns,
              [clamp |-> clamp,
               d |-> Measured(Mounting, clamp, s2,
                              Drifted(station.procedure, Len(turns) + 1))])
    /\ UNCHANGED <<station, curve>>

---------------------------------------------------------------------------
(* Fitting.                                                                *)

NeverS2(p) == FALSE
WithS2(p) == p = "v6"

\* How far the reference was turned since the first mounting, from the
\* constants of the first pass.  The horn moves in set B: there it is the
\* constant of the last mounting of set A that tells.
Ghat(p, i) ==
    IF ~ WithS2(p) THEN 0
    ELSE IF Plan[p][i].kind = "B"
    THEN Plan[p][Production(p)].c - Plan[p][1].c
    ELSE Plan[p][i].c - Plan[p][1].c

\* One row of the design matrix: R' goes with psi, M with theta_s, S2 with
\* psi - ghat.
RefAndModule(m) == <<Unit(m.gamma), Neg(Unit(m.delta))>>
Row(p, i) ==
    RefAndModule(Plan[p][i])
        \o (IF WithS2(p) THEN <<Neg(Unit(Plan[p][i].gamma - Ghat(p, i)))>> ELSE <<>>)

Design == [p \in Procedures |-> <<>> \o [i \in DOMAIN Plan[p] |-> Row(p, i)]]

Det(m) ==
    IF Len(m) = 2
    THEN Minus(Times(m[1][1], m[2][2]), Times(m[1][2], m[2][1]))
    ELSE LET Minor(i, j) == Minus(Times(m[2][i], m[3][j]),
                                  Times(m[2][j], m[3][i]))
         IN  Plus(Minus(Times(m[1][1], Minor(2, 3)), Times(m[1][2], Minor(1, 3))),
                  Times(m[1][3], Minor(1, 2)))

\* The inner product of a column of the design matrix with another vector.
Dot(p, j, ys) ==
    FoldFunctionOnSet(Plus, <<0, 0>>,
                      [i \in FitTurns(p) |-> Times(Conj(Design[p][i][j]), ys[i])],
                      FitTurns(p))

Normal == [p \in Procedures |->
    LET cols == DOMAIN Design[p][1]
    IN  <<>> \o [j \in cols |-> <<>> \o
            [k \in cols |-> Dot(p, j, [i \in FitTurns(p) |-> Design[p][i][k]])]]]

\* Cramer's rule, to nearest.
Solution(m, rhs) ==
    LET Replaced(k) == <<>> \o [j \in DOMAIN m |-> [m[j] EXCEPT ![k] = rhs[j]]]
        Quotient(n, det) == <<Nearest(n[1], det), Nearest(n[2], det)>>
    IN  <<>> \o [k \in DOMAIN m |-> Quotient(Det(Replaced(k)), Det(m)[1])]

\* fit(): least squares, by the normal equations.
LeastSquares(p) ==
    Solution(Normal[p],
             <<>> \o [j \in 1 .. Len(Normal[p]) |->
                         Dot(p, j, [i \in FitTurns(p) |-> turns[i].d])])

\* residual(): what the fitted curves leave of a turn.
Residual(p, i, coef) ==
    FoldLeft(Minus, turns[i].d,
             [k \in DOMAIN coef |-> Times(Design[p][i][k], coef[k])])

\* The two criteria: rms over the fitted turns of the three lowest amplitudes
\* of the residual, and the largest amplitude on the check turn.
ReproOk(p, coef) ==
    MapThenSumSet(LAMBDA i : Square(Residual(p, i, coef)), FitTurns(p))
        <= 3 * Cardinality(FitTurns(p)) * ReproMax * ReproMax

CheckOk(p, coef) == Square(Residual(p, CheckTurn(p), coef)) <= CheckMax * CheckMax

\* Production runs on the mounting of the last turn, of the last fitted one in
\* "v5", with a fresh unit in C2: the error of theta_true at its horn.
ProductionTurn(p) == IF p = "v5" THEN LastOf(p, FitTurns(p)) ELSE Len(Plan[p])

ProductionError(p, coef, clamp, s2) ==
    LET m == Plan[p][ProductionTurn(p)]
        psi == Measured(m, clamp, s2, <<0, 0>>)
    IN  Plus(Minus(psi, Times(coef[1], Unit(m.gamma))),
             IF WithS2(p) THEN Times(coef[3], Unit(m.gamma - Ghat(p, ProductionTurn(p))))
             ELSE <<0, 0>>)

\* The review of the old procedure looks at the shaft: its C2 adds nothing.
Fresh(p) == IF p = "v5_stage" THEN {<<0, 0>>} ELSE S2Now

\* What folding the residual of the production mounting back into the curve
\* leaves of an error.
Folded(p, coef, err) == Minus(err, Residual(p, CheckTurn(p), coef))

Errors(p, coef, clamps) ==
    {ProductionError(p, coef, clamp, s2) : clamp \in clamps, s2 \in Fresh(p)}

Unfitted == [passed |-> FALSE, errors |-> {}, reclamped |-> {}, folded |-> {}]

\* Both criteria, and the errors of production on the mounting it was left
\* with, on the same clamped once more, and with the residual folded back.
Judged(p, coef, kept) ==
    [passed |-> ReproOk(p, coef) /\ CheckOk(p, coef),
     errors |-> {Square(e) : e \in kept},
     reclamped |-> IF p # "v6" THEN {}
                   ELSE {Square(e) : e \in Errors(p, coef, {<<station.level, 0>>,
                                                            <<-station.level, 0>>})},
     folded |-> IF p # "v5_stage" THEN {}
                ELSE {Square(Folded(p, coef, e)) : e \in kept}]

Fit ==
    /\ Len(turns) = Len(Plan[station.procedure])
    /\ curve = Unfitted
    /\ LET p == station.procedure
       IN  \E coef \in {LeastSquares(p)} :
              curve' = Judged(p, coef, Errors(p, coef, {turns[ProductionTurn(p)].clamp}))
    /\ UNCHANGED <<station, turns>>

---------------------------------------------------------------------------

Init ==
    /\ station \in [procedure : Procedures, level : ClampLevels,
                    prod : ClampLevels \cup {ProdLevel}, drift : Drifts, s2 : S2Now,
                    centred : BOOLEAN]
    /\ station.prod \in {station.level, ProdLevel}
    /\ station.centred => station.procedure = "v6" /\ station.prod = station.level
    /\ turns = <<>>
    /\ curve = Unfitted

Next == Turn \/ Fit

Spec == Init /\ [][Next]_vars

---------------------------------------------------------------------------
(* Properties.                                                             *)

\* The station of a run whose curve is known.
Done == curve # Unfitted

\* The procedures the two criteria are meant for.
Present == station.procedure \in {"v6", "b_only"}

\* Clampings that repeat to 3 arcsec, an artefact that drifts by one per cent.
\* With the reference clamped once, how well clampings repeat does not matter.
Repeats == station.level <= 30 /\ station.prod <= 30
GoodStation == (Repeats \/ station.procedure = "b_only") /\ station.drift <= 10

\* Whatever the clampings and the drift of the artefact, and whichever of S2Now
\* C2 has after its fixturing: a station that met both criteria reads the horn
\* to 15 arcsec or better.
\* (protocol-spec.md:1256 "over all fault levels, no station that passed both
\* had a theta_true error ... above ~15 arcsec in the harmonics that can enter
\* a module")
PassingIsTrue ==
    curve.passed /\ Present => \A e \in curve.errors : e <= 150 * 150

\* A good station is never refused, and is then better than 9.7 arcsec -- one
\* whose reference was clamped once and badly included --, 10.7 if the
\* reference was clamped once more before production.
\* (trial, selfcal_criteria_oc.py:91)
GoodStationPasses ==
    Done /\ GoodStation /\ Present
        => /\ curve.passed
           /\ \A e \in curve.errors : e <= 97 * 97
           /\ \A e \in curve.reclamped : e <= 107 * 107

\* Running out and back takes a linear drift of the artefact out of each set:
\* only what lies between the sets gets into the curve.  Were they measured
\* about the same time, any drift would be harmless, and it is where there is
\* set A alone.  Folding the residual of the production mounting back into the
\* curve takes the error of that clamping out, whatever it is, but brings back
\* a drift of ten per cent, which the curve itself is free of.
\* (protocol-spec.md:1199, selfcal_drift_mechanism.py:4, trial of
\* station_selfcal_attacks.py)
OutAndBackCancels ==
    LET Within(errors, bound) == \A e \in errors : e <= bound * bound
    IN  Done =>
          /\ station.centred /\ station.level <= 30 => Within(curve.errors, 97)
          /\ station.procedure = "v5_stage" /\ Repeats => Within(curve.errors, 60)
          /\ station.drift = 0 => Within(curve.folded, 71)
          /\ station.drift = 100 => \A e \in curve.folded : e >= 960 * 960

\* The old procedure leaves C1's error in the reference curve and sees nothing
\* of it: with a steady artefact it passes its own criteria, and reads the horn
\* wrong by most of C1.  Remounted at the stage side it would pass rightly.
\* (protocol-spec.md:1230)
OldProcedureIsBlind ==
    Done /\ GoodStation /\ station.drift = 0 =>
      /\ station.procedure = "v5"
           => curve.passed /\ \A e \in curve.errors : e >= 250 * 250
      /\ station.procedure = "v5_stage"
           => curve.passed /\ \A e \in curve.errors : e <= 60 * 60

=============================================================================
