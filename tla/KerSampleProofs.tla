-------------------------- MODULE KerSampleProofs --------------------------
(***************************************************************************)
(* Theorems about KerSample for every set of exponents, every circle of    *)
(* codes and angles, every correction, and an arm that stays within half a *)
(* turn: the sums of a run are the true ones, and a record the host takes  *)
(* for a result is of one whole run.  Then the twelve words in which a     *)
(* record travels (Protocol), and what the station writes down of its runs *)
(* of sampling (Station).                                                  *)
(***************************************************************************)
EXTENDS KerSample, Protocol, Station, TLAPS

----------------------------------------------------------------------------
(* Wrapped differences                                                     *)

\* The code is the position, less whole turns.
LEMMA WholeTurns ==
  ASSUME NEW m \in Nat \ {0}, NEW x \in Int
  PROVE  /\ x % m \in 0 .. m - 1
         /\ \E k \in Int : x = m * k + (x % m)
<1>1. x = m * (x \div m) + (x % m) /\ x \div m \in Int /\ x % m \in 0 .. m - 1
  OBVIOUS
<1> QED BY <1>1

LEMMA Distributes ==
  ASSUME NEW m \in Int, NEW a \in Int, NEW b \in Int, NEW c \in Int
  PROVE  m * (a - b + c) = m * a - m * b + m * c
<1>1. m * (a - b + c) = m * (a - b) + m * c
  OBVIOUS
<1>2. m * (a - b) = m * a - m * b
  OBVIOUS
<1>3. m * a \in Int /\ m * b \in Int /\ m * c \in Int
  OBVIOUS
<1> QED BY <1>1, <1>2, <1>3

LEMMA NoWholeTurn ==
  ASSUME NEW m \in Nat \ {0}, NEW k \in Int, m * k < m, -m < m * k
  PROVE  k = 0
<1>1. CASE k >= 1
  <2>1. m * k = m + m * (k - 1) /\ m * (k - 1) \in Nat
    BY <1>1
  <2> QED BY <2>1
<1>2. CASE k <= -1
  <2>1. m * k = -m - m * (-k - 1) /\ m * (-k - 1) \in Nat
    BY <1>2
  <2> QED BY <2>1
<1> QED BY <1>1, <1>2

\* Two numbers below m that differ by whole turns are the same.
LEMMA OneRemainder ==
  ASSUME NEW m \in Nat \ {0}, NEW k \in Int,
         NEW r \in 0 .. m - 1, NEW s \in 0 .. m - 1, r = s + m * k
  PROVE  r = s
<1>1. m * k \in Int /\ m * k = r - s
  OBVIOUS
<1>2. k = 0
  BY <1>1, NoWholeTurn
<1> QED BY <1>2

\* Within half a turn the wrapped difference of two codes is the true one.
LEMMA WrapExact ==
  ASSUME NEW m \in Nat \ {0}, NEW x \in Int, NEW y \in Int,
         x - y < Half(m), y - x < Half(m)
  PROVE  Wrap((x % m) - (y % m), m) = x - y
<1> DEFINE d == (x % m) - (y % m)
<1>1. Half(m) \in Nat /\ 2 * Half(m) <= m
  BY DEF Half
<1>2. PICK i \in Int : x = m * i + (x % m)
  BY WholeTurns
<1>3. PICK j \in Int : y = m * j + (y % m)
  BY WholeTurns
<1>4. x % m \in Int /\ y % m \in Int /\ d \in Int
  BY WholeTurns
<1>5. d % m \in 0 .. m - 1 /\ \E k \in Int : d = m * k + (d % m)
  BY <1>4, WholeTurns
<1>6. PICK k \in Int : d = m * k + (d % m)
  BY <1>5
<1>7. x - y = m * (i - j + k) + (d % m)
  <2>1. ASSUME NEW rx \in Int, NEW ry \in Int, NEW rd \in Int,
               x = m * i + rx, y = m * j + ry, rx - ry = m * k + rd
        PROVE  x - y = m * (i - j + k) + rd
    <3>1. m * (i - j + k) = m * i - m * j + m * k
      BY Distributes
    <3>2. m * i \in Int /\ m * j \in Int /\ m * k \in Int
      OBVIOUS
    <3> QED BY <2>1, <3>1, <3>2
  <2>2. d % m \in Int
    BY <1>5
  <2> HIDE DEF d
  <2> QED BY <1>2, <1>3, <1>4, <1>6, <2>1, <2>2 DEF d
<1> HIDE DEF d
<1>8. CASE x - y >= 0
  <2>1. x - y \in 0 .. m - 1
    BY <1>1, <1>8
  <2>2. d % m = x - y
    BY <1>5, <1>7, <2>1, OneRemainder
  <2>3. ~(d % m >= Half(m))
    BY <2>2, <1>1
  <2> QED BY <2>2, <2>3 DEF Wrap, d
<1>9. CASE x - y < 0
  <2>1. x - y + m \in 0 .. m - 1
    BY <1>1, <1>9
  <2>2. x - y + m = m * (i - j + k + 1) + (d % m)
    <3>1. m * (i - j + k + 1) = m * (i - j + k) + m
      OBVIOUS
    <3> QED BY <1>5, <1>7, <3>1
  <2>3. d % m = x - y + m
    BY <1>5, <2>1, <2>2, OneRemainder
  <2>4. d % m >= Half(m)
    BY <2>3, <1>1
  <2> QED BY <2>3, <2>4 DEF Wrap, d
<1> QED BY <1>8, <1>9

LEMMA SquareIsNat == ASSUME NEW x \in Int PROVE x * x \in Nat
<1>1. CASE x >= 0
  BY <1>1
<1>2. CASE x < 0
  <2>1. x * x = (-x) * (-x) /\ -x \in Nat
    BY <1>2
  <2> QED BY <2>1
<1> QED BY <1>1, <1>2

\* The arm is within half a turn of any position it had, and so is the output,
\* also under another calibration.
LEMMA PositionsAreNear ==
  ASSUME NEW p \in Positions, NEW q \in Positions, NEW c \in Cals, NEW d \in Cals
  PROVE  /\ p \in Int /\ q \in Int
         /\ RawOf(p) \in 0 .. RawMod - 1
         /\ OutOf(c, p) \in Int /\ OutOf(d, q) \in Int
         /\ p - q < Half(RawMod) /\ q - p < Half(RawMod)
         /\ OutOf(c, p) - OutOf(d, q) < Half(AngMod)
         /\ OutOf(d, q) - OutOf(c, p) < Half(AngMod)
<1>1. p \in Int /\ q \in Int /\ Scale \in Nat /\ RawMod \in Nat \ {0}
  BY SampleAssumption
<1>2. RawOf(p) \in 0 .. RawMod - 1 /\ RawOf(q) \in 0 .. RawMod - 1
  BY <1>1, WholeTurns DEF RawOf
<1>3. Corr[<<c, RawOf(p)>>] \in Int /\ Corr[<<d, RawOf(q)>>] \in Int
  BY <1>2, SampleAssumption
<1>4. /\ p - q < Half(RawMod) /\ q - p < Half(RawMod)
      /\ Scale * (p - q) + Corr[<<c, RawOf(p)>>] - Corr[<<d, RawOf(q)>>] < Half(AngMod)
      /\ Scale * (q - p) + Corr[<<d, RawOf(q)>>] - Corr[<<c, RawOf(p)>>] < Half(AngMod)
  BY WithinHalfTurn DEF RawOf
<1>5. /\ Scale * p \in Int /\ Scale * q \in Int
      /\ Scale * (p - q) = Scale * p - Scale * q /\ Scale * (q - p) = Scale * q - Scale * p
  BY <1>1
<1> QED BY <1>1, <1>2, <1>3, <1>4, <1>5 DEF OutOf

----------------------------------------------------------------------------
(* The inductive invariant                                                 *)

CountType ==
  /\ smp_active \in BOOLEAN /\ smp_have_ref \in BOOLEAN /\ gate_open \in BOOLEAN
  /\ smp_e \in Exps \cup {0} /\ host_e \in Exps \cup {0}
  /\ smp_status \in Status /\ host_status \in Status
  /\ smp_left \in Nat /\ smp_pass \in Nat /\ smp_fail \in Nat
  /\ host \in {"idle", "poll", "read", "raised"}

SumType ==
  /\ smp_sum_d \in Int /\ smp_sum_c \in Int
  /\ smp_sum_d2 \in Nat /\ smp_sum_d2 <= SumD2Max
  /\ true_d \in Int /\ true_c \in Int /\ true_d2 \in Nat

PlaceType ==
  /\ pos \in Positions /\ cal \in Cals
  /\ smp_r0 \in 0 .. RawMod - 1 /\ smp_c0 \in 0 .. AngMod - 1

\* The reference of a run is a pair of codes the arm once had, at a position
\* and under a calibration of then.
RefWasSeen ==
  smp_have_ref =>
    /\ ref_pos \in Positions /\ smp_r0 = RawOf(ref_pos)
    /\ \E c \in Cals : ref_out = OutOf(c, ref_pos) /\ smp_c0 = ref_out % AngMod

\* A run that is on, or is done, while the host polls is the one it started:
\* a reset leaves none, and nobody else starts one.
RunIsAskedFor ==
  host \in {"poll", "read"} /\ (smp_active \/ smp_status.done) => smp_e = host_e

WholeRun(rec) ==
  /\ rec.status.done => rec.pass + rec.fail = 2 ^ rec.e
  /\ rec.sum_d = rec.true_d /\ rec.sum_c = rec.true_c
  /\ ~rec.status.saturated => rec.sum_d2 = rec.true_d2

\* A captured record is of one run, and the one the host is reading is the
\* record of the status it holds, of the run it asked for if that is done.
RecordIsOneRun ==
  rec_smp # NoRecord =>
    /\ WholeRun(rec_smp)
    /\ host = "read" => /\ rec_smp.status = host_status
                        /\ host_status.done => rec_smp.e = host_e

IInv ==
  /\ CountType /\ SumType /\ PlaceType
  /\ RefWasSeen /\ SumsExact
  /\ RunAccounts /\ RunBehindGate
  /\ RunIsAskedFor /\ RecordIsOneRun

----------------------------------------------------------------------------
(* A reading keeps the sums                                                *)

\* What a passed reading adds is the true distance from the reference.
LEMMA PassedAdds ==
  ASSUME PlaceType, SumType, RefWasSeen, Passed
  PROVE  /\ smp_sum_d' - smp_sum_d = true_d' - true_d
         /\ smp_sum_c' - smp_sum_c = true_c' - true_c
         /\ smp_sum_d' \in Int /\ smp_sum_c' \in Int
         /\ true_d' \in Int /\ true_c' \in Int
         /\ smp_r0' \in 0 .. RawMod - 1 /\ smp_c0' \in 0 .. AngMod - 1
         /\ smp_have_ref' = TRUE /\ RefWasSeen'
         /\ \E dd \in Nat : /\ true_d2' = true_d2 + dd
                            /\ smp_sum_d2' = AddD2(smp_sum_d2, dd)
                            /\ smp_status'.saturated = \/ smp_status.saturated
                                                       \/ smp_sum_d2 > SumD2Max - dd
<1> DEFINE rp == IF smp_have_ref THEN ref_pos ELSE pos
           ro == IF smp_have_ref THEN ref_out ELSE OutOf(cal, pos)
           r0 == IF smp_have_ref THEN smp_r0 ELSE RawOf(pos)
           c0 == IF smp_have_ref THEN smp_c0 ELSE AngleOf(cal, pos)
           dr == Wrap(RawOf(pos) - r0, RawMod)
           dc == Wrap(AngleOf(cal, pos) - c0, AngMod)
<1>1. /\ smp_r0' = r0 /\ smp_c0' = c0 /\ smp_have_ref' = TRUE
      /\ smp_sum_d' = smp_sum_d + dr /\ smp_sum_c' = smp_sum_c + dc
      /\ smp_sum_d2' = AddD2(smp_sum_d2, dr * dr)
      /\ ref_pos' = rp /\ ref_out' = ro
      /\ true_d' = true_d + (pos - rp) /\ true_c' = true_c + (OutOf(cal, pos) - ro)
      /\ true_d2' = true_d2 + (pos - rp) * (pos - rp)
      /\ smp_status'.saturated = \/ smp_status.saturated
                                 \/ smp_sum_d2 > SumD2Max - dr * dr
  BY DEF Passed
<1>2. PICK c \in Cals : /\ rp \in Positions /\ r0 = RawOf(rp)
                        /\ ro = OutOf(c, rp) /\ c0 = ro % AngMod
  BY DEF PlaceType, RefWasSeen, AngleOf
<1> HIDE DEF rp, ro, r0, c0
<1>3. /\ pos \in Int /\ rp \in Int /\ OutOf(cal, pos) \in Int /\ ro \in Int
      /\ pos - rp < Half(RawMod) /\ rp - pos < Half(RawMod)
      /\ OutOf(cal, pos) - ro < Half(AngMod) /\ ro - OutOf(cal, pos) < Half(AngMod)
      /\ r0 \in 0 .. RawMod - 1
  BY <1>2, PositionsAreNear DEF PlaceType
<1>4. dr = pos - rp
  BY <1>2, <1>3, WrapExact, SampleAssumption DEF RawOf
<1>5. dc = OutOf(cal, pos) - ro
  BY <1>2, <1>3, WrapExact, SampleAssumption DEF AngleOf
<1> HIDE DEF dr, dc
<1>6. c0 \in 0 .. AngMod - 1
  BY <1>2, <1>3, WholeTurns, SampleAssumption
<1>7. dr * dr \in Nat /\ dr * dr = (pos - rp) * (pos - rp)
  BY <1>3, <1>4, SquareIsNat
<1>8. RefWasSeen'
  BY <1>1, <1>2 DEF RefWasSeen, RawOf, OutOf
<1>9. /\ smp_sum_d' - smp_sum_d = true_d' - true_d
      /\ smp_sum_c' - smp_sum_c = true_c' - true_c
      /\ smp_sum_d' \in Int /\ smp_sum_c' \in Int
      /\ true_d' \in Int /\ true_c' \in Int
  BY <1>1, <1>3, <1>4, <1>5 DEF SumType
<1> QED BY <1>1, <1>3, <1>6, <1>7, <1>8, <1>9

\* The saturating sum of squares is exact until status bit 2 says otherwise.
LEMMA SquaresStep ==
  ASSUME SumType, CountType, SquaresFlagged, NEW dd \in Nat,
         true_d2' = true_d2 + dd, smp_sum_d2' = AddD2(smp_sum_d2, dd),
         smp_status'.saturated = (smp_status.saturated \/ smp_sum_d2 > SumD2Max - dd)
  PROVE  /\ SquaresFlagged'
         /\ smp_sum_d2' \in Nat /\ smp_sum_d2' <= SumD2Max /\ true_d2' \in Nat
<1> USE SampleAssumption
<1>1. smp_status.saturated \in BOOLEAN
  BY DEF CountType, Status
<1>2. CASE smp_sum_d2 > SumD2Max - dd
  <2>1. smp_sum_d2' = SumD2Max /\ smp_status'.saturated
    BY <1>1, <1>2 DEF AddD2
  <2>2. true_d2' > SumD2Max
    BY <1>2 DEF SumType, SquaresFlagged
  <2> QED BY <2>1, <2>2 DEF SumType, SquaresFlagged
<1>3. CASE ~(smp_sum_d2 > SumD2Max - dd)
  <2>1. smp_sum_d2' = smp_sum_d2 + dd /\ smp_status'.saturated = smp_status.saturated
    BY <1>1, <1>3 DEF AddD2
  <2>2. CASE smp_status.saturated
    <3>1. smp_sum_d2 = SumD2Max /\ true_d2 > SumD2Max
      BY <2>2 DEF SquaresFlagged
    <3>2. dd = 0
      BY <1>3, <3>1
    <3>3. smp_sum_d2' = SumD2Max /\ true_d2' > SumD2Max /\ true_d2' \in Nat
      BY <2>1, <3>1, <3>2 DEF SumType
    <3>4. SquaresFlagged'
      BY <2>1, <2>2, <3>3 DEF SquaresFlagged
    <3>5. SumD2Max \in Nat /\ SumD2Max <= SumD2Max
      OBVIOUS
    <3> QED BY <3>3, <3>4, <3>5
  <2>3. CASE ~smp_status.saturated
    BY <1>3, <2>1, <2>3 DEF SumType, SquaresFlagged
  <2> QED BY <2>2, <2>3
<1> QED BY <1>2, <1>3

LEMMA ConsumeSums ==
  ASSUME CountType, SumType, PlaceType, RefWasSeen, SumsExact, SampleConsume
  PROVE  /\ SumType' /\ RefWasSeen' /\ SumsExact'
         /\ smp_r0' \in 0 .. RawMod - 1 /\ smp_c0' \in 0 .. AngMod - 1
<1>1. CASE Passed
  <2>1. SquaresFlagged /\ smp_sum_d = true_d /\ smp_sum_c = true_c
    BY DEF SumsExact
  <2>2. PICK dd \in Nat :
          /\ true_d2' = true_d2 + dd /\ smp_sum_d2' = AddD2(smp_sum_d2, dd)
          /\ smp_status'.saturated = (smp_status.saturated \/ smp_sum_d2 > SumD2Max - dd)
    BY <1>1, PassedAdds
  <2>3. /\ SquaresFlagged'
        /\ smp_sum_d2' \in Nat /\ smp_sum_d2' <= SumD2Max /\ true_d2' \in Nat
    BY <2>1, <2>2, SquaresStep
  <2>4. /\ smp_sum_d' = true_d' /\ smp_sum_c' = true_c'
        /\ smp_sum_d' \in Int /\ smp_sum_c' \in Int /\ true_d' \in Int /\ true_c' \in Int
        /\ RefWasSeen' /\ smp_r0' \in 0 .. RawMod - 1 /\ smp_c0' \in 0 .. AngMod - 1
    <3>1. /\ smp_sum_d' - smp_sum_d = true_d' - true_d
          /\ smp_sum_c' - smp_sum_c = true_c' - true_c
          /\ smp_sum_d' \in Int /\ smp_sum_c' \in Int
          /\ true_d' \in Int /\ true_c' \in Int
          /\ smp_r0' \in 0 .. RawMod - 1 /\ smp_c0' \in 0 .. AngMod - 1
          /\ RefWasSeen'
      BY <1>1, PassedAdds
    <3>2. true_d \in Int /\ true_c \in Int
      BY DEF SumType
    <3> QED BY <2>1, <3>1, <3>2
  <2> QED BY <2>3, <2>4 DEF SumType, SumsExact
<1>2. CASE Failed
  <2>1. smp_status'.saturated = smp_status.saturated
    BY <1>2 DEF Failed, CountType, Status
  <2>2. UNCHANGED <<smp_have_ref, smp_r0, smp_c0, smp_sum_d, smp_sum_c, smp_sum_d2,
                    ref_pos, ref_out, true_d, true_c, true_d2>>
    BY <1>2 DEF Failed, truth
  <2>3. SumType' /\ RefWasSeen' /\ SumsExact'
    BY <2>1, <2>2 DEF SumType, RefWasSeen, SumsExact, SquaresFlagged, RawOf, OutOf
  <2> QED BY <2>2, <2>3 DEF PlaceType
<1> QED BY <1>1, <1>2 DEF SampleConsume

LEMMA ConsumeCounts ==
  ASSUME CountType, RunAccounts, smp_active, SampleConsume
  PROVE  /\ smp_active' \in BOOLEAN /\ smp_have_ref' \in BOOLEAN
         /\ smp_status' \in Status
         /\ smp_left' \in Nat /\ smp_pass' \in Nat /\ smp_fail' \in Nat
         /\ RunAccounts'
<1>1. /\ smp_pass \in Nat /\ smp_fail \in Nat /\ smp_left \in Nat /\ smp_left > 0
      /\ smp_pass + smp_fail + smp_left = 2 ^ smp_e
      /\ smp_status \in Status /\ ~smp_status.done /\ ~smp_status.aborted
      /\ smp_have_ref <=> smp_pass > 0
  BY DEF CountType, RunAccounts
<1>2. /\ smp_left' = smp_left - 1 /\ (smp_active' <=> smp_left # 1) /\ smp_e' = smp_e
      /\ smp_active' \in BOOLEAN
  BY DEF SampleConsume, LastReading
<1>3. /\ smp_status' \in Status /\ (smp_status'.done <=> smp_left = 1)
      /\ ~smp_status'.aborted
      /\ \/ smp_pass' = smp_pass + 1 /\ smp_fail' = smp_fail /\ smp_have_ref' = TRUE
         \/ /\ smp_pass' = smp_pass /\ smp_fail' = smp_fail + 1
            /\ smp_have_ref' = smp_have_ref
  <2>1. CASE Passed
    <3>1. /\ smp_pass' = smp_pass + 1 /\ smp_fail' = smp_fail /\ smp_have_ref' = TRUE
      BY <2>1 DEF Passed
    <3>2. PICK b \in BOOLEAN :
            smp_status' = [done |-> smp_left = 1, aborted |-> smp_status.aborted,
                           saturated |-> b]
      BY <1>1, <2>1 DEF Passed, LastReading, Status
    <3>3. smp_status.aborted = FALSE /\ (smp_left = 1) \in BOOLEAN
      BY <1>1 DEF Status
    <3>4. /\ smp_status' \in Status /\ (smp_status'.done <=> smp_left = 1)
          /\ ~smp_status'.aborted
      BY <3>2, <3>3 DEF Status
    <3> QED BY <3>1, <3>4
  <2>2. CASE Failed
    BY <1>1, <2>2 DEF Failed, LastReading, Status
  <2> QED BY <2>1, <2>2 DEF SampleConsume
<1> DEFINE total == 2 ^ smp_e
<1>4. total' = total
  BY <1>2
<1>5. smp_pass + smp_fail + smp_left = total
  BY <1>1
<1> HIDE DEF total
<1>6. /\ smp_left' \in Nat /\ smp_pass' \in Nat /\ smp_fail' \in Nat
      /\ smp_pass' + smp_fail' + smp_left' = total
      /\ smp_active' => smp_left' > 0
      /\ smp_left = 1 => smp_left' = 0 /\ smp_pass' + smp_fail' = total
      /\ smp_have_ref' <=> smp_pass' > 0
  BY <1>1, <1>2, <1>3, <1>5
<1>7. RunAccounts'
  BY <1>2, <1>3, <1>4, <1>6 DEF RunAccounts, total
<1> QED BY <1>2, <1>3, <1>6, <1>7 DEF CountType

----------------------------------------------------------------------------
(* The actions keep the invariant                                          *)

LEMMA Zeros ==
  /\ 0 \in 0 .. RawMod - 1 /\ 0 \in 0 .. AngMod - 1 /\ 0 <= SumD2Max
  /\ 0 \in Nat /\ 0 \in Int /\ ~(0 > 0)
BY SampleAssumption

LEMMA ReadingKeeps == ASSUME IInv, Reading PROVE IInv'
<1>1. /\ SumType' /\ RefWasSeen' /\ SumsExact'
      /\ smp_r0' \in 0 .. RawMod - 1 /\ smp_c0' \in 0 .. AngMod - 1
  BY ConsumeSums DEF IInv, Reading
<1>2. /\ smp_active' \in BOOLEAN /\ smp_have_ref' \in BOOLEAN /\ smp_status' \in Status
      /\ smp_left' \in Nat /\ smp_pass' \in Nat /\ smp_fail' \in Nat
      /\ RunAccounts'
  BY ConsumeCounts DEF IInv, Reading
<1>3. smp_active /\ smp_e' = smp_e /\ UNCHANGED <<rec_smp, gate_open, cal, pos, tool>>
  BY DEF Reading, SampleConsume
<1>4. CountType' /\ PlaceType'
  BY <1>1, <1>2, <1>3 DEF IInv, CountType, PlaceType, tool
<1>5. RunBehindGate' /\ RunIsAskedFor'
  BY <1>3 DEF IInv, RunBehindGate, RunIsAskedFor, tool
<1>6. RecordIsOneRun'
  BY <1>3 DEF IInv, RecordIsOneRun, WholeRun, tool
<1> QED BY <1>1, <1>2, <1>4, <1>5, <1>6 DEF IInv

LEMMA CascadeKeeps == ASSUME IInv, CascadeFrame PROVE IInv'
<1>1. /\ gate_open' = FALSE /\ smp_active' = FALSE
      /\ UNCHANGED <<smp_e, smp_have_ref, smp_left, smp_pass, smp_fail, smp_r0, smp_c0,
                     smp_sum_d, smp_sum_c, smp_sum_d2, rec_smp, cal, pos, tool, truth>>
  BY DEF IInv, CountType, CascadeFrame, SampleAbort
<1>2. /\ smp_status' \in Status /\ smp_status'.done = smp_status.done
      /\ smp_status'.saturated = smp_status.saturated
      /\ smp_status'.aborted => smp_active \/ smp_status.aborted
  <2>1. smp_status \in Status
    BY DEF IInv, CountType
  <2>2. \/ smp_status' = smp_status
        \/ smp_active /\ smp_status' = [smp_status EXCEPT !.aborted = TRUE]
    BY DEF CascadeFrame, SampleAbort
  <2> QED BY <2>1, <2>2 DEF Status
<1>3. CountType' /\ PlaceType' /\ SumType'
  BY <1>1, <1>2 DEF IInv, CountType, PlaceType, SumType, tool, truth
<1>4. RefWasSeen' /\ SumsExact'
  BY <1>1, <1>2 DEF IInv, RefWasSeen, SumsExact, SquaresFlagged, truth, RawOf, OutOf
<1>5. RunAccounts'
  BY <1>1, <1>2 DEF IInv, RunAccounts
<1>6. RunBehindGate' /\ RunIsAskedFor' /\ RecordIsOneRun'
  BY <1>1, <1>2 DEF IInv, RunBehindGate, RunIsAskedFor, RecordIsOneRun, WholeRun, tool
<1> QED BY <1>3, <1>4, <1>5, <1>6 DEF IInv

LEMMA ResetKeeps == ASSUME IInv, ModuleReset PROVE IInv'
<1>1. Clear \in Status /\ ~Clear.done /\ ~Clear.aborted /\ ~Clear.saturated
  BY DEF Clear, Status
<1>2. CountType' /\ PlaceType' /\ SumType'
  <2>1. CountType'
    BY <1>1, Zeros DEF IInv, CountType, ModuleReset, tool
  <2>2. PlaceType' /\ SumType'
    BY Zeros DEF IInv, PlaceType, SumType, ModuleReset
  <2> QED BY <2>1, <2>2
<1>3. RefWasSeen' /\ SumsExact' /\ RunAccounts'
  BY <1>1 DEF ModuleReset, RefWasSeen, SumsExact, SquaresFlagged, RunAccounts
<1>4. RunBehindGate' /\ RunIsAskedFor' /\ RecordIsOneRun'
  BY <1>1 DEF ModuleReset, RunBehindGate, RunIsAskedFor, RecordIsOneRun
<1> QED BY <1>2, <1>3, <1>4 DEF IInv

LEMMA HostStartKeeps == ASSUME IInv, NEW e \in Exps, HostStart(e) PROVE IInv'
<1>1. Clear \in Status /\ ~Clear.done /\ ~Clear.aborted /\ ~Clear.saturated
  BY DEF Clear, Status
<1> DEFINE n == 2 ^ e
<1>2. n \in Nat \ {0}
  BY SampleAssumption
<1>3. /\ smp_e' = e /\ host_e' = e /\ host' = "poll" /\ smp_left' = n
      /\ smp_status' = Clear /\ smp_active' = TRUE /\ smp_have_ref' = FALSE
      /\ smp_pass' = 0 /\ smp_fail' = 0
      /\ gate_open /\ UNCHANGED <<rec_smp, gate_open, cal, pos, host_status>>
  BY DEF HostStart, SampleStart, ResetStatus, ResetCounts
<1>4. RunAccounts'
  <2>1. 2 ^ smp_e' = n
    BY <1>3
  <2> HIDE DEF n
  <2> QED BY <1>1, <1>2, <1>3, <2>1 DEF RunAccounts
<1> HIDE DEF n
<1>5. CountType' /\ PlaceType' /\ SumType'
  <2>1. CountType'
    <3>1. gate_open' \in BOOLEAN /\ host_status' \in Status
      BY <1>3 DEF IInv, CountType
    <3> QED BY <1>1, <1>2, <1>3, <3>1, Zeros DEF CountType
  <2>2. PlaceType' /\ SumType'
    BY Zeros DEF IInv, PlaceType, SumType, HostStart, SampleStart
  <2> QED BY <2>1, <2>2
<1>6. RefWasSeen' /\ SumsExact'
  BY <1>1, <1>3 DEF HostStart, SampleStart, RefWasSeen, SumsExact, SquaresFlagged
<1>7. RunBehindGate' /\ RunIsAskedFor'
  BY <1>3 DEF RunBehindGate, RunIsAskedFor
<1>8. RecordIsOneRun'
  BY <1>3 DEF IInv, RecordIsOneRun, WholeRun
<1> QED BY <1>4, <1>5, <1>6, <1>7, <1>8 DEF IInv

LEMMA EngineKept ==
  ASSUME IInv, UNCHANGED <<engine, truth>>
  PROVE  /\ smp_active' \in BOOLEAN /\ smp_have_ref' \in BOOLEAN
         /\ smp_e' \in Exps \cup {0} /\ smp_status' \in Status
         /\ smp_left' \in Nat /\ smp_pass' \in Nat /\ smp_fail' \in Nat
         /\ smp_r0' \in 0 .. RawMod - 1 /\ smp_c0' \in 0 .. AngMod - 1
         /\ SumType' /\ RefWasSeen' /\ SumsExact' /\ RunAccounts'
         /\ smp_active' = smp_active /\ smp_e' = smp_e /\ smp_status' = smp_status
<1>1. /\ UNCHANGED <<smp_active, smp_e, smp_status, smp_have_ref, smp_left, smp_pass, smp_fail>>
      /\ UNCHANGED <<smp_r0, smp_c0, smp_sum_d, smp_sum_c, smp_sum_d2>>
      /\ UNCHANGED <<ref_pos, ref_out, true_d, true_c, true_d2>>
  BY DEF engine, truth
<1>2. RefWasSeen' /\ SumsExact' /\ RunAccounts'
  BY <1>1 DEF IInv, RefWasSeen, SumsExact, SquaresFlagged, RunAccounts, RawOf, OutOf
<1> QED BY <1>1, <1>2 DEF IInv, CountType, PlaceType, SumType

LEMMA SurroundingsKeep ==
  ASSUME IInv, GateOpens \/ SetCal \/ Move \/ UNCHANGED vars
  PROVE  IInv'
<1>1. /\ UNCHANGED <<engine, truth>> /\ UNCHANGED tool /\ rec_smp' = rec_smp
      /\ gate_open' \in BOOLEAN /\ (gate_open => gate_open')
      /\ cal' \in Cals /\ pos' \in Positions
  BY DEF IInv, CountType, PlaceType, GateOpens, SetCal, Move, vars
<1>2. CountType' /\ PlaceType'
  BY <1>1, EngineKept DEF IInv, CountType, PlaceType, tool
<1>3. RunBehindGate' /\ RunIsAskedFor'
  <2>1. UNCHANGED <<smp_active, smp_e, smp_status, host, host_e>>
    BY <1>1 DEF engine, tool
  <2> QED BY <1>1, <2>1 DEF IInv, RunBehindGate, RunIsAskedFor
<1>4. RecordIsOneRun'
  BY <1>1 DEF IInv, RecordIsOneRun, WholeRun, tool
<1> QED BY <1>1, <1>2, <1>3, <1>4, EngineKept DEF IInv

\* What the host captures is of one run: of the one that is on, or of the one
\* that is done.
LEMMA CaptureKeeps == ASSUME IInv, HostReadStatus PROVE IInv'
<1>1. /\ UNCHANGED <<engine, truth>> /\ rec_smp' = CaptureSample /\ host' = "read"
      /\ host = "poll" /\ host_status' = smp_status
      /\ UNCHANGED <<gate_open, cal, pos, host_e>>
  BY DEF HostReadStatus
<1>2. smp_status \in Status /\ host_e \in Exps \cup {0}
  BY DEF IInv, CountType
<1>3. CountType' /\ PlaceType'
  BY <1>1, <1>2, EngineKept DEF IInv, CountType, PlaceType
<1>4. RunBehindGate' /\ RunIsAskedFor'
  BY <1>1, EngineKept DEF IInv, RunBehindGate, RunIsAskedFor
<1>5. /\ rec_smp'.status = smp_status /\ rec_smp'.e = smp_e
      /\ rec_smp'.pass = smp_pass /\ rec_smp'.fail = smp_fail
      /\ rec_smp'.sum_d = smp_sum_d /\ rec_smp'.sum_c = smp_sum_c
      /\ rec_smp'.sum_d2 = smp_sum_d2 /\ rec_smp'.true_d = true_d
      /\ rec_smp'.true_c = true_c /\ rec_smp'.true_d2 = true_d2
  BY <1>1 DEF CaptureSample
<1>6. WholeRun(rec_smp')
  BY <1>5 DEF IInv, WholeRun, RunAccounts, SumsExact, SquaresFlagged
<1>7. host_status'.done => rec_smp'.e = host_e'
  BY <1>1, <1>5 DEF IInv, RunIsAskedFor
<1>8. RecordIsOneRun'
  BY <1>1, <1>5, <1>6, <1>7 DEF RecordIsOneRun, WholeRun
<1> QED BY <1>1, <1>3, <1>4, <1>8, EngineKept DEF IInv

LEMMA HostEndKeeps ==
  ASSUME IInv, HostReadFields \/ HostRaises
  PROVE  IInv'
<1>1. Clear \in Status
  BY DEF Clear, Status
<1>2. /\ UNCHANGED <<engine, truth>> /\ UNCHANGED <<rec_smp, gate_open, cal, pos>>
      /\ host \in {"poll", "read"} /\ host' \in {"idle", "poll", "raised"}
      /\ host' = "poll" => host_e' = host_e
      /\ host_e' \in {host_e, 0} /\ host_status' \in {host_status, Clear}
  BY DEF HostReadFields, HostRaises
<1>3. CountType' /\ PlaceType'
  BY <1>1, <1>2, EngineKept DEF IInv, CountType, PlaceType
<1>4. RunBehindGate' /\ RunIsAskedFor'
  BY <1>2, EngineKept DEF IInv, RunBehindGate, RunIsAskedFor
<1>5. RecordIsOneRun'
  BY <1>2 DEF IInv, RecordIsOneRun, WholeRun
<1> QED BY <1>2, <1>3, <1>4, <1>5, EngineKept DEF IInv

LEMMA InitIInv == Init => IInv
<1> SUFFICES ASSUME Init PROVE IInv
  OBVIOUS
<1>1. Clear \in Status /\ ~Clear.done /\ ~Clear.aborted /\ ~Clear.saturated
  BY DEF Clear, Status
<1>2. CountType /\ PlaceType /\ SumType
  <2>1. CountType
    BY <1>1, Zeros DEF Init, CountType
  <2>2. PlaceType /\ SumType
    BY Zeros DEF Init, PlaceType, SumType
  <2> QED BY <2>1, <2>2
<1>3. RefWasSeen /\ SumsExact /\ RunAccounts
  BY <1>1 DEF Init, RefWasSeen, SumsExact, SquaresFlagged, RunAccounts
<1>4. RunBehindGate /\ RunIsAskedFor /\ RecordIsOneRun
  BY <1>1 DEF Init, RunBehindGate, RunIsAskedFor, RecordIsOneRun
<1> QED BY <1>2, <1>3, <1>4 DEF IInv

\* The run, its sums and what the host holds of it stay as the properties say
\* in every step of module and host.  (ker_cmd3.cpp, Module.sample)
THEOREM Inductive == Spec => []IInv
<1>1. ASSUME IInv, [Next]_vars PROVE IInv'
  BY <1>1, ReadingKeeps, CascadeKeeps, ResetKeeps, HostStartKeeps, SurroundingsKeep,
     CaptureKeeps, HostEndKeeps
  DEF Next
<1> QED BY <1>1, InitIInv, PTL DEF Spec

----------------------------------------------------------------------------
(* What follows                                                            *)

\* Every variable keeps its type.
THEOREM TypeCorrect == Spec => []TypeOK
<1>1. IInv => TypeOK
  BY SampleAssumption DEF IInv, CountType, SumType, PlaceType, TypeOK
<1> QED BY <1>1, Inductive, PTL

\* The accumulated sums are the true ones across the seam, and the sum of
\* squares is unless the record says that it saturated.  (sample_consume)
THEOREM SumsAreExact == Spec => []SumsExact
BY Inductive, PTL DEF IInv

\* Every reading of a run is counted once; done, aborted and active exclude
\* each other.  (sample_consume, sample_abort)
THEOREM RunsAreAccounted == Spec => []RunAccounts
BY Inductive, PTL DEF IInv

\* No run goes on while the arm is live.  (ker_on_frame, read gate)
THEOREM NoRunOnLiveArm == Spec => []RunBehindGate
BY Inductive, PTL DEF IInv

\* What Module.sample returns as done is one whole run of the asked length
\* with its true sums.  (Module.sample, GET_SAMPLE)
THEOREM ResultsAreOneRun == Spec => ResultIsOneRun
<1>1. ASSUME IInv, Next, host = "read", host' = "idle", host_status.done
      PROVE  /\ rec_smp.pass + rec_smp.fail = 2 ^ host_e
             /\ rec_smp.status = host_status
             /\ rec_smp.sum_d = rec_smp.true_d /\ rec_smp.sum_c = rec_smp.true_c
             /\ ~host_status.saturated => rec_smp.sum_d2 = rec_smp.true_d2
  <2>1. rec_smp # NoRecord
    BY <1>1 DEF Next, Reading, CascadeFrame, GateOpens, SetCal, Move, ModuleReset, HostStart,
                HostReadStatus, HostReadFields, HostRaises, tool
  <2>2. WholeRun(rec_smp) /\ rec_smp.status = host_status /\ rec_smp.e = host_e
    BY <1>1, <2>1 DEF IInv, RecordIsOneRun
  <2> QED BY <1>1, <2>2 DEF WholeRun
<1>2. IInv /\ [Next]_vars =>
        [host = "read" /\ host' = "idle" /\ host_status.done =>
           /\ rec_smp.pass + rec_smp.fail = 2 ^ host_e
           /\ rec_smp.status = host_status
           /\ rec_smp.sum_d = rec_smp.true_d /\ rec_smp.sum_c = rec_smp.true_c
           /\ ~host_status.saturated => rec_smp.sum_d2 = rec_smp.true_d2]_vars
  BY <1>1
<1> QED BY <1>2, Inductive, PTL DEF Spec, ResultIsOneRun

----------------------------------------------------------------------------
(* The words of a record                                                   *)

LEMMA Join16 ==
  ASSUME NEW x \in Int
  PROVE  /\ x = (x % 65536) + 65536 * (x \div 65536)
         /\ x % 65536 \in Word /\ x \div 65536 \in Int
<1>1. x = (x % 65536) + 65536 * (x \div 65536)
  BY SMT
<1>2. x % 65536 \in Word
  BY SMT DEF Word
<1>3. x \div 65536 \in Int
  BY SMT
<1> QED BY <1>1, <1>2, <1>3

LEMMA Ranges ==
  /\ \A v \in Amplitude : v \in Int /\ -32768 <= v /\ v <= 32767
  /\ \A v \in Word : v \in Nat /\ v <= 65535
<1>1. \A v \in Amplitude : v \in Int
  BY SMT DEF Amplitude
<1>2. \A v \in Amplitude : -32768 <= v
  BY SMT DEF Amplitude
<1>3. \A v \in Amplitude : v <= 32767
  BY SMT DEF Amplitude
<1>4. \A v \in Word : v \in Nat
  BY SMT DEF Word
<1>5. \A v \in Word : v <= 65535
  BY SMT DEF Word
<1> QED BY <1>1, <1>2, <1>3, <1>4, <1>5

LEMMA Mod16 ==
  /\ \A v \in Nat : v <= 65535 => v % 65536 = v /\ v \in Word
  /\ \A v \in Int : -32768 <= v /\ v < 0 => v % 65536 = v + 65536
<1>1. \A v \in Nat : v <= 65535 => v % 65536 = v
  BY SMT
<1>2. \A v \in Int : -32768 <= v /\ v < 0 => v % 65536 = v + 65536
  BY SMT
<1>3. \A v \in Nat : v \in Int
  BY SMT
<1> QED BY <1>1, <1>2, <1>3, Join16

LEMMA Signed16 ==
  ASSUME NEW v \in Amplitude
  PROVE  i16(v % 65536) = v /\ v % 65536 \in Word
<1>1. v \in Int /\ -32768 <= v /\ v <= 32767
  BY Ranges
<1>2. v % 65536 \in Word
  BY <1>1, Join16
<1>3. CASE v >= 0
  <2>1. v % 65536 = v
    <3>1. v \in Nat /\ v <= 65535
      BY SMT, <1>1, <1>3
    <3> QED BY <3>1, Mod16
  <2>2. i16(v) = v
    BY SMT, <1>1, <1>3 DEF i16
  <2> QED BY <1>2, <2>1, <2>2
<1>4. CASE v < 0
  <2>1. v % 65536 = v + 65536
    BY <1>1, <1>4, Mod16
  <2>2. i16(v + 65536) = v
    BY SMT, <1>1, <1>4 DEF i16
  <2> QED BY <1>2, <2>1, <2>2
<1>5. v >= 0 \/ v < 0
  BY SMT, <1>1
<1> QED BY <1>3, <1>4, <1>5

LEMMA Signed32 ==
  ASSUME NEW v \in Int, v \div 65536 \in Amplitude
  PROVE  signed32(Low(v), High(v)) = v
<1>1. /\ v = (v % 65536) + 65536 * (v \div 65536)
      /\ v % 65536 \in Word /\ v \div 65536 \in Int
  BY Join16
<1>2. i16((v \div 65536) % 65536) = v \div 65536
  BY Signed16
<1>3. v % 65536 \in Nat
  BY <1>1, Ranges
<1> QED BY SMT, <1>1, <1>2, <1>3 DEF signed32, Low, High

LEMMA Unsigned32 ==
  ASSUME NEW v \in Nat, v \div 65536 \in Word
  PROVE  Low(v) + High(v) * 65536 = v
<1>1. v \in Int
  BY SMT
<1>2. /\ v = (v % 65536) + 65536 * (v \div 65536)
      /\ v % 65536 \in Word /\ v \div 65536 \in Int
  BY <1>1, Join16
<1>3. (v \div 65536) % 65536 = v \div 65536
  BY Ranges, Mod16
<1>4. v % 65536 \in Nat
  BY <1>2, Ranges
<1> QED BY SMT, <1>2, <1>3, <1>4 DEF Low, High

\* The contents of a sampling record that fit its twelve words.
IsSample(s) ==
  /\ s = [done |-> s.done, aborted |-> s.aborted, saturated |-> s.saturated, e |-> s.e,
          n_pass |-> s.n_pass, n_fail |-> s.n_fail, r0 |-> s.r0, sum_d |-> s.sum_d,
          sum_d2 |-> s.sum_d2, c0 |-> s.c0, sum_c |-> s.sum_c]
  /\ s.done \in BOOLEAN /\ s.aborted \in BOOLEAN /\ s.saturated \in BOOLEAN
  /\ s.e \in 0 .. 15
  /\ s.sum_d \in Int /\ s.sum_d \div 65536 \in Amplitude
  /\ s.sum_d2 \in Nat /\ s.sum_d2 \div 65536 \in Word
  /\ s.c0 \in Nat /\ s.c0 < DATA_LIMIT
  /\ s.sum_c \in Int /\ s.sum_c \div 65536 \in Amplitude

LEMMA FlagBits ==
  ASSUME NEW d \in 0 .. 1, NEW a \in 0 .. 1, NEW t \in 0 .. 1, NEW e \in 0 .. 15
  PROVE  /\ (d + 2 * a + 4 * t + e * 256) % 2 = d
         /\ ((d + 2 * a + 4 * t + e * 256) \div 2) % 2 = a
         /\ ((d + 2 * a + 4 * t + e * 256) \div 4) % 2 = t
         /\ ((d + 2 * a + 4 * t + e * 256) \div 256) % 16 = e
<1> DEFINE w == d + 2 * a + 4 * t + e * 256
<1>1. w % 2 = d
  BY SMT
<1>2. w \div 2 = a + 2 * t + e * 128
  BY SMT
<1>3. (a + 2 * t + e * 128) % 2 = a
  BY SMT
<1>4. w \div 4 = t + e * 64
  BY SMT
<1>5. (t + e * 64) % 2 = t
  BY SMT
<1>6. w \div 256 = e
  BY SMT
<1>7. e % 16 = e
  BY SMT
<1> QED BY SMT, <1>1, <1>2, <1>3, <1>4, <1>5, <1>6, <1>7

\* What decode_sample makes of the twelve words the module sends for a sample
\* is that sample: the sums keep their sign, the flags their meaning.
THEOREM SampleRoundTrip ==
  ASSUME NEW s, IsSample(s)
  PROVE  decode_sample(SampleWords(s)) = s
<1> DEFINE w == SampleWords(s)
           d == IF s.done THEN 1 ELSE 0
           a == IF s.aborted THEN 1 ELSE 0
           t == IF s.saturated THEN 1 ELSE 0
<1>1. d \in 0 .. 1 /\ a \in 0 .. 1 /\ t \in 0 .. 1 /\ s.e \in 0 .. 15
  BY SMT DEF IsSample
<1>2. w[1] = d + 2 * a + 4 * t + s.e * 256
  BY SMT, <1>1 DEF SampleWords
<1>3. /\ w[1] % 2 = d /\ (w[1] \div 2) % 2 = a /\ (w[1] \div 4) % 2 = t
      /\ (w[1] \div 256) % 16 = s.e
  BY <1>1, <1>2, FlagBits
<1>4. /\ w[2] = s.n_pass /\ w[3] = s.n_fail /\ w[4] = s.r0
      /\ w[5] = Low(s.sum_d) /\ w[6] = High(s.sum_d)
      /\ w[7] = Low(s.sum_d2) /\ w[8] = High(s.sum_d2)
      /\ w[9] = Low(s.c0) /\ w[10] = High(s.c0)
      /\ w[11] = Low(s.sum_c) /\ w[12] = High(s.sum_c)
  BY SMT DEF SampleWords
<1>5. signed32(w[5], w[6]) = s.sum_d /\ signed32(w[11], w[12]) = s.sum_c
  BY <1>4, Signed32 DEF IsSample
<1>6. w[7] + w[8] * 65536 = s.sum_d2
  BY SMT, <1>4, Unsigned32 DEF IsSample
<1>7. angle21(w[9], w[10]) = s.c0
  <2>1. s.c0 \div 65536 \in Word
    <3>1. s.c0 \in Nat /\ s.c0 < DATA_LIMIT
      BY DEF IsSample
    <3>2. s.c0 \div 65536 >= 0
      BY SMT, <3>1
    <3>3. s.c0 \div 65536 <= 65535
      BY SMT, <3>1 DEF DATA_LIMIT
    <3>4. s.c0 \div 65536 \in Nat
      BY SMT, <3>1, <3>2
    <3> QED BY <3>3, <3>4, Mod16
  <2>2. Low(s.c0) + High(s.c0) * 65536 = s.c0
    BY <2>1, Unsigned32 DEF IsSample
  <2>3. s.c0 % 2097152 = s.c0
    BY SMT DEF IsSample, DATA_LIMIT
  <2> QED BY SMT, <1>4, <2>2, <2>3 DEF angle21
<1>8. /\ (w[1] % 2 = 1) = s.done /\ ((w[1] \div 2) % 2 = 1) = s.aborted
      /\ ((w[1] \div 4) % 2 = 1) = s.saturated
  BY SMT, <1>3 DEF IsSample
<1> HIDE DEF w, d, a, t
<1>9. decode_sample(w) =
        [done |-> s.done, aborted |-> s.aborted, saturated |-> s.saturated, e |-> s.e,
         n_pass |-> s.n_pass, n_fail |-> s.n_fail, r0 |-> s.r0, sum_d |-> s.sum_d,
         sum_d2 |-> s.sum_d2, c0 |-> s.c0, sum_c |-> s.sum_c]
  BY SMT, <1>3, <1>4, <1>5, <1>6, <1>7, <1>8 DEF decode_sample
<1> QED BY <1>9 DEF IsSample, w
----------------------------------------------------------------------------
(* The record of the station                                               *)

\* A measurement is a record of these six fields, and nothing else is in a run.
IsRow(x) ==
  x = [position |-> x.position, direction |-> x.direction, phase |-> x.phase,
       theta_true |-> x.theta_true, theta_s |-> x.theta_s, theta_out |-> x.theta_out]

AreRows(m) == m \in Seq(Range(m)) /\ \A i \in DOMAIN m : IsRow(m[i])

\* Behind the commit the page in the unit is the one the measurements so far give,
\* and the first file of the record holds all of them.
RecordInv ==
  /\ AreRows(measurements)
  /\ phase \in {"val", "csv", "json"} => run_page(measurements) = {page}
  /\ phase = "json" => csv = to_csv(measurements)

\* The fit does not see what is measured behind it.
LEMMA FitRowsStay ==
  ASSUME NEW m, AreRows(m), NEW row, row.phase # "fit"
  PROVE  fit_rows(Append(m, row)) = fit_rows(m)
<1> DEFINE n == Append(m, row)
           At(s) == {i \in DOMAIN s : s[i].phase = "fit"}
<1>1. /\ DOMAIN n = DOMAIN m \cup {Len(m) + 1} /\ n[Len(m) + 1] = row
      /\ \A i \in DOMAIN m : n[i] = m[i]
  BY DEF AreRows
<1> HIDE DEF n
<1>2. At(n) = At(m) BY <1>1
<1>3. [i \in At(n) |-> n[i]] = [i \in At(m) |-> m[i]] BY <1>1, <1>2
<1>4. \A s : fit_rows(s) = InOrder([i \in At(s) |-> s[i]])
  BY DEF fit_rows, RestrictValues, Restrict
<1> QED BY <1>3, <1>4 DEF n

\* Reading the CSV back loses nothing.
LEMMA RecordIsRead ==
  ASSUME NEW m, AreRows(m)
  PROVE  from_csv(to_csv(m)) = m
<1>1. PICK r : r = to_csv(m) OBVIOUS
<1>2. r = [i \in DOMAIN m |-> <<m[i].position, m[i].direction, m[i].phase,
                                m[i].theta_true, m[i].theta_s, m[i].theta_out>>]
  BY <1>1 DEF to_csv, Mapped
<1>3. from_csv(r) =
        [i \in DOMAIN r |-> [position |-> r[i][1], direction |-> r[i][2], phase |-> r[i][3],
                             theta_true |-> r[i][4], theta_s |-> r[i][5], theta_out |-> r[i][6]]]
  BY DEF from_csv, Mapped
<1>4. \A i \in DOMAIN m : IsRow(m[i]) BY DEF AreRows
<1>5. from_csv(r) = [i \in DOMAIN m |-> m[i]]
  BY <1>2, <1>3, <1>4 DEF IsRow
<1>6. m = [i \in DOMAIN m |-> m[i]] BY DEF AreRows
<1> QED BY <1>1, <1>5, <1>6

LEMMA RowsAppend ==
  ASSUME NEW m, AreRows(m), NEW row, IsRow(row)
  PROVE  AreRows(Append(m, row))
<1>1. PICK R : R = Range(m) /\ m \in Seq(R) BY DEF AreRows
<1>2. PICK n : n = Append(m, row) OBVIOUS
<1>3. /\ n \in Seq(R \cup {row}) /\ DOMAIN n = DOMAIN m \cup {Len(m) + 1} /\ n[Len(m) + 1] = row
      /\ \A i \in DOMAIN m : n[i] = m[i]
  BY <1>1, <1>2
<1>4. Len(n) \in Nat /\ DOMAIN n = 1 .. Len(n) BY <1>3
<1>5. \A i \in 1 .. Len(n) : n[i] \in Range(n) BY <1>4 DEF Range
<1>6. n = [i \in 1 .. Len(n) |-> n[i]]
  <2>1. PICK T : n \in Seq(T) BY <1>3
  <2> QED BY <1>4, <2>1
<1>7. n \in Seq(Range(n)) BY <1>4, <1>5, <1>6
<1> QED BY <1>2, <1>3, <1>7 DEF AreRows

LEMMA NothingMeasured == AreRows(<<>>)
BY DEF AreRows

\* What run_page yields is one page or none.
LEMMA OnePage ==
  ASSUME NEW m, NEW p \in run_page(m)
  PROVE  run_page(m) = {p}
BY DEF run_page, to_cal

\* A pass of either kind; only the second is made with the new page in the unit.
LEMMA MeasureStep ==
  ASSUME RecordInv, NEW ph \in {"fit", "val"}, NEW positions,
         NEW next, next = (IF ph = "fit" THEN "commit" ELSE "csv"),
         Measure(ph, positions, next)
  PROVE  RecordInv'
<1>1. PICK row : /\ IsRow(row) /\ row.phase = ph
                 /\ measurements' = Append(measurements, row)
  BY DEF Measure, IsRow
<1>2. phase = ph /\ page' = page /\ csv' = csv /\ phase' \in {ph, next}
  BY DEF Measure
<1>3. AreRows(measurements) /\ AreRows(measurements')
  BY <1>1, RowsAppend DEF RecordInv
<1>4. phase' # "json" BY <1>2
<1>5. phase' \in {"val", "csv"} => run_page(measurements') = {page'}
  <2> SUFFICES ASSUME phase' \in {"val", "csv"} PROVE run_page(measurements') = {page'}
    OBVIOUS
  <2>1. ph = "val" BY <1>2
  <2>2. fit_rows(measurements') = fit_rows(measurements)
    BY <1>1, <1>3, <2>1, FitRowsStay
  <2>3. run_page(measurements) = {page} BY <1>2, <2>1 DEF RecordInv
  <2> QED BY <1>2, <2>2, <2>3 DEF run_page, run_fit
<1> QED BY <1>3, <1>4, <1>5 DEF RecordInv

LEMMA RecordInvariant == StationSpec => []RecordInv
<1>1. StationInit => RecordInv
  BY NothingMeasured DEF StationInit, RecordInv
<1>2. RecordInv /\ [StationNext]_station_vars => RecordInv'
  <2> SUFFICES ASSUME RecordInv, [StationNext]_station_vars PROVE RecordInv' OBVIOUS
  <2>1. ASSUME measurements' = <<>>, phase' \in {"idle", "noise"} PROVE RecordInv'
    BY <2>1, NothingMeasured DEF RecordInv
  <2>2. ASSUME UNCHANGED <<page, phase, measurements, csv>> PROVE RecordInv'
    BY <2>2 DEF RecordInv
  <2>3. CASE Start BY <2>1, <2>3 DEF Start
  <2>4. CASE Abandon BY <2>1, <2>4 DEF Abandon, Dropped
  <2>5. CASE Repeat
    <3>1. \/ UNCHANGED <<page, phase, measurements, csv>>
          \/ Dropped
          \/ phase' = "fit" /\ UNCHANGED measurements
      BY <2>5 DEF Repeat
    <3>2. CASE Dropped BY <2>1, <3>2 DEF Dropped
    <3>3. CASE phase' = "fit" /\ UNCHANGED measurements BY <3>3 DEF RecordInv
    <3> QED BY <2>2, <3>1, <3>2, <3>3
  <2>6. CASE MeasureFit BY <2>6, MeasureStep DEF MeasureFit
  <2>7. CASE MeasureVal BY <2>7, MeasureStep DEF MeasureVal
  <2>8. CASE Commit
    <3>1. page' \in run_page(measurements) /\ phase' = "val" /\ UNCHANGED measurements
      BY <2>8 DEF Commit
    <3> QED BY <3>1, OnePage DEF RecordInv
  <2>9. CASE CommitFails BY <2>1, <2>9 DEF CommitFails, Dropped
  <2>10. CASE WriteCsv BY <2>10 DEF WriteCsv, RecordInv
  <2>11. CASE WriteJson BY <2>1, <2>11 DEF WriteJson
  <2>12. CASE Slip BY <2>2, <2>12 DEF Slip
  <2>13. CASE Reseat BY <2>2, <2>13 DEF Reseat
  <2>14. CASE UNCHANGED station_vars BY <2>2, <2>14 DEF station_vars
  <2> QED BY <2>3, <2>4, <2>5, <2>6, <2>7, <2>8, <2>9, <2>10, <2>11, <2>12, <2>13, <2>14
          DEF StationNext
<1> QED BY <1>1, <1>2, PTL DEF StationSpec

\* Section 9.7: whatever fit, units and positions, and however many runs were
\* given up before, kercal fit draws from the record the page that is in the unit,
\* and the very report.  (run_calibration, write_records, cmd_fit)
THEOREM RecordsTellTheUnit == StationSpec => RecordTellsUnit
<1>1. ASSUME RecordInv, [StationNext]_station_vars
      PROVE  [json' # json => /\ cmd_fit(csv).page = {page}
                              /\ json' = {cmd_fit(csv).report}]_station_vars
  <2> SUFFICES ASSUME json' # json
               PROVE  /\ cmd_fit(csv).page = {page}
                      /\ json' = {cmd_fit(csv).report}
    OBVIOUS
  <2>1. WriteJson
    BY <1>1 DEF StationNext, station_vars, Start, Abandon, Dropped, Repeat,
         MeasureFit, MeasureVal, Measure, Commit, CommitFails,
         WriteCsv, Slip, Reseat
  <2>2. phase = "json" /\ json' = {report(measurements)} BY <2>1 DEF WriteJson
  <2>3. /\ run_page(measurements) = {page} /\ csv = to_csv(measurements)
        /\ AreRows(measurements)
    BY <1>1, <2>2 DEF RecordInv
  <2>4. from_csv(csv) = measurements BY <2>3, RecordIsRead
  <2> QED BY <2>2, <2>3, <2>4 DEF cmd_fit
<1> QED BY <1>1, RecordInvariant, PTL DEF StationSpec, RecordTellsUnit
=============================================================================
