----------------------------- MODULE FloatAngle -----------------------------
(***************************************************************************)
(* One joint angle from the sensor's code to the M5's sum: the encoder     *)
(* compensates the 15-bit code in integers (ker_comp.c), the M5 makes      *)
(* degrees of the 21-bit payload and adds up their differences in float32. *)
(* The unit of every angle is 2^-18 degree, so that 1 LSB of the payload   *)
(* is 45 units, every float32 that occurs is an integer, and rounding to   *)
(* float32 is rounding to a multiple of 1, 2, 4 or 8.                      *)
(***************************************************************************)
EXTENDS Integers

CONSTANTS ker_sinq,     \* the quarter-wave table, indexed from 0
          Cal,          \* the page: n, amp and phase
          Codes,        \* sensor codes the joint passes
          Frames        \* bound: frames of a run

DEG == 262144                \* one degree in units
TURN == 360 * DEG
NHARM_MAX == 6
SEGS == 128
SHIFT == 128                 \* codes in a segment: 2^KER_SIN_SHIFT

\* The largest interpolation product, over the whole table.
INTERP(step) == step * (SHIFT - 1) + SHIFT \div 2

\* gen_sinq.py asserts that the table does not decrease; ker_comp.c, that the
\* product fits 16 bits.
ASSUME SineAssumption ==
  /\ \A i \in 0 .. SEGS + 1 : ker_sinq[i] \in Nat /\ ker_sinq[i] <= 32767
  /\ \A i \in 0 .. SEGS : LET step == ker_sinq[i + 1] - ker_sinq[i]
                          IN  step >= 0 /\ INTERP(step) <= 65535

ASSUME FloatAssumption ==
  /\ Cal.n \in 0 .. NHARM_MAX
  /\ \A k \in 1 .. Cal.n : Cal.amp[k] \in Int /\ Cal.phase[k] \in Nat
  /\ \A code \in Codes : code \in Nat /\ code < 32768
  /\ Frames \in Nat

VARIABLES
  raw15, suspended,             \* encoder: the code, and whether the page is in force
  inverted,                     \* M5: ENCODER_CONFIG[i].invert of the joint at hand
  jig,                          \* M5: jig_angle_offsets[i]
  last_raw, unwrapped, inited,  \* M5: AngleProcessor
  exact,     \* history: the sum of the same readings without rounding
  on_grid,   \* history: jig and every reading since reset are compensated
  steady,    \* history: every reading since reset is compensated
  frames

vars == <<raw15, suspended, inverted, jig, last_raw, unwrapped, inited, exact, on_grid, steady, frames>>

-----------------------------------------------------------------------------
(* Encoder                                                                 *)

\* The product taken for a signed 16-bit number, and taken as it is.
AsSigned(p) == IF p < 32768 THEN p ELSE p - 65536
AsUnsigned(p) == p

\* Between entry i of the table and the next, with 16-bit products.
Interpolated(i, frac) ==
  LET p == ((ker_sinq[i + 1] - ker_sinq[i]) * frac + SHIFT \div 2) % 65536
  IN  ker_sinq[i] + AsUnsigned(p) \div SHIFT

\* The second and the fourth quarter run backwards, the lower half is negative.
sin_q15(a) ==
  LET quad == a \div 16384
      x == IF quad % 2 = 1 THEN 16384 - (a % 16384) ELSE a % 16384
      v == Interpolated(x \div SHIFT, x % SHIFT)
  IN  IF quad >= 2 THEN -v ELSE v

\* k times the angle, and the k-th term of the series, in 1/128 LSB.
Arg(code, k) == (2 * k * code + Cal.phase[k]) % 65536
Term(code, k) ==
  IF k \in 1 .. Cal.n THEN (Cal.amp[k] * sin_q15(Arg(code, k))) \div 256 ELSE 0

Acc(code) ==
  Term(code, 1) + Term(code, 2) + Term(code, 3) + Term(code, 4) + Term(code, 5) + Term(code, 6)

\* To a whole LSB, as the fifth revision of the protocol did; and to 8 LSB.
ToOne(acc) == (acc + 64) \div 128
ToEight(acc) == ((acc + 512) \div 1024) * 8

\* Upstream's base: the code's upper bits once more below it.
upstream(code) == 64 * code + code \div 512
Scaled(code) == 64 * code

ker_compensate(code) ==
  IF Cal.n = 0 THEN upstream(code) ELSE (Scaled(code) + ToEight(Acc(code))) % 2097152

\* The payload, with the page in force or suspended.
Payload(code, off) == IF off THEN upstream(code) ELSE ker_compensate(code)

-----------------------------------------------------------------------------
(* M5                                                                      *)

Abs(x) == IF x < 0 THEN -x ELSE x

\* The distance between float32 numbers as large as x, below 512 degrees.
Ulp(x) == IF Abs(x) < 16777216 THEN 1
          ELSE IF Abs(x) < 33554432 THEN 2
          ELSE IF Abs(x) < 67108864 THEN 4
          ELSE 8

\* Round to nearest, ties to even.
F32(x) ==
  LET g == Ulp(x)
      q == x \div g
      r == 2 * (x % g)
  IN  IF r < g THEN q * g
      ELSE IF r > g THEN (q + 1) * g
      ELSE (q + (q % 2)) * g

\* (raw / (float)(1 << 21)) * 360.0f, inverted where the joint is.
raw_deg32(u) ==
  LET r == F32(45 * u) IN IF inverted THEN F32(TURN - r) ELSE r

\* One turn less or more, of the first difference and of the later ones.
First(d) == IF d > TURN \div 2 THEN d - TURN
            ELSE IF d <= -(TURN \div 2) THEN d + TURN ELSE d
Wrapped(d) == IF d > TURN \div 2 THEN d - TURN
              ELSE IF d < -(TURN \div 2) THEN d + TURN ELSE d

\* Jig offsets that a zeroing can have stored, then or now.
Readings == {raw_deg32(Payload(c, off)) : c \in Codes, off \in BOOLEAN}
Compensated == {raw_deg32(Payload(c, FALSE)) : c \in Codes}
Grid(j) == Cal.n # 0 /\ j \in Compensated

Init ==
  /\ raw15 \in Codes /\ suspended = FALSE
  /\ inverted \in BOOLEAN /\ jig \in Readings
  /\ last_raw = 0 /\ unwrapped = 0 /\ inited = FALSE
  /\ exact = 0 /\ on_grid = FALSE /\ steady = FALSE
  /\ frames = 0

FirstFrame(deg, clean) ==
  /\ ~inited /\ inited' = TRUE
  /\ unwrapped' = F32(First(F32(deg - jig)))
  /\ exact' = First(deg - jig)
  /\ on_grid' = (clean /\ Grid(jig)) /\ steady' = clean

NextFrame(deg, clean) ==
  /\ inited /\ UNCHANGED inited
  /\ unwrapped' = F32(unwrapped + F32(Wrapped(F32(deg - last_raw))))
  /\ exact' = exact + Wrapped(deg - last_raw)
  /\ on_grid' = (on_grid /\ clean) /\ steady' = (steady /\ clean)

\* The joint moves, the encoder answers, the M5 processes the answer.
Frame(code) ==
  LET deg == raw_deg32(Payload(code, suspended))
      clean == Cal.n # 0 /\ ~suspended
  IN
  /\ frames < Frames /\ frames' = frames + 1
  /\ raw15' = code /\ last_raw' = deg
  /\ FirstFrame(deg, clean) \/ NextFrame(deg, clean)
  /\ Abs(exact') <= 510 * DEG
  /\ UNCHANGED <<suspended, inverted, jig>>

\* A health fault suspends compensation; its end resumes it.
Suspend == /\ suspended' = ~suspended
           /\ UNCHANGED <<raw15, inverted, jig, last_raw, unwrapped, inited, exact, on_grid, steady, frames>>

\* The M5 stores the reading of the last frame and starts over.
Zero ==
  /\ inited
  /\ jig' = last_raw
  /\ last_raw' = 0 /\ unwrapped' = 0 /\ inited' = FALSE
  /\ exact' = 0 /\ on_grid' = FALSE /\ steady' = FALSE
  /\ UNCHANGED <<raw15, suspended, inverted, frames>>

Next == (\E code \in Codes : Frame(code)) \/ Suspend \/ Zero

Spec == Init /\ [][Next]_vars

-----------------------------------------------------------------------------
(* Safety                                                                  *)

\* Between two entries of the table the sine lies between them: the 16-bit
\* product never overflows.  (ker_sin_q15)
SineBetween ==
  \A k \in 1 .. Cal.n :
    LET a == Arg(raw15, k)
        x == IF (a \div 16384) % 2 = 1 THEN 16384 - (a % 16384) ELSE a % 16384
        s == Abs(sin_q15(a))
    IN  ker_sinq[x \div SHIFT] <= s /\ s <= ker_sinq[x \div SHIFT + 1]

\* Section 7.1: as long as the jig offset and all readings since are those of
\* the page, the M5's float32 sum is exact, in either direction and as far
\* as sums are followed (510 degrees).  (ker_compensate, AngleProcessor::process)
ExactOnGrid == on_grid => unwrapped = exact

\* With a jig offset from before the page was there, or while it was suspended,
\* the sum is off by 5 units (0.00002 degree) at most, however many readings
\* follow within 510 degrees: half the coarsest step of a float32 there is, and
\* one more where the sum had been rounded to a finer step before.  Whole turns
\* are left out: they are AngleUnwrap's.  (AngleProcessor::process)
Drift == ((unwrapped - exact + TURN \div 2) % TURN) - TURN \div 2
SteadyDrift == steady => Abs(Drift) <= 5
=============================================================================
