-------------------------- MODULE FloatAngleProofs --------------------------
(***************************************************************************)
(* Theorems about FloatAngle, for every table that passes the assertions   *)
(* of the build, every page, every set of codes and any number of frames.  *)
(***************************************************************************)
EXTENDS FloatAngle, TLAPS

----------------------------------------------------------------------------
(* The sine table                                                          *)

LEMMA Product ==
  ASSUME NEW step \in Nat, NEW frac \in 0 .. 127
  PROVE  step * frac \in 0 .. step * 127
<1>1. step * (127 - frac) >= 0 /\ step * frac >= 0
  BY SMT
<1>2. step * (127 - frac) = step * 127 - step * frac
  BY SMT
<1> QED BY <1>1, <1>2, SMT

\* Within a segment the interpolation stays between its ends.
LEMMA InterpolatedBetween ==
  ASSUME NEW i \in 0 .. SEGS, NEW frac \in 0 .. SHIFT - 1
  PROVE  /\ Interpolated(i, frac) \in Int
         /\ ker_sinq[i] <= Interpolated(i, frac)
         /\ Interpolated(i, frac) <= ker_sinq[i + 1]
<1> DEFINE step == ker_sinq[i + 1] - ker_sinq[i]
           p == step * frac + 64
<1>1. ker_sinq[i] \in Nat /\ ker_sinq[i + 1] \in Nat
  BY SineAssumption, SMT DEF SEGS
<1>2. step \in Nat /\ step * 127 + 64 <= 65535
  BY SineAssumption, <1>1, SMT DEF INTERP, SHIFT, SEGS
<1>3. step * frac \in 0 .. step * 127
  BY <1>2, Product, SMT DEF SHIFT
<1>4. Interpolated(i, frac) = ker_sinq[i] + (p % 65536) \div 128
  BY SMT DEF Interpolated, AsUnsigned, SHIFT
<1>5. p % 65536 = p /\ p \in 64 .. step * 127 + 64
  <2> HIDE DEF step
  <2> QED BY <1>2, <1>3, SMT
<1>6. p \div 128 \in 0 .. step
  <2> HIDE DEF p, step
  <2> QED BY <1>2, <1>5, SMT
<1>7. ker_sinq[i] + step = ker_sinq[i + 1]
  BY <1>1, SMT
<1> HIDE DEF p, step
<1> QED BY <1>1, <1>2, <1>4, <1>5, <1>6, <1>7, SMT

\* The code in its quarter of the circle, for a quarter that runs backwards
\* and for one that does not.
Folded(a) == IF (a \div 16384) % 2 = 1 THEN 16384 - (a % 16384) ELSE a % 16384

LEMMA FoldedSegment ==
  ASSUME NEW a \in Nat, a < 65536
  PROVE  /\ Folded(a) \div SHIFT \in 0 .. SEGS
         /\ Folded(a) % SHIFT \in 0 .. SHIFT - 1
<1>1. Folded(a) \in Nat /\ Folded(a) <= 16384
  BY SMT DEF Folded
<1> QED BY <1>1, SMT DEF SHIFT, SEGS

\* ker_sin_q15: with a table that passes the static assertion the 16-bit
\* product never overflows, and every sine lies between its two neighbours in
\* the table.
THEOREM SineIsBetween ==
  ASSUME NEW a \in Nat, a < 65536
  PROVE  /\ sin_q15(a) \in Int
         /\ ker_sinq[Folded(a) \div SHIFT] <= Abs(sin_q15(a))
         /\ Abs(sin_q15(a)) <= ker_sinq[Folded(a) \div SHIFT + 1]
<1> DEFINE i == Folded(a) \div SHIFT
           v == Interpolated(i, Folded(a) % SHIFT)
<1>1. i \in 0 .. SEGS /\ Folded(a) % SHIFT \in 0 .. SHIFT - 1
  BY FoldedSegment
<1>2. v \in Int /\ ker_sinq[i] <= v /\ v <= ker_sinq[i + 1]
  BY <1>1, InterpolatedBetween
<1>3. ker_sinq[i] \in Nat /\ ker_sinq[i + 1] \in Nat
  BY <1>1, SineAssumption, SMT DEF SEGS
<1>4. sin_q15(a) = IF a \div 16384 >= 2 THEN -v ELSE v
  BY SMT DEF sin_q15, Folded
<1> HIDE DEF v, i
<1>5. sin_q15(a) \in Int /\ Abs(sin_q15(a)) = v
  BY <1>2, <1>3, <1>4, SMT DEF Abs
<1> QED BY <1>2, <1>5 DEF i

LEMMA ArgRange ==
  ASSUME NEW code \in Codes, NEW k \in 1 .. Cal.n
  PROVE  Arg(code, k) \in Nat /\ Arg(code, k) < 65536
<1>1. code \in Int /\ Cal.phase[k] \in Int /\ k \in Int
  BY FloatAssumption, SMT
<1>2. 2 * k * code \in Int
  BY <1>1, SMT
<1> DEFINE s == 2 * k * code + Cal.phase[k]
<1>3. s \in Int /\ Arg(code, k) = s % 65536
  BY <1>1, <1>2, SMT DEF Arg
<1> HIDE DEF s
<1> QED BY <1>3, SMT

----------------------------------------------------------------------------
(* The grid of 8 LSB                                                       *)

OnEight(x) == x \in Int /\ x % 8 = 0

LEMMA TermType ==
  ASSUME NEW code \in Codes, NEW k \in 1 .. 6
  PROVE  Term(code, k) \in Int
<1>1. CASE k \in 1 .. Cal.n
  <2>1. Cal.amp[k] \in Int
    BY <1>1, FloatAssumption, SMT
  <2>2. sin_q15(Arg(code, k)) \in Int
    BY <1>1, ArgRange, SineIsBetween, SMT
  <2> DEFINE t == Cal.amp[k] * sin_q15(Arg(code, k))
  <2>3. t \in Int
    BY <2>1, <2>2
  <2>4. Term(code, k) = t \div 256
    BY <1>1 DEF Term
  <2> HIDE DEF t
  <2> QED BY <2>3, <2>4
<1>2. CASE ~(k \in 1 .. Cal.n)
  BY <1>2 DEF Term
<1> QED BY <1>1, <1>2

LEMMA AccType == ASSUME NEW code \in Codes PROVE Acc(code) \in Int
<1>1. /\ Term(code, 1) \in Int /\ Term(code, 2) \in Int /\ Term(code, 3) \in Int
      /\ Term(code, 4) \in Int /\ Term(code, 5) \in Int /\ Term(code, 6) \in Int
  BY TermType
<1> QED BY <1>1 DEF Acc

\* ker_compensate: the payload of a calibrated module is a multiple of 8 LSB
\* within 21 bits, for every code and every page.
THEOREM PayloadOnGrid ==
  ASSUME NEW code \in Codes, Cal.n # 0
  PROVE  /\ ker_compensate(code) \in Nat /\ ker_compensate(code) < 2097152
         /\ ker_compensate(code) % 8 = 0
<1> DEFINE q == (Acc(code) + 512) \div 1024
           s == 64 * code + 8 * q
<1>1. q \in Int /\ code \in Int /\ s \in Int
  BY AccType, FloatAssumption, SMT
<1>2. ker_compensate(code) = s % 2097152
  <2>1. ToEight(Acc(code)) = 8 * q
    BY <1>1, SMT DEF ToEight
  <2> QED BY <2>1, <1>1, SMT DEF ker_compensate, Scaled
<1> HIDE DEF q
<1>3. s % 8 = 0
  BY <1>1, SMT
<1> HIDE DEF s
<1>4. s % 2097152 \in Nat /\ s % 2097152 < 2097152 /\ (s % 2097152) % 8 = 0
  BY <1>1, <1>3, SMT
<1> QED BY <1>2, <1>4, SMT

\* Numbers on the grid are float32 numbers.
LEMMA GridIsFloat ==
  ASSUME NEW x, OnEight(x)
  PROVE  F32(x) = x
<1>1. Ulp(x) \in {1, 2, 4, 8} /\ x \in Int
  BY SMT DEF Ulp, OnEight
<1>2. x % Ulp(x) = 0 /\ (x \div Ulp(x)) * Ulp(x) = x
  <2>1. CASE Ulp(x) = 1
    BY <1>1, <2>1
  <2>2. CASE Ulp(x) = 2
    BY <1>1, <2>2 DEF OnEight
  <2>3. CASE Ulp(x) = 4
    BY <1>1, <2>3 DEF OnEight
  <2>4. CASE Ulp(x) = 8
    BY <1>1, <2>4 DEF OnEight
  <2> QED BY <1>1, <2>1, <2>2, <2>3, <2>4
<1> QED BY <1>1, <1>2 DEF F32

LEMMA GridSums ==
  ASSUME NEW x, NEW y, OnEight(x), OnEight(y)
  PROVE  OnEight(x + y) /\ OnEight(x - y)
BY DEF OnEight

LEMMA TurnOnGrid == OnEight(TURN) /\ TURN = 94371840
BY SMT DEF OnEight, TURN, DEG

LEMMA FirstOnGrid ==
  ASSUME NEW d, OnEight(d)
  PROVE  OnEight(First(d)) /\ OnEight(Wrapped(d))
<1>1. First(d) \in {d, d - TURN, d + TURN} /\ Wrapped(d) \in {d, d - TURN, d + TURN}
  BY SMT DEF First, Wrapped
<1>2. OnEight(d - TURN) /\ OnEight(d + TURN)
  BY GridSums, TurnOnGrid
<1> QED BY <1>1, <1>2

LEMMA ReadingOnGrid ==
  ASSUME NEW code \in Codes, Cal.n # 0
  PROVE  OnEight(raw_deg32(Payload(code, FALSE)))
<1> DEFINE u == ker_compensate(code)
<1>1. u \in Int /\ u % 8 = 0
  BY PayloadOnGrid, SMT
<1>2. OnEight(45 * u)
  BY <1>1 DEF OnEight
<1>3. F32(45 * u) = 45 * u
  BY <1>2, GridIsFloat
<1>4. OnEight(TURN - 45 * u) /\ F32(TURN - 45 * u) = TURN - 45 * u
  BY <1>2, GridSums, GridIsFloat, TurnOnGrid
<1>5. Payload(code, FALSE) = u
  BY DEF Payload
<1> HIDE DEF u
<1> QED BY <1>2, <1>3, <1>4, <1>5 DEF raw_deg32

----------------------------------------------------------------------------
(* The sum                                                                 *)

\* On the grid everything the M5 holds is on it, and the sum is the exact one.
IInv ==
  /\ raw15 \in Codes
  /\ on_grid => inited /\ OnEight(last_raw) /\ OnEight(unwrapped) /\ unwrapped = exact

LEMMA GridFirst ==
  ASSUME NEW deg, OnEight(deg), OnEight(jig)
  PROVE  /\ OnEight(F32(First(F32(deg - jig))))
         /\ F32(First(F32(deg - jig))) = First(deg - jig)
<1>1. OnEight(deg - jig) /\ F32(deg - jig) = deg - jig
  BY GridSums, GridIsFloat
<1>2. OnEight(First(deg - jig))
  BY <1>1, FirstOnGrid
<1> QED BY <1>1, <1>2, GridIsFloat

LEMMA GridNext ==
  ASSUME NEW deg, OnEight(deg), OnEight(last_raw), OnEight(unwrapped)
  PROVE  LET diff == F32(Wrapped(F32(deg - last_raw)))
         IN  /\ OnEight(F32(unwrapped + diff))
             /\ F32(unwrapped + diff) = unwrapped + Wrapped(deg - last_raw)
<1>1. OnEight(deg - last_raw) /\ F32(deg - last_raw) = deg - last_raw
  BY GridSums, GridIsFloat
<1>2. OnEight(Wrapped(deg - last_raw))
  BY <1>1, FirstOnGrid
<1>3. F32(Wrapped(F32(deg - last_raw))) = Wrapped(deg - last_raw)
  BY <1>1, <1>2, GridIsFloat
<1>4. OnEight(unwrapped + Wrapped(deg - last_raw))
  BY <1>2, GridSums
<1> QED BY <1>3, <1>4, GridIsFloat

LEMMA FrameStep == ASSUME IInv, NEW code \in Codes, Frame(code) PROVE IInv'
<1> DEFINE deg == raw_deg32(Payload(code, suspended))
           clean == Cal.n # 0 /\ ~suspended
<1>1. raw15' = code /\ last_raw' = deg
  BY DEF Frame
<1>2. clean => OnEight(deg)
  <2> SUFFICES ASSUME clean PROVE OnEight(deg)
    OBVIOUS
  <2>1. Payload(code, suspended) = Payload(code, FALSE)
    BY DEF Payload
  <2> QED BY <2>1, ReadingOnGrid
<1>3. CASE FirstFrame(deg, clean)
  <2> SUFFICES ASSUME on_grid'
               PROVE  inited' /\ OnEight(deg) /\ OnEight(unwrapped') /\ unwrapped' = exact'
    BY <1>1 DEF IInv
  <2>1. clean /\ Grid(jig)
    BY <1>3 DEF FirstFrame
  <2>2. OnEight(jig)
    <3>1. PICK c \in Codes : jig = raw_deg32(Payload(c, FALSE))
      BY <2>1 DEF Grid, Compensated
    <3> QED BY <3>1, <2>1, ReadingOnGrid
  <2>3. OnEight(deg)
    BY <2>1, <1>2
  <2> HIDE DEF deg, clean
  <2> QED BY <1>3, <2>2, <2>3, GridFirst DEF FirstFrame
<1>4. CASE NextFrame(deg, clean)
  <2> SUFFICES ASSUME on_grid'
               PROVE  inited' /\ OnEight(deg) /\ OnEight(unwrapped') /\ unwrapped' = exact'
    BY <1>1 DEF IInv
  <2>1. clean /\ on_grid /\ inited /\ inited'
    BY <1>4 DEF NextFrame
  <2>2. OnEight(last_raw) /\ OnEight(unwrapped) /\ unwrapped = exact
    BY <2>1 DEF IInv
  <2>3. OnEight(deg)
    BY <2>1, <1>2
  <2> HIDE DEF deg, clean
  <2> QED BY <1>4, <2>1, <2>2, <2>3, GridNext DEF NextFrame
<1> QED BY <1>3, <1>4 DEF Frame

LEMMA Invariance == Spec => []IInv
<1>1. Init => IInv
  BY DEF Init, IInv
<1>2. IInv /\ [Next]_vars => IInv'
  <2> SUFFICES ASSUME IInv, [Next]_vars PROVE IInv'
    OBVIOUS
  <2>1. ASSUME NEW code \in Codes, Frame(code) PROVE IInv'
    BY <2>1, FrameStep
  <2>2. CASE Suspend
    BY <2>2 DEF Suspend, IInv, OnEight
  <2>3. CASE Zero
    BY <2>3 DEF Zero, IInv, OnEight
  <2>4. CASE UNCHANGED vars
    BY <2>4 DEF vars, IInv, OnEight
  <2> QED BY <2>1, <2>2, <2>3, <2>4 DEF Next
<1> QED BY <1>1, <1>2, PTL DEF Spec

\* Decision D22 of the protocol: a joint whose jig offset and readings are
\* compensated is summed exactly, for every page and every number of frames.
THEOREM SumsAreExact == Spec => []ExactOnGrid
<1>1. IInv => ExactOnGrid
  BY DEF IInv, ExactOnGrid
<1> QED BY <1>1, Invariance, PTL

\* The interpolation never overflows at an angle the encoder looks up.
THEOREM LookupsAreBetween == Spec => []SineBetween
<1>1. IInv => SineBetween
  <2> SUFFICES ASSUME IInv, NEW k \in 1 .. Cal.n
               PROVE  /\ ker_sinq[Folded(Arg(raw15, k)) \div SHIFT] <= Abs(sin_q15(Arg(raw15, k)))
                      /\ Abs(sin_q15(Arg(raw15, k))) <= ker_sinq[Folded(Arg(raw15, k)) \div SHIFT + 1]
    BY SMT DEF SineBetween, Folded
  <2> QED BY ArgRange, SineIsBetween, SMT DEF IInv
<1> QED BY <1>1, Invariance, PTL
----------------------------------------------------------------------------
(* The sum off the grid                                                    *)

\* How far a sum may be off, by its remainder: one that is between multiples of 4
\* has not been rounded yet, one on 8 units is never rounded again, and only an
\* odd one is ever rounded twice.
Allowed(x, r) ==
  /\ r \in Int
  /\ IF x % 8 = 0 THEN -5 <= r /\ r <= 5
     ELSE IF x % 8 = 4 THEN -1 <= r /\ r <= 1
     ELSE r = 0

\* What rounding to any of the four steps does to a number between the grid's.
Rounded(x, y) ==
  /\ y \in Int
  /\ \/ y = x
     \/ x % 8 # 0 /\ y % 8 = 0 /\ -4 <= y - x /\ y - x <= 4
     \/ x % 8 \in {3, 5} /\ y % 8 = 4 /\ -1 <= y - x /\ y - x <= 1

LEMMA ByTwo ==
  ASSUME NEW q \in Int, NEW c \in {0, 1}, NEW y, NEW x, x = 2 * q + c,
         y = IF c = 0 THEN 2 * q ELSE 2 * (q + (q % 2))
  PROVE  Rounded(x, y)
<1>1. CASE c = 0 BY <1>1, SMT DEF Rounded
<1>2. CASE c = 1
  <2>1. PICK m \in Int, b \in {0, 1, 2, 3} : q = 4 * m + b
    <3>1. q = 4 * (q \div 4) + (q % 4) /\ q \div 4 \in Int /\ q % 4 \in {0, 1, 2, 3} BY SMT
    <3> QED BY <3>1
  <2>2. q % 2 = b % 2 /\ x = 8 * m + 2 * b + 1 BY <1>2, <2>1, SMT
  <2>3. x % 8 = 2 * b + 1 BY <2>1, <2>2, SMT
  <2>4. y = 8 * m + 2 * (b + (b % 2)) BY <1>2, <2>1, <2>2, SMT
  <2>5. CASE b = 0 BY <2>1, <2>2, <2>3, <2>4, <2>5, SMT DEF Rounded
  <2>6. CASE b = 1 BY <2>1, <2>2, <2>3, <2>4, <2>6, SMT DEF Rounded
  <2>7. CASE b = 2 BY <2>1, <2>2, <2>3, <2>4, <2>7, SMT DEF Rounded
  <2>8. CASE b = 3 BY <2>1, <2>2, <2>3, <2>4, <2>8, SMT DEF Rounded
  <2> QED BY <2>1, <2>5, <2>6, <2>7, <2>8
<1> QED BY <1>1, <1>2

LEMMA ByFour ==
  ASSUME NEW q \in Int, NEW c \in 0 .. 3, NEW y, NEW x, x = 4 * q + c,
         y = IF c < 2 THEN 4 * q ELSE IF c > 2 THEN 4 * q + 4 ELSE 4 * (q + (q % 2))
  PROVE  Rounded(x, y)
<1>1. PICK m \in Int, b \in {0, 1} : q = 2 * m + b
  <2>1. q = 2 * (q \div 2) + (q % 2) /\ q \div 2 \in Int /\ q % 2 \in {0, 1} BY SMT
  <2> QED BY <2>1
<1>2. q % 2 = b /\ x = 8 * m + 4 * b + c BY <1>1, SMT
<1>3. x % 8 = 4 * b + c BY <1>1, <1>2, SMT
<1>4. y = 8 * m + (IF c < 2 THEN 4 * b ELSE IF c > 2 THEN 4 * b + 4 ELSE 8 * b)
  BY <1>1, <1>2, SMT
<1>5. CASE b = 0 BY <1>1, <1>2, <1>3, <1>4, <1>5, SMT DEF Rounded
<1>6. CASE b = 1 BY <1>1, <1>2, <1>3, <1>4, <1>6, SMT DEF Rounded
<1> QED BY <1>1, <1>5, <1>6

LEMMA ByEight ==
  ASSUME NEW q \in Int, NEW c \in 0 .. 7, NEW y, NEW x, x = 8 * q + c,
         y = IF c < 4 THEN 8 * q ELSE IF c > 4 THEN 8 * q + 8 ELSE 8 * (q + (q % 2))
  PROVE  Rounded(x, y)
<1>1. x % 8 = c BY SMT
<1>2. y % 8 = 0 /\ y \in Int BY SMT
<1>3. -4 <= y - x /\ y - x <= 4 BY SMT
<1>4. c = 0 => y = x BY SMT
<1> QED BY <1>1, <1>2, <1>3, <1>4 DEF Rounded

LEMMA RoundedTo ==
  ASSUME NEW x \in Int
  PROVE  F32(x) \in Int /\ Rounded(x, F32(x))
<1> DEFINE g == Ulp(x)
           q == x \div g
           r == 2 * (x % g)
<1>1. g \in {1, 2, 4, 8} BY SMT DEF Ulp
<1>2. PICK y : y = F32(x) OBVIOUS
<1>3. y = IF r < g THEN q * g ELSE IF r > g THEN (q + 1) * g ELSE (q + (q % 2)) * g
  BY <1>2 DEF F32
<1>4. CASE g = 1
  <2>1. q = x /\ r = 0 BY <1>4, SMT
  <2> QED BY <1>2, <1>3, <1>4, <2>1, SMT DEF Rounded
<1>5. CASE g = 2
  <2>1. PICK n, c : n = x \div 2 /\ c = x % 2 OBVIOUS
  <2>2. n \in Int /\ c \in {0, 1} /\ x = 2 * n + c BY <2>1, SMT
  <2>3. y = IF c = 0 THEN 2 * n ELSE 2 * (n + (n % 2)) BY <1>3, <1>5, <2>1, <2>2, SMT
  <2> QED BY <1>2, <2>2, <2>3, ByTwo DEF Rounded
<1>6. CASE g = 4
  <2>1. PICK n, c : n = x \div 4 /\ c = x % 4 OBVIOUS
  <2>2. n \in Int /\ c \in 0 .. 3 /\ x = 4 * n + c BY <2>1, SMT
  <2>3. y = IF c < 2 THEN 4 * n ELSE IF c > 2 THEN 4 * n + 4 ELSE 4 * (n + (n % 2))
    BY <1>3, <1>6, <2>1, <2>2, SMT
  <2> QED BY <1>2, <2>2, <2>3, ByFour DEF Rounded
<1>7. CASE g = 8
  <2>1. PICK n, c : n = x \div 8 /\ c = x % 8 OBVIOUS
  <2>2. n \in Int /\ c \in 0 .. 7 /\ x = 8 * n + c BY <2>1, SMT
  <2>3. y = IF c < 4 THEN 8 * n ELSE IF c > 4 THEN 8 * n + 8 ELSE 8 * (n + (n % 2))
    BY <1>3, <1>7, <2>1, <2>2, SMT
  <2> QED BY <1>2, <2>2, <2>3, ByEight DEF Rounded
<1> QED BY <1>1, <1>4, <1>5, <1>6, <1>7

\* Rounding a sum adds what it may and no more.
LEMMA RoundingAllowed ==
  ASSUME NEW x \in Int, NEW r, Allowed(x, r)
  PROVE  F32(x) \in Int /\ Allowed(F32(x), r + (F32(x) - x))
<1>1. PICK y : y = F32(x) OBVIOUS
<1>2. y \in Int /\ Rounded(x, y) BY <1>1, RoundedTo
<1>3. Allowed(y, r + (y - x)) BY <1>2, SMT DEF Allowed, Rounded
<1> QED BY <1>1, <1>2, <1>3

LEMMA AllowedOnGrid ==
  ASSUME NEW x \in Int, NEW r, Allowed(x, r), NEW m, OnEight(m)
  PROVE  x + m \in Int /\ Allowed(x + m, r)
<1>1. (x + m) % 8 = x % 8 /\ x + m \in Int BY SMT DEF OnEight
<1> QED BY <1>1 DEF Allowed

\* Off by r and by whole turns.
OffBy(x, e, r) == \E k \in Int : x - e = TURN * k + r

\* What the sum of readings on the grid is off by, whatever the jig offset.
DriftInv ==
  /\ jig \in Int /\ last_raw \in Int /\ exact \in Int /\ unwrapped \in Int
  /\ steady => /\ inited /\ OnEight(last_raw)
               /\ \E r \in Int : Allowed(unwrapped, r) /\ OffBy(unwrapped, exact, r)

LEMMA ReadingType ==
  ASSUME NEW code \in Codes, NEW off \in BOOLEAN
  PROVE  raw_deg32(Payload(code, off)) \in Int
<1>1. upstream(code) \in Int BY FloatAssumption, SMT DEF upstream
<1>2. ker_compensate(code) \in Int
  <2>1. CASE Cal.n = 0 BY <1>1, <2>1 DEF ker_compensate
  <2>2. CASE Cal.n # 0 BY <2>2, PayloadOnGrid, SMT
  <2> QED BY <2>1, <2>2
<1>3. PICK u \in Int : u = Payload(code, off) BY <1>1, <1>2 DEF Payload
<1>4. F32(45 * u) \in Int
  <2>1. 45 * u \in Int OBVIOUS
  <2> QED BY <2>1, RoundedTo
<1>5. TURN - F32(45 * u) \in Int BY <1>4, TurnOnGrid DEF OnEight
<1>6. F32(TURN - F32(45 * u)) \in Int BY <1>5, RoundedTo
<1> QED BY <1>3, <1>4, <1>6 DEF raw_deg32

\* The first difference and each later one lose no more than is allowed.
LEMMA DriftFirst ==
  ASSUME NEW d \in Int
  PROVE  LET x == F32(First(F32(d)))
         IN  /\ x \in Int /\ First(d) \in Int
             /\ \E r \in Int : Allowed(x, r) /\ OffBy(x, First(d), r)
<1>1. PICK f : f = F32(d) OBVIOUS
<1>2. Allowed(d, 0) BY SMT DEF Allowed
<1>3. f \in Int /\ Allowed(f, f - d)
  <2>1. F32(d) \in Int /\ Allowed(F32(d), 0 + (F32(d) - d)) BY <1>2, RoundingAllowed
  <2>2. 0 + (f - d) = f - d BY <1>1, <2>1
  <2> QED BY <1>1, <2>1, <2>2
<1>4. \A z \in Int : \E i \in {-1, 0, 1} : First(z) = z + TURN * i
  BY SMT DEF First, TURN, DEG
<1>5. PICK i \in {-1, 0, 1} : First(f) = f + TURN * i BY <1>3, <1>4
<1>6. PICK j \in {-1, 0, 1} : First(d) = d + TURN * j BY <1>4
<1>7. OnEight(TURN * i) BY SMT, TurnOnGrid DEF OnEight
<1>8. PICK a : a = First(f) OBVIOUS
<1>9. a \in Int /\ Allowed(a, f - d) BY <1>3, <1>5, <1>7, <1>8, AllowedOnGrid
<1>10. PICK x : x = F32(a) OBVIOUS
<1>11. x \in Int /\ Allowed(x, (f - d) + (x - a)) BY <1>9, <1>10, RoundingAllowed
<1>12. x - First(d) = TURN * (i - j) + ((f - d) + (x - a))
  BY <1>3, <1>5, <1>6, <1>8, <1>9, <1>11, TurnOnGrid, SMT
<1>13. (f - d) + (x - a) \in Int /\ i - j \in Int /\ First(d) \in Int
  BY <1>3, <1>6, <1>9, <1>11, TurnOnGrid, SMT
<1>14. OffBy(x, First(d), (f - d) + (x - a)) BY <1>12, <1>13 DEF OffBy
<1> QED BY <1>1, <1>8, <1>10, <1>11, <1>13, <1>14

LEMMA DriftNext ==
  ASSUME NEW deg, OnEight(deg), DriftInv, steady
  PROVE  LET w == Wrapped(deg - last_raw)
             x == F32(unwrapped + F32(Wrapped(F32(deg - last_raw))))
         IN  /\ x \in Int /\ exact + w \in Int
             /\ \E r \in Int : Allowed(x, r) /\ OffBy(x, exact + w, r)
<1>1. PICK w : w = Wrapped(deg - last_raw) OBVIOUS
<1>2. OnEight(w) /\ F32(Wrapped(F32(deg - last_raw))) = w
  <2>1. OnEight(deg - last_raw) /\ F32(deg - last_raw) = deg - last_raw
    BY GridSums, GridIsFloat DEF DriftInv
  <2>2. OnEight(w) BY <1>1, <2>1, FirstOnGrid
  <2> QED BY <1>1, <2>1, <2>2, GridIsFloat
<1>3. PICK r \in Int : Allowed(unwrapped, r) /\ OffBy(unwrapped, exact, r) BY DEF DriftInv
<1>4. unwrapped \in Int /\ exact \in Int /\ w \in Int BY <1>2 DEF DriftInv, OnEight
<1>5. PICK a : a = unwrapped + w OBVIOUS
<1>6. a \in Int /\ Allowed(a, r) BY <1>2, <1>3, <1>4, <1>5, AllowedOnGrid
<1>7. PICK x : x = F32(a) OBVIOUS
<1>8. x \in Int /\ Allowed(x, r + (x - a)) BY <1>6, <1>7, RoundingAllowed
<1>9. PICK k \in Int : unwrapped - exact = TURN * k + r BY <1>3 DEF OffBy
<1>10. x - (exact + w) = TURN * k + (r + (x - a))
  <2>1. PICK t \in Int : t = TURN * k BY TurnOnGrid
  <2>2. unwrapped - exact = t + r BY <1>9, <2>1
  <2>3. x - (exact + w) = t + (r + (x - a)) BY <1>4, <1>5, <1>8, <2>2, SMT
  <2> QED BY <2>1, <2>3
<1>11. r + (x - a) \in Int /\ exact + w \in Int BY <1>4, <1>6, <1>8
<1>12. OffBy(x, exact + w, r + (x - a)) BY <1>10 DEF OffBy
<1> QED BY <1>1, <1>2, <1>5, <1>7, <1>8, <1>11, <1>12

LEMMA DriftStep ==
  ASSUME DriftInv, NEW code \in Codes, suspended \in BOOLEAN, Frame(code)
  PROVE  DriftInv'
<1> DEFINE deg == raw_deg32(Payload(code, suspended))
           clean == Cal.n # 0 /\ ~suspended
<1>1. last_raw' = deg /\ jig' = jig /\ deg \in Int BY ReadingType DEF Frame
<1>2. clean => OnEight(deg)
  <2> SUFFICES ASSUME clean PROVE OnEight(deg) OBVIOUS
  <2>1. Payload(code, suspended) = Payload(code, FALSE) BY DEF Payload
  <2> QED BY <2>1, ReadingOnGrid
<1>3. FirstFrame(deg, clean) \/ NextFrame(deg, clean) BY DEF Frame
<1>4. jig \in Int /\ last_raw \in Int /\ exact \in Int /\ unwrapped \in Int BY DEF DriftInv
<1> HIDE DEF deg, clean
<1>5. CASE FirstFrame(deg, clean)
  <2>1. PICK d \in Int : d = deg - jig BY <1>1, <1>4
  <2>2. unwrapped' = F32(First(F32(d))) /\ exact' = First(d) /\ inited' /\ steady' = clean
    BY <1>5, <2>1 DEF FirstFrame
  <2>3. /\ unwrapped' \in Int /\ exact' \in Int
        /\ \E r \in Int : Allowed(unwrapped', r) /\ OffBy(unwrapped', exact', r)
    BY <2>2, DriftFirst
  <2> QED BY <1>1, <1>2, <1>4, <2>2, <2>3 DEF DriftInv, Allowed, OffBy, OnEight
<1>6. CASE NextFrame(deg, clean)
  <2> DEFINE w == Wrapped(deg - last_raw)
  <2>1. /\ unwrapped' = F32(unwrapped + F32(Wrapped(F32(deg - last_raw)))) /\ exact' = exact + w
        /\ inited' /\ steady' = (steady /\ clean)
    BY <1>6 DEF NextFrame
  <2>2. unwrapped' \in Int /\ exact' \in Int
    <3>1. \A z \in Int : Wrapped(z) \in Int BY SMT, TurnOnGrid DEF Wrapped
    <3>2. \A z \in Int : F32(z) \in Int BY RoundedTo
    <3>3. deg - last_raw \in Int BY <1>1, <1>4
    <3>4. F32(Wrapped(F32(deg - last_raw))) \in Int /\ w \in Int BY <3>1, <3>2, <3>3
    <3>5. unwrapped + F32(Wrapped(F32(deg - last_raw))) \in Int BY <1>4, <3>4
    <3> QED BY <1>4, <2>1, <3>2, <3>4, <3>5
  <2>3. steady' => \E r \in Int : Allowed(unwrapped', r) /\ OffBy(unwrapped', exact', r)
    <3> SUFFICES ASSUME steady'
                 PROVE  \E r \in Int : Allowed(unwrapped', r) /\ OffBy(unwrapped', exact', r)
      OBVIOUS
    <3>1. steady /\ OnEight(deg) BY <1>2, <2>1
    <3> QED BY <2>1, <3>1, DriftNext
  <2> QED BY <1>1, <1>2, <1>4, <2>1, <2>2, <2>3 DEF DriftInv, Allowed, OffBy, OnEight
<1> QED BY <1>3, <1>5, <1>6

\* A jig offset off the grid costs 5 units once and never more, for every page,
\* every set of codes, either direction and any number of frames.
THEOREM SumsStayClose == Spec => []SteadyDrift
<1>1. Init => DriftInv /\ suspended \in BOOLEAN
  <2> SUFFICES ASSUME Init PROVE DriftInv /\ suspended \in BOOLEAN OBVIOUS
  <2>1. jig \in Int
    <3>1. PICK c \in Codes, off \in BOOLEAN : jig = raw_deg32(Payload(c, off))
      BY DEF Init, Readings
    <3> QED BY <3>1, ReadingType
  <2>2. suspended = FALSE /\ ~steady BY DEF Init
  <2>3. last_raw \in Int /\ exact \in Int /\ unwrapped \in Int BY DEF Init
  <2> QED BY <2>1, <2>2, <2>3 DEF DriftInv
<1>2. DriftInv /\ suspended \in BOOLEAN /\ [Next]_vars => (DriftInv /\ suspended \in BOOLEAN)'
  <2> SUFFICES ASSUME DriftInv, suspended \in BOOLEAN, [Next]_vars
               PROVE  DriftInv' /\ suspended' \in BOOLEAN
    OBVIOUS
  <2>1. ASSUME NEW code \in Codes, Frame(code) PROVE DriftInv' /\ suspended' \in BOOLEAN
    <3>1. suspended' = suspended BY <2>1 DEF Frame
    <3> QED BY <2>1, <3>1, DriftStep
  <2>2. CASE Suspend BY <2>2 DEF Suspend, DriftInv, Allowed, OffBy, OnEight
  <2>3. CASE Zero BY <2>3 DEF Zero, DriftInv
  <2>4. CASE UNCHANGED vars BY <2>4 DEF vars, DriftInv, Allowed, OffBy, OnEight
  <2> QED BY <2>1, <2>2, <2>3, <2>4 DEF Next
<1>3. DriftInv => SteadyDrift
  <2> SUFFICES ASSUME DriftInv, steady PROVE Abs(Drift) <= 5 BY DEF SteadyDrift
  <2>1. PICK r \in Int, k \in Int : Allowed(unwrapped, r) /\ unwrapped - exact = TURN * k + r
    BY DEF DriftInv, OffBy
  <2>2. -5 <= r /\ r <= 5 BY <2>1 DEF Allowed
  <2>3. Drift = r
    <3>1. Drift = ((TURN * k + r + TURN \div 2) % TURN) - TURN \div 2 BY <2>1 DEF Drift
    <3>2. TURN \div 2 = 47185920 BY TurnOnGrid, SMT
    <3>3. (94371840 * k + r + 47185920) % 94371840 = r + 47185920 BY <2>2, SMT
    <3> QED BY <3>1, <3>2, <3>3, TurnOnGrid
  <2> QED BY <2>2, <2>3 DEF Abs
<1> QED BY <1>1, <1>2, <1>3, PTL DEF Spec
=============================================================================
