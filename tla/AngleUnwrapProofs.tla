------------------------- MODULE AngleUnwrapProofs -------------------------
(***************************************************************************)
(* Theorems about AngleUnwrap, for every joint whose range and margins     *)
(* leave part of the turn free, every mounting and every set of poses.     *)
(***************************************************************************)
EXTENDS AngleUnwrap, TLAPS

\* What the frames keep, in parts.
WorldType ==
  /\ mount \in Degrees /\ theta \in Int /\ seen \in Int
  /\ theta \in (Min - MARGIN_DEG) .. (Max + MARGIN_DEG)
  /\ seen \in (Min - MARGIN_DEG) .. (Max + MARGIN_DEG)
StateType ==
  /\ angle_deg \in Degrees /\ raw_deg \in Degrees
  /\ jig \in 0 .. 360 /\ last_raw \in 0 .. 360
  /\ angle \in Int /\ unwrapped \in Int
  /\ valid \in BOOLEAN /\ error \in BOOLEAN /\ inited \in BOOLEAN
  /\ told \in BOOLEAN /\ sound \in BOOLEAN

\* The saved raw angle is that of the jig pose, the last one processed is the
\* one received last, which is of the pose told last, and the unwrapped angle
\* is whole turns off their difference.
JigIsPose == sound => jig = Inverted(Raw(Offset))
LastIsReceived == inited => last_raw = Inverted(angle_deg)
ReceivedIsSeen == told => angle_deg = Raw(seen)
WholeTurns == inited => \E k \in Int : unwrapped = last_raw - jig + 360 * k
ShownIsLimited == ~error /\ inited => angle = Limited(unwrapped)

IInv == WorldType /\ StateType /\ JigIsPose /\ LastIsReceived /\ ReceivedIsSeen
        /\ WholeTurns /\ ShownIsLimited

----------------------------------------------------------------------------
(* The circle                                                              *)

\* Where the raw angle of the joint at 0 lies, for either direction.
Zenith == IF Invert THEN -mount ELSE mount

\* Inverted or not, the raw angle is the joint angle up to whole turns.
LEMMA RawTurns ==
  ASSUME mount \in Degrees, NEW p \in Int
  PROVE  /\ Raw(p) \in Degrees
         /\ Inverted(Raw(p)) \in 0 .. 360
         /\ \E k \in Int : Inverted(Raw(p)) = p + Zenith + 360 * k
<1> USE DEF Degrees
<1>1. CASE Invert
  <2> DEFINE q == (mount - p) \div 360
  <2>1. q \in Int /\ (mount - p) % 360 = mount - p - 360 * q /\ (mount - p) % 360 \in 0 .. 359
    OBVIOUS
  <2>2. Raw(p) = (mount - p) % 360 /\ Inverted(Raw(p)) = 360 - ((mount - p) % 360)
    BY <1>1 DEF Raw, Inverted
  <2>3. Inverted(Raw(p)) = p + Zenith + 360 * (q + 1)
    BY <1>1, <2>1, <2>2 DEF Zenith
  <2>4. q + 1 \in Int
    BY <2>1
  <2>5. Raw(p) \in Degrees /\ Inverted(Raw(p)) \in 0 .. 360
    BY <2>1, <2>2
  <2> HIDE DEF q, Degrees
  <2> QED BY <2>3, <2>4, <2>5
<1>2. CASE ~Invert
  <2> DEFINE q == (mount + p) \div 360
  <2>1. q \in Int /\ (mount + p) % 360 = mount + p - 360 * q /\ (mount + p) % 360 \in 0 .. 359
    OBVIOUS
  <2>2. Raw(p) = (mount + p) % 360 /\ Inverted(Raw(p)) = (mount + p) % 360
    BY <1>2 DEF Raw, Inverted
  <2>3. Inverted(Raw(p)) = p + Zenith + 360 * (-q)
    BY <1>2, <2>1, <2>2 DEF Zenith
  <2>4. -q \in Int
    BY <2>1
  <2>5. Raw(p) \in Degrees /\ Inverted(Raw(p)) \in 0 .. 360
    BY <2>1, <2>2
  <2> HIDE DEF q, Degrees
  <2> QED BY <2>3, <2>4, <2>5
<1> QED BY <1>1, <1>2

LEMMA InvertedType == ASSUME NEW raw \in Degrees PROVE Inverted(raw) \in 0 .. 360
BY DEF Inverted, Degrees

LEMMA ZenithType == mount \in Degrees => Zenith \in Int
BY DEF Zenith, Degrees

\* A difference of two raw angles is brought within half a turn by a whole
\* turn at most.
LEMMA DiffTurns ==
  ASSUME NEW raw \in 0 .. 360, last_raw \in 0 .. 360
  PROVE  /\ Diff(raw) \in -180 .. 180
         /\ \E k \in Int : Diff(raw) = raw - last_raw + 360 * k
<1>1. Diff(raw) \in {raw - last_raw, raw - last_raw - 360, raw - last_raw + 360}
      /\ Diff(raw) \in -180 .. 180
  BY DEF Diff
<1>2. \A k \in {0, -1, 1} : k \in Int
  OBVIOUS
<1> QED BY <1>1, <1>2

LEMMA FirstTurns ==
  ASSUME NEW raw \in 0 .. 360, jig \in 0 .. 360
  PROVE  /\ FirstDelta(raw) \in Int
         /\ \E k \in Int : FirstDelta(raw) = raw - jig + 360 * k
<1>1. FirstDelta(raw) \in {raw - jig, raw - jig - 360, raw - jig + 360}
  BY DEF FirstDelta
<1>2. FirstDelta(raw) \in Int
  BY DEF FirstDelta
<1>3. \E k \in -1 .. 1 : FirstDelta(raw) = raw - jig + 360 * k
  BY <1>1
<1> QED BY <1>2, <1>3

\* The limits take off what one turn too many or too few adds.
LEMMA LimitedOneTurn ==
  ASSUME NEW t \in (Min - MARGIN_DEG) .. (Max + MARGIN_DEG), NEW k \in -1 .. 1,
         NEW c \in Int, c + Offset - t = 360 * k
  PROVE  Limited(c) = t
<1>1. Min \in Int /\ Max \in Int /\ Offset \in Int /\ Max - Min + 50 < 360
  BY UnwrapAssumption DEF MARGIN_DEG
<1> QED BY <1>1 DEF Limited, MARGIN_DEG

\* And more turns change nothing about by how much one turn is corrected.
LEMMA LimitedSameTurns ==
  ASSUME NEW t \in (Min - MARGIN_DEG) .. (Max + MARGIN_DEG),
         NEW u \in (Min - MARGIN_DEG) .. (Max + MARGIN_DEG),
         NEW k \in Int, NEW c \in Int, NEW d \in Int,
         c + Offset - t = 360 * k, d + Offset - u = 360 * k
  PROVE  Limited(d) - Limited(c) = u - t
<1>1. Min \in Int /\ Max \in Int /\ Offset \in Int /\ Max - Min + 50 < 360
  BY UnwrapAssumption DEF MARGIN_DEG
<1>2. CASE k > 0
  BY <1>1, <1>2 DEF Limited, MARGIN_DEG
<1>3. CASE k < 0
  BY <1>1, <1>3 DEF Limited, MARGIN_DEG
<1>4. CASE k = 0
  BY <1>1, <1>4 DEF Limited, MARGIN_DEG
<1> QED BY <1>2, <1>3, <1>4

----------------------------------------------------------------------------
(* A valid frame                                                           *)

\* A frame leaves the unwrapped angle whole turns off the difference of its
\* raw angle and the saved one.
LEMMA FrameTurns ==
  ASSUME IInv, NEW raw \in 0 .. 360
  PROVE  \E k \in Int : Process(raw) = raw - jig + 360 * k
<1>1. jig \in 0 .. 360 /\ last_raw \in 0 .. 360 /\ unwrapped \in Int
  BY DEF IInv, StateType
<1>2. CASE inited
  <2>1. PICK e \in Int : Diff(raw) = raw - last_raw + 360 * e
    BY <1>1, DiffTurns
  <2>2. PICK k \in Int : unwrapped = last_raw - jig + 360 * k
    BY <1>2 DEF IInv, WholeTurns
  <2>3. Process(raw) = unwrapped + Diff(raw)
    BY <1>2 DEF Process
  <2>4. Process(raw) = raw - jig + 360 * (k + e) /\ k + e \in Int
    BY <1>1, <2>1, <2>2, <2>3
  <2> QED BY <2>4
<1>3. CASE ~inited
  <2>1. Process(raw) = FirstDelta(raw)
    BY <1>3 DEF Process
  <2> QED BY <1>1, <2>1, FirstTurns
<1> QED BY <1>2, <1>3

\* So on a soundly zeroed channel it is whole turns off the pose told last.
LEMMA LostTurns ==
  ASSUME IInv, inited, sound, told
  PROVE  \E k \in Int : unwrapped + Offset - seen = 360 * k
<1>1. mount \in Degrees /\ seen \in Int /\ Offset \in Int /\ Zenith \in Int
  BY UnwrapAssumption, ZenithType DEF IInv, WorldType
<1>2. jig = Inverted(Raw(Offset)) /\ last_raw = Inverted(Raw(seen))
  BY DEF IInv, JigIsPose, LastIsReceived, ReceivedIsSeen
<1>3. PICK a \in Int : jig = Offset + Zenith + 360 * a
  BY <1>1, <1>2, RawTurns
<1>4. PICK b \in Int : last_raw = seen + Zenith + 360 * b
  BY <1>1, <1>2, RawTurns
<1>5. PICK k \in Int : unwrapped = last_raw - jig + 360 * k
  BY DEF IInv, WholeTurns
<1>6. unwrapped + Offset - seen = 360 * (b - a + k) /\ b - a + k \in Int
  BY <1>1, <1>3, <1>4, <1>5
<1> QED BY <1>6

LEMMA ProcessType ==
  ASSUME StateType, NEW raw \in 0 .. 360
  PROVE  Process(raw) \in Int
<1>1. last_raw \in 0 .. 360 /\ jig \in 0 .. 360 /\ unwrapped \in Int
  BY DEF StateType
<1>2. Diff(raw) \in -180 .. 180
  BY <1>1, DiffTurns
<1>3. FirstDelta(raw) \in Int
  BY <1>1, FirstTurns
<1> QED BY <1>1, <1>2, <1>3 DEF Process

LEMMA LimitedType == ASSUME NEW c \in Int PROVE Limited(c) \in Int
BY UnwrapAssumption DEF Limited, MARGIN_DEG

----------------------------------------------------------------------------
(* The steps                                                               *)

LEMMA InitInv == Init => IInv
<1> SUFFICES ASSUME Init PROVE IInv
  OBVIOUS
<1>1. theta \in (Min - MARGIN_DEG) .. (Max + MARGIN_DEG) /\ Min \in Int /\ Max \in Int
  BY UnwrapAssumption DEF Init
<1>2. mount \in Degrees /\ raw_deg \in Degrees /\ jig \in Degrees
  BY UnwrapAssumption DEF Init
<1>3. WorldType
  BY <1>1, <1>2 DEF Init, WorldType, MARGIN_DEG
<1>4. StateType
  <2>1. jig \in 0 .. 360 /\ angle_deg \in Degrees
    BY <1>2 DEF Degrees, Init
  <2>2. last_raw \in 0 .. 360 /\ angle \in Int /\ unwrapped \in Int
    BY DEF Init
  <2>3. /\ valid \in BOOLEAN /\ error \in BOOLEAN /\ inited \in BOOLEAN
        /\ told \in BOOLEAN /\ sound \in BOOLEAN
    BY DEF Init
  <2> QED BY <1>2, <2>1, <2>2, <2>3 DEF StateType
<1> QED BY <1>3, <1>4 DEF Init, IInv, JigIsPose, LastIsReceived, ReceivedIsSeen,
                           WholeTurns, ShownIsLimited

\* Whatever the module sends between two passes.
LEMMA ReceivedInv ==
  ASSUME IInv, NEW p \in Poses, Moves(p), Answers(p) \/ AnswersZero \/ IsSilent
  PROVE  /\ WorldType' /\ ReceivedIsSeen'
         /\ angle_deg' \in Degrees /\ valid' \in BOOLEAN /\ told' \in BOOLEAN
         /\ Inverted(angle_deg') \in 0 .. 360
<1>1. p \in Int /\ p \in (Min - MARGIN_DEG) .. (Max + MARGIN_DEG) /\ mount \in Degrees
  BY UnwrapAssumption DEF IInv, WorldType, MARGIN_DEG
<1>2. Raw(p) \in Degrees /\ 0 \in Degrees /\ angle_deg \in Degrees
  BY <1>1, RawTurns DEF Degrees, IInv, StateType
<1>3. valid' \in BOOLEAN /\ told' \in BOOLEAN
  BY DEF Answers, AnswersZero, IsSilent, IInv, StateType
<1>4. angle_deg' \in Degrees
  BY <1>2 DEF Answers, AnswersZero, IsSilent
<1>5. Inverted(angle_deg') \in 0 .. 360
  BY <1>4, InvertedType
<1>6. WorldType'
  BY <1>1 DEF Moves, Answers, AnswersZero, IsSilent, WorldType, IInv
<1>7. ReceivedIsSeen'
  BY DEF Moves, Answers, AnswersZero, IsSilent, IInv, ReceivedIsSeen, Raw
<1> QED BY <1>3, <1>4, <1>5, <1>6, <1>7

LEMMA ValidFrameInv ==
  ASSUME IInv, NEW p \in Poses, ValidFrame(p)
  PROVE  IInv'
<1> DEFINE raw == Inverted(angle_deg')
<1>1. /\ WorldType' /\ ReceivedIsSeen'
      /\ angle_deg' \in Degrees /\ valid' \in BOOLEAN /\ told' \in BOOLEAN
      /\ raw \in 0 .. 360
  BY ReceivedInv DEF ValidFrame
<1>2. (Inverted(angle_deg))' = raw /\ (Inverted(Raw(Offset)))' = Inverted(Raw(Offset))
  BY DEF ValidFrame, Moves, Raw, Inverted
<1>3. unwrapped' = Process(raw) /\ last_raw' = raw /\ jig' = jig /\ sound' = sound
  BY DEF ValidFrame
<1> HIDE DEF raw
<1>4. unwrapped' \in Int
  BY <1>1, <1>3, ProcessType DEF IInv
<1>5. angle' = Limited(unwrapped') /\ angle' \in Int
  BY <1>4, LimitedType DEF ValidFrame
<1>6. StateType'
  BY <1>1, <1>3, <1>4, <1>5 DEF ValidFrame, StateType, IInv
<1>7. JigIsPose'
  BY <1>2, <1>3 DEF IInv, JigIsPose
<1>8. LastIsReceived'
  BY <1>2, <1>3 DEF LastIsReceived
<1>9. WholeTurns'
  BY <1>1, <1>3, FrameTurns DEF WholeTurns
<1>10. ShownIsLimited'
  BY <1>5 DEF ShownIsLimited, Limited
<1> QED BY <1>1, <1>6, <1>7, <1>8, <1>9, <1>10 DEF IInv

LEMMA InvalidFrameInv ==
  ASSUME IInv, NEW p \in Poses, InvalidFrame(p)
  PROVE  IInv'
<1>1. WorldType' /\ ReceivedIsSeen'
  BY ReceivedInv DEF InvalidFrame
<1>2. StateType'
  BY DEF InvalidFrame, IsSilent, StateType, IInv
<1>3. JigIsPose' /\ LastIsReceived' /\ WholeTurns' /\ ShownIsLimited'
  BY DEF InvalidFrame, IsSilent, Moves, IInv, JigIsPose, LastIsReceived, WholeTurns,
         ShownIsLimited, Raw, Inverted
<1> QED BY <1>1, <1>2, <1>3 DEF IInv

LEMMA ZeroInv == ASSUME IInv, Zero PROVE IInv'
<1>1. Inverted(raw_deg) \in 0 .. 360
  BY DEF IInv, StateType, Degrees, Inverted
<1>2. WorldType' /\ StateType'
  <2>1. sound' \in BOOLEAN
    BY DEF Zero
  <2>2. angle_deg' \in Degrees /\ raw_deg' \in Degrees /\ jig' \in 0 .. 360 /\ last_raw' \in 0 .. 360
        /\ angle' \in Int /\ unwrapped' \in Int
    BY <1>1 DEF Zero, IInv, StateType
  <2>3. valid' \in BOOLEAN /\ error' \in BOOLEAN /\ inited' \in BOOLEAN /\ told' \in BOOLEAN
    BY DEF Zero, IInv, StateType
  <2> QED BY <2>1, <2>2, <2>3 DEF Zero, WorldType, StateType, IInv
<1>3. JigIsPose'
  BY DEF Zero, JigIsPose, Raw, Inverted
<1>4. LastIsReceived' /\ ReceivedIsSeen' /\ WholeTurns' /\ ShownIsLimited'
  BY DEF Zero, IInv, LastIsReceived, ReceivedIsSeen, WholeTurns, ShownIsLimited, Raw
<1> QED BY <1>2, <1>3, <1>4 DEF IInv

LEMMA PowerCycleInv == ASSUME IInv, PowerCycle PROVE IInv'
<1>1. raw_deg' \in Degrees /\ angle_deg' \in Degrees
  BY UnwrapAssumption DEF PowerCycle, Degrees
<1>2. WorldType' /\ StateType'
  <2>1. mount \in Degrees /\ theta \in Int
        /\ theta \in (Min - MARGIN_DEG) .. (Max + MARGIN_DEG)
        /\ jig \in 0 .. 360 /\ sound \in BOOLEAN
    BY DEF IInv, WorldType, StateType
  <2>2. 0 \in 0 .. 360 /\ 0 \in Int
    OBVIOUS
  <2> QED BY <1>1, <2>1, <2>2 DEF PowerCycle, WorldType, StateType
<1>3. JigIsPose'
  BY DEF PowerCycle, IInv, JigIsPose, Raw, Inverted
<1>4. LastIsReceived' /\ ReceivedIsSeen' /\ WholeTurns' /\ ShownIsLimited'
  BY DEF PowerCycle, LastIsReceived, ReceivedIsSeen, WholeTurns, ShownIsLimited
<1> QED BY <1>2, <1>3, <1>4 DEF IInv

LEMMA StepInv == IInv /\ [Next]_vars => IInv'
<1> SUFFICES ASSUME IInv, [Next]_vars PROVE IInv'
  OBVIOUS
<1>1. CASE Next
  BY <1>1, ValidFrameInv, InvalidFrameInv, ZeroInv, PowerCycleInv DEF Next
<1>2. CASE UNCHANGED vars
  BY <1>2 DEF vars, IInv, WorldType, StateType, JigIsPose, LastIsReceived, ReceivedIsSeen,
              WholeTurns, ShownIsLimited, Raw, Inverted, Limited
<1> QED BY <1>1, <1>2

\* The invariant the two results below follow from.
THEOREM UnwrapInvariant == Spec => []IInv
<1>1. Init => IInv
  BY InitInv
<1>2. IInv /\ [Next]_vars => IInv'
  BY StepInv
<1> QED BY <1>1, <1>2, PTL DEF Spec

----------------------------------------------------------------------------
(* The results                                                             *)

\* On a soundly zeroed channel the angle shown is the one the module told last
\* as long as no more than one turn is lost.  (RSNexus::readPacket,
\* AngleProcessor::process, acquisitionTask)
THEOREM ShowsTheJoint == Spec => []ShownIsTrue
<1>1. IInv => ShownIsTrue
  <2> SUFFICES ASSUME IInv, ~error, sound, inited, told, Lost < 540, Lost > -540
               PROVE  angle = seen
    BY DEF ShownIsTrue
  <2>1. angle = Limited(unwrapped) /\ unwrapped \in Int /\ seen \in Int
        /\ seen \in (Min - MARGIN_DEG) .. (Max + MARGIN_DEG)
    BY DEF IInv, ShownIsLimited, WorldType, StateType
  <2>2. PICK k \in Int : unwrapped + Offset - seen = 360 * k
    BY LostTurns
  <2>3. k \in -1 .. 1
    BY <2>1, <2>2 DEF Lost
  <2> QED BY <2>1, <2>2, <2>3, LimitedOneTurn
<1> QED BY <1>1, UnwrapInvariant, PTL

\* From one pass to the next the angle shown moves exactly as the joint does
\* between the poses told, silent passes and the answer after them included,
\* however many turns were lost before.  (RSNexus::readPacket,
\* AngleProcessor::process, acquisitionTask)
THEOREM NoTurnIsMadeUp == Spec => NoFalseJump
<1>1. IInv /\ [Next]_vars
        => (/\ ~error /\ ~error' /\ inited /\ sound /\ told /\ told'
            /\ seen' - seen < 180 /\ seen - seen' < 180
            => angle' - angle = seen' - seen)
  <2> SUFFICES ASSUME IInv, [Next]_vars, ~error, ~error', inited, sound, told, told',
                      seen' - seen < 180, seen - seen' < 180
               PROVE  angle' - angle = seen' - seen
    OBVIOUS
  <2>1. angle \in Int /\ seen \in Int
        /\ seen \in (Min - MARGIN_DEG) .. (Max + MARGIN_DEG)
    BY DEF IInv, WorldType, StateType
  <2>2. ASSUME NEW p \in Poses, ValidFrame(p) PROVE angle' - angle = seen' - seen
    <3> DEFINE raw == Inverted(angle_deg')
    <3>1. angle = Limited(unwrapped) /\ unwrapped \in Int /\ mount \in Degrees
          /\ last_raw \in 0 .. 360 /\ last_raw = Inverted(Raw(seen))
      BY DEF IInv, ShownIsLimited, WorldType, StateType, LastIsReceived, ReceivedIsSeen
    <3>2. WorldType' /\ ReceivedIsSeen' /\ raw \in 0 .. 360
      BY <2>2, ReceivedInv DEF ValidFrame
    <3>3. seen' \in Int /\ seen' \in (Min - MARGIN_DEG) .. (Max + MARGIN_DEG)
          /\ Zenith \in Int /\ Offset \in Int
      BY <3>1, <3>2, UnwrapAssumption, ZenithType DEF WorldType
    <3>4. PICK q \in Int : q = seen' /\ q \in (Min - MARGIN_DEG) .. (Max + MARGIN_DEG)
      BY <3>3
    <3>5. raw = Inverted(Raw(q))
      BY <2>2, <3>2, <3>4 DEF ReceivedIsSeen, ValidFrame, Moves, Raw
    <3>6. PICK a \in Int : raw = q + Zenith + 360 * a
      BY <3>1, <3>4, <3>5, RawTurns
    <3>7. PICK b \in Int : last_raw = seen + Zenith + 360 * b
      BY <2>1, <3>1, RawTurns
    <3> DEFINE d == Diff(raw)
    <3>8. d \in -180 .. 180
      BY <3>1, <3>2, DiffTurns
    <3>9. PICK e \in Int : d = raw - last_raw + 360 * e
      BY <3>1, <3>2, DiffTurns
    <3>10. PICK k \in Int : unwrapped + Offset - seen = 360 * k
      BY LostTurns
    <3>11. PICK c \in Int : c = unwrapped' /\ c = unwrapped + d
      BY <2>2, <3>1, <3>8 DEF ValidFrame, Process
    <3> HIDE DEF raw, d
    <3>12. d = q - seen
      <4>1. q - seen < 180 /\ seen - q < 180
        BY <3>4
      <4>2. d = q - seen + 360 * (a - b + e) /\ a - b + e \in Int
        BY <2>1, <3>3, <3>4, <3>6, <3>7, <3>9
      <4>3. d < 181 /\ d > -181
        BY <3>8
      <4> QED BY <2>1, <4>1, <4>2, <4>3
    <3>13. c + Offset - q = 360 * k
      <4>1. c = unwrapped + (q - seen)
        BY <3>11, <3>12
      <4>2. unwrapped \in Int /\ seen \in Int /\ Offset \in Int
        BY <2>1, <3>1, <3>3
      <4> QED BY <3>10, <4>1, <4>2
    <3>14. Limited(c) - Limited(unwrapped) = q - seen
      BY <2>1, <3>1, <3>4, <3>10, <3>11, <3>13, LimitedSameTurns
    <3>15. angle' = Limited(c)
      BY <2>2, <3>11 DEF ValidFrame
    <3> QED BY <3>1, <3>4, <3>14, <3>15
  <2>3. ASSUME NEW p \in Poses, InvalidFrame(p) PROVE FALSE
    BY <2>3 DEF InvalidFrame
  <2>4. CASE Zero
    BY <2>1, <2>4 DEF Zero
  <2>5. CASE PowerCycle
    BY <2>5 DEF PowerCycle
  <2>6. CASE UNCHANGED vars
    BY <2>1, <2>6 DEF vars
  <2> QED BY <2>2, <2>3, <2>4, <2>5, <2>6 DEF Next
<1> QED BY <1>1, UnwrapInvariant, PTL DEF Spec, NoFalseJump
=============================================================================
