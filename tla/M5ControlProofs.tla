-------------------------- MODULE M5ControlProofs --------------------------
(***************************************************************************)
(* Theorems about M5Control for any number of channels and angles, any     *)
(* number of frames that confirm a jump, and every interleaving of the     *)
(* three tasks.                                                            *)
(***************************************************************************)
EXTENDS M5Control, TLAPS

Tasks == {"gui", "stream"}

\* TypeOK in parts: zero requests, mode and jumps, frames on their way, the
\* acquisition task, the other tasks.
ZeroType ==
  /\ zero_all \in BOOLEAN /\ zero_mask \subseteq Ch /\ wanted \subseteq Ch
  /\ asked \in [Ch -> 0 .. CountMax]
ModeType ==
  /\ mode \in {"standby", "stream"}
  /\ jump_detected \in BOOLEAN /\ jump_ch \in {0} \cup Ch
  /\ jump_detect_enabled \in BOOLEAN /\ reset_jump_state \in BOOLEAN
  /\ tripped \in BOOLEAN /\ first \in {0} \cup Ch
FrameType ==
  /\ dataQueue \in Slot /\ held \in Slot
  /\ stale_sent \in 0 .. CountMax /\ after_stop \in 0 .. CountMax
AcqType ==
  /\ acq \in AcqStep /\ chan \in Ch /\ snap \in Frame /\ valid \subseteq Ch
  /\ last_good_angle \in [Ch -> Angle] /\ last_good_valid \subseteq Ch
  /\ jump_count \in [Ch -> 0 .. JUMP_CONFIRM_FRAMES]
TaskType ==
  /\ stream \in {"recv", "check", "wait", "send"}
  /\ gui \in {"look", "standby", "stream"}
  /\ starting \in [Tasks -> StartStep]

LEMMA TypeParts ==
  TypeOK <=> ZeroType /\ ModeType /\ FrameType /\ AcqType /\ TaskType
BY DEF TypeOK, ZeroType, ModeType, FrameType, AcqType, TaskType, Tasks

AllTypes == ZeroType /\ ModeType /\ FrameType /\ AcqType /\ TaskType

----------------------------------------------------------------------------
(* Type correctness                                                        *)

LEMMA Channels == 1 \in Ch /\ Ch \subseteq Nat /\ NUM_SENSORS \in Ch
BY ControlAssumption DEF Ch

LEMMA CountType == \A n \in 0 .. CountMax : Count(n) \in 0 .. CountMax
BY ControlAssumption DEF Count

LEMMA NextChannelType ==
  ASSUME chan \in Ch, NEW here, NEW after, NextChannel(here, after)
  PROVE  chan' \in Ch /\ acq' \in {here, after}
BY ControlAssumption DEF Ch, NextChannel

LEMMA AskType ==
  ASSUME ZeroType, NEW m \in SUBSET Ch, Ask(m)
  PROVE  wanted' \subseteq Ch /\ asked' \in [Ch -> 0 .. CountMax]
<1>1. \A c \in Ch : (IF c \in m THEN Count(asked[c]) ELSE asked[c]) \in 0 .. CountMax
  BY CountType DEF ZeroType
<1> QED BY <1>1 DEF ZeroType, Ask

LEMMA AcqReadTypes == ASSUME AllTypes, AcqRead PROVE AcqType'
<1>1. PICK v \in SUBSET Ch, a \in [Ch -> Angle] :
        /\ valid' = valid \cup v
        /\ snap' = [angle |-> a, error |-> Ch \ valid', old |-> FALSE]
  BY DEF AcqRead
<1>2. snap' \in Frame
  BY <1>1 DEF Frame
<1>3. valid' \subseteq Ch
  BY <1>1 DEF AllTypes, AcqType
<1> QED BY <1>2, <1>3 DEF AcqRead, AllTypes, AcqType, lastgood, AcqStep

LEMMA AcqDetectTypes == ASSUME AllTypes, AcqDetect PROVE AcqType' /\ first' \in {0} \cup Ch
<1>1. /\ chan \in Ch /\ snap \in Frame /\ valid' \subseteq Ch
      /\ last_good_angle \in [Ch -> Angle] /\ last_good_valid \subseteq Ch
      /\ jump_count \in [Ch -> 0 .. JUMP_CONFIRM_FRAMES] /\ first \in {0} \cup Ch
      /\ JUMP_CONFIRM_FRAMES \in Nat \ {0}
  BY ControlAssumption DEF AllTypes, AcqType, ModeType, AcqDetect
<1>2. {"detect", "zero_all", "trip"} \subseteq AcqStep
  BY DEF AcqStep
<1>3. CASE Glitch
  <2>1. chan' \in Ch /\ acq' \in {"detect", "zero_all"}
    BY <1>1, <1>3, NextChannelType DEF Glitch
  <2>2. jump_count' \in [Ch -> 0 .. JUMP_CONFIRM_FRAMES]
    BY <1>1, <1>3 DEF Glitch, Confirmed
  <2>3. snap' \in Frame
    BY <1>1, <1>3 DEF Glitch, BridgeGlitch, Frame
  <2> QED BY <1>1, <1>2, <1>3, <2>1, <2>2, <2>3 DEF Glitch, AcqType
<1>4. CASE Good
  <2>1. chan' \in Ch /\ acq' \in {"detect", "zero_all"}
    BY <1>1, <1>4, NextChannelType DEF Good
  <2>2. last_good_angle' \in [Ch -> Angle]
    BY <1>1, <1>4 DEF Good, Frame
  <2>3. jump_count' \in [Ch -> 0 .. JUMP_CONFIRM_FRAMES]
    BY <1>1, <1>4 DEF Good
  <2> QED BY <1>1, <1>2, <1>4, <2>1, <2>2, <2>3 DEF Good, AcqType
<1>5. CASE Trip
  <2>1. jump_count' \in [Ch -> 0 .. JUMP_CONFIRM_FRAMES]
    BY <1>1, <1>5 DEF Trip
  <2> QED BY <1>1, <1>2, <1>5, <2>1 DEF Trip, AcqType
<1>6. CASE Unseen
  <2>1. chan' \in Ch /\ acq' \in {"detect", "zero_all"}
    BY <1>1, <1>6, NextChannelType DEF Unseen
  <2> QED BY <1>1, <1>2, <1>6, <2>1 DEF Unseen, AcqType
<1> QED BY <1>3, <1>4, <1>5, <1>6 DEF AcqDetect

LEMMA AcqTripTypes ==
  ASSUME AllTypes, AcqTripStep
  PROVE  AcqType' /\ ModeType' /\ after_stop' = after_stop
<1>1. chan' \in Ch /\ acq' \in AcqStep
  <2>1. {"detect", "zero_all", "trip_mode", "trip_ch", "trip_store"} \subseteq AcqStep
    BY DEF AcqStep
  <2>2. chan \in Ch
    BY DEF AllTypes, AcqType
  <2> QED BY <2>1, <2>2, NextChannelType DEF AcqTripStep, AcqTrip
<1>2. AcqType'
  BY <1>1 DEF AllTypes, AcqTripStep, AcqType, lastgood
<1>3. ModeType' /\ after_stop' = after_stop
  BY DEF AllTypes, AcqTripStep, AcqTrip, AcqType, ModeType
<1> QED BY <1>2, <1>3

LEMMA AcqZeroTypes == ASSUME AllTypes, AcqZeroStep PROVE AcqType' /\ ZeroType'
<1>1. chan \in Ch /\ 1 \in Ch
  BY Channels DEF AllTypes, AcqType
<1>2. chan' \in Ch /\ acq' \in AcqStep
  <2>1. {"mask_all", "mask", "all_done", "zero", "offer", "save"} \subseteq AcqStep
    BY DEF AcqStep
  <2> QED BY <1>1, <2>1, NextChannelType DEF AcqZeroStep, AcqZero
<1>3. AcqType'
  BY <1>2 DEF AllTypes, AcqZeroStep, AcqType, lastgood
<1>4. zero_all' \in BOOLEAN /\ zero_mask' \subseteq Ch /\ wanted' \subseteq Ch
  BY DEF AllTypes, ZeroType, AcqZeroStep, AcqZero, ClearMask, zeroing
<1>5. asked' \in [Ch -> 0 .. CountMax]
  <2>1. asked \in [Ch -> 0 .. CountMax] /\ CountMax \in Nat
    BY ControlAssumption DEF AllTypes, ZeroType
  <2>2. asked' = asked \/ (asked[chan] > 0 /\ asked' = [asked EXCEPT ![chan] = @ - 1])
    BY DEF AcqZeroStep, AcqZero, zeroing
  <2> QED BY <1>1, <2>1, <2>2
<1> QED BY <1>3, <1>4, <1>5 DEF ZeroType

LEMMA StartWriteTypes ==
  ASSUME AllTypes, NEW t \in Tasks, Starting(t)
  PROVE  AllTypes'
<1>1. {"detected", "channel", "mode", "no"} \subseteq StartStep
  BY DEF StartStep
<1>2. starting' \in [Tasks -> StartStep]
  BY <1>1 DEF AllTypes, TaskType, Starting, StartWrite
<1>3. ModeType'
  BY DEF AllTypes, ModeType, Starting, StartWrite, jumps
<1>4. FrameType'
  BY ControlAssumption DEF AllTypes, FrameType, Starting, StartWrite, frames, Age, Slot
<1>5. snap' \in Frame
  <2>1. snap \in Frame
    BY DEF AllTypes, AcqType
  <2>2. snap' = snap \/ snap' = [snap EXCEPT !.old = TRUE]
    BY DEF Starting, StartWrite
  <2> QED BY <2>1, <2>2 DEF Frame
<1>6. ZeroType' /\ AcqType'
  BY <1>5 DEF AllTypes, ZeroType, AcqType, Starting, zeroing, lastgood
<1> QED BY <1>2, <1>3, <1>4, <1>6 DEF AllTypes, TaskType, Starting

\* What a command of the PC or a touch may do to the shared state.
Request(t) ==
  \/ Stop
  \/ Begin(t)
  \/ ZeroAll
  \/ ZeroMask
  \/ Toggle
  \/ UNCHANGED <<mode, zeroing, jump_detect_enabled, starting>>

LEMMA RequestTypes ==
  ASSUME AllTypes, NEW t \in Tasks, Request(t),
         UNCHANGED <<reset_jump_state, jumps, frames, acquisition>>
  PROVE  /\ ZeroType' /\ ModeType' /\ FrameType' /\ AcqType'
         /\ starting' \in [Tasks -> StartStep]
<1>1. FrameType' /\ AcqType'
  BY DEF AllTypes, FrameType, AcqType, frames, acquisition, lastgood
<1>2. ModeType'
  BY DEF AllTypes, ModeType, Request, Stop, Begin, ZeroAll, ZeroMask, Toggle, jumps
<1>3. starting' \in [Tasks -> StartStep]
  BY DEF AllTypes, TaskType, Request, Stop, Begin, ZeroAll, ZeroMask, Toggle, StartStep
<1>4. ZeroType'
  <2>1. CASE ZeroAll
    BY <2>1, AskType DEF AllTypes, ZeroAll, ZeroType
  <2>2. CASE ZeroMask
    BY <2>2, AskType DEF AllTypes, ZeroMask, ZeroType
  <2>3. CASE UNCHANGED zeroing
    BY <2>3 DEF AllTypes, ZeroType, zeroing
  <2> QED BY <2>1, <2>2, <2>3 DEF Request, Stop, Begin, Toggle, zeroing
<1> QED BY <1>1, <1>2, <1>3, <1>4

LEMMA RecvIsRequest ==
  StreamRecv => /\ stream' = "check" /\ gui' = gui /\ Request("stream")
                /\ UNCHANGED <<reset_jump_state, jumps, frames, acquisition>>
BY DEF StreamRecv, Request

LEMMA TouchIsRequest ==
  GuiTouch => /\ gui' = "look" /\ stream' = stream /\ Request("gui")
              /\ UNCHANGED <<reset_jump_state, jumps, frames, acquisition>>
BY DEF GuiTouch, Request

LEMMA StreamTypes ==
  ASSUME AllTypes, StreamCheck \/ StreamTake \/ StreamSend
  PROVE  FrameType' /\ stream' \in {"recv", "check", "wait", "send"}
<1>1. CASE StreamCheck
  BY <1>1 DEF AllTypes, FrameType, StreamCheck, frames
<1>2. CASE StreamTake
  BY <1>2 DEF AllTypes, FrameType, StreamTake, Slot
<1>3. CASE StreamSend
  BY <1>3, CountType DEF AllTypes, FrameType, StreamSend, Slot
<1> QED BY <1>1, <1>2, <1>3

LEMMA TypesKept == AllTypes /\ [Next]_vars => AllTypes'
<1> SUFFICES ASSUME AllTypes, [Next]_vars PROVE AllTypes'
  OBVIOUS
<1>1. CASE AcqRead
  BY <1>1, AcqReadTypes
  DEF AllTypes, ZeroType, ModeType, FrameType, TaskType, AcqRead, zeroing, jumps, frames
<1>2. CASE AcqReset
  <2>1. jump_count' \in [Ch -> 0 .. JUMP_CONFIRM_FRAMES] /\ last_good_valid' \subseteq Ch
    <3>1. [c \in Ch |-> 0] \in [Ch -> 0 .. JUMP_CONFIRM_FRAMES]
      BY ControlAssumption
    <3> QED BY <1>2, <3>1 DEF AllTypes, AcqType, AcqReset, lastgood
  <2>2. AcqType'
    BY <1>2, <2>1, Channels DEF AllTypes, AcqType, AcqReset, lastgood, AcqStep
  <2> QED
    BY <1>2, <2>2
    DEF AllTypes, ZeroType, ModeType, FrameType, TaskType, AcqReset, zeroing, jumps, frames
<1>3. CASE AcqDetect
  BY <1>3, AcqDetectTypes
  DEF AllTypes, ZeroType, ModeType, FrameType, TaskType, AcqDetect, zeroing, frames
<1>4. CASE AcqTripStep
  BY <1>4, AcqTripTypes
  DEF AllTypes, ZeroType, FrameType, TaskType, AcqTripStep, zeroing
<1>5. CASE AcqZeroStep
  BY <1>5, AcqZeroTypes
  DEF AllTypes, ModeType, FrameType, TaskType, AcqZeroStep, jumps, frames
<1>6. CASE AcqOffer
  <2>1. FrameType' /\ AcqType'
    BY <1>6 DEF AllTypes, FrameType, AcqType, AcqOffer, lastgood, Slot, AcqStep
  <2> QED BY <1>6, <2>1 DEF AllTypes, ZeroType, ModeType, TaskType, AcqOffer, zeroing, jumps
<1>7. CASE Starting("gui") \/ Starting("stream")
  BY <1>7, StartWriteTypes DEF Tasks
<1>8. CASE StreamRecv
  BY <1>8, RecvIsRequest, RequestTypes DEF AllTypes, TaskType, Tasks
<1>9. CASE GuiTouch
  BY <1>9, TouchIsRequest, RequestTypes DEF AllTypes, TaskType, Tasks
<1>10. CASE StreamCheck \/ StreamTake \/ StreamSend
  <2>1. UNCHANGED <<mode, jump_detect_enabled, reset_jump_state, zeroing, jumps,
                    acquisition, gui, starting>>
    BY <1>10 DEF StreamCheck, StreamTake, StreamSend
  <2> QED
    BY <1>10, <2>1, StreamTypes
    DEF AllTypes, ZeroType, ModeType, AcqType, TaskType, zeroing, jumps, acquisition, lastgood
<1>11. CASE GuiLook
  BY <1>11
  DEF AllTypes, ZeroType, ModeType, FrameType, AcqType, TaskType, GuiLook, zeroing, jumps,
      frames, acquisition, lastgood
<1>12. CASE UNCHANGED vars
  BY <1>12
  DEF AllTypes, ZeroType, ModeType, FrameType, AcqType, TaskType, vars, zeroing, jumps,
      frames, acquisition, lastgood
<1> QED
  BY <1>1, <1>2, <1>3, <1>4, <1>5, <1>6, <1>7, <1>8, <1>9, <1>10, <1>11, <1>12
  DEF Next, Acquisition, Stream, Gui

LEMMA InitTypes == Init => AllTypes
<1> SUFFICES ASSUME Init PROVE AllTypes
  OBVIOUS
<1>1. 0 \in 0 .. CountMax /\ 0 \in 0 .. JUMP_CONFIRM_FRAMES
  BY ControlAssumption
<1>2. ZeroType /\ FrameType
  BY <1>1 DEF Init, ZeroType, FrameType, Slot
<1>3. ModeType /\ TaskType
  BY DEF Init, ModeType, TaskType, Tasks, StartStep
<1>4. AcqType
  BY <1>1, Channels DEF Init, AcqType, AcqStep, Frame
<1> QED BY <1>2, <1>3, <1>4 DEF AllTypes

\* Every shared atomic and every local keeps its type.  (M5/src/main.cpp)
THEOREM TypeCorrect == Spec => []TypeOK
<1>1. AllTypes => TypeOK
  BY TypeParts DEF AllTypes
<1> QED BY <1>1, InitTypes, TypesKept, PTL DEF Spec

----------------------------------------------------------------------------
(* Frames after a stop and before a start                                  *)

One(condition) == IF condition THEN 1 ELSE 0

\* Frames of before the last START that have reached the PC, or still may: one
\* held by the stream task, one in the queue, one being assembled.
Stale == stale_sent + One(held = "old") + One(dataQueue = "old")
           + One(snap.old /\ acq # "read")

\* The stream task begins to take a frame only while the mode is STREAM, and
\* takes one at a time.
LateInv ==
  /\ mode = "stream" \/ stream \in {"wait", "send"} => after_stop = 0
  /\ after_stop <= 1
  /\ Stale <= 3

\* The acquisition task only moves a frame on, and a new frame is not stale.
LEMMA AcquisitionLate ==
  ASSUME AllTypes, LateInv, Acquisition
  PROVE  LateInv'
<1>1. /\ held' = held /\ stale_sent' = stale_sent /\ after_stop' = after_stop
      /\ stream' = stream /\ mode' \in {mode, "standby"}
  BY DEF Acquisition, AcqRead, AcqReset, AcqDetect, AcqTripStep, AcqTrip, AcqZeroStep,
         AcqOffer, frames
<1>2. stale_sent \in Nat /\ snap \in Frame
  BY ControlAssumption DEF AllTypes, FrameType, AcqType
<1>3. Stale' <= Stale
  <2>1. CASE AcqRead
    BY <1>1, <1>2, <2>1 DEF AcqRead, frames, Stale, One
  <2>2. CASE AcqReset \/ AcqDetect \/ AcqTripStep \/ AcqZeroStep
    <3>1. acq # "read" /\ dataQueue' = dataQueue
      BY <2>2 DEF AcqReset, AcqDetect, AcqTripStep, AcqTrip, AcqZeroStep, AcqZero, frames
    <3>2. snap'.old = snap.old
      BY <1>2, <2>2 DEF AcqReset, AcqDetect, Glitch, BridgeGlitch, Good, Trip, Unseen,
                        AcqTripStep, AcqZeroStep, Frame
    <3> QED BY <1>1, <1>2, <3>1, <3>2 DEF Stale, One
  <2>3. CASE AcqOffer
    BY <1>1, <1>2, <2>3 DEF AcqOffer, Stale, One
  <2> QED BY <2>1, <2>2, <2>3 DEF Acquisition
<1>4. Stale \in Nat /\ Stale' \in Nat
  BY <1>1, <1>2 DEF Stale, One
<1> QED BY <1>1, <1>3, <1>4 DEF LateInv

LEMMA StartLate ==
  ASSUME AllTypes, LateInv, NEW t \in Tasks, Starting(t)
  PROVE  LateInv'
<1>1. stream' = stream /\ acq' = acq
  BY DEF Starting
<1>2. CASE UNCHANGED <<mode, frames, snap>> \/ (mode = "stream" /\ UNCHANGED <<frames, snap>>)
  BY <1>1, <1>2 DEF LateInv, Stale, One, frames
<1>3. CASE after_stop' = 0 /\ stale_sent' = 0
  BY <1>3 DEF LateInv, Stale, One
<1> QED BY <1>2, <1>3 DEF Starting, StartWrite

LEMMA RequestLate ==
  ASSUME LateInv, NEW t \in Tasks, Request(t),
         UNCHANGED <<reset_jump_state, jumps, frames, acquisition>>,
         stream' \in {stream, "check"}
  PROVE  LateInv'
<1>1. mode' \in {mode, "standby"}
  BY DEF Request, Stop, Begin, ZeroAll, ZeroMask, Toggle
<1>2. /\ after_stop' = after_stop /\ stale_sent' = stale_sent /\ held' = held
      /\ dataQueue' = dataQueue /\ snap' = snap /\ acq' = acq
  BY DEF frames, acquisition
<1> QED BY <1>1, <1>2 DEF LateInv, Stale, One

LEMMA StreamLate ==
  ASSUME AllTypes, LateInv, StreamCheck \/ StreamTake \/ StreamSend
  PROVE  LateInv'
<1>1. mode' = mode /\ snap' = snap /\ acq' = acq
  BY DEF StreamCheck, StreamTake, StreamSend, acquisition
<1>2. stale_sent \in Nat /\ after_stop \in Nat /\ CountMax \in Nat
  BY ControlAssumption DEF AllTypes, FrameType
<1>3. \A n \in Nat : Count(n) \in Nat /\ Count(n) <= n + 1
  BY ControlAssumption DEF Count
<1>4. CASE StreamCheck
  BY <1>1, <1>4 DEF StreamCheck, StreamMode, LateInv, Stale, One, frames
<1>5. CASE StreamTake
  BY <1>1, <1>2, <1>5 DEF StreamTake, LateInv, Stale, One
<1>6. CASE StreamSend
  <2>1. after_stop = 0 /\ after_stop' <= 1 /\ (mode = "stream" => after_stop' = 0)
    BY <1>2, <1>3, <1>6 DEF StreamSend, LateInv
  <2>2. Stale' <= Stale /\ Stale' \in Nat /\ Stale \in Nat
    <3>1. held' = "empty" /\ dataQueue' = dataQueue
          /\ stale_sent' \in Nat /\ stale_sent' <= stale_sent + One(held = "old")
      BY <1>2, <1>3, <1>6 DEF StreamSend, One
    <3>2. PICK rest \in 0 .. 2 : rest = One(dataQueue = "old") + One(snap.old /\ acq # "read")
      BY DEF One
    <3>3. Stale = stale_sent + One(held = "old") + rest /\ Stale' = stale_sent' + rest
      BY <1>1, <1>2, <3>1, <3>2 DEF Stale, One
    <3>4. One(held = "old") \in {0, 1}
      BY DEF One
    <3> QED BY <1>2, <3>1, <3>2, <3>3, <3>4
  <2> QED BY <1>1, <1>6, <2>1, <2>2 DEF StreamSend, LateInv
<1> QED BY <1>4, <1>5, <1>6

LEMMA LateKept == AllTypes /\ LateInv /\ [Next]_vars => LateInv'
<1> SUFFICES ASSUME AllTypes, LateInv, [Next]_vars PROVE LateInv'
  OBVIOUS
<1>1. CASE Acquisition
  BY <1>1, AcquisitionLate
<1>2. CASE Starting("gui") \/ Starting("stream")
  BY <1>2, StartLate DEF Tasks
<1>3. CASE StreamRecv \/ GuiTouch
  BY <1>3, RecvIsRequest, TouchIsRequest, RequestLate DEF Tasks
<1>4. CASE StreamCheck \/ StreamTake \/ StreamSend
  BY <1>4, StreamLate
<1>5. CASE GuiLook \/ UNCHANGED vars
  BY <1>5 DEF GuiLook, vars, frames, acquisition, LateInv, Stale, One
<1> QED BY <1>1, <1>2, <1>3, <1>4, <1>5 DEF Next, Stream, Gui

LEMMA LateInit == Init => LateInv
BY DEF Init, LateInv, Stale, One

\* A stop is a stop: at most one frame is sent after it, and after a START at
\* most three of before it, for every interleaving.  (streamTask, xQueueOverwrite)
THEOREM StopIsStop == Spec => []LateFrames
<1>1. AllTypes /\ LateInv => LateFrames
  <2> SUFFICES ASSUME AllTypes, LateInv PROVE LateFrames
    OBVIOUS
  <2>1. stale_sent \in Nat
    BY ControlAssumption DEF AllTypes, FrameType
  <2> QED BY <2>1 DEF LateInv, LateFrames, Stale, One
<1> QED BY <1>1, InitTypes, TypesKept, LateInit, LateKept, PTL DEF Spec

----------------------------------------------------------------------------
(* Glitches and jumps do not reach the stream                              *)

Detecting == {"detect", "trip", "trip_mode", "trip_ch", "trip_store"}

\* The channel has been through jump detection in this frame.
Checked(c) ==
  \/ acq \in AcqStep \ ({"read", "reset"} \cup Detecting)
  \/ acq \in Detecting /\ c < chan

\* A frame shows the last good angle of every channel that was checked, or a
\* jump was confirmed in it: then the mode was set to STANDBY, and a START
\* since has made the frame one of before it.
BridgeInv ==
  /\ acq \in {"trip_ch", "trip_store"} => mode = "standby" \/ snap.old
  /\ mode = "stream" /\ ~snap.old =>
       \A c \in last_good_valid \ snap.error :
         Checked(c) => snap.angle[c] = last_good_angle[c]

LEMMA NextChecked ==
  ASSUME AllTypes, acq \in Detecting, NextChannel("detect", "zero_all"), NEW c \in Ch
  PROVE  Checked(c)' => Checked(c) \/ c = chan
<1>1. chan \in Ch /\ c \in 1 .. NUM_SENSORS /\ NUM_SENSORS \in Nat
  BY ControlAssumption DEF AllTypes, AcqType, Ch
<1>2. CASE chan < NUM_SENSORS
  BY <1>1, <1>2 DEF NextChannel, Checked, Detecting, Ch
<1>3. CASE ~(chan < NUM_SENSORS)
  BY <1>1, <1>3 DEF NextChannel, Checked, Detecting, Ch
<1> QED BY <1>2, <1>3

LEMMA DetectBridges ==
  ASSUME AllTypes, BridgeInv, AcqDetect
  PROVE  BridgeInv'
<1>1. /\ acq = "detect" /\ mode' = mode /\ chan \in Ch /\ snap \in Frame
      /\ last_good_angle \in [Ch -> Angle] /\ last_good_valid \subseteq Ch
  BY DEF AllTypes, AcqType, AcqDetect
<1>2. snap'.old = snap.old /\ snap'.error = snap.error
  BY <1>1 DEF AcqDetect, Glitch, BridgeGlitch, Good, Trip, Unseen, Frame
<1>3. acq' \notin {"trip_ch", "trip_store"}
  BY <1>1 DEF AcqDetect, Glitch, Good, Trip, Unseen, NextChannel
<1>4. ASSUME mode' = "stream", ~snap'.old, NEW c \in last_good_valid' \ snap'.error, Checked(c)'
      PROVE  snap'.angle[c] = last_good_angle'[c]
  <2>1. \A k \in last_good_valid \ snap.error :
          Checked(k) => snap.angle[k] = last_good_angle[k]
    BY <1>1, <1>2, <1>4 DEF BridgeInv
  <2>2. CASE Trip
    <3>1. Checked(c) /\ c \in last_good_valid \ snap.error
      BY <1>1, <1>2, <1>4, <2>2 DEF Trip, Checked, Detecting
    <3> QED BY <2>1, <2>2, <3>1 DEF Trip
  <2>3. CASE Glitch
    <3>1. c \in Ch /\ c \in last_good_valid \ snap.error /\ (Checked(c) \/ c = chan)
      BY <1>1, <1>2, <1>4, <2>3, NextChecked DEF Glitch, Detecting
    <3>2. snap'.angle = [snap.angle EXCEPT ![chan] = last_good_angle[chan]]
      BY <1>1, <2>3 DEF Glitch, BridgeGlitch, Frame
    <3>3. snap.angle \in [Ch -> Angle]
      BY <1>1 DEF Frame
    <3> QED BY <1>1, <2>1, <2>3, <3>1, <3>2, <3>3 DEF Glitch
  <2>4. CASE Good
    <3>1. c \in Ch /\ (Checked(c) \/ c = chan) /\ c \in (last_good_valid \cup {chan}) \ snap.error
      BY <1>1, <1>2, <1>4, <2>4, NextChecked DEF Good, Detecting
    <3>2. ~(chan < chan)
      BY <1>1 DEF Ch
    <3>3. CASE c = chan
      BY <1>1, <2>4, <3>3 DEF Good
    <3>4. CASE c # chan
      BY <1>1, <2>1, <2>4, <3>1, <3>4 DEF Good
    <3> QED BY <3>3, <3>4
  <2>5. CASE chan \in snap.error /\ Unseen
    <3>1. c \in Ch /\ c # chan /\ (Checked(c) \/ c = chan) /\ c \in last_good_valid \ snap.error
      BY <1>1, <1>2, <1>4, <2>5, NextChecked DEF Unseen, Detecting
    <3> QED BY <2>1, <2>5, <3>1 DEF Unseen
  <2> QED BY <2>2, <2>3, <2>4, <2>5 DEF AcqDetect
<1> QED BY <1>3, <1>4 DEF BridgeInv

LEMMA TripBridges ==
  ASSUME AllTypes, BridgeInv, AcqTripStep
  PROVE  BridgeInv'
<1>1. /\ acq \in Detecting /\ UNCHANGED <<snap, lastgood>> /\ chan \in Ch
      /\ mode' \in {mode, "standby"} /\ last_good_valid \subseteq Ch
  BY DEF AcqTripStep, AcqTrip, Detecting, AllTypes, AcqType
<1>2. CASE mode' = "standby" \/ snap.old
  BY <1>1, <1>2 DEF BridgeInv, AllTypes, ModeType
<1>3. CASE ~(mode' = "standby" \/ snap.old)
  <2>1. acq = "trip" /\ acq' = "trip_mode" /\ chan' = chan /\ mode' = mode
    BY <1>1, <1>3 DEF AcqTripStep, AcqTrip, BridgeInv
  <2>2. \A c : Checked(c)' => Checked(c)
    BY <2>1 DEF Checked, Detecting
  <2> QED BY <1>1, <2>1, <2>2 DEF BridgeInv, lastgood
<1> QED BY <1>2, <1>3

LEMMA StartBridges ==
  ASSUME AllTypes, BridgeInv, NEW t \in Tasks, Starting(t)
  PROVE  BridgeInv'
<1>1. UNCHANGED <<acq, chan, lastgood>>
  BY DEF Starting
<1>2. \A c : Checked(c)' = Checked(c)
  BY <1>1 DEF Checked
<1>3. CASE UNCHANGED <<mode, snap>> \/ (mode = "stream" /\ mode' = "stream" /\ snap' = snap)
  BY <1>1, <1>2, <1>3 DEF BridgeInv, lastgood
<1>4. CASE snap' = [snap EXCEPT !.old = TRUE]
  <2>1. snap'.old = TRUE
    BY <1>4 DEF AllTypes, AcqType, Frame
  <2> QED BY <1>1, <2>1 DEF BridgeInv
<1> QED BY <1>3, <1>4 DEF Starting, StartWrite

LEMMA BridgeKept == AllTypes /\ BridgeInv /\ [Next]_vars => BridgeInv'
<1> SUFFICES ASSUME AllTypes, BridgeInv, [Next]_vars PROVE BridgeInv'
  OBVIOUS
<1>1. CASE AcqRead
  BY <1>1 DEF AcqRead, BridgeInv, Checked, AcqStep, Detecting
<1>2. CASE AcqReset
  <2>1. acq' = "detect" /\ chan' = 1 /\ snap' = snap /\ last_good_valid' \subseteq Ch
    BY <1>2 DEF AcqReset, AllTypes, AcqType, lastgood
  <2>2. \A c \in Ch : ~Checked(c)'
    BY <2>1 DEF Checked, Detecting, Ch
  <2> QED BY <2>1, <2>2 DEF BridgeInv
<1>3. CASE AcqDetect
  BY <1>3, DetectBridges
<1>4. CASE AcqTripStep
  BY <1>4, TripBridges
<1>5. CASE AcqZeroStep \/ AcqOffer
  <2>1. /\ acq \in AcqStep \ ({"read", "reset"} \cup Detecting)
        /\ acq' \notin {"trip_ch", "trip_store"}
        /\ UNCHANGED <<mode, snap, lastgood>>
    BY <1>5 DEF AcqZeroStep, AcqZero, AcqOffer, NextChannel, AcqStep, Detecting
  <2> QED BY <2>1 DEF BridgeInv, Checked, lastgood
<1>6. CASE Starting("gui") \/ Starting("stream")
  BY <1>6, StartBridges DEF Tasks
<1>7. CASE mode' \in {mode, "standby"} /\ UNCHANGED acquisition
  <2>1. UNCHANGED <<acq, chan, snap, lastgood>>
    BY <1>7 DEF acquisition
  <2>2. \A c : Checked(c)' = Checked(c)
    BY <2>1 DEF Checked
  <2> QED BY <1>7, <2>1, <2>2 DEF BridgeInv, lastgood
<1>8. CASE StreamRecv \/ GuiTouch
  <2>1. mode' \in {mode, "standby"} /\ UNCHANGED acquisition
    BY <1>8, RecvIsRequest, TouchIsRequest
    DEF Request, Stop, Begin, ZeroAll, ZeroMask, Toggle
  <2> QED BY <1>7, <2>1
<1>9. CASE StreamCheck \/ StreamTake \/ StreamSend \/ GuiLook \/ UNCHANGED vars
  <2>1. mode' = mode /\ UNCHANGED acquisition
    BY <1>9 DEF StreamCheck, StreamTake, StreamSend, GuiLook, vars
  <2> QED BY <1>7, <2>1
<1> QED
  BY <1>1, <1>2, <1>3, <1>4, <1>5, <1>6, <1>8, <1>9 DEF Next, Acquisition, Stream, Gui

LEMMA BridgeInit == Init => BridgeInv
BY DEF Init, BridgeInv

\* Neither a glitch nor the jump that stops the stream is in a frame that is
\* offered to it, on any channel.  (acquisitionTask, jump detection)
THEOREM GlitchesAreBridged == Spec => []GlitchBridged
<1>1. BridgeInv => GlitchBridged
  BY DEF BridgeInv, GlitchBridged, Checked, AcqStep, Detecting
<1> QED BY <1>1, InitTypes, TypesKept, BridgeInit, BridgeKept, PTL DEF Spec

----------------------------------------------------------------------------
(* A zeroing for every request, none without one                           *)

\* The channel has been served in this round: its bit of the mask is only
\* waiting to be cleared.
Served(c) == acq = "save" \/ (acq = "zero" /\ c < chan)

\* Zeroings of a channel that are still to come: one for zero_all, until it has
\* become a full mask, and one for its bit of the mask.
Due(c) == One(zero_all /\ acq # "all_done") + One(c \in zero_mask /\ ~Served(c))

TokenInv ==
  /\ acq = "mask_all" => zero_all
  /\ \A c \in Ch : Due(c) <= asked[c]

LEMMA DueType == \A c : Due(c) \in 0 .. 2
BY DEF Due, One

\* A request adds at most one to what is due, and one to what was asked, unless
\* that has reached its bound already.
LEMMA RequestDue ==
  ASSUME AllTypes, TokenInv, NEW t \in Tasks, Request(t), UNCHANGED acquisition
  PROVE  TokenInv'
<1>1. acq' = acq /\ \A c : Served(c)' = Served(c)
  BY DEF acquisition, Served
<1>2. asked \in [Ch -> 0 .. CountMax] /\ CountMax \in Nat /\ CountMax >= 2
  BY ControlAssumption DEF AllTypes, ZeroType
<1>3. \A n \in 0 .. CountMax : Count(n) >= n /\ (Count(n) >= n + 1 \/ Count(n) >= 2)
  BY <1>2 DEF Count
<1>4. CASE UNCHANGED zeroing
  BY <1>1, <1>4 DEF TokenInv, Due, zeroing
<1>5. CASE ZeroAll
  <2>1. \A c \in Ch : asked'[c] = Count(asked[c])
    BY <1>5 DEF ZeroAll, Ask
  <2>2. \A c : Due(c)' <= Due(c) + 1 /\ Due(c)' <= 2 /\ Due(c)' \in Nat
    BY <1>1, <1>5 DEF ZeroAll, Due, One
  <2>3. ASSUME NEW c \in Ch PROVE Due(c)' <= asked'[c]
    <3>1. /\ asked[c] \in 0 .. CountMax /\ Due(c) \in 0 .. 2 /\ Due(c) <= asked[c]
          /\ Count(asked[c]) \in 0 .. CountMax
      BY <1>2, DueType, CountType DEF TokenInv
    <3>2. Count(asked[c]) >= asked[c] + 1 \/ Count(asked[c]) >= 2
      BY <1>3, <3>1
    <3>3. Due(c)' <= Due(c) + 1 /\ Due(c)' <= 2 /\ Due(c)' \in Nat
      BY <2>2
    <3> HIDE DEF Due
    <3>4. ASSUME NEW a \in Nat, NEW b \in Nat, NEW d \in Nat, NEW e \in Nat,
                 d <= a, b >= a + 1 \/ b >= 2, e <= d + 1, e <= 2
          PROVE  e <= b
      BY <3>4
    <3>5. Due(c)' <= Count(asked[c])
      BY <1>2, <3>1, <3>2, <3>3, <3>4
    <3> QED BY <2>1, <3>5
  <2> QED BY <1>1, <1>5, <2>3 DEF TokenInv, ZeroAll
<1>6. CASE ZeroMask
  <2>1. PICK m \in SUBSET Ch : zero_mask' = m /\ Ask(m) /\ zero_all' = zero_all
    BY <1>6 DEF ZeroMask
  <2>2. ASSUME NEW c \in Ch PROVE Due(c)' <= asked'[c]
    <3>1. /\ asked[c] \in 0 .. CountMax /\ Due(c) \in 0 .. 2 /\ Due(c) <= asked[c]
          /\ Count(asked[c]) \in 0 .. CountMax
      BY <1>2, DueType, CountType DEF TokenInv
    <3>2. Count(asked[c]) >= asked[c] + 1 \/ Count(asked[c]) >= 2
      BY <1>3, <3>1
    <3>3. asked'[c] = IF c \in m THEN Count(asked[c]) ELSE asked[c]
      BY <2>1 DEF Ask
    <3>4. Due(c)' <= Due(c) + 1 /\ Due(c)' <= 2 /\ Due(c)' \in Nat
          /\ (c \notin m => Due(c)' <= Due(c))
      BY <1>1, <2>1 DEF Due, One
    <3>5. ASSUME NEW a \in Nat, NEW b \in Nat, NEW d \in Nat, NEW e \in Nat,
                 d <= a, b >= a + 1 \/ b >= 2, e <= d + 1, e <= 2
          PROVE  e <= b
      BY <3>5
    <3>6. CASE c \in m
      <4>1. Due(c)' <= Count(asked[c])
        BY <1>2, <3>1, <3>2, <3>4, <3>5
      <4> QED BY <3>3, <3>6, <4>1
    <3>7. CASE c \notin m
      <4>1. Due(c)' <= asked[c]
        BY <1>2, <3>1, <3>4, <3>7
      <4> QED BY <3>3, <3>7, <4>1
    <3> QED BY <3>6, <3>7
  <2> QED BY <1>1, <2>1, <2>2 DEF TokenInv
<1> QED BY <1>4, <1>5, <1>6 DEF Request, Stop, Begin, Toggle

LEMMA ZeroDue ==
  ASSUME AllTypes, TokenInv, AcqZeroStep
  PROVE  TokenInv'
<1>1. /\ asked \in [Ch -> 0 .. CountMax] /\ CountMax \in Nat
      /\ chan \in Ch /\ Ch = 1 .. NUM_SENSORS /\ NUM_SENSORS \in Nat
  BY ControlAssumption DEF AllTypes, ZeroType, AcqType, Ch
<1>2. \A c \in Ch : Due(c) <= asked[c]
  BY DEF TokenInv
<1>3. CASE acq = "zero"
  <2>1. /\ asked' = IF chan \in zero_mask /\ asked[chan] > 0
                      THEN [asked EXCEPT ![chan] = @ - 1] ELSE asked
        /\ NextChannel("zero", "save") /\ UNCHANGED <<zero_all, zero_mask>>
    BY <1>3 DEF AcqZeroStep, AcqZero
  <2>2. acq' \in {"zero", "save"}
    BY <2>1 DEF NextChannel
  <2>3. ASSUME NEW c \in Ch, c # chan PROVE Due(c)' <= asked'[c]
    <3>1. Served(c) => Served(c)'
      BY <1>1, <1>3, <2>1, <2>3 DEF Served, NextChannel
    <3>2. Due(c)' <= Due(c) /\ Due(c)' \in 0 .. 2 /\ Due(c) \in 0 .. 2
      BY <1>3, <2>1, <2>2, <3>1 DEF Due, One
    <3>3. asked'[c] = asked[c] /\ asked[c] \in Nat
      BY <1>1, <2>1, <2>3
    <3>4. Due(c) <= asked[c]
      BY <1>2
    <3> HIDE DEF Due
    <3> QED BY <3>2, <3>3, <3>4
  <2>4. ASSUME NEW c \in Ch, c = chan PROVE Due(c)' <= asked'[c]
    <3>1. ~Served(c) /\ Served(c)'
      BY <1>1, <1>3, <2>1, <2>4 DEF Served, NextChannel
    <3>2. Due(c) = One(zero_all) + One(c \in zero_mask)
      BY <1>3, <3>1 DEF Due, One
    <3>3. Due(c)' = One(zero_all)
      BY <2>1, <2>2, <3>1 DEF Due, One
    <3>4. Due(c) <= asked[c] /\ asked[c] \in Nat /\ One(zero_all) \in {0, 1}
      BY <1>1, <1>2 DEF One
    <3>5. CASE c \in zero_mask
      <4>1. One(zero_all) + 1 <= asked[c]
        BY <3>2, <3>4, <3>5 DEF One
      <4>2. asked'[c] = asked[c] - 1
        BY <1>1, <2>1, <2>4, <3>4, <3>5, <4>1
      <4> QED BY <3>3, <3>4, <4>1, <4>2
    <3>6. CASE c \notin zero_mask
      <4>1. asked'[c] = asked[c] /\ One(zero_all) <= asked[c]
        BY <2>1, <2>4, <3>2, <3>4, <3>6 DEF One
      <4> QED BY <3>3, <4>1
    <3> QED BY <3>5, <3>6
  <2>5. \A c \in Ch : Due(c)' <= asked'[c]
    BY <2>3, <2>4
  <2>6. acq' = "mask_all" => zero_all'
    BY <2>2
  <2> QED BY <2>5, <2>6 DEF TokenInv
<1>4. CASE acq # "zero"
  <2>1. asked' = asked
    BY <1>4 DEF AcqZeroStep, AcqZero, zeroing
  <2>2. acq' = "mask_all" => zero_all'
    BY <1>4 DEF AcqZeroStep, AcqZero, zeroing
  <2>3. ASSUME NEW c \in Ch PROVE Due(c)' <= Due(c)
    <3>1. CASE acq = "zero_all" \/ acq = "all_done"
      BY <3>1 DEF AcqZeroStep, AcqZero, zeroing, Due, One, Served
    <3>2. CASE acq = "mask_all"
      BY <3>2 DEF TokenInv, AcqZeroStep, AcqZero, Due, One, Served
    <3>3. CASE acq = "mask"
      BY <1>1, <3>3 DEF AcqZeroStep, AcqZero, zeroing, Due, One, Served
    <3>4. CASE acq = "save"
      BY <3>4 DEF AcqZeroStep, AcqZero, ClearMask, Due, One, Served
    <3> QED BY <1>4, <3>1, <3>2, <3>3, <3>4 DEF AcqZeroStep, AcqZero
  <2>4. \A c \in Ch : asked[c] \in Nat /\ Due(c) \in Nat /\ Due(c)' \in Nat
    BY <1>1, DueType DEF Due, One
  <2> HIDE DEF Due
  <2>5. \A c \in Ch : Due(c)' <= asked[c]
    BY <1>2, <2>3, <2>4
  <2> QED BY <2>1, <2>2, <2>5 DEF TokenInv
<1> QED BY <1>3, <1>4

LEMMA TokensKept == AllTypes /\ TokenInv /\ [Next]_vars => TokenInv'
<1> SUFFICES ASSUME AllTypes, TokenInv, [Next]_vars PROVE TokenInv'
  OBVIOUS
<1>1. CASE AcqZeroStep
  BY <1>1, ZeroDue
<1>2. CASE StreamRecv \/ GuiTouch
  BY <1>2, RecvIsRequest, TouchIsRequest, RequestDue DEF Tasks
<1>3. CASE /\ UNCHANGED zeroing
           /\ \/ UNCHANGED <<acq, chan>>
              \/ {acq, acq'} \cap {"zero", "save", "all_done", "mask_all"} = {}
  BY <1>3 DEF TokenInv, Due, One, Served, zeroing
<1>4. CASE AcqRead \/ AcqReset \/ AcqDetect \/ AcqTripStep \/ AcqOffer
  BY <1>3, <1>4
  DEF AcqRead, AcqReset, AcqDetect, Glitch, Good, Trip, Unseen, AcqTripStep, AcqTrip,
      AcqOffer, NextChannel
<1>5. CASE \/ Starting("gui") \/ Starting("stream")
           \/ StreamCheck \/ StreamTake \/ StreamSend \/ GuiLook \/ UNCHANGED vars
  BY <1>3, <1>5
  DEF Starting, StreamCheck, StreamTake, StreamSend, GuiLook, vars, acquisition
<1> QED BY <1>1, <1>2, <1>4, <1>5 DEF Next, Acquisition, Stream, Gui

LEMMA TokensInit == Init => TokenInv
BY ControlAssumption DEF Init, TokenInv, Due, One, Served

\* No channel is zeroed without a request for it, nor more often than it was
\* requested, for any number of channels.  (acquisitionTask, zero_mask, zero_all)
THEOREM NoZeroUnasked == Spec => ZeroOnlyAsked
<1>1. ASSUME AllTypes, TokenInv, acq = "zero", chan \in zero_mask
      PROVE  asked[chan] > 0
  <2>1. chan \in Ch /\ asked \in [Ch -> 0 .. CountMax] /\ Due(chan) <= asked[chan]
    BY <1>1 DEF AllTypes, ZeroType, AcqType, TokenInv
  <2>2. Due(chan) >= 1
    BY <1>1, <2>1 DEF Due, One, Served, Ch
  <2>3. asked[chan] \in Nat /\ Due(chan) \in Nat
    BY <2>1, DueType, ControlAssumption
  <2> HIDE DEF Due
  <2> QED BY <2>1, <2>2, <2>3
<1>2. AllTypes /\ TokenInv /\ [Next]_vars
        => [acq = "zero" /\ chan \in zero_mask => asked[chan] > 0]_vars
  BY <1>1
<1> QED BY <1>2, InitTypes, TypesKept, TokensInit, TokensKept, PTL DEF Spec, ZeroOnlyAsked
=============================================================================
