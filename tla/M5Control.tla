------------------------------ MODULE M5Control ------------------------------
(***************************************************************************)
(* The control plane of the M5 (M5/src/main.cpp): three FreeRTOS tasks on  *)
(* two cores share the atomics of SystemState and a queue of length one.   *)
(*   acquisition  reads the angles, detects jumps, serves zero requests    *)
(*                and offers a snapshot to the stream;                     *)
(*   stream       takes commands from the PC and sends snapshots;          *)
(*   gui          starts, stops and zeroes on touch.                       *)
(* Each write to a shared atomic is a step of its own; what a task does    *)
(* with its local variables belongs to the step that reads the atomic.     *)
(*                                                                         *)
(* An angle is a member of a small set of positions more than              *)
(* JUMP_THRESHOLD_DEG apart: any difference between two is a jump.  Which  *)
(* angle a channel shows is the environment's choice in every frame.       *)
(***************************************************************************)
EXTENDS Integers

CONSTANTS
  NUM_SENSORS,           \* 16 in the code; channels are 1 .. NUM_SENSORS
  SkipJump,              \* channels with skip_jump_detect, the grippers
  Angle,
  JUMP_CONFIRM_FRAMES,   \* 20
  Commands,              \* the commands and touches that occur
  CountMax               \* bound of the history counters; at least the two
                         \* requests, mask and all, that wait at once

Ch == 1 .. NUM_SENSORS
Frame == [angle : [Ch -> Angle], error : SUBSET Ch, old : BOOLEAN]
\* A queue or a buffer of one frame; of the frame in it only its age matters.
Slot == {"empty", "old", "new"}

ASSUME ControlAssumption ==
  /\ NUM_SENSORS \in Nat \ {0} /\ JUMP_CONFIRM_FRAMES \in Nat \ {0}
  /\ SkipJump \subseteq Ch /\ Angle # {}
  /\ Commands \subseteq {"start", "stop", "zero_all", "zero_mask", "toggle"}
  /\ CountMax \in Nat \ {0, 1}

VARIABLES
  \* SystemState; jump_ch is 0 for the code's -1
  mode, zero_all, zero_mask, jump_detected, jump_ch, jump_detect_enabled,
  reset_jump_state,
  dataQueue,
  \* acquisitionTask: where it is, the channel it is at, and its locals
  acq, chan, snap, valid, last_good_angle, last_good_valid, jump_count,
  \* streamTask and guiTask; starting: the next write of requestStreamStart
  stream, held, gui, starting,
  \* history: channels asked to be zeroed and not zeroed since; requests less
  \* zeroings per channel; frames from
  \* before the last START sent after it; frames sent since the last stop;
  \* streaming is stopped by a jump and no START was made since; the channel
  \* that tripped first since the last START
  wanted, asked, stale_sent, after_stop, tripped, first

zeroing == <<zero_all, zero_mask, wanted, asked>>
jumps   == <<jump_detected, jump_ch, tripped, first>>
frames  == <<dataQueue, held, stale_sent, after_stop>>
lastgood == <<last_good_angle, last_good_valid, jump_count>>
acquisition == <<acq, chan, snap, valid, lastgood>>
vars == <<mode, jump_detect_enabled, reset_jump_state, zeroing, jumps, frames,
          acquisition, stream, gui, starting>>

AcqStep == {"read", "reset", "detect", "trip", "trip_mode", "trip_ch", "trip_store",
            "zero_all", "mask_all", "all_done", "mask", "zero", "save", "offer",
            "queue"}
StartStep == {"no", "reset", "detected", "channel", "mode"}

\* Every variable has its type.
TypeOK ==
  /\ mode \in {"standby", "stream"}
  /\ zero_all \in BOOLEAN /\ zero_mask \subseteq Ch /\ wanted \subseteq Ch
  /\ asked \in [Ch -> 0 .. CountMax]
  /\ jump_detected \in BOOLEAN /\ jump_ch \in {0} \cup Ch
  /\ jump_detect_enabled \in BOOLEAN /\ reset_jump_state \in BOOLEAN
  /\ dataQueue \in Slot /\ held \in Slot
  /\ acq \in AcqStep /\ chan \in Ch /\ snap \in Frame /\ valid \subseteq Ch
  /\ last_good_angle \in [Ch -> Angle] /\ last_good_valid \subseteq Ch
  /\ jump_count \in [Ch -> 0 .. JUMP_CONFIRM_FRAMES]
  /\ stream \in {"recv", "check", "wait", "send"}
  /\ gui \in {"look", "standby", "stream"}
  /\ starting \in [{"gui", "stream"} -> StartStep]
  /\ stale_sent \in 0 .. CountMax /\ after_stop \in 0 .. CountMax
  /\ tripped \in BOOLEAN /\ first \in {0} \cup Ch

Count(n) == IF n = CountMax THEN n ELSE n + 1

----------------------------------------------------------------------------
(* acquisitionTask                                                         *)

\* readPacket and process; a channel that has been seen once stays valid.
AcqRead ==
  /\ acq = "read" /\ acq' = "reset"
  /\ \E v \in SUBSET Ch, a \in [Ch -> Angle] :
       /\ valid' = valid \cup v
       /\ snap' = [angle |-> a, error |-> Ch \ valid', old |-> FALSE]
  /\ UNCHANGED <<mode, jump_detect_enabled, reset_jump_state, zeroing, jumps, frames,
                 chan, lastgood, stream, gui, starting>>

AcqReset ==
  /\ acq = "reset" /\ acq' = "detect" /\ chan' = 1
  /\ reset_jump_state' = FALSE
  /\ IF reset_jump_state
       THEN /\ last_good_valid' = {} /\ jump_count' = [c \in Ch |-> 0]
            /\ UNCHANGED last_good_angle
       ELSE UNCHANGED lastgood
  /\ UNCHANGED <<mode, jump_detect_enabled, zeroing, jumps, frames, snap, valid, stream,
                 gui, starting>>

\* The next channel, or the step after the last one.
NextChannel(here, after) ==
  IF chan < NUM_SENSORS
    THEN chan' = chan + 1 /\ acq' = here
    ELSE chan' = 1 /\ acq' = after

Watched ==
  /\ jump_detect_enabled /\ mode = "stream"
  /\ chan \in last_good_valid /\ chan \notin SkipJump
Jumps == snap.angle[chan] # last_good_angle[chan]
Confirmed == jump_count[chan] + 1 >= JUMP_CONFIRM_FRAMES

PassGlitch == UNCHANGED snap                      \* a mutant: not substituted
BridgeGlitch ==
  snap' = [snap EXCEPT !.angle[chan] = last_good_angle[chan]]

Glitch ==
  /\ Watched /\ Jumps /\ ~Confirmed
  /\ jump_count' = [jump_count EXCEPT ![chan] = @ + 1]
  /\ BridgeGlitch
  /\ NextChannel("detect", "zero_all")
  /\ UNCHANGED <<last_good_angle, last_good_valid, first>>

Good ==
  /\ ~(Watched /\ Jumps)
  /\ last_good_angle' = [last_good_angle EXCEPT ![chan] = snap.angle[chan]]
  /\ last_good_valid' = last_good_valid \cup {chan}
  /\ jump_count' = [jump_count EXCEPT ![chan] = 0]
  /\ NextChannel("detect", "zero_all")
  /\ UNCHANGED <<snap, first>>

Trip ==
  /\ Watched /\ Jumps /\ Confirmed
  /\ jump_count' = [jump_count EXCEPT ![chan] = JUMP_CONFIRM_FRAMES]
  /\ first' = IF first = 0 THEN chan ELSE first
  /\ acq' = "trip"
  /\ UNCHANGED <<snap, last_good_angle, last_good_valid, chan>>

Unseen ==
  /\ last_good_valid' = last_good_valid \ {chan}
  /\ NextChannel("detect", "zero_all")
  /\ UNCHANGED <<snap, last_good_angle, jump_count, first>>

AcqDetect ==
  /\ acq = "detect"
  /\ IF chan \in snap.error THEN Unseen ELSE Glitch \/ Good \/ Trip
  /\ UNCHANGED <<mode, jump_detect_enabled, reset_jump_state, zeroing, jump_detected,
                 jump_ch, tripped, frames, valid, stream, gui, starting>>

\* The writes of a confirmed jump, one by one.
AcqTrip ==
  \/ /\ acq = "trip" /\ acq' = "trip_mode"
     /\ jump_detected' = TRUE
     /\ UNCHANGED <<mode, jump_ch, tripped, after_stop, chan>>
  \/ /\ acq = "trip_mode" /\ acq' = "trip_ch"
     /\ mode' = "standby" /\ tripped' = TRUE
     /\ UNCHANGED <<jump_detected, jump_ch, after_stop, chan>>
  \/ /\ acq = "trip_ch" /\ jump_ch = 0 /\ acq' = "trip_store"
     /\ UNCHANGED <<mode, jump_detected, jump_ch, tripped, after_stop, chan>>
  \/ /\ acq = "trip_ch" /\ jump_ch # 0
     /\ NextChannel("detect", "zero_all")
     /\ UNCHANGED <<mode, jump_detected, jump_ch, tripped, after_stop>>
  \/ /\ acq = "trip_store" /\ jump_ch' = chan
     /\ NextChannel("detect", "zero_all")
     /\ UNCHANGED <<mode, jump_detected, tripped, after_stop>>

AcqTripStep ==
  /\ AcqTrip
  /\ UNCHANGED <<jump_detect_enabled, reset_jump_state, zeroing, first, dataQueue, held,
                 stale_sent, snap, valid, lastgood, stream, gui, starting>>

KeepMask == UNCHANGED zero_mask                   \* a mutant: the mask stays set
ClearMask == zero_mask' = {}

\* zero_all becomes a full mask; every channel of the mask is zeroed; the
\* offsets are saved, which takes milliseconds; the mask is cleared.
AcqZero ==
  \/ /\ acq = "zero_all" /\ acq' = IF zero_all THEN "mask_all" ELSE "mask"
     /\ UNCHANGED <<zeroing, chan>>
  \/ /\ acq = "mask_all" /\ acq' = "all_done" /\ zero_mask' = Ch
     /\ UNCHANGED <<zero_all, wanted, asked, chan>>
  \/ /\ acq = "all_done" /\ acq' = "mask" /\ zero_all' = FALSE
     /\ UNCHANGED <<zero_mask, wanted, asked, chan>>
  \/ /\ acq = "mask" /\ acq' = IF zero_mask # {} THEN "zero" ELSE "offer"
     /\ chan' = 1
     /\ UNCHANGED zeroing
  \/ /\ acq = "zero"
     /\ wanted' = IF chan \in zero_mask THEN wanted \ {chan} ELSE wanted
     /\ asked' = IF chan \in zero_mask /\ asked[chan] > 0
                   THEN [asked EXCEPT ![chan] = @ - 1] ELSE asked
     /\ NextChannel("zero", "save")
     /\ UNCHANGED <<zero_all, zero_mask>>
  \/ /\ acq = "save" /\ acq' = "offer" /\ ClearMask
     /\ UNCHANGED <<zero_all, wanted, asked, chan>>

AcqZeroStep ==
  /\ AcqZero
  /\ UNCHANGED <<mode, jump_detect_enabled, reset_jump_state, jumps, frames, snap, valid,
                 lastgood, stream, gui, starting>>

\* xQueueOverwrite on a queue of length one.
AcqOffer ==
  /\ \/ acq = "offer" /\ acq' = (IF mode = "stream" THEN "queue" ELSE "read")
        /\ UNCHANGED dataQueue
     \/ acq = "queue" /\ acq' = "read" /\ dataQueue' = IF snap.old THEN "old" ELSE "new"
  /\ UNCHANGED <<mode, jump_detect_enabled, reset_jump_state, zeroing, jumps, held,
                 stale_sent, after_stop, chan, snap, valid, lastgood, stream, gui,
                 starting>>

Acquisition ==
  AcqRead \/ AcqReset \/ AcqDetect \/ AcqTripStep \/ AcqZeroStep \/ AcqOffer

----------------------------------------------------------------------------
(* requestStreamStart, called by the stream task and by the GUI            *)

Age(slot) == IF slot = "empty" THEN slot ELSE "old"

StartWrite(t) ==
  \/ /\ starting[t] = "reset" /\ starting' = [starting EXCEPT ![t] = "detected"]
     /\ reset_jump_state' = TRUE
     /\ UNCHANGED <<mode, jumps, frames, snap>>
  \/ /\ starting[t] = "detected" /\ starting' = [starting EXCEPT ![t] = "channel"]
     /\ jump_detected' = FALSE
     /\ UNCHANGED <<mode, reset_jump_state, jump_ch, tripped, first, frames, snap>>
  \/ /\ starting[t] = "channel" /\ starting' = [starting EXCEPT ![t] = "mode"]
     /\ jump_ch' = 0
     /\ UNCHANGED <<mode, reset_jump_state, jump_detected, tripped, first, frames, snap>>
  \/ /\ starting[t] = "mode" /\ starting' = [starting EXCEPT ![t] = "no"]
     /\ mode' = "stream"
     /\ tripped' = FALSE /\ first' = 0
     /\ IF mode = "stream"
          THEN UNCHANGED <<frames, snap>>
          ELSE /\ stale_sent' = 0 /\ after_stop' = 0
               /\ dataQueue' = Age(dataQueue) /\ held' = Age(held)
               /\ snap' = [snap EXCEPT !.old = TRUE]
     /\ UNCHANGED <<reset_jump_state, jump_detected, jump_ch>>

Starting(t) ==
  /\ StartWrite(t)
  /\ UNCHANGED <<jump_detect_enabled, zeroing, acq, chan, valid, lastgood, stream, gui>>

----------------------------------------------------------------------------
(* What the PC and the GUI may ask for                                     *)

Stop == mode' = "standby" /\ UNCHANGED <<zeroing, jump_detect_enabled, starting>>
Begin(t) ==
  /\ starting' = [starting EXCEPT ![t] = "reset"]
  /\ UNCHANGED <<mode, zeroing, jump_detect_enabled>>
Ask(m) ==
  /\ wanted' = wanted \cup m
  /\ asked' = [c \in Ch |-> IF c \in m THEN Count(asked[c]) ELSE asked[c]]
ZeroAll ==
  /\ zero_all' = TRUE /\ Ask(Ch)
  /\ UNCHANGED <<zero_mask, mode, jump_detect_enabled, starting>>
ZeroMask ==
  /\ \E m \in SUBSET Ch \ {{}} : zero_mask' = m /\ Ask(m)
  /\ UNCHANGED <<zero_all, mode, jump_detect_enabled, starting>>
Toggle ==
  /\ jump_detect_enabled' = ~jump_detect_enabled
  /\ UNCHANGED <<mode, zeroing, starting>>

----------------------------------------------------------------------------
(* streamTask                                                              *)

\* recv: nothing, or one command of the PC.
StreamRecv ==
  /\ stream = "recv" /\ stream' = "check"
  /\ \/ "start" \in Commands /\ Begin("stream")
     \/ "stop" \in Commands /\ Stop
     \/ "zero_all" \in Commands /\ ZeroAll
     \/ "zero_mask" \in Commands /\ ZeroMask
     \/ UNCHANGED <<mode, zeroing, jump_detect_enabled, starting>>
  /\ UNCHANGED <<reset_jump_state, jumps, frames, acquisition, gui>>

UnlessJumped == mode = "stream" /\ ~jump_detected   \* a mutant
Unchecked == mode = "stream" \/ dataQueue # "empty" \* a mutant: drains the queue
StreamMode == mode = "stream"

StreamCheck ==
  /\ stream = "check" /\ starting["stream"] = "no"
  /\ stream' = IF StreamMode THEN "wait" ELSE "recv"
  /\ UNCHANGED <<mode, jump_detect_enabled, reset_jump_state, zeroing, jumps, frames,
                 acquisition, gui, starting>>

\* xQueueReceive, with its time-out when there is nothing to take.
StreamTake ==
  /\ stream = "wait"
  /\ IF dataQueue = "empty"
       THEN stream' = "recv" /\ UNCHANGED <<dataQueue, held>>
       ELSE stream' = "send" /\ held' = dataQueue /\ dataQueue' = "empty"
  /\ UNCHANGED <<mode, jump_detect_enabled, reset_jump_state, zeroing, jumps,
                 stale_sent, after_stop, acquisition, gui, starting>>

StreamSend ==
  /\ stream = "send" /\ stream' = "recv"
  /\ held' = "empty"
  /\ stale_sent' = IF held = "old" THEN Count(stale_sent) ELSE stale_sent
  /\ after_stop' = IF mode = "standby" THEN Count(after_stop) ELSE after_stop
  /\ UNCHANGED <<mode, jump_detect_enabled, reset_jump_state, zeroing, jumps, dataQueue,
                 acquisition, gui, starting>>

Stream == StreamRecv \/ StreamCheck \/ StreamTake \/ StreamSend \/ Starting("stream")

----------------------------------------------------------------------------
(* guiTask                                                                 *)

GuiLook ==
  /\ gui = "look" /\ starting["gui"] = "no" /\ gui' = mode
  /\ UNCHANGED <<mode, jump_detect_enabled, reset_jump_state, zeroing, jumps, frames,
                 acquisition, stream, starting>>

\* A touch, judged by the mode read at the top of the loop; or none.
GuiTouch ==
  /\ gui' = "look"
  /\ \/ gui = "stream" /\ "stop" \in Commands /\ Stop
     \/ gui = "standby" /\ "start" \in Commands /\ Begin("gui")
     \/ gui = "standby" /\ "toggle" \in Commands /\ Toggle
     \/ gui = "standby" /\ "zero_all" \in Commands /\ ZeroAll
     \/ gui = "standby" /\ "zero_mask" \in Commands /\ ZeroMask
     \/ /\ gui # "look"
        /\ UNCHANGED <<mode, zeroing, jump_detect_enabled, starting>>
  /\ UNCHANGED <<reset_jump_state, jumps, frames, acquisition, stream>>

Gui == GuiLook \/ GuiTouch \/ Starting("gui")

----------------------------------------------------------------------------
Init ==
  /\ mode = "standby" /\ zero_all = FALSE /\ zero_mask = {} /\ wanted = {}
  /\ asked = [c \in Ch |-> 0]
  /\ jump_detected = FALSE /\ jump_ch = 0 /\ jump_detect_enabled = TRUE
  /\ reset_jump_state = FALSE
  /\ dataQueue = "empty" /\ held = "empty"
  /\ acq = "read" /\ chan = 1 /\ valid = {}
  /\ \E a \in Angle :
       /\ snap = [angle |-> [c \in Ch |-> a], error |-> Ch, old |-> FALSE]
       /\ last_good_angle = [c \in Ch |-> a]
  /\ last_good_valid = {} /\ jump_count = [c \in Ch |-> 0]
  /\ stream = "recv" /\ gui = "look" /\ starting = [t \in {"gui", "stream"} |-> "no"]
  /\ stale_sent = 0 /\ after_stop = 0 /\ tripped = FALSE /\ first = 0

Next == Acquisition \/ Stream \/ Gui

\* The scheduler runs every task: acquisition blocks 1 ms per round, the
\* stream at most 10 ms, and each has the higher priority on its core.
Spec ==
  /\ Init /\ [][Next]_vars
  /\ WF_vars(Acquisition) /\ WF_vars(Stream) /\ WF_vars(Starting("gui"))

----------------------------------------------------------------------------
(* Safety                                                                  *)

\* A stop is a stop: after the mode has become STANDBY at most the frame the
\* stream task already holds, or is about to take, still reaches the PC; and
\* after a START at most three frames are of the time before it: the one held,
\* the one left in the queue and the one being assembled.  (streamTask, acquisitionTask)
LateFrames == after_stop <= 1 /\ stale_sent <= 3

\* README, "zero selected sensors only": a channel is zeroed at most once per
\* request, and never without one.  (acquisitionTask, zero_mask)
ZeroOnlyAsked ==
  [][acq = "zero" /\ chan \in zero_mask => asked[chan] > 0]_vars

\* README, jump detection: neither a glitch nor the jump that stops the stream
\* reaches the PC: in a frame that is offered, and was begun after the last
\* START, every channel that is known shows its last good angle.
GlitchBridged ==
  acq = "queue" /\ mode = "stream" /\ ~snap.old =>
    \A c \in last_good_valid \ snap.error :
      snap.angle[c] = last_good_angle[c]

\* While the mode stays STREAM frames keep reaching the PC.
StreamFlows == <>[](mode = "stream") => []<>(stream = "send")

----------------------------------------------------------------------------
(* Statements of the documentation the code does not keep.                 *)

Settled ==
  /\ acq \notin {"trip", "trip_mode", "trip_ch", "trip_store"}
  /\ starting = [t \in {"gui", "stream"} |-> "no"]

\* README: "Keeps the warning in the status bar until the user presses START".
JumpReported == tripped /\ Settled => jump_detected

\* Common.h: "Which channel tripped jump detection first".
FirstTripShown == tripped /\ Settled /\ jump_ch # 0 => jump_ch = first

\* README: "tap to zero selected sensors", "YES to zero all sensors".
ZeroServed == \A c \in Ch : c \in wanted ~> c \notin wanted
=============================================================================
