------------------------------ MODULE KerLoop ------------------------------
(***************************************************************************)
(* loop() of main.cpp around the sensor path: one received frame per turn, *)
(* answered before anything else, then a sensor read if one is due.  It    *)
(* holds the angle the cascade is answered with, and what ker_cmd3.cpp     *)
(* keeps of the readings, the latch.                                       *)
(*                                                                         *)
(* Frames enter the UART's buffer at any time from Serial.begin on, also   *)
(* while setup() still runs ker_init.  The time conditions of the read     *)
(* gate are those of KerCmd3; here the gate only opens and closes.         *)
(***************************************************************************)
EXTENDS KerSensor, Sequences

CONSTANTS
  Silent,        \* no cascade reply, no GET_ANGLE_COMP record in this step
  RxMax,         \* frames waiting in the UART buffer (bound of the model)
  LatchMod       \* 256: latch_count is a byte

ASSUME LoopAssumption ==
  /\ RxMax \in Nat \ {0} /\ LatchMod \in Nat \ {0}
  /\ Silent \notin Angle

VARIABLES
  pc,                    \* "frame" or "read": the two halves of a turn
  rx,                    \* frames received and not yet handled
  latest_angle_21bit, do_ssc_read,
  interval,              \* SSC_INTERVAL_MS have passed since the last read
  gate_open, smp_active,
  latched_angle, latched_raw15, latch_valid, latch_count, latch_any,
  sent,                  \* the cascade reply of this step, Silent if none
  comp,                  \* the angle GET_ANGLE_COMP reports in this step
  \* history: a read was made since the last cascade reply; the last
  \* transaction had passed when the latch was taken
  read_since, latch_passed

bus     == <<sent, comp>>
latch   == <<latched_angle, latched_raw15, latch_valid, latch_count, latch_any,
             latch_passed>>
loop    == <<pc, rx, latest_angle_21bit, do_ssc_read, interval, gate_open,
             smp_active, read_since>>
allvars == <<vars, bus, latch, loop>>

\* "own" asks this module for its angle (CMD=1 to its ID, CMD=2 from the ID
\* before it); "arm" is any other CMD=1 or CMD=2 frame; the rest is CMD=3:
\* LATCH_SYNC, GET_ANGLE_COMP, SAMPLE_START and a COMMIT_CAL or SET_ID that
\* succeeds, with the calibration it leaves in force.
Frame == [kind : {"own", "arm", "latch", "comp", "sample"}, cal : {NoCal}]
           \cup [kind : {"commit"}, cal : Mapping]

\* Every variable of the loop has its type.
LoopTypeOK ==
  /\ TypeOK
  /\ pc \in {"frame", "read"} /\ rx \in Seq(Frame) /\ Len(rx) <= RxMax
  /\ latest_angle_21bit \in Angle
  /\ do_ssc_read \in BOOLEAN /\ interval \in BOOLEAN
  /\ gate_open \in BOOLEAN /\ smp_active \in BOOLEAN
  /\ latched_angle \in Angle /\ latched_raw15 \in Raw
  /\ latch_valid \in BOOLEAN /\ latch_count \in 0 .. LatchMod - 1
  /\ latch_any \in BOOLEAN /\ latch_passed \in BOOLEAN
  /\ sent \in Angle \cup {Silent} /\ comp \in Angle \cup {Silent}
  /\ read_since \in BOOLEAN

----------------------------------------------------------------------------
(* Handling one frame: the reply of loop(), then ker_on_frame              *)

AfterReply == do_ssc_read' = TRUE

CascadeReply ==
  /\ sent' = latest_angle_21bit
  /\ AfterReply
  /\ read_since' = FALSE

\* CMD=1 and CMD=2: close the gate, abort a sample run.
CascadeHeard ==
  /\ gate_open' = FALSE /\ smp_active' = FALSE
  /\ comp' = Silent
  /\ UNCHANGED <<vars, latch>>

LatchIsValid == ~stale /\ ~degraded /\ ~no_valid

\* do_latch.
DoLatch ==
  /\ latched_angle' = angle_out /\ latched_raw15' = last_raw15
  /\ latch_valid' = LatchIsValid
  /\ latch_count' = (latch_count + 1) % LatchMod
  /\ latch_any' = TRUE
  /\ latch_passed' = last_pass

OpenGateFrame(f) ==
  \/ /\ f.kind = "latch" /\ DoLatch
     /\ comp' = Silent
     /\ UNCHANGED <<vars, smp_active>>
  \/ /\ f.kind = "comp"
     /\ comp' = angle_out
     /\ UNCHANGED <<vars, latch, smp_active>>
  \/ /\ f.kind = "sample"
     /\ smp_active' = TRUE
     /\ comp' = Silent
     /\ UNCHANGED <<vars, latch>>
  \/ /\ f.kind = "commit"
     /\ SetCal(f.cal)
     /\ comp' = Silent
     /\ UNCHANGED <<latch, smp_active>>

HandleFrame(f) ==
  \/ f.kind = "own" /\ CascadeReply /\ CascadeHeard
  \/ f.kind = "arm" /\ sent' = Silent /\ CascadeHeard
                    /\ UNCHANGED <<do_ssc_read, read_since>>
  \/ /\ f.kind \notin {"own", "arm"}
     /\ sent' = Silent
     /\ IF gate_open
          THEN OpenGateFrame(f)
          ELSE comp' = Silent /\ UNCHANGED <<vars, latch, smp_active>>
     /\ UNCHANGED <<gate_open, do_ssc_read, read_since>>

----------------------------------------------------------------------------
(* Actions                                                                 *)

Quietly == sent' = Silent /\ comp' = Silent

Arrive(f) ==
  /\ Len(rx) < RxMax
  /\ rx' = Append(rx, f)
  /\ Quietly
  /\ UNCHANGED <<vars, latch, pc, latest_angle_21bit, do_ssc_read, interval,
                 gate_open, smp_active, read_since>>

\* setup(): the reads of ker_sensor_start.
SetupRead(o, raw) ==
  /\ StartRead(o, raw)
  /\ Quietly
  /\ UNCHANGED <<latch, loop>>

TakeFrame ==
  /\ boot = 0 /\ pc = "frame" /\ rx # <<>>
  /\ HandleFrame(Head(rx))
  /\ rx' = Tail(rx)
  /\ pc' = "read"
  /\ UNCHANGED <<latest_angle_21bit, interval>>

NoFrame ==
  /\ boot = 0 /\ pc = "frame" /\ rx = <<>>
  /\ pc' = "read"
  /\ Quietly
  /\ UNCHANGED <<vars, latch, rx, latest_angle_21bit, do_ssc_read, interval,
                 gate_open, smp_active, read_since>>

DueWhenIdle == do_ssc_read \/ (interval /\ rx = <<>>)     \* a mutant: frames first
ReadDue == do_ssc_read \/ interval

CacheIfPassed ==                         \* a mutant: a failed read sends the old
  latest_angle_21bit' = IF last_pass' THEN angle_out' ELSE latest_angle_21bit
Cache == latest_angle_21bit' = angle_out'

\* A sample run wants its next reading SAMPLE_SPACING_US after the last one.
TurnRead(o, raw) ==
  /\ pc = "read" /\ pc' = "frame"
  /\ ReadDue \/ smp_active
  /\ LoopRead(o, raw)
  /\ Cache
  /\ do_ssc_read' = FALSE /\ interval' = FALSE /\ read_since' = TRUE
  /\ smp_active' \in {smp_active, FALSE}
  /\ Quietly
  /\ UNCHANGED <<latch, rx, gate_open>>

NoRead ==
  /\ boot = 0 /\ pc = "read" /\ ~ReadDue
  /\ pc' = "frame"
  /\ Quietly
  /\ UNCHANGED <<vars, latch, rx, latest_angle_21bit, do_ssc_read, interval,
                 gate_open, smp_active, read_since>>

IntervalElapses ==
  /\ ~interval /\ interval' = TRUE
  /\ Quietly
  /\ UNCHANGED <<vars, latch, pc, rx, latest_angle_21bit, do_ssc_read,
                 gate_open, smp_active, read_since>>

GateOpens ==
  /\ boot = 0 /\ ~gate_open /\ gate_open' = TRUE
  /\ Quietly
  /\ UNCHANGED <<vars, latch, pc, rx, latest_angle_21bit, do_ssc_read,
                 interval, smp_active, read_since>>

\* The chip and its surroundings (external).
Chip ==
  /\ ChipReset \/ Settle
  /\ Quietly
  /\ UNCHANGED <<latch, loop>>

\* A reset of the module: RAM is initialised, Serial.begin empties the buffer.
ModuleReset(c) ==
  /\ Restart(c)
  /\ pc' = "frame" /\ rx' = <<>>
  /\ latest_angle_21bit' = NoAngle /\ do_ssc_read' = TRUE /\ interval' = FALSE
  /\ gate_open' = FALSE /\ smp_active' = FALSE /\ read_since' = TRUE
  /\ latched_angle' = NoAngle /\ latched_raw15' = 0 /\ latch_valid' = FALSE
  /\ latch_count' = 0 /\ latch_any' = FALSE /\ latch_passed' = FALSE
  /\ Quietly

LoopInit ==
  /\ Init
  /\ pc = "frame" /\ rx = <<>>
  /\ latest_angle_21bit = NoAngle /\ do_ssc_read = TRUE /\ interval = FALSE
  /\ gate_open = FALSE /\ smp_active = FALSE /\ read_since = TRUE
  /\ latched_angle = NoAngle /\ latched_raw15 = 0 /\ latch_valid = FALSE
  /\ latch_count = 0 /\ latch_any = FALSE /\ latch_passed = FALSE
  /\ sent = Silent /\ comp = Silent

Turn ==
  \/ \E o \in Outcome, raw \in Raw : SetupRead(o, raw)
  \/ TakeFrame
  \/ NoFrame
  \/ \E o \in Outcome, raw \in Raw : TurnRead(o, raw)
  \/ NoRead

LoopNext ==
  \/ Turn
  \/ \E f \in Frame : Arrive(f)
  \/ IntervalElapses
  \/ GateOpens
  \/ Chip
  \/ \E c \in Mapping : ModuleReset(c)

\* loop() is called again and again.
LoopSpec == LoopInit /\ [][LoopNext]_allvars /\ WF_allvars(Turn)

----------------------------------------------------------------------------
(* Safety                                                                  *)

\* Whatever the cascade is sent is the published reading -- held, or passed
\* through while degraded, or re-mapped by a COMMIT_CAL since -- and never an
\* older one: the copy main.cpp keeps and the sensor path's own agree on it.
SentIsPublished == sent \notin {Silent, NoAngle} => sent[1] = last_raw15

\* 6.1: a module that has answered the cascade reads its sensor before it
\* answers again, however the frames queue up.  (loop, do_ssc_read)
FreshPerReply == [][sent' # Silent => read_since]_allvars

\* 4.8: a latch whose valid bit is set was taken on a reading that passed, and
\* its compensated angle and its raw code are of that one reading, also after
\* later reads, resets of the sensor and calibration changes.  (do_latch)
LatchTellsTruth ==
  latch_valid => latch_passed /\ latched_angle[1] = latched_raw15

\* Once SSC_INTERVAL_MS have passed a read is made, whatever arrives on the
\* bus: one frame per turn of loop() cannot starve the sensor.
IntervalServed == interval ~> ~interval

----------------------------------------------------------------------------
(* Statements of the specification the code does not keep.                 *)

\* 6.2 and 4.7, NO_VALID_ANGLE: a module that has passed a reading does not
\* send 0.
ZeroOnlyWithoutAngle == sent = NoAngle => no_valid

\* 4.7, GET_ANGLE_COMP: "the value CMD=1/2 would send now" -- also on a module
\* that is past its first turn, where a COMMIT_CAL re-maps only one copy.
GetCompIsSent ==
  comp \notin {Silent, NoAngle} /\ latest_angle_21bit # NoAngle
    => comp = latest_angle_21bit
=============================================================================
