---------------------------- MODULE AngleUnwrap ----------------------------
(***************************************************************************)
(* How the M5 turns the absolute angle of one encoder into a joint angle:  *)
(* AngleProcessor unwraps it over the 0/360 seam, acquisitionTask adds the *)
(* joint's offset, corrects one turn by the mechanical limits and, when a  *)
(* zero is asked for, saves the raw angle of the jig pose.  A channel that *)
(* has answered once is processed in every pass of the task, with the      *)
(* angle it answered last: RSNexus never clears _valid, so silence of a    *)
(* module is a repeated angle and no error.  Angles are whole degrees: on  *)
(* the grid of the modules (multiples of 8 LSB) the float32 sums of the    *)
(* code are exact as well, which is what the scripts of docs/evidence      *)
(* measure.                                                                *)
(***************************************************************************)
EXTENDS Integers

CONSTANTS Min, Max,     \* ENCODER_CONFIG: mech_min, mech_max
          Offset,       \* mech_joint_offset, the joint angle in the jig
          Invert,
          Poses,        \* joint angles, up to MARGIN_DEG beyond the limits
          Mounts,       \* what the sensor may read where the joint is at 0
          Step,         \* how far the joint moves in one frame
          Reach         \* bound: how far _unwrapped is followed

MARGIN_DEG == 25
Degrees == 0 .. 359

ASSUME UnwrapAssumption ==
  /\ Min \in Int /\ Max \in Int /\ Max - Min + 2 * MARGIN_DEG < 360
  /\ Offset \in Min .. Max /\ Invert \in BOOLEAN
  /\ Poses \subseteq (Min - MARGIN_DEG) .. (Max + MARGIN_DEG)
  /\ Mounts \subseteq Degrees /\ Step \in 0 .. 179 /\ Reach \in Nat

VARIABLES
  mount, theta,    \* the world: the sensor at joint angle 0, the joint angle
  angle_deg, valid,    \* RSNexus: the angle received last, and that there was one
  raw_deg,         \* snapshot.sensors[i]: the raw angle of the last valid frame,
  angle, error,    \*   the angle shown, and whether the channel has none
  last_raw, unwrapped, inited,  \* AngleProcessor
  jig,             \* jig_angle_offsets[i], also in flash
  seen,            \* history: the pose the module told last,
  told,            \*   and whether angle_deg is of that pose
  sound            \* history: jig is the raw angle of the jig pose

vars == <<mount, theta, angle_deg, valid, raw_deg, angle, error, last_raw, unwrapped,
          inited, jig, seen, told, sound>>

-----------------------------------------------------------------------------
\* What the sensor reads at joint angle p.
Raw(p) == IF Invert THEN (mount - p) % 360 ELSE (mount + p) % 360

\* Step 1 of process(), which zeroing repeats; and the same left out.
AsRead(raw) == raw
Inverted(raw) == IF Invert THEN 360 - raw ELSE raw

\* Step 2, first frame: between -180, excluded, and 180.
FirstDelta(raw) ==
  LET delta == raw - jig
  IN  IF delta > 180 THEN delta - 360
      ELSE IF delta <= -180 THEN delta + 360
      ELSE delta

Diff(raw) ==
  LET diff == raw - last_raw
  IN  IF diff > 180 THEN diff - 360
      ELSE IF diff < -180 THEN diff + 360
      ELSE diff

Process(raw) == IF inited THEN unwrapped + Diff(raw) ELSE FirstDelta(raw)

\* The limits looked at before the joint's offset is added.
LimitedFirst(cumulative) ==
  Offset + (IF cumulative > Max + MARGIN_DEG THEN cumulative - 360
            ELSE IF cumulative < Min - MARGIN_DEG THEN cumulative + 360
            ELSE cumulative)

\* The joint's offset, and one turn by its limits.
Limited(cumulative) ==
  LET joint == cumulative + Offset
  IN  IF joint > Max + MARGIN_DEG THEN joint - 360
      ELSE IF joint < Min - MARGIN_DEG THEN joint + 360
      ELSE joint

Init ==
  /\ mount \in Mounts /\ theta \in Poses
  /\ angle_deg = 0 /\ valid = FALSE
  /\ raw_deg \in Mounts             \* an uninitialised snapshot
  /\ angle = 0 /\ error = TRUE
  /\ last_raw = 0 /\ unwrapped = 0 /\ inited = FALSE
  /\ jig \in Mounts                 \* whatever the flash holds
  /\ seen = theta /\ told = FALSE /\ sound = FALSE

Moves(p) ==
  /\ p \in Poses
  /\ p - theta <= Step /\ theta - p <= Step
  /\ theta' = p /\ UNCHANGED mount

\* What comes from the module between two passes: its angle at the pose p, the
\* 0 it sends while it has no angle, or nothing, an angle held by the module
\* included.
Answers(p) == angle_deg' = Raw(p) /\ valid' = TRUE /\ seen' = p /\ told' = TRUE
AnswersZero == angle_deg' = 0 /\ valid' = TRUE /\ told' = FALSE /\ UNCHANGED seen
IsSilent == UNCHANGED <<angle_deg, valid, seen, told>>

\* A pass with a channel that has answered, in this pass or in any before.
ValidFrame(p) ==
  /\ Moves(p) /\ (Answers(p) \/ AnswersZero \/ IsSilent)
  /\ valid'
  /\ raw_deg' = angle_deg' /\ error' = FALSE
  /\ unwrapped' = Process(Inverted(angle_deg'))
  /\ unwrapped' \in -Reach .. Reach
  /\ last_raw' = Inverted(angle_deg') /\ inited' = TRUE
  /\ angle' = Limited(unwrapped')
  /\ UNCHANGED <<jig, sound>>

\* A pass before the first answer since the M5 started: getCumulative(),
\* without offset and limits.
InvalidFrame(p) ==
  /\ Moves(p) /\ IsSilent
  /\ ~valid
  /\ angle' = unwrapped /\ error' = TRUE
  /\ UNCHANGED <<raw_deg, last_raw, unwrapped, inited, jig, sound>>

\* The channel is in zero_mask while the joint is in the jig: the raw angle
\* of the last valid frame is saved, be it of this pose or not.
Zero ==
  /\ theta = Offset
  /\ jig' = Inverted(raw_deg)
  /\ last_raw' = 0 /\ unwrapped' = 0 /\ inited' = FALSE
  /\ sound' = (raw_deg = Raw(theta))
  /\ UNCHANGED <<mount, theta, angle_deg, valid, raw_deg, angle, error, seen, told>>

\* The M5 restarts: the offsets come back from flash.
PowerCycle ==
  /\ angle_deg' = 0 /\ valid' = FALSE
  /\ raw_deg' \in Mounts /\ angle' = 0 /\ error' = TRUE
  /\ last_raw' = 0 /\ unwrapped' = 0 /\ inited' = FALSE
  /\ seen' = theta /\ told' = FALSE
  /\ UNCHANGED <<mount, theta, jig, sound>>

Next ==
  \/ \E p \in Poses : ValidFrame(p)
  \/ \E p \in Poses : InvalidFrame(p)
  \/ Zero \/ PowerCycle

Spec == Init /\ [][Next]_vars

-----------------------------------------------------------------------------
(* Safety                                                                  *)

TypeOK ==
  /\ mount \in Mounts /\ theta \in Poses /\ seen \in Poses
  /\ angle_deg \in Degrees /\ raw_deg \in Degrees /\ jig \in 0 .. 360 /\ last_raw \in 0 .. 360
  /\ angle \in Int /\ unwrapped \in Int
  /\ valid \in BOOLEAN /\ error \in BOOLEAN /\ inited \in BOOLEAN
  /\ told \in BOOLEAN /\ sound \in BOOLEAN

\* The angle by which _unwrapped is off the pose told last.
Lost == unwrapped + Offset - seen

\* On a channel that was zeroed on a fresh reading of the jig pose, what is
\* shown is the joint angle the module told last -- of this very pass when it
\* answered, of the last answer through silence -- wherever in its range and
\* margin the joint was and wherever the seam is: at the first frame, after a
\* restart, after a module that sent 0 for want of an angle, and after silence
\* in which the joint turned by more than half a turn, as long as that loses
\* one turn at most.  (readPacket, process, acquisitionTask)
ShownIsTrue ==
  ~error /\ sound /\ inited /\ told /\ Lost < 540 /\ Lost > -540 => angle = seen

\* Whatever was lost before, from one pass to the next the angle shown moves as
\* far as the joint did between the poses told, unless that is half a turn or
\* more: it stands while the module is silent, takes up in the first answer
\* what the joint moved meanwhile, and correcting the limits never shows a
\* turn the joint did not make, which would trip jump detection.
\* (readPacket, process, acquisitionTask)
NoFalseJump ==
  [][/\ ~error /\ ~error' /\ inited /\ sound /\ told /\ told'
     /\ seen' - seen < 180 /\ seen - seen' < 180
     => angle' - angle = seen' - seen]_vars
=============================================================================
