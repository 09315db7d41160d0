----------------------------- MODULE KerSensor -----------------------------
(***************************************************************************)
(* The sensor path of one module (ker_sensor.cpp, ker_health.c): the angle *)
(* transaction and its five outcomes, the angle that is held when one      *)
(* fails, the persistent-fault rule, the configuration lock with its       *)
(* suspension of the compensation, housekeeping, and the health bits and   *)
(* counters a host reads to tell all of this apart.                        *)
(*                                                                         *)
(* An angle is the pair of the raw code and the calibration it was mapped  *)
(* with: the arithmetic of ker_compensate is not needed here.  The sensor  *)
(* chip itself is external: it may lose its configuration at any time and  *)
(* then shows S_RST in the next word it is read for, once.                 *)
(***************************************************************************)
EXTENDS Integers

CONSTANTS
  Raw,             \* raw15 codes
  Cals, NoCal,     \* calibrations; the uncalibrated upstream mapping
  NoAngle,         \* the 0 in angle_out before anything was published
  PERSIST_FAIL,    \* KER_PERSIST_FAIL, 20
  FAIL_MAX,        \* 255: where consec_fail saturates
  COUNT_MAX,       \* 0xFFFF: where the counters saturate
  HOUSEKEEPING,    \* every 16th read
  START_READS,     \* 10 attempts of ker_sensor_start
  Faults           \* the failed outcomes that occur (all of them, or fewer)

ASSUME SensorAssumption ==
  /\ Raw # {} /\ 0 \in Raw
  /\ NoCal \notin Cals
  /\ NoAngle \notin Raw \X (Cals \cup {NoCal})
  /\ PERSIST_FAIL \in Nat \ {0} /\ FAIL_MAX \in Nat /\ PERSIST_FAIL <= FAIL_MAX
  /\ COUNT_MAX \in Nat \ {0}
  /\ HOUSEKEEPING \in Nat \ {0} /\ START_READS \in Nat \ {0}
  /\ Faults \subseteq {"no_response", "crc", "reset", "status"}

VARIABLES
  \* ker_sensor.cpp
  angle_out, last_raw15, attempted_raw15, consec_fail, read_tick, last_pass,
  g_cal,
  \* ker_health: live bits, sticky bits, counters
  cfg_fail, stale, no_valid, degraded,
  crc_sticky, stat_sticky, resp_sticky, crc_err, stat_err, no_resp,
  boot,            \* reads ker_sensor_start may still make, 0 in loop()
  \* the chip (external): its configuration is the locked one; S_RST will be
  \* shown by the next word read; from some time on nothing disturbs it
  configured, s_rst, sound,
  \* history: outcome of the last transaction and of the one behind angle_out,
  \* real number of consecutive failures, and how an S_RST was last lost
  outcome, source, streak, lost

published == <<angle_out, last_raw15, source>>
live      == <<stale, no_valid, degraded>>
errors    == <<crc_sticky, stat_sticky, resp_sticky, crc_err, stat_err, no_resp>>
chip      == <<configured, s_rst, sound, lost>>
reading   == <<attempted_raw15, consec_fail, read_tick, last_pass, outcome, streak>>
vars == <<published, g_cal, cfg_fail, live, errors, boot, chip, reading>>

Mapping == Cals \cup {NoCal}
Angle == (Raw \X Mapping) \cup {NoAngle}
Outcome == {"ok"} \cup Faults

\* Every variable has its type.
TypeOK ==
  /\ angle_out \in Angle /\ last_raw15 \in Raw /\ attempted_raw15 \in Raw
  /\ consec_fail \in 0 .. FAIL_MAX /\ read_tick \in 0 .. HOUSEKEEPING - 1
  /\ last_pass \in BOOLEAN /\ g_cal \in Mapping
  /\ cfg_fail \in BOOLEAN /\ stale \in BOOLEAN
  /\ no_valid \in BOOLEAN /\ degraded \in BOOLEAN
  /\ crc_sticky \in BOOLEAN /\ stat_sticky \in BOOLEAN /\ resp_sticky \in BOOLEAN
  /\ crc_err \in 0 .. COUNT_MAX /\ stat_err \in 0 .. COUNT_MAX
  /\ no_resp \in 0 .. COUNT_MAX
  /\ boot \in 0 .. START_READS
  /\ configured \in BOOLEAN /\ s_rst \in BOOLEAN /\ sound \in BOOLEAN
  /\ outcome \in Outcome \cup {"none"} /\ source \in Outcome \cup {"none"}
  /\ streak \in 0 .. FAIL_MAX + 1
  /\ lost \in {"no", "corrupt", "housekeeping"}

----------------------------------------------------------------------------
(* Parts of a read                                                         *)

Compensate(raw, cal) == <<raw, cal>>

CompActive == g_cal # NoCal /\ ~cfg_fail

Publish(raw) ==
  /\ last_raw15' = raw
  /\ angle_out' = Compensate(raw, IF CompActive THEN g_cal ELSE NoCal)

Bump(n) == IF n = COUNT_MAX THEN n ELSE n + 1

WrapFail(n) == (n + 1) % (FAIL_MAX + 1)             \* a mutant: wraps
BumpFail(n) == IF n = FAIL_MAX THEN n ELSE n + 1

\* The evaluation order of angle_txn decides which cause a failure is booked
\* to; a reset has no counter of its own and is booked to the status counter.
Book(o) ==
  CASE o = "no_response" ->
         /\ no_resp' = Bump(no_resp) /\ resp_sticky' = TRUE
         /\ UNCHANGED <<crc_err, crc_sticky, stat_err, stat_sticky>>
    [] o = "crc" ->
         /\ crc_err' = Bump(crc_err) /\ crc_sticky' = TRUE
         /\ UNCHANGED <<no_resp, resp_sticky, stat_err, stat_sticky>>
    [] OTHER ->
         /\ stat_err' = Bump(stat_err) /\ stat_sticky' = TRUE
         /\ UNCHANGED <<no_resp, resp_sticky, crc_err, crc_sticky>>

ReadOk(raw) ==
  /\ outcome' = "ok" /\ streak' = 0
  /\ consec_fail' = 0 /\ last_pass' = TRUE
  /\ Publish(raw) /\ source' = "ok"
  /\ stale' = FALSE /\ no_valid' = FALSE /\ degraded' = FALSE
  /\ UNCHANGED errors

PassThrough(o) == o = "status" /\ BumpFail(consec_fail) >= PERSIST_FAIL

ReadFailed(o, raw) ==
  /\ outcome' = o
  /\ streak' = IF streak > FAIL_MAX THEN streak ELSE streak + 1
  /\ last_pass' = FALSE
  /\ consec_fail' = BumpFail(consec_fail)
  /\ Book(o)
  /\ IF PassThrough(o)
       THEN /\ Publish(raw) /\ source' = o
            /\ degraded' = TRUE /\ stale' = FALSE /\ no_valid' = FALSE
       ELSE /\ stale' = TRUE
            /\ UNCHANGED <<published, no_valid, degraded>>

\* S_RST shown in a word that is not looked at is not shown again.
Swallow(why) == s_rst /\ s_rst' = FALSE /\ lost' = why

\* config_lock: success means every register read back and every safety word
\* was clean, so the chip is configured; S_RST is expected and ignored.
ConfigLock ==
  /\ s_rst' = FALSE /\ lost' = "no"
  /\ \/ cfg_fail' = FALSE /\ configured' = TRUE
     \/ ~sound /\ cfg_fail' = TRUE /\ configured' \in BOOLEAN

ForgetConfig ==                 \* a mutant: the lock is not re-run on S_RST
  s_rst' = FALSE /\ UNCHANGED <<cfg_fail, configured, lost>>
Relock == ConfigLock

NoLockRetry == UNCHANGED <<cfg_fail, configured, s_rst, lost>>   \* a mutant
RetryLock == ConfigLock

\* The chip and the lock during a read: the lock is re-run on S_RST; on every
\* 16th read a failing lock is retried, or one housekeeping transaction made
\* whose S_RST nobody looks at.  Two locks in one read act as the second.
LockDuringRead(o, due) ==
  \/ o = "reset" /\ Relock
  \/ o # "reset" /\ due /\ cfg_fail /\ RetryLock
  \/ /\ o # "reset" /\ ~(due /\ cfg_fail)
     /\ \/ UNCHANGED <<s_rst, lost>>
        \/ due /\ Swallow("housekeeping")
        \/ o \in {"crc", "no_response"} /\ Swallow("corrupt")
     /\ UNCHANGED <<cfg_fail, configured>>

\* ker_sensor_read_angle.
Read(o, raw) ==
  /\ o \in {"ok", "status"} => ~s_rst
  /\ o = "reset" => s_rst
  /\ sound => o = "ok" \/ o = "reset"
  /\ attempted_raw15' = raw
  /\ \/ o = "ok" /\ ReadOk(raw)
     \/ o # "ok" /\ ReadFailed(o, raw)
  /\ read_tick' = (read_tick + 1) % HOUSEKEEPING
  /\ LockDuringRead(o, read_tick' = 0)
  /\ UNCHANGED <<g_cal, sound>>

----------------------------------------------------------------------------
(* Actions                                                                 *)

\* ker_sensor_start: up to START_READS attempts, until one passes.
StartRead(o, raw) ==
  /\ boot > 0
  /\ Read(o, raw)
  /\ boot' = IF last_pass' THEN 0 ELSE boot - 1

LoopRead(o, raw) ==
  /\ boot = 0
  /\ Read(o, raw)
  /\ UNCHANGED boot

\* ker_sensor_set_cal, from adopt_page after a COMMIT_CAL or SET_ID.
SetCal(c) ==
  /\ boot = 0
  /\ g_cal' = c
  /\ IF no_valid
       THEN UNCHANGED <<last_raw15, angle_out>>
       ELSE /\ last_raw15' = last_raw15
            /\ angle_out' = Compensate(last_raw15,
                              IF c # NoCal /\ ~cfg_fail THEN c ELSE NoCal)
  /\ UNCHANGED <<source, cfg_fail, live, errors, boot, chip, reading>>

ClearCounters ==
  /\ crc_err' = 0 /\ stat_err' = 0 /\ no_resp' = 0
  /\ crc_sticky' = FALSE /\ stat_sticky' = FALSE /\ resp_sticky' = FALSE

ClrErrCnt ==
  /\ boot = 0
  /\ ClearCounters
  /\ UNCHANGED <<published, g_cal, cfg_fail, live, boot, chip, reading>>

\* The chip resets by itself (external).
ChipReset ==
  /\ ~sound /\ "reset" \in Faults
  /\ configured' = FALSE /\ s_rst' = TRUE
  /\ UNCHANGED <<published, g_cal, cfg_fail, live, errors, boot, sound, lost, reading>>

\* From here on nothing disturbs the chip, its wires or the supply (external).
Settle ==
  /\ ~sound
  /\ sound' = TRUE
  /\ UNCHANGED <<published, g_cal, cfg_fail, live, errors, boot, configured, s_rst,
                 lost, reading>>

\* Reset of the module: everything but the chip starts again; the first lock
\* of ker_sensor_start follows t_pon.
Started(c) ==
  /\ g_cal' = c
  /\ angle_out' = NoAngle /\ last_raw15' = 0 /\ attempted_raw15' = 0
  /\ consec_fail' = 0 /\ read_tick' = 0 /\ last_pass' = FALSE
  /\ stale' = FALSE /\ no_valid' = TRUE /\ degraded' = FALSE
  /\ ClearCounters
  /\ boot' = START_READS
  /\ outcome' = "none" /\ source' = "none" /\ streak' = 0

Restart(c) == ~sound /\ Started(c) /\ ConfigLock /\ UNCHANGED sound

Init ==
  /\ g_cal \in Mapping
  /\ angle_out = NoAngle /\ last_raw15 = 0 /\ attempted_raw15 = 0
  /\ consec_fail = 0 /\ read_tick = 0 /\ last_pass = FALSE
  /\ stale = FALSE /\ no_valid = TRUE /\ degraded = FALSE
  /\ crc_err = 0 /\ stat_err = 0 /\ no_resp = 0
  /\ crc_sticky = FALSE /\ stat_sticky = FALSE /\ resp_sticky = FALSE
  /\ boot = START_READS
  /\ outcome = "none" /\ source = "none" /\ streak = 0
  /\ s_rst = FALSE /\ lost = "no" /\ sound = FALSE
  /\ cfg_fail \in BOOLEAN /\ configured \in BOOLEAN
  /\ cfg_fail = FALSE => configured

ReadStep == \E o \in Outcome, raw \in Raw : StartRead(o, raw) \/ LoopRead(o, raw)

Next ==
  \/ ReadStep
  \/ \E c \in Mapping : SetCal(c)
  \/ ClrErrCnt
  \/ ChipReset
  \/ Settle
  \/ \E c \in Mapping : Restart(c)

\* loop() reads at the latest SSC_INTERVAL_MS after the last read.
Spec == Init /\ [][Next]_vars /\ WF_vars(ReadStep)

----------------------------------------------------------------------------
(* Safety                                                                  *)

\* 4.7, GET_HEALTH: without a flag, the angle being sent is that of the last
\* transaction and it passed; DEGRADED means it failed a status check and
\* nothing worse; NO_VALID_ANGLE means the module sends 0.  (read_angle)
FlagsTellAngle ==
  /\ no_valid <=> source = "none"
  /\ no_valid <=> angle_out = NoAngle
  /\ degraded <=> source \notin {"none", "ok"}
  /\ degraded => source = "status"
  /\ ~no_valid => angle_out[1] = last_raw15
  /\ ~no_valid /\ ~stale => last_raw15 = attempted_raw15 /\ outcome = source

\* 6.2, the persistent-fault rule: from the PERSIST_FAIL-th failure in a row,
\* and for as long as the row lasts, a status-only failure is passed through;
\* until then, and for every other failure, the angle is held and flagged.
NeverFrozen ==
  outcome # "none" =>
    (stale <=> \/ outcome \in {"no_response", "crc", "reset"}
               \/ outcome = "status" /\ streak < PERSIST_FAIL)

\* 4.7, sticky bits: a sticky bit is set exactly while its counter is not zero,
\* however many errors there were.  (ker_cnt_bump, ker_health_clear_counters)
StickyMatchesCounters ==
  /\ crc_sticky <=> crc_err > 0
  /\ stat_sticky <=> stat_err > 0
  /\ resp_sticky <=> no_resp > 0

\* 6.2, configuration: while the lock counts as good and no S_RST is waiting,
\* the chip has the locked configuration -- unless an S_RST was shown in a word
\* whose CRC was bad, or to a housekeeping transaction.  (angle_txn, config_lock)
ConfigKnown == ~cfg_fail /\ ~s_rst /\ lost = "no" => configured

----------------------------------------------------------------------------
(* Liveness                                                                *)

\* 6.2: once the chip and the wires are sound the module returns by itself to
\* fresh, undegraded angles under the running calibration.  (housekeeping)
Recovers ==
  sound ~> [](/\ ~stale /\ ~degraded /\ ~no_valid /\ ~cfg_fail
              /\ angle_out = Compensate(last_raw15, g_cal))

----------------------------------------------------------------------------
(* A statement of the specification the code does not keep.                *)

\* 6.2: an S_RST shown outside the configuration lock re-runs the lock.
SRstNotIgnored == lost # "housekeeping"
=============================================================================
