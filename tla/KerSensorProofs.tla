-------------------------- MODULE KerSensorProofs --------------------------
(***************************************************************************)
(* Theorems about KerSensor, for every threshold, every limit of the       *)
(* counters, every period of the housekeeping and every set of faults, and *)
(* about KerLoop, which runs the sensor path inside loop(), for a receive  *)
(* buffer of any length.  Last, the status words in which the module       *)
(* reports all this: what the host tool makes of each (Protocol).          *)
(***************************************************************************)
EXTENDS KerLoop, Protocol, SequenceTheorems, TLAPS

\* TypeOK in parts: what a read publishes, the failure count and the tick,
\* the health word, the chip and the history.
PublishedType ==
  /\ angle_out \in Angle /\ last_raw15 \in Raw /\ attempted_raw15 \in Raw
  /\ g_cal \in Mapping
CountType ==
  /\ consec_fail \in 0 .. FAIL_MAX /\ read_tick \in 0 .. HOUSEKEEPING - 1
  /\ streak \in 0 .. FAIL_MAX + 1 /\ boot \in 0 .. START_READS
FlagType ==
  /\ last_pass \in BOOLEAN /\ cfg_fail \in BOOLEAN /\ stale \in BOOLEAN
  /\ no_valid \in BOOLEAN /\ degraded \in BOOLEAN
  /\ configured \in BOOLEAN /\ s_rst \in BOOLEAN /\ sound \in BOOLEAN
ErrorType ==
  /\ crc_sticky \in BOOLEAN /\ stat_sticky \in BOOLEAN /\ resp_sticky \in BOOLEAN
  /\ crc_err \in 0 .. COUNT_MAX /\ stat_err \in 0 .. COUNT_MAX
  /\ no_resp \in 0 .. COUNT_MAX
HistoryType ==
  /\ outcome \in Outcome \cup {"none"} /\ source \in Outcome \cup {"none"}
  /\ lost \in {"no", "corrupt", "housekeeping"}

LEMMA TypeParts ==
  /\ TypeOK <=> PublishedType /\ CountType /\ FlagType /\ ErrorType /\ HistoryType
  /\ TypeOK' <=> PublishedType' /\ CountType' /\ FlagType' /\ ErrorType' /\ HistoryType'
BY DEF TypeOK, PublishedType, CountType, FlagType, ErrorType, HistoryType

\* consec_fail is the length of the row of failures, up to its saturation.
CountsTheRow ==
  consec_fail = IF streak > FAIL_MAX THEN FAIL_MAX ELSE streak

IInv ==
  /\ TypeOK
  /\ FlagsTellAngle
  /\ CountsTheRow
  /\ NeverFrozen
  /\ StickyMatchesCounters
  /\ ConfigKnown

----------------------------------------------------------------------------
(* The parts of a read                                                     *)

LEMMA AnglesArePairs ==
  ASSUME NEW raw \in Raw, NEW c \in Mapping
  PROVE  /\ Compensate(raw, c) \in Angle /\ Compensate(raw, c) # NoAngle
         /\ Compensate(raw, c)[1] = raw
BY SensorAssumption DEF Compensate, Angle, Mapping

LEMMA PublishStep ==
  ASSUME PublishedType, NEW raw \in Raw, Publish(raw)
  PROVE  /\ last_raw15' = raw
         /\ angle_out' \in Angle /\ angle_out' # NoAngle /\ angle_out'[1] = raw
<1>1. (IF CompActive THEN g_cal ELSE NoCal) \in Mapping
  BY DEF PublishedType, Mapping
<1> QED BY <1>1, AnglesArePairs DEF Publish

LEMMA BookStep ==
  ASSUME ErrorType, StickyMatchesCounters, NEW o, Book(o)
  PROVE  ErrorType' /\ StickyMatchesCounters'
<1>1. COUNT_MAX \in Nat \ {0}
  BY SensorAssumption
<1>2. ASSUME NEW n \in 0 .. COUNT_MAX
      PROVE  Bump(n) \in 0 .. COUNT_MAX /\ Bump(n) > 0
  BY <1>1, <1>2 DEF Bump
<1>3. CASE o = "no_response"
  BY <1>1, <1>2, <1>3 DEF Book, ErrorType, StickyMatchesCounters
<1>4. CASE o = "crc"
  BY <1>1, <1>2, <1>4 DEF Book, ErrorType, StickyMatchesCounters
<1>5. CASE o # "no_response" /\ o # "crc"
  BY <1>1, <1>2, <1>5 DEF Book, ErrorType, StickyMatchesCounters
<1> QED BY <1>3, <1>4, <1>5

LEMMA RowStep ==
  ASSUME CountType, CountsTheRow,
         consec_fail' = BumpFail(consec_fail),
         streak' = IF streak > FAIL_MAX THEN streak ELSE streak + 1
  PROVE  /\ consec_fail' \in 0 .. FAIL_MAX /\ streak' \in 0 .. FAIL_MAX + 1
         /\ CountsTheRow'
         /\ BumpFail(consec_fail) >= PERSIST_FAIL <=> streak' >= PERSIST_FAIL
BY SensorAssumption DEF CountType, CountsTheRow, BumpFail

\* The lock during a read keeps what the module knows of the chip.
LEMMA LockStep ==
  ASSUME FlagType, lost \in {"no", "corrupt", "housekeeping"}, ConfigKnown,
         NEW o, NEW due, LockDuringRead(o, due)
  PROVE  /\ cfg_fail' \in BOOLEAN /\ configured' \in BOOLEAN /\ s_rst' \in BOOLEAN
         /\ lost' \in {"no", "corrupt", "housekeeping"}
         /\ ConfigKnown'
<1>1. CASE ConfigLock
  BY <1>1 DEF ConfigLock, ConfigKnown
<1>2. CASE /\ UNCHANGED <<s_rst, lost>> \/ Swallow("housekeeping") \/ Swallow("corrupt")
           /\ UNCHANGED <<cfg_fail, configured>>
  BY <1>2 DEF Swallow, ConfigKnown, FlagType
<1> QED BY <1>1, <1>2 DEF LockDuringRead, Relock, RetryLock

----------------------------------------------------------------------------
(* A read keeps the invariant                                              *)

LEMMA ReadOkStep ==
  ASSUME IInv, NEW raw \in Raw, ReadOk(raw), attempted_raw15' = raw
  PROVE  /\ PublishedType' \/ g_cal' # g_cal
         /\ consec_fail' \in 0 .. FAIL_MAX /\ streak' \in 0 .. FAIL_MAX + 1
         /\ last_pass' \in BOOLEAN /\ stale' \in BOOLEAN
         /\ no_valid' \in BOOLEAN /\ degraded' \in BOOLEAN
         /\ outcome' \in Outcome /\ source' \in Outcome
         /\ ErrorType' /\ FlagsTellAngle' /\ CountsTheRow' /\ NeverFrozen'
         /\ StickyMatchesCounters'
<1>1. PublishedType /\ ErrorType /\ StickyMatchesCounters
  BY TypeParts DEF IInv
<1>2. /\ last_raw15' = raw /\ angle_out' \in Angle
      /\ angle_out' # NoAngle /\ angle_out'[1] = raw
  BY <1>1, PublishStep DEF ReadOk
<1>3. "ok" \in Outcome
  BY DEF Outcome
<1>4. FlagsTellAngle'
  BY <1>2 DEF ReadOk, FlagsTellAngle
<1>5. NeverFrozen'
  BY DEF ReadOk, NeverFrozen
<1>6. CountsTheRow' /\ consec_fail' \in 0 .. FAIL_MAX /\ streak' \in 0 .. FAIL_MAX + 1
  BY SensorAssumption DEF ReadOk, CountsTheRow
<1>7. ErrorType' /\ StickyMatchesCounters'
  BY <1>1 DEF ReadOk, errors, ErrorType, StickyMatchesCounters
<1> QED BY <1>1, <1>2, <1>3, <1>4, <1>5, <1>6, <1>7 DEF ReadOk, PublishedType

LEMMA ReadFailedStep ==
  ASSUME IInv, NEW o \in Outcome, o # "ok", NEW raw \in Raw, ReadFailed(o, raw),
         attempted_raw15' = raw
  PROVE  /\ PublishedType' \/ g_cal' # g_cal
         /\ consec_fail' \in 0 .. FAIL_MAX /\ streak' \in 0 .. FAIL_MAX + 1
         /\ last_pass' \in BOOLEAN /\ stale' \in BOOLEAN
         /\ no_valid' \in BOOLEAN /\ degraded' \in BOOLEAN
         /\ outcome' \in Outcome /\ source' \in Outcome \cup {"none"}
         /\ ErrorType' /\ FlagsTellAngle' /\ CountsTheRow' /\ NeverFrozen'
         /\ StickyMatchesCounters'
<1>1. /\ PublishedType /\ CountType /\ FlagType /\ ErrorType /\ HistoryType
      /\ FlagsTellAngle /\ CountsTheRow /\ StickyMatchesCounters
  BY TypeParts DEF IInv
<1>2. ErrorType' /\ StickyMatchesCounters'
  BY <1>1, BookStep DEF ReadFailed
<1>3. /\ consec_fail' \in 0 .. FAIL_MAX /\ streak' \in 0 .. FAIL_MAX + 1
      /\ CountsTheRow'
      /\ BumpFail(consec_fail) >= PERSIST_FAIL <=> streak' >= PERSIST_FAIL
  BY <1>1, RowStep DEF ReadFailed
<1>4. streak' < PERSIST_FAIL <=> ~(streak' >= PERSIST_FAIL)
  BY <1>3, SensorAssumption
<1>5. o \in {"no_response", "crc", "reset", "status"}
  BY SensorAssumption DEF Outcome
<1>6. CASE PassThrough(o)
  <2>1. o = "status" /\ streak' >= PERSIST_FAIL
    BY <1>3, <1>6 DEF PassThrough
  <2>2. /\ Publish(raw) /\ source' = o
        /\ degraded' = TRUE /\ stale' = FALSE /\ no_valid' = FALSE
    BY <1>6 DEF ReadFailed
  <2>3. /\ last_raw15' = raw /\ angle_out' \in Angle
        /\ angle_out' # NoAngle /\ angle_out'[1] = raw
    BY <1>1, <2>2, PublishStep
  <2>4. FlagsTellAngle'
    BY <2>1, <2>2, <2>3 DEF ReadFailed, FlagsTellAngle
  <2>5. NeverFrozen'
    BY <1>4, <2>1, <2>2 DEF ReadFailed, NeverFrozen
  <2> QED BY <1>1, <1>2, <1>3, <2>2, <2>3, <2>4, <2>5 DEF ReadFailed, PublishedType
<1>7. CASE ~PassThrough(o)
  <2>1. stale' = TRUE /\ UNCHANGED <<published, no_valid, degraded>>
    BY <1>7 DEF ReadFailed
  <2>2. ~(o = "status" /\ streak' >= PERSIST_FAIL)
    BY <1>3, <1>7 DEF PassThrough
  <2>3. FlagsTellAngle'
    BY <1>1, <2>1 DEF FlagsTellAngle, published
  <2>4. NeverFrozen'
    BY <1>4, <1>5, <2>1, <2>2 DEF ReadFailed, NeverFrozen
  <2> QED
    BY <1>1, <1>2, <1>3, <2>1, <2>3, <2>4
    DEF ReadFailed, PublishedType, FlagType, HistoryType, published
<1> QED BY <1>6, <1>7

LEMMA ReadKeeps ==
  ASSUME IInv, NEW o \in Outcome, NEW raw \in Raw, Read(o, raw)
  PROVE  /\ PublishedType' /\ FlagType' /\ ErrorType' /\ HistoryType'
         /\ consec_fail' \in 0 .. FAIL_MAX /\ streak' \in 0 .. FAIL_MAX + 1
         /\ read_tick' \in 0 .. HOUSEKEEPING - 1
         /\ FlagsTellAngle' /\ CountsTheRow' /\ NeverFrozen'
         /\ StickyMatchesCounters' /\ ConfigKnown'
<1>1. /\ PublishedType /\ CountType /\ FlagType /\ HistoryType /\ ConfigKnown
  BY TypeParts DEF IInv
<1>2. /\ cfg_fail' \in BOOLEAN /\ configured' \in BOOLEAN /\ s_rst' \in BOOLEAN
      /\ lost' \in {"no", "corrupt", "housekeeping"}
      /\ ConfigKnown'
  BY <1>1, LockStep DEF Read, HistoryType
<1>3. read_tick' \in 0 .. HOUSEKEEPING - 1
  BY <1>1, SensorAssumption DEF Read, CountType
<1>4. /\ PublishedType'
      /\ consec_fail' \in 0 .. FAIL_MAX /\ streak' \in 0 .. FAIL_MAX + 1
      /\ last_pass' \in BOOLEAN /\ stale' \in BOOLEAN
      /\ no_valid' \in BOOLEAN /\ degraded' \in BOOLEAN
      /\ outcome' \in Outcome /\ source' \in Outcome \cup {"none"}
      /\ ErrorType' /\ FlagsTellAngle' /\ CountsTheRow' /\ NeverFrozen'
      /\ StickyMatchesCounters'
  <2>1. g_cal' = g_cal /\ attempted_raw15' = raw
    BY DEF Read
  <2>2. CASE ReadOk(raw)
    BY <2>1, <2>2, ReadOkStep
  <2>3. CASE o # "ok" /\ ReadFailed(o, raw)
    BY <2>1, <2>3, ReadFailedStep
  <2> QED BY <2>2, <2>3 DEF Read
<1> QED BY <1>1, <1>2, <1>3, <1>4 DEF Read, FlagType, HistoryType

----------------------------------------------------------------------------
(* The inductive invariant                                                 *)

LEMMA NoErrors == 0 \in 0 .. COUNT_MAX /\ ~(0 > 0)
BY SensorAssumption

LEMMA InitIInv == Init => IInv
<1> SUFFICES ASSUME Init PROVE IInv
  OBVIOUS
<1> USE SensorAssumption
<1>1. PublishedType
  BY DEF Init, PublishedType, Angle
<1>2. CountType /\ CountsTheRow
  BY DEF Init, CountType, CountsTheRow
<1>3. ErrorType /\ StickyMatchesCounters
  BY NoErrors DEF Init, ErrorType, StickyMatchesCounters
<1>4. FlagType /\ HistoryType
  BY DEF Init, FlagType, HistoryType
<1>5. FlagsTellAngle /\ NeverFrozen /\ ConfigKnown
  BY DEF Init, FlagsTellAngle, NeverFrozen, ConfigKnown
<1> QED BY <1>1, <1>2, <1>3, <1>4, <1>5, TypeParts DEF IInv

LEMMA ReadStepKeeps ==
  ASSUME IInv, NEW o \in Outcome, NEW raw \in Raw,
         StartRead(o, raw) \/ LoopRead(o, raw)
  PROVE  IInv'
<1>1. Read(o, raw)
  BY DEF StartRead, LoopRead
<1>2. boot' \in 0 .. START_READS
  <2>1. boot \in 0 .. START_READS
    BY DEF IInv, TypeOK
  <2>2. boot' = boot \/ boot' = 0 \/ (boot > 0 /\ boot' = boot - 1)
    BY DEF StartRead, LoopRead
  <2> QED BY <2>1, <2>2, SensorAssumption
<1>3. CountType'
  BY <1>1, <1>2, ReadKeeps DEF CountType
<1> QED BY <1>1, <1>3, ReadKeeps, TypeParts DEF IInv

LEMMA RestartKeeps ==
  ASSUME IInv, NEW c \in Mapping, Restart(c)
  PROVE  IInv'
<1> USE SensorAssumption
<1>1. PublishedType'
  BY DEF Restart, Started, PublishedType, Angle
<1>2. CountType' /\ CountsTheRow'
  BY DEF Restart, Started, CountType, CountsTheRow
<1>3. ErrorType' /\ StickyMatchesCounters'
  BY NoErrors DEF Restart, Started, ClearCounters, ErrorType, StickyMatchesCounters
<1>4. FlagType' /\ HistoryType' /\ ConfigKnown'
  BY DEF Restart, Started, ConfigLock, FlagType, HistoryType, ConfigKnown, IInv, TypeOK
<1>5. FlagsTellAngle' /\ NeverFrozen'
  BY DEF Restart, Started, FlagsTellAngle, NeverFrozen
<1> QED BY <1>1, <1>2, <1>3, <1>4, <1>5, TypeParts DEF IInv

LEMMA SetCalKeeps ==
  ASSUME IInv, NEW c \in Mapping, SetCal(c)
  PROVE  IInv'
<1>1. /\ PublishedType /\ CountType /\ FlagType /\ ErrorType /\ HistoryType
      /\ FlagsTellAngle /\ CountsTheRow /\ NeverFrozen
      /\ StickyMatchesCounters /\ ConfigKnown
  BY TypeParts DEF IInv
<1>2. (IF c # NoCal /\ ~cfg_fail THEN c ELSE NoCal) \in Mapping
  BY DEF Mapping
<1>3. PublishedType' /\ FlagsTellAngle'
  <2>1. CASE no_valid
    BY <1>1, <2>1 DEF SetCal, PublishedType, FlagsTellAngle, live, reading
  <2>2. CASE ~no_valid
    <3>1. /\ angle_out' \in Angle /\ angle_out' # NoAngle
          /\ angle_out'[1] = last_raw15 /\ last_raw15' = last_raw15
      BY <1>1, <1>2, <2>2, AnglesArePairs DEF SetCal, PublishedType
    <3> QED
      BY <1>1, <2>2, <3>1 DEF SetCal, PublishedType, FlagsTellAngle, live, reading
  <2> QED BY <2>1, <2>2
<1>4. CountType' /\ CountsTheRow'
  BY <1>1 DEF SetCal, reading, CountType, CountsTheRow
<1>5. FlagType' /\ HistoryType'
  BY <1>1 DEF SetCal, live, chip, reading, FlagType, HistoryType
<1>6. ErrorType' /\ StickyMatchesCounters'
  BY <1>1 DEF SetCal, errors, ErrorType, StickyMatchesCounters
<1>7. NeverFrozen' /\ ConfigKnown'
  BY <1>1 DEF SetCal, live, chip, reading, NeverFrozen, ConfigKnown
<1> QED BY <1>3, <1>4, <1>5, <1>6, <1>7, TypeParts DEF IInv

LEMMA OtherStepsKeep ==
  ASSUME IInv, ClrErrCnt \/ ChipReset \/ Settle \/ UNCHANGED vars
  PROVE  IInv'
<1>1. /\ PublishedType /\ CountType /\ FlagType /\ ErrorType /\ HistoryType
      /\ FlagsTellAngle /\ CountsTheRow /\ NeverFrozen
      /\ StickyMatchesCounters /\ ConfigKnown
  BY TypeParts DEF IInv
<1>2. UNCHANGED <<published, g_cal, live, boot, reading>>
  BY DEF ClrErrCnt, ChipReset, Settle, vars
<1>3. PublishedType' /\ CountType' /\ CountsTheRow' /\ FlagsTellAngle' /\ NeverFrozen'
  BY <1>1, <1>2 DEF published, live, reading, PublishedType, CountType, CountsTheRow,
                    FlagsTellAngle, NeverFrozen
<1>4. ErrorType' /\ StickyMatchesCounters'
  <2>1. CASE ClrErrCnt
    BY <2>1, NoErrors
    DEF ClrErrCnt, ClearCounters, ErrorType, StickyMatchesCounters
  <2>2. CASE UNCHANGED errors
    BY <1>1, <2>2 DEF errors, ErrorType, StickyMatchesCounters
  <2> QED BY <2>1, <2>2 DEF ChipReset, Settle, vars
<1>5. FlagType' /\ HistoryType' /\ ConfigKnown'
  <2>1. CASE UNCHANGED <<cfg_fail, chip>>
    BY <1>1, <1>2, <2>1 DEF published, live, chip, reading, FlagType, HistoryType,
                            ConfigKnown
  <2>2. CASE ChipReset
    BY <1>1, <1>2, <2>2 DEF ChipReset, published, live, reading, FlagType, HistoryType,
                            ConfigKnown
  <2>3. CASE Settle
    BY <1>1, <1>2, <2>3 DEF Settle, published, live, reading, FlagType, HistoryType,
                            ConfigKnown
  <2> QED BY <2>1, <2>2, <2>3 DEF ClrErrCnt, vars
<1> QED BY <1>3, <1>4, <1>5, TypeParts DEF IInv

LEMMA NextKeeps == ASSUME IInv, [Next]_vars PROVE IInv'
BY ReadStepKeeps, RestartKeeps, SetCalKeeps, OtherStepsKeep DEF Next, ReadStep

\* The health word, the counters and the chip's configuration stay as the
\* properties say in every step of the sensor path.  (ker_sensor.cpp)
THEOREM Inductive == Spec => []IInv
BY NextKeeps, InitIInv, PTL DEF Spec

----------------------------------------------------------------------------
(* What follows                                                            *)

\* Every variable keeps its type.
THEOREM TypeCorrect == Spec => []TypeOK
BY Inductive, PTL DEF IInv

\* The flags of GET_HEALTH tell what the angle that is sent is.  (read_angle)
THEOREM FlagsAreTrue == Spec => []FlagsTellAngle
BY Inductive, PTL DEF IInv

\* The persistent-fault rule: held exactly until the PERSIST_FAIL-th failure
\* of the row, also when the row outlasts the counter.  (ker_sensor_read_angle)
THEOREM PersistentFaultRule == Spec => []NeverFrozen
BY Inductive, PTL DEF IInv

\* Sticky bits and counters agree, also when counters saturate.  (ker_cnt_bump)
THEOREM StickyIsCounted == Spec => []StickyMatchesCounters
BY Inductive, PTL DEF IInv

\* A good lock means a configured chip unless an S_RST was lost.  (config_lock)
THEOREM ConfigurationKnown == Spec => []ConfigKnown
BY Inductive, PTL DEF IInv

----------------------------------------------------------------------------
(* KerLoop: the variables of the loop                                      *)

\* LoopTypeOK in parts: the turn and its buffer, the latch.
TurnType ==
  /\ pc \in {"frame", "read"} /\ rx \in Seq(Frame) /\ Len(rx) <= RxMax
  /\ do_ssc_read \in BOOLEAN /\ interval \in BOOLEAN
  /\ gate_open \in BOOLEAN /\ smp_active \in BOOLEAN /\ read_since \in BOOLEAN
  /\ latest_angle_21bit \in Angle
  /\ sent \in Angle \cup {Silent} /\ comp \in Angle \cup {Silent}
LatchType ==
  /\ latched_angle \in Angle /\ latched_raw15 \in Raw
  /\ latch_valid \in BOOLEAN /\ latch_count \in 0 .. LatchMod - 1
  /\ latch_any \in BOOLEAN /\ latch_passed \in BOOLEAN

LEMMA LoopTypeParts == LoopTypeOK <=> TypeOK /\ TurnType /\ LatchType
BY DEF LoopTypeOK, TurnType, LatchType

\* last_pass says what the last transaction came to.
PassIsOutcome == last_pass \in BOOLEAN /\ (last_pass <=> outcome = "ok")

\* The copy of the angle main.cpp keeps is of the published reading; setup()
\* reads, and publishes, before there is a copy.
CacheIsPublished ==
  latest_angle_21bit # NoAngle => latest_angle_21bit[1] = last_raw15 /\ boot = 0

\* A reply that was not followed by a read yet has asked for one, in the
\* second half of the same turn.
ReplyAsksRead == ~read_since => pc = "read" /\ do_ssc_read

LoopIInv ==
  /\ IInv /\ TurnType /\ LatchType
  /\ PassIsOutcome /\ CacheIsPublished /\ ReplyAsksRead
  /\ SentIsPublished /\ LatchTellsTruth

----------------------------------------------------------------------------
(* Every step of the loop is a step of the sensor path, or leaves it alone *)

LEMMA HeadIsFrame ==
  ASSUME TurnType, rx # <<>>
  PROVE  Head(rx) \in Frame /\ Tail(rx) \in Seq(Frame) /\ Len(Tail(rx)) <= RxMax
<1>1. rx \in Seq(Frame) /\ Len(rx) <= RxMax /\ RxMax \in Nat
  BY LoopAssumption DEF TurnType
<1>2. Head(rx) \in Frame /\ Tail(rx) \in Seq(Frame) /\ Len(Tail(rx)) = Len(rx) - 1
  BY <1>1, HeadTailProperties
<1>3. Len(rx) \in Nat /\ Len(Tail(rx)) \in Nat
  BY <1>1, <1>2
<1> QED BY <1>1, <1>2, <1>3

LEMMA FrameOnSensor ==
  ASSUME NEW f \in Frame, HandleFrame(f), boot = 0
  PROVE  UNCHANGED vars \/ \E c \in Mapping : SetCal(c)
<1>1. f.kind = "commit" => f.cal \in Mapping
  BY DEF Frame
<1> QED BY <1>1 DEF HandleFrame, CascadeHeard, OpenGateFrame

LEMMA LoopStepIsSensorStep == TurnType /\ [LoopNext]_allvars => [Next]_vars
<1> SUFFICES ASSUME TurnType, [LoopNext]_allvars PROVE [Next]_vars
  OBVIOUS
<1>1. CASE \E o \in Outcome, raw \in Raw : SetupRead(o, raw) \/ TurnRead(o, raw)
  BY <1>1 DEF SetupRead, TurnRead, Next, ReadStep
<1>2. CASE TakeFrame
  BY <1>2, HeadIsFrame, FrameOnSensor DEF TakeFrame, Next
<1>3. CASE Chip
  BY <1>3 DEF Chip, Next
<1>4. CASE \E c \in Mapping : ModuleReset(c)
  BY <1>4 DEF ModuleReset, Next
<1>5. CASE \/ NoFrame \/ NoRead \/ IntervalElapses \/ GateOpens
           \/ \E f \in Frame : Arrive(f)
           \/ UNCHANGED allvars
  BY <1>5 DEF NoFrame, NoRead, IntervalElapses, GateOpens, Arrive, allvars
<1> QED BY <1>1, <1>2, <1>3, <1>4, <1>5 DEF LoopNext, Turn

LEMMA ReadPasses ==
  ASSUME NEW o, NEW raw, Read(o, raw)
  PROVE  PassIsOutcome'
BY DEF Read, ReadOk, ReadFailed, PassIsOutcome

\* What a sensor step leaves of the published reading.
LEMMA SensorKeepsPass ==
  ASSUME PassIsOutcome, [Next]_vars
  PROVE  PassIsOutcome'
<1>1. CASE ReadStep
  BY <1>1, ReadPasses DEF ReadStep, StartRead, LoopRead
<1>2. CASE \E c \in Mapping : SetCal(c)
  BY <1>2 DEF SetCal, reading, PassIsOutcome
<1>3. CASE \E c \in Mapping : Restart(c)
  BY <1>3 DEF Restart, Started, PassIsOutcome
<1>4. CASE ClrErrCnt \/ ChipReset \/ Settle \/ UNCHANGED vars
  BY <1>4 DEF ClrErrCnt, ChipReset, Settle, vars, reading, PassIsOutcome
<1> QED BY <1>1, <1>2, <1>3, <1>4 DEF Next

----------------------------------------------------------------------------
(* The actions of the loop keep the invariant                              *)

LEMMA LatchStep ==
  ASSUME IInv, PassIsOutcome, LatchType, DoLatch
  PROVE  LatchType' /\ LatchTellsTruth'
<1>1. FlagsTellAngle /\ angle_out \in Angle /\ last_raw15 \in Raw
      /\ stale \in BOOLEAN /\ degraded \in BOOLEAN /\ no_valid \in BOOLEAN
  BY DEF IInv, TypeOK
<1>2. LatchIsValid => last_pass /\ angle_out[1] = last_raw15
  BY <1>1 DEF LatchIsValid, FlagsTellAngle, PassIsOutcome
<1>3. LatchTellsTruth'
  BY <1>2 DEF DoLatch, LatchTellsTruth
<1>4. (latch_count + 1) % LatchMod \in 0 .. LatchMod - 1
  BY LoopAssumption DEF LatchType
<1>5. LatchIsValid \in BOOLEAN
  BY DEF LatchIsValid
<1> QED BY <1>1, <1>3, <1>4, <1>5 DEF DoLatch, LatchType, PassIsOutcome

LEMMA TakeFrameKeeps ==
  ASSUME LoopIInv, TakeFrame
  PROVE  /\ TurnType' /\ LatchType' /\ CacheIsPublished' /\ ReplyAsksRead'
         /\ SentIsPublished' /\ LatchTellsTruth'
<1> DEFINE f == Head(rx)
<1>1. /\ f \in Frame /\ HandleFrame(f) /\ boot = 0 /\ pc = "frame"
      /\ rx' \in Seq(Frame) /\ Len(rx') <= RxMax
      /\ pc' = "read" /\ UNCHANGED <<latest_angle_21bit, interval>>
  BY HeadIsFrame DEF LoopIInv, TakeFrame
<1> HIDE DEF f
<1>2. last_raw15' = last_raw15 /\ boot' = boot
  BY <1>1, FrameOnSensor DEF SetCal, vars, published
<1>3. sent' \in {Silent, latest_angle_21bit}
  BY <1>1 DEF HandleFrame, CascadeReply
<1>4. /\ do_ssc_read' \in BOOLEAN /\ gate_open' \in BOOLEAN /\ smp_active' \in BOOLEAN
      /\ read_since' \in BOOLEAN /\ comp' \in Angle \cup {Silent}
      /\ ~read_since' => do_ssc_read'
  <2>1. /\ do_ssc_read \in BOOLEAN /\ gate_open \in BOOLEAN /\ smp_active \in BOOLEAN
        /\ read_since \in BOOLEAN /\ angle_out \in Angle /\ (~read_since => pc = "read")
    BY DEF LoopIInv, IInv, TypeOK, TurnType, ReplyAsksRead
  <2>2. CASE CascadeReply /\ CascadeHeard
    BY <2>2 DEF CascadeReply, CascadeHeard, AfterReply
  <2>3. CASE CascadeHeard /\ UNCHANGED <<do_ssc_read, read_since>>
    BY <1>1, <2>1, <2>3 DEF CascadeHeard
  <2>4. CASE /\ OpenGateFrame(f) \/ (comp' = Silent /\ UNCHANGED smp_active)
             /\ UNCHANGED <<gate_open, do_ssc_read, read_since>>
    <3>1. comp' \in {Silent, angle_out} /\ smp_active' \in {TRUE, smp_active}
      BY <2>4 DEF OpenGateFrame
    <3> QED BY <1>1, <2>1, <2>4, <3>1
  <2> QED BY <1>1, <2>2, <2>3, <2>4 DEF HandleFrame
<1>5. TurnType'
  BY <1>1, <1>3, <1>4 DEF LoopIInv, TurnType
<1>6. LatchType' /\ LatchTellsTruth'
  <2>1. CASE UNCHANGED latch
    BY <2>1 DEF LoopIInv, latch, LatchType, LatchTellsTruth
  <2>2. CASE DoLatch
    BY <2>2, LatchStep DEF LoopIInv
  <2> QED BY <1>1, <2>1, <2>2 DEF HandleFrame, CascadeHeard, OpenGateFrame
<1> QED
  BY <1>1, <1>2, <1>3, <1>4, <1>5, <1>6
  DEF LoopIInv, CacheIsPublished, SentIsPublished, ReplyAsksRead

\* A read of either kind publishes into angle_out, and loop() copies that.
LEMMA ReadsKeep ==
  ASSUME LoopIInv, IInv', NEW o \in Outcome, NEW raw \in Raw,
         SetupRead(o, raw) \/ TurnRead(o, raw)
  PROVE  /\ TurnType' /\ LatchType' /\ ReplyAsksRead' /\ SentIsPublished'
         /\ LatchTellsTruth'
<1>1. UNCHANGED latch /\ Quietly /\ rx' = rx
  BY DEF SetupRead, TurnRead, loop
<1>2. LatchType' /\ LatchTellsTruth' /\ SentIsPublished'
  BY <1>1 DEF LoopIInv, latch, Quietly, LatchType, LatchTellsTruth, SentIsPublished
<1>3. angle_out' \in Angle
  BY DEF IInv, TypeOK
<1>4. TurnType' /\ ReplyAsksRead'
  BY <1>1, <1>3 DEF LoopIInv, SetupRead, TurnRead, Cache, loop, Quietly, TurnType,
                    ReplyAsksRead
<1> QED BY <1>2, <1>4

\* After a read the cached angle is of what was published, also a held one.
LEMMA CacheKeeps ==
  ASSUME LoopIInv, IInv', NEW o \in Outcome, NEW raw \in Raw,
         SetupRead(o, raw) \/ TurnRead(o, raw)
  PROVE  CacheIsPublished'
<1>1. angle_out' # NoAngle => angle_out'[1] = last_raw15'
  BY DEF IInv, FlagsTellAngle
<1>2. CASE TurnRead(o, raw)
  BY <1>1, <1>2 DEF TurnRead, LoopRead, Cache, CacheIsPublished
<1>3. CASE SetupRead(o, raw)
  <2>1. boot > 0 /\ latest_angle_21bit' = latest_angle_21bit
    BY <1>3 DEF SetupRead, StartRead, loop
  <2> QED BY <2>1 DEF LoopIInv, CacheIsPublished
<1> QED BY <1>2, <1>3

LEMMA ResetKeeps ==
  ASSUME NEW c \in Mapping, ModuleReset(c)
  PROVE  /\ TurnType' /\ LatchType' /\ CacheIsPublished' /\ ReplyAsksRead'
         /\ SentIsPublished' /\ LatchTellsTruth'
<1>1. NoAngle \in Angle /\ 0 \in Raw /\ 0 \in 0 .. LatchMod - 1
  BY SensorAssumption, LoopAssumption DEF Angle
<1>2. <<>> \in Seq(Frame) /\ Len(<<>>) <= RxMax
  BY LoopAssumption
<1> QED
  BY <1>1, <1>2
  DEF ModuleReset, Quietly, TurnType, LatchType, CacheIsPublished, ReplyAsksRead,
      SentIsPublished, LatchTellsTruth

LEMMA OtherLoopStepsKeep ==
  ASSUME LoopIInv,
         \/ NoFrame \/ NoRead \/ IntervalElapses \/ GateOpens \/ Chip
         \/ \E f \in Frame : Arrive(f)
         \/ UNCHANGED allvars
  PROVE  /\ TurnType' /\ LatchType' /\ CacheIsPublished' /\ ReplyAsksRead'
         /\ SentIsPublished' /\ LatchTellsTruth'
<1>1. UNCHANGED <<latch, last_raw15, boot, latest_angle_21bit, do_ssc_read, read_since>>
  <2>1. CASE Chip
    BY <2>1 DEF Chip, ChipReset, Settle, loop, published
  <2>2. CASE UNCHANGED allvars
    BY <2>2 DEF allvars, loop, vars, published
  <2> QED BY <2>1, <2>2 DEF NoFrame, NoRead, IntervalElapses, GateOpens, Arrive, vars, published
<1>2. Quietly \/ UNCHANGED bus
  BY DEF NoFrame, NoRead, IntervalElapses, GateOpens, Chip, Arrive, allvars
<1>3. LatchType' /\ LatchTellsTruth' /\ CacheIsPublished' /\ SentIsPublished'
  BY <1>1, <1>2 DEF LoopIInv, latch, bus, Quietly, LatchType, LatchTellsTruth,
                    CacheIsPublished, SentIsPublished
<1>4. ReplyAsksRead'
  BY <1>1 DEF LoopIInv, ReplyAsksRead, NoFrame, NoRead, ReadDue, IntervalElapses,
              GateOpens, Chip, Arrive, allvars, loop
<1>5. rx' \in Seq(Frame) /\ Len(rx') <= RxMax
  <2>1. rx \in Seq(Frame) /\ Len(rx) <= RxMax /\ Len(rx) \in Nat /\ RxMax \in Nat
    BY LoopAssumption DEF LoopIInv, TurnType
  <2>2. ASSUME NEW f \in Frame, Arrive(f) PROVE rx' \in Seq(Frame) /\ Len(rx') <= RxMax
    <3>1. rx' = Append(rx, f) /\ Len(rx) < RxMax
      BY <2>2 DEF Arrive
    <3>2. Append(rx, f) \in Seq(Frame) /\ Len(Append(rx, f)) = Len(rx) + 1
      BY <2>1
    <3> QED BY <2>1, <3>1, <3>2
  <2>3. (\E f \in Frame : Arrive(f)) \/ rx' = rx
    BY DEF NoFrame, NoRead, IntervalElapses, GateOpens, Chip, allvars, loop
  <2> QED BY <2>1, <2>2, <2>3
<1>6. TurnType'
  <2>1. sent' \in Angle \cup {Silent} /\ comp' \in Angle \cup {Silent}
    BY <1>2 DEF LoopIInv, TurnType, Quietly, bus
  <2>2. pc' \in {"frame", "read"} /\ interval' \in BOOLEAN
        /\ gate_open' \in BOOLEAN /\ smp_active' \in BOOLEAN
    BY DEF LoopIInv, TurnType, NoFrame, NoRead, IntervalElapses, GateOpens, Chip, Arrive,
           allvars, loop
  <2> QED BY <1>1, <1>5, <2>1, <2>2 DEF LoopIInv, TurnType
<1> QED BY <1>3, <1>4, <1>6

LEMMA LoopInitInv == LoopInit => LoopIInv
<1> SUFFICES ASSUME LoopInit PROVE LoopIInv
  OBVIOUS
<1>1. NoAngle \in Angle /\ 0 \in Raw /\ 0 \in 0 .. LatchMod - 1
  BY SensorAssumption, LoopAssumption DEF Angle
<1>2. <<>> \in Seq(Frame) /\ Len(<<>>) <= RxMax
  BY LoopAssumption
<1>3. IInv
  BY InitIInv DEF LoopInit
<1>4. PassIsOutcome
  BY DEF LoopInit, Init, PassIsOutcome
<1> QED
  BY <1>1, <1>2, <1>3, <1>4
  DEF LoopInit, LoopIInv, TurnType, LatchType, CacheIsPublished, ReplyAsksRead,
      SentIsPublished, LatchTellsTruth

LEMMA LoopKeeps == LoopIInv /\ [LoopNext]_allvars => LoopIInv'
<1> SUFFICES ASSUME LoopIInv, [LoopNext]_allvars PROVE LoopIInv'
  OBVIOUS
<1>1. [Next]_vars
  BY LoopStepIsSensorStep DEF LoopIInv
<1>2. IInv' /\ PassIsOutcome'
  BY <1>1, NextKeeps, SensorKeepsPass DEF LoopIInv
<1>3. ASSUME NEW o \in Outcome, NEW raw \in Raw, SetupRead(o, raw) \/ TurnRead(o, raw)
      PROVE  LoopIInv'
  BY <1>2, <1>3, ReadsKeep, CacheKeeps DEF LoopIInv
<1>4. CASE TakeFrame
  BY <1>2, <1>4, TakeFrameKeeps DEF LoopIInv
<1>5. CASE \E c \in Mapping : ModuleReset(c)
  BY <1>2, <1>5, ResetKeeps DEF LoopIInv
<1>6. CASE \/ NoFrame \/ NoRead \/ IntervalElapses \/ GateOpens \/ Chip
           \/ \E f \in Frame : Arrive(f)
           \/ UNCHANGED allvars
  BY <1>2, <1>6, OtherLoopStepsKeep DEF LoopIInv
<1> QED BY <1>3, <1>4, <1>5, <1>6 DEF LoopNext, Turn

\* Sensor, cache, turn and latch stay consistent in every step of loop().
THEOREM LoopInductive == LoopSpec => []LoopIInv
BY LoopInitInv, LoopKeeps, PTL DEF LoopSpec

----------------------------------------------------------------------------
(* What follows for the loop                                               *)

\* Every variable of the loop keeps its type, the receive buffer its bound.
THEOREM LoopTypeCorrect == LoopSpec => []LoopTypeOK
<1>1. LoopIInv => LoopTypeOK
  BY LoopTypeParts DEF LoopIInv, IInv
<1> QED BY <1>1, LoopInductive, PTL

\* loop() drives the sensor path only in the ways KerSensor describes, so that
\* what is proved of the sensor path holds of it inside the loop.  (main.cpp)
THEOREM LoopDrivesSensor == LoopSpec => Init /\ [][Next]_vars
<1>1. LoopInit => Init
  BY DEF LoopInit
<1>2. LoopIInv /\ [LoopNext]_allvars => [Next]_vars
  BY LoopStepIsSensorStep DEF LoopIInv
<1> QED BY <1>1, <1>2, LoopInductive, PTL DEF LoopSpec

\* The cascade is sent the published reading, whatever frames queue up, resets
\* and calibration changes come in between.  (loop, latest_angle_21bit)
THEOREM CascadeGetsPublished == LoopSpec => []SentIsPublished
BY LoopInductive, PTL DEF LoopIInv

\* A latch marked valid is of one reading that passed.  (do_latch)
THEOREM ValidLatchIsTrue == LoopSpec => []LatchTellsTruth
BY LoopInductive, PTL DEF LoopIInv

\* No second reply to the cascade without a read since the first.  (loop)
THEOREM EveryReplyIsFresh == LoopSpec => FreshPerReply
<1>1. LoopIInv /\ [LoopNext]_allvars => [sent' # Silent => read_since]_allvars
  <2> SUFFICES ASSUME LoopIInv, LoopNext PROVE sent' # Silent => read_since
    OBVIOUS
  <2>1. CASE TakeFrame
    BY <2>1 DEF TakeFrame, LoopIInv, ReplyAsksRead
  <2>2. CASE ~TakeFrame
    BY <2>2 DEF LoopNext, Turn, SetupRead, NoFrame, TurnRead, NoRead, Arrive,
                IntervalElapses, GateOpens, Chip, ModuleReset, Quietly
  <2> QED BY <2>1, <2>2
<1> QED BY <1>1, LoopInductive, PTL DEF LoopSpec, FreshPerReply

----------------------------------------------------------------------------
(* Status words                                                            *)

\* A word whose low byte is spelt out, and what its bits are.
Word8(b0, b1, b2, b3, b4, b5, b6, b7, v) ==
  b0 + 2 * b1 + 4 * b2 + 8 * b3 + 16 * b4 + 32 * b5 + 64 * b6 + 128 * b7 + 256 * v
Spells(w, b0, b1, b2, b3, b4, b5, b6, b7, v) ==
  /\ Bit(w, 0) = b0 /\ Bit(w, 1) = b1 /\ Bit(w, 2) = b2 /\ Bit(w, 3) = b3
  /\ Bit(w, 4) = b4 /\ Bit(w, 5) = b5 /\ Bit(w, 6) = b6 /\ Bit(w, 7) = b7
  /\ w \div 256 = v

LEMMA SumBits ==
  ASSUME NEW b0 \in 0 .. 1, NEW b1 \in 0 .. 1, NEW b2 \in 0 .. 1, NEW b3 \in 0 .. 1,
         NEW b4 \in 0 .. 1, NEW b5 \in 0 .. 1, NEW b6 \in 0 .. 1, NEW b7 \in 0 .. 1,
         NEW v \in Nat
  PROVE  Spells(Word8(b0, b1, b2, b3, b4, b5, b6, b7, v), b0, b1, b2, b3, b4, b5, b6, b7, v)
<1> DEFINE w == b0 + 2 * b1 + 4 * b2 + 8 * b3 + 16 * b4 + 32 * b5 + 64 * b6 + 128 * b7
                  + 256 * v
<1>1. Bit(w, 0) = b0
  BY SMT DEF Bit
<1>2. Bit(w, 1) = b1
  BY SMT DEF Bit
<1>3. Bit(w, 2) = b2
  BY SMT DEF Bit
<1>4. Bit(w, 3) = b3
  BY SMT DEF Bit
<1>5. Bit(w, 4) = b4
  BY SMT DEF Bit
<1>6. Bit(w, 5) = b5
  <2>1. w \div 32 = b5 + 2 * (b6 + 2 * b7 + 4 * v)
    BY SMT
  <2>2. (b5 + 2 * (b6 + 2 * b7 + 4 * v)) % 2 = b5
    BY SMT
  <2>3. 2 ^ 5 = 32
    BY SMT
  <2> QED BY <2>1, <2>2, <2>3 DEF Bit
<1>7. Bit(w, 6) = b6
  <2>1. w \div 64 = b6 + 2 * (b7 + 2 * v)
    BY SMT
  <2>2. (b6 + 2 * (b7 + 2 * v)) % 2 = b6
    BY SMT
  <2>3. 2 ^ 6 = 64
    BY SMT
  <2> QED BY <2>1, <2>2, <2>3 DEF Bit
<1>8. Bit(w, 7) = b7
  <2>1. w \div 128 = b7 + 2 * (v)
    BY SMT
  <2>2. (b7 + 2 * (v)) % 2 = b7
    BY SMT
  <2>3. 2 ^ 7 = 128
    BY SMT
  <2> QED BY <2>1, <2>2, <2>3 DEF Bit
<1>9. w \div 256 = v
  BY SMT
<1> QED BY <1>1, <1>2, <1>3, <1>4, <1>5, <1>6, <1>7, <1>8, <1>9 DEF Spells, Word8

LEMMA IfIsWeighed ==
  ASSUME NEW on, NEW flag, NEW mask \in Nat
  PROVE  /\ If(flag, on, 1) \in 0 .. 1
         /\ If(flag, on, mask) = mask * If(flag, on, 1)
         /\ If(flag, on, 1) = 1 <=> flag \in on
  BY SMT DEF If

\* The bits of the high byte of a word whose low byte is l.
LEMMA HighBits ==
  ASSUME NEW w \in Nat, NEW v \in Nat, w \div 256 = v
  PROVE  /\ Bit(w, 8) = Bit(v, 0) /\ Bit(w, 9) = Bit(v, 1) /\ Bit(w, 10) = Bit(v, 2)
         /\ Bit(w, 11) = Bit(v, 3) /\ Bit(w, 12) = Bit(v, 4) /\ Bit(w, 13) = Bit(v, 5)
<1>1. Bit(w, 8) = Bit(v, 0)
  <2>1. w \div 256 = v \div 1
    BY SMT
  <2>2. 2 ^ 8 = 256 /\ 2 ^ 0 = 1
    BY SMT
  <2> QED BY <2>1, <2>2 DEF Bit
<1>2. Bit(w, 9) = Bit(v, 1)
  <2>1. w \div 512 = v \div 2
    BY SMT
  <2>2. 2 ^ 9 = 512 /\ 2 ^ 1 = 2
    BY SMT
  <2> QED BY <2>1, <2>2 DEF Bit
<1>3. Bit(w, 10) = Bit(v, 2)
  <2>1. w \div 1024 = v \div 4
    BY SMT
  <2>2. 2 ^ 10 = 1024 /\ 2 ^ 2 = 4
    BY SMT
  <2> QED BY <2>1, <2>2 DEF Bit
<1>4. Bit(w, 11) = Bit(v, 3)
  <2>1. w \div 2048 = v \div 8
    BY SMT
  <2>2. 2 ^ 11 = 2048 /\ 2 ^ 3 = 8
    BY SMT
  <2> QED BY <2>1, <2>2 DEF Bit
<1>5. Bit(w, 12) = Bit(v, 4)
  <2>1. w \div 4096 = v \div 16
    BY SMT
  <2>2. 2 ^ 12 = 4096 /\ 2 ^ 4 = 16
    BY SMT
  <2> QED BY <2>1, <2>2 DEF Bit
<1>6. Bit(w, 13) = Bit(v, 5)
  <2>1. w \div 8192 = v \div 32
    BY SMT
  <2>2. 2 ^ 13 = 8192 /\ 2 ^ 5 = 32
    BY SMT
  <2> QED BY <2>1, <2>2 DEF Bit
<1> QED BY <1>1, <1>2, <1>3, <1>4, <1>5, <1>6

\* GET_HEALTH: the host names exactly the conditions the module flags.
THEOREM HealthRoundTrip ==
  ASSUME NEW on \in SUBSET DOMAIN HEALTH_BITS
  PROVE  decode_bits(health_word(on), HEALTH_BITS) = on
<1> DEFINE O(flag) == If(flag, on, 1)
           v == Word8(O("FACTORY_MODE"), O("USERROW_WRITE_FAIL"), O("ARM_SEEN"),
                      O("WRITE_ELIGIBLE"), O("NO_VALID_ANGLE"), O("ANGLE_DEGRADED"), 0, 0, 0)
           w == Word8(O("CAL_INVALID"), O("CAL_VER_UNSUPPORTED"), O("SENSOR_CFG_FAIL"),
                      O("SAFETY_CRC_ERR"), O("SENSOR_STAT_ERR"), O("SENSOR_NO_RESPONSE"),
                      0, O("ANGLE_STALE"), v)
<1>1. \A flag : O(flag) \in 0 .. 1 /\ (O(flag) = 1 <=> flag \in on)
  BY IfIsWeighed, 1 \in Nat
<1>2. \A flag : \A mask \in Nat : If(flag, on, mask) = mask * O(flag)
  BY IfIsWeighed
<1> HIDE DEF O
<1>3. v \in Nat
  BY SMT, <1>1 DEF Word8
<1>4. w \in Nat
  <2> HIDE DEF v
  <2> QED BY SMT, <1>1, <1>3 DEF Word8
<1>5. health_word(on) = w
  BY SMT, <1>1, <1>2 DEF health_word, Word8
<1>6. Spells(v, O("FACTORY_MODE"), O("USERROW_WRITE_FAIL"), O("ARM_SEEN"),
             O("WRITE_ELIGIBLE"), O("NO_VALID_ANGLE"), O("ANGLE_DEGRADED"), 0, 0, 0)
  BY <1>1, SumBits, 0 \in 0 .. 1, 0 \in Nat
<1> HIDE DEF v
<1>7. Spells(w, O("CAL_INVALID"), O("CAL_VER_UNSUPPORTED"), O("SENSOR_CFG_FAIL"),
             O("SAFETY_CRC_ERR"), O("SENSOR_STAT_ERR"), O("SENSOR_NO_RESPONSE"),
             0, O("ANGLE_STALE"), v)
  BY <1>1, <1>3, SumBits, 0 \in 0 .. 1
<1> HIDE DEF w
<1>8. /\ Bit(w, 8) = O("FACTORY_MODE") /\ Bit(w, 9) = O("USERROW_WRITE_FAIL")
      /\ Bit(w, 10) = O("ARM_SEEN") /\ Bit(w, 11) = O("WRITE_ELIGIBLE")
      /\ Bit(w, 12) = O("NO_VALID_ANGLE") /\ Bit(w, 13) = O("ANGLE_DEGRADED")
  BY <1>3, <1>4, <1>6, <1>7, HighBits DEF Spells
<1>9. \A n \in DOMAIN HEALTH_BITS : Bit(w, HEALTH_BITS[n]) = O(n)
  BY SMT, <1>7, <1>8 DEF HEALTH_BITS, Spells
<1>10. \A n \in DOMAIN HEALTH_BITS : Bit(w, HEALTH_BITS[n]) = 1 <=> n \in on
  BY <1>1, <1>9
<1> QED BY <1>5, <1>10 DEF decode_bits

\* GET_CAL_STATUS: the host names what the module found, and "valid" where all
\* four checks of the page passed; the version of the layout comes beside it.
THEOREM CalStatusRoundTrip ==
  ASSUME NEW on \in SUBSET (DOMAIN CAL_STATUS_BITS \ {"valid"}), NEW layout_ver \in Byte
  PROVE  LET w == cal_status_word(on, layout_ver)
         IN  /\ decode_bits(w, CAL_STATUS_BITS) =
                  on \cup {n \in {"valid"} : PAGE_CHECKS \subseteq on}
             /\ layout_ver_of(w) = layout_ver
<1> DEFINE O(flag) == If(flag, on, 1)
           valid == IF PAGE_CHECKS \subseteq on THEN 1 ELSE 0
           w == Word8(valid, O("magic_ok"), O("version_supported"), O("crc_ok"),
                      O("fields_ok"), O("compensation_active"), O("stored_virgin"),
                      O("running_differs_from_stored"), layout_ver)
<1>1. \A flag : O(flag) \in 0 .. 1 /\ (O(flag) = 1 <=> flag \in on)
  BY IfIsWeighed, 1 \in Nat
<1>2. \A flag : \A mask \in Nat : If(flag, on, mask) = mask * O(flag)
  BY IfIsWeighed
<1>3. valid \in 0 .. 1 /\ (valid = 1 <=> PAGE_CHECKS \subseteq on)
  BY SMT
<1>4. layout_ver \in Nat
  BY SMT DEF Byte
<1> HIDE DEF O
<1>5. cal_status_word(on, layout_ver) = w
  <2>1. cal_status_word(on, layout_ver) = layout_ver * 256 + valid
          + If("magic_ok", on, 2) + If("version_supported", on, 4) + If("crc_ok", on, 8)
          + If("fields_ok", on, 16) + If("compensation_active", on, 32)
          + If("stored_virgin", on, 64) + If("running_differs_from_stored", on, 128)
    BY DEF cal_status_word
  <2> HIDE DEF valid
  <2> QED BY SMT, <1>1, <1>2, <1>3, <1>4, <2>1 DEF Word8
<1> HIDE DEF valid
<1>6. Spells(w, valid, O("magic_ok"), O("version_supported"), O("crc_ok"), O("fields_ok"),
             O("compensation_active"), O("stored_virgin"),
             O("running_differs_from_stored"), layout_ver)
  BY <1>1, <1>3, <1>4, SumBits
<1> HIDE DEF w
<1>7. \A n \in DOMAIN CAL_STATUS_BITS : n # "valid" => Bit(w, CAL_STATUS_BITS[n]) = O(n)
  BY SMT, <1>6 DEF CAL_STATUS_BITS, Spells
<1>8. Bit(w, CAL_STATUS_BITS["valid"]) = valid /\ "valid" \in DOMAIN CAL_STATUS_BITS
  BY SMT, <1>6 DEF CAL_STATUS_BITS, Spells
<1>9. decode_bits(w, CAL_STATUS_BITS) = on \cup {n \in {"valid"} : PAGE_CHECKS \subseteq on}
  BY <1>1, <1>3, <1>7, <1>8 DEF decode_bits
<1> QED BY <1>5, <1>6, <1>9 DEF layout_ver_of, Spells

\* GET_CFG_VERIFY: the host's verdict, which the station refuses a unit by, is
\* that every check of the sensor's configuration passed.
THEOREM CfgVerdictIsAllChecks ==
  ASSUME NEW on \in SUBSET DOMAIN CFG_VERIFY_BITS, NEW attempts \in Byte
  PROVE  LET w == cfg_verify_word(on, attempts)
         IN  /\ decode_bits(w, CFG_VERIFY_BITS) = on
             /\ cfg_passed(w) <=> on = DOMAIN CFG_VERIFY_BITS
<1> DEFINE O(flag) == If(flag, on, 1)
           low == O("MOD_1") + 2 * O("MOD_2") + 4 * O("CRCPAR") + 8 * O("SFUSE_clear")
                    + 16 * O("safety_words_clean")
           w == Word8(O("MOD_1"), O("MOD_2"), O("CRCPAR"), O("SFUSE_clear"),
                      O("safety_words_clean"), 0, 0, 0, attempts)
<1>1. \A flag : O(flag) \in 0 .. 1 /\ (O(flag) = 1 <=> flag \in on)
  BY IfIsWeighed, 1 \in Nat
<1>2. \A flag : \A mask \in Nat : If(flag, on, mask) = mask * O(flag)
  BY IfIsWeighed
<1>3. attempts \in Nat
  BY SMT DEF Byte
<1> HIDE DEF O
<1>4. cfg_verify_word(on, attempts) = w
  BY SMT, <1>1, <1>2, <1>3 DEF cfg_verify_word, Word8
<1>5. Spells(w, O("MOD_1"), O("MOD_2"), O("CRCPAR"), O("SFUSE_clear"),
             O("safety_words_clean"), 0, 0, 0, attempts)
  BY <1>1, <1>3, SumBits, 0 \in 0 .. 1
<1>6. w % 32 = low
  <2>1. low \in Nat /\ low < 32
    BY SMT, <1>1
  <2>2. w = low + 32 * (8 * attempts)
    BY SMT, <1>1, <1>3 DEF Word8
  <2> HIDE DEF low
  <2>3. (low + 32 * (8 * attempts)) % 32 = low
    BY SMT, <1>3, <2>1
  <2> QED BY <2>2, <2>3
<1>7. low = 31 <=> \A n \in {"MOD_1", "MOD_2", "CRCPAR", "SFUSE_clear", "safety_words_clean"} :
                     O(n) = 1
  BY SMT, <1>1
<1> HIDE DEF w, low
<1>8. \A n \in DOMAIN CFG_VERIFY_BITS : Bit(w, CFG_VERIFY_BITS[n]) = O(n)
  BY SMT, <1>5 DEF CFG_VERIFY_BITS, Spells
<1>9. decode_bits(w, CFG_VERIFY_BITS) = on
  BY <1>1, <1>8 DEF decode_bits
<1>10. DOMAIN CFG_VERIFY_BITS =
         {"MOD_1", "MOD_2", "CRCPAR", "SFUSE_clear", "safety_words_clean"}
  BY SMT DEF CFG_VERIFY_BITS
<1>11. cfg_passed(w) <=> on = DOMAIN CFG_VERIFY_BITS
  BY <1>1, <1>6, <1>7, <1>10 DEF cfg_passed, CFG_VERIFY_PASS
<1> QED BY <1>4, <1>9, <1>11
=============================================================================
