--------------------------- MODULE KerCmd3Proofs ---------------------------
(***************************************************************************)
(* Theorems about KerCmd3 for every set of IDs and bodies, all time-outs   *)
(* below the clock's modulus, and every page in the USERROW.               *)
(***************************************************************************)
EXTENDS KerCmd3, TLAPS

----------------------------------------------------------------------------
(* What the page operators of KerPage return                               *)

LEMMA VirginIsPage == Virgin \in Page /\ Zeroed \in Page
BY PageAssumption DEF Virgin, Zeroed, Page, HeaderFF, Header, CrcWord

LEMMA VirginNotValid == ~Valid(Virgin)
BY DEF Valid, Virgin, HeaderFF

LEMMA HeaderForTyped == \A i \in Ids : HeaderFor(i) \in Header
BY DEF HeaderFor, Header

LEMMA HeaderDetermined ==
  ASSUME NEW h \in Header, h.magic, h.ver
  PROVE  h = HeaderFor(h.id)
<1>1. h = [magic |-> h.magic, ver |-> h.ver, id |-> h.id]
  BY DEF Header
<1>2. h.magic \in BOOLEAN /\ h.ver \in BOOLEAN
  BY DEF Header
<1>3. h.magic = TRUE /\ h.ver = TRUE
  BY <1>2
<1> QED BY <1>1, <1>3 DEF HeaderFor

LEMMA SealedTyped ==
  ASSUME NEW h \in Header, NEW b \in Body
  PROVE  /\ Sealed(h, b) \in Page
         /\ Sealed(h, b).hdr = h /\ Sealed(h, b).body = b
         /\ CrcOk(Sealed(h, b))
<1>1. Crc(h, b) \in CrcWord
  BY DEF Crc, CrcWord
<1> QED BY <1>1 DEF Sealed, Page, CrcOk

LEMMA SealedValid ==
  ASSUME NEW i \in Ids, NEW b \in BodyOk
  PROVE  Sealed(HeaderFor(i), b) \in Page /\ Valid(Sealed(HeaderFor(i), b))
<1>1. HeaderFor(i) \in Header /\ b \in Body
  BY HeaderForTyped, PageAssumption
<1>2. HeaderFor(i).magic = TRUE /\ HeaderFor(i).ver = TRUE /\ HeaderFor(i).id = i
  BY DEF HeaderFor
<1> QED BY <1>1, <1>2, SealedTyped DEF Valid, FieldsOk

\* ValidPages lists exactly the pages Valid accepts.
LEMMA ValidPagesExact == \A p \in Page : Valid(p) <=> p \in ValidPages
<1>1. ASSUME NEW p \in Page, Valid(p) PROVE p \in ValidPages
  <2>1. p = [hdr |-> p.hdr, body |-> p.body, crc |-> p.crc] /\ p.hdr \in Header
    BY DEF Page
  <2>2. p.hdr = HeaderFor(p.hdr.id)
    BY <1>1, <2>1, HeaderDetermined DEF Valid
  <2>3. p.crc = Crc(p.hdr, p.body)
    BY <1>1 DEF Valid, CrcOk
  <2>4. p = Sealed(p.hdr, p.body)
    BY <2>1, <2>3 DEF Sealed
  <2>5. p.hdr.id \in Ids /\ p.body \in BodyOk
    BY <1>1 DEF Valid, FieldsOk
  <2> QED BY <2>2, <2>4, <2>5 DEF ValidPages
<1> QED BY <1>1, SealedValid DEF ValidPages

LEMMA ValidPagesTyped == ValidPages \subseteq Page /\ \A p \in ValidPages : Valid(p)
BY SealedValid DEF ValidPages

LEMMA AdoptedTyped == \A p \in Page : Adopted(p) \in Page
BY VirginIsPage DEF Adopted

LEMMA IdentityPageValid == \A i \in Ids : IdentityPage(i) \in ValidPages
BY PageAssumption DEF IdentityPage, ValidPages

\* SET_ID's page is valid and carries the calibration of the page it is from.
LEMMA ReIdentifyValid ==
  ASSUME NEW p \in Page, Valid(p), NEW i \in Ids
  PROVE  ReIdentify(p, i) \in ValidPages /\ ReIdentify(p, i).body = p.body
<1>1. p.hdr \in Header /\ p.hdr.magic /\ p.hdr.ver /\ p.body \in BodyOk
  BY DEF Page, Valid, FieldsOk
<1>2. p.hdr = HeaderFor(p.hdr.id)
  BY <1>1, HeaderDetermined
<1>3. p.hdr.magic = TRUE /\ p.hdr.ver = TRUE
  BY <1>2 DEF HeaderFor
<1>4. ReIdentify(p, i) = Sealed(HeaderFor(i), p.body)
  BY <1>3 DEF ReIdentify, HeaderFor
<1> QED BY <1>1, <1>4, PageAssumption, HeaderForTyped, SealedTyped DEF ValidPages

\* A torn page has lost its CRC: no power cut makes a valid page of it.
LEMMA TornNotValid == \A p \in Page : Torn(p) \in Page /\ ~Valid(Torn(p))
BY CrcAssumption DEF Torn, Page, CrcWord, Valid, CrcOk

LEMMA LeftTyped ==
  ASSUME NEW old \in Page, NEW new \in Page
  PROVE  /\ Unverified(old, new) \subseteq Page
         /\ Interrupted(old, new) \subseteq Page
         /\ new \in Interrupted(old, new)
         /\ Unverified(old, new) \subseteq Interrupted(old, new)
         /\ \A q \in Unverified(old, new) : Valid(q) => q = old
         /\ \A q \in Interrupted(old, new) : Valid(q) => q = old \/ q = new
BY VirginIsPage, VirginNotValid, TornNotValid DEF Unverified, Interrupted

----------------------------------------------------------------------------
(* Type correctness                                                        *)

\* A page a CommitPage is called with.
LEMMA CommittedValid ==
  ASSUME TypeOK, IdentityCoherent
  PROVE  /\ Valid(staging) => staging \in ValidPages
         /\ \A i \in Ids : /\ IdentityPage(i) \in ValidPages
                           /\ id_from_page => ReIdentify(running_page, i) \in ValidPages
<1>1. staging \in Page /\ running_page \in Page
      /\ (id_from_page => Valid(running_page))
  BY DEF TypeOK, FactoryTypeOK, PageTypeOK, IdentityCoherent
<1> QED BY <1>1, ValidPagesExact, IdentityPageValid, ReIdentifyValid

LEMMA AdoptTyped ==
  ASSUME NEW p \in Page, Adopt(p)
  PROVE  /\ running_page' \in Page /\ running_cal' \in Body
         /\ device_id' \in Ids \cup {BuildDefault}
         /\ id_slot' \in Ids \cup {BuildDefault}
         /\ id_from_page' \in BOOLEAN /\ cal_invalid' \in BOOLEAN
         /\ cal_ver_unsup' \in BOOLEAN
<1>1. running_page' \in Page
  BY AdoptedTyped DEF Adopt
<1>2. p.body \in Body /\ BodyZero \in Body
  BY PageAssumption DEF Page
<1>3. Valid(p) => p.hdr.id \in Ids
  BY DEF Valid, FieldsOk
<1>4. Valid(p) \in BOOLEAN
  BY DEF Valid, CrcOk, FieldsOk
<1> QED BY <1>1, <1>2, <1>3, <1>4 DEF Adopt, SetDeviceId

\* adopt_page leaves one identity, the page's or the build default.
LEMMA AdoptCoherent ==
  ASSUME NEW p \in Page, Adopt(p)
  PROVE  IdentityCoherent'
<1>1. Valid(p) \in BOOLEAN
  BY DEF Valid, CrcOk, FieldsOk
<1> QED BY <1>1 DEF Adopt, SetDeviceId, Adopted, IdentityCoherent

----------------------------------------------------------------------------
(* How a step moves the clock and the time stamps                          *)

Heard(cmd) ==
  /\ last_arm_frame' = millis /\ quiet' = 0
  /\ arm_seen' = (arm_seen \/ cmd = 2)
  /\ cmd2_heard' = (cmd2_heard \/ cmd = 2)

Steady ==
  /\ UNCHANGED <<millis, uptime>>
  /\ RunFlags
  /\ UNCHANGED cascade \/ \E cmd \in {1, 2} : Heard(cmd)
  /\ \/ UNCHANGED <<factory_last_accept, since_accept>>
     \/ factory_last_accept' = millis /\ since_accept' = 0
  /\ \/ UNCHANGED <<unlock_armed_at, since_armed>>
     \/ unlock_armed_at' = millis /\ since_armed' = 0

\* The erase-write: where it is reached from and what it leaves behind.
LEMMA CommitPageStep ==
  ASSUME TypeOK, NEW p \in Page, CommitPage(p)
  PROVE  GateOpen /\ (Steady \/ \E q \in Page : Boot(q))
<1>1. userrow \in Page /\ Interrupted(userrow, p) \subseteq Page
  BY LeftTyped DEF TypeOK, FactoryTypeOK, PageTypeOK
<1>2. CASE Request /\ Programmed(p)
  BY <1>2 DEF Request, Programmed, Accept, Disarm, Steady
<1>3. CASE Request /\ (SupplyLow \/ VerifyFailed(p))
  BY <1>3 DEF Request, SupplyLow, VerifyFailed, NakOnly, Disarm, Steady
<1>4. CASE GateOpen /\ \E left \in Interrupted(userrow, p) : Boot(left)
  BY <1>1, <1>4
<1> QED BY <1>2, <1>3, <1>4 DEF CommitPage, Request

LEMMA StepShape ==
  ASSUME TypeOK, IdentityCoherent, Next
  PROVE  Tick \/ Steady \/ \E q \in Page : Boot(q)
<1>1. CASE Tick
  BY <1>1
<1>2. CASE Unaddressed \/ GatedRequest
  BY <1>2 DEF Unaddressed, GatedRequest, stamps, Steady
<1>3. CASE \E cmd \in {1, 2} : CascadeFrame(cmd)
  BY <1>3 DEF CascadeFrame, stamps, Steady, Heard
<1>4. ASSUME NEW r, Request, Nak(r) PROVE Steady
  BY <1>4 DEF Request, Nak, NakOnly, Disarm, Steady
<1>5. CASE Broadcast
  BY <1>5 DEF Broadcast, Request, stamps, Steady
<1>6. CASE BadSub \/ NotEligible \/ NotUnlocked \/ SetIdRefused
  BY <1>4, <1>6 DEF BadSub, NotEligible, NotUnlocked, SetIdRefused
<1>7. CASE ReadRequest \/ ClrErrCnt
  BY <1>4, <1>7 DEF ReadRequest, ClrErrCnt, Request, Accept, Disarm, Steady
<1>8. CASE Unlock1
  BY <1>4, <1>8 DEF Unlock1, Request, Accept, Steady
<1>9. CASE Unlock2
  BY <1>4, <1>9 DEF Unlock2, Request, Accept, Disarm, Steady
<1>10. CASE StageAddr \/ StageData
  BY <1>4, <1>10 DEF StageAddr, StageData, Request, Accept, Disarm, Steady
<1>11. CASE CommitCal
  <2>1. CASE Valid(staging) /\ CommitPage(staging)
    BY <2>1, CommitPageStep DEF TypeOK, FactoryTypeOK, PageTypeOK
  <2> QED BY <1>4, <1>11, <2>1 DEF CommitCal
<1>12. ASSUME NEW i \in Ids, SetId(i) PROVE Steady \/ \E q \in Page : Boot(q)
  <2>1. CASE CommitPage(IdentityPage(i))
    BY <2>1, CommitPageStep, CommittedValid, ValidPagesTyped
  <2>2. CASE id_from_page /\ CommitPage(ReIdentify(running_page, i))
    BY <2>2, CommitPageStep, CommittedValid, ValidPagesTyped
  <2> QED BY <1>4, <1>12, <2>1, <2>2 DEF NothingStaged, SetId
<1>13. CASE Lock
  BY <1>4, <1>13 DEF Lock, Request, Accept, Disarm, Steady
<1>14. CASE ResetRequest \/ PowerCycle
  BY <1>4, <1>14 DEF ResetRequest, PowerCycle, TypeOK, FactoryTypeOK, PageTypeOK
<1> QED
  BY <1>1, <1>2, <1>3, <1>5, <1>6, <1>7, <1>8, <1>9, <1>10, <1>11, <1>12,
     <1>13, <1>14 DEF Next

----------------------------------------------------------------------------
(* Time: what the wrapping clock and the stamps say about real time        *)

\* Each elapsed-time history variable agrees with the code's wrapped
\* difference until it saturates.  Saturation is at T_IDLE for the cascade
\* stamp (the gate needs no more) and at the clock's modulus for the two
\* stamps whose time-outs the code lets the wrap undo.
TimeInv ==
  /\ quiet < T_IDLE => Since(last_arm_frame) = quiet
  /\ uptime < T_ARM_WAIT => millis = uptime
  /\ run_3s => uptime = T_ARM_WAIT
  /\ since_accept < ClockMod => Since(factory_last_accept) = since_accept
  /\ since_armed < ClockMod => Since(unlock_armed_at) = since_armed
  /\ arm_seen = cmd2_heard

\* The clock moves on: one wrapped difference, one real millisecond.
LEMMA SinceTick ==
  ASSUME TypeOK, Tick, NEW t \in Time
  PROVE  Since(t)' = IF Since(t) = ClockMod - 1 THEN 0 ELSE Since(t) + 1
BY TimeAssumption DEF TypeOK, TimeTypeOK, Time, Tick, Since

LEMMA SinceNow ==
  ASSUME TypeOK
  PROVE  Since(millis) = 0 /\ \A t \in Time : Since(t) \in Time
BY TimeAssumption DEF TypeOK, TimeTypeOK, Time, Since

LEMMA TimeTick ==
  ASSUME TypeOK, TimeInv, Tick
  PROVE  TimeInv'
<1>1. /\ last_arm_frame \in Time /\ last_arm_frame' = last_arm_frame
      /\ factory_last_accept \in Time /\ factory_last_accept' = factory_last_accept
      /\ unlock_armed_at \in Time /\ unlock_armed_at' = unlock_armed_at
      /\ run_3s' = run_3s /\ arm_seen' = arm_seen /\ cmd2_heard' = cmd2_heard
  BY DEF TypeOK, TimeTypeOK, Tick, clock
<1>2. quiet' < T_IDLE => Since(last_arm_frame)' = quiet'
  <2>1. quiet' < T_IDLE => quiet < T_IDLE - 1 /\ quiet' = quiet + 1
    BY TimeAssumption DEF TypeOK, TimeTypeOK, Tick, UpTo
  <2>2. quiet < T_IDLE - 1 => Since(last_arm_frame) = quiet /\ quiet < ClockMod - 1
    BY TimeAssumption DEF TypeOK, TimeTypeOK, TimeInv
  <2> QED BY <1>1, <2>1, <2>2, SinceTick, TimeAssumption DEF TypeOK, TimeTypeOK
<1>3. uptime' < T_ARM_WAIT => millis' = uptime'
  BY TimeAssumption DEF TypeOK, TimeTypeOK, TimeInv, Tick, UpTo
<1>4. run_3s' => uptime' = T_ARM_WAIT
  BY <1>1, TimeAssumption DEF TypeOK, TimeTypeOK, TimeInv, Tick, UpTo
<1>5. since_accept' < ClockMod => Since(factory_last_accept)' = since_accept'
  <2>1. since_accept' < ClockMod
          => since_accept < ClockMod - 1 /\ since_accept' = since_accept + 1
    BY TimeAssumption DEF TypeOK, TimeTypeOK, Tick, UpTo
  <2> QED BY <1>1, <2>1, SinceTick, TimeAssumption DEF TimeInv, TypeOK, TimeTypeOK
<1>6. since_armed' < ClockMod => Since(unlock_armed_at)' = since_armed'
  <2>1. since_armed' < ClockMod
          => since_armed < ClockMod - 1 /\ since_armed' = since_armed + 1
    BY TimeAssumption DEF TypeOK, TimeTypeOK, Tick, UpTo
  <2> QED BY <1>1, <2>1, SinceTick, TimeAssumption DEF TimeInv, TypeOK, TimeTypeOK
<1> QED BY <1>1, <1>2, <1>3, <1>4, <1>5, <1>6 DEF TimeInv

LEMMA TimeSteady ==
  ASSUME TypeOK, TimeInv, Steady
  PROVE  TimeInv'
<1>1. millis' = millis /\ uptime' = uptime
  BY DEF Steady
<1>2. quiet' < T_IDLE => Since(last_arm_frame)' = quiet'
  <2>1. CASE UNCHANGED cascade
    BY <1>1, <2>1 DEF cascade, TimeInv, Since
  <2>2. ASSUME NEW cmd \in {1, 2}, Heard(cmd) PROVE Since(last_arm_frame)' = quiet'
    <3>1. last_arm_frame' = millis /\ quiet' = 0
      BY <2>2 DEF Heard
    <3> QED BY <1>1, <3>1, SinceNow DEF Since
  <2> QED BY <2>1, <2>2 DEF Steady
<1>3. run_3s' => uptime' = T_ARM_WAIT
  BY <1>1, TimeAssumption DEF Steady, RunFlags, Run3s, TimeInv, TypeOK, TimeTypeOK, Time
<1>4. since_accept' < ClockMod => Since(factory_last_accept)' = since_accept'
  BY <1>1, SinceNow DEF Steady, TimeInv, Since
<1>5. since_armed' < ClockMod => Since(unlock_armed_at)' = since_armed'
  BY <1>1, SinceNow DEF Steady, TimeInv, Since
<1>6. arm_seen' = cmd2_heard'
  BY DEF Steady, cascade, Heard, TimeInv
<1> QED BY <1>1, <1>2, <1>3, <1>4, <1>5, <1>6 DEF TimeInv

LEMMA TimeBoot ==
  ASSUME NEW p \in Page, Boot(p)
  PROVE  TimeInv'
<1>1. /\ millis' = 0 /\ uptime' = 0 /\ quiet' = 0 /\ last_arm_frame' = 0
      /\ factory_last_accept' = 0 /\ since_accept' = 0
      /\ unlock_armed_at' = 0 /\ since_armed' = 0
  BY DEF Boot
<1>2. run_3s' = FALSE /\ arm_seen' = cmd2_heard'
  BY DEF Boot
<1> QED BY <1>1, <1>2 DEF TimeInv, Since

LEMMA TimeInit == Init => TimeInv
<1> SUFFICES ASSUME NEW p \in Page, BootState(p) PROVE TimeInv
  BY UserrowAssumption DEF Init
<1>1. /\ millis = 0 /\ uptime = 0 /\ quiet = 0 /\ last_arm_frame = 0
      /\ factory_last_accept = 0 /\ since_accept = 0
      /\ unlock_armed_at = 0 /\ since_armed = 0
  BY DEF BootState
<1>2. run_3s = FALSE /\ arm_seen = cmd2_heard
  BY DEF BootState
<1> QED BY <1>1, <1>2 DEF TimeInv, Since

LEMMA TimeTyped ==
  ASSUME TypeOK, Tick \/ Steady \/ \E q \in Page : Boot(q)
  PROVE  TimeTypeOK'
<1>1. CASE Tick
  BY <1>1, TimeAssumption DEF TypeOK, TimeTypeOK, Time, Tick, UpTo, clock
<1>2. CASE Steady
  <2>1. /\ millis' = millis /\ uptime' = uptime
        /\ run_100ms' \in BOOLEAN /\ run_3s' \in BOOLEAN
    BY <1>2 DEF Steady, RunFlags, Run100, Run3s, TypeOK, TimeTypeOK
  <2>2. last_arm_frame' \in Time /\ quiet' \in 0 .. T_IDLE
    BY <1>2, TimeAssumption DEF Steady, cascade, Heard, TypeOK, TimeTypeOK
  <2>4. arm_seen' \in BOOLEAN /\ cmd2_heard' \in BOOLEAN
    BY <1>2 DEF Steady, cascade, Heard, TypeOK, TimeTypeOK
  <2>3. /\ factory_last_accept' \in Time /\ since_accept' \in 0 .. ClockMod
        /\ unlock_armed_at' \in Time /\ since_armed' \in 0 .. ClockMod
    BY <1>2, TimeAssumption DEF Steady, TypeOK, TimeTypeOK
  <2> QED BY <2>1, <2>2, <2>3, <2>4 DEF TypeOK, TimeTypeOK
<1>3. ASSUME NEW q \in Page, Boot(q) PROVE TimeTypeOK'
  <2>1. /\ run_100ms' \in BOOLEAN /\ run_3s' \in BOOLEAN
        /\ arm_seen' \in BOOLEAN /\ cmd2_heard' \in BOOLEAN
    BY <1>3 DEF Boot
  <2>2. /\ millis' = 0 /\ uptime' = 0 /\ quiet' = 0 /\ last_arm_frame' = 0
        /\ factory_last_accept' = 0 /\ since_accept' = 0
        /\ unlock_armed_at' = 0 /\ since_armed' = 0
    BY <1>3 DEF Boot
  <2> QED BY <2>1, <2>2, TimeAssumption DEF TimeTypeOK, Time
<1> QED BY <1>1, <1>2, <1>3

----------------------------------------------------------------------------
(* What the gates let through means in real time                           *)

LEMMA GatesInRealTime ==
  ASSUME TypeOK, TimeInv
  PROVE  /\ GateOpen => quiet = T_IDLE
         /\ WriteEligible => ~cmd2_heard /\ uptime = T_ARM_WAIT
         /\ FactoryLive => since_accept < T_FACTORY \/ since_accept = ClockMod
         /\ ArmedLive => since_armed < T_UNLOCK \/ since_armed = ClockMod
<1>1. GateOpen => quiet = T_IDLE
  BY TimeAssumption DEF GateOpen, TimeInv, TypeOK, TimeTypeOK
<1>2. WriteEligible => ~cmd2_heard /\ uptime = T_ARM_WAIT
  BY TimeAssumption DEF WriteEligible, Run3s, TimeInv, TypeOK, TimeTypeOK
<1>3. FactoryLive => since_accept < T_FACTORY \/ since_accept = ClockMod
  BY TimeAssumption DEF FactoryLive, FactoryExpired, TimeInv, TypeOK, TimeTypeOK
<1>4. ArmedLive => since_armed < T_UNLOCK \/ since_armed = ClockMod
  BY TimeAssumption DEF ArmedLive, TimeInv, TypeOK, TimeTypeOK
<1> QED BY <1>1, <1>2, <1>3, <1>4

----------------------------------------------------------------------------
(* How a step reaches the USERROW                                          *)

\* The pages a module can be made to program: the staged one, or, while
\* nothing is staged, one with the calibration it is already running.
Writable(p) ==
  \/ p = staging
  \/ ~staging_dirty /\ (id_from_page => p.body = running_cal)

Commits ==
  /\ GateOpen /\ WriteEligible /\ FactoryLive
  /\ \E p \in ValidPages : Writable(p) /\ CommitPage(p)

PagesKept ==
  /\ UNCHANGED <<identity, userrow, doubt>>
  /\ userrow_write_fail' \in BOOLEAN

LEMMA PageShape ==
  ASSUME TypeOK, IdentityCoherent, Next
  PROVE  PagesKept \/ Commits \/ Boot(userrow)
<1>0. userrow_write_fail \in BOOLEAN
  BY DEF TypeOK, PageTypeOK
<1>1. ASSUME NEW r, Nak(r) PROVE PagesKept
  BY <1>0, <1>1 DEF Nak, NakOnly, nvm, PagesKept
<1>2. CASE Tick \/ Unaddressed \/ GatedRequest \/ Broadcast
  BY <1>0, <1>2 DEF Tick, Unaddressed, GatedRequest, Broadcast, nvm, PagesKept
<1>3. CASE \E cmd \in {1, 2} : CascadeFrame(cmd)
  BY <1>0, <1>3 DEF CascadeFrame, nvm, PagesKept
<1>4. CASE BadSub \/ NotEligible \/ NotUnlocked \/ SetIdRefused
  BY <1>1, <1>4 DEF BadSub, NotEligible, NotUnlocked, SetIdRefused
<1>5. CASE ReadRequest \/ ClrErrCnt
  BY <1>0, <1>1, <1>5 DEF ReadRequest, ClrErrCnt, nvm, PagesKept
<1>6. CASE Unlock1 \/ Unlock2
  BY <1>0, <1>1, <1>6 DEF Unlock1, Unlock2, nvm, PagesKept
<1>7. CASE StageAddr \/ StageData
  BY <1>0, <1>1, <1>7 DEF StageAddr, StageData, nvm, PagesKept
<1>8. CASE CommitCal
  <2>1. CASE Valid(staging) /\ CommitPage(staging)
    <3>1. staging \in ValidPages
      BY <2>1, CommittedValid
    <3>2. GateOpen
      BY <2>1 DEF CommitPage, Request
    <3> QED BY <1>8, <2>1, <3>1, <3>2 DEF CommitCal, Commits, Writable
  <2> QED BY <1>1, <1>8, <2>1 DEF CommitCal
<1>9. ASSUME NEW i \in Ids, SetId(i) PROVE PagesKept \/ Commits
  <2>1. CASE /\ ~staging_dirty /\ id_from_page
             /\ CommitPage(ReIdentify(running_page, i))
    <3>1. /\ ReIdentify(running_page, i) \in ValidPages
          /\ ReIdentify(running_page, i).body = running_cal
      BY <2>1, CommittedValid, ReIdentifyValid
      DEF IdentityCoherent, TypeOK, PageTypeOK
    <3>2. GateOpen
      BY <2>1 DEF CommitPage, Request
    <3> QED BY <1>9, <2>1, <3>1, <3>2 DEF NothingStaged, SetId, Commits, Writable
  <2>2. CASE ~staging_dirty /\ ~id_from_page /\ CommitPage(IdentityPage(i))
    <3>1. IdentityPage(i) \in ValidPages
      BY IdentityPageValid
    <3>2. GateOpen
      BY <2>2 DEF CommitPage, Request
    <3> QED BY <1>9, <2>2, <3>1, <3>2 DEF NothingStaged, SetId, Commits, Writable
  <2> QED BY <1>1, <1>9, <2>1, <2>2 DEF NothingStaged, SetId
<1>10. CASE Lock
  BY <1>0, <1>1, <1>10 DEF Lock, nvm, PagesKept
<1>11. CASE ResetRequest \/ PowerCycle
  BY <1>1, <1>11 DEF ResetRequest, PowerCycle
<1> QED
  BY <1>2, <1>3, <1>4, <1>5, <1>6, <1>7, <1>8, <1>9, <1>10, <1>11 DEF Next

----------------------------------------------------------------------------
(* Factory mode and staging                                                *)

\* Until a word is staged the buffer is erased, so an unstaged COMMIT_CAL can
\* only fail its CRC.
FactoryInv ==
  /\ UnlockDiscipline
  /\ StagingIsSession
  /\ factory_mode /\ ~staging_dirty => staging = Virgin

LEMMA LiveTyped ==
  ASSUME TypeOK
  PROVE  /\ FactoryLive \in BOOLEAN /\ DirtyLive \in BOOLEAN /\ ArmedLive \in BOOLEAN
         /\ IndexLive \in 0 .. LastWord + 1
         /\ Prior \in {"none", "armed", "open"} /\ Lapsed \in {"none", "open"}
<1>1. FactoryLive \in BOOLEAN /\ DirtyLive \in BOOLEAN /\ ArmedLive \in BOOLEAN
  BY DEF FactoryLive, DirtyLive, ArmedLive
<1>2. IndexLive \in 0 .. LastWord + 1
  BY DEF TypeOK, FactoryTypeOK, IndexLive, LastWord
<1>3. Prior \in {"none", "armed", "open"} /\ Lapsed \in {"none", "open"}
  BY DEF TypeOK, FactoryTypeOK, Prior, Lapsed
<1> QED BY <1>1, <1>2, <1>3

\* A NAK leaves factory mode as the lazy expiry left it, and nothing armed.
LEMMA NakFactory ==
  ASSUME TypeOK, FactoryInv, NEW r \in NakReason, NakOnly(r)
  PROVE  FactoryTypeOK' /\ FactoryInv'
<1>1. /\ factory_mode' = FactoryLive /\ unlock_armed' = FALSE
      /\ staging_dirty' = DirtyLive /\ staging_index' = IndexLive
      /\ staging' = staging /\ session' = session
      /\ protocol' = Lapsed /\ reply' = r
  BY DEF NakOnly, KeepFactory, Disarm, stagebuf
<1>2. FactoryTypeOK'
  BY <1>1, LiveTyped DEF TypeOK, FactoryTypeOK
<1>3. FactoryInv'
  BY <1>1 DEF FactoryInv, UnlockDiscipline, StagingIsSession, FactoryLive,
              DirtyLive, FactoryExpired, Lapsed, Prior, TypeOK, FactoryTypeOK
<1> QED BY <1>2, <1>3

\* An accepted request that leaves the staging buffer alone.
LEMMA AcceptFactory ==
  ASSUME TypeOK, FactoryInv, Accept, KeepFactory, Disarm, protocol' = Lapsed,
         UNCHANGED stagebuf
  PROVE  FactoryTypeOK' /\ FactoryInv'
<1>1. FactoryTypeOK'
  BY LiveTyped DEF TypeOK, FactoryTypeOK, Accept, KeepFactory, Disarm, stagebuf
<1>2. FactoryInv'
  BY DEF FactoryInv, UnlockDiscipline, StagingIsSession, Accept, KeepFactory,
         Disarm, stagebuf, FactoryLive, DirtyLive, FactoryExpired, Lapsed, Prior,
         TypeOK, FactoryTypeOK
<1> QED BY <1>1, <1>2

LEMMA EndFactoryInv ==
  ASSUME TypeOK, EndFactory, unlock_armed' = FALSE, protocol' = "none",
         UNCHANGED stagebuf, reply' \in {"none", "ack"}
  PROVE  FactoryTypeOK' /\ FactoryInv'
<1>1. /\ factory_mode' = FALSE /\ staging_dirty' = FALSE /\ staging_index' = 0
      /\ staging' = staging /\ session' = session
  BY DEF EndFactory, stagebuf
<1>2. FactoryTypeOK'
  <2>1. /\ factory_mode' \in BOOLEAN /\ unlock_armed' \in BOOLEAN
        /\ staging_dirty' \in BOOLEAN
    BY <1>1
  <2>2. staging_index' \in 0 .. LastWord + 1
    BY <1>1 DEF LastWord
  <2> QED BY <1>1, <2>1, <2>2 DEF TypeOK, FactoryTypeOK
<1> QED BY <1>1, <1>2 DEF FactoryInv, UnlockDiscipline, StagingIsSession

LEMMA BootFactory ==
  ASSUME NEW p \in Page, Boot(p)
  PROVE  FactoryTypeOK' /\ FactoryInv'
<1>1. /\ factory_mode' = FALSE /\ unlock_armed' = FALSE /\ protocol' = "none"
      /\ staging' = Zeroed /\ session' = Virgin /\ staging_dirty' = FALSE
      /\ staging_index' = 0 /\ reply' = "none"
  BY DEF Boot
<1>2. FactoryTypeOK'
  <2>1. /\ factory_mode' \in BOOLEAN /\ unlock_armed' \in BOOLEAN
        /\ staging_dirty' \in BOOLEAN
    BY <1>1
  <2>2. staging_index' \in 0 .. LastWord + 1
    BY <1>1 DEF LastWord
  <2> QED BY <1>1, <2>1, <2>2, VirginIsPage DEF FactoryTypeOK
<1> QED BY <1>1, <1>2 DEF FactoryInv, UnlockDiscipline, StagingIsSession

\* Staging one word of a page the host knows.
LEMMA SetWordTyped ==
  ASSUME NEW p \in Page, NEW i \in 0 .. LastWord, NEW q \in HostPages
  PROVE  SetWord(p, i, q) \in Page
<1>1. q \in Page
  BY StageAssumption, SealedTyped DEF HostPages
<1> QED BY <1>1 DEF SetWord, Page

LEMMA CommitFactory ==
  ASSUME TypeOK, FactoryInv, NEW p \in Page, CommitPage(p)
  PROVE  FactoryTypeOK' /\ FactoryInv'
<1>1. CASE Programmed(p)
  BY <1>1, EndFactoryInv DEF Programmed, Accept, Disarm
<1>2. CASE SupplyLow \/ VerifyFailed(p)
  BY <1>2, NakFactory DEF SupplyLow, VerifyFailed, NakReason
<1>3. CASE \E left \in Interrupted(userrow, p) : Boot(left)
  BY <1>3, BootFactory, LeftTyped DEF TypeOK, PageTypeOK
<1> QED BY <1>1, <1>2, <1>3 DEF CommitPage

LEMMA FactoryStep ==
  ASSUME TypeOK, FactoryInv, IdentityCoherent, Next
  PROVE  FactoryTypeOK' /\ FactoryInv'
<1> USE DEF TypeOK
<1>1. ASSUME NEW r \in NakReason, Nak(r) PROVE FactoryTypeOK' /\ FactoryInv'
  BY <1>1, NakFactory DEF Nak
<1>2. CASE Tick \/ Unaddressed \/ GatedRequest
  BY <1>2 DEF Tick, Unaddressed, GatedRequest, factory, stagebuf, FactoryTypeOK,
              FactoryInv, UnlockDiscipline, StagingIsSession
<1>3. ASSUME NEW cmd \in {1, 2}, CascadeFrame(cmd)
      PROVE  FactoryTypeOK' /\ FactoryInv'
  <2>1. CASE factory_mode \/ unlock_armed
    BY <1>3, <2>1, EndFactoryInv DEF CascadeFrame
  <2>2. CASE ~(factory_mode \/ unlock_armed)
    BY <1>3, <2>2 DEF CascadeFrame, stagebuf, FactoryTypeOK, FactoryInv,
                      UnlockDiscipline, StagingIsSession
  <2> QED BY <2>1, <2>2
<1>4. CASE Broadcast
  <2>1. /\ factory_mode' = FactoryLive /\ staging_dirty' = DirtyLive
        /\ staging_index' = IndexLive /\ unlock_armed' = ArmedLive
        /\ protocol' = Prior /\ reply' = "none"
        /\ staging' = staging /\ session' = session
    BY <1>4 DEF Broadcast, KeepFactory, stagebuf
  <2>2. FactoryTypeOK'
    BY <2>1, LiveTyped DEF FactoryTypeOK
  <2>3. FactoryInv'
    BY <2>1 DEF FactoryInv, UnlockDiscipline, StagingIsSession, FactoryLive,
                ArmedLive, DirtyLive, FactoryExpired, Prior, FactoryTypeOK
  <2> QED BY <2>2, <2>3
<1>5. CASE BadSub \/ NotEligible \/ NotUnlocked \/ SetIdRefused
  BY <1>1, <1>5 DEF BadSub, NotEligible, NotUnlocked, SetIdRefused, NakReason
<1>6. CASE ReadRequest
  BY <1>1, <1>6, AcceptFactory DEF ReadRequest, NakReason
<1>7. CASE ClrErrCnt
  BY <1>1, <1>7, AcceptFactory DEF ClrErrCnt, NakReason
<1>8. CASE Unlock1
  <2>1. CASE /\ ~FactoryLive /\ Accept /\ KeepFactory /\ unlock_armed' = TRUE
             /\ protocol' = "armed" /\ UNCHANGED stagebuf
    <3>1. /\ factory_mode' = FALSE /\ staging_dirty' = DirtyLive
          /\ staging_index' = IndexLive /\ unlock_armed' = TRUE
          /\ protocol' = "armed" /\ reply' = "ack"
          /\ staging' = staging /\ session' = session
      BY <2>1, LiveTyped DEF Accept, KeepFactory, stagebuf
    <3>2. FactoryTypeOK'
      BY <3>1, LiveTyped DEF FactoryTypeOK
    <3> QED BY <3>1, <3>2 DEF FactoryInv, UnlockDiscipline, StagingIsSession
  <2> QED BY <1>1, <1>8, <2>1 DEF Unlock1, NakReason
<1>9. CASE Unlock2
  <2>1. CASE /\ FactoryLive \/ ArmedLive
             /\ Accept /\ EnterFactory /\ Disarm
             /\ protocol' = IF Prior = "none" THEN "none" ELSE "open"
    <3>1. protocol' = "open"
      BY <2>1 DEF FactoryLive, ArmedLive, FactoryExpired, Prior, FactoryInv,
                  UnlockDiscipline
    <3>2. factory_mode' = TRUE /\ unlock_armed' = FALSE /\ reply' = "ack"
      BY <2>1 DEF EnterFactory, Disarm, Accept
    <3>3. CASE FactoryLive
      <4>1. /\ staging' = staging /\ session' = session
            /\ staging_dirty' = staging_dirty /\ staging_index' = staging_index
        BY <2>1, <3>3 DEF EnterFactory
      <4>2. factory_mode
        BY <3>3 DEF FactoryLive
      <4>3. factory_mode' \in BOOLEAN /\ unlock_armed' \in BOOLEAN
        BY <3>2
      <4> QED BY <3>1, <3>2, <4>1, <4>2, <4>3
              DEF FactoryTypeOK, FactoryInv, UnlockDiscipline, StagingIsSession
    <3>4. CASE ~FactoryLive
      <4>1. /\ staging' = Virgin /\ session' = Virgin
            /\ staging_dirty' = FALSE /\ staging_index' = 0
        BY <2>1, <3>4 DEF EnterFactory
      <4>2. /\ factory_mode' \in BOOLEAN /\ unlock_armed' \in BOOLEAN
            /\ staging_dirty' \in BOOLEAN
        BY <3>2, <4>1
      <4>3. staging_index' \in 0 .. LastWord + 1
        BY <4>1 DEF LastWord
      <4> QED BY <3>1, <3>2, <4>1, <4>2, <4>3, VirginIsPage
              DEF FactoryTypeOK, FactoryInv, UnlockDiscipline, StagingIsSession
    <3> QED BY <3>3, <3>4
  <2> QED BY <1>1, <1>9, <2>1 DEF Unlock2, NakReason
<1>10. CASE StageAddr
  <2>1. CASE /\ Accept /\ Disarm /\ protocol' = Lapsed /\ FactoryLive
             /\ \E i \in 0 .. LastWord : staging_index' = i
             /\ UNCHANGED <<factory_mode, staging_dirty>> /\ UNCHANGED stagebuf
    <3>1. factory_mode /\ protocol' = "open"
      BY <2>1 DEF FactoryLive, Lapsed, Prior, FactoryInv, UnlockDiscipline
    <3>2. staging_index' \in 0 .. LastWord + 1
      BY <2>1 DEF LastWord
    <3>3. unlock_armed' = FALSE /\ unlock_armed' \in BOOLEAN
      BY <2>1 DEF Disarm
    <3> QED BY <2>1, <3>1, <3>2, <3>3
            DEF Accept, stagebuf, FactoryTypeOK, FactoryInv, UnlockDiscipline,
                StagingIsSession
  <2> QED BY <1>1, <1>10, <2>1 DEF StageAddr, NakReason
<1>11. CASE StageData
  <2>1. CASE /\ staging_index <= LastWord /\ FactoryLive
             /\ Accept /\ Disarm /\ protocol' = Lapsed
             /\ \E q \in HostPages :
                  /\ staging' = SetWord(staging, staging_index, q)
                  /\ session' = SetWord(session, staging_index, q)
             /\ staging_index' = staging_index + 1
             /\ staging_dirty' = TRUE /\ UNCHANGED factory_mode
    <3>1. factory_mode /\ protocol' = "open"
      BY <2>1 DEF FactoryLive, Lapsed, Prior, FactoryInv, UnlockDiscipline
    <3>2. staging_index \in 0 .. LastWord /\ staging_index' \in 0 .. LastWord + 1
      BY <2>1 DEF LastWord, FactoryTypeOK
    <3>3. staging' \in Page /\ session' = staging'
      BY <2>1, <3>1, <3>2, SetWordTyped
      DEF FactoryTypeOK, FactoryInv, StagingIsSession
    <3>4. /\ unlock_armed' = FALSE /\ unlock_armed' \in BOOLEAN
          /\ staging_dirty' = TRUE /\ staging_dirty' \in BOOLEAN
      BY <2>1 DEF Disarm
    <3> QED BY <2>1, <3>1, <3>2, <3>3, <3>4
            DEF Accept, FactoryTypeOK, FactoryInv, UnlockDiscipline, StagingIsSession
  <2> QED BY <1>1, <1>11, <2>1 DEF StageData, IndexInPage, NakReason
<1>12. CASE CommitCal
  <2>1. CASE Valid(staging) /\ CommitPage(staging)
    BY <2>1, CommitFactory DEF FactoryTypeOK
  <2> QED BY <1>1, <1>12, <2>1 DEF CommitCal, NakReason
<1>13. ASSUME NEW i \in Ids, SetId(i) PROVE FactoryTypeOK' /\ FactoryInv'
  <2>1. CASE id_from_page /\ CommitPage(ReIdentify(running_page, i))
    BY <2>1, CommitFactory, CommittedValid, ValidPagesTyped
  <2>2. CASE CommitPage(IdentityPage(i))
    BY <2>2, CommitFactory, CommittedValid, ValidPagesTyped
  <2> QED BY <1>1, <1>13, <2>1, <2>2 DEF NothingStaged, SetId, NakReason
<1>14. CASE Lock
  <2>1. CASE Accept /\ EndFactory /\ Disarm /\ protocol' = "none" /\ UNCHANGED stagebuf
    BY <2>1, EndFactoryInv DEF Accept, Disarm
  <2> QED BY <1>1, <1>14, <2>1 DEF Lock, NakReason
<1>15. CASE ResetRequest \/ PowerCycle
  BY <1>1, <1>15, BootFactory DEF ResetRequest, PowerCycle, PageTypeOK, NakReason
<1> QED
  BY <1>2, <1>3, <1>4, <1>5, <1>6, <1>7, <1>8, <1>9, <1>10, <1>11, <1>12, <1>13,
     <1>14, <1>15 DEF Next

----------------------------------------------------------------------------
(* Pages and identity                                                      *)

PageInv == PageTypeOK /\ IdentityCoherent /\ ResetKeepsOrDefaults

LEMMA BootPages ==
  ASSUME NEW p \in Page, Boot(p)
  PROVE  PageInv'
<1>1. Adopt(p) /\ userrow' = p /\ userrow_write_fail' = FALSE /\ doubt' = FALSE
  BY DEF Boot
<1>2. PageTypeOK'
  <2>1. userrow_write_fail' \in BOOLEAN /\ doubt' \in BOOLEAN
    BY <1>1
  <2> QED BY <1>1, <2>1, AdoptTyped DEF PageTypeOK
<1>3. ResetKeepsOrDefaults'
  BY <1>1, VirginNotValid DEF Adopt, SetDeviceId, Adopted, ResetKeepsOrDefaults
<1> QED BY <1>1, <1>2, <1>3, AdoptCoherent DEF PageInv

\* An erase-write of a valid page, however it ends.
LEMMA CommitPages ==
  ASSUME TypeOK, PageInv, NEW p \in ValidPages, CommitPage(p)
  PROVE  PageInv'
<1>1. p \in Page /\ Valid(p) /\ userrow \in Page
  BY ValidPagesTyped DEF PageInv, PageTypeOK
<1>2. CASE Programmed(p)
  <2>1. Adopt(p) /\ userrow' = p /\ doubt' = FALSE
        /\ userrow_write_fail' = userrow_write_fail
    BY <1>2 DEF Programmed
  <2>2. PageTypeOK'
    <3>1. doubt' \in BOOLEAN /\ userrow_write_fail' \in BOOLEAN
      BY <2>1 DEF PageInv, PageTypeOK
    <3> QED BY <1>1, <2>1, <3>1, AdoptTyped DEF PageTypeOK
  <2>3. ResetKeepsOrDefaults'
    <3>1. userrow' = p /\ running_page' = p /\ id_from_page' = TRUE
      BY <1>1, <2>1 DEF Adopt, SetDeviceId, Adopted
    <3>2. Valid(userrow') = TRUE
      <4>1. Valid(p) = TRUE
        BY <1>1 DEF Valid, CrcOk, FieldsOk
      <4> QED BY <3>1, <4>1
    <3> QED BY <3>1, <3>2 DEF ResetKeepsOrDefaults
  <2> QED BY <1>1, <2>1, <2>2, <2>3, AdoptCoherent DEF PageInv
<1>3. CASE SupplyLow \/ VerifyFailed(p)
  <2>1. UNCHANGED identity /\ userrow_write_fail' = TRUE
        /\ (doubt' = doubt \/ doubt' = TRUE)
    BY <1>3 DEF SupplyLow, VerifyFailed, NakOnly
  <2>2. userrow' = userrow \/ userrow' \in Unverified(userrow, p)
    BY <1>3 DEF SupplyLow, VerifyFailed
  <2>3. userrow' \in Page /\ (Valid(userrow') => userrow' = userrow)
    BY <1>1, <2>2, LeftTyped
  <2>4. PageTypeOK'
    <3>1. doubt' \in BOOLEAN /\ userrow_write_fail' \in BOOLEAN
      BY <2>1 DEF PageInv, PageTypeOK
    <3> QED BY <2>1, <2>3, <3>1 DEF PageInv, PageTypeOK, identity
  <2>5. IdentityCoherent'
    BY <2>1 DEF PageInv, IdentityCoherent, identity
  <2>6. ResetKeepsOrDefaults'
    <3>1. running_page' = running_page /\ id_from_page' = id_from_page
      BY <2>1 DEF identity
    <3>2. id_from_page = Valid(running_page)
      <4>1. id_from_page \in BOOLEAN /\ Valid(running_page) \in BOOLEAN
        BY DEF PageInv, PageTypeOK, Valid, CrcOk, FieldsOk
      <4>2. IF id_from_page THEN Valid(running_page) ELSE ~Valid(running_page)
        BY VirginNotValid DEF PageInv, IdentityCoherent
      <4> QED BY <4>1, <4>2
    <3>3. Valid(userrow') => userrow' = running_page
      BY <2>3 DEF PageInv, ResetKeepsOrDefaults
    <3>4. userrow' = running_page => id_from_page = Valid(userrow')
      BY <3>2
    <3> QED BY <3>1, <3>3, <3>4 DEF ResetKeepsOrDefaults
  <2> QED BY <2>4, <2>5, <2>6 DEF PageInv
<1>4. CASE \E left \in Interrupted(userrow, p) : Boot(left)
  BY <1>1, <1>4, BootPages, LeftTyped
<1> QED BY <1>2, <1>3, <1>4 DEF CommitPage

LEMMA PageStep ==
  ASSUME TypeOK, PageInv, Next
  PROVE  PageInv'
<1>1. CASE PagesKept
  <2>1. PageTypeOK'
    BY <1>1 DEF PagesKept, PageInv, PageTypeOK, identity
  <2>2. IdentityCoherent' /\ ResetKeepsOrDefaults'
    BY <1>1 DEF PagesKept, PageInv, IdentityCoherent, ResetKeepsOrDefaults, identity
  <2> QED BY <2>1, <2>2 DEF PageInv
<1>2. CASE Commits
  BY <1>2, CommitPages DEF Commits
<1>3. CASE Boot(userrow)
  BY <1>3, BootPages DEF PageInv, PageTypeOK
<1> QED BY <1>1, <1>2, <1>3, PageShape DEF PageInv

----------------------------------------------------------------------------
(* The inductive invariant                                                 *)

IInv == TypeOK /\ TimeInv /\ FactoryInv /\ PageInv

LEMMA InitIInv == Init => IInv
<1> SUFFICES ASSUME NEW p \in Page, BootState(p) PROVE IInv
  BY UserrowAssumption DEF Init
<1>1. TimeInv
  <2>1. /\ millis = 0 /\ uptime = 0 /\ quiet = 0 /\ last_arm_frame = 0
        /\ factory_last_accept = 0 /\ since_accept = 0
        /\ unlock_armed_at = 0 /\ since_armed = 0
    BY DEF BootState
  <2>2. run_3s = FALSE /\ arm_seen = cmd2_heard
    BY DEF BootState
  <2> QED BY <2>1, <2>2 DEF TimeInv, Since
<1>2. TimeTypeOK
  <2>1. /\ run_100ms \in BOOLEAN /\ run_3s \in BOOLEAN
        /\ arm_seen \in BOOLEAN /\ cmd2_heard \in BOOLEAN
    BY DEF BootState
  <2>2. /\ millis = 0 /\ uptime = 0 /\ quiet = 0 /\ last_arm_frame = 0
        /\ factory_last_accept = 0 /\ since_accept = 0
        /\ unlock_armed_at = 0 /\ since_armed = 0
    BY DEF BootState
  <2> QED BY <2>1, <2>2, TimeAssumption DEF TimeTypeOK, Time
<1>3. FactoryTypeOK /\ FactoryInv
  <2>1. /\ factory_mode = FALSE /\ unlock_armed = FALSE /\ protocol = "none"
        /\ staging = Zeroed /\ session = Virgin /\ staging_dirty = FALSE
        /\ staging_index = 0 /\ reply = "none"
    BY DEF BootState
  <2>2. /\ factory_mode \in BOOLEAN /\ unlock_armed \in BOOLEAN
        /\ staging_dirty \in BOOLEAN
    BY <2>1
  <2>3. staging_index \in 0 .. LastWord + 1
    BY <2>1 DEF LastWord
  <2> QED BY <2>1, <2>2, <2>3, VirginIsPage
          DEF FactoryTypeOK, FactoryInv, UnlockDiscipline, StagingIsSession
<1>4. PageInv
  <2>1. Valid(p) \in BOOLEAN
    BY DEF Valid, CrcOk, FieldsOk
  <2>2. PageTypeOK
    <3>1. p.body \in Body /\ BodyZero \in Body /\ (Valid(p) => p.hdr.id \in Ids)
      BY PageAssumption DEF Page, Valid, FieldsOk
    <3>2. userrow \in Page /\ running_page \in Page /\ running_cal \in Body
      BY <3>1, AdoptedTyped DEF BootState
    <3>3. /\ device_id \in Ids \cup {BuildDefault}
          /\ id_slot \in Ids \cup {BuildDefault}
      BY <3>1 DEF BootState
    <3>4. /\ id_from_page \in BOOLEAN /\ cal_invalid \in BOOLEAN
          /\ cal_ver_unsup \in BOOLEAN /\ userrow_write_fail \in BOOLEAN
          /\ doubt \in BOOLEAN
      BY <2>1 DEF BootState
    <3> QED BY <3>2, <3>3, <3>4 DEF PageTypeOK
  <2>3. IdentityCoherent
    BY <2>1 DEF BootState, Adopted, IdentityCoherent
  <2>4. ResetKeepsOrDefaults
    BY <2>1, VirginNotValid DEF BootState, Adopted, ResetKeepsOrDefaults
  <2> QED BY <2>2, <2>3, <2>4 DEF PageInv
<1> QED BY <1>1, <1>2, <1>3, <1>4 DEF IInv, TypeOK, PageInv

LEMMA NextIInv == IInv /\ [Next]_vars => IInv'
<1> SUFFICES ASSUME IInv, [Next]_vars PROVE IInv'
  OBVIOUS
<1>0. TypeOK /\ TimeInv /\ FactoryInv /\ PageInv /\ IdentityCoherent
  BY DEF IInv, PageInv
<1>1. CASE Next
  <2>1. PageInv' /\ FactoryTypeOK' /\ FactoryInv'
    BY <1>0, <1>1, PageStep, FactoryStep
  <2>2. TimeTypeOK' /\ TimeInv'
    BY <1>0, <1>1, StepShape, TimeTyped, TimeTick, TimeSteady, TimeBoot
  <2> QED BY <2>1, <2>2 DEF IInv, TypeOK, PageInv
<1>2. CASE UNCHANGED vars
  <2> USE <1>0, <1>2 DEF vars, clock, cascade, stamps, factory, stagebuf, identity, nvm
  <2>1. TimeTypeOK' /\ TimeInv'
    BY DEF TypeOK, TimeTypeOK, TimeInv, Since
  <2>2. FactoryTypeOK' /\ FactoryInv'
    BY DEF TypeOK, FactoryTypeOK, FactoryInv, UnlockDiscipline, StagingIsSession
  <2>3. PageTypeOK'
    BY DEF PageInv, PageTypeOK
  <2>4. IdentityCoherent' /\ ResetKeepsOrDefaults'
    BY DEF PageInv, IdentityCoherent, ResetKeepsOrDefaults
  <2> QED BY <2>1, <2>2, <2>3, <2>4 DEF IInv, TypeOK, PageInv
<1> QED BY <1>1, <1>2

THEOREM Inductive == Spec => []IInv
BY InitIInv, NextIInv, PTL DEF Spec

\* Every variable keeps its type, whatever the constants and the page found
\* in the USERROW at power-up.
THEOREM TypeCorrect == Spec => []TypeOK
BY Inductive, PTL DEF IInv

\* The ID the cascade is answered at, the CMD=3 address, the running page and
\* the coefficients are one identity after any sequence of requests.
THEOREM IdentityIsCoherent == Spec => []IdentityCoherent
BY Inductive, PTL DEF IInv, PageInv

\* After any failed or interrupted write a reset restores the running identity
\* or falls back to the build default, never to a third one.
THEOREM ResetIsSafe == Spec => []ResetKeepsOrDefaults
BY Inductive, PTL DEF IInv, PageInv

\* Nothing stays unlocked or armed beyond the unlock protocol.
THEOREM UnlockIsDisciplined == Spec => []UnlockDiscipline
BY Inductive, PTL DEF IInv, FactoryInv

\* COMMIT_CAL programs what was staged since factory mode was entered.
THEOREM StagingIsOfThisSession == Spec => []StagingIsSession
BY Inductive, PTL DEF IInv, FactoryInv

----------------------------------------------------------------------------
(* What no step may do                                                     *)

LEMMA ReplyBehindGate == ASSUME Next PROVE reply' = "none" \/ GateOpen
<1>1. CASE Tick \/ Unaddressed \/ GatedRequest \/ PowerCycle
  BY <1>1 DEF Tick, Unaddressed, GatedRequest, PowerCycle, Boot
<1>2. CASE \E cmd \in {1, 2} : CascadeFrame(cmd)
  BY <1>2 DEF CascadeFrame
<1>3. CASE \/ Broadcast \/ BadSub \/ ReadRequest \/ ClrErrCnt \/ NotEligible
           \/ NotUnlocked \/ Unlock1 \/ Unlock2 \/ StageAddr \/ StageData
           \/ SetIdRefused \/ Lock
  BY <1>3 DEF Request, Broadcast, BadSub, ReadRequest, ClrErrCnt, NotEligible,
              NotUnlocked, Unlock1, Unlock2, StageAddr, StageData, SetIdRefused, Lock
<1>4. CASE CommitCal \/ (\E i \in Ids : SetId(i)) \/ ResetRequest
  BY <1>4 DEF CommitCal, SetId, ResetRequest, CommitPage, Request
<1> QED BY <1>1, <1>2, <1>3, <1>4 DEF Next

\* The read gate in real time: a module that transmits on the side channel
\* has heard no cascade frame for T_IDLE, wraps of millis() included.
THEOREM ReadGateHolds == Spec => ReadGate
<1>1. IInv /\ [Next]_vars => [reply' # "none" => quiet = T_IDLE]_vars
  BY ReplyBehindGate, GatesInRealTime DEF IInv
<1> QED BY <1>1, Inductive, PTL DEF Spec, ReadGate

LEMMA CommitWrites ==
  ASSUME NEW p, CommitPage(p)
  PROVE  userrow' = userrow \/ userrow' \in Interrupted(userrow, p)
BY DEF CommitPage, Programmed, SupplyLow, VerifyFailed, Unverified, Interrupted, Boot

\* The write gate, the unlock and factory mode together: what has to have
\* happened on the bus before the USERROW changes.
THEOREM WriteGuardHolds == Spec => WriteGuard
<1> DEFINE Guarded == userrow' # userrow =>
       /\ ~cmd2_heard /\ uptime = T_ARM_WAIT /\ quiet = T_IDLE
       /\ protocol = "open"
       /\ since_accept < T_FACTORY \/ since_accept = ClockMod
<1>1. IInv /\ Next => Guarded
  <2> SUFFICES ASSUME IInv, Next, userrow' # userrow PROVE Guarded
    OBVIOUS
  <2>1. Commits
    BY PageShape DEF IInv, PageInv, PagesKept, Boot
  <2>2. factory_mode
    BY <2>1 DEF Commits, FactoryLive
  <2> QED BY <2>1, <2>2, GatesInRealTime
          DEF IInv, FactoryInv, UnlockDiscipline, Commits
<1>2. IInv /\ [Next]_vars => [Guarded]_vars
  BY <1>1
<1> QED BY <1>2, Inductive, PTL DEF Spec, WriteGuard

LEMMA FactoryEntered ==
  ASSUME TypeOK, Next, ~factory_mode, factory_mode'
  PROVE  ArmedLive
<1>1. ASSUME NEW r, Nak(r) PROVE FALSE
  BY <1>1 DEF Nak, NakOnly, KeepFactory, FactoryLive
<1>2. ASSUME NEW p, CommitPage(p) PROVE FALSE
  BY <1>2 DEF CommitPage, Programmed, EndFactory, SupplyLow, VerifyFailed, NakOnly,
              KeepFactory, FactoryLive, Boot
<1>3. CASE Unlock2
  BY <1>1, <1>3 DEF Unlock2, FactoryLive
<1>4. CASE Tick \/ Unaddressed \/ GatedRequest \/ PowerCycle
  BY <1>4 DEF Tick, Unaddressed, GatedRequest, PowerCycle, Boot, factory
<1>5. CASE \E cmd \in {1, 2} : CascadeFrame(cmd)
  BY <1>5 DEF CascadeFrame, EndFactory
<1>6. CASE Broadcast \/ BadSub \/ ReadRequest \/ ClrErrCnt \/ NotEligible
           \/ NotUnlocked \/ SetIdRefused
  BY <1>1, <1>6 DEF Broadcast, BadSub, ReadRequest, ClrErrCnt, NotEligible,
              NotUnlocked, SetIdRefused, KeepFactory, FactoryLive
<1>7. CASE Unlock1 \/ StageAddr \/ StageData \/ Lock
  BY <1>1, <1>7 DEF Unlock1, StageAddr, StageData, Lock, EndFactory, KeepFactory,
                    FactoryLive
<1>8. CASE CommitCal \/ (\E i \in Ids : SetId(i)) \/ ResetRequest
  BY <1>1, <1>2, <1>8 DEF CommitCal, SetId, ResetRequest, Boot
<1> QED BY <1>3, <1>4, <1>5, <1>6, <1>7, <1>8 DEF Next

\* Factory mode is entered only by the request right after the accepted
\* UNLOCK_1, inside its window.
THEOREM UnlockWindowHolds == Spec => UnlockWindow
<1> DEFINE Entered == ~factory_mode /\ factory_mode' =>
       /\ protocol = "armed"
       /\ since_armed < T_UNLOCK \/ since_armed = ClockMod
<1>1. IInv /\ Next => Entered
  BY FactoryEntered, GatesInRealTime
  DEF IInv, FactoryInv, UnlockDiscipline, ArmedLive
<1>2. IInv /\ [Next]_vars => [Entered]_vars
  BY <1>1 DEF vars, factory
<1> QED BY <1>2, Inductive, PTL DEF Spec, UnlockWindow

\* While words are staged, the staged page is the only one that can reach the
\* USERROW: SET_ID cannot overtake a calibration being written.
THEOREM StagedIsCommitted == Spec => DirtyIsCommitted
<1> DEFINE Goal == staging_dirty /\ userrow' # userrow =>
                     userrow' \in Interrupted(userrow, session)
<1>1. IInv /\ Next => Goal
  <2> SUFFICES ASSUME IInv, Next, staging_dirty, userrow' # userrow PROVE Goal
    OBVIOUS
  <2>1. Commits
    BY PageShape DEF IInv, PageInv, PagesKept, Boot
  <2>2. staging = session
    BY <2>1 DEF Commits, FactoryLive, IInv, FactoryInv, StagingIsSession
  <2> QED BY <2>1, <2>2, CommitWrites DEF Commits, Writable
<1>2. IInv /\ [Next]_vars => [Goal]_vars
  BY <1>1
<1> QED BY <1>2, Inductive, PTL DEF Spec, DirtyIsCommitted

\* SET_ID, a failed write and a reset leave the coefficients in force alone.
THEOREM CalibrationIsKept == Spec => CalibrationKept
<1> DEFINE Goal == id_from_page /\ id_from_page' /\ ~staging_dirty =>
                     running_cal' = running_cal
<1>1. IInv /\ Next => Goal
  <2> SUFFICES ASSUME IInv, Next, id_from_page, id_from_page', ~staging_dirty
               PROVE  running_cal' = running_cal
    OBVIOUS
  <2>1. ASSUME NEW q \in Page, Boot(q), Valid(q) => q.body = running_cal
        PROVE  running_cal' = running_cal
    BY <2>1 DEF Boot, Adopt
  <2>2. Valid(userrow) => userrow.body = running_cal
    BY DEF IInv, PageInv, ResetKeepsOrDefaults, IdentityCoherent
  <2>3. CASE Commits
    <3>1. PICK p \in ValidPages : Writable(p) /\ CommitPage(p)
      BY <2>3 DEF Commits
    <3>2. p \in Page /\ Valid(p) /\ userrow \in Page
      BY ValidPagesTyped DEF IInv, PageInv, PageTypeOK
    <3>3. staging = Virgin
      BY <2>3 DEF Commits, FactoryLive, IInv, FactoryInv
    <3>4. p.body = running_cal
      BY <3>1, <3>2, <3>3, VirginNotValid DEF Writable
    <3>5. CASE Programmed(p)
      BY <3>2, <3>4, <3>5 DEF Programmed, Adopt
    <3>6. CASE SupplyLow \/ VerifyFailed(p)
      BY <3>6 DEF SupplyLow, VerifyFailed, NakOnly, identity
    <3>7. CASE \E left \in Interrupted(userrow, p) : Boot(left)
      BY <2>1, <2>2, <3>2, <3>4, <3>7, LeftTyped
    <3> QED BY <3>1, <3>5, <3>6, <3>7 DEF CommitPage
  <2>4. CASE Boot(userrow)
    BY <2>1, <2>2, <2>4 DEF IInv, PageInv, PageTypeOK
  <2> QED BY <2>3, <2>4, PageShape DEF IInv, PageInv, PagesKept, identity
<1>2. IInv /\ [Next]_vars => [Goal]_vars
  BY <1>1
<1> QED BY <1>2, Inductive, PTL DEF Spec, CalibrationKept

----------------------------------------------------------------------------
(* Refinement                                                              *)

\* The store's pages are the module's: both extend KerPage.
LEMMA StorePages ==
  /\ Store!Page = Page
  /\ Store!ValidPages = ValidPages
  /\ \A p : Store!Adopted(p) = Adopted(p)
  /\ \A old, new : /\ Store!Unverified(old, new) = Unverified(old, new)
                   /\ Store!Interrupted(old, new) = Interrupted(old, new)
<1>1. Store!Page = Page
  BY DEF Store!Page, Page, Store!Header, Header, Store!CrcWord, CrcWord
<1>2. Store!ValidPages = ValidPages
  BY DEF Store!ValidPages, ValidPages, Store!Sealed, Sealed, Store!HeaderFor,
         HeaderFor, Store!Crc, Crc
<1>3. Store!Virgin = Virgin
  BY DEF Store!Virgin, Virgin, Store!HeaderFF, HeaderFF
<1>4. \A p : Store!Adopted(p) = Adopted(p)
  BY <1>3 DEF Store!Adopted, Adopted, Store!Valid, Valid, Store!CrcOk, CrcOk,
              Store!Crc, Crc, Store!FieldsOk, FieldsOk
<1>5. \A old, new : /\ Store!Unverified(old, new) = Unverified(old, new)
                   /\ Store!Interrupted(old, new) = Interrupted(old, new)
  BY <1>3 DEF Store!Unverified, Unverified, Store!Interrupted, Interrupted,
              Store!Torn, Torn
<1> QED BY <1>1, <1>2, <1>4, <1>5

LEMMA StoreInit == Init => Store!Init
<1> SUFFICES ASSUME NEW p \in Page, BootState(p) PROVE Store!Init
  BY UserrowAssumption DEF Init
<1> QED BY StorePages DEF BootState, Store!Init

LEMMA StoreStep ==
  ASSUME IInv, Next
  PROVE  Store!Next \/ UNCHANGED Store!vars
<1>1. CASE PagesKept
  BY <1>1 DEF PagesKept, identity, Store!vars
<1>2. CASE Commits
  <2>1. PICK p \in ValidPages : CommitPage(p)
    BY <1>2 DEF Commits
  <2>2. p \in Page /\ Valid(p)
    BY ValidPagesTyped
  <2>3. CASE Programmed(p)
    BY <2>2, <2>3, StorePages DEF Programmed, Adopt, SetDeviceId, Adopted, Store!Next, Store!Provision
  <2>4. CASE SupplyLow
    BY <2>4 DEF SupplyLow, NakOnly, identity, Store!vars
  <2>5. CASE VerifyFailed(p)
    BY <2>5, StorePages DEF VerifyFailed, NakOnly, identity, Store!Next, Store!FailedWrite
  <2>6. CASE \E left \in Interrupted(userrow, p) : Boot(left)
    BY <2>6, StorePages DEF Boot, Adopt, Store!Next, Store!Restart
  <2> QED BY <2>1, <2>3, <2>4, <2>5, <2>6 DEF CommitPage
<1>3. CASE Boot(userrow)
  BY <1>3, StorePages DEF Boot, Adopt, Store!Next, Store!Restart
<1> QED BY <1>1, <1>2, <1>3, PageShape DEF IInv, PageInv

\* Seen through its USERROW, its running page and whether a write has failed,
\* the module is an identity store: it provisions, fails or restarts.
THEOREM RefinesStore == Spec => ImplementsStore
<1>1. IInv /\ [Next]_vars => [Store!Next]_Store!vars
  <2>1. UNCHANGED vars => UNCHANGED Store!vars
    BY DEF vars, identity, nvm, Store!vars
  <2> QED BY <2>1, StoreStep
<1> QED BY <1>1, StoreInit, Inductive, PTL DEF Spec, ImplementsStore, Store!Spec

=============================================================================
