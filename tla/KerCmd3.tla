------------------------------ MODULE KerCmd3 ------------------------------
(***************************************************************************)
(* The CMD=3 side channel of one encoder module (ker_cmd3.cpp): the read   *)
(* gate that keeps it silent while the arm's cascade runs, the write gate, *)
(* the two-step unlock, factory mode and its staging buffer, and the three *)
(* requests that end in an erase-write of the USERROW.                     *)
(*                                                                         *)
(* Every action is one call into the file: ker_on_frame for one kind of    *)
(* frame, ker_read_angle from the main loop, ker_init after a reset, or    *)
(* one millisecond passing.  What a request reads (angles, counters, the   *)
(* averaged sampling) has no effect on this state and is abstracted to     *)
(* ReadRequest; the latch and the sampling engine belong to the read path. *)
(*                                                                         *)
(* millis() is a counter that wraps at ClockMod, as uint32_t does, and the *)
(* code subtracts time stamps modulo the same width.  The history          *)
(* variables measure the time that really went by.                         *)
(***************************************************************************)
EXTENDS KerPage

CONSTANTS
  BuildDefault,  \* -DDEVICE_ID of the build, 31 on the shared hex
  HeaderIn,      \* headers, bodies a host stages (bound of the model)
  BodyIn,
  T_IDLE,        \* 100 ms: read gate
  T_ARM_WAIT,    \* 3 s: write eligibility after reset
  T_FACTORY,     \* 5 s: factory-mode inactivity
  T_UNLOCK,      \* 1 s: UNLOCK_1 .. UNLOCK_2
  ClockMod       \* 2^32: where millis() wraps

ASSUME TimeAssumption ==
  /\ T_IDLE \in Nat \ {0} /\ T_ARM_WAIT \in Nat \ {0}
  /\ T_FACTORY \in Nat \ {0} /\ T_UNLOCK \in Nat \ {0}
  /\ ClockMod \in Nat
  /\ T_IDLE < ClockMod /\ T_ARM_WAIT < ClockMod
  /\ T_FACTORY < ClockMod /\ T_UNLOCK < ClockMod

ASSUME StageAssumption == HeaderIn \subseteq Header /\ BodyIn \subseteq Body

VARIABLES
  \* time and the bus
  millis, run_100ms, run_3s, last_arm_frame, arm_seen,
  \* unlock and factory mode
  factory_mode, factory_last_accept, unlock_armed, unlock_armed_at,
  \* staging buffer
  staging, staging_dirty, staging_index,
  \* identity and calibration; id_slot is main.cpp's own device_id
  userrow, running_page, running_cal, device_id, id_slot, id_from_page,
  cal_invalid, cal_ver_unsup, userrow_write_fail,
  \* what the last step put on the bus for CMD=3: "none", "ack" or the NAK
  reply,
  \* history: real elapsed time since reset, since the last CMD=1 or CMD=2
  \* frame, since the last accepted request and since the last UNLOCK_1
  uptime, quiet, since_accept, since_armed,
  \* history: a CMD=2 was heard since reset; how far the unlock protocol of
  \* the specification has got; the page staged since factory mode was
  \* entered; a program has failed since the running page was adopted
  cmd2_heard, protocol, session, doubt

clock    == <<run_100ms, run_3s>>
cascade  == <<last_arm_frame, arm_seen, quiet, cmd2_heard>>
stagebuf == <<staging, session>>
identity == <<running_page, running_cal, device_id, id_slot, id_from_page,
              cal_invalid, cal_ver_unsup>>
nvm      == <<userrow, userrow_write_fail, doubt>>
stamps   == <<factory_last_accept, since_accept, unlock_armed_at, since_armed>>
factory  == <<factory_mode, unlock_armed, staging_dirty, staging_index, protocol>>
vars == <<millis, uptime, clock, cascade, stamps, factory, stagebuf, identity,
          nvm, reply>>

NakReason == {"NOT_UNLOCKED", "BAD_ARG", "BAD_INDEX", "CRC_FAIL", "WRITE_FAIL",
              "UNSUPPORTED", "BAD_ADDRESSING", "SEQUENCE", "NOT_ELIGIBLE",
              "BAD_PAGE", "STAGING_BUSY"}

Time == 0 .. ClockMod - 1

TimeTypeOK ==
  /\ millis \in Time /\ last_arm_frame \in Time
  /\ factory_last_accept \in Time /\ unlock_armed_at \in Time
  /\ uptime \in 0 .. T_ARM_WAIT /\ quiet \in 0 .. T_IDLE
  /\ since_accept \in 0 .. ClockMod /\ since_armed \in 0 .. ClockMod
  /\ run_100ms \in BOOLEAN /\ run_3s \in BOOLEAN
  /\ arm_seen \in BOOLEAN /\ cmd2_heard \in BOOLEAN

FactoryTypeOK ==
  /\ factory_mode \in BOOLEAN /\ unlock_armed \in BOOLEAN
  /\ protocol \in {"none", "armed", "open"}
  /\ staging \in Page /\ session \in Page /\ staging_dirty \in BOOLEAN
  /\ staging_index \in 0 .. LastWord + 1
  /\ reply \in {"none", "ack"} \cup NakReason

PageTypeOK ==
  /\ userrow \in Page /\ running_page \in Page /\ running_cal \in Body
  /\ device_id \in Ids \cup {BuildDefault} /\ id_slot \in Ids \cup {BuildDefault}
  /\ id_from_page \in BOOLEAN /\ cal_invalid \in BOOLEAN
  /\ cal_ver_unsup \in BOOLEAN /\ userrow_write_fail \in BOOLEAN
  /\ doubt \in BOOLEAN

\* Every variable of the file's state and of its history has its type.
TypeOK == TimeTypeOK /\ FactoryTypeOK /\ PageTypeOK

(***************************************************************************)
(* millis() - t in uint32_t arithmetic.                                    *)
(***************************************************************************)
Since(t) == IF t <= millis THEN millis - t ELSE millis + ClockMod - t

UpTo(limit, n) == IF n < limit THEN n + 1 ELSE limit

----------------------------------------------------------------------------
(* Gates                                                                   *)

\* run_100ms and run_3s latch, so that a wrap of millis() cannot close them.
Run100 == run_100ms \/ millis >= T_IDLE
Run3s  == run_3s \/ millis >= T_ARM_WAIT
RunFlags == run_100ms' = Run100 /\ run_3s' = Run3s

GateNoIdle == Run100                  \* a mutant: no idle time
GateOpen == Run100 /\ Since(last_arm_frame) >= T_IDLE

EligibleInArm == Run3s                \* a mutant: arm_seen ignored
WriteEligible == ~arm_seen /\ Run3s

\* Factory mode and the armed unlock expire lazily, at the next request.
FactoryExpired == factory_mode /\ Since(factory_last_accept) >= T_FACTORY
FactoryLive == factory_mode /\ ~FactoryExpired
ArmedLive == unlock_armed /\ ~FactoryExpired /\ Since(unlock_armed_at) < T_UNLOCK
DirtyLive == staging_dirty /\ ~FactoryExpired
IndexLive == IF FactoryExpired THEN 0 ELSE staging_index

\* The specification's view: what the unlock protocol is left at by a request
\* that is not the step it waits for.
Prior == IF FactoryExpired THEN "none" ELSE protocol
Lapsed == IF Prior = "open" THEN "open" ELSE "none"

----------------------------------------------------------------------------
(* Parts of ker_on_frame and dispatch                                      *)

\* A request to this module that gets past the read gate.
Request ==
  /\ GateOpen
  /\ RunFlags
  /\ UNCHANGED <<millis, uptime, cascade>>

\* A mutant: another request leaves the unlock armed.
StayArmed == unlock_armed' = ArmedLive /\ UNCHANGED <<unlock_armed_at, since_armed>>
Disarm == unlock_armed' = FALSE /\ UNCHANGED <<unlock_armed_at, since_armed>>

\* The state a request is dispatched with, after the lazy expiry.
KeepFactory ==
  /\ factory_mode' = FactoryLive
  /\ staging_dirty' = DirtyLive
  /\ staging_index' = IndexLive

EndFactory ==
  /\ factory_mode' = FALSE
  /\ staging_dirty' = FALSE
  /\ staging_index' = 0

Accept ==
  /\ reply' = "ack"
  /\ factory_last_accept' = millis
  /\ since_accept' = 0

\* A NAK touches the lazy expiry and the armed unlock, nothing else.
NakOnly(reason) ==
  /\ reply' = reason
  /\ KeepFactory
  /\ Disarm
  /\ protocol' = Lapsed
  /\ UNCHANGED <<factory_last_accept, since_accept, stagebuf, identity>>

Nak(reason) == NakOnly(reason) /\ UNCHANGED nvm

----------------------------------------------------------------------------
(* Identity                                                                *)

SetHalfId(i) == device_id' = i /\ UNCHANGED id_slot     \* a mutant: main.cpp not told
SetDeviceId(i) == device_id' = i /\ id_slot' = i

\* adopt_page on the page read back from the USERROW.
Adopt(p) ==
  /\ running_page' = Adopted(p)
  /\ running_cal' = IF Valid(p) THEN p.body ELSE BodyZero
  /\ SetDeviceId(IF Valid(p) THEN p.hdr.id ELSE BuildDefault)
  /\ id_from_page' = Valid(p)
  /\ cal_invalid' = ~Valid(p)
  /\ cal_ver_unsup' = (~Valid(p) /\ p.hdr.magic /\ ~p.hdr.ver)

\* ker_init with p in the USERROW; also the initial state.
Boot(p) ==
  /\ userrow' = p
  /\ Adopt(p)
  /\ millis' = 0 /\ uptime' = 0 /\ quiet' = 0
  /\ run_100ms' = FALSE /\ run_3s' = FALSE
  /\ last_arm_frame' = 0 /\ arm_seen' = FALSE /\ cmd2_heard' = FALSE
  /\ factory_mode' = FALSE /\ factory_last_accept' = 0 /\ since_accept' = 0
  /\ unlock_armed' = FALSE /\ unlock_armed_at' = 0 /\ since_armed' = 0
  /\ protocol' = "none"
  /\ staging' = Zeroed /\ staging_dirty' = FALSE /\ staging_index' = 0
  /\ session' = Virgin
  /\ userrow_write_fail' = FALSE /\ doubt' = FALSE
  /\ reply' = "none"

\* commit_page: the supply check, the erase-write with its verify, the
\* adoption of what was read back, and the ways it can fail or be cut short.
Programmed(p) ==
  /\ userrow' = p
  /\ Adopt(p)
  /\ doubt' = FALSE
  /\ EndFactory
  /\ Accept
  /\ Disarm
  /\ protocol' = "none"
  /\ UNCHANGED <<stagebuf, userrow_write_fail>>

SupplyLow ==
  /\ NakOnly("WRITE_FAIL")
  /\ userrow_write_fail' = TRUE
  /\ UNCHANGED <<userrow, doubt>>

\* A mutant: the page is adopted although it did not verify.
AdoptsUnverified(p) ==
  /\ reply' = "WRITE_FAIL"
  /\ KeepFactory /\ Disarm
  /\ protocol' = Lapsed
  /\ userrow' \in Unverified(userrow, p)
  /\ Adopt(p)
  /\ userrow_write_fail' = TRUE /\ doubt' = TRUE
  /\ UNCHANGED <<factory_last_accept, since_accept, stagebuf>>

VerifyFailed(p) ==
  /\ NakOnly("WRITE_FAIL")
  /\ userrow' \in Unverified(userrow, p)
  /\ userrow_write_fail' = TRUE
  /\ doubt' = TRUE

CommitPage(p) ==
  \/ Request /\ Programmed(p)
  \/ Request /\ SupplyLow
  \/ Request /\ VerifyFailed(p)
  \/ GateOpen /\ \E left \in Interrupted(userrow, p) : Boot(left)

----------------------------------------------------------------------------
(* One action per kind of call                                             *)

Tick ==
  /\ millis' = IF millis = ClockMod - 1 THEN 0 ELSE millis + 1
  /\ uptime' = UpTo(T_ARM_WAIT, uptime)
  /\ quiet' = UpTo(T_IDLE, quiet)
  /\ since_accept' = UpTo(ClockMod, since_accept)
  /\ since_armed' = UpTo(ClockMod, since_armed)
  /\ reply' = "none"
  /\ UNCHANGED <<clock, last_arm_frame, arm_seen, cmd2_heard, factory_last_accept,
                 unlock_armed_at, factory, stagebuf, identity, nvm>>

\* ker_read_angle, and every frame that is CMD=0 or for another module: they
\* latch the run flags and nothing else here.
Unaddressed ==
  /\ RunFlags
  /\ reply' = "none"
  /\ UNCHANGED <<millis, uptime, cascade, stamps, factory, stagebuf, identity, nvm>>

\* A CMD=1 or CMD=2 frame, whatever its ID.
CascadeFrame(cmd) ==
  /\ RunFlags
  /\ last_arm_frame' = millis
  /\ quiet' = 0
  /\ arm_seen' = (arm_seen \/ cmd = 2)
  /\ cmd2_heard' = (cmd2_heard \/ cmd = 2)
  /\ IF factory_mode \/ unlock_armed
       THEN EndFactory /\ unlock_armed' = FALSE
       ELSE UNCHANGED <<factory_mode, staging_dirty, staging_index, unlock_armed>>
  /\ protocol' = "none"
  /\ reply' = "none"
  /\ UNCHANGED <<millis, uptime, stamps, stagebuf, identity, nvm>>

\* A CMD=3 request behind the closed read gate: silence, not even a NAK.
GatedRequest ==
  /\ ~GateOpen
  /\ RunFlags
  /\ reply' = "none"
  /\ UNCHANGED <<millis, uptime, cascade, stamps, factory, stagebuf, identity, nvm>>

\* ID 0: LATCH_SYNC acts on the read path, everything else is dropped.
Broadcast ==
  /\ Request
  /\ KeepFactory
  /\ unlock_armed' = ArmedLive
  /\ protocol' = Prior
  /\ reply' = "none"
  /\ UNCHANGED <<stamps, stagebuf, identity, nvm>>

\* SUB 0x00 and an addressed LATCH_SYNC.
BadSub == Request /\ \E r \in {"UNSUPPORTED", "BAD_ADDRESSING"} : Nak(r)

\* PING, the GET_* reads and SAMPLE_START.
ReadRequest ==
  /\ Request
  /\ \/ \E r \in {"BAD_INDEX", "SEQUENCE", "BAD_ARG"} : Nak(r)
     \/ /\ Accept
        /\ KeepFactory
        /\ Disarm
        /\ protocol' = Lapsed
        /\ UNCHANGED <<stagebuf, identity, nvm>>

ClrErrCnt ==
  /\ Request
  /\ \/ Nak("BAD_ARG")
     \/ /\ Accept
        /\ KeepFactory
        /\ Disarm
        /\ protocol' = Lapsed
        /\ userrow_write_fail' = FALSE
        /\ UNCHANGED <<stagebuf, identity, userrow, doubt>>

\* Gate W, for UNLOCK_1 and every later subcommand but LOCK.
NotEligible == Request /\ ~WriteEligible /\ Nak("NOT_ELIGIBLE")

\* Gate F, for STAGE_ADDR and every later subcommand but LOCK.
NotUnlocked == Request /\ WriteEligible /\ ~FactoryLive /\ Nak("NOT_UNLOCKED")

Unlock1 ==
  /\ Request
  /\ WriteEligible
  /\ \/ FactoryLive /\ Nak("SEQUENCE")
     \/ ~FactoryLive /\ Nak("BAD_ARG")
     \/ /\ ~FactoryLive
        /\ Accept
        /\ KeepFactory
        /\ unlock_armed' = TRUE
        /\ unlock_armed_at' = millis
        /\ since_armed' = 0
        /\ protocol' = "armed"
        /\ UNCHANGED <<stagebuf, identity, nvm>>

\* A mutant: the staging buffer is not erased.
EnterWithOldWords ==
  /\ factory_mode' = TRUE
  /\ UNCHANGED staging
  /\ IF FactoryLive
       THEN UNCHANGED <<session, staging_dirty, staging_index>>
       ELSE session' = Virgin /\ staging_dirty' = FALSE /\ staging_index' = 0

\* The right digest enters factory mode, or is harmless inside it.
EnterFactory ==
  /\ factory_mode' = TRUE
  /\ IF FactoryLive
       THEN UNCHANGED <<staging, session, staging_dirty, staging_index>>
       ELSE /\ staging' = Virgin /\ session' = Virgin
            /\ staging_dirty' = FALSE /\ staging_index' = 0

Unlock2 ==
  /\ Request
  /\ WriteEligible
  /\ \/ ~FactoryLive /\ ~ArmedLive /\ Nak("SEQUENCE")
     \/ (FactoryLive \/ ArmedLive) /\ Nak("BAD_ARG")
     \/ /\ FactoryLive \/ ArmedLive
        /\ Accept
        /\ EnterFactory
        /\ Disarm
        /\ protocol' = IF Prior = "none" THEN "none" ELSE "open"
        /\ UNCHANGED <<identity, nvm>>

StageAddr ==
  /\ Request
  /\ WriteEligible /\ FactoryLive
  /\ \/ \E r \in {"BAD_ARG", "BAD_INDEX"} : Nak(r)
     \/ /\ Accept
        /\ \E i \in 0 .. LastWord : staging_index' = i
        /\ UNCHANGED <<factory_mode, staging_dirty>>
        /\ Disarm
        /\ protocol' = Lapsed
        /\ UNCHANGED <<stagebuf, identity, nvm>>

\* ker_page_set_word: word i of page p taken from page q.
SetWord(p, i, q) ==
  [hdr  |-> IF i = 0 THEN q.hdr  ELSE p.hdr,
   body |-> IF i = 1 THEN q.body ELSE p.body,
   crc  |-> IF i = 2 THEN q.crc  ELSE p.crc]

\* The words a host sends are those of the pages it knows.
HostPages == {Sealed(h, b) : h \in HeaderIn, b \in BodyIn}

IndexInPage == staging_index <= LastWord

StageData ==
  /\ Request
  /\ WriteEligible /\ FactoryLive
  /\ \/ ~IndexInPage /\ Nak("BAD_INDEX")
     \/ /\ IndexInPage
        /\ Accept
        /\ \E q \in HostPages :
             /\ staging' = SetWord(staging, staging_index, q)
             /\ session' = SetWord(session, staging_index, q)
        /\ staging_index' = staging_index + 1
        /\ staging_dirty' = TRUE
        /\ UNCHANGED factory_mode
        /\ Disarm
        /\ protocol' = Lapsed
        /\ UNCHANGED <<identity, nvm>>

CommitCal ==
  /\ WriteEligible /\ FactoryLive
  /\ \/ Request /\ Nak("BAD_ARG")
     \/ Request /\ ~CrcOk(staging) /\ Nak("CRC_FAIL")
     \/ Request /\ CrcOk(staging) /\ ~Valid(staging) /\ Nak("BAD_PAGE")
     \/ Valid(staging) /\ CommitPage(staging)

OvertakesStaging == TRUE         \* a mutant: no STAGING_BUSY
NothingStaged == ~staging_dirty

\* do_set_id: the page comes from the running state, never from staging.
SetId(i) ==
  /\ WriteEligible /\ FactoryLive
  /\ \/ Request /\ ~NothingStaged /\ Nak("STAGING_BUSY")
     \/ /\ NothingStaged /\ id_from_page
        /\ CommitPage(ReIdentify(running_page, i))
     \/ /\ NothingStaged /\ ~id_from_page /\ userrow = Virgin
        /\ CommitPage(IdentityPage(i))
     \/ /\ Request /\ NothingStaged /\ ~id_from_page /\ userrow # Virgin
        /\ Nak("BAD_PAGE")

\* SET_ID with a wrong tag or an ID outside 1..30.
SetIdRefused ==
  /\ Request
  /\ WriteEligible /\ FactoryLive
  /\ \E r \in {"BAD_ARG", "BAD_INDEX"} : Nak(r)

\* LOCK is behind the read gate only, so that a module can always be locked.
Lock ==
  /\ Request
  /\ \/ Nak("BAD_ARG")
     \/ /\ Accept
        /\ EndFactory
        /\ Disarm
        /\ protocol' = "none"
        /\ UNCHANGED <<stagebuf, identity, nvm>>

ResetRequest ==
  /\ GateOpen /\ WriteEligible /\ FactoryLive
  /\ \/ Request /\ Nak("BAD_ARG")
     \/ Boot(userrow)

PowerCycle == Boot(userrow)

----------------------------------------------------------------------------
(* The part as delivered or found: any page in the USERROW, then ker_init. *)
BootState(p) ==
  /\ userrow = p
  /\ running_page = Adopted(p)
  /\ running_cal = (IF Valid(p) THEN p.body ELSE BodyZero)
  /\ device_id = (IF Valid(p) THEN p.hdr.id ELSE BuildDefault)
  /\ id_slot = device_id
  /\ id_from_page = Valid(p)
  /\ cal_invalid = ~Valid(p)
  /\ cal_ver_unsup = (~Valid(p) /\ p.hdr.magic /\ ~p.hdr.ver)
  /\ millis = 0 /\ uptime = 0 /\ quiet = 0
  /\ run_100ms = FALSE /\ run_3s = FALSE
  /\ last_arm_frame = 0 /\ arm_seen = FALSE /\ cmd2_heard = FALSE
  /\ factory_mode = FALSE /\ factory_last_accept = 0 /\ since_accept = 0
  /\ unlock_armed = FALSE /\ unlock_armed_at = 0 /\ since_armed = 0
  /\ protocol = "none"
  /\ staging = Zeroed /\ staging_dirty = FALSE /\ staging_index = 0
  /\ session = Virgin
  /\ userrow_write_fail = FALSE /\ doubt = FALSE
  /\ reply = "none"

CONSTANT UserrowAtStart   \* what the USERROW may hold at first power-up
ASSUME UserrowAssumption == UserrowAtStart \subseteq Page

Init == \E p \in UserrowAtStart : BootState(p)

Next ==
  \/ Tick
  \/ Unaddressed
  \/ \E cmd \in {1, 2} : CascadeFrame(cmd)
  \/ GatedRequest
  \/ Broadcast
  \/ BadSub
  \/ ReadRequest
  \/ ClrErrCnt
  \/ NotEligible
  \/ NotUnlocked
  \/ Unlock1
  \/ Unlock2
  \/ StageAddr
  \/ StageData
  \/ CommitCal
  \/ \E i \in Ids : SetId(i)
  \/ SetIdRefused
  \/ Lock
  \/ ResetRequest
  \/ PowerCycle

Spec == Init /\ [][Next]_vars

----------------------------------------------------------------------------
(* Safety                                                                  *)

\* C2, the read gate: whatever the side channel transmits, no CMD=1 or CMD=2
\* frame was heard for T_IDLE of real time, and the module has been up that
\* long -- also after millis() has wrapped.  (ker_on_frame, gate R)
ReadGate == [][reply' # "none" => quiet = T_IDLE]_vars

\* C3 and 4.9: the USERROW changes only on a module that has heard no CMD=2
\* since reset, is up for T_ARM_WAIT, is out of the cascade for T_IDLE, went
\* through UNLOCK_1 then UNLOCK_2 with nothing in between, and accepted a
\* request less than T_FACTORY ago.  The last bound is stated up to a wrap of
\* millis(): see FactoryTimeout.  (dispatch, gates W and F; commit_page)
WriteGuard ==
  [][userrow' # userrow =>
       /\ ~cmd2_heard /\ uptime = T_ARM_WAIT /\ quiet = T_IDLE
       /\ protocol = "open"
       /\ since_accept < T_FACTORY \/ since_accept = ClockMod]_vars

\* 4.9: factory mode and the armed unlock never outlive the protocol that
\* opened them: a cascade frame, LOCK, a commit or any other addressed request
\* between the two steps leaves nothing armed.  (ker_on_frame, the disarm at
\* its end; end_factory_mode)
UnlockDiscipline ==
  /\ factory_mode => protocol = "open"
  /\ unlock_armed => protocol = "armed"

\* 4.9: factory mode is entered by the request that follows the accepted
\* UNLOCK_1, within T_UNLOCK of it up to a wrap.  (dispatch, UNLOCK_2)
UnlockWindow ==
  [][~factory_mode /\ factory_mode' =>
       /\ protocol = "armed"
       /\ since_armed < T_UNLOCK \/ since_armed = ClockMod]_vars

\* The ID main.cpp answers the cascade with, the ID CMD=3 is addressed by, the
\* page GET_RUN_WORD reports and the coefficients in force are one identity:
\* that of a valid page, or the build default.  (set_device_id, adopt_page)
IdentityCoherent ==
  /\ id_slot = device_id
  /\ cal_invalid = ~id_from_page
  /\ IF id_from_page
       THEN /\ Valid(running_page)
            /\ device_id = running_page.hdr.id
            /\ running_cal = running_page.body
       ELSE /\ running_page = Virgin
            /\ device_id = BuildDefault
            /\ running_cal = BodyZero

\* 4.9, write failure, and 5.5: whatever was written or interrupted, a reset
\* brings back the identity that is running or the build default, never a
\* third one; and while GET_CAL_STATUS bit 7 is clear (stored = running page)
\* it brings back exactly what is running.  (commit_page, cal_status)
ResetKeepsOrDefaults ==
  /\ Valid(userrow) => userrow = running_page
  /\ userrow = running_page => id_from_page = Valid(userrow)

\* 4.9, staging buffer: what COMMIT_CAL would program holds the words staged
\* since factory mode was entered over 0xFF and nothing older, and a second
\* UNLOCK_2 inside factory mode loses none.  (dispatch, UNLOCK_2)
StagingIsSession == factory_mode => staging = session

\* 4.9, SET_ID: while words are staged the only page that can reach the
\* USERROW is the staged one, so SET_ID never overtakes a calibration.
DirtyIsCommitted ==
  [][staging_dirty /\ userrow' # userrow =>
       userrow' \in Interrupted(userrow, session)]_vars

\* 4.9, SET_ID "leaves calibration untouched": the coefficients of a module
\* that runs a stored page change only by a COMMIT_CAL of staged words, not by
\* a re-identification, a failed write or a reset.  (do_set_id)
CalibrationKept ==
  [][id_from_page /\ id_from_page' /\ ~staging_dirty =>
       running_cal' = running_cal]_vars

\* The module implements the identity store.
Store == INSTANCE IdentityStore
           WITH stored <- userrow, running <- running_page, certain <- ~doubt
ImplementsStore == Store!Spec

(***************************************************************************)
(* Statements of the specification the code does not keep.                 *)
(***************************************************************************)
\* 4.9: "Factory mode ends on any of: 5 s without an accepted request to this
\* module".  The expiry is evaluated at the next request, on a difference that
\* wraps with millis().
FactoryTimeout == [][userrow' # userrow => since_accept < T_FACTORY]_vars

\* 4.9: "a SET_ID that fails with WRITE_FAIL can simply be retried".
SetIdRetry ==
  [][reply = "WRITE_FAIL" /\ (\E i \in Ids : SetId(i)) => reply' # "BAD_PAGE"]_vars

=============================================================================
