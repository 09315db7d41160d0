-------------------------------- MODULE Host --------------------------------
(***************************************************************************)
(* The host tool kercal (link.py, module.py, cli.py) on a bench bus with   *)
(* one module: an operator runs commands, each a session that listens and  *)
(* then sends one request at a time, waits for its reply, keeps quiet      *)
(* after a time-out, and gives up on the first error.  The adapter has a   *)
(* buffer of frames (inbox) between the wire (air) and the tool.           *)
(*                                                                         *)
(* Time is in ticks of one reply time-out.  The adapter delivers in order. *)
(* The module serves CMD=3 as ker_cmd3.cpp does once its gates are open;   *)
(* factory mode lasts while a session runs.  Faults: a request or a reply  *)
(* lost or garbled (there is no frame check sequence), a late reply, a     *)
(* restart, a failed or interrupted USERROW write, which may leave a torn  *)
(* page, a cascade frame.                                                  *)
(***************************************************************************)
EXTENDS Protocol, FiniteSets

CONSTANTS
  Commands,          \* what the operator may run, records [op, id, ...]
  ScanIds,           \* the IDs of a scan, in order: 1..31
  Serial,            \* SIGROW.SERNUM as words: five of them
  FirstPage, BuildId,         \* the page of the USERROW, the ID without one
  Torn,              \* what a failed or interrupted write may leave besides
  OtherIds, OtherSubs,        \* what a garbled ID, a garbled SUB may read
  N_RTT, FIELDS,     \* pings of measure_round_trip, words of the indexed subcommands
  LISTEN_BEFORE_TX, TIMEOUT_REPLY, TIMEOUT_PROG, TIMEOUT_RTT, POLL, DEADLINE, RUN,
  MaxLatency,
  Budget             \* sessions and faults a behaviour may have, together

ASSUME TimeAssumption ==
  /\ {LISTEN_BEFORE_TX, TIMEOUT_REPLY, TIMEOUT_PROG, TIMEOUT_RTT, POLL, DEADLINE, RUN, MaxLatency}
       \subseteq Nat \ {0}
  /\ TIMEOUT_PROG >= TIMEOUT_REPLY /\ TIMEOUT_RTT >= TIMEOUT_REPLY

\* Rule 8 is about replies no later than a time-out and the quiet period behind
\* it; a session listens for longer than that.
ASSUME LatencyAssumption ==
  MaxLatency <= 2 * TIMEOUT_REPLY /\ MaxLatency <= LISTEN_BEFORE_TX

Records == {"GET_ANGLE_RAW", "GET_ANGLE_COMP", "GET_LATCHED", "GET_ERRCNT", "GET_SAMPLE"}
ASSUME ModuleAssumption ==
  /\ ScanIds \in Seq(1 .. 31) /\ Serial \in Seq(Word) /\ Len(Serial) \in 1 .. 31
  /\ FirstPage \in [1 .. PAGE_WORDS -> Word] /\ BuildId \in ID_MIN .. ID_UNPROVISIONED
  /\ Torn \subseteq [1 .. PAGE_WORDS -> Word]
  /\ \A p \in Torn : inspect_page(p) # "valid"
  /\ OtherIds \subseteq 1 .. 31 /\ OtherSubs \subseteq 0 .. 31
  /\ N_RTT \in Nat \ {0} /\ Budget \in Nat
  /\ FIELDS \in [Records \cup {"GET_FW_VER", "GET_ENV", "GET_TRIM"} -> 1 .. 31]

\* Module.sample waits three times as long as the readings take and half a
\* second more, in which twelve words are read many times over.
ASSUME DeadlineAssumption == DEADLINE >= RUN + FIELDS["GET_SAMPLE"] * TIMEOUT_REPLY

Ops == {"listen", "scan", "info", "page", "sample", "set_id", "write_page", "clear", "latched",
        "lock", "reset"}
ASSUME CommandAssumption ==
  \A c \in Commands :
    /\ c.op \in Ops
    /\ c.op = "write_page" => c.page \in [1 .. PAGE_WORDS -> Word]
    /\ c.op = "set_id" => c.new_id \in Byte
    /\ c.op = "sample" => c.e \in Byte

SELF == -1           \* a request to the module the command was given
KEYED == -1          \* an ARG computed from the serial number
NONE == [id |-> -1]

VARIABLES
  cmd, phase,        \* the command, and what it is doing
  todo, got,         \* its requests still to be sent, the replies it has
  mid,               \* Module.id
  left, deadline,    \* ticks left of a window, and of Module.sample
  worst, roundtrip,  \* measure_round_trip, Link.round_trip_s
  found,             \* what scan has found
  outcome,           \* how the command ended
  armed, unsafe, rx, inbox,         \* Link._armed, _unsafe, _rx, the OS buffer
  req, air,          \* the request on the wire, replies on their way
  stored, running, did,             \* USERROW, running page and ID of the module
  lock, staged, index,              \* unlock state, staging buffer
  snap, reading, run, gate, arm_seen,   \* record snapshots, sensor, sampling engine, gates
  spent,             \* of Budget
  trouble, poison    \* history: what the session met; how far a cascade frame got

toolVars == <<cmd, phase, todo, got, mid, left, deadline, worst, roundtrip, found, outcome>>
linkVars == <<armed, unsafe, rx, inbox>>
moduleVars == <<stored, running, did, lock, staged, index, snap, reading, run, gate, arm_seen>>
vars == <<toolVars, linkVars, req, air, moduleVars, spent, trouble, poison>>

----------------------------------------------------------------------------
(* What a command sends                                                    *)

Rq(name, arg) == [name |-> name, arg |-> arg, to |-> SELF, window |-> TIMEOUT_REPLY]
Each(name, n) == [i \in 1 .. n |-> Rq(name, i - 1)]
Fields(name) == Each(name, FIELDS[name])
_record(name) == Fields(name)                    \* index 0 first, always

ping(id) == [Rq("PING", 0) EXCEPT !.to = id]
firmware == Fields("GET_FW_VER") \o <<Rq("GET_PROTO_VER", 0)>>
device_id == <<Rq("GET_DEVICE_ID", 0)>>
health == <<Rq("GET_HEALTH", 0)>>
cal_status == <<Rq("GET_CAL_STATUS", 0)>>
cfg_verify == <<Rq("GET_CFG_VERIFY", 0)>>
sernum == Each("GET_SERNUM", Len(Serial))
environment == Fields("GET_ENV") \o <<Rq("GET_DMAG", 0), Rq("GET_STAT", 0), Rq("GET_SAFETY", 0)>>
trim == Fields("GET_TRIM")
angle_raw == _record("GET_ANGLE_RAW")
angle == _record("GET_ANGLE_COMP")
counters == _record("GET_ERRCNT")
clear_counters == <<Rq("CLR_ERRCNT", MAGIC.CLR_ERRCNT)>>
latched == _record("GET_LATCHED")
sample_start(e) == <<Rq("SAMPLE_START", Tagged(TAG.SAMPLE_START, e))>>
sample_poll == _record("GET_SAMPLE")
stored_page == Each("GET_CAL_WORD", PAGE_WORDS)
running_page == Each("GET_RUN_WORD", PAGE_WORDS)

unlock_read_late == <<Rq("UNLOCK_1", MAGIC.UNLOCK_1)>> \o sernum \o <<Rq("UNLOCK_2", KEYED)>>
unlock == sernum \o <<Rq("UNLOCK_1", MAGIC.UNLOCK_1), Rq("UNLOCK_2", KEYED)>>
stage(page) ==
  [i \in 1 .. 2 * PAGE_WORDS |->
     IF i % 2 = 1 THEN Rq("STAGE_ADDR", Tagged(TAG.STAGE_ADDR, (i - 1) \div 2))
     ELSE Rq("STAGE_DATA", page[i \div 2])]
commit == <<[Rq("COMMIT_CAL", MAGIC.COMMIT_CAL) EXCEPT !.window = TIMEOUT_PROG]>>
set_id_raises(new) == new \notin ID_MIN .. ID_MAX
set_id(new) == <<[Rq("SET_ID", Tagged(TAG.SET_ID, new)) EXCEPT !.window = TIMEOUT_PROG]>>
lock_again == <<Rq("LOCK", MAGIC.LOCK)>>
reset == <<Rq("RESET", MAGIC.RESET)>>
write_page(page) == unlock \o stage(page) \o commit \o stored_page \o cal_status
scan == [i \in 1 .. Len(ScanIds) |-> ping(ScanIds[i])]
measure_round_trip == [i \in 1 .. N_RTT |-> [Rq("PING", 0) EXCEPT !.window = TIMEOUT_RTT]]

cmd_listen == <<>>                               \* never transmits
cmd_scan == scan
cmd_info == measure_round_trip \o firmware \o device_id \o health \o cal_status \o cfg_verify
              \o environment \o trim \o counters \o sernum \o angle \o angle_raw
cmd_page(c) == IF c.running THEN running_page ELSE stored_page
cmd_sample(c) == sample_start(c.e)
cmd_set_id(c) == IF set_id_raises(c.new_id) THEN unlock
                 ELSE unlock \o set_id(c.new_id) \o device_id \o cal_status
cmd_clear == clear_counters \o counters

Plan(c) ==
  CASE c.op = "listen"     -> <<>>
    [] c.op = "scan"       -> cmd_scan
    [] c.op = "info"       -> cmd_info
    [] c.op = "page"       -> cmd_page(c)
    [] c.op = "sample"     -> cmd_sample(c)
    [] c.op = "set_id"     -> cmd_set_id(c)
    [] c.op = "write_page" -> write_page(c.page)
    [] c.op = "clear"      -> cmd_clear
    [] c.op = "latched"    -> latched
    [] c.op = "lock"       -> unlock \o lock_again
    [] c.op = "reset"      -> unlock \o reset

\* What write_page and sample refuse before they send anything.
sample_raises(e) == e \notin 0 .. 10
Refused(c) ==
  \/ c.op = "write_page" /\ inspect_page(c.page) # "valid"
  \/ c.op = "sample" /\ sample_raises(c.e)

\* The last n replies.
LastReplies(r, n) == SubSeq(r, Len(r) - n + 1, Len(r))
back(r) == LastReplies(SubSeq(r, 1, Len(r) - 1), PAGE_WORDS)
TakenAsVerified(c, r) == TRUE
Verified(c, r) == back(r) = c.page

Conclusion(c, r) ==
  CASE c.op = "write_page" -> IF Verified(c, r) THEN "verified" ELSE "mismatch"
    [] c.op = "set_id" /\ set_id_raises(c.new_id) -> "refused"
    [] OTHER -> "ok"

----------------------------------------------------------------------------
(* The link                                                                *)

Frame(id, sub, arg) == decode_frame(encode_cmd3(id, sub, arg))
CascadeFrame == decode_frame(encode_frame(5, 2, 0))
Foreign(frames) == \E i \in 1 .. Len(frames) : frames[i].cmd \in {1, 2}

\* Frames whose latency is over, the first Landed of them, and the others a
\* tick later.
Landed ==
  CHOOSE n \in 0 .. Len(air) : \A i \in 1 .. Len(air) : i <= n <=> air[i].due = 1
Arrived == [i \in 1 .. Landed |-> air[i].frame]
OnTheWay ==
  [i \in 1 .. Len(air) - Landed |-> [air[Landed + i] EXCEPT !.due = @ - 1]]

\* _pump: everything the port has, each frame noted as it is parsed.
Pumped == inbox \o Arrived
note_last(frames) == Foreign(frames)
_note(frames) == unsafe \/ Foreign(frames)

\* The loop of request: the first frame of the buffer that settles the request.
IsReply(f) == f.id = 0 /\ f.cmd = 3
Settles(f, name) == IsReply(f) /\ decode_cmd3(f.data).sub \in {SUB.NAK, SUB[name]}
Settler(frames, name) ==
  LET hits == {i \in 1 .. Len(frames) : Settles(frames[i], name)}
  IN  IF hits = {} THEN 0 ELSE CHOOSE i \in hits : \A j \in hits : i <= j
Rest(frames, n) == SubSeq(frames, n + 1, Len(frames))

keep_input_buffer == inbox
reset_input_buffer == <<>>

window(r) == r.window + roundtrip
quiet(r) == window(r)                            \* rule 8

----------------------------------------------------------------------------
(* Ends of requests and commands                                           *)

Ticked == IF deadline > 0 THEN deadline - 1 ELSE 0

End(how) ==
  /\ phase' = "end" /\ outcome' = how /\ todo' = <<>>
  /\ left' = 0 /\ deadline' = 0

\* An exception ends the command; a scan goes on with the next ID.
SameId == todo
NextIds == Tail(todo)
Raise(how) ==
  IF cmd.op = "scan" /\ how \in {"timeout", "nak"}
  THEN IF Len(todo) = 1 THEN End("ok")
       ELSE /\ phase' = "send" /\ todo' = NextIds
            /\ left' = 0 /\ deadline' = Ticked /\ UNCHANGED outcome
  ELSE End(how)

Proceed == phase' = "send" /\ left' = 0 /\ UNCHANGED outcome

OutOfTime == deadline = 0
SampleOver(rec) == decode_sample(rec).done \/ decode_sample(rec).aborted

\* The loop of Module.sample, after the start or a whole record.
SampleTurn(r) ==
  IF Head(todo).name = "GET_SAMPLE" /\ SampleOver(LastReplies(r, FIELDS["GET_SAMPLE"]))
  THEN End("ok")
  ELSE IF Head(todo).name = "GET_SAMPLE" /\ OutOfTime THEN End("timeout")
  ELSE /\ phase' = "sleep" /\ left' = POLL /\ todo' = sample_poll
       /\ deadline' = IF Head(todo).name = "SAMPLE_START" THEN DEADLINE ELSE Ticked
       /\ UNCHANGED outcome

\* A reply with ARG a came with n ticks of its window gone.
Reply(a, n) ==
  LET r == Append(got, a)
  IN  /\ got' = r
      /\ mid' = IF Head(todo).name \in {"COMMIT_CAL", "SET_ID"} THEN a ELSE mid
      /\ found' = IF cmd.op = "scan" /\ a = PONG THEN found \cup {Head(todo).to} ELSE found
      /\ worst' = IF cmd.op = "info" /\ Len(r) <= N_RTT /\ n > worst THEN n ELSE worst
      /\ roundtrip' = IF cmd.op = "info" /\ Len(r) = N_RTT THEN worst' ELSE roundtrip
      /\ IF Len(todo) > 1
         THEN Proceed /\ todo' = Tail(todo) /\ deadline' = Ticked
         ELSE IF cmd.op = "sample" THEN SampleTurn(r)
         ELSE End(Conclusion(cmd, r))

----------------------------------------------------------------------------
(* The operator and the tool                                               *)

Start(c) ==
  /\ phase = "end" /\ spent < Budget /\ req = NONE
  /\ cmd' = c /\ mid' = c.id /\ todo' = Plan(c) /\ got' = <<>> /\ found' = {}
  /\ armed' = FALSE /\ unsafe' = FALSE /\ rx' = <<>> /\ inbox' = <<>>
  /\ worst' = 0 /\ roundtrip' = 0 /\ deadline' = 0 /\ outcome' = "none"
  /\ phase' = "listen" /\ left' = LISTEN_BEFORE_TX
  /\ spent' = spent + 1
  /\ trouble' = (IF c.id # did THEN {"absent"} ELSE {})
                  \cup (IF air # <<>> \/ lock # "locked" \/ gate # "write"
                        THEN {"leftover"} ELSE {})
  /\ poison' = 0
  /\ UNCHANGED <<req, air, moduleVars>>

\* Another cascade frame reached the port (1), was read by the tool (2).
Poison(read) ==
  poison' = IF read /\ Foreign(Pumped) THEN 2
            ELSE IF poison = 0 /\ Foreign(Arrived) THEN 1 ELSE poison

\* The bus, the module's clock and the deadline while a tick passes.
Passes ==
  /\ req = NONE
  /\ air' = OnTheWay
  /\ run' = IF run > 0 THEN run - 1 ELSE run

\* open_session: listen; any frame at all refuses the session.
Listen ==
  /\ phase = "listen" /\ Passes
  /\ inbox' = <<>> /\ unsafe' = _note(Pumped) /\ Poison(TRUE)
  /\ IF Pumped # <<>> THEN End("unsafe") /\ UNCHANGED armed
     ELSE IF left > 1 THEN left' = left - 1 /\ UNCHANGED <<phase, todo, deadline, outcome, armed>>
     ELSE /\ armed' = TRUE
          /\ IF Refused(cmd) THEN End("refused")
             ELSE IF todo = <<>> THEN End("ok")
             ELSE Proceed /\ UNCHANGED <<todo, deadline>>
  /\ UNCHANGED <<cmd, got, mid, worst, roundtrip, found, rx, req, stored, running, did, lock,
                 staged, index, snap, reading, gate, arm_seen, spent, trouble>>

Target(r) == IF r.to = SELF THEN mid ELSE r.to
Argument(r) ==
  IF r.arg = KEYED
  THEN unlock_2_arg(SubSeq(got, Len(got) - Len(Serial), Len(got) - 1))
  ELSE r.arg

\* send_raw: _check, reset_input_buffer, write.  An ID that does not fit in a
\* header is refused by encode_frame.  Nothing answers a RESET.
Transmit ==
  /\ phase = "send" /\ armed /\ ~unsafe /\ Target(Head(todo)) \in 0 .. 31
  /\ inbox' = reset_input_buffer
  /\ req' = Frame(Target(Head(todo)), SUB[Head(todo).name], Argument(Head(todo)))
  /\ IF Head(todo).name = "RESET" THEN End("ok")
     ELSE /\ phase' = "wait" /\ left' = window(Head(todo))
          /\ UNCHANGED <<todo, deadline, outcome>>
  /\ UNCHANGED <<cmd, got, mid, worst, roundtrip, found, armed, unsafe, rx, air, moduleVars,
                 spent, trouble, poison>>

Withheld ==
  /\ phase = "send"
  /\ \/ (~armed \/ unsafe) /\ End("unsafe")
     \/ armed /\ ~unsafe /\ Target(Head(todo)) \notin 0 .. 31 /\ End("refused")
  /\ UNCHANGED <<cmd, got, mid, worst, roundtrip, found, linkVars, req, air, moduleVars, spent,
                 trouble, poison>>

\* The loop of request, one tick of it.
Wait ==
  LET frames == rx \o Pumped
      name   == Head(todo).name
      n      == Settler(frames, name)
  IN  /\ phase = "wait" /\ Passes
      /\ inbox' = <<>> /\ unsafe' = _note(Pumped) /\ Poison(TRUE)
      /\ rx' = IF n = 0 THEN <<>> ELSE Rest(frames, n)
      /\ IF n = 0
         THEN /\ IF left > 1 THEN left' = left - 1 /\ phase' = phase
                 ELSE left' = quiet(Head(todo)) /\ phase' = "quiet"
              /\ deadline' = Ticked
              /\ UNCHANGED <<todo, got, mid, worst, roundtrip, found, outcome>>
         ELSE LET reply == decode_cmd3(frames[n].data)
              IN  IF reply.sub = SUB.NAK
                  THEN Raise("nak") /\ UNCHANGED <<got, mid, worst, roundtrip, found>>
                  ELSE Reply(reply.arg, window(Head(todo)) - left + 1)
      /\ UNCHANGED <<cmd, armed, req, stored, running, did, lock, staged, index, snap, reading,
                     gate, arm_seen, spent, trouble>>

\* time.sleep: after a time-out, and between two polls of a sample.
Sleep ==
  /\ phase \in {"quiet", "sleep"} /\ Passes
  /\ inbox' = Pumped /\ Poison(FALSE)
  /\ IF left > 1
     THEN left' = left - 1 /\ deadline' = Ticked /\ UNCHANGED <<phase, todo, outcome>>
     ELSE IF phase = "quiet" THEN Raise("timeout")
     ELSE Proceed /\ deadline' = Ticked /\ UNCHANGED todo
  /\ got' = IF phase = "sleep" THEN <<>> ELSE got            \* a poll reads a new record
  /\ UNCHANGED <<cmd, mid, worst, roundtrip, found, armed, unsafe, rx, req, stored, running,
                 did, lock, staged, index, snap, reading, gate, arm_seen, spent, trouble>>

\* Between sessions the port is closed.
Idle ==
  /\ phase = "end" /\ Passes /\ (air # <<>> \/ run > 0)
  /\ UNCHANGED <<toolVars, linkVars, req, stored, running, did, lock, staged, index, snap,
                 reading, gate, arm_seen, spent, trouble, poison>>

----------------------------------------------------------------------------
(* The module: dispatch of ker_cmd3.cpp                                    *)

request == decode_cmd3(req.data)
RecordSub == {SUB[name] : name \in Records}
Indexed == {SUB[name] : name \in DOMAIN FIELDS}
Limit(sub) ==
  CASE sub = SUB.GET_SERNUM -> Len(Serial) - 1
    [] sub \in {SUB.GET_CAL_WORD, SUB.GET_RUN_WORD} -> PAGE_WORDS - 1
    [] sub \in Indexed -> FIELDS[CHOOSE name \in DOMAIN FIELDS : SUB[name] = sub] - 1
    [] OTHER -> 65535

Key == unlock_2_arg(Serial)

ReId(words, id) == to_words([from_words(words) EXCEPT !.device_id = id])
Identity(id) == to_words([device_id |-> id, station_id |-> 0, cal_day |-> 0,
                          amp |-> <<>>, phase |-> <<>>])
FromPage == inspect_page(running) = "valid"
WithId(id) == IF FromPage THEN ReId(running, id) ELSE Identity(id)

\* The reason a request is refused, 0 when it is accepted; the first that holds.
WrongArg(sub, arg) ==
  \/ \E name \in DOMAIN MAGIC :
       sub = SUB[name] /\ arg # (IF name = "UNLOCK_2" THEN Key ELSE MAGIC[name])
  \/ \E name \in DOMAIN TAG : sub = SUB[name] /\ arg \div 256 # TAG[name]
OutOfRange(sub, arg) ==
  CASE sub = SUB.STAGE_ADDR -> arg % 256 >= PAGE_WORDS
    [] sub = SUB.STAGE_DATA -> index >= PAGE_WORDS
    [] sub = SUB.SET_ID -> arg % 256 \notin ID_MIN .. ID_MAX
    [] sub = SUB.SAMPLE_START -> arg % 256 > 10
    [] OTHER -> sub \notin {SUB[name] : name \in DOMAIN MAGIC} /\ arg > Limit(sub)
Refusal(sub, arg) ==
  IF sub = SUB.NAK THEN NAK_REASON.UNSUPPORTED
  ELSE IF sub = SUB.LATCH_SYNC THEN NAK_REASON.BAD_ADDRESSING
  ELSE IF sub >= SUB.UNLOCK_1 /\ sub # SUB.LOCK /\ gate # "write" THEN NAK_REASON.NOT_ELIGIBLE
  ELSE IF sub >= SUB.STAGE_ADDR /\ sub # SUB.LOCK /\ lock # "factory"
       THEN NAK_REASON.NOT_UNLOCKED
  ELSE IF \/ sub = SUB.UNLOCK_1 /\ lock = "factory"
          \/ sub = SUB.UNLOCK_2 /\ lock = "locked"
          \/ sub \in RecordSub /\ arg > 0 /\ snap[sub] = 2
       THEN NAK_REASON.SEQUENCE
  ELSE IF WrongArg(sub, arg) THEN NAK_REASON.BAD_ARG
  ELSE IF OutOfRange(sub, arg) THEN NAK_REASON.BAD_INDEX
  ELSE IF sub = SUB.COMMIT_CAL /\ inspect_page(staged) # "valid"
       THEN IF inspect_page(staged) = "CRC" THEN NAK_REASON.CRC_FAIL ELSE NAK_REASON.BAD_PAGE
  ELSE IF sub = SUB.SET_ID /\ staged # Erased THEN NAK_REASON.STAGING_BUSY
  ELSE IF sub = SUB.SET_ID /\ ~FromPage /\ stored # Erased THEN NAK_REASON.BAD_PAGE
  ELSE 0

Status == CASE run = 0 -> 1 [] run = -2 -> 2 [] OTHER -> 0
ReadWord(sub, arg) ==
  CASE sub = SUB.PING -> PONG
    [] sub = SUB.GET_DEVICE_ID -> IF FromPage THEN did + 256 ELSE did
    [] sub = SUB.GET_SERNUM -> Serial[arg + 1]
    [] sub = SUB.GET_CAL_WORD -> stored[arg + 1]
    [] sub = SUB.GET_RUN_WORD -> running[arg + 1]
    [] sub = SUB.GET_SAMPLE /\ arg = 0 -> Status
    [] sub \in RecordSub /\ ~(sub = SUB.GET_SAMPLE /\ arg = 0) -> snap'[sub]
    [] OTHER -> 0

\* Index 0 takes the snapshot the other indices are read from.
CapturesAlways(sub, arg) == sub \in RecordSub
Captures(sub, arg) == sub \in RecordSub /\ arg = 0

\* A reply takes its place behind those that are on their way.
AnswerAfter(met, sub, arg) ==
  /\ \E d \in 1 .. MaxLatency :
       /\ air # <<>> => d >= air[Len(air)].due
       /\ air' = Append(air, [frame |-> Frame(0, sub, arg), due |-> d])
       /\ trouble' = IF d > TIMEOUT_REPLY THEN met \cup {"late"} ELSE met
  /\ req' = NONE
  /\ reading' = 1 - reading
Answer(sub, arg) == AnswerAfter(trouble, sub, arg)

Served == req # NONE /\ req.id = did /\ req.cmd = 3 /\ gate # "shut"
ServedAs(sub) == Served /\ request.sub = sub /\ Refusal(sub, request.arg) = 0
Disarmed == IF lock = "armed" THEN "locked" ELSE lock

Unheard ==
  /\ req # NONE /\ (gate = "shut" \/ req.id # did)
  /\ req' = NONE
  /\ UNCHANGED <<toolVars, linkVars, air, moduleVars, spent, trouble, poison>>

Rejected ==
  /\ Served /\ Refusal(request.sub, request.arg) # 0
  /\ Answer(SUB.NAK, Tagged(request.sub, Refusal(request.sub, request.arg)))
  /\ lock' = Disarmed
  /\ UNCHANGED <<toolVars, linkVars, stored, running, did, staged, index, snap, run, gate, arm_seen,
                 spent, poison>>

Read ==
  /\ Served /\ (request.sub < SUB.SAMPLE_START \/ request.sub = SUB.GET_SAMPLE)
  /\ Refusal(request.sub, request.arg) = 0
  /\ snap' = IF Captures(request.sub, request.arg)
             THEN [snap EXCEPT ![request.sub] = reading] ELSE snap
  /\ Answer(request.sub, ReadWord(request.sub, request.arg))
  /\ lock' = Disarmed
  /\ UNCHANGED <<toolVars, linkVars, stored, running, did, staged, index, run, gate, arm_seen,
                 spent, poison>>

SampleStart ==
  /\ ServedAs(SUB.SAMPLE_START) /\ Answer(SUB.SAMPLE_START, 0)
  /\ run' = RUN /\ lock' = Disarmed
  /\ UNCHANGED <<toolVars, linkVars, stored, running, did, staged, index, snap, gate, arm_seen,
                 spent, poison>>

Unlock1 ==
  /\ ServedAs(SUB.UNLOCK_1) /\ Answer(SUB.UNLOCK_1, 0)
  /\ lock' = "armed"
  /\ UNCHANGED <<toolVars, linkVars, stored, running, did, staged, index, snap, run, gate, arm_seen,
                 spent, poison>>

Unlock2 ==
  /\ ServedAs(SUB.UNLOCK_2) /\ Answer(SUB.UNLOCK_2, 0)
  /\ lock' = "factory"
  /\ IF lock = "factory" THEN UNCHANGED <<staged, index>> ELSE staged' = Erased /\ index' = 0
  /\ UNCHANGED <<toolVars, linkVars, stored, running, did, snap, run, gate, arm_seen, spent,
                 poison>>

StageAddr ==
  /\ ServedAs(SUB.STAGE_ADDR) /\ Answer(SUB.STAGE_ADDR, request.arg % 256)
  /\ index' = request.arg % 256
  /\ UNCHANGED <<toolVars, linkVars, stored, running, did, lock, staged, snap, run, gate, arm_seen,
                 spent, poison>>

StageData ==
  /\ ServedAs(SUB.STAGE_DATA) /\ Answer(SUB.STAGE_DATA, index + 1)
  /\ staged' = [staged EXCEPT ![index + 1] = request.arg]
  /\ index' = index + 1
  /\ UNCHANGED <<toolVars, linkVars, stored, running, did, lock, snap, run, gate, arm_seen,
                 spent, poison>>

\* The page a COMMIT_CAL or a SET_ID programs.
Writes == ServedAs(SUB.COMMIT_CAL) \/ ServedAs(SUB.SET_ID)
NewPage == IF request.sub = SUB.COMMIT_CAL THEN staged ELSE WithId(request.arg % 256)

Program ==
  /\ Writes
  /\ stored' = NewPage /\ running' = NewPage /\ did' = from_words(NewPage).device_id
  /\ lock' = "locked"
  /\ Answer(request.sub, did')
  /\ UNCHANGED <<toolVars, linkVars, staged, index, snap, run, gate, arm_seen, spent, poison>>

Lock ==
  /\ ServedAs(SUB.LOCK) /\ Answer(SUB.LOCK, 0)
  /\ lock' = "locked"
  /\ UNCHANGED <<toolVars, linkVars, stored, running, did, staged, index, snap, run, gate, arm_seen,
                 spent, poison>>

Reboot ==
  /\ running' = IF inspect_page(stored') = "valid" THEN stored' ELSE Erased
  /\ did' = IF inspect_page(stored') = "valid" THEN from_words(stored').device_id ELSE BuildId
  /\ lock' = "locked" /\ staged' = Erased /\ index' = 0
  /\ snap' = [s \in RecordSub |-> 2] /\ run' = -1 /\ gate' = "shut" /\ arm_seen' = FALSE
  /\ req' = NONE
Reset ==
  /\ ServedAs(SUB.RESET) /\ stored' = stored /\ Reboot
  /\ UNCHANGED <<toolVars, linkVars, air, reading, spent, trouble, poison>>

----------------------------------------------------------------------------
(* Faults                                                                  *)

Fault(kinds) == spent < Budget /\ spent' = spent + 1 /\ trouble' = trouble \cup kinds

\* The page is programmed and read back: the old one, nothing, or a torn one.
Failures == {stored, Erased} \cup Torn
ProgramFails ==
  /\ Writes /\ spent < Budget /\ spent' = spent + 1
  /\ stored' \in Failures \ {NewPage}
  /\ AnswerAfter(trouble \cup {"write"}, SUB.NAK, Tagged(request.sub, NAK_REASON.WRITE_FAIL))
  /\ UNCHANGED <<toolVars, linkVars, running, did, lock, staged, index, snap, run, gate,
                 arm_seen, poison>>

\* A restart, also in the middle of a write.
Restart ==
  /\ Fault({"restart"})
  /\ stored' \in (IF Writes THEN Failures \cup {NewPage} ELSE {stored})
  /\ Reboot
  /\ UNCHANGED <<toolVars, linkVars, air, reading, poison>>

\* 100 ms without a cascade frame, and three seconds after the start.
GateOpens ==
  /\ \/ gate = "shut" /\ gate' = "read"
     \/ gate = "read" /\ ~arm_seen /\ gate' = "write"
  /\ UNCHANGED <<toolVars, linkVars, req, air, stored, running, did, lock, staged, index, snap,
                 reading, run, arm_seen, spent, trouble, poison>>

\* Nobody talks to the module for five seconds.
FactoryExpires ==
  /\ phase = "end" /\ req = NONE /\ lock # "locked" /\ lock' = "locked"
  /\ UNCHANGED <<toolVars, linkVars, req, air, stored, running, did, staged, index, snap,
                 reading, run, gate, arm_seen, spent, trouble, poison>>

\* Somebody drives the bus: the tool's adapter and the module both hear it.
Cascade ==
  /\ Fault({"cascade"}) /\ req = NONE /\ (air # <<>> => air[Len(air)].due = 1)
  /\ air' = Append(air, [frame |-> CascadeFrame, due |-> 1])
  /\ lock' = "locked" /\ run' = (IF run > 0 THEN -2 ELSE run) /\ gate' = "shut" /\ arm_seen' = TRUE
  /\ UNCHANGED <<toolVars, linkVars, req, stored, running, did, staged, index, snap, reading,
                 poison>>

LoseRequest ==
  /\ req # NONE /\ Fault({"lost"}) /\ req' = NONE
  /\ UNCHANGED <<toolVars, linkVars, air, moduleVars, poison>>

\* One field of a frame is garbled: its ARG, its ID or its SUB; or a NAK comes
\* in as the reply.  A frame with another CMD, one that no longer is a frame, and
\* a request that has become a broadcast, which nobody answers, is lost.
Garbled(f) ==
  LET r == decode_cmd3(f.data)
      IsId == r.sub \in {SUB.COMMIT_CAL, SUB.SET_ID}
  IN  {Frame(f.id, r.sub, (r.arg + n) % 65536) : n \in IF IsId THEN {1, 256} ELSE {1}}
        \cup {Frame(id, r.sub, r.arg) : id \in OtherIds}
        \cup {Frame(f.id, sub, r.arg) : sub \in OtherSubs}
NakAsReply(f) ==
  LET r == decode_cmd3(f.data)
  IN  IF r.sub = SUB.NAK THEN {Frame(f.id, NakOf(r.arg).sub, did)} ELSE {}

GarbleRequest ==
  /\ req # NONE /\ Fault({"garbled", "misread"})
  /\ req' \in Garbled(req)
  /\ UNCHANGED <<toolVars, linkVars, air, moduleVars, poison>>

LoseReply ==
  /\ air # <<>> /\ Fault({"lost"})
  /\ air' = SubSeq(air, 1, Len(air) - 1)
  /\ UNCHANGED <<toolVars, linkVars, req, moduleVars, poison>>

GarbleReply ==
  /\ air # <<>> /\ Fault({"garbled"}) /\ air[Len(air)].frame.cmd = 3
  /\ LET frame == air[Len(air)].frame
     IN  \E f \in Garbled(frame) \cup NakAsReply(frame) : air' = [air EXCEPT ![Len(air)].frame = f]
  /\ UNCHANGED <<toolVars, linkVars, req, moduleVars, poison>>

----------------------------------------------------------------------------
(* The specification                                                       *)

Init ==
  /\ cmd = [op |-> "listen", id |-> BuildId] /\ phase = "end" /\ todo = <<>> /\ got = <<>>
  /\ mid = BuildId /\ left = 0 /\ deadline = 0 /\ worst = 0 /\ roundtrip = 0 /\ found = {}
  /\ outcome = "none" /\ armed = FALSE /\ unsafe = FALSE /\ rx = <<>> /\ inbox = <<>>
  /\ req = NONE /\ air = <<>>
  /\ stored = FirstPage
  /\ running = IF inspect_page(FirstPage) = "valid" THEN FirstPage ELSE Erased
  /\ did = IF inspect_page(FirstPage) = "valid" THEN from_words(FirstPage).device_id ELSE BuildId
  /\ lock = "locked" /\ staged = Erased /\ index = 0
  /\ snap = [s \in RecordSub |-> 2] /\ reading = 0 /\ run = -1 /\ gate = "write"
  /\ arm_seen = FALSE
  /\ spent = 0 /\ trouble = {} /\ poison = 0

Module == Unheard \/ Rejected \/ Read \/ SampleStart \/ Unlock1 \/ Unlock2 \/ StageAddr
            \/ StageData \/ Program \/ ProgramFails \/ Lock \/ Reset
Tool == Listen \/ Transmit \/ Withheld \/ Wait \/ Sleep
Faults == Restart \/ Cascade \/ LoseRequest \/ GarbleRequest \/ LoseReply \/ GarbleReply

Next ==
  \/ \E c \in Commands : Start(c)
  \/ Tool \/ Idle \/ Module \/ GateOpens \/ FactoryExpires \/ Faults

\* The tool runs, time passes and the module answers what reaches it.
Spec == Init /\ [][Next]_vars /\ WF_vars(Tool \/ Module)

----------------------------------------------------------------------------
(* Properties                                                              *)

TypeOK ==
  /\ phase \in {"end", "listen", "send", "wait", "quiet", "sleep"}
  /\ outcome \in {"none", "ok", "verified", "mismatch", "refused", "timeout", "nak", "unsafe"}
  /\ phase \in {"send", "wait", "quiet"} => todo # <<>>
  /\ phase # "end" => outcome = "none"
  /\ phase = "wait" => left \in 1 .. window(Head(todo))
  /\ deadline \in 0 .. DEADLINE
  /\ req # NONE => phase \in {"wait", "end"} /\ req.id \in 0 .. 31 /\ req.cmd = 3
  /\ \A i \in 1 .. Len(air) : air[i].due \in 1 .. MaxLatency
  /\ did \in ID_MIN .. ID_UNPROVISIONED /\ index \in 0 .. PAGE_WORDS

\* A run that meets no trouble does what it was asked to: the unlock, whose key
\* must be read before UNLOCK_1, opens, the reads after a commit go to the new
\* ID, the page verifies.  A set_id leaves a page behind, unless the module runs
\* without one and refuses to replace what is left of a page, a torn one.
\* (write_page, cmd_set_id, sample; do_set_id)
CleanRunSucceeds ==
  phase = "end" /\ outcome # "none" /\ trouble = {} =>
    CASE cmd.op = "write_page" /\ ~Refused(cmd) -> outcome = "verified"
      [] cmd.op = "set_id" /\ cmd.new_id \in ID_MIN .. ID_MAX ->
           IF FromPage THEN outcome = "ok" /\ did = cmd.new_id /\ mid = did
           ELSE outcome = "nak" /\ stored # Erased
      [] Refused(cmd) -> outcome = "refused" /\ got = <<>>
      [] OTHER -> outcome \in {"ok", "refused"}

\* A reply that comes late, lost frames between or not, is not taken for the
\* reply to the next request: a scan finds the module under its own ID only.  A
\* request whose ID is garbled reaches a module that was not asked, which no
\* check of the link could tell.  (request, rule 8's quiet period)
FoundIsPresent ==
  "restart" \notin trouble /\ "misread" \notin trouble => found \subseteq {did}

\* The words of a record are of one reading, a restart between them or not.
\* (_record: index 0 first)
RecordsOf(c) == {name \in Records : \E i \in 1 .. Len(Plan(c)) : Plan(c)[i].name = name}
OneReading(c, name) ==
  LET at == {i \in 1 .. Len(Plan(c)) : Plan(c)[i].name = name}
  IN  \A i, j \in at : got[i] = got[j]
SampleWhole ==
  LET rec == LastReplies(got, FIELDS["GET_SAMPLE"])
  IN  \A i, j \in 2 .. Len(rec) : rec[i] = rec[j]
RecordSnapshot ==
  phase = "end" /\ outcome = "ok" /\ "garbled" \notin trouble =>
    /\ cmd.op \in {"info", "clear"} => \A name \in RecordsOf(cmd) : OneReading(cmd, name)
    /\ cmd.op = "sample" => SampleWhole

\* Once the tool has read a cascade frame in a session it sends nothing more in
\* it.  (_note, _check)
SilentAfterCascade ==
  [][phase = "send" /\ phase' = "wait" => poison # 2]_vars

\* Every command comes to an end, whatever is lost and whatever restarts.
\* (request's and Module.sample's deadlines)
EveryCommandEnds == phase # "end" ~> phase = "end"

\* The pages a command may leave in the USERROW.  A page is guarded by its CRC
\* up to the module, an ID by nothing: a garbled SET_ID stores another one.
KnownPages == {FirstPage} \cup {c.page : c \in {d \in Commands : d.op = "write_page"}}
Renamed == {ReId(p, id) : p \in KnownPages, id \in ID_MIN .. ID_MAX}
             \cup {Identity(id) : id \in ID_MIN .. ID_MAX}
MayStore(c) ==
  CASE c.op = "write_page" -> {c.page}
    [] c.op = "set_id" -> Renamed
    [] OTHER -> {}
Store == INSTANCE PageWrite WITH
  Broken <- {Erased} \cup Torn,
  job <- IF phase = "end" THEN {} ELSE MayStore(cmd),
  verified <- outcome = "verified"
ImplementsPageWrite == Store!Spec
=============================================================================
