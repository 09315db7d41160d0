--------------------------- MODULE HostInvariants ---------------------------
(***************************************************************************)
(* What is true of the bench of Host in every reachable state, as the      *)
(* inductive invariants that HostProofs proves: what is on the wire, where *)
(* the tool is in its plan, and what the module holds at that place.       *)
(***************************************************************************)
EXTENDS Host

IsSequence(s) == Len(s) \in Nat /\ s = [i \in 1 .. Len(s) |-> s[i]]

\* The requests a command may send: it programs the USERROW only if it is one
\* of the two that do, and a scan only pings.
Request == [name : DOMAIN SUB, arg : Word \cup {KEYED}, to : {SELF} \cup 1 .. 31, window : Nat]
RequestsOf(op) ==
  {r \in Request :
     /\ r.window >= TIMEOUT_REPLY
     /\ r.name = "COMMIT_CAL" => op = "write_page"
     /\ r.name = "SET_ID" => op = "set_id"
     /\ IF op = "scan" THEN r.name = "PING" /\ r.arg = 0 /\ r.to \in 1 .. 31 ELSE r.to = SELF}

----------------------------------------------------------------------------
(* The invariant: one reply at a time                                      *)

\* The frames on their way, in the order in which they arrive; one with CMD=3
\* was a reply of the module, whatever its ID has become.
Silent(frames) == \A i \in 1 .. Len(frames) : ~IsReply(frames[i])
ReplyAt(i) == air[i].frame.cmd = 3
NoReply == \A i \in 1 .. Len(air) : ~ReplyAt(i)
AirInv ==
  /\ IsSequence(air)
  /\ \A i \in 1 .. Len(air) :
       /\ DOMAIN air[i] = {"frame", "due"}
       /\ air[i].due \in Nat /\ air[i].due >= 1 /\ air[i].due <= MaxLatency
       /\ ReplyAt(i) => air[i].frame.id \in 0 .. 31
  /\ \A i, j \in 1 .. Len(air) : i <= j => air[i].due <= air[j].due

\* What is still to be sent, and for how long the tool waits.
ToolInv ==
  /\ phase \in {"end", "listen", "send", "wait", "quiet", "sleep"}
  /\ todo \in Seq(RequestsOf(cmd.op))
  /\ phase \in {"send", "wait", "quiet", "sleep"} => todo # <<>>
  /\ phase = "sleep" => cmd.op # "scan"
  /\ left \in Nat /\ worst \in Nat /\ roundtrip \in Nat
  /\ phase \in {"listen", "wait", "quiet", "sleep"} => left >= 1
  /\ phase = "wait" => left <= window(Head(todo))
  /\ phase = "listen" => todo = Plan(cmd) /\ cmd \in Commands

\* The request on the wire is the one the tool waits for, and its window has
\* just begun; or it is a RESET, which nothing answers.  A garbled one may be
\* anything.
AsAsked ==
  \/ phase = "wait" /\ request.sub = SUB[Head(todo).name] /\ req.id = Target(Head(todo))
  \/ phase = "end" /\ request.sub = SUB.RESET
RequestInv ==
  req # NONE =>
    /\ req.cmd = 3 /\ req.id \in 0 .. 31 /\ request.sub \in 0 .. 31 /\ request.arg \in Word
    /\ (phase = "wait" /\ left = window(Head(todo))) \/ (phase = "end" /\ cmd.op # "scan")
    /\ {"garbled", "misread"} \subseteq trouble \/ AsAsked

\* No reply outlives the window it belongs to and the quiet period behind it.
Lateness ==
  /\ phase = "listen" => \A i \in 1 .. Len(air) : air[i].due <= left
  /\ phase \in {"send", "sleep"} => NoReply
  /\ phase = "wait" =>
       /\ req # NONE => NoReply
       /\ \A i, j \in 1 .. Len(air) : ReplyAt(i) /\ ReplyAt(j) => i = j
       /\ \A i \in 1 .. Len(air) : ReplyAt(i) => air[i].due <= left + window(Head(todo))
  /\ phase = "quiet" => \A i \in 1 .. Len(air) : ReplyAt(i) => air[i].due <= left
  /\ IsSequence(rx) /\ IsSequence(inbox)
  /\ phase # "end" => Silent(rx)
  /\ phase = "wait" => Silent(inbox)

\* The reply a scan waits for comes from the module it asked.
ScanInv ==
  /\ cmd.op = "scan" /\ phase = "wait" /\ ~NoReply /\ {"restart", "misread"} \cap trouble = {} =>
       Head(todo).to = did
  /\ cmd.op # "scan" => found = {}
  /\ FoundIsPresent

IInv == AirInv /\ ToolInv /\ RequestInv /\ Lateness /\ ScanInv

----------------------------------------------------------------------------
(* A record is one snapshot                                                *)

\* A session that reads records, none of its frames garbled.
Reading == cmd.op \in {"info", "clear", "sample"} /\ "garbled" \notin trouble

\* What it sends, in order: a sample polls the same record again and again.
Script == IF cmd.op = "sample" THEN sample_poll ELSE Plan(cmd)

\* Requests answered from a snapshot; the first word of a sample is its status.
Snapshot(r) == r.name \in Records /\ (r.name = "GET_SAMPLE" => r.arg # 0)
Same(r, q) == Snapshot(r) /\ Snapshot(q) /\ r.name = q.name
Held(r) == snap[SUB[r.name]]

InStep ==
  /\ Len(got) + Len(todo) = Len(Script)
  /\ \A i \in 1 .. Len(todo) : todo[i] = Script[Len(got) + i]

\* The replies to a record agree with one another, and with the module unless it
\* has restarted.
OneSnapshot ==
  \A i \in 1 .. Len(got) : Snapshot(Script[i]) =>
    /\ Held(Script[i]) \in {got[i], 2}
    /\ \A j \in 1 .. Len(got) : Same(Script[i], Script[j]) => got[j] = got[i]

\* So does the reply on its way.
Fits(a) ==
  Snapshot(Head(todo)) =>
    /\ Held(Head(todo)) \in {a, 2}
    /\ \A i \in 1 .. Len(got) : Same(Head(todo), Script[i]) => got[i] = a
ReplyFits(f) == decode_cmd3(f.data).sub = SUB.NAK \/ Fits(decode_cmd3(f.data).arg)

Starting == cmd.op = "sample" /\ todo = Plan(cmd)
ReadsInv ==
  Reading =>
    /\ phase \in {"listen", "send", "wait", "quiet"} => Starting \/ (InStep /\ OneSnapshot)
    /\ phase = "sleep" => cmd.op = "sample" /\ todo = sample_poll
    /\ phase = "wait" => \A i \in 1 .. Len(air) : ReplyAt(i) => ReplyFits(air[i].frame)
    /\ phase = "wait" /\ req # NONE => request.arg = Argument(Head(todo))

SnapType == snap \in [RecordSub -> 0 .. 2] /\ reading \in {0, 1} /\ IsSequence(got)
SInv == IInv /\ SnapType /\ ReadsInv /\ RecordSnapshot

----------------------------------------------------------------------------
(* A session follows its plan                                              *)

\* Every session but a scan, which goes on after an error, and a sample, which
\* polls as long as it must.
Scripted == cmd.op \notin {"scan", "sample"}

PlaceInv ==
  /\ phase # "end" => cmd \in Commands /\ outcome = "none"
  /\ Scripted /\ phase \in {"listen", "send", "wait", "quiet"} => InStep
  /\ phase = "sleep" => cmd.op = "sample"
  /\ phase = "listen" => got = <<>>
  /\ phase \in {"send", "wait", "quiet", "sleep"} => ~Refused(cmd)
  /\ phase = "wait" => Head(todo).name # "RESET"
  /\ phase = "wait" /\ req # NONE /\ "garbled" \notin trouble =>
       request.arg = Argument(Head(todo))
  /\ outcome = "verified" => cmd.op = "write_page"

WInv == IInv /\ SnapType /\ PlaceInv

----------------------------------------------------------------------------
(* The plan of write_page, and what the module has at each of its requests *)

SN == Len(Serial)                                \* the words of the key are read
OPEN == SN + 2                                   \* the module is unlocked
STAGED == OPEN + 2 * PAGE_WORDS                  \* the whole page is staged

\* The staging buffer behind d requests: the words of the page that are there.
Staging(page, d) == [j \in 1 .. PAGE_WORDS |-> IF 2 * j <= d - OPEN THEN page[j] ELSE 65535]

\* UNLOCK_2 clears the buffer only in a module that is not in factory mode yet;
\* what is staged in one that is, is the beginning of the page; what is read
\* back is the page.
Ready(d) ==
  /\ d = SN + 1 => lock # "factory"
  /\ d \in OPEN .. STAGED /\ lock = "factory" =>
       staged = Staging(cmd.page, d) /\ index = (d - OPEN) \div 2
  /\ d > STAGED => stored = cmd.page

Writing == cmd.op = "write_page" /\ "garbled" \notin trouble
Nak(f) == decode_cmd3(f.data).sub = SUB.NAK
StageInv ==
  Writing /\ phase # "end" =>
    /\ phase = "send" \/ req # NONE => Ready(Len(got))
    /\ phase = "wait" =>
         \A i \in 1 .. Len(air) : ReplyAt(i) => Nak(air[i].frame) \/ Ready(Len(got) + 1)

----------------------------------------------------------------------------
(* The pages of the module                                                 *)

\* A page is known when its ID can be changed into that of a page a command may store.
Known(p) ==
  inspect_page(p) = "valid" =>
    /\ IsPage(from_words(p))
    /\ \A id \in ID_MIN .. ID_MAX : ReId(p, id) \in Renamed
PagesInv == Known(stored) /\ Known(running)

Clean == "garbled" \notin trouble
RInv == WInv /\ StageInv /\ PagesInv /\ Clean

\* It runs with a valid page or none.
Sound(p) == p = Erased \/ (inspect_page(p) = "valid" /\ IsPage(from_words(p)))
HeldInv ==
  /\ staged \in [1 .. PAGE_WORDS -> Word]
  /\ stored \in [1 .. PAGE_WORDS -> Word] /\ running \in [1 .. PAGE_WORDS -> Word]
  /\ Sound(running) /\ did \in 1 .. 31

=============================================================================
