------------------------------- MODULE Framing -------------------------------
(***************************************************************************)
(* The four-byte frames of the bus and its two receivers: receivePacket21  *)
(* of the module, which RSNexus::readPacket of the M5 repeats, and Framer  *)
(* of the host tool.  Frames follow each other on a wire that may lose any *)
(* byte; there is no checksum and neither receiver has a time-out, so what *)
(* a broken frame leaves in a receiver stays until more bytes come.        *)
(*                                                                         *)
(* A byte is known by its place 0 .. 3 in its frame, place 0 being the one *)
(* with the top bit set, and by the number of its frame, modulo Frames.    *)
(***************************************************************************)
EXTENDS Integers, Sequences

CONSTANT Frames          \* frame numbers wrap here (bound of the model)
ASSUME FramesAssumption == Frames \in Nat \ {0, 1}

Byte == [place : 0 .. 3, frame : 0 .. Frames - 1]
IsHeader(b) == b.place = 0

VARIABLES
  next,            \* the next byte on the wire
  packet,          \* receivePacket21: the bytes of the frame it is in
  buf,             \* Framer._buf
  got, host_got,   \* what either decoded in this step, <<>> if nothing
  \* history: no byte of the current frame was lost; intact frames not decoded
  \* since the last loss by either; a header was lost since packet, buf began
  intact, missed, host_missed, beheaded, host_beheaded

received == <<packet, got, missed, beheaded>>
tool     == <<buf, host_got, host_missed, host_beheaded>>
vars     == <<next, intact, received, tool>>

\* A receiver holds a header and then data bytes, never a whole frame.
HeaderThenData(s) ==
  s # <<>> => IsHeader(s[1]) /\ \A k \in 2 .. Len(s) : ~IsHeader(s[k])
TypeOK ==
  /\ next \in Byte /\ intact \in BOOLEAN
  /\ \A s \in {packet, buf} : Len(s) <= 3 /\ HeaderThenData(s)
  /\ \A s \in {got, host_got} : Len(s) \in {0, 4} /\ HeaderThenData(s)
  /\ missed \in 0 .. 2 /\ host_missed \in 0 .. 2
  /\ beheaded \in BOOLEAN /\ host_beheaded \in BOOLEAN

----------------------------------------------------------------------------
(* The receivers                                                           *)

AnyByte(b) == TRUE                 \* a mutant: the top bit is not looked at
IsData(b) == ~IsHeader(b)

\* A header is awaited; then three data bytes; anything else drops the frame,
\* and with it the byte that broke it.
Collect(b) ==
  IF packet = <<>> THEN IF IsHeader(b) THEN <<b>> ELSE <<>>
  ELSE IF IsData(b) THEN Append(packet, b) ELSE <<>>

\* A header always begins a new frame; data bytes before one are dropped.
KeepsOld(b) ==                      \* a mutant: a header does not restart
  IF buf # <<>> \/ IsHeader(b) THEN Append(buf, b) ELSE <<>>
Feed(b) ==
  IF IsHeader(b) THEN <<b>>
  ELSE IF buf # <<>> THEN Append(buf, b) ELSE <<>>

Whole(s) == Len(s) = 4
Rest(s) == IF Whole(s) THEN <<>> ELSE s
Decoded(s) == IF Whole(s) THEN s ELSE <<>>

Succ(b) ==
  [place |-> (b.place + 1) % 4,
   frame |-> IF b.place = 3 THEN (b.frame + 1) % Frames ELSE b.frame]

Capped(n) == IF n = 2 THEN 2 ELSE n + 1
MissedBy(n, s) ==
  IF next.place = 3 /\ intact /\ ~Whole(s) THEN Capped(n) ELSE n

Arrives ==
  LET p == Collect(next)
      h == Feed(next)
  IN /\ packet' = Rest(p) /\ got' = Decoded(p)
     /\ buf' = Rest(h) /\ host_got' = Decoded(h)
     /\ missed' = MissedBy(missed, p) /\ host_missed' = MissedBy(host_missed, h)
     /\ beheaded' = (beheaded /\ packet # <<>>)
     /\ host_beheaded' = (host_beheaded /\ buf # <<>> /\ ~IsHeader(next))
     /\ intact' = (intact \/ next.place = 3)
     /\ next' = Succ(next)

\* A collision, a glitch or an overrun eats the byte.
Lost ==
  /\ next' = Succ(next)
  /\ intact' = (next.place = 3)
  /\ missed' = 0 /\ host_missed' = 0
  /\ beheaded' = (beheaded \/ (IsHeader(next) /\ packet # <<>>))
  /\ host_beheaded' = (host_beheaded \/ (IsHeader(next) /\ buf # <<>>))
  /\ got' = <<>> /\ host_got' = <<>>
  /\ UNCHANGED <<packet, buf>>

Init ==
  /\ next = [place |-> 0, frame |-> 0] /\ intact = TRUE
  /\ packet = <<>> /\ buf = <<>> /\ got = <<>> /\ host_got = <<>>
  /\ missed = 0 /\ host_missed = 0 /\ beheaded = FALSE /\ host_beheaded = FALSE

Next == Arrives \/ Lost
Spec == Init /\ [][Next]_vars

----------------------------------------------------------------------------
(* Safety                                                                  *)

\* However bytes were lost, the module misses at most one intact frame after
\* the last loss, and the host tool misses none.  (receivePacket21, Framer)
Resync == missed <= 1 /\ host_missed = 0

\* Data is attributed to an ID only from that ID's own frame, whole and in its
\* order, unless the very header between two frames was lost: then, without a
\* checksum, a frame made of two is decoded as the first one's.
\* (receivePacket21, Framer)
IsFrame(s, f) == \A k \in 1 .. Len(s) : s[k] = [place |-> k - 1, frame |-> f]
NoChimera ==
  [][/\ ~beheaded => IsFrame(got', next.frame)
     /\ ~host_beheaded => IsFrame(host_got', next.frame)]_vars

----------------------------------------------------------------------------
(* A statement of the source the code does not keep.                       *)

\* link.py, Framer: "Same state machine as receivePacket21() in main.cpp".
SameStateMachine == got = host_got
=============================================================================
