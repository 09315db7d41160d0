---------------------------- MODULE FramingProofs ----------------------------
(***************************************************************************)
(* Theorems about the two receivers of Framing, for every sequence of      *)
(* losses and any number of frames.                                        *)
(***************************************************************************)
EXTENDS Framing, TLAPS

\* What TypeOK leaves to the operators: the receivers hold bytes of the wire.
BytesHeld == packet \in Seq(Byte) /\ buf \in Seq(Byte)

\* The tool is never out of step: while no byte of a frame was lost it holds
\* the frame up to the byte that comes next.
ToolInStep ==
  /\ intact /\ next.place > 0 => Len(buf) = next.place
  /\ host_missed = 0

\* The module may be out of step for one frame, after which it holds nothing:
\* only a header that finds an unfinished frame can cost it an intact one.
ModuleInStep ==
  /\ missed <= 1
  /\ next.place = 0 => intact
  /\ ~intact \/ (next.place = 0 /\ packet # <<>>) => missed = 0
  /\ intact /\ next.place > 0 =>
       Len(packet) = next.place \/ (packet = <<>> /\ missed = 0)

\* The bytes held are of the frame that b is in, in the order of their places
\* and all before b's; those that are missing were lost.
Before(s, b) ==
  \A k \in 1 .. Len(s) :
     /\ s[k].frame = b.frame
     /\ k - 1 <= s[k].place /\ s[k].place < b.place - Len(s) + k
OfOneFrame ==
  next.place > 0 =>
    /\ ~beheaded => Before(packet, next)
    /\ ~host_beheaded => Before(buf, next)

IInv == TypeOK /\ BytesHeld /\ ToolInStep /\ ModuleInStep /\ OfOneFrame

----------------------------------------------------------------------------
(* The operators                                                           *)

LEMMA NextByte ==
  ASSUME NEW b \in Byte
  PROVE  /\ Succ(b) \in Byte
         /\ b.place < 3 => Succ(b) = [place |-> b.place + 1, frame |-> b.frame]
         /\ b.place = 3 => Succ(b).place = 0
<1>1. b.place \in 0 .. 3 /\ b.frame \in 0 .. Frames - 1 /\ Frames \in Nat \ {0, 1}
  BY FramesAssumption DEF Byte
<1>2. CASE b.place = 3
  <2>1. (b.place + 1) % 4 = 0
    BY <1>2
  <2>2. (b.frame + 1) % Frames \in 0 .. Frames - 1
    BY <1>1
  <2> QED BY <1>2, <2>1, <2>2 DEF Succ, Byte
<1>3. CASE b.place < 3
  <2>1. (b.place + 1) % 4 = b.place + 1 /\ b.place + 1 \in 0 .. 3
    BY <1>1, <1>3
  <2> QED BY <1>1, <1>3, <2>1 DEF Succ, Byte
<1> QED BY <1>1, <1>2, <1>3

\* Bytes that one receiver has collected: a header first, then data.
Collected(s, n) == s \in Seq(Byte) /\ Len(s) <= n /\ HeaderThenData(s)

LEMMA Alone ==
  ASSUME NEW b \in Byte, IsHeader(b)
  PROVE  Collected(<<b>>, 1) /\ Len(<<b>>) = 1 /\ <<b>>[1] = b
BY DEF Collected, HeaderThenData

LEMMA Longer ==
  ASSUME NEW s, Collected(s, 3), s # <<>>, NEW b \in Byte, ~IsHeader(b)
  PROVE  /\ Collected(Append(s, b), 4) /\ Len(Append(s, b)) = Len(s) + 1
         /\ Append(s, b)[Len(s) + 1] = b
         /\ \A k \in 1 .. Len(s) : Append(s, b)[k] = s[k]
<1>1. s \in Seq(Byte) /\ Len(s) \in Nat /\ Len(s) <= 3 /\ Len(s) # 0
  BY DEF Collected
<1>2. /\ Append(s, b) \in Seq(Byte) /\ Len(Append(s, b)) = Len(s) + 1
      /\ Append(s, b)[Len(s) + 1] = b
      /\ \A k \in 1 .. Len(s) : Append(s, b)[k] = s[k]
  BY <1>1
<1>3. HeaderThenData(Append(s, b))
  <2>1. IsHeader(s[1]) /\ \A k \in 2 .. Len(s) : ~IsHeader(s[k])
    BY DEF Collected, HeaderThenData
  <2>2. Append(s, b)[1] = s[1]
    BY <1>1, <1>2
  <2>3. ASSUME NEW k \in 2 .. Len(Append(s, b)) PROVE ~IsHeader(Append(s, b)[k])
    <3>1. CASE k = Len(s) + 1
      BY <3>1, <1>2
    <3>2. CASE k # Len(s) + 1
      <4>1. k \in 2 .. Len(s) /\ k \in 1 .. Len(s)
        BY <1>1, <1>2, <3>2
      <4> QED BY <4>1, <2>1, <1>2
    <3> QED BY <3>1, <3>2
  <2> QED BY <2>1, <2>2, <2>3 DEF HeaderThenData
<1> QED BY <1>1, <1>2, <1>3 DEF Collected

LEMMA Empty == Collected(<<>>, 1) /\ Len(<<>>) = 0
BY DEF Collected, HeaderThenData

LEMMA Four == \A n \in Nat : (n <= 4 /\ n # 4 => n <= 3) /\ (n + 1 = 4 => n = 3)
OBVIOUS

\* What a receiver holds after a byte, and what it decodes.
LEMMA Kept ==
  ASSUME NEW s, Collected(s, 4)
  PROVE  /\ Collected(Rest(s), 3) /\ HeaderThenData(Decoded(s))
         /\ Len(Decoded(s)) \in {0, 4}
         /\ Whole(s) => Rest(s) = <<>> /\ Decoded(s) = s
         /\ ~Whole(s) => Rest(s) = s /\ Decoded(s) = <<>>
<1>1. s \in Seq(Byte) /\ Len(s) \in Nat /\ Len(s) <= 4 /\ HeaderThenData(s)
  BY DEF Collected
<1>2. Collected(<<>>, 3) /\ HeaderThenData(<<>>)
  BY Empty DEF Collected
<1>3. CASE Whole(s)
  BY <1>1, <1>2, <1>3 DEF Rest, Decoded, Whole
<1>4. CASE ~Whole(s)
  <2>1. Rest(s) = s /\ Decoded(s) = <<>>
    BY <1>4 DEF Rest, Decoded
  <2>4. Len(s) # 4
    BY <1>4 DEF Whole
  <2>2. Len(s) <= 3
    BY <1>1, <2>4, Four
  <2>3. Collected(Rest(s), 3)
    BY <1>1, <2>1, <2>2 DEF Collected
  <2> QED BY <1>2, <1>4, <2>1, <2>3, Empty
<1> QED BY <1>3, <1>4

----------------------------------------------------------------------------
(* Type correctness                                                        *)

AllTypes == TypeOK /\ BytesHeld

LEMMA Holding == ASSUME AllTypes PROVE Collected(packet, 3) /\ Collected(buf, 3)
BY DEF AllTypes, TypeOK, BytesHeld, Collected

LEMMA CollectType ==
  ASSUME AllTypes
  PROVE  Collected(Collect(next), 4) /\ Collected(Feed(next), 4)
<1>1. next \in Byte
  BY DEF AllTypes, TypeOK
<1>2. Collected(packet, 3) /\ Collected(buf, 3)
  BY Holding
<1>3. \A s : Collected(s, 1) => Collected(s, 4)
  BY DEF Collected
<1>4. Collected(<<>>, 4)
  BY <1>3, Empty
<1>5. IsHeader(next) => Collected(<<next>>, 4)
  BY <1>1, <1>3, Alone
<1>6. ~IsHeader(next) /\ packet # <<>> => Collected(Append(packet, next), 4)
  BY <1>1, <1>2, Longer
<1>7. ~IsHeader(next) /\ buf # <<>> => Collected(Append(buf, next), 4)
  BY <1>1, <1>2, Longer
<1> QED BY <1>4, <1>5, <1>6, <1>7 DEF Collect, Feed, IsData

LEMMA InitTypes == Init => AllTypes
<1> SUFFICES ASSUME Init PROVE AllTypes
  OBVIOUS
<1>1. next \in Byte
  BY FramesAssumption DEF Init, Byte
<1>2. Collected(packet, 1) /\ Collected(buf, 1) /\ Collected(got, 1) /\ Collected(host_got, 1)
  BY Empty DEF Init
<1>3. Len(packet) = 0 /\ Len(buf) = 0 /\ Len(got) = 0 /\ Len(host_got) = 0
  BY Empty DEF Init
<1>4. intact \in BOOLEAN /\ beheaded \in BOOLEAN /\ host_beheaded \in BOOLEAN
  BY DEF Init
<1>7. missed \in 0 .. 2 /\ host_missed \in 0 .. 2
  BY DEF Init
<1>5. BytesHeld
  BY <1>2 DEF BytesHeld, Collected
<1>6. TypeOK
  BY <1>1, <1>2, <1>3, <1>4, <1>7 DEF TypeOK, Collected
<1> QED BY <1>5, <1>6 DEF AllTypes

LEMMA ArrivesTypes == ASSUME AllTypes, Arrives PROVE AllTypes'
<1> DEFINE p == Collect(next)
           h == Feed(next)
<1>1. Collected(p, 4) /\ Collected(h, 4)
  BY CollectType
<1>2. next' \in Byte /\ intact' \in BOOLEAN
      /\ beheaded' \in BOOLEAN /\ host_beheaded' \in BOOLEAN
  BY NextByte DEF AllTypes, TypeOK, Arrives
<1>3. packet' = Rest(p) /\ buf' = Rest(h) /\ got' = Decoded(p) /\ host_got' = Decoded(h)
  BY DEF Arrives
<1>4. Collected(packet', 3) /\ Collected(buf', 3)
  BY <1>1, <1>3, Kept
<1>5. /\ Len(got') \in {0, 4} /\ HeaderThenData(got')
      /\ Len(host_got') \in {0, 4} /\ HeaderThenData(host_got')
  BY <1>1, <1>3, Kept
<1>6. missed' \in 0 .. 2 /\ host_missed' \in 0 .. 2
  BY DEF AllTypes, TypeOK, Arrives, MissedBy, Capped
<1> QED BY <1>2, <1>4, <1>5, <1>6 DEF AllTypes, TypeOK, BytesHeld, Collected

LEMMA LostTypes == ASSUME AllTypes, Lost PROVE AllTypes'
<1>1. next' \in Byte /\ intact' \in BOOLEAN
      /\ beheaded' \in BOOLEAN /\ host_beheaded' \in BOOLEAN
  BY NextByte DEF AllTypes, TypeOK, Lost
<1>2. Collected(packet', 3) /\ Collected(buf', 3)
  BY Holding DEF Lost
<1>3. HeaderThenData(got') /\ HeaderThenData(host_got')
  BY DEF Lost, HeaderThenData
<1> QED BY <1>1, <1>2, <1>3 DEF AllTypes, TypeOK, BytesHeld, Collected, Lost

LEMMA TypeInvariant == Spec => []AllTypes
<1>1. AllTypes /\ [Next]_vars => AllTypes'
  <2> SUFFICES ASSUME AllTypes, [Next]_vars PROVE AllTypes'
    OBVIOUS
  <2>1. CASE Arrives
    BY <2>1, ArrivesTypes
  <2>2. CASE Lost
    BY <2>2, LostTypes
  <2>3. CASE UNCHANGED vars
    BY <2>3 DEF AllTypes, TypeOK, BytesHeld, vars, received, tool
  <2> QED BY <2>1, <2>2, <2>3 DEF Next
<1> QED BY <1>1, InitTypes, PTL DEF Spec

\* A receiver never holds a whole frame, and what it holds or decodes begins
\* with a header and goes on with data.  (receivePacket21, Framer)
THEOREM TypeCorrect == Spec => []TypeOK
BY TypeInvariant, PTL DEF AllTypes
----------------------------------------------------------------------------
(* In step                                                                 *)

StepInv == ToolInStep /\ ModuleInStep

LEMMA InitInStep == Init => StepInv
BY DEF Init, StepInv, ToolInStep, ModuleInStep

LEMMA ArrivesToolInStep == ASSUME AllTypes, ToolInStep, Arrives PROVE ToolInStep'
<1>1. next \in Byte /\ next.place \in 0 .. 3 /\ intact \in BOOLEAN
  BY DEF AllTypes, TypeOK, Byte
<1>2. Collected(buf, 3) /\ Collected(Feed(next), 4)
  BY Holding, CollectType
<1>3. intact \/ IsHeader(next) => Len(Feed(next)) = next.place + 1
  <2>1. CASE IsHeader(next)
    BY <1>1, <2>1, Alone DEF Feed, IsHeader
  <2>2. CASE ~IsHeader(next) /\ intact
    <3>1. Len(buf) = next.place /\ next.place > 0
      BY <1>1, <2>2 DEF ToolInStep, IsHeader
    <3>2. buf # <<>>
      BY <3>1, Empty
    <3> QED BY <1>1, <1>2, <2>2, <3>1, <3>2, Longer DEF Feed
  <2> QED BY <2>1, <2>2
<1>4. host_missed' = 0
  <2>1. next.place = 3 /\ intact => Whole(Feed(next))
    BY <1>1, <1>3 DEF Whole
  <2> QED BY <2>1 DEF Arrives, MissedBy, ToolInStep
<1>5. ASSUME intact', next'.place > 0 PROVE Len(buf') = next'.place
  <2>1. next.place < 3 /\ next'.place = next.place + 1 /\ intact
    BY <1>1, <1>5, NextByte DEF Arrives
  <2>2. Len(Feed(next)) = next.place + 1
    BY <1>3, <2>1
  <2>4. ~Whole(Feed(next))
    BY <1>1, <2>1, <2>2 DEF Whole
  <2>3. buf' = Feed(next)
    BY <1>2, <2>4, Kept DEF Arrives
  <2> QED BY <2>1, <2>2, <2>3
<1> QED BY <1>4, <1>5 DEF ToolInStep

\* The frame that is being collected when its last byte arrives is whole, or
\* the module missed it and holds nothing.
LEMMA ArrivesModuleInStep == ASSUME AllTypes, ModuleInStep, Arrives PROVE ModuleInStep'
<1>1. /\ next \in Byte /\ next.place \in 0 .. 3 /\ intact \in BOOLEAN
      /\ missed \in 0 .. 2 /\ missed <= 1
  BY DEF AllTypes, TypeOK, Byte, ModuleInStep
<1>2. Collected(packet, 3) /\ Collected(Collect(next), 4)
  BY Holding, CollectType
<1>3. intact' = (intact \/ next.place = 3)
  BY DEF Arrives
<1>4. CASE next.place = 0
  <2>1. next'.place = 1 /\ intact /\ intact' /\ missed' = missed
    <3>1. Succ(next).place = 1
      BY <1>1, <1>4, NextByte
    <3>2. intact /\ intact'
      BY <1>3, <1>4 DEF ModuleInStep
    <3>3. missed' = missed /\ next' = Succ(next)
      BY <1>4 DEF Arrives, MissedBy
    <3> QED BY <3>1, <3>2, <3>3
  <2>2. CASE packet = <<>>
    <3>1. Len(Collect(next)) = 1 /\ ~Whole(Collect(next))
      BY <1>1, <1>4, <2>2, Alone DEF Collect, IsHeader, Whole
    <3>2. Len(packet') = 1
      BY <1>2, <3>1, Kept DEF Arrives
    <3> QED BY <1>1, <2>1, <3>2 DEF ModuleInStep
  <2>3. CASE packet # <<>>
    <3>1. Collect(next) = <<>> /\ ~Whole(Collect(next)) /\ missed = 0
      BY <1>4, <2>3, Empty DEF Collect, IsData, IsHeader, Whole, ModuleInStep
    <3>2. packet' = <<>>
      BY <1>2, <3>1, Kept DEF Arrives
    <3> QED BY <2>1, <3>1, <3>2 DEF ModuleInStep
  <2> QED BY <2>2, <2>3
<1>5. CASE next.place # 0 /\ ~intact
  <2>1. missed = 0 /\ missed' = 0
    BY <1>5 DEF ModuleInStep, Arrives, MissedBy
  <2>2. \/ next.place = 3 /\ next'.place = 0 /\ intact'
        \/ next'.place > 0 /\ ~intact'
    <3>1. next' = Succ(next)
      BY DEF Arrives
    <3>2. CASE next.place = 3
      BY <1>1, <1>3, <3>1, <3>2, NextByte
    <3>3. CASE next.place < 3
      BY <1>1, <1>3, <1>5, <3>1, <3>3, NextByte
    <3> QED BY <1>1, <3>2, <3>3
  <2> QED BY <2>1, <2>2 DEF ModuleInStep
<1>6. CASE next.place # 0 /\ intact
  <2>1. intact' /\ ~IsHeader(next)
    BY <1>3, <1>6 DEF IsHeader
  <2>2. CASE packet = <<>> /\ missed = 0
    <3>1. Collect(next) = <<>> /\ ~Whole(Collect(next))
      BY <2>1, <2>2, Empty DEF Collect, Whole
    <3>2. packet' = <<>>
      BY <1>2, <3>1, Kept DEF Arrives
    <3>3. \/ next.place = 3 /\ next'.place = 0 /\ missed' = 1
          \/ next.place < 3 /\ next'.place > 0 /\ missed' = 0
      <4>1. next' = Succ(next) /\ missed' = MissedBy(missed, Collect(next))
        BY DEF Arrives
      <4>2. CASE next.place = 3
        BY <1>1, <1>6, <2>2, <3>1, <4>1, <4>2, NextByte DEF MissedBy, Capped
      <4>3. CASE next.place < 3
        BY <1>1, <2>2, <4>1, <4>3, NextByte DEF MissedBy
      <4> QED BY <1>1, <4>2, <4>3
    <3> QED BY <2>1, <3>2, <3>3 DEF ModuleInStep
  <2>3. CASE Len(packet) = next.place
    <3>1. packet # <<>>
      BY <1>1, <1>6, <2>3, Empty
    <3>2. Collect(next) = Append(packet, next) /\ Len(Collect(next)) = next.place + 1
      BY <1>1, <1>2, <2>1, <2>3, <3>1, Longer DEF Collect, IsData
    <3>3. missed' = missed
      BY <1>1, <3>2 DEF Arrives, MissedBy, Whole
    <3>4. CASE next.place = 3
      <4>1. Whole(Collect(next))
        BY <3>2, <3>4 DEF Whole
      <4>2. packet' = <<>> /\ next'.place = 0
        BY <1>1, <1>2, <3>4, <4>1, Kept, NextByte DEF Arrives
      <4> QED BY <1>1, <2>1, <3>3, <4>2 DEF ModuleInStep
    <3>5. CASE next.place < 3
      <4>1. ~Whole(Collect(next))
        BY <1>1, <3>2, <3>5 DEF Whole
      <4>2. packet' = Collect(next) /\ next'.place = next.place + 1
        BY <1>1, <1>2, <3>5, <4>1, Kept, NextByte DEF Arrives
      <4> QED BY <1>1, <2>1, <3>2, <3>3, <4>2 DEF ModuleInStep
    <3> QED BY <1>1, <3>4, <3>5
  <2> QED BY <1>1, <1>6, <2>2, <2>3 DEF ModuleInStep
<1> QED BY <1>4, <1>5, <1>6

LEMMA LostInStep == ASSUME AllTypes, StepInv, Lost PROVE StepInv'
<1>1. next \in Byte /\ next.place \in 0 .. 3
  BY DEF AllTypes, TypeOK, Byte
<1>2. \/ next'.place = 0 /\ intact'
      \/ next'.place > 0 /\ ~intact'
  <2>1. next' = Succ(next) /\ intact' = (next.place = 3)
    BY DEF Lost
  <2>2. CASE next.place = 3
    <3>1. next'.place = 0
      BY <1>1, <2>1, <2>2, NextByte
    <3> QED BY <2>1, <2>2, <3>1
  <2>3. CASE next.place < 3
    <3>1. next'.place > 0
      BY <1>1, <2>1, <2>3, NextByte
    <3>2. next.place # 3
      BY <1>1, <2>3
    <3> QED BY <2>1, <3>1, <3>2
  <2>4. next.place = 3 \/ next.place < 3
    BY <1>1
  <2> QED BY <2>2, <2>3, <2>4
<1>3. missed' = 0 /\ host_missed' = 0
  BY DEF Lost
<1> QED BY <1>2, <1>3 DEF StepInv, ToolInStep, ModuleInStep

LEMMA StepInvariant == Spec => []StepInv
<1>1. AllTypes /\ StepInv /\ [Next]_vars => StepInv'
  <2> SUFFICES ASSUME AllTypes, StepInv, [Next]_vars PROVE StepInv'
    OBVIOUS
  <2>1. CASE Arrives
    BY <2>1, ArrivesToolInStep, ArrivesModuleInStep DEF StepInv
  <2>2. CASE Lost
    BY <2>2, LostInStep
  <2>3. CASE UNCHANGED vars
    BY <2>3 DEF StepInv, ToolInStep, ModuleInStep, vars, received, tool
  <2> QED BY <2>1, <2>2, <2>3 DEF Next
<1> QED BY <1>1, InitInStep, TypeInvariant, PTL DEF Spec

\* However bytes were lost, the module misses at most one intact frame after
\* the last loss and the host tool none.  (receivePacket21, Framer)
THEOREM BackInStep == Spec => []Resync
<1>1. StepInv => Resync
  BY DEF StepInv, ToolInStep, ModuleInStep, Resync
<1> QED BY <1>1, StepInvariant, PTL

----------------------------------------------------------------------------
(* Frames are not mixed                                                    *)

LEMMA Elements ==
  ASSUME NEW s, NEW n \in Nat, Collected(s, n)
  PROVE  /\ Len(s) \in Nat /\ Len(s) <= n
         /\ \A k \in 1 .. Len(s) : s[k] \in Byte /\ s[k].place \in 0 .. 3
<1>1. s \in Seq(Byte) /\ Len(s) \in Nat /\ Len(s) <= n
  BY DEF Collected
<1>2. \A k \in 1 .. Len(s) : s[k] \in Byte
  BY <1>1
<1> QED BY <1>1, <1>2 DEF Byte

\* One more byte of the frame, and what was held stays before the next.
LEMMA BeforeGrows ==
  ASSUME NEW s, Collected(s, 3), s # <<>>, NEW b \in Byte, ~IsHeader(b), Before(s, b)
  PROVE  \A c \in Byte :
           c.frame = b.frame /\ c.place = b.place + 1 => Before(Append(s, b), c)
<1> DEFINE t == Append(s, b)
<1>1. /\ Len(t) = Len(s) + 1 /\ t[Len(s) + 1] = b
      /\ \A k \in 1 .. Len(s) : t[k] = s[k]
  BY Longer
<1>2. Len(s) \in Nat /\ Len(s) # 0 /\ b.place \in 0 .. 3
  BY DEF Collected, Byte
<1>3. \A k \in 1 .. Len(s) : s[k].place \in 0 .. 3
  BY Elements
<1>4. Len(s) <= b.place
  <2>1. 0 <= s[1].place /\ s[1].place < b.place - Len(s) + 1
    BY <1>2 DEF Before
  <2> QED BY <1>2, <1>3, <2>1
<1> HIDE DEF t
<1>5. SUFFICES ASSUME NEW c \in Byte, c.frame = b.frame, c.place = b.place + 1,
                      NEW k \in 1 .. Len(t)
               PROVE  /\ t[k].frame = c.frame
                      /\ k - 1 <= t[k].place /\ t[k].place < c.place - Len(t) + k
  BY DEF Before, t
<1>6. CASE k = Len(s) + 1
  BY <1>1, <1>2, <1>4, <1>5, <1>6
<1>7. CASE k # Len(s) + 1
  <2>1. k \in 1 .. Len(s)
    BY <1>1, <1>2, <1>7
  <2>2. /\ s[k].frame = b.frame
        /\ k - 1 <= s[k].place /\ s[k].place < b.place - Len(s) + k
    BY <2>1 DEF Before
  <2> QED BY <1>1, <1>2, <1>3, <1>5, <2>1, <2>2
<1> QED BY <1>6, <1>7

\* A fourth byte completes the frame the first three are of.
LEMMA BeforeIsFrame ==
  ASSUME NEW s, Collected(s, 3), s # <<>>, NEW b \in Byte, ~IsHeader(b), Before(s, b)
  PROVE  Whole(Append(s, b)) => IsFrame(Append(s, b), b.frame)
<1> DEFINE t == Append(s, b)
<1>1. /\ Collected(t, 4) /\ Len(t) = Len(s) + 1 /\ t[Len(s) + 1] = b
      /\ \A k \in 1 .. Len(s) : t[k] = s[k]
  BY Longer
<1>2. Len(s) \in Nat /\ b.place \in 0 .. 3
  BY Elements DEF Byte
<1>9. \A k \in 1 .. Len(s) : s[k].place \in 0 .. 3
  BY Elements
<1> HIDE DEF t
<1>3. SUFFICES ASSUME Whole(t), NEW k \in 1 .. Len(t)
               PROVE  t[k] = [place |-> k - 1, frame |-> b.frame]
  BY DEF IsFrame, t
<1>4. Len(t) = 4 /\ Len(s) = 3
  <2>1. Len(t) = 4
    BY <1>3 DEF Whole
  <2>2. Len(s) + 1 = 4 /\ Len(s) \in Nat
    BY <1>1, <1>2, <2>1
  <2> QED BY <2>1, <2>2, Four
<1>5. \A j \in 1 .. 3 : /\ s[j].frame = b.frame /\ s[j].place \in 0 .. 3
                        /\ j - 1 <= s[j].place /\ s[j].place < b.place - 3 + j
  BY <1>4, <1>9 DEF Before
<1>6. b.place = 3
  BY <1>2, <1>5
<1>7. t[k].frame = b.frame /\ t[k].place = k - 1
  <2>1. CASE k = 4
    BY <1>1, <1>4, <1>6, <2>1
  <2>2. CASE k # 4
    <3>1. k \in 1 .. 3 /\ t[k] = s[k]
      BY <1>1, <1>3, <1>4, <2>2
    <3> QED BY <1>5, <1>6, <3>1
  <2> QED BY <2>1, <2>2
<1>8. t[k] \in Byte
  BY <1>1, <1>3 DEF Collected
<1> QED BY <1>7, <1>8 DEF Byte

LEMMA LoneBefore ==
  ASSUME NEW b \in Byte, IsHeader(b)
  PROVE  Before(<<b>>, Succ(b)) /\ ~Whole(<<b>>)
<1>1. b.place = 0 /\ Succ(b).place = 1 /\ Succ(b).frame = b.frame
  BY NextByte DEF IsHeader
<1> QED BY <1>1, Alone DEF Before, Whole

\* A lost byte only widens the gap between what is held and what comes.
LEMMA BeforeLost ==
  ASSUME NEW s, Collected(s, 3), NEW b \in Byte, Before(s, b), b.place < 3
  PROVE  Before(s, Succ(b))
<1>1. Succ(b).frame = b.frame /\ Succ(b).place = b.place + 1 /\ b.place \in 0 .. 3
  BY NextByte DEF Byte
<1>2. SUFFICES ASSUME NEW k \in 1 .. Len(s)
               PROVE  /\ s[k].frame = Succ(b).frame /\ k - 1 <= s[k].place
                      /\ s[k].place < Succ(b).place - Len(s) + k
  BY DEF Before
<1>3. /\ s[k].frame = b.frame /\ k - 1 <= s[k].place
      /\ s[k].place < b.place - Len(s) + k
  BY <1>2 DEF Before
<1>4. s[k].place \in 0 .. 3 /\ Len(s) \in Nat
  BY <1>2, Elements
<1> QED BY <1>1, <1>2, <1>3, <1>4

LEMMA NothingBefore == ASSUME NEW b PROVE Before(<<>>, b)
BY Empty DEF Before

\* Either receiver with what it held, s, and what it has collected, t.
LEMMA OneFrameStep ==
  ASSUME NEW s, Collected(s, 3), NEW b \in Byte, b.place > 0 => Before(s, b),
         NEW t, \/ t = <<>>
                \/ IsHeader(b) /\ t = <<b>>
                \/ ~IsHeader(b) /\ s # <<>> /\ t = Append(s, b)
  PROVE  /\ IsFrame(Decoded(t), b.frame)
         /\ Succ(b).place > 0 => Before(Rest(t), Succ(b))
<1>1. b.place \in 0 .. 3
  BY DEF Byte
<1>2. IsFrame(<<>>, b.frame) /\ Before(<<>>, Succ(b)) /\ ~Whole(<<>>)
  BY Empty, NothingBefore DEF IsFrame, Whole
<1>3. CASE t = <<>>
  BY <1>2, <1>3 DEF Decoded, Rest
<1>4. CASE IsHeader(b) /\ t = <<b>>
  BY <1>2, <1>4, LoneBefore DEF Decoded, Rest
<1>5. CASE ~IsHeader(b) /\ s # <<>> /\ t = Append(s, b)
  <2>1. b.place > 0 /\ Before(s, b)
    BY <1>1, <1>5 DEF IsHeader
  <2>2. IsFrame(Decoded(t), b.frame)
    BY <1>2, <1>5, <2>1, BeforeIsFrame DEF Decoded
  <2>3. ASSUME Succ(b).place > 0 PROVE Before(Rest(t), Succ(b))
    <3>1. /\ Succ(b) \in Byte /\ Succ(b).place = b.place + 1
          /\ Succ(b).frame = b.frame
      BY <1>1, <2>3, NextByte
    <3>2. Before(t, Succ(b))
      BY <1>5, <2>1, <3>1, BeforeGrows
    <3> QED BY <1>2, <3>2 DEF Rest
  <2> QED BY <2>2, <2>3
<1> QED BY <1>3, <1>4, <1>5

LEMMA ArrivesOneFrame ==
  ASSUME AllTypes, OfOneFrame, Arrives
  PROVE  /\ OfOneFrame'
         /\ ~beheaded => IsFrame(got', next.frame)
         /\ ~host_beheaded => IsFrame(host_got', next.frame)
<1>1. next \in Byte /\ next.place \in 0 .. 3
  BY DEF AllTypes, TypeOK, Byte
<1>2. Collected(packet, 3) /\ Collected(buf, 3)
  BY Holding
<1>3. /\ next' = Succ(next)
      /\ packet' = Rest(Collect(next)) /\ got' = Decoded(Collect(next))
      /\ buf' = Rest(Feed(next)) /\ host_got' = Decoded(Feed(next))
      /\ beheaded' = (beheaded /\ packet # <<>>)
      /\ host_beheaded' = (host_beheaded /\ buf # <<>> /\ ~IsHeader(next))
  BY DEF Arrives
<1>4. \/ Collect(next) = <<>>
      \/ IsHeader(next) /\ Collect(next) = <<next>>
      \/ ~IsHeader(next) /\ packet # <<>> /\ Collect(next) = Append(packet, next)
  BY DEF Collect, IsData
<1>5. \/ Feed(next) = <<>>
      \/ IsHeader(next) /\ Feed(next) = <<next>>
      \/ ~IsHeader(next) /\ buf # <<>> /\ Feed(next) = Append(buf, next)
  BY DEF Feed
<1>6. packet = <<>> => Before(packet, next)
  BY NothingBefore
<1>7. ASSUME ~beheaded \/ packet = <<>>
      PROVE  /\ IsFrame(got', next.frame)
             /\ next'.place > 0 => Before(packet', next')
  <2>1. next.place > 0 => Before(packet, next)
    BY <1>6, <1>7 DEF OfOneFrame
  <2> QED BY <1>1, <1>2, <1>3, <1>4, <2>1, OneFrameStep
<1>8. ASSUME ~host_beheaded \/ buf = <<>> \/ IsHeader(next)
      PROVE  /\ IsFrame(host_got', next.frame)
             /\ next'.place > 0 => Before(buf', next')
  <2>1. next.place > 0 => Before(buf, next)
    <3>1. buf = <<>> => Before(buf, next)
      BY NothingBefore
    <3> QED BY <1>8, <3>1 DEF OfOneFrame, IsHeader
  <2> QED BY <1>1, <1>2, <1>3, <1>5, <2>1, OneFrameStep
<1>9. OfOneFrame'
  BY <1>3, <1>7, <1>8 DEF OfOneFrame
<1> QED BY <1>7, <1>8, <1>9

LEMMA LostOneFrame ==
  ASSUME AllTypes, OfOneFrame, Lost
  PROVE  /\ OfOneFrame'
         /\ IsFrame(got', next.frame) /\ IsFrame(host_got', next.frame)
<1>1. next \in Byte /\ next.place \in 0 .. 3 /\ beheaded \in BOOLEAN /\ host_beheaded \in BOOLEAN
  BY DEF AllTypes, TypeOK, Byte
<1>2. Collected(packet, 3) /\ Collected(buf, 3)
  BY Holding
<1>3. IsFrame(got', next.frame) /\ IsFrame(host_got', next.frame)
  BY Empty DEF Lost, IsFrame
<1>4. packet' = packet /\ buf' = buf /\ next' = Succ(next)
  BY DEF Lost
<1>5. ASSUME next'.place > 0 PROVE ~beheaded' => Before(packet', next')
  <2>1. next.place < 3
    BY <1>1, <1>4, <1>5, NextByte
  <2>2. CASE packet = <<>>
    BY <2>2, <1>4, NothingBefore
  <2>3. CASE packet # <<>> /\ next.place > 0
    BY <1>1, <1>2, <1>4, <2>1, <2>3, BeforeLost DEF Lost, OfOneFrame
  <2>4. CASE packet # <<>> /\ next.place = 0
    BY <2>4 DEF Lost, IsHeader
  <2> QED BY <1>1, <2>2, <2>3, <2>4
<1>6. ASSUME next'.place > 0 PROVE ~host_beheaded' => Before(buf', next')
  <2>1. next.place < 3
    BY <1>1, <1>4, <1>6, NextByte
  <2>2. CASE buf = <<>>
    BY <2>2, <1>4, NothingBefore
  <2>3. CASE buf # <<>> /\ next.place > 0
    BY <1>1, <1>2, <1>4, <2>1, <2>3, BeforeLost DEF Lost, OfOneFrame
  <2>4. CASE buf # <<>> /\ next.place = 0
    BY <2>4 DEF Lost, IsHeader
  <2> QED BY <1>1, <2>2, <2>3, <2>4
<1> QED BY <1>3, <1>5, <1>6 DEF OfOneFrame

\* The parts together are inductive: what no loss has beheaded is of one frame.
\* (receivePacket21, Framer)
THEOREM Inductive == Spec => []IInv
<1>1. Init => OfOneFrame
  BY DEF Init, OfOneFrame
<1>2. AllTypes /\ OfOneFrame /\ [Next]_vars => OfOneFrame'
  <2> SUFFICES ASSUME AllTypes, OfOneFrame, [Next]_vars PROVE OfOneFrame'
    OBVIOUS
  <2>1. CASE UNCHANGED vars
    BY <2>1 DEF OfOneFrame, vars, received, tool
  <2> QED BY <2>1, ArrivesOneFrame, LostOneFrame DEF Next
<1>3. AllTypes /\ StepInv /\ OfOneFrame => IInv
  BY DEF AllTypes, StepInv, IInv
<1> QED BY <1>1, <1>2, <1>3, TypeInvariant, StepInvariant, PTL DEF Spec

\* A receiver decodes the frame on the wire and nothing else, whole and in
\* order, unless the header between two frames was lost while it held part of
\* the first.  (receivePacket21, Framer)
THEOREM FramesAreNotMixed == Spec => NoChimera
<1>1. IInv /\ [Next]_vars =>
        [/\ ~beheaded => IsFrame(got', next.frame)
         /\ ~host_beheaded => IsFrame(host_got', next.frame)]_vars
  <2> SUFFICES ASSUME IInv, [Next]_vars
               PROVE  \/ /\ ~beheaded => IsFrame(got', next.frame)
                         /\ ~host_beheaded => IsFrame(host_got', next.frame)
                      \/ UNCHANGED vars
    OBVIOUS
  <2>1. AllTypes /\ OfOneFrame
    BY DEF IInv, AllTypes
  <2> QED BY <2>1, ArrivesOneFrame, LostOneFrame DEF Next
<1> QED BY <1>1, Inductive, PTL DEF Spec, NoChimera
=============================================================================
