----------------------------- MODULE HostProofs -----------------------------
(***************************************************************************)
(* Theorems about the wire format (Protocol) and about the host tool on    *)
(* its bench bus (Host).                                                   *)
(*                                                                         *)
(* 1. What protocol.py promises for every value: frames, requests, signed  *)
(*    fields and pages come back as they were sent.  (Sampling records are *)
(*    in KerSampleProofs, status words in KerSensorProofs.)                *)
(* 2. An invariant of the bench: at most one reply is under way, and it    *)
(*    belongs to the request the tool waits for or is sitting out.         *)
(* 3. What the replies say: the words of a record are of one snapshot.     *)
(* 4. A session that writes a page request by request, with what the       *)
(*    module has at each of them, up to the refinement of PageWrite.       *)
(* 5. A session nothing goes wrong in: every request is accepted and       *)
(*    answered in its window, up to the command's good end.                *)
(*                                                                         *)
(* The invariants of 2 to 4 are stated in HostInvariants.                  *)
(***************************************************************************)
EXTENDS HostInvariants, SequenceTheorems, WellFoundedInduction, TLAPS


----------------------------------------------------------------------------
(* Quotients and remainders                                                *)

LEMMA Split16 ==
  ASSUME NEW hi \in Nat, NEW lo \in Word
  PROVE  /\ (hi * 65536 + lo) \div 65536 = hi
         /\ (hi * 65536 + lo) % 65536 = lo
         /\ hi * 65536 + lo \in Nat
<1>1. (hi * 65536 + lo) \div 65536 = hi BY SMT DEF Word
<1>2. \A x \in Int : x % 65536 = x - 65536 * (x \div 65536) BY SMT
<1>3. hi * 65536 + lo \in Nat BY SMT DEF Word
<1>4. (hi * 65536 + lo) % 65536 = (hi * 65536 + lo) - 65536 * hi
  <2>1. hi * 65536 + lo \in Int BY SMT, <1>3
  <2> QED BY SMT, <1>1, <1>2, <2>1
<1>5. (hi * 65536 + lo) % 65536 = lo BY SMT, <1>4 DEF Word
<1> QED BY <1>1, <1>3, <1>5

LEMMA Join16 ==
  ASSUME NEW x \in Int
  PROVE  /\ x = (x % 65536) + 65536 * (x \div 65536)
         /\ x % 65536 \in Word /\ x \div 65536 \in Int
<1>1. x = (x % 65536) + 65536 * (x \div 65536) BY SMT
<1>2. x % 65536 \in Word BY SMT DEF Word
<1>3. x \div 65536 \in Int BY SMT
<1> QED BY <1>1, <1>2, <1>3

LEMMA Split8 ==
  ASSUME NEW hi \in Nat, NEW lo \in Nat, lo <= 255
  PROVE  (lo + hi * 256) \div 256 = hi /\ (lo + hi * 256) % 256 = lo
<1>1. (lo + hi * 256) \div 256 = hi BY SMT
<1>2. \A x \in Int : x % 256 = x - 256 * (x \div 256) BY SMT
<1>3. (lo + hi * 256) % 256 = (lo + hi * 256) - 256 * hi
  <2>1. lo + hi * 256 \in Int BY SMT
  <2> QED BY SMT, <1>1, <1>2, <2>1
<1>4. (lo + hi * 256) % 256 = lo BY SMT, <1>3
<1> QED BY <1>1, <1>4

LEMMA Split12 ==
  ASSUME NEW hi \in Nat, NEW lo \in Nat, lo <= 4095
  PROVE  (lo + hi * 4096) \div 4096 = hi /\ (lo + hi * 4096) % 4096 = lo
<1>1. (lo + hi * 4096) \div 4096 = hi BY SMT
<1>2. \A x \in Int : x % 4096 = x - 4096 * (x \div 4096) BY SMT
<1>3. (lo + hi * 4096) % 4096 = (lo + hi * 4096) - 4096 * hi
  <2>1. lo + hi * 4096 \in Int BY SMT
  <2> QED BY SMT, <1>1, <1>2, <2>1
<1>4. (lo + hi * 4096) % 4096 = lo BY SMT, <1>3
<1> QED BY <1>1, <1>4

LEMMA Ranges ==
  /\ \A v \in Amplitude : v \in Int /\ -32768 <= v /\ v <= 32767
  /\ \A v \in Word : v \in Nat /\ v <= 65535
<1>1. \A v \in Amplitude : v \in Int BY SMT DEF Amplitude
<1>2. \A v \in Amplitude : -32768 <= v BY SMT DEF Amplitude
<1>3. \A v \in Amplitude : v <= 32767 BY SMT DEF Amplitude
<1>4. \A v \in Word : v \in Nat BY SMT DEF Word
<1>5. \A v \in Word : v <= 65535 BY SMT DEF Word
<1> QED BY <1>1, <1>2, <1>3, <1>4, <1>5

LEMMA Days ==
  \A v \in Day : v \in Nat /\ v <= 4095
<1>1. \A v \in Day : v \in Nat BY SMT DEF Day
<1>2. \A v \in Day : v <= 4095 BY SMT DEF Day
<1> QED BY <1>1, <1>2

LEMMA Mod16 ==
  /\ \A v \in Nat : v <= 65535 => v % 65536 = v /\ v \in Word
  /\ \A v \in Int : -32768 <= v /\ v < 0 => v % 65536 = v + 65536
<1>1. \A v \in Nat : v <= 65535 => v % 65536 = v BY SMT
<1>2. \A v \in Int : -32768 <= v /\ v < 0 => v % 65536 = v + 65536 BY SMT
<1>3. \A v \in Nat : v \in Int BY SMT
<1> QED BY <1>1, <1>2, <1>3, Join16

----------------------------------------------------------------------------
(* Frames                                                                  *)

\* Every frame the tool sends has the 1,0,0,0 pattern of top bits, and decodes
\* to what was encoded.  (encode_frame, decode_frame)
THEOREM FrameRoundTrip ==
  ASSUME NEW id \in 0 .. 31, NEW c \in 0 .. 3, NEW data \in Nat, data < DATA_LIMIT
  PROVE  /\ IsFrame(encode_frame(id, c, data))
         /\ decode_frame(encode_frame(id, c, data))
              = [id |-> id, cmd |-> c, data |-> data]
<1> DEFINE b1 == 128 + id * 4 + c
           b2 == data % 128
           b3 == (data \div 128) % 128
           b4 == (data \div 16384) % 128
<1>1. b1 \in 128 .. 255 /\ b2 \in 0 .. 127 /\ b3 \in 0 .. 127 /\ b4 \in 0 .. 127
  <2>1. b1 \in 128 .. 255 BY SMT
  <2>2. b2 \in 0 .. 127 BY SMT
  <2>3. b3 \in 0 .. 127 BY SMT
  <2>4. b4 \in 0 .. 127 BY SMT
  <2> QED BY <2>1, <2>2, <2>3, <2>4
<1>2. encode_frame(id, c, data) = <<b1, b2, b3, b4>> BY SMT DEF encode_frame
<1>3. (b1 % 128) \div 4 = id BY SMT
<1>4. b1 % 4 = c BY SMT
<1>5. b2 + b3 * 128 + b4 * 16384 = data
  <2>1. data = (data % 128) + 128 * (data \div 128) BY SMT
  <2>2. data \div 128 = ((data \div 128) % 128) + 128 * ((data \div 128) \div 128)
    BY SMT
  <2>3. (data \div 128) \div 128 = data \div 16384 BY SMT
  <2>4. (data \div 16384) % 128 = data \div 16384 BY SMT DEF DATA_LIMIT
  <2>5. /\ data % 128 \in Int /\ data \div 128 \in Int
        /\ (data \div 128) % 128 \in Int /\ data \div 16384 \in Int BY SMT
  <2> QED BY SMT, <2>1, <2>2, <2>3, <2>4, <2>5
<1> HIDE DEF b1, b2, b3, b4
<1>6. IsFrame(<<b1, b2, b3, b4>>) BY SMT, <1>1 DEF IsFrame
<1>7. decode_frame(<<b1, b2, b3, b4>>) = [id |-> id, cmd |-> c, data |-> data]
  BY SMT, <1>1, <1>3, <1>4, <1>5 DEF decode_frame
<1> QED BY <1>2, <1>6, <1>7

\* A request or a reply comes back with its SUB and its ARG.
\* (encode_cmd3, decode_cmd3)
THEOREM Cmd3RoundTrip ==
  ASSUME NEW id \in 0 .. 31, NEW sub \in 0 .. 31, NEW arg \in Word
  PROVE  /\ decode_frame(encode_cmd3(id, sub, arg)).id = id
         /\ decode_frame(encode_cmd3(id, sub, arg)).cmd = 3
         /\ decode_cmd3(decode_frame(encode_cmd3(id, sub, arg)).data)
              = [sub |-> sub, arg |-> arg]
<1> DEFINE d == sub * 65536 + arg
<1>1. d \in Nat BY SMT DEF Word
<1>2. d < DATA_LIMIT BY SMT DEF Word, DATA_LIMIT
<1>3. d \div 65536 = sub /\ d % 65536 = arg
  <2>1. sub \in Nat BY SMT
  <2> QED BY <2>1, Split16
<1> HIDE DEF d
<1>4. decode_frame(encode_frame(id, 3, d)) = [id |-> id, cmd |-> 3, data |-> d]
  <2>1. id \in 0 .. 31 /\ 3 \in 0 .. 3 BY SMT
  <2> QED BY <1>1, <1>2, <2>1, FrameRoundTrip
<1>5. sub % 32 = sub BY SMT
<1>6. decode_cmd3(d) = [sub |-> sub, arg |-> arg] BY SMT, <1>3, <1>5 DEF decode_cmd3
<1>7. encode_cmd3(id, sub, arg) = encode_frame(id, 3, d) BY DEF encode_cmd3, d
<1> QED BY SMT, <1>4, <1>6, <1>7

\* A NAK names the subcommand it rejects and its reason.  (request)
THEOREM NakRoundTrip ==
  ASSUME NEW sub \in 0 .. 31, NEW reason \in Byte
  PROVE  NakOf(Tagged(sub, reason)) = [sub |-> sub, reason |-> reason]
<1>1. (sub * 256 + reason) \div 256 = sub BY SMT DEF Byte
<1>2. \A x \in Int : x = 256 * (x \div 256) + (x % 256) BY SMT
<1>3. sub * 256 + reason \in Int BY SMT DEF Byte
<1>4. (sub * 256 + reason) % 256 = reason BY SMT, <1>1, <1>2, <1>3 DEF Byte
<1>5. sub % 32 = sub BY SMT
<1> QED BY SMT, <1>1, <1>4, <1>5 DEF NakOf, Tagged

----------------------------------------------------------------------------
(* Signed fields                                                           *)

\* A harmonic amplitude survives its two's complement.  (i16)
THEOREM SignedRoundTrip ==
  ASSUME NEW v \in Amplitude
  PROVE  i16(v % 65536) = v /\ v % 65536 \in Word
<1>1. v \in Int /\ -32768 <= v /\ v <= 32767 BY Ranges
<1>2. v % 65536 \in Word BY <1>1, Join16
<1>3. CASE v >= 0
  <2>1. v % 65536 = v
    <3>1. v \in Nat /\ v <= 65535 BY SMT, <1>1, <1>3
    <3> QED BY <3>1, Mod16
  <2>2. i16(v) = v BY SMT, <1>1, <1>3 DEF i16
  <2> QED BY <1>2, <2>1, <2>2
<1>4. CASE v < 0
  <2>1. v % 65536 = v + 65536 BY <1>1, <1>4, Mod16
  <2>2. i16(v + 65536) = v BY SMT, <1>1, <1>4 DEF i16
  <2> QED BY <1>2, <2>1, <2>2
<1>5. v >= 0 \/ v < 0 BY SMT, <1>1
<1> QED BY <1>3, <1>4, <1>5

----------------------------------------------------------------------------
(* Pages                                                                   *)

LEMMA Harmonic ==
  ASSUME NEW p, Len(p.amp) \in Nat, NEW i \in Nat, i > 3, NEW k \in Nat, (i - 2) \div 2 = k,
         NEW par \in {0, 1}, i % 2 = par
  PROVE  BodyWord(p, i) = IF k > Len(p.amp) THEN 0
                          ELSE IF par = 0 THEN p.amp[k] % 65536 ELSE p.phase[k]
<1>1. i # 1 /\ i # 2 /\ i # 3 BY SMT
<1>2. CASE k > Len(p.amp)
  <2>1. ~(k <= Len(p.amp)) BY SMT, <1>2
  <2> QED BY SMT, <1>1, <1>2, <2>1 DEF BodyWord
<1>3. CASE k <= Len(p.amp)
  <2>1. ~(k > Len(p.amp)) BY SMT, <1>3
  <2> QED BY SMT, <1>1, <1>3, <2>1 DEF BodyWord
<1> QED BY SMT, <1>2, <1>3

LEMMA PageSize ==
  /\ N_AMP \in Nat /\ PAGE_WORDS = 4 + 2 * N_AMP
  /\ 1 \in 1 .. PAGE_WORDS - 1 /\ 2 \in 1 .. PAGE_WORDS - 1 /\ 3 \in 1 .. PAGE_WORDS - 1
<1>1. N_AMP \in Nat /\ PAGE_WORDS = 4 + 2 * N_AMP
  BY SMT, LayoutAssumption DEF PAGE_WORDS
<1> QED BY SMT, <1>1

LEMMA HeaderWords ==
  ASSUME NEW p, IsPage(p)
  PROVE  /\ Body(p)[1] = PAGE_MAGIC + LAYOUT_VER * 256
         /\ Body(p)[2] = p.device_id + p.station_id * 256
         /\ Body(p)[3] = p.cal_day + Len(p.amp) * 4096
<1>1. Body(p)[1] = PAGE_MAGIC + LAYOUT_VER * 256
  <2>1. Body(p)[1] = BodyWord(p, 1) BY PageSize DEF Body
  <2> QED BY SMT, <2>1 DEF BodyWord
<1>2. Body(p)[2] = p.device_id + p.station_id * 256
  <2>1. Body(p)[2] = BodyWord(p, 2) BY PageSize DEF Body
  <2> QED BY SMT, <2>1 DEF BodyWord
<1>3. Body(p)[3] = p.cal_day + Len(p.amp) * 4096
  <2>1. Body(p)[3] = BodyWord(p, 3) BY PageSize DEF Body
  <2> QED BY SMT, <2>1 DEF BodyWord
<1> QED BY <1>1, <1>2, <1>3

LEMMA HarmonicWords ==
  ASSUME NEW p, IsPage(p), NEW k \in 1 .. N_AMP
  PROVE  /\ Body(p)[2 * k + 2] = IF k > Len(p.amp) THEN 0 ELSE p.amp[k] % 65536
         /\ Body(p)[2 * k + 3] = IF k > Len(p.amp) THEN 0 ELSE p.phase[k]
<1>1. Len(p.amp) \in Nat BY SMT DEF IsPage
<1>2. 2 * k + 2 \in 1 .. PAGE_WORDS - 1 /\ 2 * k + 3 \in 1 .. PAGE_WORDS - 1
  BY SMT, PageSize
<1>3. /\ 2 * k + 2 \in Nat /\ 2 * k + 2 > 3 /\ (2 * k + 2 - 2) \div 2 = k
      /\ (2 * k + 2) % 2 = 0 /\ k \in Nat BY SMT, PageSize
<1>4. /\ 2 * k + 3 \in Nat /\ 2 * k + 3 > 3 /\ (2 * k + 3 - 2) \div 2 = k
      /\ (2 * k + 3) % 2 = 1 BY SMT, PageSize
<1>5. Body(p)[2 * k + 2] = BodyWord(p, 2 * k + 2) /\ Body(p)[2 * k + 3] = BodyWord(p, 2 * k + 3)
  BY <1>2 DEF Body
<1>6. BodyWord(p, 2 * k + 2) = IF k > Len(p.amp) THEN 0 ELSE p.amp[k] % 65536
  BY <1>1, <1>3, Harmonic
<1>7. BodyWord(p, 2 * k + 3) = IF k > Len(p.amp) THEN 0 ELSE p.phase[k]
  BY <1>1, <1>3, <1>4, Harmonic
<1> QED BY <1>5, <1>6, <1>7

LEMMA SealedWords ==
  ASSUME NEW p, IsPage(p)
  PROVE  /\ Len(to_words(p)) = PAGE_WORDS
         /\ \A i \in 1 .. PAGE_WORDS - 1 : to_words(p)[i] = Body(p)[i]
         /\ to_words(p)[PAGE_WORDS] = crc16(LE(Body(p)))
         /\ SubSeq(to_words(p), 1, PAGE_WORDS - 1) = Body(p)
<1> DEFINE n == PAGE_WORDS - 1
           b == Body(p)
<1>1. n \in Nat /\ PAGE_WORDS = n + 1 BY SMT, PageSize
<1>2. b = [i \in 1 .. n |-> b[i]] BY SMT DEF Body
<1> HIDE DEF b, n
<1>3. b \in Seq({b[i] : i \in 1 .. n}) /\ Len(b) = n BY SMT, <1>1, <1>2
<1>4. /\ Len(Append(b, crc16(LE(b)))) = n + 1
      /\ \A i \in 1 .. n : Append(b, crc16(LE(b)))[i] = b[i]
      /\ Append(b, crc16(LE(b)))[n + 1] = crc16(LE(b)) BY SMT, <1>1, <1>3
<1>5. SubSeq(Append(b, crc16(LE(b))), 1, n) = [i \in 1 .. n |-> Append(b, crc16(LE(b)))[i]]
  BY SMT, <1>1, <1>3, <1>4
<1>6. SubSeq(Append(b, crc16(LE(b))), 1, n) = b BY <1>2, <1>4, <1>5
<1> QED BY <1>1, <1>4, <1>6 DEF to_words, b, n

\* What a page holds comes back from its words, harmonics with their sign, and
\* the words pass every check of inspect_page: a page the tool builds is never
\* refused by write_page, and one it has read back is the one it wrote.
\* (Page.to_bytes, Page.from_bytes, inspect_page)
THEOREM PageRoundTrip ==
  ASSUME NEW p, IsPage(p)
  PROVE  /\ inspect_page(to_words(p)) = "valid"
         /\ from_words(to_words(p)) = p
<1> DEFINE w == to_words(p)
           len == Len(p.amp)
<1>1. p \in [device_id : ID_MIN .. ID_MAX, station_id : Byte, cal_day : Day,
             amp : Seq(Amplitude), phase : Seq(Word)] BY DEF IsPage
<1>a. len \in Nat /\ len <= N_AMP /\ Len(p.phase) = len BY SMT, <1>1 DEF IsPage
<1>b. p.device_id \in Nat /\ p.device_id <= 255 /\ p.device_id \in ID_MIN .. ID_MAX
  <2>1. p.device_id \in ID_MIN .. ID_MAX BY <1>1
  <2>2. p.device_id \in 1 .. 30 BY <2>1 DEF ID_MIN, ID_MAX
  <2>3. p.device_id \in Nat /\ p.device_id <= 255 BY SMT, <2>2
  <2> QED BY <2>1, <2>3
<1>c. p.station_id \in Nat
  <2>1. p.station_id \in Byte BY <1>1
  <2> QED BY SMT, <2>1 DEF Byte
<1>d. p.cal_day \in Nat /\ p.cal_day <= 4095
  <2>1. p.cal_day \in Day BY <1>1
  <2> QED BY <2>1, Days
<1>e. p.amp \in Seq(Amplitude) /\ p.phase \in Seq(Word) BY <1>1
<1>2. /\ w[1] = PAGE_MAGIC + LAYOUT_VER * 256
      /\ w[2] = p.device_id + p.station_id * 256
      /\ w[3] = p.cal_day + len * 4096 BY PageSize, HeaderWords, SealedWords
<1>3. ASSUME NEW k \in 1 .. N_AMP
      PROVE  /\ w[2 * k + 2] = IF k > len THEN 0 ELSE p.amp[k] % 65536
             /\ w[2 * k + 3] = IF k > len THEN 0 ELSE p.phase[k]
  <2>1. 2 * k + 2 \in 1 .. PAGE_WORDS - 1 /\ 2 * k + 3 \in 1 .. PAGE_WORDS - 1
    BY SMT, PageSize
  <2> QED BY <2>1, HarmonicWords, SealedWords
<1>4. w[1] % 256 = PAGE_MAGIC /\ w[1] \div 256 = LAYOUT_VER
  BY SMT, <1>2 DEF PAGE_MAGIC, LAYOUT_VER
<1>5. w[2] % 256 = p.device_id /\ w[2] \div 256 = p.station_id
  BY <1>b, <1>c, <1>2, Split8
<1>6. w[3] % 4096 = p.cal_day /\ w[3] \div 4096 = len
  <2>1. /\ (p.cal_day + len * 4096) % 4096 = p.cal_day
        /\ (p.cal_day + len * 4096) \div 4096 = len BY <1>a, <1>d, Split12
  <2> QED BY <1>2, <2>1
<1>7. SubSeq(w, 1, PAGE_WORDS - 1) = Body(p) /\ w[PAGE_WORDS] = crc16(LE(Body(p)))
  BY SealedWords
<1> HIDE DEF w, len
<1>8. fields_ok(w)
  <2>1. w[2] % 256 \in ID_MIN .. ID_MAX BY <1>b, <1>5
  <2>2. w[3] \div 4096 <= N_AMP BY <1>a, <1>6
  <2>3. \A k \in 1 .. N_AMP : k > w[3] \div 4096 => w[2 * k + 2] = 0 /\ w[2 * k + 3] = 0
    BY <1>3, <1>6
  <2> QED BY <2>1, <2>2, <2>3 DEF fields_ok
<1>9. inspect_page(w) = "valid" BY <1>4, <1>7, <1>8 DEF inspect_page
<1>10. AtMost(w[3] \div 4096, N_AMP) = len BY SMT, <1>a, <1>6, PageSize DEF AtMost
<1>11. [k \in 1 .. len |-> i16(w[2 * k + 2])] = p.amp
  <2>1. ASSUME NEW k \in 1 .. len
        PROVE  i16(w[2 * k + 2]) = p.amp[k]
    <3>1. k \in 1 .. N_AMP /\ ~(k > len) BY SMT, <1>a, PageSize
    <3>2. p.amp[k] \in Amplitude BY SMT, <1>e DEF len
    <3> QED BY <1>3, <3>1, <3>2, SignedRoundTrip
  <2>2. p.amp = [k \in 1 .. len |-> p.amp[k]] BY SMT, <1>e DEF len
  <2> QED BY <2>1, <2>2
<1>12. [k \in 1 .. len |-> w[2 * k + 3]] = p.phase
  <2>1. ASSUME NEW k \in 1 .. len
        PROVE  w[2 * k + 3] = p.phase[k]
    <3>1. k \in 1 .. N_AMP /\ ~(k > len) BY SMT, <1>a, PageSize
    <3> QED BY <1>3, <3>1
  <2>2. p.phase = [k \in 1 .. len |-> p.phase[k]] BY SMT, <1>a, <1>e
  <2> QED BY <2>1, <2>2
<1>13. from_words(w) = [device_id |-> p.device_id, station_id |-> p.station_id,
                        cal_day |-> p.cal_day, amp |-> p.amp, phase |-> p.phase]
  <2> DEFINE A == [k \in 1 .. len |-> i16(w[2 * k + 2])]
             P == [k \in 1 .. len |-> w[2 * k + 3]]
  <2>1. from_words(w) = WithHarmonics(w, len) BY <1>10 DEF from_words
  <2>2. from_words(w) = [device_id |-> w[2] % 256, station_id |-> w[2] \div 256,
                         cal_day |-> w[3] % 4096, amp |-> A, phase |-> P]
    BY <2>1 DEF WithHarmonics
  <2>3. A = p.amp /\ P = p.phase BY <1>11, <1>12
  <2> HIDE DEF A, P
  <2> QED BY <1>5, <1>6, <2>2, <2>3
<1>14. p = [device_id |-> p.device_id, station_id |-> p.station_id,
            cal_day |-> p.cal_day, amp |-> p.amp, phase |-> p.phase] BY SMT DEF IsPage
<1> QED BY <1>9, <1>13, <1>14 DEF w

----------------------------------------------------------------------------
(* Sequences, whatever they hold                                           *)

LEMMA HoldsItsElements ==
  ASSUME NEW s, IsSequence(s)
  PROVE  s \in Seq({s[i] : i \in 1 .. Len(s)})
<1> DEFINE S == {s[i] : i \in 1 .. Len(s)}
<1>1. s \in [1 .. Len(s) -> S] BY DEF IsSequence
<1> HIDE DEF S
<1>2. s \in Seq(S) BY <1>1 DEF IsSequence
<1> QED BY <1>2 DEF S

LEMMA SequenceOf ==
  ASSUME NEW S, NEW s \in Seq(S)
  PROVE  IsSequence(s) /\ \A i \in 1 .. Len(s) : s[i] \in S
BY DEF IsSequence

LEMMA Nothing == IsSequence(<<>>) /\ Len(<<>>) = 0
BY DEF IsSequence

LEMMA Longer ==
  ASSUME NEW s, IsSequence(s), NEW e
  PROVE  /\ IsSequence(Append(s, e)) /\ Len(Append(s, e)) = Len(s) + 1
         /\ Append(s, e)[Len(s) + 1] = e
         /\ \A i \in 1 .. Len(s) : Append(s, e)[i] = s[i]
<1> DEFINE S == {s[i] : i \in 1 .. Len(s)} \cup {e}
<1>1. s \in Seq(S)
  <2>1. s \in [1 .. Len(s) -> S] BY DEF IsSequence
  <2> HIDE DEF S
  <2> QED BY <2>1 DEF IsSequence
<1>2. e \in S OBVIOUS
<1> HIDE DEF S
<1>3. Append(s, e) \in Seq(S) /\ Len(Append(s, e)) = Len(s) + 1 BY <1>1, <1>2
<1>4. Append(s, e)[Len(s) + 1] = e /\ \A i \in 1 .. Len(s) : Append(s, e)[i] = s[i]
  BY <1>1, <1>2
<1> QED BY <1>3, <1>4, SequenceOf

LEMMA Joined ==
  ASSUME NEW s, IsSequence(s), NEW t, IsSequence(t)
  PROVE  /\ IsSequence(s \o t) /\ Len(s \o t) = Len(s) + Len(t)
         /\ \A i \in 1 .. Len(s) : (s \o t)[i] = s[i]
         /\ \A i \in 1 .. Len(t) : (s \o t)[Len(s) + i] = t[i]
<1> DEFINE S == {s[i] : i \in 1 .. Len(s)} \cup {t[i] : i \in 1 .. Len(t)}
<1>1. s \in Seq(S)
  <2>1. s \in [1 .. Len(s) -> S] BY DEF IsSequence
  <2> HIDE DEF S
  <2> QED BY <2>1 DEF IsSequence
<1>2. t \in Seq(S)
  <2>1. t \in [1 .. Len(t) -> S] BY DEF IsSequence
  <2> HIDE DEF S
  <2> QED BY <2>1 DEF IsSequence
<1> HIDE DEF S
<1>3. s \o t \in Seq(S) /\ Len(s \o t) = Len(s) + Len(t) BY <1>1, <1>2
<1>4. ASSUME NEW i \in 1 .. Len(s) PROVE (s \o t)[i] = s[i] BY <1>1, <1>2
<1>5. ASSUME NEW i \in 1 .. Len(t) PROVE (s \o t)[Len(s) + i] = t[i]
  <2>1. Len(s) + i \in 1 .. Len(s) + Len(t) /\ ~(Len(s) + i <= Len(s)) /\ Len(s) + i - Len(s) = i
    BY <1>1, <1>2
  <2> QED BY <1>1, <1>2, <2>1
<1> QED BY <1>3, <1>4, <1>5, SequenceOf

LEMMA Listed ==
  ASSUME NEW n \in Nat, NEW f, f = [i \in 1 .. n |-> f[i]]
  PROVE  IsSequence(f) /\ Len(f) = n
<1> DEFINE S == {f[i] : i \in 1 .. n}
<1>1. f \in [1 .. n -> S] OBVIOUS
<1> HIDE DEF S
<1>2. f \in Seq(S) /\ Len(f) = n BY <1>1
<1> QED BY <1>2, SequenceOf

\* Every set of numbers that is not empty has a least one.
LEMMA Least ==
  ASSUME NEW T \in SUBSET Nat, T # {}
  PROVE  \E x \in T : \A y \in T : x <= y
<1> DEFINE R == OpToRel(<, Nat)
<1>1. IsWellFoundedOn(R, Nat) BY NatLessThanWellFounded, Zenon
<1>2. PICK x \in T : \A y \in T : ~(<<y, x>> \in R)
  <2> HIDE DEF R
  <2> QED BY <1>1, WFMin, Zenon
<1>3. \A y \in T : ~(y < x)
  <2> TAKE y \in T
  <2>1. <<y, x>> \in Nat \X Nat OBVIOUS
  <2> QED BY <2>1, <1>2 DEF OpToRel
<1> QED BY <1>3

----------------------------------------------------------------------------
(* Requests                                                                *)

LEMMA SubNumbers ==
  /\ \A name \in DOMAIN SUB : SUB[name] \in 0 .. 31
  /\ \A name \in DOMAIN SUB :
       /\ SUB[name] = 28 => name = "COMMIT_CAL"
       /\ SUB[name] = 29 => name = "SET_ID"
       /\ SUB[name] = 31 => name = "RESET"
  /\ SUB.COMMIT_CAL = 28 /\ SUB.SET_ID = 29 /\ SUB.RESET = 31 /\ SUB.PING = 1
BY DEF SUB

\* The key of an unlock fits in an argument, whatever was read for it.
LEMMA XorWord == ASSUME NEW x, NEW y PROVE Xor(x, y) \in Word
<1>1. \A w : XorBit(x, y, w) = 0 \/ XorBit(x, y, w) = w BY DEF XorBit
<1>2. XorByte(x, y, 1) \in Nat /\ XorByte(x, y, 1) <= 255
  <2>1. /\ XorBit(x, y, 1) \in {0, 1} /\ XorBit(x, y, 2) \in {0, 2}
        /\ XorBit(x, y, 4) \in {0, 4} /\ XorBit(x, y, 8) \in {0, 8}
        /\ XorBit(x, y, 16) \in {0, 16} /\ XorBit(x, y, 32) \in {0, 32}
        /\ XorBit(x, y, 64) \in {0, 64} /\ XorBit(x, y, 128) \in {0, 128} BY <1>1
  <2> QED BY <2>1 DEF XorByte
<1>3. XorByte(x, y, 256) \in Nat /\ XorByte(x, y, 256) <= 65280
  <2>1. /\ XorBit(x, y, 256) \in {0, 256} /\ XorBit(x, y, 512) \in {0, 512}
        /\ XorBit(x, y, 1024) \in {0, 1024} /\ XorBit(x, y, 2048) \in {0, 2048}
        /\ XorBit(x, y, 4096) \in {0, 4096} /\ XorBit(x, y, 8192) \in {0, 8192}
        /\ XorBit(x, y, 16384) \in {0, 16384} /\ XorBit(x, y, 32768) \in {0, 32768}
    BY <1>1
  <2> QED BY <2>1 DEF XorByte
<1>4. \A n \in Nat : n <= 65535 => n \in Word BY Mod16
<1> DEFINE a == XorByte(x, y, 1)
           b == XorByte(x, y, 256)
<1>5. Xor(x, y) = a + b BY DEF Xor
<1> HIDE DEF a, b
<1>6. a \in Nat /\ a <= 255 /\ b \in Nat /\ b <= 65280 BY <1>2, <1>3 DEF a, b
<1>7. a + b \in Nat /\ a + b <= 65535 BY <1>6
<1> QED BY <1>4, <1>5, <1>7

LEMMA SmallWord == \A n \in Nat : n <= 65535 => n \in Word
BY Mod16

LEMMA Times ==
  /\ TIMEOUT_REPLY \in Nat /\ TIMEOUT_REPLY >= 1 /\ TIMEOUT_PROG \in Nat
  /\ TIMEOUT_RTT \in Nat /\ TIMEOUT_PROG >= TIMEOUT_REPLY /\ TIMEOUT_RTT >= TIMEOUT_REPLY
  /\ LISTEN_BEFORE_TX \in Nat /\ LISTEN_BEFORE_TX >= 1 /\ POLL \in Nat /\ POLL >= 1
  /\ MaxLatency \in Nat /\ MaxLatency <= 2 * TIMEOUT_REPLY /\ MaxLatency <= LISTEN_BEFORE_TX
BY TimeAssumption, LatencyAssumption

Ordinary == DOMAIN SUB \ {"COMMIT_CAL", "SET_ID"}

LEMMA RequestType ==
  ASSUME NEW op, op # "scan", NEW name \in Ordinary, NEW arg \in Word \cup {KEYED}
  PROVE  Rq(name, arg) \in RequestsOf(op)
<1>1. Rq(name, arg) \in Request BY Times DEF Rq, Request, Ordinary
<1> QED BY <1>1, Times DEF Rq, RequestsOf, Ordinary

LEMMA EachType ==
  ASSUME NEW op, op # "scan", NEW name \in Ordinary, NEW n \in Nat, n <= 65536
  PROVE  Each(name, n) \in Seq(RequestsOf(op)) /\ Len(Each(name, n)) = n
<1> DEFINE S == RequestsOf(op)
<1>1. ASSUME NEW i \in 1 .. n PROVE Rq(name, i - 1) \in S
  <2>1. i - 1 \in Nat /\ i - 1 <= 65535 OBVIOUS
  <2> QED BY <2>1, SmallWord, RequestType
<1> HIDE DEF S
<1>2. Each(name, n) \in [1 .. n -> S] BY <1>1 DEF Each
<1>3. Each(name, n) \in Seq(S) /\ Len(Each(name, n)) = n BY <1>2
<1> QED BY <1>3 DEF S

LEMMA OneType ==
  ASSUME NEW op, NEW r \in RequestsOf(op)
  PROVE  <<r>> \in Seq(RequestsOf(op)) /\ Len(<<r>>) = 1
<1> DEFINE S == RequestsOf(op)
<1> HIDE DEF S
<1>1. r \in S BY DEF S
<1>2. <<r>> \in Seq(S) /\ Len(<<r>>) = 1 BY <1>1
<1> QED BY <1>2 DEF S

LEMMA JoinType ==
  ASSUME NEW S, NEW s \in Seq(S), NEW t \in Seq(S)
  PROVE  s \o t \in Seq(S) /\ Len(s \o t) = Len(s) + Len(t)
OBVIOUS

LEMMA FieldNames ==
  /\ {"GET_ANGLE_RAW", "GET_ANGLE_COMP", "GET_LATCHED", "GET_ERRCNT", "GET_SAMPLE",
      "GET_FW_VER", "GET_ENV", "GET_TRIM"} \subseteq Ordinary
  /\ {"PING", "GET_PROTO_VER", "GET_DEVICE_ID", "GET_HEALTH", "GET_STAT", "GET_DMAG",
      "GET_SAFETY", "CLR_ERRCNT", "GET_CAL_WORD", "GET_CAL_STATUS", "GET_SERNUM",
      "GET_CFG_VERIFY", "GET_RUN_WORD", "SAMPLE_START", "UNLOCK_1", "UNLOCK_2",
      "STAGE_ADDR", "STAGE_DATA", "LOCK", "RESET"} \subseteq Ordinary
  /\ {"PING", "COMMIT_CAL", "SET_ID"} \subseteq DOMAIN SUB
BY DEF SUB, Ordinary

LEMMA Fielded ==
  ASSUME NEW name \in Records \cup {"GET_FW_VER", "GET_ENV", "GET_TRIM"}
  PROVE  name \in Ordinary /\ FIELDS[name] \in Nat /\ FIELDS[name] >= 1 /\ FIELDS[name] <= 31
<1>1. name \in Ordinary BY FieldNames DEF Records
<1>2. FIELDS[name] \in 1 .. 31 BY ModuleAssumption
<1> QED BY <1>1, <1>2

LEMMA FieldsType ==
  ASSUME NEW op, op # "scan", NEW name \in Records \cup {"GET_FW_VER", "GET_ENV", "GET_TRIM"}
  PROVE  Fields(name) \in Seq(RequestsOf(op)) /\ Len(Fields(name)) = FIELDS[name]
<1>1. FIELDS[name] \in Nat /\ FIELDS[name] <= 65536 /\ name \in Ordinary BY Fielded
<1> QED BY <1>1, EachType DEF Fields

----------------------------------------------------------------------------
(* Plans                                                                   *)

LEMMA SmallPage ==
  /\ PAGE_WORDS \in Nat /\ PAGE_WORDS >= 4 /\ PAGE_WORDS <= 34
  /\ N_AMP \in Nat
<1>1. N_AMP \in Nat /\ N_AMP <= 15 BY LayoutAssumption
<1> QED BY <1>1 DEF PAGE_WORDS

LEMMA TaggedWord ==
  ASSUME NEW t \in Nat, t <= 255, NEW v \in Nat, v <= 255
  PROVE  Tagged(t, v) \in Word
<1>1. Tagged(t, v) \in Nat /\ Tagged(t, v) <= 65535 BY DEF Tagged
<1> QED BY <1>1, SmallWord

LEMMA Magics ==
  /\ MAGIC.CLR_ERRCNT \in Word /\ MAGIC.UNLOCK_1 \in Word /\ MAGIC.COMMIT_CAL \in Word
  /\ MAGIC.LOCK \in Word /\ MAGIC.RESET \in Word /\ 0 \in Word
<1>1. /\ MAGIC.CLR_ERRCNT = 49642 /\ MAGIC.UNLOCK_1 = 23063 /\ MAGIC.COMMIT_CAL = 49374
      /\ MAGIC.LOCK = 4300 /\ MAGIC.RESET = 36583 BY DEF MAGIC
<1> QED BY <1>1, SmallWord

LEMMA PlainType ==
  ASSUME NEW op, op # "scan", NEW name \in Ordinary, NEW arg \in Word \cup {KEYED}
  PROVE  <<Rq(name, arg)>> \in Seq(RequestsOf(op))
BY RequestType, OneType

LEMMA UnlockType ==
  ASSUME NEW op, op # "scan"
  PROVE  sernum \in Seq(RequestsOf(op)) /\ unlock \in Seq(RequestsOf(op))
<1> DEFINE S == RequestsOf(op)
           two == <<Rq("UNLOCK_1", MAGIC.UNLOCK_1), Rq("UNLOCK_2", KEYED)>>
<1>1. Len(Serial) \in Nat /\ Len(Serial) <= 65536
  <2> DEFINE n == Len(Serial)
  <2>1. n \in 1 .. 31 BY ModuleAssumption
  <2> HIDE DEF n
  <2>2. n \in Nat /\ n <= 65536 BY <2>1
  <2> QED BY <2>2 DEF n
<1>2. sernum \in Seq(S) BY <1>1, EachType, FieldNames DEF sernum
<1>3. Rq("UNLOCK_1", MAGIC.UNLOCK_1) \in S BY RequestType, Magics, FieldNames
<1>4. Rq("UNLOCK_2", KEYED) \in S BY RequestType, FieldNames
<1>5. unlock = sernum \o two BY DEF unlock
<1> HIDE DEF S
<1>6. two \in Seq(S) BY <1>3, <1>4
<1> HIDE DEF two
<1>7. unlock \in Seq(S) BY <1>2, <1>5, <1>6, JoinType
<1> QED BY <1>2, <1>7 DEF S

LEMMA StageType ==
  ASSUME NEW op, op # "scan", NEW page \in [1 .. PAGE_WORDS -> Word]
  PROVE  stage(page) \in Seq(RequestsOf(op))
<1> DEFINE S == RequestsOf(op)
           n == 2 * PAGE_WORDS
           E(i) == IF i % 2 = 1 THEN Rq("STAGE_ADDR", Tagged(TAG.STAGE_ADDR, (i - 1) \div 2))
                   ELSE Rq("STAGE_DATA", page[i \div 2])
<1>1. n \in Nat /\ n <= 68 BY SmallPage
<1>2. ASSUME NEW i \in 1 .. n PROVE E(i) \in S
  <2>1. i \in Nat /\ i <= 68 /\ i >= 1 BY <1>1
  <2>2. CASE i % 2 = 1
    <3>1. (i - 1) \div 2 \in Nat /\ (i - 1) \div 2 <= 255 BY <2>1
    <3>2. TAG.STAGE_ADDR = 165 BY DEF TAG
    <3>3. Tagged(TAG.STAGE_ADDR, (i - 1) \div 2) \in Word BY <3>1, <3>2, TaggedWord
    <3> QED BY <2>2, <3>3, RequestType, FieldNames
  <2>3. CASE i % 2 # 1
    <3>1. i \div 2 \in 1 .. PAGE_WORDS BY <2>1, <2>3, <1>1, SmallPage
    <3>2. page[i \div 2] \in Word BY <3>1
    <3> QED BY <2>3, <3>2, RequestType, FieldNames
  <2> QED BY <2>2, <2>3
<1>3. stage(page) = [i \in 1 .. n |-> E(i)] BY DEF stage
<1> HIDE DEF S, E, n
<1>4. stage(page) \in [1 .. n -> S] BY <1>2, <1>3
<1>5. stage(page) \in Seq(S) BY <1>1, <1>4
<1> QED BY <1>5 DEF S

LEMMA ProgramType ==
  /\ commit \in Seq(RequestsOf("write_page"))
  /\ \A new \in Byte : set_id(new) \in Seq(RequestsOf("set_id"))
<1>1. [Rq("COMMIT_CAL", MAGIC.COMMIT_CAL) EXCEPT !.window = TIMEOUT_PROG]
        \in RequestsOf("write_page")
  BY Magics, FieldNames, Times DEF Rq, RequestsOf, Request
<1>2. ASSUME NEW new \in Byte
      PROVE  [Rq("SET_ID", Tagged(TAG.SET_ID, new)) EXCEPT !.window = TIMEOUT_PROG]
               \in RequestsOf("set_id")
  <2>1. TAG.SET_ID = 94 BY DEF TAG
  <2>2. new \in Nat /\ new <= 255 BY DEF Byte
  <2>3. Tagged(TAG.SET_ID, new) \in Word BY <2>1, <2>2, TaggedWord
  <2> QED BY <2>3, FieldNames, Times DEF Rq, RequestsOf, Request
<1>3. commit \in Seq(RequestsOf("write_page")) BY <1>1, OneType DEF commit
<1>4. ASSUME NEW new \in Byte PROVE set_id(new) \in Seq(RequestsOf("set_id"))
  BY <1>2, OneType DEF set_id
<1> QED BY <1>3, <1>4

LEMMA PagesType ==
  ASSUME NEW op, op # "scan"
  PROVE  stored_page \in Seq(RequestsOf(op)) /\ running_page \in Seq(RequestsOf(op))
BY SmallPage, EachType, FieldNames DEF stored_page, running_page

LEMMA WordsType ==
  ASSUME NEW op, op # "scan"
  PROVE  /\ device_id \in Seq(RequestsOf(op)) /\ cal_status \in Seq(RequestsOf(op))
         /\ health \in Seq(RequestsOf(op)) /\ cfg_verify \in Seq(RequestsOf(op))
         /\ lock_again \in Seq(RequestsOf(op)) /\ reset \in Seq(RequestsOf(op))
         /\ clear_counters \in Seq(RequestsOf(op))
<1>1. device_id \in Seq(RequestsOf(op)) /\ cal_status \in Seq(RequestsOf(op))
  BY PlainType, FieldNames, Magics DEF device_id, cal_status
<1>2. health \in Seq(RequestsOf(op)) /\ cfg_verify \in Seq(RequestsOf(op))
  BY PlainType, FieldNames, Magics DEF health, cfg_verify
<1>3. lock_again \in Seq(RequestsOf(op)) /\ reset \in Seq(RequestsOf(op))
  BY PlainType, FieldNames, Magics DEF lock_again, reset
<1>4. clear_counters \in Seq(RequestsOf(op))
  BY PlainType, FieldNames, Magics DEF clear_counters
<1> QED BY <1>1, <1>2, <1>3, <1>4

LEMMA RecordsType ==
  ASSUME NEW op, op # "scan"
  PROVE  /\ angle \in Seq(RequestsOf(op)) /\ angle_raw \in Seq(RequestsOf(op))
         /\ counters \in Seq(RequestsOf(op)) /\ latched \in Seq(RequestsOf(op))
         /\ trim \in Seq(RequestsOf(op)) /\ sample_poll \in Seq(RequestsOf(op))
         /\ Len(sample_poll) >= 1
<1> DEFINE names == Records \cup {"GET_FW_VER", "GET_ENV", "GET_TRIM"}
<1>0. {"GET_ANGLE_RAW", "GET_ANGLE_COMP", "GET_ERRCNT", "GET_LATCHED", "GET_SAMPLE",
       "GET_TRIM"} \subseteq names BY DEF Records
<1>1. angle \in Seq(RequestsOf(op)) /\ angle_raw \in Seq(RequestsOf(op))
  BY <1>0, FieldsType DEF angle, angle_raw, _record
<1>2. counters \in Seq(RequestsOf(op)) /\ latched \in Seq(RequestsOf(op))
  BY <1>0, FieldsType DEF counters, latched, _record
<1>3. trim \in Seq(RequestsOf(op)) BY <1>0, FieldsType DEF trim
<1>4. sample_poll \in Seq(RequestsOf(op)) /\ Len(sample_poll) >= 1
  <2>1. Fields("GET_SAMPLE") \in Seq(RequestsOf(op)) BY <1>0, FieldsType
  <2>2. Len(Fields("GET_SAMPLE")) = FIELDS["GET_SAMPLE"] BY <1>0, FieldsType
  <2>3. FIELDS["GET_SAMPLE"] >= 1 BY <1>0, Fielded
  <2> QED BY <2>1, <2>2, <2>3 DEF sample_poll, _record
<1> QED BY <1>1, <1>2, <1>3, <1>4

LEMMA InfoType == cmd_info \in Seq(RequestsOf("info"))
<1> DEFINE S == RequestsOf("info")
           rtt == [Rq("PING", 0) EXCEPT !.window = TIMEOUT_RTT]
<1>1. rtt \in S BY FieldNames, Magics, Times DEF Rq, RequestsOf, Request
<1>2. measure_round_trip = [i \in 1 .. N_RTT |-> rtt] BY DEF measure_round_trip
<1>3. Fields("GET_FW_VER") \in Seq(S) /\ Fields("GET_ENV") \in Seq(S) BY FieldsType
<1>4. <<Rq("GET_PROTO_VER", 0)>> \in Seq(S) BY PlainType, FieldNames, Magics
<1>5. Rq("GET_DMAG", 0) \in S /\ Rq("GET_STAT", 0) \in S /\ Rq("GET_SAFETY", 0) \in S
  BY RequestType, FieldNames, Magics
<1>6. /\ device_id \in Seq(S) /\ health \in Seq(S) /\ cal_status \in Seq(S)
      /\ cfg_verify \in Seq(S) /\ trim \in Seq(S) /\ counters \in Seq(S)
      /\ sernum \in Seq(S) /\ angle \in Seq(S) /\ angle_raw \in Seq(S)
  BY WordsType, RecordsType, UnlockType
<1> HIDE DEF S, rtt
<1>7. measure_round_trip \in Seq(S)
  <2>1. N_RTT \in Nat BY ModuleAssumption
  <2>2. measure_round_trip \in [1 .. N_RTT -> S] BY <1>1, <1>2
  <2> QED BY <2>1, <2>2
<1>8. firmware \in Seq(S) BY <1>3, <1>4, JoinType DEF firmware
<1>9. environment \in Seq(S)
  <2> DEFINE three == <<Rq("GET_DMAG", 0), Rq("GET_STAT", 0), Rq("GET_SAFETY", 0)>>
  <2>1. three \in Seq(S) BY <1>5
  <2>2. environment = Fields("GET_ENV") \o three BY DEF environment
  <2> HIDE DEF three
  <2> QED BY <1>3, <2>1, <2>2, JoinType
<1>10. cmd_info \in Seq(S) BY <1>6, <1>7, <1>8, <1>9, JoinType DEF cmd_info
<1> QED BY <1>10 DEF S

LEMMA ScanType == scan \in Seq(RequestsOf("scan"))
<1> DEFINE S == RequestsOf("scan")
<1>1. ASSUME NEW id \in 1 .. 31 PROVE ping(id) \in S
  BY FieldNames, Magics, Times DEF ping, Rq, RequestsOf, Request
<1>2. ScanIds \in Seq(1 .. 31) BY ModuleAssumption
<1>3. Len(ScanIds) \in Nat /\ \A i \in 1 .. Len(ScanIds) : ScanIds[i] \in 1 .. 31
  <2> DEFINE ids == 1 .. 31
  <2>1. ScanIds \in Seq(ids) BY <1>2
  <2> HIDE DEF ids
  <2>2. Len(ScanIds) \in Nat /\ \A i \in 1 .. Len(ScanIds) : ScanIds[i] \in ids BY <2>1
  <2> QED BY <2>2 DEF ids
<1> HIDE DEF S
<1>4. scan \in [1 .. Len(ScanIds) -> S] BY <1>1, <1>3 DEF scan
<1>5. scan \in Seq(S) BY <1>3, <1>4
<1> QED BY <1>5 DEF S

LEMMA PlanType ==
  ASSUME NEW c \in Commands
  PROVE  Plan(c) \in Seq(RequestsOf(c.op))
<1> DEFINE S == RequestsOf(c.op)
<1>1. c.op \in Ops BY CommandAssumption
<1>2. CASE c.op = "listen"
  <2>1. Plan(c) = <<>> BY <1>2 DEF Plan
  <2> HIDE DEF S
  <2> QED BY <2>1 DEF S
<1>3. CASE c.op = "scan"
  <2>1. Plan(c) = scan BY <1>3 DEF Plan, cmd_scan
  <2> QED BY <1>3, <2>1, ScanType
<1>4. CASE c.op = "info"
  <2>1. Plan(c) = cmd_info BY <1>4 DEF Plan
  <2> QED BY <1>4, <2>1, InfoType
<1>5. CASE c.op = "page"
  <2>1. Plan(c) = IF c.running THEN running_page ELSE stored_page
    BY <1>5 DEF Plan, cmd_page
  <2> QED BY <1>5, <2>1, PagesType
<1>6. CASE c.op = "sample"
  <2>1. Plan(c) = <<Rq("SAMPLE_START", Tagged(TAG.SAMPLE_START, c.e))>>
    BY <1>6 DEF Plan, cmd_sample, sample_start
  <2>2. c.e \in Nat /\ c.e <= 255
    <3>1. c.e \in Byte BY <1>6, CommandAssumption
    <3>2. \A n \in Byte : n \in Nat /\ n <= 255 BY DEF Byte
    <3> QED BY <3>1, <3>2
  <2>3. TAG.SAMPLE_START = 90 BY DEF TAG
  <2>4. Tagged(TAG.SAMPLE_START, c.e) \in Word BY <2>2, <2>3, TaggedWord
  <2> QED BY <1>6, <2>1, <2>4, PlainType, FieldNames
<1>7. CASE c.op = "set_id"
  <2>1. Plan(c) = cmd_set_id(c) BY <1>7 DEF Plan
  <2>2. set_id(c.new_id) \in Seq(S) BY <1>7, CommandAssumption, ProgramType
  <2>3. unlock \in Seq(S) /\ device_id \in Seq(S) /\ cal_status \in Seq(S)
    BY <1>7, UnlockType, WordsType
  <2> HIDE DEF S
  <2>4. cmd_set_id(c) \in Seq(S) BY <2>2, <2>3, JoinType DEF cmd_set_id
  <2> QED BY <2>1, <2>4 DEF S
<1>8. CASE c.op = "write_page"
  <2>1. Plan(c) = write_page(c.page) BY <1>8 DEF Plan
  <2>2. stage(c.page) \in Seq(S) BY <1>8, CommandAssumption, StageType
  <2>3. unlock \in Seq(S) /\ cal_status \in Seq(S) /\ stored_page \in Seq(S)
    BY <1>8, UnlockType, WordsType, PagesType
  <2>4. commit \in Seq(S) BY <1>8, ProgramType
  <2> HIDE DEF S
  <2>5. write_page(c.page) \in Seq(S) BY <2>2, <2>3, <2>4, JoinType DEF write_page
  <2> QED BY <2>1, <2>5 DEF S
<1>9. CASE c.op = "clear"
  <2>1. Plan(c) = clear_counters \o counters BY <1>9 DEF Plan, cmd_clear
  <2> QED BY <1>9, <2>1, WordsType, RecordsType, JoinType
<1>10. CASE c.op = "latched"
  <2>1. Plan(c) = latched BY <1>10 DEF Plan
  <2> QED BY <1>10, <2>1, RecordsType
<1>11. CASE c.op = "lock"
  <2>1. Plan(c) = unlock \o lock_again BY <1>11 DEF Plan
  <2> QED BY <1>11, <2>1, UnlockType, WordsType, JoinType
<1>12. CASE c.op = "reset"
  <2>1. Plan(c) = unlock \o reset BY <1>12 DEF Plan
  <2> QED BY <1>12, <2>1, UnlockType, WordsType, JoinType
<1> QED
  BY <1>1, <1>2, <1>3, <1>4, <1>5, <1>6, <1>7, <1>8, <1>9, <1>10, <1>11, <1>12 DEF Ops

----------------------------------------------------------------------------
(* Frames and time                                                         *)

\* Whatever a frame carries, its header says whose it is.
LEMMA FrameHead ==
  ASSUME NEW id \in 0 .. 31, NEW sub, NEW arg
  PROVE  Frame(id, sub, arg).id = id /\ Frame(id, sub, arg).cmd = 3
<1> DEFINE data == sub * 65536 + arg
           b == encode_frame(id, 3, data)
<1>1. b[1] = 128 + id * 4 + 3 BY DEF encode_frame
<1>2. (128 + id * 4 + 3) % 4 = 3 OBVIOUS
<1>3. ((128 + id * 4 + 3) % 128) \div 4 = id
  <2>1. id \in Nat /\ id <= 31 OBVIOUS
  <2>2. (128 + id * 4 + 3) % 128 = id * 4 + 3 BY <2>1
  <2> QED BY <2>1, <2>2
<1>4. Frame(id, sub, arg) = decode_frame(b) BY DEF Frame, encode_cmd3
<1> HIDE DEF b
<1> QED BY <1>1, <1>2, <1>3, <1>4 DEF decode_frame

LEMMA ReplyFrame ==
  ASSUME NEW sub, NEW arg
  PROVE  IsReply(Frame(0, sub, arg))
<1>1. 0 \in 0 .. 31 OBVIOUS
<1> QED BY <1>1, FrameHead DEF IsReply

LEMMA RequestFrame ==
  ASSUME NEW id \in 0 .. 31, NEW sub \in 0 .. 31, NEW arg \in Word
  PROVE  /\ decode_cmd3(Frame(id, sub, arg).data).sub = sub
         /\ decode_cmd3(Frame(id, sub, arg).data).arg = arg
<1>1. decode_cmd3(decode_frame(encode_cmd3(id, sub, arg)).data) = [sub |-> sub, arg |-> arg]
  BY Cmd3RoundTrip
<1> QED BY <1>1 DEF Frame

LEMMA CascadeIsNoReply == CascadeFrame.cmd = 2 /\ ~IsReply(CascadeFrame)
<1> DEFINE b == encode_frame(5, 2, 0)
<1>1. b[1] = 150 BY DEF encode_frame
<1> HIDE DEF b
<1>2. decode_frame(b).cmd = 2 BY <1>1 DEF decode_frame
<1>3. CascadeFrame.cmd = 2 BY <1>2 DEF CascadeFrame, b
<1> QED BY <1>3 DEF IsReply

\* The frames whose latency is over are the first ones.
LEMMA FirstLanded ==
  ASSUME AirInv
  PROVE  /\ Landed \in Nat /\ Landed <= Len(air)
         /\ \A i \in 1 .. Len(air) : i <= Landed <=> air[i].due = 1
<1> DEFINE L == Len(air)
           due(i) == air[i].due
<1>1. L \in Nat /\ \A i \in 1 .. L : due(i) \in Nat /\ due(i) >= 1
  BY DEF AirInv, IsSequence
<1>2. \A i, j \in 1 .. L : i <= j => due(i) <= due(j) BY DEF AirInv
<1> HIDE DEF L, due
<1> DEFINE T == {n \in Nat : n <= L /\ \A i \in 1 .. L : i > n => due(i) # 1}
<1>3. L \in T BY <1>1
<1>4. T \in SUBSET Nat /\ T # {} BY <1>3
<1> HIDE DEF T
<1>5. PICK n \in T : \A m \in T : n <= m BY <1>4, Least
<1>6. n \in Nat /\ n <= L /\ \A i \in 1 .. L : i > n => due(i) # 1 BY <1>5 DEF T
<1>7. ASSUME NEW i \in 1 .. L, i <= n PROVE due(i) = 1
  <2>1. i \in Nat /\ n >= 1 /\ n \in 1 .. L BY <1>1, <1>6, <1>7
  <2>2. n - 1 \in Nat /\ n - 1 <= L BY <1>1, <1>6, <2>1
  <2>3. n - 1 \notin T
    <3>1. ~(n <= n - 1) BY <1>6
    <3> QED BY <1>5, <3>1
  <2>4. PICK j \in 1 .. L : j > n - 1 /\ due(j) = 1 BY <2>2, <2>3 DEF T
  <2>5. j = n
    <3>1. ~(j > n) BY <1>6, <2>4
    <3> QED BY <2>4, <3>1, <1>6, <1>1
  <2>6. due(i) <= due(n) BY <1>2, <1>7, <2>1
  <2> QED BY <2>4, <2>5, <2>6, <1>1, <2>1
<1>8. n \in 0 .. Len(air) BY <1>1, <1>6 DEF L
<1>9. \A i \in 1 .. Len(air) : i <= n <=> air[i].due = 1
  <2> SUFFICES ASSUME NEW i \in 1 .. L PROVE i <= n <=> due(i) = 1 BY DEF L, due
  <2> QED BY <1>1, <1>6, <1>7
<1>10. /\ Landed \in 0 .. Len(air)
       /\ \A i \in 1 .. Len(air) : i <= Landed <=> air[i].due = 1
  BY <1>8, <1>9, Zenon DEF Landed
<1> QED BY <1>10, <1>1 DEF L

LEMMA ArrivedFrames ==
  ASSUME AirInv
  PROVE  /\ IsSequence(Arrived) /\ Len(Arrived) = Landed
         /\ \A i \in 1 .. Landed : Arrived[i] = air[i].frame
<1>1. Landed \in Nat BY FirstLanded
<1>2. Arrived = [i \in 1 .. Landed |-> air[i].frame] BY DEF Arrived
<1>3. \A i \in 1 .. Landed : Arrived[i] = air[i].frame BY <1>2, Zenon
<1> HIDE DEF Landed
<1>4. Arrived = [i \in 1 .. Landed |-> Arrived[i]] BY <1>2
<1> QED BY <1>1, <1>3, <1>4, Listed

LEMMA FramesOnTheWay ==
  ASSUME AirInv
  PROVE  /\ IsSequence(OnTheWay) /\ Len(OnTheWay) = Len(air) - Landed
         /\ \A i \in 1 .. Len(OnTheWay) :
              /\ Landed + i \in 1 .. Len(air)
              /\ OnTheWay[i].frame = air[Landed + i].frame
              /\ OnTheWay[i].due = air[Landed + i].due - 1
              /\ air[Landed + i].due >= 2
              /\ DOMAIN OnTheWay[i] = {"frame", "due"}
<1> DEFINE n == Len(air) - Landed
           e(i) == [air[Landed + i] EXCEPT !.due = @ - 1]
<1>1. /\ Landed \in Nat /\ Len(air) \in Nat /\ Landed <= Len(air)
      /\ \A i \in 1 .. Len(air) : i <= Landed <=> air[i].due = 1
  BY FirstLanded DEF AirInv, IsSequence
<1> HIDE DEF Landed
<1>2. n \in Nat BY <1>1
<1>3. OnTheWay = [i \in 1 .. n |-> e(i)] BY DEF OnTheWay
<1> HIDE DEF e, n
<1>4. OnTheWay = [i \in 1 .. n |-> OnTheWay[i]] BY <1>3
<1>5. IsSequence(OnTheWay) /\ Len(OnTheWay) = n BY <1>2, <1>4, Listed
<1>6. ASSUME NEW i \in 1 .. n
      PROVE  /\ Landed + i \in 1 .. Len(air)
             /\ OnTheWay[i].frame = air[Landed + i].frame
             /\ OnTheWay[i].due = air[Landed + i].due - 1
             /\ air[Landed + i].due >= 2
             /\ DOMAIN OnTheWay[i] = {"frame", "due"}
  <2>1. Landed + i \in 1 .. Len(air) /\ ~(Landed + i <= Landed) BY <1>1, <1>2 DEF n
  <2>2. /\ DOMAIN air[Landed + i] = {"frame", "due"}
        /\ air[Landed + i].due \in Nat /\ air[Landed + i].due >= 1 BY <2>1 DEF AirInv
  <2>3. air[Landed + i].due # 1 BY <2>1, <1>1
  <2>4. OnTheWay[i] = [air[Landed + i] EXCEPT !.due = @ - 1] BY <1>3 DEF e
  <2>5. /\ OnTheWay[i].frame = air[Landed + i].frame
        /\ OnTheWay[i].due = air[Landed + i].due - 1
        /\ DOMAIN OnTheWay[i] = {"frame", "due"} BY <2>2, <2>4
  <2> QED BY <2>1, <2>2, <2>3, <2>5
<1> QED BY <1>5, <1>6 DEF n

\* The frame that settles a request is a reply.
LEMMA SettlerIsReply ==
  ASSUME NEW frames, IsSequence(frames), NEW name
  PROVE  /\ Settler(frames, name) \in Nat /\ Settler(frames, name) <= Len(frames)
         /\ Settler(frames, name) # 0 =>
              /\ Settler(frames, name) \in 1 .. Len(frames)
              /\ Settles(frames[Settler(frames, name)], name)
<1> DEFINE hits == {i \in 1 .. Len(frames) : Settles(frames[i], name)}
<1>1. Len(frames) \in Nat BY DEF IsSequence
<1>2. hits \in SUBSET Nat OBVIOUS
<1>3. CASE hits = {}
  <2>1. Settler(frames, name) = 0 BY <1>3 DEF Settler
  <2> QED BY <1>1, <2>1
<1>4. CASE hits # {}
  <2>1. \E i \in hits : \A j \in hits : i <= j BY <1>2, <1>4, Least
  <2>2. Settler(frames, name) = CHOOSE i \in hits : \A j \in hits : i <= j
    BY <1>4 DEF Settler
  <2> HIDE DEF hits
  <2>3. Settler(frames, name) \in hits BY <2>1, <2>2
  <2> QED BY <1>1, <2>3 DEF hits
<1> QED BY <1>3, <1>4

LEMMA RestFrames ==
  ASSUME NEW s, IsSequence(s), NEW n \in Nat, n <= Len(s)
  PROVE  /\ IsSequence(Rest(s, n)) /\ Len(Rest(s, n)) = Len(s) - n
         /\ \A i \in 1 .. Len(Rest(s, n)) :
              n + i \in 1 .. Len(s) /\ Rest(s, n)[i] = s[n + i]
<1> DEFINE S == {s[i] : i \in 1 .. Len(s)}
<1>1. s \in Seq(S) /\ Len(s) \in Nat BY HoldsItsElements DEF IsSequence
<1> HIDE DEF S
<1> DEFINE r == SubSeq(s, n + 1, Len(s))
<1>2. r \in Seq(S) /\ Len(r) = Len(s) - n BY <1>1
<1>3. ASSUME NEW i \in 1 .. Len(s) - n PROVE n + i \in 1 .. Len(s) /\ r[i] = s[n + i]
  BY <1>1
<1>4. Rest(s, n) = r BY DEF Rest
<1> HIDE DEF r
<1> QED BY <1>2, <1>3, <1>4, SequenceOf

LEMMA FrontFrames ==
  ASSUME NEW s, IsSequence(s), Len(s) > 0
  PROVE  LET r == SubSeq(s, 1, Len(s) - 1)
         IN  /\ IsSequence(r) /\ Len(r) = Len(s) - 1
             /\ \A i \in 1 .. Len(r) : i \in 1 .. Len(s) /\ r[i] = s[i]
<1> DEFINE S == {s[i] : i \in 1 .. Len(s)}
<1>1. s \in Seq(S) /\ Len(s) \in Nat BY HoldsItsElements DEF IsSequence
<1> HIDE DEF S
<1> DEFINE r == SubSeq(s, 1, Len(s) - 1)
<1>2. r \in Seq(S) /\ Len(r) = Len(s) - 1
  <2>1. 1 \in Int /\ Len(s) - 1 \in Int /\ Len(s) - 1 >= 0 BY <1>1
  <2>2. \A i \in 1 .. Len(s) - 1 : s[i] \in S BY <1>1
  <2>3. r \in Seq(S) /\ Len(r) = IF 1 <= Len(s) - 1 THEN Len(s) - 1 - 1 + 1 ELSE 0
    BY <2>1, <2>2, SubSeqProperties
  <2> HIDE DEF r
  <2>4. \A k, l \in Nat : l > 0 /\ k = (IF 1 <= l - 1 THEN l - 1 - 1 + 1 ELSE 0) => k = l - 1
    OBVIOUS
  <2>5. Len(r) \in Nat BY <2>3
  <2> QED BY <1>1, <2>3, <2>4, <2>5
<1>3. ASSUME NEW i \in 1 .. Len(s) - 1 PROVE i \in 1 .. Len(s) /\ r[i] = s[i] BY <1>1
<1> HIDE DEF r
<1>4. IsSequence(r) /\ Len(r) = Len(s) - 1
      /\ \A i \in 1 .. Len(r) : i \in 1 .. Len(s) /\ r[i] = s[i]
  BY <1>2, <1>3, SequenceOf
<1> QED BY <1>4 DEF r

----------------------------------------------------------------------------
(* What happens to the frames on their way                                 *)

\* A tick of time.
LEMMA TimePasses ==
  ASSUME AirInv, Passes
  PROVE  /\ AirInv' /\ req = NONE
         /\ \A i \in 1 .. Len(air') :
              /\ Landed + i \in 1 .. Len(air) /\ air[Landed + i].due >= 2
              /\ air'[i].due = air[Landed + i].due - 1
              /\ ReplyAt(i)' <=> ReplyAt(Landed + i)
<1> DEFINE m == Landed
           w == OnTheWay
<1>1. air' = w /\ req = NONE BY DEF Passes
<1>2. m \in Nat /\ m <= Len(air) /\ Len(air) \in Nat
  BY FirstLanded DEF AirInv, IsSequence
<1>3. /\ IsSequence(w) /\ Len(w) = Len(air) - m
      /\ \A i \in 1 .. Len(w) :
           /\ m + i \in 1 .. Len(air)
           /\ w[i].frame = air[m + i].frame
           /\ w[i].due = air[m + i].due - 1
           /\ air[m + i].due >= 2
           /\ DOMAIN w[i] = {"frame", "due"} BY FramesOnTheWay
<1> HIDE DEF w, m
<1>4. ASSUME NEW i \in 1 .. Len(w)
      PROVE  /\ w[i].due \in Nat /\ w[i].due >= 1 /\ w[i].due <= MaxLatency
             /\ w[i].frame.cmd = 3 => w[i].frame.id \in 0 .. 31
             /\ w[i].frame.cmd = 3 <=> ReplyAt(m + i)
  <2>1. /\ m + i \in 1 .. Len(air) /\ w[i].frame = air[m + i].frame
        /\ w[i].due = air[m + i].due - 1 /\ air[m + i].due >= 2 BY <1>3
  <2>2. /\ air[m + i].due \in Nat /\ air[m + i].due <= MaxLatency
        /\ ReplyAt(m + i) => air[m + i].frame.id \in 0 .. 31 BY <2>1 DEF AirInv
  <2>3. w[i].due \in Nat /\ w[i].due >= 1 /\ w[i].due <= MaxLatency BY <2>1, <2>2, Times
  <2> QED BY <2>1, <2>2, <2>3 DEF ReplyAt
<1>5. ASSUME NEW i \in 1 .. Len(w), NEW j \in 1 .. Len(w), i <= j
      PROVE  w[i].due <= w[j].due
  <2>1. m + i \in 1 .. Len(air) /\ m + j \in 1 .. Len(air) BY <1>3
  <2>2. m + i <= m + j BY <1>2, <1>3, <1>5
  <2>3. air[m + i].due <= air[m + j].due BY <2>1, <2>2 DEF AirInv
  <2>4. air[m + i].due \in Nat /\ air[m + j].due \in Nat BY <2>1 DEF AirInv
  <2> QED BY <1>3, <2>3, <2>4
<1>6. AirInv'
  <2>1. IsSequence(air') BY <1>1, <1>3
  <2>2. \A i \in 1 .. Len(air') :
          /\ DOMAIN air'[i] = {"frame", "due"}
          /\ air'[i].due \in Nat /\ air'[i].due >= 1 /\ air'[i].due <= MaxLatency
          /\ (air'[i].frame.cmd = 3) => air'[i].frame.id \in 0 .. 31 BY <1>1, <1>3, <1>4
  <2>3. \A i, j \in 1 .. Len(air') : i <= j => air'[i].due <= air'[j].due BY <1>1, <1>5
  <2> QED BY <2>1, <2>2, <2>3 DEF AirInv, ReplyAt
<1>7. \A i \in 1 .. Len(air') :
        /\ m + i \in 1 .. Len(air) /\ air[m + i].due >= 2
        /\ air'[i].due = air[m + i].due - 1
        /\ ReplyAt(i)' <=> ReplyAt(m + i) BY <1>1, <1>3, <1>4 DEF ReplyAt
<1> QED BY <1>1, <1>6, <1>7 DEF m

\* A frame behind the others.
LEMMA FrameAdded ==
  ASSUME AirInv, NEW f, (f.cmd = 3) => f.id \in 0 .. 31,
         NEW d \in Nat, d >= 1, d <= MaxLatency,
         air # <<>> => d >= air[Len(air)].due,
         air' = Append(air, [frame |-> f, due |-> d])
  PROVE  /\ AirInv'
         /\ Len(air) \in Nat /\ Len(air') = Len(air) + 1
         /\ air'[Len(air) + 1].due = d /\ air'[Len(air) + 1].frame = f
         /\ \A i \in 1 .. Len(air) : air'[i] = air[i] /\ (ReplyAt(i)' <=> ReplyAt(i))
<1> DEFINE n == Len(air)
           e == [frame |-> f, due |-> d]
           longer == Append(air, e)
<1>1. n \in Nat BY DEF AirInv, IsSequence
<1>2. /\ IsSequence(longer) /\ Len(longer) = n + 1 /\ longer[n + 1] = e
      /\ \A i \in 1 .. n : longer[i] = air[i] BY Longer DEF AirInv
<1>3. e.frame = f /\ e.due = d /\ DOMAIN e = {"frame", "due"} OBVIOUS
<1>4. air' = longer OBVIOUS
<1> HIDE DEF longer, e
<1>5. \A i \in 1 .. n : ReplyAt(i)' <=> ReplyAt(i) BY <1>2, <1>4 DEF ReplyAt
<1>6. air'[n + 1].frame = f BY <1>2, <1>3, <1>4
<1>7. \A i \in 1 .. n : air[i].due <= d
  <2> TAKE i \in 1 .. n
  <2>1. n \in 1 .. n /\ i <= n BY <1>1
  <2>2. air # <<>> BY <2>1, <1>1, Nothing
  <2>3. air[i].due <= air[n].due /\ air[i].due \in Nat /\ air[n].due \in Nat
    BY <2>1 DEF AirInv
  <2> QED BY <2>2, <2>3
<1>8. AirInv'
  <2>1. IsSequence(air') BY <1>2, <1>4
  <2>2. ASSUME NEW i \in 1 .. n + 1
        PROVE  /\ DOMAIN longer[i] = {"frame", "due"}
               /\ longer[i].due \in Nat /\ longer[i].due >= 1 /\ longer[i].due <= MaxLatency
               /\ (longer[i].frame.cmd = 3) => longer[i].frame.id \in 0 .. 31
    <3>1. CASE i \in 1 .. n
      <4>1. longer[i] = air[i] BY <1>2, <3>1
      <4> QED BY <3>1, <4>1 DEF AirInv, ReplyAt
    <3>2. CASE i = n + 1 BY <1>2, <1>3, <3>2
    <3> QED BY <1>1, <3>1, <3>2
  <2>3. ASSUME NEW i \in 1 .. n + 1, NEW j \in 1 .. n + 1, i <= j
        PROVE  longer[i].due <= longer[j].due
    <3>1. CASE j \in 1 .. n
      <4>1. i \in 1 .. n BY <1>1, <2>3, <3>1
      <4> QED BY <1>2, <2>3, <3>1, <4>1 DEF AirInv
    <3>2. CASE j = n + 1
      <4>1. CASE i \in 1 .. n BY <1>2, <1>3, <1>7, <3>2, <4>1
      <4>2. CASE i = n + 1 BY <1>2, <1>3, <3>2, <4>2
      <4> QED BY <1>1, <4>1, <4>2
    <3> QED BY <1>1, <3>1, <3>2
  <2> QED BY <1>2, <1>4, <2>1, <2>2, <2>3 DEF AirInv, ReplyAt
<1> QED BY <1>1, <1>2, <1>3, <1>4, <1>5, <1>6, <1>8

----------------------------------------------------------------------------
(* Steps of the module and of the bus                                      *)

\* A step in which the tool does nothing.
Still == UNCHANGED <<toolVars, linkVars>>

\* The module answers the request on the wire; its ID changes only if the
\* request was to program the page.
Answered ==
  /\ Served /\ Still /\ req' = NONE
  /\ trouble \subseteq trouble'
  /\ did' = did \/ request.sub \in {28, 29}
  /\ \E d \in 1 .. MaxLatency : \E f :
       /\ IsReply(f)
       /\ air # <<>> => d >= air[Len(air)].due
       /\ air' = Append(air, [frame |-> f, due |-> d])

LEMMA AnswerIsReply ==
  ASSUME NEW met, trouble \subseteq met, NEW sub, NEW arg, AnswerAfter(met, sub, arg)
  PROVE  /\ req' = NONE /\ trouble \subseteq trouble'
         /\ \E d \in 1 .. MaxLatency : \E f :
              /\ IsReply(f)
              /\ air # <<>> => d >= air[Len(air)].due
              /\ air' = Append(air, [frame |-> f, due |-> d])
<1>1. PICK d \in 1 .. MaxLatency :
        /\ air # <<>> => d >= air[Len(air)].due
        /\ air' = Append(air, [frame |-> Frame(0, sub, arg), due |-> d])
        /\ trouble' = IF d > TIMEOUT_REPLY THEN met \cup {"late"} ELSE met
  BY DEF AnswerAfter
<1>2. req' = NONE BY DEF AnswerAfter
<1>3. IsReply(Frame(0, sub, arg)) BY ReplyFrame
<1>4. trouble \subseteq trouble' BY <1>1
<1> QED BY <1>1, <1>2, <1>3, <1>4

LEMMA ModuleAnswers ==
  ASSUME Rejected \/ Read \/ SampleStart \/ Unlock1 \/ Unlock2 \/ StageAddr \/ StageData
           \/ Program \/ ProgramFails \/ Lock
  PROVE  Answered
<1>1. CASE Rejected
  <2>1. Served /\ Still /\ did' = did BY <1>1 DEF Rejected, Still
  <2>2. Answer(SUB.NAK, Tagged(request.sub, Refusal(request.sub, request.arg)))
    BY <1>1 DEF Rejected
  <2> QED BY <2>1, <2>2, AnswerIsReply DEF Answer, Answered
<1>2. CASE Read
  <2>1. Served /\ Still /\ did' = did BY <1>2 DEF Read, Still
  <2>2. Answer(request.sub, ReadWord(request.sub, request.arg)) BY <1>2 DEF Read
  <2> QED BY <2>1, <2>2, AnswerIsReply DEF Answer, Answered
<1>3. CASE SampleStart
  <2>1. Served /\ Still /\ did' = did /\ Answer(SUB.SAMPLE_START, 0)
    BY <1>3 DEF SampleStart, Still, ServedAs
  <2> QED BY <2>1, AnswerIsReply DEF Answer, Answered
<1>4. CASE Unlock1
  <2>1. Served /\ Still /\ did' = did /\ Answer(SUB.UNLOCK_1, 0)
    BY <1>4 DEF Unlock1, Still, ServedAs
  <2> QED BY <2>1, AnswerIsReply DEF Answer, Answered
<1>5. CASE Unlock2
  <2>1. Served /\ Still /\ did' = did /\ Answer(SUB.UNLOCK_2, 0)
    BY <1>5 DEF Unlock2, Still, ServedAs
  <2> QED BY <2>1, AnswerIsReply DEF Answer, Answered
<1>6. CASE StageAddr
  <2>1. Served /\ Still /\ did' = did /\ Answer(SUB.STAGE_ADDR, request.arg % 256)
    BY <1>6 DEF StageAddr, Still, ServedAs
  <2> QED BY <2>1, AnswerIsReply DEF Answer, Answered
<1>7. CASE StageData
  <2>1. Served /\ Still /\ did' = did /\ Answer(SUB.STAGE_DATA, index + 1)
    BY <1>7 DEF StageData, Still, ServedAs
  <2> QED BY <2>1, AnswerIsReply DEF Answer, Answered
<1>8. CASE Program
  <2>1. Served /\ Still /\ request.sub \in {28, 29} /\ Answer(request.sub, did')
    BY <1>8, SubNumbers DEF Program, Still, ServedAs, Writes
  <2> QED BY <2>1, AnswerIsReply DEF Answer, Answered
<1>9. CASE ProgramFails
  <2>1. Served /\ Still /\ did' = did BY <1>9 DEF ProgramFails, Still, ServedAs, Writes
  <2>2. AnswerAfter(trouble \cup {"write"}, SUB.NAK,
                    Tagged(request.sub, NAK_REASON.WRITE_FAIL)) BY <1>9 DEF ProgramFails
  <2>3. trouble \subseteq trouble \cup {"write"} OBVIOUS
  <2> QED BY <2>1, <2>2, <2>3, AnswerIsReply DEF Answered
<1>10. CASE Lock
  <2>1. Served /\ Still /\ did' = did /\ Answer(SUB.LOCK, 0)
    BY <1>10 DEF Lock, Still, ServedAs
  <2> QED BY <2>1, AnswerIsReply DEF Answer, Answered
<1> QED
  BY <1>1, <1>2, <1>3, <1>4, <1>5, <1>6, <1>7, <1>8, <1>9, <1>10

LEMMA ToolStill ==
  ASSUME ToolInv, Still
  PROVE  ToolInv'
BY DEF ToolInv, Still, toolVars, window

LEMMA HeadIsRequest ==
  ASSUME ToolInv, phase \in {"send", "wait", "quiet", "sleep"}
  PROVE  /\ Head(todo) \in RequestsOf(cmd.op)
         /\ Tail(todo) \in Seq(RequestsOf(cmd.op)) /\ Len(Tail(todo)) = Len(todo) - 1
         /\ Len(todo) \in Nat
         /\ window(Head(todo)) \in Nat /\ window(Head(todo)) >= TIMEOUT_REPLY
         /\ window(Head(todo)) >= 1
<1>1. todo \in Seq(RequestsOf(cmd.op)) /\ todo # <<>> /\ roundtrip \in Nat
  BY DEF ToolInv
<1> DEFINE S == RequestsOf(cmd.op)
<1>2. Head(todo) \in S /\ Tail(todo) \in Seq(S) /\ Len(Tail(todo)) = Len(todo) - 1
  <2> HIDE DEF S
  <2>1. todo \in Seq(S) BY <1>1 DEF S
  <2> QED BY <1>1, <2>1, HeadTailProperties
<1>3. Len(todo) \in Nat BY <1>1
<1>4. Head(todo).window \in Nat /\ Head(todo).window >= TIMEOUT_REPLY
  BY <1>2 DEF RequestsOf, Request
<1> QED BY <1>1, <1>2, <1>3, <1>4, Times DEF window

LEMMA AnsweredKeeps ==
  ASSUME IInv, Answered
  PROVE  IInv'
<1> USE DEF IInv
<1>1. Served /\ Still /\ req' = NONE /\ trouble \subseteq trouble' /\ req # NONE
  BY DEF Answered, Served
<1>2. /\ phase' = phase /\ todo' = todo /\ left' = left /\ cmd' = cmd /\ found' = found
      /\ roundtrip' = roundtrip /\ rx' = rx /\ inbox' = inbox
  BY <1>1 DEF Still, toolVars, linkVars
<1>3. PICK d \in 1 .. MaxLatency : \E f :
        /\ IsReply(f)
        /\ air # <<>> => d >= air[Len(air)].due
        /\ air' = Append(air, [frame |-> f, due |-> d]) BY DEF Answered
<1>4. PICK f :
        /\ IsReply(f)
        /\ air # <<>> => d >= air[Len(air)].due
        /\ air' = Append(air, [frame |-> f, due |-> d]) BY <1>3
<1> DEFINE n == Len(air)
<1>5. /\ AirInv' /\ n \in Nat /\ Len(air') = n + 1 /\ air'[n + 1].due = d
      /\ \A i \in 1 .. n : air'[i] = air[i] /\ (ReplyAt(i)' <=> ReplyAt(i))
  <2>1. d \in Nat /\ d >= 1 /\ d <= MaxLatency BY Times
  <2>2. f.id \in 0 .. 31 BY <1>4 DEF IsReply
  <2> QED BY <1>4, <2>1, <2>2, FrameAdded
<1>6. ToolInv' BY <1>1, ToolStill
<1>7. RequestInv' BY <1>1 DEF RequestInv
<1>8. /\ \/ phase = "wait" /\ left = window(Head(todo)) /\ NoReply
         \/ phase = "end" /\ cmd.op # "scan"
      /\ "misread" \in trouble \/ AsAsked BY <1>1 DEF RequestInv, Lateness
<1>9. Lateness'
  <2>1. IsSequence(rx') /\ IsSequence(inbox') /\ (phase' # "end" => Silent(rx'))
        /\ (phase' = "wait" => Silent(inbox')) BY <1>2 DEF Lateness
  <2>2. CASE phase = "end" BY <1>2, <2>1, <2>2 DEF Lateness, Silent
  <2>3. CASE phase = "wait" /\ left = window(Head(todo)) /\ NoReply
    <3>1. \A i \in 1 .. n : ~ReplyAt(i)' BY <1>5, <2>3 DEF NoReply
    <3>2. \A i \in 1 .. Len(air') : ReplyAt(i)' => i = n + 1 BY <1>5, <3>1
    <3>3. d <= left + window(Head(todo)) /\ window(Head(todo))' = window(Head(todo))
      <4>1. window(Head(todo)) \in Nat /\ window(Head(todo)) >= TIMEOUT_REPLY
        BY <2>3, HeadIsRequest
      <4>2. window(Head(todo))' = window(Head(todo)) BY <1>2 DEF window
      <4> QED BY <2>3, <4>1, <4>2, Times
    <3>4. \A i \in 1 .. Len(air') :
            ReplyAt(i)' => air'[i].due <= left' + window(Head(todo))'
      BY <1>2, <1>5, <3>2, <3>3
    <3>5. \A i, j \in 1 .. Len(air') : ReplyAt(i)' /\ ReplyAt(j)' => i = j BY <3>2
    <3>6. phase' = "wait" BY <1>2, <2>3
    <3> QED BY <1>1, <2>1, <3>4, <3>5, <3>6 DEF Lateness, Silent
  <2> QED BY <1>8, <2>2, <2>3
<1>10. ScanInv'
  <2>1. cmd.op = "scan" /\ "misread" \notin trouble' =>
          phase = "wait" /\ did' = did /\ Head(todo).to = did
    <3> SUFFICES ASSUME cmd.op = "scan", "misread" \notin trouble'
                 PROVE  phase = "wait" /\ did' = did /\ Head(todo).to = did
      OBVIOUS
    <3>1. phase = "wait" /\ request.sub = SUB[Head(todo).name] /\ req.id = Target(Head(todo))
      BY <1>1, <1>8 DEF AsAsked
    <3>2. Head(todo).name = "PING" /\ Head(todo).to \in 1 .. 31
      BY <3>1, HeadIsRequest DEF RequestsOf
    <3>3. request.sub = 1 BY <3>1, <3>2, SubNumbers
    <3>4. did' = did BY <3>3 DEF Answered
    <3>5. Target(Head(todo)) = Head(todo).to BY <3>2 DEF Target, SELF
    <3>6. req.id = did BY <1>1 DEF Served
    <3> QED BY <3>1, <3>4, <3>5, <3>6
  <2>2. /\ "restart" \notin trouble' => "restart" \notin trouble
        /\ "misread" \notin trouble' => "misread" \notin trouble BY <1>1
  <2> QED BY <1>2, <2>1, <2>2 DEF ScanInv, FoundIsPresent
<1> QED BY <1>5, <1>6, <1>7, <1>9, <1>10

\* The request goes unanswered, or nothing of it changes: nothing new is on its
\* way, and a new ID is that of a restarted module or of a garbled request.
LEMMA StillKeeps ==
  ASSUME IInv, Still, air' = air, req' \in {req, NONE}, trouble \subseteq trouble',
         did' = did \/ "restart" \in trouble' \/ "misread" \in trouble' \/ cmd.op # "scan"
  PROVE  IInv'
<1> USE DEF IInv
<1>1. /\ phase' = phase /\ todo' = todo /\ left' = left /\ cmd' = cmd /\ found' = found
      /\ roundtrip' = roundtrip /\ rx' = rx /\ inbox' = inbox /\ mid' = mid
  BY DEF Still, toolVars, linkVars
<1>2. AirInv' BY DEF AirInv, ReplyAt
<1>3. ToolInv' BY ToolStill
<1>4. window(Head(todo))' = window(Head(todo)) /\ NoReply' = NoReply
  BY <1>1 DEF window, NoReply, ReplyAt
<1>5. RequestInv'
  <2>1. CASE req' = NONE BY <2>1 DEF RequestInv
  <2>2. CASE req' = req BY <1>1, <1>4, <2>2 DEF RequestInv, AsAsked, request, Target
  <2> QED BY <2>1, <2>2
<1>6. Lateness'
  <2>1. (\A i \in 1 .. Len(air) : ReplyAt(i)' = ReplyAt(i)) /\ (req' # NONE => req # NONE)
    BY DEF ReplyAt
  <2> QED BY <1>1, <1>4, <2>1 DEF Lateness, Silent
<1>7. ScanInv' BY <1>1, <1>4 DEF ScanInv, FoundIsPresent
<1> QED BY <1>2, <1>3, <1>5, <1>6, <1>7

LEMMA QuietStepsKeep ==
  ASSUME IInv,
         Unheard \/ Reset \/ GateOpens \/ FactoryExpires \/ Restart \/ LoseRequest
  PROVE  IInv'
<1>1. CASE Unheard
  <2>1. Still /\ air' = air /\ req' = NONE /\ trouble' = trouble /\ did' = did
    BY <1>1 DEF Unheard, Still, moduleVars
  <2> QED BY <2>1, StillKeeps
<1>2. CASE Reset
  <2>1. Still /\ air' = air /\ req' = NONE /\ trouble' = trouble
    BY <1>2 DEF Reset, Reboot, Still
  <2>2. "misread" \in trouble' \/ cmd.op # "scan"
    <3>1. req # NONE /\ request.sub = 31 BY <1>2, SubNumbers DEF Reset, ServedAs, Served
    <3>2. CASE phase = "end" /\ cmd.op # "scan" BY <3>2
    <3>3. CASE phase = "wait" /\ request.sub = SUB[Head(todo).name]
      <4>1. Head(todo) \in RequestsOf(cmd.op) BY <3>3, HeadIsRequest DEF IInv
      <4>2. cmd.op = "scan" => Head(todo).name = "PING" BY <4>1 DEF RequestsOf
      <4> QED BY <3>1, <3>3, <4>2, SubNumbers
    <3> QED BY <2>1, <3>1, <3>2, <3>3 DEF IInv, RequestInv, AsAsked
  <2> QED BY <2>1, <2>2, StillKeeps
<1>3. CASE GateOpens
  <2>1. Still /\ air' = air /\ req' = req /\ trouble' = trouble /\ did' = did
    BY <1>3 DEF GateOpens, Still
  <2> QED BY <2>1, StillKeeps
<1>4. CASE FactoryExpires
  <2>1. Still /\ air' = air /\ req' = req /\ trouble' = trouble /\ did' = did
    BY <1>4 DEF FactoryExpires, Still
  <2> QED BY <2>1, StillKeeps
<1>5. CASE Restart
  <2>1. Still /\ air' = air /\ req' = NONE /\ trouble' = trouble \cup {"restart"}
    BY <1>5 DEF Restart, Reboot, Fault, Still
  <2>2. trouble \subseteq trouble' /\ "restart" \in trouble' BY <2>1
  <2> QED BY <2>1, <2>2, StillKeeps
<1>6. CASE LoseRequest
  <2>1. Still /\ air' = air /\ req' = NONE /\ trouble' = trouble \cup {"lost"} /\ did' = did
    BY <1>6 DEF LoseRequest, Fault, Still, moduleVars
  <2>2. trouble \subseteq trouble' BY <2>1
  <2> QED BY <2>1, <2>2, StillKeeps
<1> QED BY <1>1, <1>2, <1>3, <1>4, <1>5, <1>6

\* The frames on their way change, but none becomes a reply that was not, and
\* the request on the wire stays what it was for.
LEMMA AirKeeps ==
  ASSUME IInv, Still, AirInv', trouble \subseteq trouble', did' = did,
         RequestInv', req' = NONE <=> req = NONE,
         \A i \in 1 .. Len(air') :
           \/ i \in 1 .. Len(air) /\ air'[i].due = air[i].due
                /\ (ReplyAt(i)' => ReplyAt(i))
           \/ air'[i].due = 1 /\ ~ReplyAt(i)'
  PROVE  IInv'
<1> USE DEF IInv
<1>1. /\ phase' = phase /\ todo' = todo /\ left' = left /\ cmd' = cmd /\ found' = found
      /\ roundtrip' = roundtrip /\ rx' = rx /\ inbox' = inbox /\ mid' = mid
  BY DEF Still, toolVars, linkVars
<1>2. ToolInv' BY ToolStill
<1>3. window(Head(todo))' = window(Head(todo)) BY <1>1 DEF window
<1>4. \A i \in 1 .. Len(air') : ReplyAt(i)' =>
        i \in 1 .. Len(air) /\ air'[i].due = air[i].due /\ ReplyAt(i) OBVIOUS
<1>5. NoReply => NoReply' BY <1>4 DEF NoReply, ReplyAt
<1>6. Lateness'
  <2>1. CASE phase = "listen"
    <3>1. left \in Nat /\ left >= 1 BY <2>1 DEF ToolInv
    <3>2. \A i \in 1 .. Len(air') : air'[i].due <= left BY <2>1, <3>1 DEF Lateness
    <3> QED BY <1>1, <2>1, <3>2 DEF Lateness, Silent
  <2>2. CASE phase \in {"send", "sleep"} BY <1>1, <1>5, <2>2 DEF Lateness, Silent
  <2>3. CASE phase = "wait"
    <3>1. req' # NONE => NoReply' BY <1>5, <2>3 DEF Lateness
    <3>2. \A i, j \in 1 .. Len(air') : ReplyAt(i)' /\ ReplyAt(j)' => i = j
      BY <1>4, <2>3 DEF Lateness
    <3>3. \A i \in 1 .. Len(air') : ReplyAt(i)' => air'[i].due <= left' + window(Head(todo))'
      BY <1>1, <1>3, <1>4, <2>3 DEF Lateness
    <3> QED BY <1>1, <2>3, <3>1, <3>2, <3>3 DEF Lateness, Silent
  <2>4. CASE phase = "quiet"
    <3>1. \A i \in 1 .. Len(air') : ReplyAt(i)' => air'[i].due <= left'
      BY <1>1, <1>4, <2>4 DEF Lateness
    <3> QED BY <1>1, <2>4, <3>1 DEF Lateness, Silent
  <2>5. CASE phase = "end" BY <1>1, <2>5 DEF Lateness, Silent
  <2> QED BY <2>1, <2>2, <2>3, <2>4, <2>5 DEF ToolInv
<1>7. ScanInv' BY <1>1, <1>5 DEF ScanInv, FoundIsPresent
<1> QED BY <1>2, <1>6, <1>7

LEMMA CascadeKeeps == ASSUME IInv, Cascade PROVE IInv'
<1>1. /\ Still /\ req = NONE /\ req' = req /\ did' = did /\ trouble' = trouble \cup {"cascade"}
      /\ air # <<>> => air[Len(air)].due = 1
      /\ air' = Append(air, [frame |-> CascadeFrame, due |-> 1])
  BY DEF Cascade, Fault, Still
<1>2. /\ AirInv'
      /\ Len(air) \in Nat /\ Len(air') = Len(air) + 1
      /\ air'[Len(air) + 1].due = 1 /\ air'[Len(air) + 1].frame = CascadeFrame
      /\ \A i \in 1 .. Len(air) : air'[i] = air[i] /\ (ReplyAt(i)' <=> ReplyAt(i))
  <2>1. (CascadeFrame.cmd = 3) => CascadeFrame.id \in 0 .. 31 BY CascadeIsNoReply
  <2>2. MaxLatency >= 1 BY TimeAssumption
  <2>3. 1 \in Nat /\ 1 >= 1 /\ 1 <= MaxLatency BY <2>2, Times
  <2>4. air # <<>> => 1 >= air[Len(air)].due BY <1>1
  <2> HIDE DEF CascadeFrame
  <2> QED BY <1>1, <2>1, <2>3, <2>4, FrameAdded DEF IInv
<1>3. \A i \in 1 .. Len(air') :
        \/ i \in 1 .. Len(air) /\ air'[i].due = air[i].due /\ (ReplyAt(i)' => ReplyAt(i))
        \/ air'[i].due = 1 /\ ~ReplyAt(i)'
  <2> TAKE i \in 1 .. Len(air')
  <2>1. CASE i \in 1 .. Len(air) BY <1>2, <2>1
  <2>2. CASE i = Len(air) + 1 BY <1>2, <2>2, CascadeIsNoReply DEF ReplyAt
  <2> QED BY <1>2, <2>1, <2>2
<1>4. RequestInv' /\ trouble \subseteq trouble' /\ (req' = NONE <=> req = NONE)
  BY <1>1 DEF RequestInv
<1> QED BY <1>1, <1>2, <1>3, <1>4, AirKeeps

\* What is left of a garbled frame is a frame like it.
LEMMA GarbledFrame ==
  ASSUME NEW f, f.id \in 0 .. 31, NEW g \in Garbled(f) \cup NakAsReply(f)
  PROVE  g.cmd = 3 /\ g.id \in 0 .. 31
<1> DEFINE r == decode_cmd3(f.data)
<1>1. OtherIds \subseteq 0 .. 31 BY ModuleAssumption
<1>2. CASE \E n \in {1, 256} : g = Frame(f.id, r.sub, (r.arg + n) % 65536) BY <1>2, FrameHead
<1>3. CASE \E id \in OtherIds : g = Frame(id, r.sub, r.arg) BY <1>1, <1>3, FrameHead
<1>4. CASE \E sub \in OtherSubs : g = Frame(f.id, sub, r.arg) BY <1>4, FrameHead
<1>5. CASE g = Frame(f.id, NakOf(r.arg).sub, did) BY <1>5, FrameHead
<1> QED BY <1>2, <1>3, <1>4, <1>5 DEF Garbled, NakAsReply

LEMMA GarbledRequest ==
  ASSUME NEW f, f.id \in 0 .. 31, decode_cmd3(f.data).sub \in 0 .. 31,
         decode_cmd3(f.data).arg \in Word, NEW g \in Garbled(f)
  PROVE  decode_cmd3(g.data).sub \in 0 .. 31 /\ decode_cmd3(g.data).arg \in Word
<1> DEFINE s == decode_cmd3(f.data).sub
           a == decode_cmd3(f.data).arg
<1>1. OtherIds \subseteq 0 .. 31 /\ OtherSubs \subseteq 0 .. 31 BY ModuleAssumption
<1>2. s \in 0 .. 31 /\ a \in Word /\ a \in Nat BY Ranges
<1>3. \/ \E n \in {1, 256} : g = Frame(f.id, s, (a + n) % 65536)
      \/ \E id \in OtherIds : g = Frame(id, s, a)
      \/ \E sub \in OtherSubs : g = Frame(f.id, sub, a) BY DEF Garbled
<1> HIDE DEF s, a
<1>4. \A n \in {1, 256} : (a + n) % 65536 \in Word
  <2>1. \A n \in {1, 256} : a + n \in Int BY <1>2
  <2> QED BY <2>1, Join16
<1>5. CASE \E v \in Word : g = Frame(f.id, s, v)
  <2>1. PICK v \in Word : g = Frame(f.id, s, v) BY <1>5
  <2>2. v \in Word OBVIOUS
  <2> QED BY <1>2, <2>1, <2>2, RequestFrame
<1>6. CASE \E id \in OtherIds : g = Frame(id, s, a)
  <2>1. PICK id \in OtherIds : g = Frame(id, s, a) BY <1>6
  <2>2. id \in 0 .. 31 BY <1>1
  <2> QED BY <1>2, <2>1, <2>2, RequestFrame
<1>7. CASE \E sub \in OtherSubs : g = Frame(f.id, sub, a)
  <2>1. PICK sub \in OtherSubs : g = Frame(f.id, sub, a) BY <1>7
  <2>2. sub \in 0 .. 31 BY <1>1
  <2> QED BY <1>2, <2>1, <2>2, RequestFrame
<1>8. (\E n \in {1, 256} : g = Frame(f.id, s, (a + n) % 65536)) =>
        \E v \in Word : g = Frame(f.id, s, v) BY <1>4
<1> QED BY <1>3, <1>5, <1>6, <1>7, <1>8

LEMMA GarbleRequestKeeps == ASSUME IInv, GarbleRequest PROVE IInv'
<1>1. /\ Still /\ req # NONE /\ air' = air /\ did' = did
      /\ trouble' = trouble \cup {"garbled", "misread"} /\ req' \in Garbled(req)
  BY DEF GarbleRequest, Fault, Still, moduleVars
<1>2. /\ req.id \in 0 .. 31 /\ request.sub \in 0 .. 31 /\ request.arg \in Word
      /\ (phase = "wait" /\ left = window(Head(todo))) \/ (phase = "end" /\ cmd.op # "scan")
  BY <1>1 DEF IInv, RequestInv
<1>3. /\ req'.cmd = 3 /\ req'.id \in 0 .. 31
      /\ request'.sub \in 0 .. 31 /\ request'.arg \in Word
  <2>1. PICK g : g = req' OBVIOUS
  <2>2. g \in Garbled(req) BY <1>1, <2>1
  <2>3. g.cmd = 3 /\ g.id \in 0 .. 31 BY <1>2, <2>2, GarbledFrame
  <2>4. decode_cmd3(g.data).sub \in 0 .. 31 /\ decode_cmd3(g.data).arg \in Word
    BY <1>2, <2>2, GarbledRequest DEF request
  <2>5. request' = decode_cmd3(g.data) BY <2>1 DEF request
  <2> QED BY <2>1, <2>3, <2>4, <2>5
<1>4. RequestInv'
  <2>1. phase' = phase /\ todo' = todo /\ left' = left /\ cmd' = cmd /\ roundtrip' = roundtrip
    BY <1>1 DEF Still, toolVars
  <2>2. window(Head(todo))' = window(Head(todo)) BY <2>1 DEF window
  <2> QED BY <1>1, <1>2, <1>3, <2>1, <2>2 DEF RequestInv
<1>5. req' # NONE
  <2>1. NONE.id = -1 BY DEF NONE
  <2>2. \A k \in 0 .. 31 : k # -1 OBVIOUS
  <2> QED BY <1>3, <2>1, <2>2
<1>6. AirInv' /\ trouble \subseteq trouble' BY <1>1 DEF IInv, AirInv, ReplyAt
<1>7. \A i \in 1 .. Len(air') :
        i \in 1 .. Len(air) /\ air'[i].due = air[i].due /\ (ReplyAt(i)' => ReplyAt(i))
  BY <1>1 DEF ReplyAt
<1> QED BY <1>1, <1>4, <1>5, <1>6, <1>7, AirKeeps

LEMMA LoseReplyKeeps == ASSUME IInv, LoseReply PROVE IInv'
<1> DEFINE r == SubSeq(air, 1, Len(air) - 1)
<1>1. /\ Still /\ req' = req /\ did' = did /\ trouble' = trouble \cup {"lost"}
      /\ air # <<>> /\ air' = r BY DEF LoseReply, Fault, Still, moduleVars
<1>2. IsSequence(air) /\ Len(air) \in Nat /\ Len(air) > 0
  <2>1. IsSequence(air) /\ Len(air) \in Nat BY DEF IInv, AirInv, IsSequence
  <2>2. Len(air) = 0 => air = [i \in 1 .. 0 |-> air[i]] BY <2>1 DEF IsSequence
  <2>3. [i \in 1 .. 0 |-> air[i]] = <<>> OBVIOUS
  <2> QED BY <1>1, <2>1, <2>2, <2>3
<1>3. /\ IsSequence(r) /\ Len(r) = Len(air) - 1
      /\ \A i \in 1 .. Len(r) : i \in 1 .. Len(air) /\ r[i] = air[i]
  BY <1>2, FrontFrames
<1> HIDE DEF r
<1>4. AirInv' BY <1>1, <1>2, <1>3 DEF IInv, AirInv, ReplyAt
<1>5. \A i \in 1 .. Len(air') :
        i \in 1 .. Len(air) /\ air'[i].due = air[i].due /\ (ReplyAt(i)' => ReplyAt(i))
  BY <1>1, <1>3 DEF ReplyAt
<1>6. RequestInv' BY <1>1 DEF IInv, RequestInv, AsAsked, Still, toolVars, window, request, Target
<1>7. trouble \subseteq trouble' /\ (req' = NONE <=> req = NONE) BY <1>1
<1> QED BY <1>1, <1>4, <1>5, <1>6, <1>7, AirKeeps

LEMMA GarbleReplyKeeps == ASSUME IInv, GarbleReply PROVE IInv'
<1> DEFINE n == Len(air)
<1>1. PICK f \in Garbled(air[n].frame) \cup NakAsReply(air[n].frame) :
        /\ Still /\ req' = req /\ did' = did /\ trouble' = trouble \cup {"garbled"}
        /\ air # <<>> /\ air[n].frame.cmd = 3
        /\ air' = [air EXCEPT ![n].frame = f]
  BY DEF GarbleReply, Fault, Still, moduleVars
<1>2. IsSequence(air) /\ n \in Nat BY DEF IInv, AirInv, IsSequence
<1>3. n \in 1 .. n
  <2>1. n = 0 => air = [i \in 1 .. 0 |-> air[i]] BY <1>2 DEF IsSequence
  <2>2. [i \in 1 .. 0 |-> air[i]] = <<>> OBVIOUS
  <2> QED BY <1>1, <1>2, <2>1, <2>2
<1>4. ReplyAt(n) /\ air[n].frame.id \in 0 .. 31 BY <1>1, <1>3 DEF IInv, AirInv, ReplyAt
<1>5. f.cmd = 3 /\ f.id \in 0 .. 31
  <2> DEFINE g == air[n].frame
  <2>1. g.id \in 0 .. 31 /\ f \in Garbled(g) \cup NakAsReply(g) BY <1>1, <1>4
  <2> HIDE DEF g
  <2> QED BY <2>1, GarbledFrame
<1>6. DOMAIN air[n] = {"frame", "due"} /\ DOMAIN air = 1 .. n
  BY <1>2, <1>3 DEF IInv, AirInv, IsSequence
<1>7. /\ air' = [i \in 1 .. n |-> air'[i]] /\ Len(air') = n
      /\ \A i \in 1 .. n : i # n => air'[i] = air[i]
      /\ air'[n] = [air[n] EXCEPT !.frame = f]
  <2>1. DOMAIN air' = 1 .. n /\ \A i \in 1 .. n : i # n => air'[i] = air[i]
    BY <1>1, <1>6
  <2>2. air'[n] = [air[n] EXCEPT !.frame = f] BY <1>1, <1>3, <1>6
  <2>3. air' = [i \in 1 .. n |-> air'[i]] BY <1>1, <1>6, <2>1
  <2>4. Len(air') = n BY <1>2, <2>3, Listed
  <2> QED BY <2>1, <2>2, <2>3, <2>4
<1>8. /\ air'[n].frame = f /\ air'[n].due = air[n].due /\ DOMAIN air'[n] = {"frame", "due"}
  BY <1>6, <1>7
<1>9. IsSequence(air') BY <1>2, <1>7, Listed
<1>10. \A i \in 1 .. n :
         /\ air'[i].due = air[i].due /\ DOMAIN air'[i] = {"frame", "due"}
         /\ air'[i].frame.cmd = 3 <=> air[i].frame.cmd = 3
         /\ (air'[i].frame.cmd = 3) => air'[i].frame.id \in 0 .. 31
  <2> TAKE i \in 1 .. n
  <2>1. CASE i = n BY <1>4, <1>5, <1>8, <2>1 DEF ReplyAt
  <2>2. CASE i # n
    <3>1. air'[i] = air[i] BY <1>7, <2>2
    <3> QED BY <3>1 DEF IInv, AirInv, ReplyAt
  <2> QED BY <2>1, <2>2
<1>11. AirInv' BY <1>7, <1>9, <1>10 DEF IInv, AirInv, ReplyAt
<1>12. \A i \in 1 .. Len(air') :
         i \in 1 .. Len(air) /\ air'[i].due = air[i].due /\ (ReplyAt(i)' => ReplyAt(i))
  BY <1>7, <1>10 DEF ReplyAt
<1>13. RequestInv'
  BY <1>1 DEF IInv, RequestInv, AsAsked, Still, toolVars, window, request, Target
<1>14. trouble \subseteq trouble' /\ (req' = NONE <=> req = NONE) BY <1>1
<1> QED BY <1>1, <1>11, <1>12, <1>13, <1>14, AirKeeps

----------------------------------------------------------------------------
(* Steps of the operator and the tool                                      *)

\* Where a tool may go that has no reply to wait for.
MovesTo ==
  \/ phase' = "end" /\ todo' = <<>> /\ left' = 0
  \/ /\ phase' = "send" /\ left' \in Nat
     /\ todo' \in Seq(RequestsOf(cmd.op)) /\ todo' # <<>>
  \/ /\ phase' = "sleep" /\ left' \in Nat /\ left' >= 1 /\ cmd.op # "scan"
     /\ todo' \in Seq(RequestsOf(cmd.op)) /\ todo' # <<>>

LEMMA MovingKeeps ==
  ASSUME MovesTo, cmd' = cmd, AirInv', req' = NONE, IsSequence(rx'), IsSequence(inbox'),
         phase' = "end" \/ (NoReply' /\ Silent(rx')),
         worst' \in Nat, roundtrip' \in Nat,
         cmd.op # "scan" => found' = {}, FoundIsPresent'
  PROVE  IInv'
<1>1. phase' \in {"end", "send", "sleep"} BY DEF MovesTo
<1>2. ToolInv'
  <2>1. CASE phase' = "end"
    <3> DEFINE S == RequestsOf(cmd.op)
    <3>1. todo' = <<>> /\ left' = 0 BY <2>1 DEF MovesTo
    <3>2. <<>> \in Seq(S)
      <4> HIDE DEF S
      <4> QED OBVIOUS
    <3> QED BY <2>1, <3>1, <3>2 DEF ToolInv
  <2>2. CASE phase' = "send" BY <2>2 DEF MovesTo, ToolInv
  <2>3. CASE phase' = "sleep" BY <2>3 DEF MovesTo, ToolInv
  <2> QED BY <1>1, <2>1, <2>2, <2>3
<1>3. RequestInv' BY DEF RequestInv
<1>4. Lateness' BY <1>1 DEF Lateness
<1>5. ScanInv' BY <1>1 DEF ScanInv
<1> QED BY <1>2, <1>3, <1>4, <1>5 DEF IInv

\* No request is under way while time passes or the tool is about to send one.
LEMMA NoRequest ==
  ASSUME RequestInv, phase \notin {"wait", "end"}
  PROVE  req = NONE
BY DEF RequestInv

LEMMA TailLeft ==
  ASSUME ToolInv, phase \in {"send", "wait", "quiet", "sleep"}, Len(todo) # 1
  PROVE  Tail(todo) # <<>> /\ Len(todo) > 1
<1>1. Len(Tail(todo)) = Len(todo) - 1 /\ Len(todo) \in Nat BY HeadIsRequest
<1>2. Len(todo) # 0
  <2>1. todo \in Seq(RequestsOf(cmd.op)) /\ todo # <<>> BY DEF ToolInv
  <2> DEFINE S == RequestsOf(cmd.op)
  <2> HIDE DEF S
  <2>2. todo \in Seq(S) BY <2>1 DEF S
  <2> QED BY <2>1, <2>2
<1> DEFINE n == Len(todo)
           t == Tail(todo)
<1>3. n \in Nat /\ n # 0 /\ n # 1 /\ Len(t) = n - 1 BY <1>1, <1>2
<1> HIDE DEF n, t
<1>4. n > 1 /\ Len(t) # 0 BY <1>3
<1>5. t # <<>> BY <1>4, Nothing
<1> QED BY <1>4, <1>5 DEF n, t

LEMMA RaiseMoves ==
  ASSUME ToolInv, phase \in {"wait", "quiet"}, NEW how, Raise(how)
  PROVE  MovesTo
<1>1. CASE phase' = "end" /\ todo' = <<>> /\ left' = 0 BY <1>1 DEF MovesTo
<1>2. CASE Len(todo) # 1 /\ phase' = "send" /\ todo' = Tail(todo) /\ left' = 0
  <2>1. Tail(todo) # <<>> BY <1>2, TailLeft
  <2>2. Tail(todo) \in Seq(RequestsOf(cmd.op)) BY HeadIsRequest
  <2> QED BY <1>2, <2>1, <2>2 DEF MovesTo
<1> QED BY <1>1, <1>2 DEF Raise, End, NextIds

LEMMA StartKeeps ==
  ASSUME IInv, NEW c \in Commands, Start(c)
  PROVE  IInv'
<1>1. /\ req = NONE /\ cmd' = c /\ todo' = Plan(c) /\ found' = {} /\ rx' = <<>> /\ inbox' = <<>>
      /\ worst' = 0 /\ roundtrip' = 0 /\ phase' = "listen" /\ left' = LISTEN_BEFORE_TX
      /\ req' = req /\ air' = air BY DEF Start
<1>2. AirInv' BY <1>1 DEF IInv, AirInv, ReplyAt
<1>3. ToolInv' BY <1>1, PlanType, Times DEF ToolInv
<1>4. RequestInv' BY <1>1 DEF RequestInv
<1>5. Lateness'
  <2>1. \A i \in 1 .. Len(air) : air[i].due <= LISTEN_BEFORE_TX
    BY Times DEF IInv, AirInv
  <2> QED BY <1>1, <2>1, Nothing DEF Lateness, Silent
<1>6. ScanInv' BY <1>1 DEF ScanInv, FoundIsPresent
<1> QED BY <1>2, <1>3, <1>4, <1>5, <1>6 DEF IInv

LEMMA ArgumentIsWord ==
  ASSUME NEW r \in Request
  PROVE  Argument(r) \in Word
<1>1. r.arg \in Word \cup {KEYED} BY DEF Request
<1> QED BY <1>1, XorWord DEF Argument, unlock_2_arg

LEMMA TransmitKeeps == ASSUME IInv, Transmit PROVE IInv'
<1> DEFINE r == Head(todo)
<1>1. /\ phase = "send" /\ Target(r) \in 0 .. 31
      /\ inbox' = <<>> /\ req' = Frame(Target(r), SUB[r.name], Argument(r))
      /\ cmd' = cmd /\ mid' = mid /\ worst' = worst /\ roundtrip' = roundtrip /\ found' = found
      /\ rx' = rx /\ air' = air /\ did' = did /\ trouble' = trouble
  BY DEF Transmit, reset_input_buffer, moduleVars
<1>2. r \in RequestsOf(cmd.op) BY <1>1, HeadIsRequest DEF IInv
<1>3. r \in Request /\ r.name \in DOMAIN SUB BY <1>2 DEF RequestsOf, Request
<1>4. SUB[r.name] \in 0 .. 31 /\ Argument(r) \in Word
  BY <1>3, SubNumbers, ArgumentIsWord
<1>5. /\ req'.id = Target(r) /\ req'.cmd = 3
      /\ request'.sub = SUB[r.name] /\ request'.sub \in 0 .. 31 /\ request'.arg \in Word
  <2> DEFINE i == Target(r)
             s == SUB[r.name]
             a == Argument(r)
  <2>1. i \in 0 .. 31 /\ s \in 0 .. 31 /\ a \in Word /\ req' = Frame(i, s, a)
    BY <1>1, <1>4
  <2>2. request' = decode_cmd3(req'.data) BY DEF request
  <2> HIDE DEF i, s, a
  <2>3. Frame(i, s, a).id = i /\ Frame(i, s, a).cmd = 3 BY <2>1, FrameHead
  <2>4. decode_cmd3(Frame(i, s, a).data).sub = s /\ decode_cmd3(Frame(i, s, a).data).arg = a
    BY <2>1, RequestFrame
  <2>5. req'.id = i /\ req'.cmd = 3 /\ request'.sub = s /\ request'.arg = a
    BY <2>1, <2>2, <2>3, <2>4
  <2> QED BY <2>1, <2>5 DEF i, s, a
<1>6. AirInv' /\ (NoReply' <=> NoReply) BY <1>1 DEF IInv, AirInv, ReplyAt, NoReply
<1>7. NoReply /\ IsSequence(rx) /\ Silent(rx) BY <1>1 DEF IInv, Lateness
<1>8. IsSequence(inbox') /\ Silent(inbox') BY <1>1, Nothing DEF Silent
<1>9. CASE r.name = "RESET"
  <2>1. phase' = "end" /\ todo' = <<>> /\ left' = 0 BY <1>9 DEF Transmit, End
  <2>2. cmd.op # "scan" BY <1>2, <1>9 DEF RequestsOf
  <2>3. RequestInv' BY <1>1, <1>4, <1>5, <1>9, <2>1, <2>2 DEF RequestInv, AsAsked
  <2>4. ToolInv'
    <3> DEFINE S == RequestsOf(cmd.op)
    <3>1. <<>> \in Seq(S)
      <4> HIDE DEF S
      <4> QED OBVIOUS
    <3> QED BY <1>1, <2>1, <3>1 DEF IInv, ToolInv
  <2>5. Lateness' BY <1>1, <1>7, <1>8, <2>1 DEF Lateness
  <2>6. ScanInv' BY <1>1, <2>1 DEF IInv, ScanInv, FoundIsPresent
  <2> QED BY <1>6, <2>3, <2>4, <2>5, <2>6 DEF IInv
<1>10. CASE r.name # "RESET"
  <2>1. phase' = "wait" /\ todo' = todo /\ left' = window(r) BY <1>10 DEF Transmit
  <2>2. window(r) \in Nat /\ window(r) >= 1 BY <1>1, HeadIsRequest DEF IInv
  <2>3. window(Head(todo))' = window(r) /\ Target(Head(todo))' = Target(r)
    BY <1>1, <2>1 DEF window, Target
  <2>4. RequestInv' BY <1>1, <1>5, <2>1, <2>3 DEF RequestInv, AsAsked
  <2>5. ToolInv' BY <1>1, <2>1, <2>2, <2>3 DEF IInv, ToolInv
  <2>6. Lateness' BY <1>1, <1>6, <1>7, <1>8, <2>1 DEF Lateness, NoReply, Silent
  <2>7. ScanInv' BY <1>1, <1>6, <1>7, <2>1 DEF IInv, ScanInv, FoundIsPresent
  <2> QED BY <1>6, <2>4, <2>5, <2>6, <2>7 DEF IInv
<1> QED BY <1>9, <1>10

LEMMA WithheldKeeps == ASSUME IInv, Withheld PROVE IInv'
<1>1. /\ phase = "send" /\ phase' = "end" /\ todo' = <<>> /\ left' = 0
      /\ cmd' = cmd /\ worst' = worst /\ roundtrip' = roundtrip /\ found' = found
      /\ rx' = rx /\ inbox' = inbox /\ req' = req /\ air' = air /\ did' = did
      /\ trouble' = trouble BY DEF Withheld, End, linkVars, moduleVars
<1>2. req = NONE BY <1>1, NoRequest DEF IInv
<1>3. AirInv' BY <1>1 DEF IInv, AirInv, ReplyAt
<1>4. MovesTo BY <1>1 DEF MovesTo
<1>5. IsSequence(rx') /\ IsSequence(inbox') /\ worst' \in Nat /\ roundtrip' \in Nat
  BY <1>1 DEF IInv, Lateness, ToolInv
<1>6. (cmd.op # "scan" => found' = {}) /\ FoundIsPresent'
  BY <1>1 DEF IInv, ScanInv, FoundIsPresent
<1> QED BY <1>1, <1>2, <1>3, <1>4, <1>5, <1>6, MovingKeeps

LEMMA IdleKeeps == ASSUME IInv, Idle PROVE IInv'
<1>1. /\ phase = "end" /\ Passes /\ phase' = phase /\ todo' = todo /\ left' = left
      /\ cmd' = cmd /\ worst' = worst /\ roundtrip' = roundtrip /\ found' = found
      /\ rx' = rx /\ inbox' = inbox /\ req' = req /\ did' = did /\ trouble' = trouble
  BY DEF Idle, toolVars, linkVars
<1>2. AirInv' /\ req = NONE BY <1>1, TimePasses DEF IInv
<1>3. ToolInv' /\ RequestInv' /\ Lateness' /\ ScanInv'
  <2>1. ToolInv' BY <1>1 DEF IInv, ToolInv
  <2>2. RequestInv' BY <1>1, <1>2 DEF RequestInv
  <2>3. Lateness' BY <1>1 DEF IInv, Lateness
  <2>4. ScanInv' BY <1>1 DEF IInv, ScanInv, FoundIsPresent
  <2> QED BY <2>1, <2>2, <2>3, <2>4
<1> QED BY <1>2, <1>3 DEF IInv

LEMMA PumpedFrames ==
  ASSUME AirInv, IsSequence(inbox)
  PROVE  /\ IsSequence(Pumped) /\ Len(Pumped) = Len(inbox) + Landed
         /\ \A i \in 1 .. Len(inbox) : Pumped[i] = inbox[i]
         /\ \A k \in 1 .. Landed : Pumped[Len(inbox) + k] = air[k].frame
<1>1. /\ IsSequence(Arrived) /\ Len(Arrived) = Landed
      /\ \A i \in 1 .. Landed : Arrived[i] = air[i].frame BY ArrivedFrames
<1> DEFINE a == Arrived
<1>2. Pumped = inbox \o a /\ IsSequence(a) BY <1>1 DEF Pumped
<1> HIDE DEF a
<1>3. /\ IsSequence(inbox \o a) /\ Len(inbox \o a) = Len(inbox) + Len(a)
      /\ \A i \in 1 .. Len(inbox) : (inbox \o a)[i] = inbox[i]
      /\ \A i \in 1 .. Len(a) : (inbox \o a)[Len(inbox) + i] = a[i] BY <1>2, Joined
<1> QED BY <1>1, <1>2, <1>3 DEF a

LEMMA ListenKeeps == ASSUME IInv, Listen PROVE IInv'
<1>1. /\ phase = "listen" /\ Passes /\ inbox' = <<>> /\ rx' = rx /\ req' = req
      /\ cmd' = cmd /\ worst' = worst /\ roundtrip' = roundtrip /\ found' = found
      /\ did' = did /\ trouble' = trouble BY DEF Listen
<1>2. /\ AirInv' /\ req = NONE
      /\ \A i \in 1 .. Len(air') :
           /\ Landed + i \in 1 .. Len(air) /\ air[Landed + i].due >= 2
           /\ air'[i].due = air[Landed + i].due - 1 BY <1>1, TimePasses DEF IInv
<1>3. /\ left \in Nat /\ left >= 1 /\ todo \in Seq(RequestsOf(cmd.op))
      /\ worst \in Nat /\ roundtrip \in Nat /\ todo = Plan(cmd) /\ cmd \in Commands
  BY <1>1 DEF IInv, ToolInv
<1>4. \A i \in 1 .. Len(air) : air[i].due <= left /\ air[i].due \in Nat
  BY <1>1 DEF IInv, Lateness, AirInv
<1>5. IsSequence(rx) /\ Silent(rx) /\ IsSequence(inbox')
  BY <1>1, Nothing DEF IInv, Lateness
<1>6. (cmd.op # "scan" => found' = {}) /\ FoundIsPresent'
  BY <1>1 DEF IInv, ScanInv, FoundIsPresent
<1>7. CASE phase' = "listen" /\ left > 1 /\ left' = left - 1 /\ todo' = todo
  <2>1. ToolInv' BY <1>1, <1>3, <1>7 DEF ToolInv
  <2>2. RequestInv' BY <1>1, <1>2 DEF RequestInv
  <2>3. \A i \in 1 .. Len(air') : air'[i].due <= left' BY <1>2, <1>3, <1>4, <1>7
  <2>4. Lateness' BY <1>1, <1>5, <1>7, <2>3 DEF Lateness, Silent
  <2>5. ScanInv' BY <1>1, <1>6, <1>7 DEF ScanInv
  <2> QED BY <1>2, <2>1, <2>2, <2>4, <2>5 DEF IInv
<1>8. CASE MovesTo /\ (phase' = "end" \/ left <= 1)
  <2>1. left <= 1 => NoReply'
    <3> SUFFICES ASSUME left <= 1, NEW i \in 1 .. Len(air') PROVE ~ReplyAt(i)'
      BY DEF NoReply, ReplyAt
    <3>1. air[Landed + i].due >= 2 /\ air[Landed + i].due <= left BY <1>2, <1>4
    <3> QED BY <1>2, <1>3, <1>4, <3>1
  <2>2. phase' = "end" \/ (NoReply' /\ Silent(rx')) BY <1>1, <1>5, <1>8, <2>1
  <2>3. worst' \in Nat /\ roundtrip' \in Nat /\ req' = NONE /\ IsSequence(rx')
    BY <1>1, <1>2, <1>3, <1>5
  <2> QED BY <1>1, <1>2, <1>5, <1>6, <1>8, <2>2, <2>3, MovingKeeps
<1>9. (phase' = "listen" /\ left > 1 /\ left' = left - 1 /\ todo' = todo)
        \/ (MovesTo /\ (phase' = "end" \/ left <= 1))
  <2>1. CASE Pumped # <<>> BY <2>1 DEF Listen, End, MovesTo
  <2>2. CASE Pumped = <<>> /\ left > 1 BY <1>1, <2>2 DEF Listen
  <2>3. CASE Pumped = <<>> /\ ~(left > 1)
    <3>1. left <= 1 BY <1>3, <2>3
    <3>2. CASE phase' = "end" /\ todo' = <<>> /\ left' = 0 BY <3>2 DEF MovesTo
    <3>3. CASE todo # <<>> /\ phase' = "send" /\ left' = 0 /\ todo' = todo
      BY <1>3, <3>1, <3>3 DEF MovesTo
    <3> QED BY <2>3, <3>2, <3>3 DEF Listen, End, Proceed
  <2> QED BY <2>1, <2>2, <2>3
<1> QED BY <1>7, <1>8, <1>9

LEMMA SleepKeeps == ASSUME IInv, Sleep PROVE IInv'
<1>1. /\ phase \in {"quiet", "sleep"} /\ Passes /\ inbox' = Pumped /\ rx' = rx /\ req' = req
      /\ cmd' = cmd /\ worst' = worst /\ roundtrip' = roundtrip /\ found' = found
      /\ did' = did /\ trouble' = trouble BY DEF Sleep
<1>2. /\ AirInv' /\ req = NONE
      /\ \A i \in 1 .. Len(air') :
           /\ Landed + i \in 1 .. Len(air) /\ air[Landed + i].due >= 2
           /\ air'[i].due = air[Landed + i].due - 1
           /\ ReplyAt(i)' <=> ReplyAt(Landed + i) BY <1>1, TimePasses DEF IInv
<1>3. /\ left \in Nat /\ left >= 1 /\ todo \in Seq(RequestsOf(cmd.op)) /\ todo # <<>>
      /\ worst \in Nat /\ roundtrip \in Nat /\ (phase = "sleep" => cmd.op # "scan")
  BY <1>1 DEF IInv, ToolInv
<1>4. \A i \in 1 .. Len(air) : air[i].due \in Nat BY DEF IInv, AirInv
<1>5. /\ phase = "quiet" => \A i \in 1 .. Len(air) : ReplyAt(i) => air[i].due <= left
      /\ phase = "sleep" => NoReply
      /\ IsSequence(rx) /\ Silent(rx) /\ IsSequence(inbox) BY <1>1 DEF IInv, Lateness
<1>6. IsSequence(inbox') BY <1>1, <1>5, PumpedFrames DEF IInv
<1>7. (cmd.op # "scan" => found' = {}) /\ FoundIsPresent'
  BY <1>1 DEF IInv, ScanInv, FoundIsPresent
<1>8. phase = "sleep" => NoReply' BY <1>2, <1>5 DEF NoReply, ReplyAt
<1>9. CASE left > 1
  <2>1. phase' = phase /\ left' = left - 1 /\ todo' = todo BY <1>9 DEF Sleep
  <2>2. ToolInv' BY <1>1, <1>3, <1>9, <2>1 DEF ToolInv
  <2>3. RequestInv' BY <1>1, <1>2 DEF RequestInv
  <2>4. phase = "quiet" => \A i \in 1 .. Len(air') : ReplyAt(i)' => air'[i].due <= left'
    BY <1>2, <1>3, <1>4, <1>5, <1>9, <2>1
  <2>5. Lateness' BY <1>1, <1>5, <1>6, <1>8, <2>1, <2>4 DEF Lateness, Silent
  <2>6. ScanInv' BY <1>1, <1>7, <2>1 DEF ScanInv
  <2> QED BY <1>2, <2>2, <2>3, <2>5, <2>6 DEF IInv
<1>10. CASE ~(left > 1)
  <2>1. left <= 1 BY <1>3, <1>10
  <2>2. MovesTo
    <3>1. CASE phase = "quiet"
      <4>1. Raise("timeout") BY <1>10, <3>1 DEF Sleep
      <4> QED BY <3>1, <4>1, RaiseMoves DEF IInv
    <3>2. CASE phase = "sleep"
      <4>1. phase' = "send" /\ left' = 0 /\ todo' = todo
        BY <1>10, <3>2 DEF Sleep, Proceed
      <4> QED BY <1>3, <4>1 DEF MovesTo
    <3> QED BY <1>1, <3>1, <3>2
  <2>3. NoReply'
    <3> SUFFICES ASSUME phase = "quiet", NEW i \in 1 .. Len(air') PROVE ~ReplyAt(i)'
      BY <1>1, <1>8 DEF NoReply, ReplyAt
    <3>1. ReplyAt(Landed + i) => air[Landed + i].due <= left BY <1>2, <1>5
    <3>2. air[Landed + i].due >= 2 /\ air[Landed + i].due \in Nat BY <1>2, <1>4
    <3> QED BY <1>2, <1>3, <2>1, <3>1, <3>2
  <2>4. worst' \in Nat /\ roundtrip' \in Nat /\ req' = NONE /\ IsSequence(rx') /\ Silent(rx')
    BY <1>1, <1>2, <1>3, <1>5
  <2> QED BY <1>1, <1>2, <1>6, <1>7, <2>2, <2>3, <2>4, MovingKeeps
<1> QED BY <1>9, <1>10

\* While the tool waits, only a reply that arrives can settle its request, and
\* then no reply is left.
LEMMA WaitFrames ==
  ASSUME IInv, phase = "wait", Passes
  PROVE  LET frames == rx \o Pumped
         IN  /\ IsSequence(frames)
             /\ \A n \in 1 .. Len(frames) :
                  IsReply(frames[n]) =>
                    /\ \E k \in 1 .. Len(air) : ReplyAt(k) /\ frames[n] = air[k].frame
                    /\ ~NoReply /\ NoReply'
                    /\ IsSequence(Rest(frames, n)) /\ Silent(Rest(frames, n))
<1> DEFINE p == Pumped
           frames == rx \o p
           l == Len(rx)
           m == Len(inbox)
<1>1. /\ IsSequence(rx) /\ IsSequence(inbox) /\ Silent(rx) /\ Silent(inbox)
      /\ \A i, j \in 1 .. Len(air) : ReplyAt(i) /\ ReplyAt(j) => i = j
  BY DEF IInv, Lateness
<1>2. l \in Nat /\ m \in Nat /\ Landed \in Nat /\ Landed <= Len(air) /\ Len(air) \in Nat
  BY <1>1, FirstLanded DEF IsSequence, IInv, AirInv
<1>3. /\ IsSequence(p) /\ Len(p) = m + Landed
      /\ \A i \in 1 .. m : p[i] = inbox[i]
      /\ \A k \in 1 .. Landed : p[m + k] = air[k].frame BY <1>1, PumpedFrames DEF IInv
<1> HIDE DEF p
<1>4. /\ IsSequence(frames) /\ Len(frames) = l + Len(p)
      /\ \A i \in 1 .. l : frames[i] = rx[i]
      /\ \A i \in 1 .. Len(p) : frames[l + i] = p[i] BY <1>1, <1>3, Joined
<1> HIDE DEF frames, l, m
<1>5. ASSUME NEW n \in 1 .. Len(frames), IsReply(frames[n])
      PROVE  /\ n - l - m \in 1 .. Landed /\ ReplyAt(n - l - m)
             /\ n - l - m \in 1 .. Len(air)
             /\ frames[n] = air[n - l - m].frame
  <2>1. n \in Nat /\ n >= 1 /\ n <= l + (m + Landed) BY <1>2, <1>3, <1>4
  <2>2. ~(n <= l)
    <3> SUFFICES ASSUME n <= l PROVE FALSE OBVIOUS
    <3>1. n \in 1 .. l BY <1>2, <2>1
    <3> QED BY <1>1, <1>4, <1>5, <3>1 DEF Silent, l
  <2>3. n - l \in 1 .. Len(p) /\ l + (n - l) = n BY <1>2, <1>3, <2>1, <2>2
  <2>4. frames[n] = p[n - l] BY <1>4, <2>3
  <2>5. ~(n - l <= m)
    <3> SUFFICES ASSUME n - l <= m PROVE FALSE OBVIOUS
    <3>1. n - l \in 1 .. m BY <1>2, <2>1, <2>2
    <3> QED BY <1>1, <1>3, <1>5, <2>4, <3>1 DEF Silent, m
  <2>6. n - l - m \in 1 .. Landed /\ m + (n - l - m) = n - l BY <1>2, <2>1, <2>2, <2>5
  <2>7. p[n - l] = air[n - l - m].frame BY <1>3, <2>6
  <2>8. n - l - m \in 1 .. Len(air) BY <1>2, <2>6
  <2> QED BY <1>5, <2>4, <2>6, <2>7, <2>8 DEF ReplyAt, IsReply
<1>6. ASSUME NEW n \in 1 .. Len(frames), IsReply(frames[n])
      PROVE  /\ \E k \in 1 .. Len(air) : ReplyAt(k) /\ frames[n] = air[k].frame
             /\ ~NoReply /\ NoReply'
             /\ IsSequence(Rest(frames, n)) /\ Silent(Rest(frames, n))
  <2> DEFINE k == n - l - m
  <2>1. ReplyAt(k) /\ k \in 1 .. Len(air) /\ frames[n] = air[k].frame /\ k \in 1 .. Landed
    BY <1>5, <1>6
  <2>2. NoReply'
    <3> SUFFICES ASSUME NEW i \in 1 .. Len(air') PROVE ~ReplyAt(i)'
      BY DEF NoReply, ReplyAt
    <3>1. Landed + i \in 1 .. Len(air) /\ (ReplyAt(i)' <=> ReplyAt(Landed + i))
      BY TimePasses DEF IInv
    <3>2. AirInv' BY TimePasses DEF IInv
    <3>3. Len(air') \in Nat BY <3>2 DEF AirInv, IsSequence
    <3>4. Landed + i # k BY <1>2, <2>1, <3>3
    <3> QED BY <1>1, <2>1, <3>1, <3>4
  <2>3. n \in Nat /\ n <= Len(frames) /\ Len(frames) \in Nat BY <1>4 DEF IsSequence
  <2>4. /\ IsSequence(Rest(frames, n)) /\ Len(Rest(frames, n)) = Len(frames) - n
        /\ \A i \in 1 .. Len(Rest(frames, n)) :
             n + i \in 1 .. Len(frames) /\ Rest(frames, n)[i] = frames[n + i]
    BY <1>4, <2>3, RestFrames
  <2>5. ASSUME NEW i \in 1 .. Len(Rest(frames, n)), IsReply(Rest(frames, n)[i])
        PROVE  FALSE
    <3> DEFINE q == n + i
    <3>1. q \in 1 .. Len(frames) /\ IsReply(frames[q]) BY <2>4, <2>5
    <3>2. q \in Nat /\ q # n BY <2>3, <2>4
    <3> HIDE DEF q
    <3>3. q - l - m \in 1 .. Len(air) /\ ReplyAt(q - l - m) BY <1>5, <3>1
    <3>4. q - l - m # n - l - m BY <1>2, <2>3, <3>2
    <3> QED BY <1>1, <2>1, <3>3, <3>4
  <2>6. Silent(Rest(frames, n)) BY <2>5 DEF Silent
  <2> QED BY <2>1, <2>2, <2>4, <2>6 DEF NoReply
<1> QED BY <1>4, <1>6 DEF frames, p

\* What a reply does to the tool, one that comes before its window has closed.
LEMMA ReplyMoves ==
  ASSUME ToolInv, phase = "wait", NEW a, NEW n \in Nat, Reply(a, n)
  PROVE  /\ MovesTo /\ worst' \in Nat /\ roundtrip' \in Nat
         /\ found' = found \/ (cmd.op = "scan" /\ found' = found \cup {Head(todo).to})
<1>1. worst \in Nat /\ roundtrip \in Nat BY DEF ToolInv
<1>2. worst' \in Nat BY <1>1 DEF Reply
<1>3. roundtrip' \in Nat BY <1>1, <1>2 DEF Reply
<1>4. found' = found \/ (cmd.op = "scan" /\ found' = found \cup {Head(todo).to})
  BY DEF Reply
<1>5. MovesTo
  <2> DEFINE r == Append(got, a)
  <2>1. CASE Len(todo) > 1
    <3>1. phase' = "send" /\ left' = 0 /\ todo' = Tail(todo) BY <2>1 DEF Reply, Proceed
    <3>2. Len(todo) # 1
      <4> DEFINE m == Len(todo)
      <4>1. m \in Nat /\ m > 1 BY <2>1, HeadIsRequest
      <4> HIDE DEF m
      <4>2. m # 1 BY <4>1
      <4> QED BY <4>2 DEF m
    <3>3. Tail(todo) # <<>> /\ Tail(todo) \in Seq(RequestsOf(cmd.op))
      BY <3>2, TailLeft, HeadIsRequest
    <3> QED BY <3>1, <3>3 DEF MovesTo
  <2>2. CASE ~(Len(todo) > 1) /\ cmd.op = "sample"
    <3>1. SampleTurn(r) BY <2>2 DEF Reply
    <3>2. CASE phase' = "end" /\ todo' = <<>> /\ left' = 0 BY <3>2 DEF MovesTo
    <3>3. CASE phase' = "sleep" /\ left' = POLL /\ todo' = sample_poll
      <4>1. cmd.op # "scan" BY <2>2
      <4>2. sample_poll \in Seq(RequestsOf(cmd.op)) /\ Len(sample_poll) >= 1
        BY <4>1, RecordsType
      <4>3. sample_poll # <<>> BY <4>2, Nothing
      <4> QED BY <3>3, <4>1, <4>2, <4>3, Times DEF MovesTo
    <3> QED BY <3>1, <3>2, <3>3 DEF SampleTurn, End
  <2>3. CASE ~(Len(todo) > 1) /\ cmd.op # "sample"
    <3>1. End(Conclusion(cmd, r)) BY <2>3 DEF Reply
    <3> QED BY <3>1 DEF End, MovesTo
  <2> QED BY <2>1, <2>2, <2>3
<1> QED BY <1>2, <1>3, <1>4, <1>5

LEMMA WaitKeeps == ASSUME IInv, Wait PROVE IInv'
<1> DEFINE frames == rx \o Pumped
           name == Head(todo).name
           n == Settler(frames, name)
<1>1. /\ phase = "wait" /\ Passes /\ inbox' = <<>> /\ req' = req
      /\ cmd' = cmd /\ did' = did /\ trouble' = trouble
      /\ rx' = IF n = 0 THEN <<>> ELSE Rest(frames, n) BY DEF Wait
<1>2. /\ AirInv' /\ req = NONE
      /\ \A i \in 1 .. Len(air') :
           /\ Landed + i \in 1 .. Len(air) /\ air[Landed + i].due >= 2
           /\ air'[i].due = air[Landed + i].due - 1
           /\ ReplyAt(i)' <=> ReplyAt(Landed + i) BY <1>1, TimePasses DEF IInv
<1>3. /\ left \in Nat /\ left >= 1 /\ todo \in Seq(RequestsOf(cmd.op)) /\ todo # <<>>
      /\ worst \in Nat /\ roundtrip \in Nat /\ left <= window(Head(todo))
  BY <1>1 DEF IInv, ToolInv
<1>4. window(Head(todo)) \in Nat /\ window(Head(todo)) >= 1
  BY <1>1, HeadIsRequest DEF IInv
<1>5. /\ IsSequence(frames)
      /\ \A i \in 1 .. Len(frames) :
           IsReply(frames[i]) =>
             /\ ~NoReply /\ NoReply'
             /\ IsSequence(Rest(frames, i)) /\ Silent(Rest(frames, i))
  BY <1>1, WaitFrames
<1>6. n # 0 => n \in 1 .. Len(frames) /\ IsReply(frames[n])
  <2> HIDE DEF frames
  <2>1. n # 0 => n \in 1 .. Len(frames) /\ Settles(frames[n], name)
    BY <1>5, SettlerIsReply
  <2> HIDE DEF n
  <2> QED BY <2>1 DEF Settles
<1>7. IsSequence(inbox') /\ Silent(inbox') BY <1>1, Nothing DEF Silent
<1>8. CASE n = 0
  <2>1. /\ rx' = <<>>
        /\ IF left > 1 THEN left' = left - 1 /\ phase' = phase
           ELSE left' = quiet(Head(todo)) /\ phase' = "quiet"
        /\ todo' = todo /\ worst' = worst /\ roundtrip' = roundtrip /\ found' = found
    BY <1>8 DEF Wait
  <2>2. IsSequence(rx') /\ Silent(rx') BY <2>1, Nothing DEF Silent
  <2>3. window(Head(todo))' = window(Head(todo)) BY <2>1 DEF window
  <2>4. RequestInv' BY <1>1, <1>2 DEF RequestInv
  <2>5. (cmd.op # "scan" => found' = {}) /\ FoundIsPresent'
    BY <1>1, <2>1 DEF IInv, ScanInv, FoundIsPresent
  <2>6. /\ \A i, j \in 1 .. Len(air) : ReplyAt(i) /\ ReplyAt(j) => i = j
        /\ \A i \in 1 .. Len(air) : ReplyAt(i) => air[i].due <= left + window(Head(todo))
        /\ \A i \in 1 .. Len(air) : air[i].due \in Nat
    BY <1>1 DEF IInv, Lateness, AirInv
  <2>7. CASE left > 1
    <3>1. phase' = "wait" /\ left' = left - 1 BY <1>1, <2>1, <2>7
    <3>2. ToolInv'
      <4>1. left' \in Nat /\ left' >= 1 /\ left' <= window(Head(todo))'
        BY <1>3, <1>4, <2>3, <2>7, <3>1
      <4> QED BY <1>1, <1>3, <2>1, <3>1, <4>1 DEF ToolInv
    <3>3. \A i, j \in 1 .. Len(air') : ReplyAt(i)' /\ ReplyAt(j)' => i = j
      <4> SUFFICES ASSUME NEW i \in 1 .. Len(air'), NEW j \in 1 .. Len(air'),
                          ReplyAt(i)', ReplyAt(j)'
                   PROVE  i = j
        OBVIOUS
      <4>1. Landed + i = Landed + j BY <1>2, <2>6
      <4>2. Landed \in Nat /\ i \in Nat /\ j \in Nat BY FirstLanded DEF IInv
      <4> QED BY <4>1, <4>2
    <3>4. \A i \in 1 .. Len(air') : ReplyAt(i)' => air'[i].due <= left' + window(Head(todo))'
      <4> SUFFICES ASSUME NEW i \in 1 .. Len(air'), ReplyAt(i)'
                   PROVE  air'[i].due <= left' + window(Head(todo))'
        OBVIOUS
      <4>1. /\ Landed + i \in 1 .. Len(air) /\ ReplyAt(Landed + i)
            /\ air'[i].due = air[Landed + i].due - 1 BY <1>2
      <4>2. /\ air[Landed + i].due <= left + window(Head(todo))
            /\ air[Landed + i].due \in Nat BY <2>6, <4>1
      <4> QED BY <1>3, <1>4, <2>3, <3>1, <4>1, <4>2
    <3>5. Lateness' BY <1>1, <1>2, <1>7, <2>2, <3>1, <3>3, <3>4 DEF Lateness
    <3>6. NoReply => NoReply' BY <1>2 DEF NoReply, ReplyAt
    <3>7. ScanInv' BY <1>1, <2>1, <2>5, <3>6 DEF IInv, ScanInv
    <3> QED BY <1>2, <2>4, <3>2, <3>5, <3>7 DEF IInv
  <2>8. CASE ~(left > 1)
    <3>1. phase' = "quiet" /\ left' = window(Head(todo)) /\ left = 1
      BY <1>3, <2>1, <2>8 DEF quiet
    <3>2. ToolInv' BY <1>1, <1>3, <1>4, <2>1, <2>3, <3>1 DEF ToolInv
    <3>3. \A i \in 1 .. Len(air') : ReplyAt(i)' => air'[i].due <= left'
      <4> SUFFICES ASSUME NEW i \in 1 .. Len(air'), ReplyAt(i)'
                   PROVE  air'[i].due <= left'
        OBVIOUS
      <4>1. /\ Landed + i \in 1 .. Len(air) /\ ReplyAt(Landed + i)
            /\ air'[i].due = air[Landed + i].due - 1 BY <1>2
      <4>2. /\ air[Landed + i].due <= left + window(Head(todo))
            /\ air[Landed + i].due \in Nat BY <2>6, <4>1
      <4> QED BY <1>3, <1>4, <3>1, <4>1, <4>2
    <3>4. Lateness' BY <1>7, <2>2, <3>1, <3>3 DEF Lateness
    <3>5. ScanInv' BY <1>1, <2>5, <3>1 DEF ScanInv
    <3> QED BY <1>2, <2>4, <3>2, <3>4, <3>5 DEF IInv
  <2> QED BY <2>7, <2>8
<1>9. CASE n # 0
  <2> DEFINE reply == decode_cmd3(frames[n].data)
  <2>1. /\ NoReply' /\ ~NoReply /\ IsSequence(rx') /\ Silent(rx')
    BY <1>1, <1>5, <1>6, <1>9
  <2>2. cmd.op = "scan" /\ "restart" \notin trouble /\ "misread" \notin trouble =>
          Head(todo).to = did BY <1>1, <2>1 DEF IInv, ScanInv
  <2>3. FoundIsPresent /\ (cmd.op # "scan" => found = {}) BY DEF IInv, ScanInv
  <2>4. CASE reply.sub = SUB.NAK
    <3>1. Raise("nak") /\ worst' = worst /\ roundtrip' = roundtrip /\ found' = found
      BY <1>9, <2>4 DEF Wait
    <3>2. MovesTo BY <1>1, <3>1, RaiseMoves DEF IInv
    <3>3. (cmd.op # "scan" => found' = {}) /\ FoundIsPresent'
      BY <1>1, <2>3, <3>1 DEF FoundIsPresent
    <3>4. worst' \in Nat /\ roundtrip' \in Nat /\ req' = NONE BY <1>1, <1>2, <1>3, <3>1
    <3> QED BY <1>1, <1>2, <1>7, <2>1, <3>2, <3>3, <3>4, MovingKeeps
  <2>5. CASE reply.sub # SUB.NAK
    <3> DEFINE late == window(Head(todo)) - left + 1
    <3>1. Reply(reply.arg, late) BY <1>9, <2>5 DEF Wait
    <3>2. late \in Nat BY <1>3, <1>4
    <3>3. /\ MovesTo /\ worst' \in Nat /\ roundtrip' \in Nat
          /\ found' = found \/ (cmd.op = "scan" /\ found' = found \cup {Head(todo).to})
      <4> HIDE DEF late, reply
      <4> QED BY <1>1, <3>1, <3>2, ReplyMoves DEF IInv
    <3>4. (cmd.op # "scan" => found' = {}) /\ FoundIsPresent'
      BY <1>1, <2>2, <2>3, <3>3 DEF FoundIsPresent
    <3>5. req' = NONE BY <1>1, <1>2
    <3> QED BY <1>1, <1>2, <1>7, <2>1, <3>3, <3>4, <3>5, MovingKeeps
  <2> QED BY <2>4, <2>5
<1> QED BY <1>8, <1>9

----------------------------------------------------------------------------
(* The theorems                                                            *)

LEMMA InitKeeps == ASSUME Init PROVE IInv
<1>1. /\ air = <<>> /\ rx = <<>> /\ inbox = <<>> /\ todo = <<>> /\ req = NONE
      /\ phase = "end" /\ left = 0 /\ worst = 0 /\ roundtrip = 0 /\ found = {}
  BY DEF Init
<1>2. AirInv BY <1>1, Nothing DEF AirInv
<1>3. ToolInv
  <2> DEFINE S == RequestsOf(cmd.op)
  <2>1. <<>> \in Seq(S)
    <3> HIDE DEF S
    <3> QED OBVIOUS
  <2> QED BY <1>1, <2>1 DEF ToolInv
<1>4. Lateness BY <1>1, Nothing DEF Lateness
<1> QED BY <1>1, <1>2, <1>3, <1>4 DEF IInv, RequestInv, ScanInv, FoundIsPresent

LEMMA StutterKeeps == ASSUME IInv, UNCHANGED vars PROVE IInv'
<1>1. Still /\ air' = air /\ req' = req /\ trouble' = trouble /\ did' = did
  BY DEF vars, Still, moduleVars
<1> QED BY <1>1, StillKeeps

LEMMA StepKeeps == ASSUME IInv, [Next]_vars PROVE IInv'
<1>1. CASE \E c \in Commands : Start(c) BY <1>1, StartKeeps
<1>2. CASE Tool
  BY <1>2, ListenKeeps, TransmitKeeps, WithheldKeeps, WaitKeeps, SleepKeeps DEF Tool
<1>3. CASE Idle BY <1>3, IdleKeeps
<1>4. CASE Module BY <1>4, ModuleAnswers, AnsweredKeeps, QuietStepsKeep DEF Module
<1>5. CASE GateOpens \/ FactoryExpires BY <1>5, QuietStepsKeep
<1>6. CASE Faults
  BY <1>6, QuietStepsKeep, CascadeKeeps, GarbleRequestKeeps, LoseReplyKeeps, GarbleReplyKeeps
     DEF Faults
<1>7. CASE UNCHANGED vars BY <1>7, StutterKeeps
<1> QED BY <1>1, <1>2, <1>3, <1>4, <1>5, <1>6, <1>7 DEF Next

\* At most one reply is under way, and only while its request is waited for or
\* in the quiet period behind it.
THEOREM Inductive == Spec => []IInv
BY InitKeeps, StepKeeps, PTL DEF Spec

\* Rule 8: when a request goes out no reply to an earlier one is left that could
\* be taken for its own, on the wire, in the adapter or in the tool.
\* (request: time.sleep after a time-out, reset_input_buffer)
THEOREM RepliesAreNotMixedUp ==
  Spec => [](phase = "wait" /\ req # NONE => NoReply /\ Silent(inbox) /\ Silent(rx))
<1>1. IInv => (phase = "wait" /\ req # NONE => NoReply /\ Silent(inbox) /\ Silent(rx))
  BY DEF IInv, Lateness
<1> QED BY <1>1, Inductive, PTL

\* A scan in which no request reached the wrong address reports a module under
\* its own ID only: replies may be late, lost or garbled, in their ID too, and
\* requests lost.  (cmd_scan)
THEOREM ScansFindWhatIsThere == Spec => []FoundIsPresent
<1>1. IInv => FoundIsPresent BY DEF IInv, ScanInv
<1> QED BY <1>1, Inductive, PTL

\* The USERROW changes only in a module that is unlocked and may be written;
\* and, unless a request of the session was garbled, only while write_page or
\* set_id waits for the reply to its programming request.
WritesAreAsked ==
  stored' # stored =>
    /\ lock = "factory" /\ gate = "write"
    /\ "misread" \in trouble
       \/ /\ phase = "wait"
          /\ \/ cmd.op = "write_page" /\ Head(todo).name = "COMMIT_CAL"
             \/ cmd.op = "set_id" /\ Head(todo).name = "SET_ID"

\* The module only programs a page or stages a word once it is unlocked.
LEMMA InFactory ==
  ASSUME NEW s \in 26 .. 29, NEW a, Refusal(s, a) = 0
  PROVE  lock = "factory" /\ gate = "write"
<1>1. /\ s >= SUB.UNLOCK_1 /\ s >= SUB.STAGE_ADDR
      /\ s # SUB.LOCK /\ s # SUB.NAK /\ s # SUB.LATCH_SYNC BY DEF SUB
<1>2. NAK_REASON.NOT_ELIGIBLE # 0 /\ NAK_REASON.NOT_UNLOCKED # 0 BY DEF NAK_REASON
<1>3. gate = "write" BY <1>1, <1>2 DEF Refusal
<1>4. lock = "factory" BY <1>1, <1>2, <1>3 DEF Refusal
<1> QED BY <1>3, <1>4

LEMMA Gated == Writes => lock = "factory" /\ gate = "write"
<1>1. \A s \in 26 .. 29 : \A a : Refusal(s, a) = 0 => lock = "factory" /\ gate = "write"
  BY InFactory
<1>2. Writes => request.sub \in 26 .. 29 /\ Refusal(request.sub, request.arg) = 0
  BY SubNumbers DEF Writes, ServedAs
<1> QED BY <1>1, <1>2

LEMMA WhatIsWritten ==
  ASSUME IInv, Writes, ~({"garbled", "misread"} \subseteq trouble)
  PROVE  /\ phase = "wait" /\ lock = "factory" /\ gate = "write"
         /\ \/ cmd.op = "write_page" /\ Head(todo).name = "COMMIT_CAL"
            \/ cmd.op = "set_id" /\ Head(todo).name = "SET_ID"
<1>1. /\ req # NONE /\ request.sub \in {28, 29} /\ Refusal(request.sub, request.arg) = 0
  BY SubNumbers DEF Writes, ServedAs, Served
<1>2. phase = "wait" /\ request.sub = SUB[Head(todo).name]
  <2>1. request.sub # SUB.RESET BY <1>1, SubNumbers
  <2> QED BY <1>1, <2>1 DEF IInv, RequestInv, AsAsked
<1>3. Head(todo) \in RequestsOf(cmd.op) BY <1>2, HeadIsRequest DEF IInv
<1>4. Head(todo).name \in DOMAIN SUB BY <1>3 DEF RequestsOf, Request
<1>5. Head(todo).name \in {"COMMIT_CAL", "SET_ID"} BY <1>1, <1>2, <1>4, SubNumbers
<1>6. lock = "factory" /\ gate = "write" BY <1>1, Gated
<1> QED BY <1>2, <1>3, <1>5, <1>6 DEF RequestsOf

LEMMA WhoWrites == ASSUME [Next]_vars, stored' # stored PROVE Writes
<1>1. CASE \E c \in Commands : Start(c) BY <1>1 DEF Start, moduleVars
<1>2. CASE Tool BY <1>2 DEF Tool, Listen, Transmit, Withheld, Wait, Sleep, moduleVars
<1>3. CASE Idle \/ GateOpens \/ FactoryExpires
  BY <1>3 DEF Idle, GateOpens, FactoryExpires
<1>4. CASE Module
  BY <1>4 DEF Module, Unheard, Rejected, Read, SampleStart, Unlock1, Unlock2, StageAddr,
              StageData, Program, ProgramFails, Lock, Reset, moduleVars
<1>5. CASE Faults
  BY <1>5 DEF Faults, Restart, Cascade, LoseRequest, GarbleRequest, LoseReply, GarbleReply,
              moduleVars
<1>6. CASE UNCHANGED vars BY <1>6 DEF vars, moduleVars
<1> QED BY <1>1, <1>2, <1>3, <1>4, <1>5, <1>6 DEF Next

\* No read, scan, latch or reset of the tool, and no late or repeated request,
\* ever touches the calibration page; a garbled request does only in a module
\* that somebody has unlocked.  (Module.write_page, Module.set_id)
THEOREM PageWritesAreAsked == Spec => [][WritesAreAsked]_vars
<1>1. IInv /\ [Next]_vars => [WritesAreAsked]_vars
  BY WhoWrites, WhatIsWritten, Gated DEF WritesAreAsked
<1> QED BY <1>1, Inductive, PTL DEF Spec

\* A cascade frame that was read has made the session unsafe.
PoisonInv == poison = 2 => unsafe

LEMMA PoisonStep == ASSUME PoisonInv, [Next]_vars PROVE PoisonInv'
<1>1. CASE \E c \in Commands : Start(c) BY <1>1 DEF PoisonInv, Start
<1>2. CASE Listen \/ Wait
  <2>1. unsafe' = (unsafe \/ Foreign(Pumped)) /\ Poison(TRUE)
    BY <1>2 DEF Listen, Wait, _note
  <2>2. Foreign(Pumped) => unsafe' BY <2>1
  <2>3. ~Foreign(Pumped) => poison' \in {1, poison} BY <2>1 DEF Poison
  <2>4. unsafe => unsafe' BY <2>1
  <2> QED BY <2>2, <2>3, <2>4 DEF PoisonInv
<1>3. CASE Sleep
  <2>1. poison' \in {1, poison} /\ unsafe' = unsafe BY <1>3 DEF Sleep, Poison
  <2> QED BY <2>1 DEF PoisonInv
<1>4. CASE Transmit \/ Withheld BY <1>4 DEF PoisonInv, Transmit, Withheld, linkVars
<1>5. CASE Idle \/ GateOpens \/ FactoryExpires
  BY <1>5 DEF PoisonInv, Idle, GateOpens, FactoryExpires, linkVars
<1>6. CASE Module
  BY <1>6 DEF PoisonInv, Module, Unheard, Rejected, Read, SampleStart, Unlock1, Unlock2,
              StageAddr, StageData, Program, ProgramFails, Lock, Reset, linkVars
<1>7. CASE Faults
  BY <1>7 DEF PoisonInv, Faults, Restart, Cascade, LoseRequest, GarbleRequest, LoseReply,
              GarbleReply, linkVars
<1>8. CASE UNCHANGED vars BY <1>8 DEF PoisonInv, vars, linkVars
<1> QED BY <1>1, <1>2, <1>3, <1>4, <1>5, <1>6, <1>7, <1>8 DEF Next, Tool

\* Nothing is sent in a session that has read a cascade frame.  (_note, _check)
THEOREM NothingAfterCascade == Spec => SilentAfterCascade
<1>1. Init => PoisonInv BY DEF Init, PoisonInv
<1>2. PoisonInv /\ [Next]_vars => [phase = "send" /\ phase' = "wait" => poison # 2]_vars
  <2> SUFFICES ASSUME PoisonInv, Next, phase = "send", phase' = "wait"
               PROVE  poison # 2
    OBVIOUS
  <2>1. CASE \E c \in Commands : Start(c) BY <2>1 DEF Start
  <2>2. CASE Transmit BY <2>2 DEF Transmit, PoisonInv
  <2>3. CASE Withheld BY <2>3 DEF Withheld, End
  <2>4. CASE Listen \/ Wait \/ Sleep BY <2>4 DEF Listen, Wait, Sleep
  <2>5. CASE Idle \/ GateOpens \/ FactoryExpires
    BY <2>5 DEF Idle, GateOpens, FactoryExpires, toolVars
  <2>6. CASE Module
    BY <2>6 DEF Module, Unheard, Rejected, Read, SampleStart, Unlock1, Unlock2, StageAddr,
                StageData, Program, ProgramFails, Lock, Reset, toolVars
  <2>7. CASE Faults
    BY <2>7 DEF Faults, Restart, Cascade, LoseRequest, GarbleRequest, LoseReply, GarbleReply,
                toolVars
  <2> QED BY <2>1, <2>2, <2>3, <2>4, <2>5, <2>6, <2>7 DEF Next, Tool
<1>3. PoisonInv /\ [Next]_vars => PoisonInv' BY PoisonStep
<1> QED BY <1>1, <1>2, <1>3, PTL DEF Spec, SilentAfterCascade

----------------------------------------------------------------------------
(* The reads of a record                                                   *)

LEMMA RecordNumbers ==
  /\ Records \subseteq DOMAIN SUB
  /\ \A name \in DOMAIN SUB : SUB[name] \in RecordSub => name \in Records
  /\ \A n, m \in Records : SUB[n] = SUB[m] => n = m
  /\ \A s \in {0, SUB.SAMPLE_START, SUB.UNLOCK_1, SUB.UNLOCK_2, SUB.STAGE_ADDR, SUB.STAGE_DATA,
               SUB.COMMIT_CAL, SUB.SET_ID, SUB.LOCK, SUB.RESET} : s \notin RecordSub
  /\ SUB.NAK = 0
<1>1. RecordSub = {SUB.GET_ANGLE_RAW, SUB.GET_ANGLE_COMP, SUB.GET_LATCHED, SUB.GET_ERRCNT,
                   SUB.GET_SAMPLE} BY DEF RecordSub, Records
<1>2. Records \subseteq DOMAIN SUB BY DEF Records, SUB
<1>3. \A name \in DOMAIN SUB : SUB[name] \in RecordSub => name \in Records
  BY <1>1 DEF Records, SUB
<1>4. \A n, m \in Records : SUB[n] = SUB[m] => n = m BY DEF Records, SUB
<1>5. \A s \in {0, SUB.SAMPLE_START, SUB.UNLOCK_1, SUB.UNLOCK_2, SUB.STAGE_ADDR, SUB.STAGE_DATA,
               SUB.COMMIT_CAL, SUB.SET_ID, SUB.LOCK, SUB.RESET} : s \notin RecordSub
  BY <1>1 DEF SUB
<1> QED BY <1>2, <1>3, <1>4, <1>5 DEF SUB

\* What is sent to read records: no request of a record but its first has ARG 0.
Tidy(s) ==
  /\ IsSequence(s)
  /\ \A i \in 1 .. Len(s) : s[i].arg \in Nat /\ s[i].name # "RESET"
  /\ \A i, j \in 1 .. Len(s) :
       i < j /\ s[i].name = s[j].name /\ s[i].name \in Records => s[j].arg # 0
ReadBy(s) == {s[i].name : i \in 1 .. Len(s)} \cap Records

LEMMA TidyJoin ==
  ASSUME NEW s, Tidy(s), NEW t, Tidy(t), ReadBy(s) \cap ReadBy(t) = {}
  PROVE  Tidy(s \o t) /\ ReadBy(s \o t) = ReadBy(s) \cup ReadBy(t)
<1> DEFINE u == s \o t
           n == Len(s)
           m == Len(t)
<1>1. /\ IsSequence(u) /\ Len(u) = n + m
      /\ \A i \in 1 .. n : u[i] = s[i]
      /\ \A i \in 1 .. m : u[n + i] = t[i] BY Joined DEF Tidy
<1>2. n \in Nat /\ m \in Nat BY DEF Tidy, IsSequence
<1> HIDE DEF u, n, m
<1>3. \A i \in 1 .. n + m : i \in 1 .. n \/ (i - n \in 1 .. m /\ n + (i - n) = i)
  BY <1>2
<1>4. \A i \in 1 .. n : i \in 1 .. n + m BY <1>2
<1>5. \A i \in 1 .. m : n + i \in 1 .. n + m BY <1>2
<1>6. ASSUME NEW i \in 1 .. n + m
      PROVE  u[i].arg \in Nat /\ u[i].name # "RESET"
  <2>1. CASE i \in 1 .. n BY <1>1, <2>1 DEF Tidy, n
  <2>2. CASE i - n \in 1 .. m /\ n + (i - n) = i BY <1>1, <2>2 DEF Tidy, m
  <2> QED BY <1>3, <2>1, <2>2
<1>7. ASSUME NEW i \in 1 .. n + m, NEW j \in 1 .. n + m, i < j, u[i].name = u[j].name,
             u[i].name \in Records
      PROVE  u[j].arg # 0
  <2>1. CASE i \in 1 .. n /\ j \in 1 .. n BY <1>1, <1>7, <2>1 DEF Tidy, n
  <2>2. CASE i \in 1 .. n /\ j - n \in 1 .. m /\ n + (j - n) = j
    <3>1. u[i].name \in ReadBy(s) BY <1>1, <1>7, <2>2 DEF ReadBy, n
    <3>2. u[j].name \in ReadBy(t) BY <1>1, <1>7, <2>2 DEF ReadBy, m
    <3> QED BY <1>7, <3>1, <3>2
  <2>3. CASE i - n \in 1 .. m /\ n + (i - n) = i /\ j - n \in 1 .. m /\ n + (j - n) = j
    <3> DEFINE k == i - n
               l == j - n
    <3>1. k < l BY <1>2, <1>7
    <3>2. k \in 1 .. m /\ l \in 1 .. m /\ u[i] = t[k] /\ u[j] = t[l] BY <1>1, <2>3
    <3> HIDE DEF k, l
    <3> QED BY <1>7, <3>1, <3>2 DEF Tidy, m
  <2>4. ~(j \in 1 .. n /\ i \notin 1 .. n) BY <1>2, <1>7
  <2> QED BY <1>3, <2>1, <2>2, <2>3, <2>4
<1>8. ReadBy(u) = ReadBy(s) \cup ReadBy(t)
  <2>1. {u[i].name : i \in 1 .. n + m} = {s[i].name : i \in 1 .. n} \cup {t[i].name : i \in 1 .. m}
    <3>1. \A i \in 1 .. n + m :
            u[i].name \in {s[k].name : k \in 1 .. n} \cup {t[k].name : k \in 1 .. m}
      <4> TAKE i \in 1 .. n + m
      <4>1. CASE i \in 1 .. n BY <1>1, <4>1
      <4>2. CASE i - n \in 1 .. m /\ n + (i - n) = i BY <1>1, <4>2
      <4> QED BY <1>3, <4>1, <4>2
    <3>2. \A i \in 1 .. n : s[i].name \in {u[k].name : k \in 1 .. n + m} BY <1>1, <1>4
    <3>3. \A i \in 1 .. m : t[i].name \in {u[k].name : k \in 1 .. n + m} BY <1>1, <1>5
    <3> QED BY <3>1, <3>2, <3>3
  <2> QED BY <1>1, <2>1 DEF ReadBy, n, m
<1> QED BY <1>1, <1>6, <1>7, <1>8 DEF Tidy, u

LEMMA TidyEach ==
  ASSUME NEW name, name # "RESET", NEW n \in Nat
  PROVE  Tidy(Each(name, n)) /\ ReadBy(Each(name, n)) \subseteq {name}
<1> DEFINE s == Each(name, n)
<1>1. s = [i \in 1 .. n |-> Rq(name, i - 1)] BY DEF Each
<1>2. \A i \in 1 .. n : s[i].name = name /\ s[i].arg = i - 1 BY <1>1 DEF Rq
<1>3. IsSequence(s) /\ Len(s) = n
  <2>1. s = [i \in 1 .. n |-> s[i]] BY <1>1
  <2> HIDE DEF s
  <2> QED BY <2>1, Listed
<1> HIDE DEF s
<1>4. Tidy(s) /\ ReadBy(s) \subseteq {name} BY <1>2, <1>3 DEF Tidy, ReadBy
<1> QED BY <1>4 DEF s

LEMMA TidyOne ==
  ASSUME NEW name, name # "RESET", NEW a \in Nat
  PROVE  Tidy(<<Rq(name, a)>>) /\ ReadBy(<<Rq(name, a)>>) \subseteq {name}
<1> DEFINE r == Rq(name, a)
<1>1. r.name = name /\ r.arg = a BY DEF Rq
<1> HIDE DEF r
<1>2. IsSequence(<<r>>) /\ Len(<<r>>) = 1 /\ <<r>>[1] = r BY DEF IsSequence
<1>3. \A i \in 1 .. 1 : i = 1 OBVIOUS
<1>4. Tidy(<<r>>) /\ ReadBy(<<r>>) \subseteq {name} BY <1>1, <1>2, <1>3 DEF Tidy, ReadBy
<1> QED BY <1>4 DEF r

LEMMA TidyPlain ==
  ASSUME NEW s, Tidy(s), NEW t, Tidy(t), ReadBy(s) = {} \/ ReadBy(t) = {}
  PROVE  Tidy(s \o t) /\ ReadBy(s \o t) = ReadBy(s) \cup ReadBy(t)
BY TidyJoin

LEMMA TidyFields ==
  ASSUME NEW name \in Records \cup {"GET_FW_VER", "GET_ENV", "GET_TRIM"}
  PROVE  Tidy(Fields(name)) /\ ReadBy(Fields(name)) \subseteq {name}
<1>1. FIELDS[name] \in Nat BY Fielded
<1>2. name # "RESET" BY DEF Records
<1> QED BY <1>1, <1>2, TidyEach DEF Fields

LEMMA PollReads ==
  /\ Tidy(sample_poll) /\ Len(sample_poll) = FIELDS["GET_SAMPLE"]
  /\ \A i \in 1 .. Len(sample_poll) :
       sample_poll[i].name = "GET_SAMPLE" /\ sample_poll[i].arg = i - 1
<1> DEFINE n == FIELDS["GET_SAMPLE"]
<1>1. "GET_SAMPLE" \in Records BY DEF Records
<1>2. n \in Nat /\ Tidy(sample_poll)
  BY <1>1, Fielded, TidyFields DEF sample_poll, _record
<1>3. sample_poll = [i \in 1 .. n |-> Rq("GET_SAMPLE", i - 1)]
  BY DEF sample_poll, _record, Fields, Each
<1> HIDE DEF n
<1>4. Len(sample_poll) = n
  <2> DEFINE s == sample_poll
  <2>1. s = [i \in 1 .. n |-> s[i]] BY <1>3
  <2> HIDE DEF s
  <2>2. Len(s) = n BY <1>2, <2>1, Listed
  <2> QED BY <2>2 DEF s
<1>5. \A i \in 1 .. n : sample_poll[i].name = "GET_SAMPLE" /\ sample_poll[i].arg = i - 1
  BY <1>3 DEF Rq
<1> QED BY <1>2, <1>4, <1>5 DEF n

LEMMA ClearReads == Tidy(cmd_clear) /\ ReadBy(cmd_clear) \subseteq {"GET_ERRCNT"}
<1>1. Tidy(clear_counters) /\ ReadBy(clear_counters) = {}
  <2>1. MAGIC.CLR_ERRCNT \in Nat BY DEF MAGIC
  <2>2. Tidy(clear_counters) /\ ReadBy(clear_counters) \subseteq {"CLR_ERRCNT"}
    BY <2>1, TidyOne DEF clear_counters
  <2> QED BY <2>2 DEF ReadBy, Records
<1>2. Tidy(counters) /\ ReadBy(counters) \subseteq {"GET_ERRCNT"}
  <2>1. "GET_ERRCNT" \in Records BY DEF Records
  <2> QED BY <2>1, TidyFields DEF counters, _record
<1>3. Tidy(clear_counters \o counters)
      /\ ReadBy(clear_counters \o counters) = ReadBy(clear_counters) \cup ReadBy(counters)
  BY <1>1, <1>2, TidyPlain
<1> QED BY <1>1, <1>2, <1>3 DEF cmd_clear

Plain(s) == Tidy(s) /\ ReadBy(s) = {}

LEMMA PlainJoin ==
  ASSUME NEW s, Plain(s), NEW t, Plain(t)
  PROVE  Plain(s \o t)
BY TidyPlain DEF Plain

LEMMA PlainOne ==
  ASSUME NEW name, name \notin Records, name # "RESET"
  PROVE  Plain(<<Rq(name, 0)>>)
<1>1. Tidy(<<Rq(name, 0)>>) /\ ReadBy(<<Rq(name, 0)>>) \subseteq {name} BY TidyOne
<1> QED BY <1>1 DEF Plain, ReadBy

LEMMA PlainPings == Plain(measure_round_trip)
<1> DEFINE s == measure_round_trip
<1>1. N_RTT \in Nat BY ModuleAssumption
<1>2. s = [i \in 1 .. N_RTT |-> [Rq("PING", 0) EXCEPT !.window = TIMEOUT_RTT]]
  BY DEF measure_round_trip
<1>3. \A i \in 1 .. N_RTT : s[i].name = "PING" /\ s[i].arg = 0 BY <1>2 DEF Rq
<1>4. s = [i \in 1 .. N_RTT |-> s[i]] BY <1>2
<1> HIDE DEF s
<1>5. IsSequence(s) /\ Len(s) = N_RTT BY <1>1, <1>4, Listed
<1>6. "PING" \notin Records BY DEF Records
<1> QED BY <1>3, <1>5, <1>6 DEF Plain, Tidy, ReadBy, s

LEMMA PlainReads ==
  /\ Plain(firmware) /\ Plain(device_id) /\ Plain(health) /\ Plain(cal_status)
  /\ Plain(cfg_verify) /\ Plain(environment) /\ Plain(trim) /\ Plain(sernum)
<1>1. /\ Plain(device_id) /\ Plain(health) /\ Plain(cal_status) /\ Plain(cfg_verify)
      /\ Plain(<<Rq("GET_PROTO_VER", 0)>>)
  BY PlainOne DEF Records, device_id, health, cal_status, cfg_verify
<1>2. ASSUME NEW name \in {"GET_FW_VER", "GET_ENV", "GET_TRIM"} PROVE Plain(Fields(name))
  <2>1. Tidy(Fields(name)) /\ ReadBy(Fields(name)) \subseteq {name} BY TidyFields
  <2> QED BY <2>1 DEF Plain, ReadBy, Records
<1>3. Plain(firmware) /\ Plain(trim) BY <1>1, <1>2, PlainJoin DEF firmware, trim
<1>4. Plain(sernum)
  <2>1. Len(Serial) \in Nat BY ModuleAssumption
  <2>2. Tidy(sernum) /\ ReadBy(sernum) \subseteq {"GET_SERNUM"}
    BY <2>1, TidyEach DEF sernum
  <2> QED BY <2>2 DEF Plain, ReadBy, Records
<1>5. Plain(environment)
  <2> DEFINE r1 == Rq("GET_DMAG", 0)
             r2 == Rq("GET_STAT", 0)
             r3 == Rq("GET_SAFETY", 0)
  <2>1. \A r \in {r1, r2, r3} : r.arg = 0 /\ r.name \notin Records /\ r.name # "RESET"
    BY DEF Rq, Records
  <2> HIDE DEF r1, r2, r3
  <2>2. IsSequence(<<r1, r2, r3>>) /\ Len(<<r1, r2, r3>>) = 3
        /\ \A i \in 1 .. 3 : <<r1, r2, r3>>[i] \in {r1, r2, r3} BY DEF IsSequence
  <2>3. Plain(<<r1, r2, r3>>)
    <3> DEFINE s == <<r1, r2, r3>>
    <3>1. /\ IsSequence(s) /\ Len(s) = 3
          /\ \A i \in 1 .. 3 : s[i].arg = 0 /\ s[i].name \notin Records /\ s[i].name # "RESET"
      BY <2>1, <2>2
    <3> HIDE DEF s
    <3> QED BY <3>1 DEF Plain, Tidy, ReadBy, s
  <2>4. environment = Fields("GET_ENV") \o <<r1, r2, r3>> BY DEF environment, r1, r2, r3
  <2> QED BY <1>2, <2>3, <2>4, PlainJoin
<1> QED BY <1>1, <1>3, <1>4, <1>5

LEMMA InfoReads ==
  Tidy(cmd_info) /\ ReadBy(cmd_info) \subseteq {"GET_ERRCNT", "GET_ANGLE_COMP", "GET_ANGLE_RAW"}
<1> DEFINE a == measure_round_trip \o firmware \o device_id \o health \o cal_status
                  \o cfg_verify \o environment \o trim
           c == counters
           b == a \o c
           d == b \o sernum
           s == angle
           e == d \o s
           w == angle_raw
<1>1. Plain(a) BY PlainReads, PlainPings, PlainJoin
<1>2. cmd_info = e \o w BY DEF cmd_info
<1>3. /\ Tidy(c) /\ ReadBy(c) \subseteq {"GET_ERRCNT"}
      /\ Tidy(s) /\ ReadBy(s) \subseteq {"GET_ANGLE_COMP"}
      /\ Tidy(w) /\ ReadBy(w) \subseteq {"GET_ANGLE_RAW"}
  <2>1. {"GET_ERRCNT", "GET_ANGLE_COMP", "GET_ANGLE_RAW"} \subseteq Records
    BY DEF Records
  <2> QED BY <2>1, TidyFields DEF counters, angle, angle_raw, _record
<1> HIDE DEF a, c, s, w
<1>4. Tidy(b) /\ ReadBy(b) = ReadBy(c) BY <1>1, <1>3, TidyPlain DEF Plain
<1> HIDE DEF b
<1>5. Tidy(d) /\ ReadBy(d) = ReadBy(c) BY <1>4, PlainReads, TidyPlain DEF Plain
<1> HIDE DEF d
<1>6. Tidy(e) /\ ReadBy(e) = ReadBy(c) \cup ReadBy(s)
  <2>1. ReadBy(d) \cap ReadBy(s) = {} BY <1>3, <1>5
  <2> QED BY <1>3, <1>5, <2>1, TidyJoin
<1> HIDE DEF e
<1>7. Tidy(e \o w) /\ ReadBy(e \o w) = ReadBy(e) \cup ReadBy(w)
  <2>1. ReadBy(e) \cap ReadBy(w) = {} BY <1>3, <1>6
  <2> QED BY <1>3, <1>6, <2>1, TidyJoin
<1> QED BY <1>2, <1>3, <1>6, <1>7

----------------------------------------------------------------------------
(* The invariant: a record is one snapshot                                 *)

LEMMA ScriptReads ==
  ASSUME cmd.op \in {"info", "clear", "sample"}
  PROVE  /\ Tidy(Script)
         /\ cmd.op # "sample" => Script = Plan(cmd) /\ "GET_SAMPLE" \notin ReadBy(Script)
<1>1. CASE cmd.op = "info"
  <2>1. Script = cmd_info /\ Plan(cmd) = cmd_info BY <1>1 DEF Script, Plan
  <2> QED BY <1>1, <2>1, InfoReads
<1>2. CASE cmd.op = "clear"
  <2>1. Script = cmd_clear /\ Plan(cmd) = cmd_clear BY <1>2 DEF Script, Plan
  <2> QED BY <1>2, <2>1, ClearReads
<1>3. CASE cmd.op = "sample" BY <1>3, PollReads DEF Script
<1> QED BY <1>1, <1>2, <1>3

\* The start of a sample is one request.
LEMMA StartingHead ==
  ASSUME Starting
  PROVE  /\ Len(todo) = 1 /\ Head(todo).name = "SAMPLE_START" /\ todo # <<>>
         /\ ~Snapshot(Head(todo)) /\ Head(todo).name # "GET_SAMPLE"
         /\ Head(todo).name \notin Records
<1> DEFINE r == Rq("SAMPLE_START", Tagged(TAG.SAMPLE_START, cmd.e))
<1>1. todo = <<r>> BY DEF Starting, Plan, cmd_sample, sample_start
<1>2. r.name = "SAMPLE_START" BY DEF Rq
<1> HIDE DEF r
<1>3. Len(todo) = 1 /\ Head(todo) = r /\ todo # <<>> BY <1>1
<1> QED BY <1>2, <1>3 DEF Snapshot, Records

\* The next request of a script.
LEMMA NextOfScript ==
  ASSUME IInv, SnapType, Reading, InStep, todo # <<>>
  PROVE  /\ Len(got) \in Nat /\ Len(todo) \in Nat /\ Len(todo) >= 1
         /\ Len(Script) = Len(got) + Len(todo)
         /\ Len(got) + 1 \in 1 .. Len(Script) /\ Head(todo) = Script[Len(got) + 1]
         /\ Head(todo).arg \in Nat /\ Head(todo).name # "RESET"
<1>1. Len(got) \in Nat /\ Tidy(Script) /\ Len(Script) \in Nat
  BY ScriptReads DEF SnapType, IsSequence, Reading, Tidy
<1> DEFINE S == RequestsOf(cmd.op)
<1>2. todo \in Seq(S) BY DEF IInv, ToolInv
<1> HIDE DEF S
<1>3. Len(todo) \in Nat /\ Len(todo) # 0 /\ Head(todo) = todo[1] BY <1>2
<1> DEFINE n == Len(got)
           m == Len(todo)
           k == Len(Script)
<1>4. n \in Nat /\ m \in Nat /\ m # 0 /\ k = n + m BY <1>1, <1>3 DEF InStep
<1> HIDE DEF n, m, k
<1>5. m >= 1 /\ 1 \in 1 .. m /\ n + 1 \in 1 .. k BY <1>4
<1>6. Head(todo) = Script[n + 1] BY <1>3, <1>5 DEF InStep, n, m
<1>7. Head(todo).arg \in Nat /\ Head(todo).name # "RESET"
  BY <1>1, <1>5, <1>6 DEF Tidy, k
<1> QED BY <1>4, <1>5, <1>6, <1>7 DEF n, m, k

\* A tool that does nothing keeps what the module and the bus do not disturb: a
\* snapshot that is taken anew is one that no reply was read from yet.
Fresh(name) == \A i \in 1 .. Len(got) : Snapshot(Script[i]) => Script[i].name # name
SnapKept ==
  \A name \in Records :
    snap'[SUB[name]] \in {snap[SUB[name]], 2} \/ (InStep /\ Fresh(name))

LEMMA StillReads ==
  ASSUME IInv, ReadsInv, RecordSnapshot, Still, trouble \subseteq trouble',
         Reading' /\ phase # "end" => SnapKept,
         Reading' /\ phase = "wait" =>
           /\ \A i \in 1 .. Len(air') : ReplyAt(i)' => ReplyFits(air[i].frame)'
           /\ req' # NONE => req' = req
  PROVE  ReadsInv' /\ RecordSnapshot'
<1>1. phase' = phase /\ todo' = todo /\ cmd' = cmd /\ got' = got /\ outcome' = outcome
  BY DEF Still, toolVars
<1>2. Reading' => Reading BY <1>1 DEF Reading
<1>3. Script' = Script /\ InStep' = InStep /\ Starting' = Starting
  BY <1>1 DEF Script, InStep, Starting
<1>4. RecordSnapshot' BY <1>1 DEF RecordSnapshot, OneReading, SampleWhole
<1>5. ASSUME Reading', phase # "end", InStep, OneSnapshot
      PROVE  OneSnapshot'
  <2>1. SnapKept BY <1>5
  <2> SUFFICES ASSUME NEW i \in 1 .. Len(got), Snapshot(Script[i])
               PROVE  Held(Script[i])' \in {got[i], 2}
    BY <1>1, <1>3, <1>5 DEF OneSnapshot
  <2>2. Held(Script[i]) \in {got[i], 2} /\ Script[i].name \in Records
    BY <1>5 DEF OneSnapshot, Snapshot
  <2>3. snap'[SUB[Script[i].name]] \in {snap[SUB[Script[i].name]], 2}
    BY <2>1, <2>2 DEF SnapKept, Fresh
  <2> QED BY <1>3, <2>2, <2>3 DEF Held
<1>6. ReadsInv'
  <2> SUFFICES ASSUME Reading'
               PROVE  /\ phase' \in {"listen", "send", "wait", "quiet"}
                           => Starting' \/ (InStep' /\ OneSnapshot')
                      /\ phase' = "sleep" => cmd'.op = "sample" /\ todo' = sample_poll
                      /\ phase' = "wait" =>
                           \A i \in 1 .. Len(air') : ReplyAt(i)' => ReplyFits(air[i].frame)'
                      /\ phase' = "wait" /\ req' # NONE => request'.arg = Argument(Head(todo))'
    BY DEF ReadsInv
  <2>1. phase' \in {"listen", "send", "wait", "quiet"} => Starting' \/ (InStep' /\ OneSnapshot')
    BY <1>1, <1>2, <1>3, <1>5 DEF ReadsInv
  <2>2. phase' = "sleep" => cmd'.op = "sample" /\ todo' = sample_poll
    BY <1>1, <1>2 DEF ReadsInv
  <2>3. phase' = "wait" /\ req' # NONE => request'.arg = Argument(Head(todo))'
    BY <1>1, <1>2 DEF ReadsInv, request, Argument
  <2> QED BY <1>1, <2>1, <2>2, <2>3
<1> QED BY <1>4, <1>6

\* The reply on its way is the only one.
LEMMA AnswerReads ==
  ASSUME IInv, req # NONE, phase = "wait", todo' = todo,
         NEW met, NEW sub, NEW arg, AnswerAfter(met, sub, arg),
         \/ ~Snapshot(Head(todo))
         \/ sub \in 0 .. 31 /\ arg \in Word /\ (sub = SUB.NAK \/ Fits(arg)')
  PROVE  \A i \in 1 .. Len(air') : ReplyAt(i)' => ReplyFits(air[i].frame)'
<1> DEFINE f == Frame(0, sub, arg)
<1>0. PICK n : n = Len(air) OBVIOUS
<1>1. PICK d \in 1 .. MaxLatency :
        /\ air # <<>> => d >= air[Len(air)].due
        /\ air' = Append(air, [frame |-> f, due |-> d]) BY DEF AnswerAfter
<1>2. IsReply(f) BY ReplyFrame
<1>3. ReplyFits(f)'
  <2>1. CASE ~Snapshot(Head(todo)) BY <2>1 DEF ReplyFits, Fits
  <2>2. CASE sub \in 0 .. 31 /\ arg \in Word /\ (sub = SUB.NAK \/ Fits(arg)')
    <3>1. decode_cmd3(f.data).sub = sub /\ decode_cmd3(f.data).arg = arg
      <4>1. 0 \in 0 .. 31 OBVIOUS
      <4> QED BY <2>2, <4>1, RequestFrame
    <3> HIDE DEF f
    <3> QED BY <2>2, <3>1 DEF ReplyFits
  <2> QED BY <2>1, <2>2
<1> HIDE DEF f
<1>4. /\ n \in Nat /\ Len(air') = n + 1 /\ air'[n + 1].frame = f
      /\ \A i \in 1 .. n : ReplyAt(i)' <=> ReplyAt(i)
  <2>1. d \in Nat /\ d >= 1 /\ d <= MaxLatency BY Times
  <2>2. air # <<>> => d >= air[Len(air)].due BY <1>1
  <2>3. f.id \in 0 .. 31 BY <1>2 DEF IsReply
  <2> QED BY <1>0, <1>1, <2>1, <2>2, <2>3, FrameAdded DEF IInv
<1>5. NoReply BY DEF IInv, Lateness
<1>6. ASSUME NEW i \in 1 .. Len(air'), ReplyAt(i)' PROVE i = n + 1
  <2>1. ~(i \in 1 .. n) BY <1>0, <1>4, <1>5, <1>6 DEF NoReply
  <2> QED BY <1>4, <2>1
<1>7. ReplyFits(air[n + 1].frame)' BY <1>3, <1>4
<1> QED BY <1>6, <1>7

\* What the request on the wire asks for, when the tool reads records.
LEMMA Asked ==
  ASSUME IInv, SnapType, ReadsInv, Reading, Served
  PROVE  \/ phase = "end" /\ request.sub = SUB.RESET
         \/ /\ phase = "wait" /\ request.sub \in 0 .. 31 /\ request.arg \in Word
            /\ Head(todo).name \in DOMAIN SUB /\ request.sub = SUB[Head(todo).name]
            /\ request.sub \in RecordSub =>
                 /\ Head(todo).name \in Records /\ InStep /\ OneSnapshot
                 /\ Head(todo) = Script[Len(got) + 1] /\ Len(got) + 1 \in 1 .. Len(Script)
                 /\ Len(got) \in Nat
                 /\ request.arg = Head(todo).arg
<1>1. req # NONE BY DEF Served
<1>2. (phase = "end" /\ request.sub = SUB.RESET) \/ phase = "wait"
  BY <1>1 DEF IInv, RequestInv, AsAsked, Reading
<1>3. CASE phase = "wait"
  <2>1. request.sub = SUB[Head(todo).name] /\ request.arg \in Word
    BY <1>1, <1>3 DEF IInv, RequestInv, AsAsked, Reading
  <2>2. Head(todo).name \in DOMAIN SUB
    BY <1>3, HeadIsRequest DEF IInv, RequestsOf, Request
  <2>3. request.sub \in 0 .. 31 BY <2>1, <2>2, SubNumbers
  <2>4. ASSUME request.sub \in RecordSub
        PROVE  /\ Head(todo).name \in Records /\ InStep /\ OneSnapshot
               /\ Head(todo) = Script[Len(got) + 1] /\ Len(got) + 1 \in 1 .. Len(Script)
               /\ Len(got) \in Nat
               /\ request.arg = Head(todo).arg
    <3>1. Head(todo).name \in Records BY <2>1, <2>2, <2>4, RecordNumbers
    <3>2. InStep /\ OneSnapshot BY <1>3, <3>1, StartingHead DEF ReadsInv
    <3>3. todo # <<>> BY <1>3 DEF IInv, ToolInv
    <3>4. /\ Head(todo) = Script[Len(got) + 1] /\ Len(got) + 1 \in 1 .. Len(Script)
          /\ Head(todo).arg \in Nat /\ Len(got) \in Nat BY <3>2, <3>3, NextOfScript
    <3>5. request.arg = Argument(Head(todo)) BY <1>1, <1>3 DEF ReadsInv
    <3>6. Head(todo).arg # KEYED
      <4> DEFINE a == Head(todo).arg
      <4>1. a \in Nat BY <3>4
      <4> HIDE DEF a
      <4>2. a # KEYED BY <4>1 DEF KEYED
      <4> QED BY <4>2 DEF a
    <3> QED BY <3>1, <3>2, <3>4, <3>5, <3>6 DEF Argument
  <2> QED BY <1>3, <2>1, <2>2, <2>3, <2>4
<1> QED BY <1>2, <1>3

LEMMA NakWord ==
  ASSUME NEW sub \in 0 .. 31, NEW arg
  PROVE  Tagged(sub, Refusal(sub, arg)) \in Word
<1> DEFINE r == Refusal(sub, arg)
<1>1. r \in Nat /\ r <= 255 BY DEF Refusal, NAK_REASON
<1> HIDE DEF r
<1>2. sub \in Nat /\ sub <= 255 OBVIOUS
<1>3. Tagged(sub, r) \in Word BY <1>1, <1>2, TaggedWord
<1> QED BY <1>3 DEF r

LEMMA RejectedReads ==
  ASSUME SInv, Rejected
  PROVE  ReadsInv' /\ RecordSnapshot'
<1> USE DEF SInv
<1>1. /\ Served /\ Still /\ snap' = snap /\ req' = NONE /\ req # NONE
      /\ Answer(SUB.NAK, Tagged(request.sub, Refusal(request.sub, request.arg)))
  BY DEF Rejected, Still, Answer, AnswerAfter, Served
<1>2. trouble \subseteq trouble' BY <1>1, AnswerIsReply DEF Answer
<1>3. todo' = todo /\ cmd' = cmd BY <1>1 DEF Still, toolVars
<1>4. ASSUME Reading', phase = "wait"
      PROVE  \A i \in 1 .. Len(air') : ReplyAt(i)' => ReplyFits(air[i].frame)'
  <2>1. Reading BY <1>2, <1>3, <1>4 DEF Reading
  <2>2. request.sub \in 0 .. 31 BY <1>1, <1>4, <2>1, Asked
  <2> DEFINE nak == Tagged(request.sub, Refusal(request.sub, request.arg))
  <2>3. nak \in Word BY <2>2, NakWord
  <2>4. PICK a : a = nak OBVIOUS
  <2>5. AnswerAfter(trouble, SUB.NAK, a) /\ a \in Word BY <1>1, <2>3, <2>4 DEF Answer
  <2>6. SUB.NAK \in 0 .. 31 BY RecordNumbers
  <2> QED BY <1>1, <1>3, <1>4, <2>5, <2>6, AnswerReads
<1>5. SnapKept BY <1>1 DEF SnapKept
<1> QED BY <1>1, <1>2, <1>4, <1>5, StillReads

\* Requests that read no record.
LEMMA OtherReads ==
  ASSUME SInv, Served, Still, snap' = snap, request.sub \notin RecordSub,
         NEW met, trouble \subseteq met, NEW sub, NEW arg, AnswerAfter(met, sub, arg)
  PROVE  ReadsInv' /\ RecordSnapshot'
<1> USE DEF SInv
<1>1. req # NONE /\ req' = NONE /\ trouble \subseteq trouble' /\ todo' = todo /\ cmd' = cmd
  BY AnswerIsReply DEF Served, Still, toolVars
<1>2. ASSUME Reading', phase = "wait"
      PROVE  \A i \in 1 .. Len(air') : ReplyAt(i)' => ReplyFits(air[i].frame)'
  <2>1. request.sub = SUB[Head(todo).name]
    BY <1>1, <1>2 DEF IInv, RequestInv, AsAsked, Reading
  <2>2. ~Snapshot(Head(todo)) BY <2>1 DEF Snapshot, RecordSub
  <2> QED BY <1>1, <1>2, <2>2, AnswerReads
<1>3. SnapKept BY DEF SnapKept
<1> QED BY <1>1, <1>2, <1>3, StillReads

LEMMA AnswersRead ==
  ASSUME SInv, SampleStart \/ Unlock1 \/ Unlock2 \/ StageAddr \/ StageData \/ Lock
  PROVE  ReadsInv' /\ RecordSnapshot'
<1>1. CASE SampleStart
  <2>1. /\ Served /\ Still /\ snap' = snap /\ request.sub = SUB.SAMPLE_START
        /\ AnswerAfter(trouble, SUB.SAMPLE_START, 0)
    BY <1>1 DEF SampleStart, Still, ServedAs, Answer
  <2> QED BY <2>1, RecordNumbers, OtherReads
<1>2. CASE Unlock1
  <2>1. /\ Served /\ Still /\ snap' = snap /\ request.sub = SUB.UNLOCK_1
        /\ AnswerAfter(trouble, SUB.UNLOCK_1, 0)
    BY <1>2 DEF Unlock1, Still, ServedAs, Answer
  <2> QED BY <2>1, RecordNumbers, OtherReads
<1>3. CASE Unlock2
  <2>1. /\ Served /\ Still /\ snap' = snap /\ request.sub = SUB.UNLOCK_2
        /\ AnswerAfter(trouble, SUB.UNLOCK_2, 0)
    BY <1>3 DEF Unlock2, Still, ServedAs, Answer
  <2> QED BY <2>1, RecordNumbers, OtherReads
<1>4. CASE StageAddr
  <2>1. /\ Served /\ Still /\ snap' = snap /\ request.sub = SUB.STAGE_ADDR
        /\ AnswerAfter(trouble, SUB.STAGE_ADDR, request.arg % 256)
    BY <1>4 DEF StageAddr, Still, ServedAs, Answer
  <2> QED BY <2>1, RecordNumbers, OtherReads
<1>5. CASE StageData
  <2>1. /\ Served /\ Still /\ snap' = snap /\ request.sub = SUB.STAGE_DATA
        /\ AnswerAfter(trouble, SUB.STAGE_DATA, index + 1)
    BY <1>5 DEF StageData, Still, ServedAs, Answer
  <2> QED BY <2>1, RecordNumbers, OtherReads
<1>6. CASE Lock
  <2>1. /\ Served /\ Still /\ snap' = snap /\ request.sub = SUB.LOCK
        /\ AnswerAfter(trouble, SUB.LOCK, 0) BY <1>6 DEF Lock, Still, ServedAs, Answer
  <2> QED BY <2>1, RecordNumbers, OtherReads
<1> QED BY <1>1, <1>2, <1>3, <1>4, <1>5, <1>6

\* Nothing is programmed while records are read.
LEMMA ProgramReads ==
  ASSUME SInv, Program \/ ProgramFails
  PROVE  ReadsInv' /\ RecordSnapshot'
<1>1. Writes /\ Still /\ trouble \subseteq trouble'
  BY ModuleAnswers DEF Program, ProgramFails, Answered
<1>2. "garbled" \notin trouble' => phase = "wait" /\ cmd.op \in {"write_page", "set_id"}
  BY <1>1, WhatIsWritten DEF SInv
<1>3. phase' = phase /\ cmd' = cmd BY <1>1 DEF Still, toolVars
<1> QED BY <1>2, <1>3 DEF ReadsInv, Reading, RecordSnapshot

\* A word of a snapshot that is still held.
LEMMA HeldReads ==
  ASSUME SInv, Read, Reading', request.sub \in RecordSub, request.arg # 0
  PROVE  SnapKept /\ \E v \in Word : v = ReadWord(request.sub, request.arg) /\ Fits(v)'
<1> USE DEF SInv
<1>1. /\ Served /\ Still /\ Refusal(request.sub, request.arg) = 0
      /\ Answer(request.sub, ReadWord(request.sub, request.arg))
      /\ snap' = snap BY DEF Read, Still, Captures
<1>2. todo' = todo /\ cmd' = cmd /\ got' = got /\ Reading
  BY <1>1, AnswerIsReply DEF Still, toolVars, Reading, Answer
<1>3. /\ phase = "wait" /\ request.arg \in Word /\ request.sub = SUB[Head(todo).name]
      /\ Head(todo).name \in Records /\ OneSnapshot BY <1>1, <1>2, RecordNumbers, Asked
<1>4. snap[request.sub] \in {0, 1}
  <2>1. snap[request.sub] \in 0 .. 2 BY DEF SnapType
  <2>2. ~(request.sub \in RecordSub /\ request.arg > 0 /\ snap[request.sub] = 2)
    <3> DEFINE s == request.sub
               a == request.arg
    <3>1. Refusal(s, a) = 0 BY <1>1
    <3> HIDE DEF s, a
    <3> QED BY <3>1 DEF Refusal, NAK_REASON, s, a
  <2>3. request.arg > 0
    <3> DEFINE a == request.arg
    <3>1. a \in Nat /\ a # 0 BY <1>3, Ranges
    <3> HIDE DEF a
    <3>2. a > 0 BY <3>1
    <3> QED BY <3>2 DEF a
  <2> QED BY <2>1, <2>2, <2>3
<1>5. ReadWord(request.sub, request.arg) = snap[request.sub]
  <2> DEFINE s == request.sub
             a == request.arg
  <2>1. s \in RecordSub /\ a # 0 /\ snap' = snap BY <1>1
  <2> HIDE DEF s, a
  <2>2. s \in 10 .. 13 \cup {23} BY <2>1 DEF RecordSub, Records, SUB
  <2>3. /\ s # SUB.PING /\ s # SUB.GET_DEVICE_ID /\ s # SUB.GET_SERNUM /\ s # SUB.GET_CAL_WORD
        /\ s # SUB.GET_RUN_WORD BY <2>2 DEF SUB
  <2>4. ReadWord(s, a) = snap[s] BY <2>1, <2>3, Zenon DEF ReadWord
  <2> QED BY <2>4 DEF s, a
<1>6. PICK v : v = snap[request.sub] OBVIOUS
<1>7. Fits(v)
  <2> SUFFICES ASSUME Snapshot(Head(todo)) PROVE Fits(v) BY DEF Fits
  <2>1. Held(Head(todo)) = v /\ v # 2 BY <1>3, <1>4, <1>6 DEF Held
  <2>2. ASSUME NEW i \in 1 .. Len(got), Same(Head(todo), Script[i]) PROVE got[i] = v
    <3>1. Snapshot(Script[i]) /\ Held(Script[i]) = v BY <2>1, <2>2 DEF Same, Held
    <3> QED BY <1>3, <2>1, <3>1 DEF OneSnapshot
  <2> QED BY <2>1, <2>2 DEF Fits
<1>8. Script' = Script BY <1>2 DEF Script
<1>9. Fits(v)' BY <1>1, <1>2, <1>7, <1>8 DEF Fits, Held
<1>10. SnapKept /\ v \in Word BY <1>1, <1>4, <1>6, SmallWord DEF SnapKept
<1> QED BY <1>5, <1>6, <1>9, <1>10

\* The snapshot is taken with the first word of a record, before any other.
LEMMA CaptureReads ==
  ASSUME SInv, Read, Reading', request.sub \in RecordSub, request.arg = 0
  PROVE  SnapKept /\ \E v \in Word : v = ReadWord(request.sub, request.arg) /\ Fits(v)'
<1> USE DEF SInv
<1>1. /\ Served /\ Still /\ Answer(request.sub, ReadWord(request.sub, request.arg))
      /\ snap' = [snap EXCEPT ![request.sub] = reading] BY DEF Read, Still, Captures
<1>2. todo' = todo /\ cmd' = cmd /\ got' = got /\ Reading
  BY <1>1, AnswerIsReply DEF Still, toolVars, Reading, Answer
<1> DEFINE name == Head(todo).name
<1>3. /\ request.sub = SUB[name] /\ name \in Records /\ InStep
      /\ Head(todo) = Script[Len(got) + 1] /\ Len(got) + 1 \in 1 .. Len(Script)
      /\ Len(got) \in Nat /\ Head(todo).arg = 0 BY <1>1, <1>2, RecordNumbers, Asked
<1>4. Fresh(name)
  <2> SUFFICES ASSUME NEW i \in 1 .. Len(got), Script[i].name = name PROVE FALSE
    BY DEF Fresh
  <2> DEFINE n == Len(got)
             k == Len(Script)
  <2>1. Tidy(Script) /\ n \in Nat /\ k \in Nat /\ n + 1 \in 1 .. k
    BY <1>2, <1>3, ScriptReads DEF Reading, Tidy, IsSequence
  <2>2. Script[n + 1].name = name /\ Script[n + 1].arg = 0 BY <1>3
  <2>3. i \in 1 .. n OBVIOUS
  <2> HIDE DEF n, k, name
  <2>4. i \in 1 .. k /\ i < n + 1 BY <2>1, <2>3
  <2> QED BY <1>3, <2>1, <2>2, <2>4 DEF Tidy, k
<1>5. snap'[SUB[name]] = reading /\ reading \in {0, 1}
  BY <1>1, <1>3 DEF SnapType, RecordSub
<1>6. SnapKept
  <2> SUFFICES ASSUME NEW other \in Records, other # name
               PROVE  snap'[SUB[other]] = snap[SUB[other]]
    BY <1>3, <1>4 DEF SnapKept
  <2>1. SUB[other] # SUB[name] /\ SUB[other] \in RecordSub
    BY <1>3, RecordNumbers DEF RecordSub
  <2> HIDE DEF name
  <2> QED BY <1>1, <1>3, <2>1 DEF SnapType
<1>7. CASE name = "GET_SAMPLE"
  <2>1. ~Snapshot(Head(todo)) BY <1>3, <1>7 DEF Snapshot
  <2>2. ReadWord(request.sub, request.arg) \in Word
    <3>1. Status \in {0, 1, 2} BY DEF Status
    <3> DEFINE s == request.sub
               a == request.arg
    <3>2. s = SUB.GET_SAMPLE /\ a = 0 BY <1>3, <1>7
    <3> HIDE DEF s, a
    <3>3. /\ s # SUB.PING /\ s # SUB.GET_DEVICE_ID /\ s # SUB.GET_SERNUM /\ s # SUB.GET_CAL_WORD
          /\ s # SUB.GET_RUN_WORD BY <3>2 DEF SUB
    <3>4. s \in RecordSub BY DEF s
    <3>5. ReadWord(s, a) = Status BY <3>2, <3>3, <3>4, Zenon DEF ReadWord
    <3>6. ReadWord(s, a) \in Word BY <3>1, <3>5, SmallWord
    <3> QED BY <3>6 DEF s, a
  <2>3. PICK v : v = ReadWord(request.sub, request.arg) OBVIOUS
  <2>4. Fits(v)' BY <1>2, <2>1 DEF Fits
  <2> QED BY <1>6, <2>2, <2>3, <2>4
<1>8. CASE name # "GET_SAMPLE"
  <2>1. ReadWord(request.sub, request.arg) = reading
    <3> DEFINE s == request.sub
               a == request.arg
    <3>1. s \in RecordSub /\ s # SUB.GET_SAMPLE
      <4>1. "GET_SAMPLE" \in Records BY DEF Records
      <4> QED BY <1>3, <1>8, <4>1, RecordNumbers
    <3>2. snap'[s] = reading BY <1>3, <1>5
    <3> HIDE DEF s, a
    <3>3. s \in 10 .. 13 \cup {23} BY <3>1 DEF RecordSub, Records, SUB
    <3>4. /\ s # SUB.PING /\ s # SUB.GET_DEVICE_ID /\ s # SUB.GET_SERNUM /\ s # SUB.GET_CAL_WORD
          /\ s # SUB.GET_RUN_WORD BY <3>3 DEF SUB
    <3>5. ReadWord(s, a) = reading BY <3>1, <3>2, <3>4, Zenon DEF ReadWord
    <3> QED BY <3>5 DEF s, a
  <2>2. PICK v : v = reading OBVIOUS
  <2>3. v \in Word BY <1>5, <2>2, SmallWord
  <2>4. Held(Head(todo))' = v BY <1>2, <1>5, <2>2 DEF Held
  <2>5. \A i \in 1 .. Len(got) : ~Same(Head(todo), Script[i]) BY <1>4 DEF Fresh, Same
  <2>6. Script' = Script BY <1>2 DEF Script
  <2>7. Fits(v)' BY <1>2, <2>4, <2>5, <2>6 DEF Fits
  <2> QED BY <1>6, <2>1, <2>2, <2>3, <2>7
<1> QED BY <1>7, <1>8

LEMMA ReadReads ==
  ASSUME SInv, Read
  PROVE  ReadsInv' /\ RecordSnapshot'
<1> USE DEF SInv
<1>1. /\ Served /\ Still /\ req # NONE /\ req' = NONE
      /\ AnswerAfter(trouble, request.sub, ReadWord(request.sub, request.arg))
  BY DEF Read, Still, Answer, AnswerAfter, Served
<1>2. trouble \subseteq trouble' /\ todo' = todo /\ cmd' = cmd
  BY <1>1, AnswerIsReply DEF Still, toolVars
<1>3. CASE request.sub \notin RecordSub
  <2>1. snap' = snap BY <1>3 DEF Read, Captures
  <2>2. PICK s, v : s = request.sub /\ v = ReadWord(request.sub, request.arg) OBVIOUS
  <2> QED BY <1>1, <1>3, <2>1, <2>2, OtherReads
<1>4. CASE request.sub \in RecordSub
  <2>1. ASSUME Reading'
        PROVE  SnapKept /\ \E v \in Word : v = ReadWord(request.sub, request.arg) /\ Fits(v)'
    BY <1>4, <2>1, HeldReads, CaptureReads
  <2>2. ASSUME Reading', phase = "wait"
        PROVE  \A i \in 1 .. Len(air') : ReplyAt(i)' => ReplyFits(air[i].frame)'
    <3>1. PICK v \in Word : v = ReadWord(request.sub, request.arg) /\ Fits(v)'
      BY <2>1, <2>2
    <3>2. PICK s : s = request.sub OBVIOUS
    <3>3. s \in 0 .. 31
      <4>1. Reading BY <1>2, <2>2 DEF Reading
      <4> QED BY <1>1, <2>2, <3>2, <4>1, Asked
    <3>4. AnswerAfter(trouble, s, v) BY <1>1, <3>1, <3>2
    <3> QED BY <1>1, <1>2, <2>2, <3>1, <3>3, <3>4, AnswerReads
  <2> QED BY <1>1, <1>2, <2>1, <2>2, StillReads
<1> QED BY <1>3, <1>4

\* Nothing new is on its way, and at most the snapshots are gone.
LEMMA LostReads ==
  ASSUME SInv, Still, trouble \subseteq trouble',
         \A name \in Records : snap'[SUB[name]] \in {snap[SUB[name]], 2},
         Reading' => /\ \A i \in 1 .. Len(air') : ReplyAt(i)' =>
                          \E j \in 1 .. Len(air) : air'[i].frame = air[j].frame
                     /\ req' # NONE => req' = req
  PROVE  ReadsInv' /\ RecordSnapshot'
<1> USE DEF SInv
<1>1. phase' = phase /\ todo' = todo /\ cmd' = cmd /\ got' = got BY DEF Still, toolVars
<1>2. SnapKept BY DEF SnapKept
<1>3. ASSUME Reading', phase = "wait", NEW i \in 1 .. Len(air'), ReplyAt(i)'
      PROVE  ReplyFits(air[i].frame)'
  <2>1. PICK j \in 1 .. Len(air) : air'[i].frame = air[j].frame BY <1>3
  <2>2. Reading /\ ReplyAt(j) BY <1>1, <1>3, <2>1 DEF Reading, ReplyAt
  <2>3. PICK f : f = air[j].frame OBVIOUS
  <2>4. ReplyFits(f) BY <1>3, <2>2, <2>3 DEF ReadsInv
  <2>5. Script' = Script BY <1>1 DEF Script
  <2>6. ReplyFits(f)'
    <3> SUFFICES ASSUME Fits(decode_cmd3(f.data).arg), Snapshot(Head(todo))
                 PROVE  Fits(decode_cmd3(f.data).arg)'
      BY <1>1, <2>4 DEF ReplyFits, Fits
    <3>1. snap'[SUB[Head(todo).name]] \in {snap[SUB[Head(todo).name]], 2}
      BY DEF Snapshot
    <3> QED BY <1>1, <2>5, <3>1 DEF Fits, Held
  <2> QED BY <2>1, <2>3, <2>6
<1> QED BY <1>2, <1>3, StillReads

LEMMA QuietStepsRead ==
  ASSUME SInv, Unheard \/ Reset \/ GateOpens \/ FactoryExpires \/ Restart \/ LoseRequest
  PROVE  ReadsInv' /\ RecordSnapshot'
<1>1. Still /\ air' = air /\ req' \in {req, NONE} /\ trouble \subseteq trouble'
  BY DEF Unheard, Reset, GateOpens, FactoryExpires, Restart, LoseRequest, Reboot, Fault, Still
<1>2. snap' = snap \/ snap' = [s \in RecordSub |-> 2]
  BY DEF Unheard, Reset, GateOpens, FactoryExpires, Restart, LoseRequest, Reboot, Fault,
         moduleVars
<1>3. \A name \in Records : snap'[SUB[name]] \in {snap[SUB[name]], 2}
  BY <1>2 DEF RecordSub
<1>4. \A i \in 1 .. Len(air') : ReplyAt(i)' => \E j \in 1 .. Len(air) : air'[i].frame = air[j].frame
  BY <1>1
<1> QED BY <1>1, <1>3, <1>4, LostReads

LEMMA AirStepsRead ==
  ASSUME SInv, Cascade \/ GarbleRequest \/ LoseReply \/ GarbleReply
  PROVE  ReadsInv' /\ RecordSnapshot'
<1>1. Still /\ trouble \subseteq trouble' /\ snap' = snap
  BY DEF Cascade, GarbleRequest, LoseReply, GarbleReply, Fault, Still, moduleVars
<1>2. CASE GarbleRequest \/ GarbleReply
  <2>1. ~Reading' BY <1>2 DEF GarbleRequest, GarbleReply, Fault, Reading
  <2> QED BY <1>1, <2>1, LostReads
<1>3. CASE Cascade
  <2>1. air' = Append(air, [frame |-> CascadeFrame, due |-> 1]) /\ req' = req
    BY <1>3 DEF Cascade
  <2>2. PICK e : e = [frame |-> CascadeFrame, due |-> 1] OBVIOUS
  <2>3. e.frame.cmd # 3 BY <2>2, CascadeIsNoReply
  <2>4. /\ Len(air) \in Nat /\ Len(air') = Len(air) + 1 /\ air'[Len(air) + 1] = e
        /\ \A i \in 1 .. Len(air) : air'[i] = air[i]
    BY <2>1, <2>2, Longer DEF SInv, IInv, AirInv, IsSequence
  <2>5. ASSUME NEW i \in 1 .. Len(air'), ReplyAt(i)'
        PROVE  \E j \in 1 .. Len(air) : air'[i].frame = air[j].frame
    <3>1. i # Len(air) + 1 BY <2>3, <2>4, <2>5 DEF ReplyAt
    <3>2. i \in 1 .. Len(air) BY <2>4, <3>1
    <3> QED BY <2>4, <3>2
  <2> QED BY <1>1, <2>1, <2>5, LostReads
<1>4. CASE LoseReply
  <2>1. air' = SubSeq(air, 1, Len(air) - 1) /\ req' = req /\ air # <<>>
    BY <1>4 DEF LoseReply
  <2>2. IsSequence(air) /\ Len(air) > 0
    <3>1. IsSequence(air) BY DEF SInv, IInv, AirInv
    <3>2. Len(air) # 0
      <4> DEFINE S == {air[i] : i \in 1 .. Len(air)}
      <4>1. air \in Seq(S) BY <3>1, HoldsItsElements
      <4> HIDE DEF S
      <4> QED BY <2>1, <4>1
    <3>3. Len(air) \in Nat BY <3>1 DEF IsSequence
    <3> QED BY <3>1, <3>2, <3>3
  <2>3. \A i \in 1 .. Len(air') : i \in 1 .. Len(air) /\ air'[i] = air[i]
    BY <2>1, <2>2, FrontFrames
  <2>4. \A i \in 1 .. Len(air') : ReplyAt(i)' =>
          \E j \in 1 .. Len(air) : air'[i].frame = air[j].frame BY <2>3
  <2> QED BY <1>1, <2>1, <2>4, LostReads
<1> QED BY <1>2, <1>3, <1>4

\* The end of a script.
Whole ==
  /\ cmd.op \in {"info", "clear"} => \A name \in RecordsOf(cmd) : OneReading(cmd, name)
  /\ cmd.op = "sample" => SampleWhole

LEMMA Finished ==
  Reading /\ IsSequence(got) /\ OneSnapshot /\ Len(got) = Len(Script) => Whole
<1> SUFFICES ASSUME Reading, IsSequence(got), OneSnapshot, Len(got) = Len(Script)
             PROVE  Whole
  OBVIOUS
<1>1. ASSUME cmd.op \in {"info", "clear"}, NEW name \in RecordsOf(cmd),
             NEW i \in 1 .. Len(Plan(cmd)), NEW j \in 1 .. Len(Plan(cmd)),
             Plan(cmd)[i].name = name, Plan(cmd)[j].name = name
      PROVE  got[i] = got[j]
  <2>1. Script = Plan(cmd) /\ "GET_SAMPLE" \notin ReadBy(Script) BY <1>1, ScriptReads
  <2>2. name \in Records BY DEF RecordsOf
  <2>3. name \in ReadBy(Script) BY <1>1, <2>1, <2>2 DEF ReadBy
  <2>4. Same(Script[i], Script[j]) /\ Snapshot(Script[i])
    BY <1>1, <2>1, <2>2, <2>3 DEF Same, Snapshot
  <2> QED BY <2>1, <2>4 DEF OneSnapshot
<1>2. ASSUME cmd.op = "sample" PROVE SampleWhole
  <2> DEFINE rec == LastReplies(got, FIELDS["GET_SAMPLE"])
             n == Len(got)
  <2>1. n \in Nat BY DEF IsSequence
  <2>2. Script = sample_poll /\ FIELDS["GET_SAMPLE"] = n BY <1>2, PollReads DEF Script
  <2>3. rec = Rest(got, 0)
    <3>1. n - n + 1 = 0 + 1 BY <2>1
    <3>2. rec = SubSeq(got, n - n + 1, n) BY <2>2 DEF LastReplies
    <3> HIDE DEF rec, n
    <3>3. rec = SubSeq(got, 0 + 1, n) BY <3>1, <3>2
    <3> QED BY <3>3 DEF Rest, n
  <2>4. Len(rec) = n - 0 /\ \A i \in 1 .. Len(rec) : 0 + i \in 1 .. n /\ rec[i] = got[0 + i]
    BY <2>1, <2>3, RestFrames
  <2> HIDE DEF rec
  <2>5. ASSUME NEW i \in 2 .. Len(rec)
        PROVE  i \in 1 .. n /\ rec[i] = got[i] /\ Snapshot(Script[i])
               /\ Script[i].name = "GET_SAMPLE"
    <3>1. i \in 1 .. Len(rec) /\ 0 + i = i /\ i - 1 # 0 BY <2>1, <2>4
    <3>2. i \in 1 .. n /\ rec[i] = got[i] BY <2>4, <3>1
    <3>3. sample_poll[i].name = "GET_SAMPLE" /\ sample_poll[i].arg = i - 1
      BY <2>2, <3>2, PollReads
    <3> QED BY <2>2, <3>1, <3>2, <3>3 DEF Snapshot, Records
  <2>6. \A i, j \in 2 .. Len(rec) : rec[i] = rec[j] BY <2>5 DEF OneSnapshot, Same
  <2> QED BY <2>6 DEF SampleWhole, rec
<1> QED BY <1>1, <1>2 DEF Whole, OneReading

\* A reply of the script.
LEMMA ReplyReads ==
  ASSUME SInv, Reading, phase = "wait", cmd' = cmd, trouble' = trouble, snap' = snap,
         NEW a, Fits(a), NEW n, Reply(a, n)
  PROVE  ReadsInv' /\ RecordSnapshot'
<1> USE DEF SInv
<1>1. Reading' /\ Script' = Script /\ cmd.op \in {"info", "clear", "sample"}
  BY DEF Reading, Script
<1>2. got' = Append(got, a) BY DEF Reply
<1>3. todo # <<>> /\ Len(todo) \in Nat BY HeadIsRequest DEF IInv, ToolInv
<1>4. CASE Starting
  <2>1. Len(todo) = 1 /\ Head(todo).name # "GET_SAMPLE" /\ cmd.op = "sample"
    BY <1>4, StartingHead DEF Starting
  <2>2. ~(Len(todo) > 1)
    <3>1. ~(1 > 1) OBVIOUS
    <3> QED BY <2>1, <3>1
  <2>3. SampleTurn(got') BY <1>2, <2>1, <2>2 DEF Reply
  <2>4. phase' = "sleep" /\ todo' = sample_poll BY <2>1, <2>3 DEF SampleTurn
  <2> QED BY <2>1, <2>4 DEF ReadsInv, RecordSnapshot
<1>5. CASE ~Starting
  <2>1. InStep /\ OneSnapshot BY <1>5 DEF ReadsInv
  <2> DEFINE N == Len(got)
             M == Len(todo)
             K == Len(Script)
  <2>2. /\ N \in Nat /\ M \in Nat /\ M >= 1 /\ K = N + M /\ N + 1 \in 1 .. K
        /\ Head(todo) = Script[N + 1] BY <1>3, <2>1, NextOfScript
  <2>3. /\ IsSequence(got') /\ Len(got') = N + 1 /\ got'[N + 1] = a
        /\ \A i \in 1 .. N : got'[i] = got[i] BY <1>2, Longer DEF SnapType
  <2> HIDE DEF N, M, K
  <2>4. \A i \in 1 .. N + 1 : i \in 1 .. N \/ i = N + 1 BY <2>2
  <2>5. ASSUME NEW i \in 1 .. N + 1, Snapshot(Script[i])
        PROVE  /\ Held(Script[i]) \in {got'[i], 2}
               /\ \A j \in 1 .. N + 1 : Same(Script[i], Script[j]) => got'[j] = got'[i]
    <3>1. CASE i \in 1 .. N
      <4>1. Held(Script[i]) \in {got[i], 2} /\ got'[i] = got[i]
        BY <2>1, <2>3, <2>5, <3>1 DEF OneSnapshot, N
      <4>2. ASSUME NEW j \in 1 .. N, Same(Script[i], Script[j]) PROVE got'[j] = got'[i]
        BY <2>1, <2>3, <2>5, <3>1, <4>2 DEF OneSnapshot, N
      <4>3. ASSUME Same(Script[i], Script[N + 1]) PROVE got'[N + 1] = got'[i]
        <5>1. Snapshot(Head(todo)) /\ Same(Head(todo), Script[i]) BY <2>2, <4>3 DEF Same
        <5>2. got[i] = a BY <3>1, <5>1 DEF Fits, N
        <5> QED BY <2>3, <4>1, <5>2
      <4> QED BY <2>4, <4>1, <4>2, <4>3
    <3>2. CASE i = N + 1
      <4>1. Snapshot(Head(todo)) /\ Held(Head(todo)) \in {a, 2}
        BY <2>2, <2>5, <3>2 DEF Fits
      <4>2. ASSUME NEW j \in 1 .. N, Same(Script[i], Script[j]) PROVE got'[j] = got'[i]
        <5>1. got[j] = a BY <2>2, <3>2, <4>1, <4>2 DEF Fits, N
        <5> QED BY <2>3, <3>2, <5>1
      <4> QED BY <2>2, <2>3, <2>4, <3>2, <4>1, <4>2
    <3> QED BY <2>4, <3>1, <3>2
  <2>6. OneSnapshot' BY <1>1, <2>3, <2>5 DEF OneSnapshot, Held
  <2>7. CASE M > 1
    <3>1. phase' = "send" /\ todo' = Tail(todo) BY <2>7 DEF Reply, Proceed, M
    <3>2. Len(Tail(todo)) = M - 1 /\ \A i \in 1 .. M - 1 : Tail(todo)[i] = todo[i + 1]
      <4> DEFINE S == RequestsOf(cmd.op)
      <4>1. todo \in Seq(S) BY DEF IInv, ToolInv
      <4> HIDE DEF S
      <4> QED BY <1>3, <4>1, HeadTailProperties DEF M
    <3>3. InStep'
      <4>1. Len(got') + Len(todo') = K
        <5>1. Len(got') = N + 1 /\ Len(todo') = M - 1 BY <2>3, <3>1, <3>2
        <5>2. N + 1 + (M - 1) = K BY <2>2
        <5> QED BY <5>1, <5>2
      <4>2. ASSUME NEW i \in 1 .. Len(todo') PROVE todo'[i] = Script[Len(got') + i]
        <5>1. i \in 1 .. M - 1 /\ i + 1 \in 1 .. M /\ N + (i + 1) = N + 1 + i
          BY <2>2, <3>1, <3>2
        <5>2. todo[i + 1] = Script[N + (i + 1)] BY <2>1, <5>1 DEF InStep, N, M
        <5> QED BY <2>3, <3>1, <3>2, <5>1, <5>2
      <4> QED BY <1>1, <4>1, <4>2 DEF InStep, K
    <3> QED BY <2>6, <3>1, <3>3 DEF ReadsInv, RecordSnapshot
  <2>8. CASE ~(M > 1)
    <3>1. Len(got') = Len(Script')
      <4>1. K = N + 1 BY <2>2, <2>8
      <4> QED BY <1>1, <2>3, <4>1 DEF K
    <3>2. Whole'
      <4>1. (Reading /\ IsSequence(got) /\ OneSnapshot /\ Len(got) = Len(Script) => Whole)'
        BY Finished, PTL
      <4> QED BY <1>1, <2>3, <2>6, <3>1, <4>1
    <3>3. RecordSnapshot' BY <3>2 DEF RecordSnapshot, Whole
    <3>4. phase' = "end" \/ (phase' = "sleep" /\ cmd.op = "sample" /\ todo' = sample_poll)
      BY <2>8 DEF Reply, SampleTurn, End, M
    <3> QED BY <3>3, <3>4 DEF ReadsInv
  <2> QED BY <2>7, <2>8
<1> QED BY <1>4, <1>5

----------------------------------------------------------------------------
(* Steps of the tool, and the theorem                                      *)

LEMMA TimeFrames ==
  ASSUME IInv, Passes
  PROVE  \A i \in 1 .. Len(air') : \E j \in 1 .. Len(air) : air'[i].frame = air[j].frame
<1>1. air' = OnTheWay BY DEF Passes
<1>2. \A i \in 1 .. Len(OnTheWay) :
        Landed + i \in 1 .. Len(air) /\ OnTheWay[i].frame = air[Landed + i].frame
  BY FramesOnTheWay DEF IInv
<1> HIDE DEF OnTheWay, Landed
<1> QED BY <1>1, <1>2

\* A session that reads neither scans nor writes a page.
LEMMA RaiseEnds ==
  ASSUME Reading, NEW how, Raise(how)
  PROVE  phase' = "end" /\ outcome' = how
BY DEF Reading, Raise, End

LEMMA StartReads ==
  ASSUME SInv, NEW c \in Commands, Start(c)
  PROVE  ReadsInv' /\ RecordSnapshot'
<1>1. cmd' = c /\ todo' = Plan(c) /\ got' = <<>> /\ phase' = "listen" BY DEF Start
<1>2. Len(got') = 0 /\ Len(todo') \in Nat
  BY <1>1, Nothing, PlanType, SequenceOf DEF IsSequence
<1>3. Starting' \/ InStep'
  <2>1. CASE c.op = "sample" BY <1>1, <2>1 DEF Starting
  <2>2. CASE c.op # "sample"
    <3>1. Script' = Plan(c) BY <1>1, <2>2 DEF Script
    <3> DEFINE s == Plan(c)
    <3>2. Script' = s /\ todo' = s /\ Len(s) \in Nat BY <1>1, <1>2, <3>1
    <3> HIDE DEF s
    <3>3. \A i \in 1 .. Len(s) : s[i] = s[0 + i] OBVIOUS
    <3>4. 0 + Len(s) = Len(s) BY <3>2
    <3> QED BY <1>2, <3>2, <3>3, <3>4 DEF InStep
  <2> QED BY <2>1, <2>2
<1>4. OneSnapshot' BY <1>2 DEF OneSnapshot
<1> QED BY <1>1, <1>3, <1>4 DEF ReadsInv, RecordSnapshot

\* A step that keeps the script where it is.
LEMMA PlaceReads ==
  ASSUME SInv, cmd' = cmd, got' = got, trouble' = trouble, snap' = snap,
         \/ phase' = "end" /\ outcome' # "ok"
         \/ /\ phase \in {"listen", "send", "wait", "quiet"}
            /\ phase' \in {"listen", "send", "quiet"} /\ todo' = todo
  PROVE  ReadsInv' /\ RecordSnapshot'
<1>1. CASE phase' = "end" /\ outcome' # "ok" BY <1>1 DEF ReadsInv, RecordSnapshot
<1>2. CASE /\ phase \in {"listen", "send", "wait", "quiet"}
           /\ phase' \in {"listen", "send", "quiet"} /\ todo' = todo
  <2>1. Reading' => Starting' \/ (InStep' /\ OneSnapshot')
    BY <1>2 DEF SInv, ReadsInv, Reading, Starting, InStep, OneSnapshot, Script, Held
  <2> QED BY <1>2, <2>1 DEF ReadsInv, RecordSnapshot
<1> QED BY <1>1, <1>2

LEMMA ListenReads ==
  ASSUME SInv, Listen
  PROVE  ReadsInv' /\ RecordSnapshot'
<1> USE DEF SInv
<1>1. /\ phase = "listen" /\ cmd' = cmd /\ got' = got /\ trouble' = trouble /\ snap' = snap
  BY DEF Listen
<1>2. CASE \/ phase' = "end" /\ outcome' # "ok"
           \/ phase' \in {"listen", "send"} /\ todo' = todo BY <1>1, <1>2, PlaceReads
<1>3. CASE todo = <<>> /\ phase' = "end"
  <2>1. ReadsInv' BY <1>3 DEF ReadsInv
  <2>2. RecordSnapshot'
    <3> SUFFICES ASSUME Reading PROVE Whole
      BY <1>1 DEF RecordSnapshot, Reading, Whole, OneReading, SampleWhole
    <3>1. InStep /\ OneSnapshot BY <1>1, <1>3, StartingHead DEF ReadsInv
    <3>2. Len(got) = Len(Script)
      <4>1. Len(got) \in Nat /\ Len(todo) = 0 BY <1>3, Nothing DEF SnapType, IsSequence
      <4> QED BY <3>1, <4>1 DEF InStep
    <3> QED BY <3>1, <3>2, Finished DEF SnapType
  <2> QED BY <2>1, <2>2
<1> QED BY <1>1, <1>2, <1>3 DEF Listen, End, Proceed

LEMMA TransmitReads ==
  ASSUME SInv, Transmit
  PROVE  ReadsInv' /\ RecordSnapshot'
<1> USE DEF SInv
<1>1. /\ phase = "send" /\ cmd' = cmd /\ got' = got /\ trouble' = trouble /\ snap' = snap
      /\ air' = air /\ Target(Head(todo)) \in 0 .. 31
      /\ req' = Frame(Target(Head(todo)), SUB[Head(todo).name], Argument(Head(todo)))
  BY DEF Transmit, moduleVars
<1>2. CASE ~Reading BY <1>1, <1>2 DEF ReadsInv, Reading, RecordSnapshot
<1>3. CASE Reading
  <2>1. Starting \/ (InStep /\ OneSnapshot) BY <1>1, <1>3 DEF ReadsInv
  <2>2. Head(todo).name # "RESET"
    <3>1. todo # <<>> BY <1>1 DEF IInv, ToolInv
    <3> QED BY <1>3, <2>1, <3>1, StartingHead, NextOfScript
  <2>3. phase' = "wait" /\ todo' = todo BY <2>2 DEF Transmit
  <2>4. Starting' \/ (InStep' /\ OneSnapshot')
    BY <1>1, <2>1, <2>3 DEF Starting, InStep, OneSnapshot, Script, Held
  <2>5. NoReply' BY <1>1 DEF IInv, Lateness, NoReply, ReplyAt
  <2>6. request'.arg = Argument(Head(todo))'
    <3>1. PICK i, s, a : i = Target(Head(todo)) /\ s = SUB[Head(todo).name]
                           /\ a = Argument(Head(todo)) OBVIOUS
    <3>2. Head(todo) \in Request BY <1>1, HeadIsRequest DEF IInv, RequestsOf
    <3>3. i \in 0 .. 31 /\ s \in 0 .. 31 /\ a \in Word
      BY <1>1, <3>1, <3>2, SubNumbers, ArgumentIsWord DEF Request
    <3>4. decode_cmd3(Frame(i, s, a).data).arg = a BY <3>3, RequestFrame
    <3>5. Argument(Head(todo))' = a BY <1>1, <2>3, <3>1 DEF Argument
    <3>6. request' = decode_cmd3(req'.data) /\ req' = Frame(i, s, a)
      BY <1>1, <3>1 DEF request
    <3> QED BY <3>4, <3>5, <3>6
  <2> QED BY <2>3, <2>4, <2>5, <2>6 DEF ReadsInv, RecordSnapshot, NoReply, ReplyAt
<1> QED BY <1>2, <1>3

LEMMA WithheldReads ==
  ASSUME SInv, Withheld
  PROVE  ReadsInv' /\ RecordSnapshot'
<1>1. phase' = "end" /\ outcome' \in {"unsafe", "refused"} BY DEF Withheld, End
<1> QED BY <1>1 DEF ReadsInv, RecordSnapshot

LEMMA WaitReads ==
  ASSUME SInv, Wait
  PROVE  ReadsInv' /\ RecordSnapshot'
<1> USE DEF SInv
<1> DEFINE frames == rx \o Pumped
           name == Head(todo).name
           n == Settler(frames, name)
           late == window(Head(todo)) - left + 1
<1>1. /\ phase = "wait" /\ Passes /\ cmd' = cmd /\ trouble' = trouble /\ snap' = snap
      /\ req' = req /\ req = NONE BY DEF Wait, Passes
<1>2. CASE ~Reading /\ phase' # "end"
  BY <1>1, <1>2 DEF ReadsInv, Reading, RecordSnapshot
<1>3. CASE ~Reading /\ phase' = "end"
  BY <1>1, <1>3 DEF ReadsInv, Reading, RecordSnapshot
<1>4. CASE Reading /\ n = 0
  <2>1. got' = got /\ todo' = todo /\ phase' \in {"wait", "quiet"}
    BY <1>1, <1>4 DEF Wait
  <2>2. CASE phase' = "quiet" BY <1>1, <2>1, <2>2, PlaceReads
  <2>3. CASE phase' = "wait"
    <3>1. Starting' \/ (InStep' /\ OneSnapshot')
      BY <1>1, <1>4, <2>1 DEF ReadsInv, Starting, InStep, OneSnapshot, Script, Held
    <3>2. ASSUME NEW i \in 1 .. Len(air'), ReplyAt(i)'
          PROVE  ReplyFits(air[i].frame)'
      <4>1. PICK j \in 1 .. Len(air) : air'[i].frame = air[j].frame BY <1>1, TimeFrames
      <4>2. PICK f : f = air[j].frame OBVIOUS
      <4>3. ReplyFits(f) BY <1>1, <1>4, <3>2, <4>1, <4>2 DEF ReadsInv, ReplyAt
      <4>4. ReplyFits(f)' BY <1>1, <2>1, <4>3 DEF ReplyFits, Fits, Held, Script
      <4> QED BY <4>1, <4>2, <4>4
    <3> QED BY <1>1, <2>3, <3>1, <3>2 DEF ReadsInv, RecordSnapshot
  <2> QED BY <2>1, <2>2, <2>3
<1>5. CASE Reading /\ n # 0
  <2>1. /\ IsSequence(frames)
        /\ \A i \in 1 .. Len(frames) : IsReply(frames[i]) =>
             \E k \in 1 .. Len(air) : ReplyAt(k) /\ frames[i] = air[k].frame
    BY <1>1, WaitFrames
  <2> HIDE DEF frames
  <2>2. n \in 1 .. Len(frames) /\ Settles(frames[n], name) BY <1>5, <2>1, SettlerIsReply
  <2> HIDE DEF n
  <2>3. PICK k \in 1 .. Len(air) : ReplyAt(k) /\ frames[n] = air[k].frame
    BY <2>1, <2>2 DEF Settles
  <2>4. ReplyFits(frames[n]) BY <1>1, <1>5, <2>3 DEF ReadsInv
  <2>5. CASE decode_cmd3(frames[n].data).sub = SUB.NAK
    <3>1. Raise("nak") BY <1>5, <2>5 DEF Wait, n, frames
    <3>2. phase' = "end" /\ outcome' = "nak" BY <1>5, <3>1, RaiseEnds
    <3> QED BY <3>2 DEF ReadsInv, RecordSnapshot
  <2>6. CASE decode_cmd3(frames[n].data).sub # SUB.NAK
    <3>1. PICK a, l : a = decode_cmd3(frames[n].data).arg /\ l = late OBVIOUS
    <3>2. Reply(a, l) BY <1>5, <2>6, <3>1 DEF Wait, n, frames
    <3>3. Fits(a) BY <2>4, <2>6, <3>1 DEF ReplyFits
    <3> QED BY <1>1, <1>5, <3>2, <3>3, ReplyReads
  <2> QED BY <2>5, <2>6
<1> QED BY <1>2, <1>3, <1>4, <1>5

LEMMA SleepReads ==
  ASSUME SInv, Sleep
  PROVE  ReadsInv' /\ RecordSnapshot'
<1> USE DEF SInv
<1>1. /\ phase \in {"quiet", "sleep"} /\ cmd' = cmd /\ trouble' = trouble /\ snap' = snap
      /\ got' = IF phase = "sleep" THEN <<>> ELSE got BY DEF Sleep
<1>2. CASE ~Reading /\ phase' # "end"
  BY <1>1, <1>2 DEF ReadsInv, Reading, RecordSnapshot
<1>3. CASE ~Reading /\ phase' = "end"
  BY <1>1, <1>3 DEF ReadsInv, Reading, RecordSnapshot
<1>4. CASE Reading /\ phase = "quiet"
  <2>1. \/ phase' = "end" /\ outcome' = "timeout"
        \/ phase' = "quiet" /\ todo' = todo BY <1>4, RaiseEnds DEF Sleep
  <2> QED BY <1>1, <1>4, <2>1, PlaceReads
<1>5. CASE Reading /\ phase = "sleep"
  <2>1. todo' = sample_poll /\ cmd.op = "sample" /\ phase' \in {"sleep", "send"} /\ got' = <<>>
    BY <1>1, <1>5 DEF ReadsInv, Sleep, Proceed
  <2>2. Script' = sample_poll /\ Len(got') = 0 BY <1>1, <2>1, Nothing DEF Script
  <2>3. InStep'
    <3> DEFINE s == sample_poll
    <3>1. Script' = s /\ todo' = s /\ Len(s) \in Nat
      BY <2>1, <2>2, PollReads DEF Tidy, IsSequence
    <3> HIDE DEF s
    <3>2. (\A i \in 1 .. Len(s) : s[i] = s[0 + i]) /\ 0 + Len(s) = Len(s) BY <3>1
    <3> QED BY <2>2, <3>1, <3>2 DEF InStep
  <2>4. OneSnapshot' BY <2>2 DEF OneSnapshot
  <2> QED BY <1>1, <2>1, <2>3, <2>4 DEF ReadsInv, RecordSnapshot
<1> QED BY <1>1, <1>2, <1>3, <1>4, <1>5

LEMMA IdleReads ==
  ASSUME SInv, Idle
  PROVE  ReadsInv' /\ RecordSnapshot'
<1>1. phase' = "end" /\ UNCHANGED <<phase, outcome, cmd, got, trouble>>
  BY DEF Idle, toolVars
<1> QED BY <1>1 DEF SInv, ReadsInv, RecordSnapshot, OneReading, SampleWhole

LEMMA SnapshotTypes ==
  ASSUME SnapType, [Next]_vars
  PROVE  SnapType'
<1>1. reading' \in {0, 1}
  <2>1. reading' \in {reading, 1 - reading}
    <3>1. CASE (\E c \in Commands : Start(c)) \/ Tool \/ Idle \/ GateOpens \/ FactoryExpires
      BY <3>1 DEF Start, Tool, Listen, Transmit, Withheld, Wait, Sleep, Idle, GateOpens,
                  FactoryExpires, moduleVars
    <3>2. CASE Module
      BY <3>2 DEF Module, Unheard, Rejected, Read, SampleStart, Unlock1, Unlock2, StageAddr,
                  StageData, Program, ProgramFails, Lock, Reset, Answer, AnswerAfter, moduleVars
    <3>3. CASE Faults
      BY <3>3 DEF Faults, Restart, Cascade, LoseRequest, GarbleRequest, LoseReply, GarbleReply,
                  moduleVars
    <3>4. CASE UNCHANGED vars BY <3>4 DEF vars, moduleVars
    <3> QED BY <3>1, <3>2, <3>3, <3>4 DEF Next
  <2> QED BY <2>1 DEF SnapType
<1>2. snap' \in [RecordSub -> 0 .. 2]
  <2>1. \/ snap' = snap \/ snap' = [s \in RecordSub |-> 2]
        \/ snap' = [snap EXCEPT ![request.sub] = reading]
    <3>1. CASE (\E c \in Commands : Start(c)) \/ Tool \/ Idle \/ GateOpens \/ FactoryExpires
      BY <3>1 DEF Start, Tool, Listen, Transmit, Withheld, Wait, Sleep, Idle, GateOpens,
                  FactoryExpires, moduleVars
    <3>2. CASE Module
      BY <3>2 DEF Module, Unheard, Rejected, Read, SampleStart, Unlock1, Unlock2, StageAddr,
                  StageData, Program, ProgramFails, Lock, Reset, Reboot, moduleVars
    <3>3. CASE Faults
      BY <3>3 DEF Faults, Restart, Cascade, LoseRequest, GarbleRequest, LoseReply, GarbleReply,
                  Reboot, moduleVars
    <3>4. CASE UNCHANGED vars BY <3>4 DEF vars, moduleVars
    <3> QED BY <3>1, <3>2, <3>3, <3>4 DEF Next
  <2> QED BY <2>1 DEF SnapType
<1>3. IsSequence(got')
  <2>1. got' = got \/ got' = <<>> \/ \E a : got' = Append(got, a)
    <3>1. CASE \E c \in Commands : Start(c) BY <3>1 DEF Start
    <3>2. CASE Tool \/ Idle \/ GateOpens \/ FactoryExpires
      BY <3>2 DEF Tool, Listen, Transmit, Withheld, Wait, Reply, Sleep, Idle, GateOpens,
                  FactoryExpires, toolVars
    <3>3. CASE Module
      BY <3>3 DEF Module, Unheard, Rejected, Read, SampleStart, Unlock1, Unlock2, StageAddr,
                  StageData, Program, ProgramFails, Lock, Reset, toolVars
    <3>4. CASE Faults
      BY <3>4 DEF Faults, Restart, Cascade, LoseRequest, GarbleRequest, LoseReply, GarbleReply,
                  toolVars
    <3>5. CASE UNCHANGED vars BY <3>5 DEF vars, toolVars
    <3> QED BY <3>1, <3>2, <3>3, <3>4, <3>5 DEF Next
  <2>2. IsSequence(got) BY DEF SnapType
  <2>3. CASE \E a : got' = Append(got, a)
    <3>1. PICK a : got' = Append(got, a) BY <2>3
    <3>2. IsSequence(Append(got, a)) BY <2>2, Longer
    <3> QED BY <3>1, <3>2
  <2>4. IsSequence(<<>>) BY Nothing
  <2>5. got' \in {got, <<>>} => IsSequence(got')
    <3>1. \A s \in {got, <<>>} : IsSequence(s) BY <2>2, <2>4
    <3> HIDE DEF IsSequence
    <3> QED BY <3>1, Zenon
  <2> QED BY <2>1, <2>3, <2>5
<1> QED BY <1>1, <1>2, <1>3 DEF SnapType

LEMMA ReadsStep ==
  ASSUME SInv, [Next]_vars
  PROVE  SInv'
<1>1. IInv' /\ SnapType' BY StepKeeps, SnapshotTypes DEF SInv
<1>2. CASE \E c \in Commands : Start(c) BY <1>1, <1>2, StartReads DEF SInv
<1>3. CASE Tool \/ Idle
  BY <1>1, <1>3, ListenReads, TransmitReads, WithheldReads, WaitReads, SleepReads, IdleReads
     DEF SInv, Tool
<1>4. CASE Module
  BY <1>1, <1>4, QuietStepsRead, RejectedReads, ReadReads, AnswersRead, ProgramReads
     DEF SInv, Module
<1>5. CASE GateOpens \/ FactoryExpires \/ Faults
  BY <1>1, <1>5, QuietStepsRead, AirStepsRead DEF SInv, Faults
<1>6. CASE UNCHANGED vars
  <2>1. /\ Still /\ air' = air /\ req' = req /\ trouble' = trouble /\ snap' = snap
    BY <1>6 DEF vars, Still, moduleVars
  <2>2. trouble \subseteq trouble' BY <2>1
  <2> QED BY <1>1, <2>1, <2>2, LostReads DEF SInv
<1> QED BY <1>2, <1>3, <1>4, <1>5, <1>6 DEF Next

\* The words of a record are of one snapshot, whatever is lost, late or rejected
\* and wherever the module restarts between them: index 0 takes the snapshot and
\* is asked first, and a module that has lost it refuses the other indices.
\* (Module._record; record_read of ker_cmd3.cpp)
THEOREM RecordsAreSnapshots == Spec => []RecordSnapshot
<1>1. Init => SInv
  <2> SUFFICES ASSUME Init PROVE SInv OBVIOUS
  <2>1. phase = "end" /\ outcome = "none" /\ got = <<>> /\ reading = 0
        /\ snap = [s \in RecordSub |-> 2] BY DEF Init
  <2> QED BY <2>1, InitKeeps, Nothing DEF SInv, SnapType, ReadsInv, RecordSnapshot
<1>2. SInv /\ [Next]_vars => SInv' BY ReadsStep
<1>3. SInv => RecordSnapshot BY DEF SInv
<1> QED BY <1>1, <1>2, <1>3, PTL DEF Spec

----------------------------------------------------------------------------
(* The invariant: a session follows its plan                               *)

LEMMA PlaceInPlan ==
  ASSUME IInv, SnapType, InStep, Scripted, cmd \in Commands, todo # <<>>
  PROVE  /\ Len(got) \in Nat /\ Len(todo) \in Nat /\ Len(todo) >= 1
         /\ Len(Plan(cmd)) = Len(got) + Len(todo) /\ Script = Plan(cmd)
         /\ Len(got) + 1 \in 1 .. Len(Plan(cmd)) /\ Head(todo) = Plan(cmd)[Len(got) + 1]
<1>1. Script = Plan(cmd) BY DEF Script, Scripted
<1> DEFINE S == RequestsOf(cmd.op)
<1>2. todo \in Seq(S) BY DEF IInv, ToolInv
<1> HIDE DEF S
<1>3. Len(todo) \in Nat /\ Len(todo) # 0 /\ Head(todo) = todo[1] BY <1>2
<1> DEFINE n == Len(got)
           m == Len(todo)
           k == Len(Script)
<1>4. n \in Nat /\ m \in Nat /\ m # 0 /\ k = n + m
  BY <1>3 DEF InStep, SnapType, IsSequence
<1> HIDE DEF n, m, k
<1>5. m >= 1 /\ 1 \in 1 .. m /\ n + 1 \in 1 .. k BY <1>4
<1>6. Head(todo) = Script[n + 1] BY <1>3, <1>5 DEF InStep, n, m
<1> QED BY <1>1, <1>4, <1>5, <1>6 DEF n, m, k

\* How a step of the waiting ends: nothing has come, a NAK, or the reply.
LEMMA WaitEnds ==
  ASSUME IInv, Wait
  PROVE  \/ /\ UNCHANGED <<todo, got, mid, found, outcome>> /\ phase' \in {"wait", "quiet"}
            /\ phase' = "wait" => left' = left - 1 /\ left > 1
         \/ /\ UNCHANGED <<got, mid, found>> /\ Raise("nak")
            /\ \E k \in 1 .. Len(air) :
                 ReplyAt(k) /\ decode_cmd3(air[k].frame.data).sub = SUB.NAK
         \/ \E k \in 1 .. Len(air), l \in {window(Head(todo)) - left + 1} :
              /\ ReplyAt(k) /\ Reply(decode_cmd3(air[k].frame.data).arg, l)
              /\ decode_cmd3(air[k].frame.data).sub # SUB.NAK
              /\ decode_cmd3(air[k].frame.data).sub = SUB[Head(todo).name]
<1> DEFINE frames == rx \o Pumped
           name == Head(todo).name
           n == Settler(frames, name)
           late == window(Head(todo)) - left + 1
<1>1. phase = "wait" /\ Passes BY DEF Wait
<1>2. CASE n = 0 BY <1>1, <1>2 DEF Wait
<1>3. CASE n # 0
  <2>1. /\ IsSequence(frames)
        /\ \A i \in 1 .. Len(frames) : IsReply(frames[i]) =>
             \E k \in 1 .. Len(air) : ReplyAt(k) /\ frames[i] = air[k].frame
    BY <1>1, WaitFrames
  <2> HIDE DEF frames
  <2>2. n \in 1 .. Len(frames) /\ Settles(frames[n], name) BY <1>3, <2>1, SettlerIsReply
  <2> HIDE DEF n
  <2>3. PICK k \in 1 .. Len(air) : ReplyAt(k) /\ frames[n] = air[k].frame
    BY <2>1, <2>2 DEF Settles
  <2>4. decode_cmd3(air[k].frame.data).sub \in {SUB.NAK, SUB[name]}
    BY <2>2, <2>3 DEF Settles
  <2>5. CASE decode_cmd3(frames[n].data).sub = SUB.NAK
    <3>1. Raise("nak") /\ UNCHANGED <<got, mid, found>>
      BY <1>3, <2>5 DEF Wait, n, frames
    <3> QED BY <2>3, <2>5, <3>1
  <2>6. CASE decode_cmd3(frames[n].data).sub # SUB.NAK
    <3>1. PICK a, l : a = decode_cmd3(frames[n].data).arg /\ l = late OBVIOUS
    <3>2. Reply(a, l) BY <1>3, <2>6, <3>1 DEF Wait, n, frames
    <3> QED BY <2>3, <2>4, <2>6, <3>1, <3>2
  <2> QED BY <2>5, <2>6
<1> QED BY <1>2, <1>3

\* The reply to a request of a plan: the next one follows, or the command ends.
LEMMA PlanGoesOn ==
  ASSUME WInv, Scripted, phase = "wait", cmd' = cmd, NEW a, NEW l, Reply(a, l)
  PROVE  /\ got' = Append(got, a)
         /\ \/ Len(todo) > 1 /\ phase' = "send" /\ outcome' = outcome /\ todo' = Tail(todo) /\ InStep'
            \/ /\ Len(todo) = 1 /\ Len(got) + 1 = Len(Plan(cmd))
               /\ phase' = "end" /\ outcome' = Conclusion(cmd, got')
<1> USE DEF WInv
<1>1. got' = Append(got, a) BY DEF Reply
<1>2. InStep /\ cmd \in Commands /\ todo # <<>> BY DEF PlaceInv, IInv, ToolInv
<1> DEFINE N == Len(got)
           M == Len(todo)
           K == Len(Script)
<1>3. /\ N \in Nat /\ M \in Nat /\ M >= 1 /\ K = N + M /\ Script = Plan(cmd)
  BY <1>2, PlaceInPlan
<1>4. Len(got') = N + 1 BY <1>1, Longer DEF SnapType
<1> HIDE DEF N, M, K
<1>5. CASE M > 1
  <2>1. phase' = "send" /\ todo' = Tail(todo) /\ outcome' = outcome
    BY <1>5 DEF Reply, Proceed, M
  <2>2. Len(Tail(todo)) = M - 1 /\ \A i \in 1 .. M - 1 : Tail(todo)[i] = todo[i + 1]
    <3> DEFINE S == RequestsOf(cmd.op)
    <3>1. todo \in Seq(S) BY DEF IInv, ToolInv
    <3> HIDE DEF S
    <3> QED BY <1>2, <3>1, HeadTailProperties DEF M
  <2>3. Len(got') + Len(todo') = K
    <3>1. Len(got') = N + 1 /\ Len(todo') = M - 1 BY <1>4, <2>1, <2>2
    <3>2. N + 1 + (M - 1) = K BY <1>3
    <3> QED BY <3>1, <3>2
  <2>4. ASSUME NEW i \in 1 .. Len(todo') PROVE todo'[i] = Script[Len(got') + i]
    <3>1. i \in 1 .. M - 1 /\ i + 1 \in 1 .. M /\ N + (i + 1) = N + 1 + i
      <4>1. Len(todo') = M - 1 /\ M \in Nat /\ N \in Nat BY <1>3, <2>1, <2>2
      <4> QED BY <4>1
    <3>2. todo[i + 1] = Script[N + (i + 1)] BY <1>2, <3>1 DEF InStep, N, M
    <3> QED BY <1>4, <2>1, <2>2, <3>1, <3>2
  <2>5. Script' = Script BY DEF Script
  <2>6. InStep' BY <2>3, <2>4, <2>5 DEF InStep, K
  <2> QED BY <1>1, <1>5, <2>1, <2>6 DEF M
<1>6. CASE ~(M > 1)
  <2>1. M = 1 /\ N + 1 = K BY <1>3, <1>6
  <2>2. phase' = "end" /\ outcome' = Conclusion(cmd, Append(got, a))
    <3>1. cmd.op # "sample" BY DEF Scripted
    <3> QED BY <1>6, <3>1 DEF Reply, End, M
  <2> QED BY <1>1, <1>3, <2>1, <2>2 DEF M, N, K
<1> QED BY <1>5, <1>6

LEMMA StillPlace ==
  ASSUME WInv, Still, trouble \subseteq trouble',
         req' # NONE => req' = req \/ "garbled" \in trouble'
  PROVE  PlaceInv'
<1>1. /\ phase' = phase /\ todo' = todo /\ cmd' = cmd /\ got' = got /\ outcome' = outcome
  BY DEF Still, toolVars
<1>2. InStep' = InStep /\ Scripted' = Scripted BY <1>1 DEF InStep, Scripted, Script
<1>3. ASSUME phase' = "wait", req' # NONE, "garbled" \notin trouble'
      PROVE  request'.arg = Argument(Head(todo))'
  <2>1. req' = req /\ "garbled" \notin trouble BY <1>3
  <2>2. request.arg = Argument(Head(todo)) BY <1>1, <1>3, <2>1 DEF WInv, PlaceInv
  <2> QED BY <1>1, <2>1, <2>2 DEF request, Argument
<1> QED BY <1>1, <1>2, <1>3 DEF WInv, PlaceInv

LEMMA StillSteps ==
  ASSUME WInv, Module \/ GateOpens \/ FactoryExpires \/ Faults \/ UNCHANGED vars
  PROVE  /\ Still /\ trouble \subseteq trouble'
         /\ req' # NONE => req' = req \/ "garbled" \in trouble'
<1>1. CASE Module
  <2>1. CASE Unheard \/ Reset BY <2>1 DEF Unheard, Reset, Reboot, Still
  <2>2. CASE Rejected \/ Read \/ SampleStart \/ Unlock1 \/ Unlock2 \/ StageAddr \/ StageData
               \/ Program \/ ProgramFails \/ Lock BY <2>2, ModuleAnswers DEF Answered
  <2> QED BY <1>1, <2>1, <2>2 DEF Module
<1>2. CASE GateOpens \/ FactoryExpires \/ UNCHANGED vars
  BY <1>2 DEF GateOpens, FactoryExpires, vars, Still
<1>3. CASE Faults
  BY <1>3 DEF Faults, Restart, Cascade, LoseRequest, GarbleRequest, LoseReply, GarbleReply, Fault,
              Reboot, Still
<1> QED BY <1>1, <1>2, <1>3

\* Any end of a session: nothing but the outcome matters.
LEMMA EndPlace ==
  ASSUME phase' = "end", outcome' = "verified" => cmd'.op = "write_page"
  PROVE  PlaceInv'
BY DEF PlaceInv

LEMMA StartPlace ==
  ASSUME WInv, NEW c \in Commands, Start(c)
  PROVE  PlaceInv'
<1>1. /\ cmd' = c /\ todo' = Plan(c) /\ got' = <<>> /\ phase' = "listen" /\ outcome' = "none"
  BY DEF Start
<1>2. Len(got') = 0 /\ Len(todo') \in Nat
  BY <1>1, Nothing, PlanType, SequenceOf DEF IsSequence
<1>3. Scripted' => InStep'
  <2> SUFFICES ASSUME Scripted' PROVE InStep' OBVIOUS
  <2>1. Script' = Plan(c) BY <1>1 DEF Script, Scripted
  <2> DEFINE s == Plan(c)
  <2>2. Script' = s /\ todo' = s /\ Len(s) \in Nat BY <1>1, <1>2, <2>1
  <2> HIDE DEF s
  <2>3. \A i \in 1 .. Len(s) : s[i] = s[0 + i] OBVIOUS
  <2>4. 0 + Len(s) = Len(s) BY <2>2
  <2> QED BY <1>2, <2>2, <2>3, <2>4 DEF InStep
<1> QED BY <1>1, <1>3 DEF PlaceInv

\* A step that keeps the plan where it is.
LEMMA SamePlace ==
  ASSUME WInv, cmd' = cmd, got' = got, trouble' = trouble, outcome' = outcome, todo' = todo,
         phase # "end", phase' \in {"listen", "send", "wait", "quiet"},
         phase' = "listen" => phase = "listen",
         phase' # "listen" => ~Refused(cmd),
         phase # "sleep", phase' = "wait" => phase = "wait" /\ req' = NONE
  PROVE  PlaceInv'
<1>1. InStep' = InStep /\ Scripted' = Scripted BY DEF InStep, Scripted, Script
<1>2. phase \in {"listen", "send", "wait", "quiet"} BY DEF WInv, IInv, ToolInv
<1> QED BY <1>1, <1>2 DEF WInv, PlaceInv

LEMMA ListenPlace ==
  ASSUME WInv, Listen
  PROVE  PlaceInv'
<1>1. /\ phase = "listen" /\ cmd' = cmd /\ got' = got /\ trouble' = trouble
  BY DEF Listen
<1>2. outcome = "none" /\ cmd \in Commands BY <1>1 DEF WInv, PlaceInv
<1>3. CASE phase' = "end" /\ outcome' \in {"unsafe", "refused", "ok"} BY <1>3, EndPlace
<1>4. CASE /\ phase' \in {"listen", "send"} /\ todo' = todo /\ outcome' = outcome
           /\ phase' # "listen" => ~Refused(cmd) BY <1>1, <1>4, SamePlace
<1> QED BY <1>1, <1>3, <1>4 DEF Listen, End, Proceed

LEMMA WithheldPlace ==
  ASSUME WInv, Withheld
  PROVE  PlaceInv'
<1>1. phase' = "end" /\ outcome' \in {"unsafe", "refused"} BY DEF Withheld, End
<1> QED BY <1>1, EndPlace

LEMMA TransmitPlace ==
  ASSUME WInv, Transmit
  PROVE  PlaceInv'
<1> USE DEF WInv
<1>1. /\ phase = "send" /\ cmd' = cmd /\ got' = got /\ trouble' = trouble
      /\ Target(Head(todo)) \in 0 .. 31
      /\ req' = Frame(Target(Head(todo)), SUB[Head(todo).name], Argument(Head(todo)))
  BY DEF Transmit
<1>2. CASE Head(todo).name = "RESET"
  <2>1. phase' = "end" /\ outcome' = "ok" BY <1>2 DEF Transmit, End
  <2> QED BY <2>1, EndPlace
<1>3. CASE Head(todo).name # "RESET"
  <2>1. phase' = "wait" /\ todo' = todo /\ outcome' = outcome BY <1>3 DEF Transmit
  <2>2. request'.arg = Argument(Head(todo))'
    <3>1. PICK i, s, a : i = Target(Head(todo)) /\ s = SUB[Head(todo).name]
                           /\ a = Argument(Head(todo)) OBVIOUS
    <3>2. Head(todo) \in Request BY <1>1, HeadIsRequest DEF IInv, RequestsOf
    <3>3. i \in 0 .. 31 /\ s \in 0 .. 31 /\ a \in Word
      BY <1>1, <3>1, <3>2, SubNumbers, ArgumentIsWord DEF Request
    <3>4. decode_cmd3(Frame(i, s, a).data).arg = a BY <3>3, RequestFrame
    <3>5. Argument(Head(todo))' = a BY <1>1, <2>1, <3>1 DEF Argument
    <3>6. request' = decode_cmd3(req'.data) /\ req' = Frame(i, s, a)
      BY <1>1, <3>1 DEF request
    <3> QED BY <3>4, <3>5, <3>6
  <2>3. InStep' = InStep /\ Scripted' = Scripted
    BY <1>1, <2>1 DEF InStep, Scripted, Script
  <2> QED BY <1>1, <1>3, <2>1, <2>2, <2>3 DEF PlaceInv
<1> QED BY <1>2, <1>3

\* An error ends the command, or a scan goes on.
LEMMA RaisePlace ==
  ASSUME WInv, phase \in {"wait", "quiet"}, NEW how \in {"nak", "timeout"}, Raise(how),
         cmd' = cmd
  PROVE  PlaceInv'
<1>1. CASE phase' = "end" /\ outcome' \in {"ok", "nak", "timeout"} BY <1>1, EndPlace
<1>2. CASE cmd.op = "scan" /\ phase' = "send" /\ outcome' = outcome
  <2>1. ~Scripted' /\ ~Refused(cmd') BY <1>2 DEF Scripted, Refused
  <2> QED BY <1>2, <2>1 DEF WInv, PlaceInv
<1> QED BY <1>1, <1>2 DEF Raise, End

LEMMA WaitPlace ==
  ASSUME WInv, Wait
  PROVE  PlaceInv'
<1>1. /\ phase = "wait" /\ cmd' = cmd /\ trouble' = trouble /\ req' = req /\ req = NONE
  BY DEF Wait, Passes
<1>2. CASE UNCHANGED <<todo, got, outcome>> /\ phase' \in {"wait", "quiet"}
  <2>1. ~Refused(cmd) BY <1>1 DEF WInv, PlaceInv
  <2> QED BY <1>1, <1>2, <2>1, SamePlace
<1>3. CASE Raise("nak") BY <1>1, <1>3, RaisePlace
<1>4. ASSUME NEW a, NEW l, Reply(a, l)
      PROVE  PlaceInv'
  <2>1. /\ cmd \in Commands /\ outcome = "none" /\ ~Refused(cmd)
    BY <1>1 DEF WInv, PlaceInv
  <2>2. CASE Scripted
    <3>1. CASE phase' = "send" /\ outcome' = outcome /\ InStep'
      BY <1>1, <2>1, <3>1 DEF PlaceInv
    <3>2. CASE phase' = "end" /\ outcome' = Conclusion(cmd, got')
      <4>1. outcome' = "verified" => cmd.op = "write_page" BY <3>2 DEF Conclusion
      <4> QED BY <1>1, <3>2, <4>1, EndPlace
    <3> QED BY <1>1, <1>4, <2>2, <3>1, <3>2, PlanGoesOn
  <2>3. CASE ~Scripted
    <3>1. \/ phase' = "end" /\ outcome' \in {"ok", "timeout"}
          \/ phase' = "send" /\ outcome' = outcome
          \/ phase' = "sleep" /\ cmd.op = "sample" /\ outcome' = outcome
      <4>1. CASE Len(todo) > 1 BY <1>4, <4>1 DEF Reply, Proceed
      <4>2. CASE ~(Len(todo) > 1) /\ cmd.op = "sample"
        BY <1>4, <4>2 DEF Reply, SampleTurn, End
      <4>3. CASE ~(Len(todo) > 1) /\ cmd.op # "sample"
        <5>1. cmd.op = "scan" BY <2>3, <4>3 DEF Scripted
        <5>2. phase' = "end" /\ outcome' = Conclusion(cmd, Append(got, a))
          BY <1>4, <4>3 DEF Reply, End
        <5> QED BY <5>1, <5>2 DEF Conclusion
      <4> QED BY <4>1, <4>2, <4>3
    <3>2. ~Scripted' BY <1>1, <2>3 DEF Scripted
    <3> QED BY <1>1, <2>1, <3>1, <3>2 DEF PlaceInv
  <2> QED BY <2>2, <2>3
<1> QED BY <1>2, <1>3, <1>4, WaitEnds DEF WInv

LEMMA SleepPlace ==
  ASSUME WInv, Sleep
  PROVE  PlaceInv'
<1>1. /\ phase \in {"quiet", "sleep"} /\ cmd' = cmd /\ trouble' = trouble
      /\ phase # "sleep" => got' = got BY DEF Sleep
<1>2. /\ cmd \in Commands /\ outcome = "none" /\ ~Refused(cmd)
      /\ phase = "sleep" => cmd.op = "sample" BY <1>1 DEF WInv, PlaceInv
<1>3. CASE phase = "quiet" /\ left > 1
  <2>1. phase' = "quiet" /\ todo' = todo /\ outcome' = outcome /\ got' = got
    BY <1>1, <1>3 DEF Sleep
  <2> QED BY <1>1, <1>2, <1>3, <2>1, SamePlace
<1>4. CASE phase = "quiet" /\ ~(left > 1)
  <2>1. Raise("timeout") BY <1>4 DEF Sleep
  <2> QED BY <1>1, <1>4, <2>1, RaisePlace
<1>5. CASE phase = "sleep"
  <2>1. phase' \in {"sleep", "send"} /\ outcome' = outcome BY <1>5 DEF Sleep, Proceed
  <2>2. ~Scripted' BY <1>1, <1>2, <1>5 DEF Scripted
  <2> QED BY <1>1, <1>2, <1>5, <2>1, <2>2 DEF PlaceInv
<1> QED BY <1>1, <1>3, <1>4, <1>5

LEMMA PlaceStep ==
  ASSUME WInv, [Next]_vars
  PROVE  WInv'
<1>1. IInv' /\ SnapType' BY StepKeeps, SnapshotTypes DEF WInv
<1>2. CASE \E c \in Commands : Start(c) BY <1>1, <1>2, StartPlace DEF WInv
<1>3. CASE Tool
  BY <1>1, <1>3, ListenPlace, TransmitPlace, WithheldPlace, WaitPlace, SleepPlace
     DEF WInv, Tool
<1>4. CASE Idle
  <2>1. phase' = "end" /\ UNCHANGED <<outcome, cmd>> BY <1>4 DEF Idle, toolVars
  <2>2. outcome' = "verified" => cmd'.op = "write_page" BY <2>1 DEF WInv, PlaceInv
  <2> QED BY <1>1, <2>1, <2>2, EndPlace DEF WInv
<1>5. CASE Module \/ GateOpens \/ FactoryExpires \/ Faults \/ UNCHANGED vars
  <2>1. /\ Still /\ trouble \subseteq trouble'
        /\ req' # NONE => req' = req \/ "garbled" \in trouble' BY <1>5, StillSteps
  <2> QED BY <1>1, <2>1, StillPlace DEF WInv
<1> QED BY <1>2, <1>3, <1>4, <1>5 DEF Next

----------------------------------------------------------------------------
(* The plan of write_page, request by request                              *)

LEMMA Places ==
  /\ SN \in Nat /\ SN >= 1 /\ SN <= 31 /\ OPEN = SN + 2 /\ OPEN \in Nat
  /\ STAGED = OPEN + 2 * PAGE_WORDS /\ STAGED \in Nat
<1>1. SN \in 1 .. 31 BY ModuleAssumption DEF SN
<1> QED BY <1>1, SmallPage DEF OPEN, STAGED

LEMMA JoinedAs ==
  ASSUME NEW s, IsSequence(s), NEW t, IsSequence(t), NEW u, u = s \o t
  PROVE  /\ IsSequence(u) /\ Len(u) = Len(s) + Len(t)
         /\ \A i \in 1 .. Len(s) : u[i] = s[i]
         /\ \A i \in 1 .. Len(t) : u[Len(s) + i] = t[i]
BY Joined

\* u is s and behind it t.
Chain(s, t, u) == u = s \o t
Chained(s, n, t, m, u) ==
  /\ IsSequence(u) /\ Len(u) = n + m
  /\ \A i \in 1 .. n : u[i] = s[i]
  /\ \A i \in 1 .. m : u[n + i] = t[i]

LEMMA JoinedAt ==
  ASSUME NEW s, IsSequence(s), NEW t, IsSequence(t), NEW u, Chain(s, t, u),
         NEW n \in Nat, Len(s) = n, NEW m \in Nat, Len(t) = m
  PROVE  Chained(s, n, t, m, u)
<1>1. IsSequence(u) BY JoinedAs DEF Chain
<1>2. Len(u) = Len(s) + Len(t) BY JoinedAs DEF Chain
<1>3. \A i \in 1 .. Len(s) : u[i] = s[i] BY JoinedAs DEF Chain
<1>4. \A i \in 1 .. Len(t) : u[Len(s) + i] = t[i] BY JoinedAs DEF Chain
<1> QED BY <1>1, <1>2, <1>3, <1>4 DEF Chained

LEMMA OneMore ==
  ASSUME NEW s, IsSequence(s), NEW n \in Nat, Len(s) = n, NEW r, NEW u, Chain(s, <<r>>, u)
  PROVE  /\ IsSequence(u) /\ Len(u) = n + 1
         /\ \A i \in 1 .. n : u[i] = s[i]
         /\ u[n + 1] = r
<1>1. PICK t : t = <<r>> OBVIOUS
<1>2. IsSequence(t) /\ Len(t) = 1 /\ t[1] = r
  <2>1. <<r>> \in Seq({r}) OBVIOUS
  <2> QED BY <1>1, <2>1, SequenceOf
<1>3. Chain(s, t, u) BY <1>1
<1>4. PICK m \in Nat : m = 1 OBVIOUS
<1>5. Len(t) = m BY <1>2, <1>4
<1>6. Chained(s, n, t, m, u) BY <1>2, <1>3, <1>5, JoinedAt
<1>7. IsSequence(u) /\ Len(u) = n + m /\ \A i \in 1 .. n : u[i] = s[i]
  BY <1>6 DEF Chained
<1>8. \A i \in 1 .. m : u[n + i] = t[i] BY <1>6 DEF Chained
<1>9. u[n + 1] = r BY <1>2, <1>4, <1>8
<1> QED BY <1>4, <1>7, <1>9

LEMMA EachPlace ==
  ASSUME NEW name \in Ordinary, NEW n \in Nat, n <= 65536
  PROVE  /\ IsSequence(Each(name, n)) /\ Len(Each(name, n)) = n
         /\ \A i \in 1 .. n : Each(name, n)[i] = Rq(name, i - 1)
<1>1. Each(name, n) = [i \in 1 .. n |-> Rq(name, i - 1)] BY DEF Each
<1> DEFINE e == Each(name, n)
<1>2. e = [i \in 1 .. n |-> e[i]] /\ \A i \in 1 .. n : e[i] = Rq(name, i - 1) BY <1>1
<1> HIDE DEF e
<1>3. IsSequence(e) /\ Len(e) = n BY <1>2, Listed
<1> QED BY <1>2, <1>3 DEF e

LEMMA Alone == ASSUME NEW r PROVE IsSequence(<<r>>) /\ Len(<<r>>) = 1 /\ <<r>>[1] = r
<1>1. <<r>> \in Seq({r}) OBVIOUS
<1> QED BY <1>1, SequenceOf

LEMMA UnlockPlace ==
  /\ IsSequence(unlock) /\ Len(unlock) = OPEN
  /\ \A i \in 1 .. SN : unlock[i] = Rq("GET_SERNUM", i - 1)
  /\ unlock[SN + 1] = Rq("UNLOCK_1", MAGIC.UNLOCK_1) /\ unlock[OPEN] = Rq("UNLOCK_2", KEYED)
<1> DEFINE a == Rq("UNLOCK_1", MAGIC.UNLOCK_1)
           b == Rq("UNLOCK_2", KEYED)
           two == <<a, b>>
           s == sernum
           u == unlock
<1>1. IsSequence(two) /\ Len(two) = 2 /\ two[1] = a /\ two[2] = b
  <2> HIDE DEF a, b
  <2>1. two \in Seq({a, b}) OBVIOUS
  <2> QED BY <2>1, SequenceOf
<1>2. /\ IsSequence(s) /\ Len(s) = SN
      /\ \A i \in 1 .. SN : s[i] = Rq("GET_SERNUM", i - 1)
  <2>1. SN \in Nat /\ SN <= 65536 /\ "GET_SERNUM" \in Ordinary /\ s = Each("GET_SERNUM", SN)
    BY Places, FieldNames DEF sernum, SN
  <2> HIDE DEF s
  <2> QED BY <2>1, EachPlace
<1>3. Chain(s, two, u) BY DEF unlock, Chain
<1>4. SN \in Nat /\ 2 \in Nat /\ OPEN = SN + 2 BY Places
<1> HIDE DEF a, b, two, s, u
<1> DEFINE m == 2
<1>a. m \in Nat /\ m = 2 OBVIOUS
<1> HIDE DEF m
<1>b. Len(two) = m BY <1>1, <1>a
<1>e. Chained(s, SN, two, m, u) BY <1>1, <1>2, <1>3, <1>4, <1>a, <1>b, JoinedAt
<1>c. IsSequence(u) /\ Len(u) = SN + m /\ \A i \in 1 .. SN : u[i] = s[i]
  BY <1>e DEF Chained
<1>d. \A i \in 1 .. m : u[SN + i] = two[i] BY <1>e DEF Chained
<1>5. IsSequence(u) /\ Len(u) = SN + 2 /\ \A i \in 1 .. SN : u[i] = s[i] BY <1>a, <1>c
<1>6. \A i \in 1 .. 2 : u[SN + i] = two[i] BY <1>a, <1>d
<1>7. u[SN + 1] = a /\ u[SN + 2] = b BY <1>1, <1>6
<1> QED BY <1>2, <1>4, <1>5, <1>7 DEF a, b, u

LEMMA StagePlace ==
  ASSUME NEW page
  PROVE  /\ IsSequence(stage(page)) /\ Len(stage(page)) = 2 * PAGE_WORDS
         /\ \A j \in 1 .. PAGE_WORDS :
              /\ stage(page)[2 * j - 1] = Rq("STAGE_ADDR", Tagged(TAG.STAGE_ADDR, j - 1))
              /\ stage(page)[2 * j] = Rq("STAGE_DATA", page[j])
<1> DEFINE n == 2 * PAGE_WORDS
           E(i) == IF i % 2 = 1 THEN Rq("STAGE_ADDR", Tagged(TAG.STAGE_ADDR, (i - 1) \div 2))
                   ELSE Rq("STAGE_DATA", page[i \div 2])
           s == stage(page)
<1>1. s = [i \in 1 .. n |-> E(i)] BY DEF stage
<1>2. n \in Nat /\ PAGE_WORDS \in Nat BY SmallPage
<1>3. ASSUME NEW j \in 1 .. PAGE_WORDS
      PROVE  /\ 2 * j - 1 \in 1 .. n /\ 2 * j \in 1 .. n
             /\ (2 * j - 1) % 2 = 1 /\ (2 * j) % 2 # 1
             /\ (2 * j - 1 - 1) \div 2 = j - 1 /\ (2 * j) \div 2 = j BY <1>2
<1>4. s = [i \in 1 .. n |-> s[i]] /\ \A i \in 1 .. n : s[i] = E(i)
  <2> HIDE DEF E, n
  <2> QED BY <1>1
<1>5. ASSUME NEW j \in 1 .. PAGE_WORDS
      PROVE  /\ s[2 * j - 1] = Rq("STAGE_ADDR", Tagged(TAG.STAGE_ADDR, j - 1))
             /\ s[2 * j] = Rq("STAGE_DATA", page[j])
  <2>1. s[2 * j - 1] = E(2 * j - 1) /\ s[2 * j] = E(2 * j) BY <1>3, <1>4
  <2> HIDE DEF s, n
  <2> QED BY <1>3, <2>1
<1> HIDE DEF s, n, E
<1>6. IsSequence(s) /\ Len(s) = n BY <1>2, <1>4, Listed
<1> QED BY <1>5, <1>6 DEF s, n

\* Where in the plan which request stands.
ProgramRq == [Rq("COMMIT_CAL", MAGIC.COMMIT_CAL) EXCEPT !.window = TIMEOUT_PROG]
LEMMA WritePlace ==
  ASSUME NEW c, c.op = "write_page"
  PROVE  /\ IsSequence(Plan(c)) /\ Len(Plan(c)) = STAGED + PAGE_WORDS + 2
         /\ \A i \in 1 .. OPEN : Plan(c)[i] = unlock[i]
         /\ \A i \in 1 .. 2 * PAGE_WORDS : Plan(c)[OPEN + i] = stage(c.page)[i]
         /\ Plan(c)[STAGED + 1] = ProgramRq
         /\ \A i \in 1 .. PAGE_WORDS : Plan(c)[STAGED + 1 + i] = Rq("GET_CAL_WORD", i - 1)
         /\ Plan(c)[STAGED + PAGE_WORDS + 2] = Rq("GET_CAL_STATUS", 0)
<1> DEFINE s1 == stage(c.page)
           s2 == commit
           s3 == stored_page
           s4 == cal_status
           p1 == unlock \o s1
           p2 == p1 \o s2
           p3 == p2 \o s3
           p4 == p3 \o s4
<1> DEFINE L == STAGED + 1 + PAGE_WORDS
<1>0. Plan(c) = p4 BY DEF Plan, write_page
<1>N. /\ OPEN \in Nat /\ STAGED \in Nat /\ PAGE_WORDS \in Nat /\ 2 * PAGE_WORDS \in Nat
      /\ STAGED + 1 \in Nat /\ L \in Nat /\ STAGED = OPEN + 2 * PAGE_WORDS
  BY SmallPage, Places
<1>1. IsSequence(unlock) /\ Len(unlock) = OPEN BY UnlockPlace
<1>2. IsSequence(s1) /\ Len(s1) = 2 * PAGE_WORDS BY StagePlace
<1>3. s2 = <<ProgramRq>> BY DEF commit, ProgramRq
<1>4. /\ IsSequence(s3) /\ Len(s3) = PAGE_WORDS
      /\ \A i \in 1 .. PAGE_WORDS : s3[i] = Rq("GET_CAL_WORD", i - 1)
  BY SmallPage, EachPlace, FieldNames DEF stored_page
<1>5. s4 = <<Rq("GET_CAL_STATUS", 0)>> BY DEF cal_status
<1>A. Chain(unlock, s1, p1) /\ Chain(p1, <<ProgramRq>>, p2) BY <1>3 DEF Chain
<1>B. Chain(p2, s3, p3) /\ Chain(p3, <<Rq("GET_CAL_STATUS", 0)>>, p4) BY <1>5 DEF Chain
<1> HIDE DEF s1, s2, s3, s4, p1, p2, p3, p4
<1>61. Chained(unlock, OPEN, s1, 2 * PAGE_WORDS, p1) BY <1>1, <1>2, <1>A, <1>N, JoinedAt
<1>6. /\ IsSequence(p1) /\ Len(p1) = STAGED
      /\ \A i \in 1 .. OPEN : p1[i] = unlock[i]
      /\ \A i \in 1 .. 2 * PAGE_WORDS : p1[OPEN + i] = s1[i] BY <1>61, <1>N DEF Chained
<1>7. /\ IsSequence(p2) /\ Len(p2) = STAGED + 1
      /\ \A i \in 1 .. STAGED : p2[i] = p1[i]
      /\ p2[STAGED + 1] = ProgramRq BY <1>6, <1>A, <1>N, OneMore
<1>81. Chained(p2, STAGED + 1, s3, PAGE_WORDS, p3) BY <1>4, <1>7, <1>B, <1>N, JoinedAt
<1>8. /\ IsSequence(p3) /\ Len(p3) = L
      /\ \A i \in 1 .. STAGED + 1 : p3[i] = p2[i]
      /\ \A i \in 1 .. PAGE_WORDS : p3[STAGED + 1 + i] = s3[i] BY <1>81 DEF Chained
<1>9. /\ IsSequence(p4) /\ Len(p4) = L + 1
      /\ \A i \in 1 .. L : p4[i] = p3[i]
      /\ p4[L + 1] = Rq("GET_CAL_STATUS", 0) BY <1>8, <1>B, <1>N, OneMore
<1>10. /\ L \in Nat /\ L + 1 = STAGED + PAGE_WORDS + 2
       /\ \A i \in 1 .. STAGED + 1 : i \in 1 .. L
       /\ \A i \in 1 .. STAGED : i \in 1 .. STAGED + 1
       /\ \A i \in 1 .. OPEN : i \in 1 .. STAGED
       /\ \A i \in 1 .. 2 * PAGE_WORDS : OPEN + i \in 1 .. STAGED
       /\ \A i \in 1 .. PAGE_WORDS : STAGED + 1 + i \in 1 .. L
       /\ STAGED + 1 \in 1 .. STAGED + 1 BY SmallPage, Places
<1> HIDE DEF L
<1>11. \A i \in 1 .. STAGED : p4[i] = p1[i] BY <1>7, <1>8, <1>9, <1>10
<1>12. \A i \in 1 .. OPEN : p4[i] = unlock[i] BY <1>6, <1>10, <1>11
<1>13. \A i \in 1 .. 2 * PAGE_WORDS : p4[OPEN + i] = s1[i] BY <1>6, <1>10, <1>11
<1>14. p4[STAGED + 1] = ProgramRq BY <1>7, <1>8, <1>9, <1>10
<1>15. \A i \in 1 .. PAGE_WORDS : p4[STAGED + 1 + i] = Rq("GET_CAL_WORD", i - 1)
  BY <1>4, <1>8, <1>9, <1>10
<1> QED BY <1>0, <1>9, <1>10, <1>12, <1>13, <1>14, <1>15 DEF s1

\* What a session that writes a page asks for at place d of its plan.
Asks(d, r) ==
  \/ d < SN /\ r.name = "GET_SERNUM" /\ r.arg = d
  \/ d = SN /\ r.name = "UNLOCK_1" /\ r.arg = MAGIC.UNLOCK_1
  \/ d = SN + 1 /\ r.name = "UNLOCK_2" /\ r.arg = KEYED
  \/ \E j \in 1 .. PAGE_WORDS :
       \/ d = OPEN + 2 * j - 2 /\ r.name = "STAGE_ADDR" /\ r.arg = Tagged(TAG.STAGE_ADDR, j - 1)
       \/ d = OPEN + 2 * j - 1 /\ r.name = "STAGE_DATA" /\ r.arg = cmd.page[j]
  \/ d = STAGED /\ r.name = "COMMIT_CAL" /\ r.arg = MAGIC.COMMIT_CAL
  \/ \E j \in 1 .. PAGE_WORDS : d = STAGED + j /\ r.name = "GET_CAL_WORD" /\ r.arg = j - 1
  \/ d = STAGED + PAGE_WORDS + 1 /\ r.name = "GET_CAL_STATUS" /\ r.arg = 0

LEMMA WriteAsks ==
  ASSUME WInv, cmd.op = "write_page", phase \in {"send", "wait"}
  PROVE  Len(got) \in Nat /\ Asks(Len(got), Head(todo))
<1> USE DEF WInv
<1>1. InStep /\ Scripted /\ cmd \in Commands /\ todo # <<>>
  BY DEF PlaceInv, IInv, ToolInv, Scripted
<1> DEFINE d == Len(got)
           p == Plan(cmd)
           r == Head(todo)
           L == STAGED + PAGE_WORDS + 2
<1>2. d \in Nat /\ d + 1 \in 1 .. Len(p) /\ r = p[d + 1] BY <1>1, PlaceInPlan
<1>3. /\ Len(p) = L
      /\ \A i \in 1 .. OPEN : p[i] = unlock[i]
      /\ \A i \in 1 .. 2 * PAGE_WORDS : p[OPEN + i] = stage(cmd.page)[i]
      /\ p[STAGED + 1] = ProgramRq
      /\ \A i \in 1 .. PAGE_WORDS : p[STAGED + 1 + i] = Rq("GET_CAL_WORD", i - 1)
      /\ p[L] = Rq("GET_CAL_STATUS", 0) BY WritePlace
<1> HIDE DEF d, p, r
<1>4. /\ SN \in Nat /\ OPEN = SN + 2 /\ STAGED = OPEN + 2 * PAGE_WORDS /\ PAGE_WORDS \in Nat
      /\ OPEN \in Nat /\ STAGED \in Nat BY Places, SmallPage
<1>5. \/ d + 1 \in 1 .. SN \/ d + 1 = SN + 1 \/ d + 1 = OPEN
      \/ \E i \in 1 .. 2 * PAGE_WORDS : d + 1 = OPEN + i
      \/ d = STAGED
      \/ \E j \in 1 .. PAGE_WORDS : d = STAGED + j
      \/ d + 1 = L
  <2>1. CASE d + 1 <= OPEN BY <1>2, <1>4, <2>1
  <2>2. CASE d + 1 > OPEN /\ d + 1 <= STAGED
    <3>1. d + 1 - OPEN \in 1 .. 2 * PAGE_WORDS /\ d + 1 = OPEN + (d + 1 - OPEN)
      BY <1>2, <1>4, <2>2
    <3> QED BY <3>1
  <2>3. CASE d > STAGED /\ d + 1 < L
    <3>1. d - STAGED \in 1 .. PAGE_WORDS /\ d = STAGED + (d - STAGED)
      BY <1>2, <1>4, <2>3
    <3> QED BY <3>1
  <2> QED BY <1>2, <1>3, <1>4, <2>1, <2>2, <2>3
<1>6. CASE d + 1 \in 1 .. SN
  <2>1. d + 1 \in 1 .. OPEN /\ d < SN /\ d + 1 - 1 = d BY <1>2, <1>4, <1>6
  <2>2. r = Rq("GET_SERNUM", d + 1 - 1) BY <1>2, <1>3, <1>6, <2>1, UnlockPlace
  <2> QED BY <1>2, <2>1, <2>2 DEF Asks, Rq, d, r
<1>7. CASE d + 1 = SN + 1
  <2>1. d + 1 \in 1 .. OPEN /\ d = SN BY <1>2, <1>4, <1>7
  <2>2. r = Rq("UNLOCK_1", MAGIC.UNLOCK_1) BY <1>2, <1>3, <1>7, <2>1, UnlockPlace
  <2> QED BY <1>2, <2>1, <2>2 DEF Asks, Rq, d, r
<1>8. CASE d + 1 = OPEN
  <2>1. d + 1 \in 1 .. OPEN /\ d = SN + 1 BY <1>2, <1>4, <1>8
  <2>2. r = Rq("UNLOCK_2", KEYED) BY <1>2, <1>3, <1>8, <2>1, UnlockPlace
  <2> QED BY <1>2, <2>1, <2>2 DEF Asks, Rq, d, r
<1>9. ASSUME NEW i \in 1 .. 2 * PAGE_WORDS, d + 1 = OPEN + i
      PROVE  Asks(d, r)
  <2>0. r = stage(cmd.page)[i] BY <1>2, <1>3, <1>9
  <2>1. CASE i % 2 = 1
    <3>1. PICK j \in 1 .. PAGE_WORDS : i = 2 * j - 1
      <4>1. (i + 1) \div 2 \in 1 .. PAGE_WORDS /\ i = 2 * ((i + 1) \div 2) - 1
        BY <1>4, <2>1
      <4> QED BY <4>1
    <3>2. d = OPEN + 2 * j - 2 BY <1>2, <1>4, <1>9, <3>1
    <3>3. r = Rq("STAGE_ADDR", Tagged(TAG.STAGE_ADDR, j - 1)) BY <2>0, <3>1, StagePlace
    <3>4. r.name = "STAGE_ADDR" /\ r.arg = Tagged(TAG.STAGE_ADDR, j - 1) BY <3>3 DEF Rq
    <3> QED BY <3>2, <3>4 DEF Asks
  <2>2. CASE i % 2 # 1
    <3>1. PICK j \in 1 .. PAGE_WORDS : i = 2 * j
      <4>1. i \div 2 \in 1 .. PAGE_WORDS /\ i = 2 * (i \div 2) BY <1>4, <2>2
      <4> QED BY <4>1
    <3>2. d = OPEN + 2 * j - 1 BY <1>2, <1>4, <1>9, <3>1
    <3>3. r = Rq("STAGE_DATA", cmd.page[j]) BY <2>0, <3>1, StagePlace
    <3>4. r.name = "STAGE_DATA" /\ r.arg = cmd.page[j] BY <3>3 DEF Rq
    <3> QED BY <3>2, <3>4 DEF Asks
  <2> QED BY <2>1, <2>2
<1>10. CASE d = STAGED BY <1>2, <1>3, <1>10 DEF Asks, Rq, ProgramRq, d, r
<1>11. ASSUME NEW j \in 1 .. PAGE_WORDS, d = STAGED + j
       PROVE  Asks(d, r)
  <2>1. d + 1 = STAGED + 1 + j BY <1>4, <1>11
  <2>2. r = Rq("GET_CAL_WORD", j - 1) BY <1>2, <1>3, <2>1
  <2> QED BY <1>11, <2>2 DEF Asks, Rq
<1>12. CASE d + 1 = L
  <2>1. d = STAGED + PAGE_WORDS + 1 BY <1>2, <1>4, <1>12
  <2>2. r = Rq("GET_CAL_STATUS", 0) BY <1>2, <1>3, <1>12
  <2> QED BY <1>2, <2>1, <2>2 DEF Asks, Rq, d, r
<1> QED BY <1>2, <1>5, <1>6, <1>7, <1>8, <1>9, <1>10, <1>11, <1>12 DEF d, r

----------------------------------------------------------------------------
(* What the module has when it is asked                                    *)

LEMMA StagingEmpty == ASSUME NEW p PROVE Staging(p, OPEN) = Erased
<1>1. OPEN \in Nat BY Places
<1>2. \A j \in 1 .. PAGE_WORDS : ~(2 * j <= OPEN - OPEN) BY <1>1, SmallPage
<1> QED BY <1>2 DEF Staging, Erased

LEMMA StagingFull ==
  ASSUME NEW p \in [1 .. PAGE_WORDS -> Word]
  PROVE  Staging(p, STAGED) = p
<1>1. OPEN \in Nat /\ STAGED = OPEN + 2 * PAGE_WORDS BY Places
<1>2. \A j \in 1 .. PAGE_WORDS : 2 * j <= STAGED - OPEN BY <1>1, SmallPage
<1> QED BY <1>2 DEF Staging

PageLike(f) == DOMAIN f = 1 .. PAGE_WORDS /\ f = [i \in 1 .. PAGE_WORDS |-> f[i]]
NextStaged(p, j, d, e) == [Staging(p, d) EXCEPT ![j] = p[j]] = Staging(p, e)

LEMMA StagingWord ==
  ASSUME NEW p, NEW d
  PROVE  /\ PageLike(Staging(p, d))
         /\ \A i \in 1 .. PAGE_WORDS :
              Staging(p, d)[i] = IF 2 * i <= d - OPEN THEN p[i] ELSE 65535
<1> DEFINE W(i) == IF 2 * i <= d - OPEN THEN p[i] ELSE 65535
<1>1. Staging(p, d) = [i \in 1 .. PAGE_WORDS |-> W(i)] BY DEF Staging
<1>2. \A i : W(i) = IF 2 * i <= d - OPEN THEN p[i] ELSE 65535 OBVIOUS
<1> HIDE DEF W
<1>3. PageLike(Staging(p, d)) BY <1>1 DEF PageLike
<1> QED BY <1>1, <1>2, <1>3

LEMMA StagingSame ==
  ASSUME NEW p, NEW j \in 1 .. PAGE_WORDS, NEW d, d = OPEN + 2 * j - 2, NEW e, e = OPEN + 2 * j - 1
  PROVE  Staging(p, e) = Staging(p, d)
<1> DEFINE f == Staging(p, d)
           g == Staging(p, e)
<1>1. OPEN \in Nat BY Places
<1>2. ASSUME NEW i \in 1 .. PAGE_WORDS
      PROVE  2 * i <= d - OPEN <=> 2 * i <= e - OPEN
  <2>1. PAGE_WORDS \in Nat BY SmallPage
  <2>2. PICK k : k = OPEN OBVIOUS
  <2> QED BY <1>1, <2>1, <2>2
<1>3. \A i \in 1 .. PAGE_WORDS : f[i] = g[i] BY <1>2, StagingWord
<1>4. PageLike(f) /\ PageLike(g) BY StagingWord
<1> HIDE DEF f, g
<1>5. f = g BY <1>3, <1>4 DEF PageLike
<1> QED BY <1>5 DEF f, g

LEMMA StagingNext ==
  ASSUME NEW p, NEW j \in 1 .. PAGE_WORDS, NEW d, d = OPEN + 2 * j - 1, NEW e, e = OPEN + 2 * j
  PROVE  NextStaged(p, j, d, e)
<1> DEFINE f == Staging(p, d)
           g == Staging(p, e)
           h == [f EXCEPT ![j] = p[j]]
<1>1. OPEN \in Nat BY Places
<1>2. ASSUME NEW i \in 1 .. PAGE_WORDS
      PROVE  2 * i <= e - OPEN <=> (2 * i <= d - OPEN \/ i = j)
  <2>1. PAGE_WORDS \in Nat BY SmallPage
  <2>2. PICK k : k = OPEN OBVIOUS
  <2>3. i \in Nat /\ j \in Nat /\ k \in Nat /\ d - k = 2 * j - 1 /\ e - k = 2 * j
    BY <1>1, <2>1, <2>2
  <2> QED BY <2>2, <2>3
<1>3. PageLike(f) /\ PageLike(g) BY StagingWord
<1>4. \A i \in 1 .. PAGE_WORDS :
        /\ f[i] = IF 2 * i <= d - OPEN THEN p[i] ELSE 65535
        /\ g[i] = IF 2 * i <= e - OPEN THEN p[i] ELSE 65535 BY StagingWord
<1> HIDE DEF f, g
<1>5. \A i \in 1 .. PAGE_WORDS : h[i] = IF i = j THEN p[j] ELSE f[i]
  BY <1>3 DEF PageLike
<1>6. PageLike(h) BY <1>3 DEF PageLike
<1> HIDE DEF h
<1>7. \A i \in 1 .. PAGE_WORDS : h[i] = g[i] BY <1>2, <1>4, <1>5
<1>8. h = g BY <1>3, <1>6, <1>7 DEF PageLike
<1> QED BY <1>8 DEF f, g, h, NextStaged

LEMMA ReadyNext ==
  ASSUME cmd.op = "write_page", cmd \in Commands, NEW d \in Nat, NEW r, Asks(d, r), Ready(d),
         NEW e, e = d + 1, cmd' = cmd,
         r.name \in {"GET_SERNUM", "GET_CAL_WORD", "GET_CAL_STATUS"} =>
           stored' = stored,
         r.name = "UNLOCK_1" => lock' = "armed" /\ stored' = stored,
         r.name = "UNLOCK_2" => /\ lock # "factory" => staged' = Erased /\ index' = 0
                                /\ stored' = stored,
         r.name = "STAGE_ADDR" => /\ lock = "factory" /\ staged' = staged
                                  /\ index' = r.arg % 256 /\ stored' = stored,
         r.name = "STAGE_DATA" => /\ lock = "factory" /\ stored' = stored
                                  /\ staged' = [staged EXCEPT ![index + 1] = r.arg]
                                  /\ index' = index + 1,
         r.name = "COMMIT_CAL" => lock = "factory" /\ stored' = staged
  PROVE  Ready(e)'
<1> DEFINE p == cmd.page
<1>0. /\ SN \in Nat /\ OPEN = SN + 2 /\ STAGED = OPEN + 2 * PAGE_WORDS /\ PAGE_WORDS \in Nat
      /\ OPEN \in Nat /\ STAGED \in Nat /\ PAGE_WORDS >= 1 /\ PAGE_WORDS <= 34 /\ e \in Nat
  BY Places, SmallPage
<1>p. p \in [1 .. PAGE_WORDS -> Word] /\ cmd'.page = p BY CommandAssumption
<1>s. (Staging(cmd.page, e))' = Staging(p, e) BY <1>p DEF Staging
<1>r. ASSUME NEW k, k = e
      PROVE  Ready(k)' <=>
               /\ e = SN + 1 => lock' # "factory"
               /\ e \in OPEN .. STAGED /\ lock' = "factory" =>
                    staged' = Staging(p, e) /\ index' = (e - OPEN) \div 2
               /\ e > STAGED => stored' = p BY <1>p, <1>s, <1>r DEF Ready
<1> HIDE DEF p
<1>1. CASE d < SN /\ r.name = "GET_SERNUM"
  <2>1. e # SN + 1 /\ e \notin OPEN .. STAGED /\ ~(e > STAGED) BY <1>0, <1>1
  <2> QED BY <2>1, <1>r
<1>2. CASE d = SN /\ r.name = "UNLOCK_1"
  <2>1. e \notin OPEN .. STAGED /\ ~(e > STAGED) BY <1>0, <1>2
  <2> QED BY <1>2, <2>1, <1>r
<1>3. CASE d = SN + 1 /\ r.name = "UNLOCK_2"
  <2>1. e # SN + 1 /\ ~(e > STAGED) /\ e = OPEN BY <1>0, <1>3
  <2>2. staged' = Erased /\ index' = 0 BY <1>3 DEF Ready
  <2>4. (e - OPEN) \div 2 = 0 BY <2>1, <1>0
  <2> QED BY <2>1, <2>2, StagingEmpty, <2>4, <1>r
<1>4. ASSUME NEW j \in 1 .. PAGE_WORDS, d = OPEN + 2 * j - 2, r.name = "STAGE_ADDR",
             r.arg = Tagged(TAG.STAGE_ADDR, j - 1)
      PROVE  Ready(e)'
  <2>1. e # SN + 1 /\ ~(e > STAGED) /\ d \in OPEN .. STAGED /\ e = OPEN + 2 * j - 1
    BY <1>0, <1>4
  <2>2. staged = Staging(p, d) BY <1>4, <2>1 DEF Ready, p
  <2>3. Staging(p, e) = Staging(p, d) BY <1>4, <2>1, StagingSame
  <2>4. index' = (e - OPEN) \div 2
    <3>1. r.arg % 256 = j - 1
      <4>1. TAG.STAGE_ADDR = 165 /\ j - 1 \in Nat /\ j - 1 <= 255 BY <1>0 DEF TAG
      <4>2. PICK k : k = j - 1 OBVIOUS
      <4>3. Tagged(165, k) = k + 165 * 256 BY <4>1, <4>2 DEF Tagged
      <4>4. (k + 165 * 256) % 256 = k BY <4>1, <4>2, Split8
      <4> QED BY <1>4, <4>1, <4>2, <4>3, <4>4
    <3>2. (e - OPEN) \div 2 = j - 1
      <4>1. e - OPEN = 2 * (j - 1) + 1 BY <1>0, <2>1
      <4>2. (2 * (j - 1) + 1) \div 2 = j - 1 BY <1>0
      <4> QED BY <4>1, <4>2
    <3> QED BY <1>4, <3>1, <3>2
  <2>5. staged' = Staging(p, e) BY <1>4, <2>2, <2>3
  <2> QED BY <2>1, <2>4, <2>5, <1>r
<1>5. ASSUME NEW j \in 1 .. PAGE_WORDS, d = OPEN + 2 * j - 1, r.name = "STAGE_DATA",
             r.arg = cmd.page[j]
      PROVE  Ready(e)'
  <2>1. e # SN + 1 /\ ~(e > STAGED) /\ d \in OPEN .. STAGED /\ e = OPEN + 2 * j
    BY <1>0, <1>5
  <2>2. staged = Staging(p, d) /\ index = (d - OPEN) \div 2 /\ r.arg = p[j]
    BY <1>5, <2>1 DEF Ready, p
  <2>3. (d - OPEN) \div 2 = j - 1 /\ (e - OPEN) \div 2 = j
    <3>1. d - OPEN = 2 * (j - 1) + 1 /\ e - OPEN = 2 * j BY <1>0, <1>5
    <3>2. (2 * (j - 1) + 1) \div 2 = j - 1 /\ (2 * j) \div 2 = j BY <1>0
    <3> QED BY <3>1, <3>2
  <2>4. index + 1 = j BY <1>0, <2>2, <2>3
  <2>5. staged' = [Staging(p, d) EXCEPT ![j] = p[j]] /\ index' = j BY <1>5, <2>2, <2>4
  <2>6. NextStaged(p, j, d, e) BY <1>5, <2>1, StagingNext
  <2>7. staged' = Staging(p, e) BY <2>5, <2>6 DEF NextStaged
  <2> QED BY <2>1, <2>3, <2>5, <2>7, <1>r
<1>6. CASE d = STAGED /\ r.name = "COMMIT_CAL"
  <2>1. e # SN + 1 /\ e \notin OPEN .. STAGED /\ d \in OPEN .. STAGED BY <1>0, <1>6
  <2>2. staged = Staging(p, d) BY <1>6, <2>1 DEF Ready, p
  <2>3. stored' = p BY <1>6, <1>p, <2>2, StagingFull
  <2> QED BY <2>1, <2>3, <1>r
<1>7. CASE d > STAGED /\ r.name \in {"GET_CAL_WORD", "GET_CAL_STATUS"}
  <2>1. e # SN + 1 /\ e \notin OPEN .. STAGED BY <1>0, <1>7
  <2>2. stored' = p BY <1>7 DEF Ready, p
  <2> QED BY <2>1, <2>2, <1>r
<1> QED
  <2>1. \A j \in 1 .. PAGE_WORDS : STAGED + j > STAGED BY <1>0
  <2>2. STAGED + PAGE_WORDS + 1 > STAGED BY <1>0
  <2> QED BY <1>1, <1>2, <1>3, <1>4, <1>5, <1>6, <1>7, <2>1, <2>2 DEF Asks

----------------------------------------------------------------------------
(* StageInv is kept                                                        *)

\* A page in the USERROW and a buffer that is not touched.
LEMMA CalmReady ==
  ASSUME NEW d, cmd' = cmd, stored' = stored,
         \/ lock' = "locked"
         \/ lock' \in {lock, "locked"} /\ staged' = staged /\ index' = index,
         Ready(d)
  PROVE  Ready(d)'
<1>1. (Staging(cmd.page, d))' = Staging(cmd.page, d) BY DEF Staging
<1> QED BY <1>1 DEF Ready

\* Steps in which nothing is answered.
LEMMA CalmStage ==
  ASSUME WInv, StageInv, Still, trouble \subseteq trouble',
         Writing' => /\ \A i \in 1 .. Len(air') : ReplyAt(i)' =>
                          \E j \in 1 .. Len(air) : air'[i].frame = air[j].frame
                     /\ req' # NONE => req' = req
                     /\ stored' = stored \/ (req # NONE /\ req' = NONE /\ phase = "wait")
                     /\ \/ lock' = "locked"
                        \/ lock' \in {lock, "locked"} /\ staged' = staged /\ index' = index
  PROVE  StageInv'
<1>1. phase' = phase /\ cmd' = cmd /\ got' = got BY DEF Still, toolVars
<1>2. SUFFICES ASSUME Writing', phase # "end"
               PROVE  /\ phase = "send" \/ req' # NONE => Ready(Len(got))'
                      /\ phase = "wait" => \A i \in 1 .. Len(air') : ReplyAt(i)' =>
                           Nak(air'[i].frame) \/ Ready(Len(got) + 1)'
  BY <1>1 DEF StageInv, Nak
<1>3. Writing BY <1>1, <1>2 DEF Writing
<1>4. PICK d, e : d = Len(got) /\ e = Len(got) + 1 OBVIOUS
<1>5. Len(got') = d /\ Len(got') + 1 = e BY <1>1, <1>4
<1>6. ASSUME phase = "send" \/ req' # NONE
      PROVE  Ready(Len(got))'
  <2>1. stored' = stored
    <3>1. phase = "send" => req = NONE BY NoRequest DEF WInv, IInv
    <3> QED BY <1>2, <1>6, <3>1
  <2>2. Ready(d) BY <1>2, <1>3, <1>4, <1>6 DEF StageInv
  <2>3. Ready(d)' BY <1>1, <1>2, <2>1, <2>2, CalmReady
  <2> QED BY <1>5, <2>3
<1>7. ASSUME phase = "wait", NEW i \in 1 .. Len(air'), ReplyAt(i)', ~Nak(air'[i].frame)
      PROVE  Ready(Len(got) + 1)'
  <2>1. PICK j \in 1 .. Len(air) : air'[i].frame = air[j].frame BY <1>2, <1>7
  <2>2. ReplyAt(j) /\ ~Nak(air[j].frame) BY <1>7, <2>1 DEF ReplyAt
  <2>3. Ready(e) BY <1>2, <1>3, <1>4, <1>7, <2>2 DEF StageInv
  <2>4. req = NONE BY <1>7, <2>2 DEF WInv, IInv, Lateness, NoReply
  <2>5. Ready(e)' BY <1>1, <1>2, <2>3, <2>4, CalmReady
  <2> QED BY <1>5, <2>5
<1> QED BY <1>6, <1>7

LEMMA CalmSteps ==
  ASSUME WInv, StageInv,
         Unheard \/ Reset \/ GateOpens \/ FactoryExpires \/ Restart \/ LoseRequest
  PROVE  StageInv'
<1>1. Still /\ air' = air /\ req' \in {req, NONE} /\ trouble \subseteq trouble'
  BY DEF Unheard, Reset, GateOpens, FactoryExpires, Restart, LoseRequest, Reboot, Fault, Still
<1>2. \/ lock' = "locked"
      \/ lock' \in {lock, "locked"} /\ staged' = staged /\ index' = index
  BY DEF Unheard, Reset, GateOpens, FactoryExpires, Restart, LoseRequest, Reboot, moduleVars
<1>3. Writing' => stored' = stored \/ (req # NONE /\ req' = NONE /\ phase = "wait")
  <2>1. CASE Restart /\ Writes
    <3>1. req' = NONE /\ req # NONE
      BY <2>1 DEF Restart, Reboot, Writes, ServedAs, Served
    <3>2. Writing' => "garbled" \notin trouble BY <1>1 DEF Writing
    <3> QED BY <3>1, <3>2, <2>1, WhatIsWritten DEF WInv
  <2>2. CASE Restart /\ ~Writes BY <2>2 DEF Restart
  <2>3. CASE ~Restart
    BY <2>3 DEF Unheard, Reset, GateOpens, FactoryExpires, LoseRequest, moduleVars
  <2> QED BY <2>1, <2>2, <2>3
<1>4. \A i \in 1 .. Len(air') : ReplyAt(i)' => \E j \in 1 .. Len(air) : air'[i].frame = air[j].frame
  BY <1>1
<1> QED BY <1>1, <1>2, <1>3, <1>4, CalmStage

LEMMA AirSteps ==
  ASSUME WInv, StageInv, Cascade \/ GarbleRequest \/ LoseReply \/ GarbleReply
  PROVE  StageInv'
<1>1. /\ Still /\ trouble \subseteq trouble' /\ stored' = stored
      /\ lock' \in {lock, "locked"} /\ staged' = staged /\ index' = index
  BY DEF Cascade, GarbleRequest, LoseReply, GarbleReply, Fault, Still, moduleVars
<1>2. CASE GarbleRequest \/ GarbleReply
  <2>1. ~Writing' BY <1>2 DEF GarbleRequest, GarbleReply, Fault, Writing
  <2> QED BY <1>1, <2>1, CalmStage
<1>3. CASE Cascade
  <2>1. air' = Append(air, [frame |-> CascadeFrame, due |-> 1]) /\ req' = req
    BY <1>3 DEF Cascade
  <2>2. PICK e : e = [frame |-> CascadeFrame, due |-> 1] OBVIOUS
  <2>3. e.frame.cmd # 3 BY <2>2, CascadeIsNoReply
  <2>4. /\ Len(air) \in Nat /\ Len(air') = Len(air) + 1 /\ air'[Len(air) + 1] = e
        /\ \A i \in 1 .. Len(air) : air'[i] = air[i]
    BY <2>1, <2>2, Longer DEF WInv, IInv, AirInv, IsSequence
  <2>5. ASSUME NEW i \in 1 .. Len(air'), ReplyAt(i)'
        PROVE  \E j \in 1 .. Len(air) : air'[i].frame = air[j].frame
    <3>1. i # Len(air) + 1 BY <2>3, <2>4, <2>5 DEF ReplyAt
    <3>2. i \in 1 .. Len(air) BY <2>4, <3>1
    <3> QED BY <2>4, <3>2
  <2> QED BY <1>1, <2>1, <2>5, CalmStage
<1>4. CASE LoseReply
  <2>1. air' = SubSeq(air, 1, Len(air) - 1) /\ req' = req /\ air # <<>>
    BY <1>4 DEF LoseReply
  <2>2. IsSequence(air) /\ Len(air) > 0
    <3>1. IsSequence(air) BY DEF WInv, IInv, AirInv
    <3>2. Len(air) # 0
      <4> DEFINE S == {air[i] : i \in 1 .. Len(air)}
      <4>1. air \in Seq(S) BY <3>1, HoldsItsElements
      <4> HIDE DEF S
      <4> QED BY <2>1, <4>1
    <3>3. Len(air) \in Nat BY <3>1 DEF IsSequence
    <3> QED BY <3>1, <3>2, <3>3
  <2>3. \A i \in 1 .. Len(air') : i \in 1 .. Len(air) /\ air'[i] = air[i]
    BY <2>1, <2>2, FrontFrames
  <2>4. \A i \in 1 .. Len(air') : ReplyAt(i)' =>
          \E j \in 1 .. Len(air) : air'[i].frame = air[j].frame BY <2>3
  <2> QED BY <1>1, <2>1, <2>4, CalmStage
<1> QED BY <1>2, <1>3, <1>4

\* The reply to the request is the only one on its way.
LEMMA AnswerStage ==
  ASSUME WInv, StageInv, Still, req # NONE,
         NEW met, trouble \subseteq met, NEW sub, NEW arg, AnswerAfter(met, sub, arg),
         Writing /\ phase = "wait" =>
           \/ sub = SUB.NAK /\ arg \in Word
           \/ Ready(Len(got) + 1)'
  PROVE  StageInv'
<1>1. phase' = phase /\ cmd' = cmd /\ got' = got /\ todo' = todo BY DEF Still, toolVars
<1>2. req' = NONE /\ trouble \subseteq trouble' BY AnswerIsReply
<1>3. phase # "send" BY NoRequest DEF WInv, IInv
<1>4. ASSUME Writing', phase = "wait", NEW i \in 1 .. Len(air'), ReplyAt(i)',
             ~Nak(air'[i].frame)
      PROVE  Ready(Len(got) + 1)'
  <2>0. Writing BY <1>1, <1>2, <1>4 DEF Writing
  <2> DEFINE f == Frame(0, sub, arg)
  <2>1. PICK n : n = Len(air) OBVIOUS
  <2>2. PICK d \in 1 .. MaxLatency :
          /\ air # <<>> => d >= air[Len(air)].due
          /\ air' = Append(air, [frame |-> f, due |-> d]) BY DEF AnswerAfter
  <2>3. IsReply(f) BY ReplyFrame
  <2>4. sub = SUB.NAK /\ arg \in Word => Nak(f)
    <3>1. SUB.NAK \in 0 .. 31 /\ 0 \in 0 .. 31 BY RecordNumbers
    <3> QED BY <3>1, RequestFrame DEF Nak
  <2> HIDE DEF f
  <2>5. /\ n \in Nat /\ Len(air') = n + 1 /\ air'[n + 1].frame = f
        /\ \A k \in 1 .. n : ReplyAt(k)' <=> ReplyAt(k)
    <3>1. d \in Nat /\ d >= 1 /\ d <= MaxLatency BY Times
    <3>2. air # <<>> => d >= air[Len(air)].due BY <2>2
    <3>3. f.id \in 0 .. 31 BY <2>3 DEF IsReply
    <3> QED BY <2>1, <2>2, <3>1, <3>2, <3>3, FrameAdded DEF WInv, IInv
  <2>6. NoReply BY <1>4 DEF WInv, IInv, Lateness
  <2>7. i = n + 1
    <3>1. ~(i \in 1 .. n) BY <1>4, <2>1, <2>5, <2>6 DEF NoReply
    <3> QED BY <2>5, <3>1
  <2>8. ~Nak(f) BY <1>4, <2>5, <2>7
  <2> QED BY <1>4, <2>0, <2>4, <2>8
<1> QED BY <1>1, <1>2, <1>3, <1>4 DEF StageInv, Nak

\* Every subcommand a session that writes a page uses.
LEMMA StageNumbers ==
  /\ SUB.GET_SERNUM = 17 /\ SUB.GET_CAL_WORD = 15 /\ SUB.GET_CAL_STATUS = 16
  /\ SUB.UNLOCK_1 = 24 /\ SUB.UNLOCK_2 = 25 /\ SUB.STAGE_ADDR = 26 /\ SUB.STAGE_DATA = 27
  /\ SUB.COMMIT_CAL = 28 /\ SUB.SET_ID = 29 /\ SUB.LOCK = 30 /\ SUB.RESET = 31
  /\ SUB.SAMPLE_START = 22 /\ SUB.GET_SAMPLE = 23 /\ SUB.NAK = 0
BY DEF SUB

LEMMA AskedWrite ==
  ASSUME WInv, Writing, req # NONE, phase = "wait"
  PROVE  /\ Len(got) \in Nat /\ Asks(Len(got), Head(todo))
         /\ request.sub = SUB[Head(todo).name] /\ request.arg \in Word
         /\ request.arg = Argument(Head(todo))
         /\ cmd \in Commands /\ cmd.op = "write_page" /\ request.sub \in 0 .. 31
<1>1. cmd.op = "write_page" /\ "garbled" \notin trouble BY DEF Writing
<1>2. Len(got) \in Nat /\ Asks(Len(got), Head(todo)) BY <1>1, WriteAsks
<1>3. request.sub = SUB[Head(todo).name] /\ request.arg \in Word
  BY <1>1 DEF WInv, IInv, RequestInv, AsAsked
<1>4. request.arg = Argument(Head(todo)) /\ cmd \in Commands BY <1>1 DEF WInv, PlaceInv
<1>5. Head(todo).name \in DOMAIN SUB
  BY HeadIsRequest DEF WInv, IInv, RequestsOf, Request
<1> QED BY <1>1, <1>2, <1>3, <1>4, <1>5, SubNumbers

LEMMA NakStage ==
  ASSUME WInv, StageInv, Rejected \/ ProgramFails
  PROVE  StageInv'
<1>1. CASE Rejected
  <2>1. PICK v : v = Tagged(request.sub, Refusal(request.sub, request.arg)) OBVIOUS
  <2>2. Still /\ req # NONE /\ AnswerAfter(trouble, SUB.NAK, v)
    BY <1>1, <2>1 DEF Rejected, Still, Answer, Served
  <2>3. Writing /\ phase = "wait" => v \in Word BY <2>1, <2>2, AskedWrite, NakWord
  <2>4. PICK s : s = SUB.NAK OBVIOUS
  <2> QED BY <2>2, <2>3, <2>4, AnswerStage
<1>2. CASE ProgramFails
  <2>1. PICK v, met : /\ v = Tagged(request.sub, NAK_REASON.WRITE_FAIL)
                      /\ met = trouble \cup {"write"} OBVIOUS
  <2>2. Still /\ req # NONE /\ AnswerAfter(met, SUB.NAK, v) /\ trouble \subseteq met
    BY <1>2, <2>1 DEF ProgramFails, Still, Writes, ServedAs, Served
  <2>3. v \in Word
    <3>1. request.sub \in {28, 29}
      BY <1>2, StageNumbers DEF ProgramFails, Writes, ServedAs
    <3>2. request.sub \in Nat /\ request.sub <= 255 /\ NAK_REASON.WRITE_FAIL = 6
      BY <3>1 DEF NAK_REASON
    <3> QED BY <2>1, <3>2, TaggedWord
  <2> QED BY <2>2, <2>3, AnswerStage
<1> QED BY <1>1, <1>2

\* The names that go with the numbers, and the arguments that are sent as they are.
LEMMA AskedName ==
  ASSUME cmd.op = "write_page", cmd \in Commands, NEW d, NEW r, Asks(d, r),
         NEW s, s = SUB[r.name]
  PROVE  /\ r.name \in {"GET_SERNUM", "GET_CAL_WORD", "GET_CAL_STATUS"} => s \in {15, 16, 17}
         /\ r.name = "UNLOCK_1" => s = 24
         /\ r.name = "UNLOCK_2" => s = 25
         /\ r.name = "STAGE_ADDR" => s = 26 /\ r.arg # KEYED
         /\ r.name = "STAGE_DATA" => s = 27 /\ r.arg # KEYED
         /\ r.name = "COMMIT_CAL" => s = 28
         /\ s \in {15, 16, 17, 24, 25, 26, 27, 28}
<1>1. r.name \in {"GET_SERNUM", "GET_CAL_WORD", "GET_CAL_STATUS", "UNLOCK_1", "UNLOCK_2",
                  "STAGE_ADDR", "STAGE_DATA", "COMMIT_CAL"} BY DEF Asks
<1>2. r.name \in {"STAGE_ADDR", "STAGE_DATA"} => r.arg # KEYED
  <2>1. ASSUME NEW j \in 1 .. PAGE_WORDS, r.arg = Tagged(TAG.STAGE_ADDR, j - 1)
        PROVE  r.arg # KEYED
    <3>1. TAG.STAGE_ADDR = 165 /\ j - 1 \in Nat BY SmallPage DEF TAG
    <3>2. PICK k : k = j - 1 OBVIOUS
    <3> QED BY <2>1, <3>1, <3>2 DEF Tagged, KEYED
  <2>2. ASSUME NEW j \in 1 .. PAGE_WORDS, r.arg = cmd.page[j]
        PROVE  r.arg # KEYED
    <3>1. cmd.page[j] \in Word BY CommandAssumption
    <3>2. \A w \in Word : w # KEYED BY Ranges DEF KEYED
    <3> QED BY <2>2, <3>1, <3>2
  <2> QED BY <2>1, <2>2 DEF Asks
<1> QED BY <1>1, <1>2, StageNumbers

LEMMA DoneNext ==
  ASSUME WInv, StageInv, Writing, req # NONE, phase = "wait", cmd' = cmd, got' = got,
         NEW s, s = request.sub,
         s \in {15, 16, 17} => stored' = stored,
         s = 24 => lock' = "armed" /\ stored' = stored,
         s = 25 => /\ lock # "factory" => staged' = Erased /\ index' = 0
                   /\ stored' = stored,
         s = 26 => /\ lock = "factory" /\ staged' = staged
                   /\ index' = request.arg % 256 /\ stored' = stored,
         s = 27 => /\ lock = "factory" /\ stored' = stored
                   /\ staged' = [staged EXCEPT ![index + 1] = request.arg]
                   /\ index' = index + 1,
         s = 28 => lock = "factory" /\ stored' = staged
  PROVE  Ready(Len(got) + 1)'
<1>1. PICK d, e, r : d = Len(got) /\ e = d + 1 /\ r = Head(todo) OBVIOUS
<1>2. /\ d \in Nat /\ Asks(d, r) /\ s = SUB[r.name] /\ request.arg = Argument(r)
      /\ cmd \in Commands /\ cmd.op = "write_page" BY <1>1, AskedWrite
<1>3. Ready(d) BY <1>1 DEF StageInv
<1>4. r.arg # KEYED => request.arg = r.arg BY <1>2 DEF Argument
<1>5. /\ r.name \in {"GET_SERNUM", "GET_CAL_WORD", "GET_CAL_STATUS"} => s \in {15, 16, 17}
      /\ r.name = "UNLOCK_1" => s = 24
      /\ r.name = "UNLOCK_2" => s = 25
      /\ r.name = "STAGE_ADDR" => s = 26 /\ r.arg # KEYED
      /\ r.name = "STAGE_DATA" => s = 27 /\ r.arg # KEYED
      /\ r.name = "COMMIT_CAL" => s = 28 BY <1>2, AskedName
<1>6. Ready(e)'
  <2>1. r.name \in {"GET_SERNUM", "GET_CAL_WORD", "GET_CAL_STATUS"} => stored' = stored
    BY <1>5
  <2>2. r.name = "UNLOCK_1" => lock' = "armed" /\ stored' = stored BY <1>5
  <2>3. r.name = "UNLOCK_2" => /\ lock # "factory" => staged' = Erased /\ index' = 0
                               /\ stored' = stored BY <1>5
  <2>4. r.name = "STAGE_ADDR" => /\ lock = "factory" /\ staged' = staged
                                 /\ index' = r.arg % 256 /\ stored' = stored
    BY <1>4, <1>5
  <2>5. r.name = "STAGE_DATA" => /\ lock = "factory" /\ stored' = stored
                                 /\ staged' = [staged EXCEPT ![index + 1] = r.arg]
                                 /\ index' = index + 1 BY <1>4, <1>5
  <2>6. r.name = "COMMIT_CAL" => lock = "factory" /\ stored' = staged BY <1>5
  <2> QED BY <1>1, <1>2, <1>3, <2>1, <2>2, <2>3, <2>4, <2>5, <2>6, ReadyNext
<1>7. Len(got') + 1 = e BY <1>1
<1> QED BY <1>6, <1>7

LEMMA ReadStage ==
  ASSUME WInv, StageInv, Read
  PROVE  StageInv'
<1>1. PICK s, v : s = request.sub /\ v = ReadWord(request.sub, request.arg) OBVIOUS
<1>2. /\ Still /\ req # NONE /\ AnswerAfter(trouble, s, v) /\ stored' = stored
      /\ (s < SUB.SAMPLE_START \/ s = SUB.GET_SAMPLE)
  BY <1>1 DEF Read, Still, Answer, Served
<1>3. got' = got /\ cmd' = cmd BY <1>2 DEF Still, toolVars
<1>4. ASSUME Writing, phase = "wait"
      PROVE  Ready(Len(got) + 1)'
  <2>1. s \in 0 .. 31 BY <1>1, <1>2, <1>4, AskedWrite
  <2>2. s \notin {24, 25, 26, 27, 28} BY <1>2, <2>1, StageNumbers
  <2> QED BY <1>1, <1>2, <1>3, <1>4, <2>2, DoneNext
<1> QED BY <1>2, <1>4, AnswerStage

LEMMA UnlockStage ==
  ASSUME WInv, StageInv, Unlock1 \/ Unlock2
  PROVE  StageInv'
<1>1. CASE Unlock1
  <2>1. PICK s : s = request.sub OBVIOUS
  <2>2. /\ Still /\ req # NONE /\ AnswerAfter(trouble, SUB.UNLOCK_1, 0) /\ s = SUB.UNLOCK_1
        /\ stored' = stored /\ lock' = "armed"
    BY <1>1, <2>1 DEF Unlock1, Still, Answer, ServedAs, Served
  <2>3. got' = got /\ cmd' = cmd /\ s = 24 BY <2>2, StageNumbers DEF Still, toolVars
  <2>4. ASSUME Writing, phase = "wait"
        PROVE  Ready(Len(got) + 1)'
    BY <2>1, <2>2, <2>3, <2>4, DoneNext
  <2>5. PICK t, v : t = SUB.UNLOCK_1 /\ v = 0 OBVIOUS
  <2> QED BY <2>2, <2>4, <2>5, AnswerStage
<1>2. CASE Unlock2
  <2>1. PICK s : s = request.sub OBVIOUS
  <2>2. /\ Still /\ req # NONE /\ AnswerAfter(trouble, SUB.UNLOCK_2, 0) /\ s = SUB.UNLOCK_2
        /\ stored' = stored /\ (lock # "factory" => staged' = Erased /\ index' = 0)
    BY <1>2, <2>1 DEF Unlock2, Still, Answer, ServedAs, Served
  <2>3. got' = got /\ cmd' = cmd /\ s = 25 BY <2>2, StageNumbers DEF Still, toolVars
  <2>4. ASSUME Writing, phase = "wait"
        PROVE  Ready(Len(got) + 1)'
    BY <2>1, <2>2, <2>3, <2>4, DoneNext
  <2>5. PICK t, v : t = SUB.UNLOCK_2 /\ v = 0 OBVIOUS
  <2> QED BY <2>2, <2>4, <2>5, AnswerStage
<1> QED BY <1>1, <1>2

LEMMA StagingStage ==
  ASSUME WInv, StageInv, StageAddr \/ StageData
  PROVE  StageInv'
<1>1. CASE StageAddr
  <2>1. PICK s, v, a : s = request.sub /\ v = request.arg % 256 /\ a = request.arg
    OBVIOUS
  <2>2. /\ Still /\ req # NONE /\ AnswerAfter(trouble, SUB.STAGE_ADDR, v) /\ s = SUB.STAGE_ADDR
        /\ stored' = stored /\ staged' = staged /\ index' = request.arg % 256
        /\ Refusal(s, a) = 0
    BY <1>1, <2>1 DEF StageAddr, Still, Answer, ServedAs, Served
  <2>3. got' = got /\ cmd' = cmd /\ s = 26 BY <2>2, StageNumbers DEF Still, toolVars
  <2>4. lock = "factory" BY <2>2, <2>3, InFactory
  <2>5. ASSUME Writing, phase = "wait"
        PROVE  Ready(Len(got) + 1)'
    BY <2>1, <2>2, <2>3, <2>4, <2>5, DoneNext
  <2>6. PICK t : t = SUB.STAGE_ADDR OBVIOUS
  <2> QED BY <2>2, <2>5, <2>6, AnswerStage
<1>2. CASE StageData
  <2>1. PICK s, v, a : s = request.sub /\ v = index + 1 /\ a = request.arg OBVIOUS
  <2>2. /\ Still /\ req # NONE /\ AnswerAfter(trouble, SUB.STAGE_DATA, v) /\ s = SUB.STAGE_DATA
        /\ stored' = stored /\ staged' = [staged EXCEPT ![index + 1] = request.arg]
        /\ index' = index + 1
        /\ Refusal(s, a) = 0
    BY <1>2, <2>1 DEF StageData, Still, Answer, ServedAs, Served
  <2>3. got' = got /\ cmd' = cmd /\ s = 27 BY <2>2, StageNumbers DEF Still, toolVars
  <2>4. lock = "factory" BY <2>2, <2>3, InFactory
  <2>5. ASSUME Writing, phase = "wait"
        PROVE  Ready(Len(got) + 1)'
    BY <2>1, <2>2, <2>3, <2>4, <2>5, DoneNext
  <2>6. PICK t : t = SUB.STAGE_DATA OBVIOUS
  <2> QED BY <2>2, <2>5, <2>6, AnswerStage
<1> QED BY <1>1, <1>2

LEMMA ProgramStage ==
  ASSUME WInv, StageInv, Program
  PROVE  StageInv'
<1>1. PICK s, v, a : s = request.sub /\ v = did' /\ a = request.arg OBVIOUS
<1>2. /\ Still /\ req # NONE /\ AnswerAfter(trouble, s, v) /\ s \in {28, 29}
      /\ Refusal(s, a) = 0 /\ stored' = NewPage
  BY <1>1, StageNumbers DEF Program, Writes, Still, Answer, ServedAs, Served
<1>3. got' = got /\ cmd' = cmd BY <1>2 DEF Still, toolVars
<1>4. lock = "factory" BY <1>2, InFactory
<1>5. ASSUME Writing, phase = "wait"
      PROVE  Ready(Len(got) + 1)'
  <2>1. s = SUB[Head(todo).name] /\ Asks(Len(got), Head(todo)) /\ cmd \in Commands
        /\ cmd.op = "write_page" BY <1>1, <1>2, <1>5, AskedWrite
  <2>2. PICK r, d : r = Head(todo) /\ d = Len(got) OBVIOUS
  <2>3. s = 28 BY <1>2, <2>1, <2>2, AskedName
  <2>4. stored' = staged BY <1>1, <1>2, <2>3, StageNumbers DEF NewPage
  <2> QED BY <1>1, <1>3, <1>2, <1>4, <1>5, <2>3, <2>4, DoneNext
<1> QED BY <1>2, <1>5, AnswerStage

\* What a session that writes a page never asks for.
LEMMA OtherStage ==
  ASSUME WInv, StageInv, SampleStart \/ Lock
  PROVE  StageInv'
<1>1. PICK s : s = request.sub OBVIOUS
<1>2. PICK t, v : /\ Still /\ req # NONE /\ AnswerAfter(trouble, t, v) /\ s \in {22, 30}
                  /\ got' = got /\ cmd' = cmd
  <2>1. CASE SampleStart
    BY <1>1, <2>1, StageNumbers DEF SampleStart, ServedAs, Served, Answer, Still, toolVars
  <2>2. CASE Lock
    BY <1>1, <2>2, StageNumbers DEF Lock, ServedAs, Served, Answer, Still, toolVars
  <2> QED BY <2>1, <2>2
<1>3. ~(Writing /\ phase = "wait")
  <2> SUFFICES ASSUME Writing, phase = "wait" PROVE FALSE OBVIOUS
  <2>1. s = SUB[Head(todo).name] /\ Asks(Len(got), Head(todo)) /\ cmd \in Commands
        /\ cmd.op = "write_page" BY <1>1, <1>2, AskedWrite
  <2>2. PICK r, d : r = Head(todo) /\ d = Len(got) OBVIOUS
  <2>3. s \in {15, 16, 17, 24, 25, 26, 27, 28} BY <2>1, <2>2, AskedName
  <2> QED BY <1>2, <2>3
<1> QED BY <1>2, <1>3, AnswerStage

LEMMA ModuleStage ==
  ASSUME WInv, StageInv, Module \/ GateOpens \/ FactoryExpires \/ Faults
  PROVE  StageInv'
BY CalmSteps, AirSteps, NakStage, ReadStage, UnlockStage, StagingStage, ProgramStage, OtherStage
   DEF Module, Faults

\* A step of the tool leaves the module as it is.
LEMMA SameReady ==
  ASSUME NEW d, cmd' = cmd, UNCHANGED <<stored, lock, staged, index>>, Ready(d)
  PROVE  Ready(d)'
BY CalmReady

LEMMA ListenStage ==
  ASSUME WInv, StageInv, Listen
  PROVE  StageInv'
<1>1. /\ phase = "listen" /\ cmd' = cmd /\ got' = got /\ req' = req
      /\ phase' \in {"end", "listen", "send"} BY DEF Listen, End, Proceed
<1>2. req' = NONE /\ got' = <<>> BY <1>1, NoRequest DEF WInv, IInv, PlaceInv
<1>3. Len(got') = 0 BY <1>2, Nothing
<1>4. PICK d : d = 0 OBVIOUS
<1>5. Ready(d)'
  <2>1. d # SN + 1 /\ d \notin OPEN .. STAGED /\ ~(d > STAGED) BY <1>4, Places
  <2> QED BY <2>1 DEF Ready
<1>6. Ready(Len(got))' BY <1>3, <1>4, <1>5
<1> QED BY <1>1, <1>2, <1>6 DEF StageInv

LEMMA TransmitStage ==
  ASSUME WInv, StageInv, Transmit
  PROVE  StageInv'
<1>1. /\ phase = "send" /\ cmd' = cmd /\ got' = got /\ air' = air /\ trouble' = trouble
      /\ phase' \in {"end", "wait"} /\ UNCHANGED <<stored, lock, staged, index>>
  BY DEF Transmit, End, moduleVars
<1>2. NoReply BY <1>1 DEF WInv, IInv, Lateness
<1>3. \A i \in 1 .. Len(air') : ~ReplyAt(i)' BY <1>1, <1>2 DEF NoReply, ReplyAt
<1>4. Writing' => Ready(Len(got))'
  <2> SUFFICES ASSUME Writing' PROVE Ready(Len(got))' OBVIOUS
  <2>1. PICK d : d = Len(got) OBVIOUS
  <2>2. Ready(d) BY <1>1, <2>1 DEF StageInv, Writing
  <2>3. Ready(d)' BY <1>1, <2>2, SameReady
  <2>4. Len(got') = d BY <1>1, <2>1
  <2> QED BY <2>3, <2>4
<1> QED BY <1>1, <1>3, <1>4 DEF StageInv

\* A session that writes a page gives up on the first error.
LEMMA WriteEnds ==
  ASSUME Writing, NEW how, Raise(how)
  PROVE  phase' = "end" /\ outcome' = how
BY DEF Writing, Raise, End

LEMMA WaitStage ==
  ASSUME WInv, StageInv, Wait
  PROVE  StageInv'
<1>1. /\ phase = "wait" /\ cmd' = cmd /\ trouble' = trouble /\ req' = req /\ req = NONE
      /\ Passes /\ UNCHANGED <<stored, lock, staged, index>> BY DEF Wait, Passes
<1>2. SUFFICES ASSUME Writing'
               PROVE  StageInv'
  BY DEF StageInv
<1>3. Writing /\ Scripted BY <1>1, <1>2 DEF Writing, Scripted
<1>4. CASE got' = got /\ phase' \in {"wait", "quiet"}
  <2>1. PICK e : e = Len(got) + 1 OBVIOUS
  <2>2. Len(got') + 1 = e BY <1>4, <2>1
  <2>3. ASSUME NEW i \in 1 .. Len(air'), ReplyAt(i)', ~Nak(air'[i].frame)
        PROVE  Ready(Len(got) + 1)'
    <3>1. PICK j \in 1 .. Len(air) : air'[i].frame = air[j].frame
      BY <1>1, <2>3, TimeFrames DEF WInv
    <3>2. ReplyAt(j) /\ ~Nak(air[j].frame) BY <2>3, <3>1 DEF ReplyAt
    <3>3. Ready(e) BY <1>1, <1>3, <2>1, <3>2 DEF StageInv
    <3>4. Ready(e)' BY <1>1, <3>3, SameReady
    <3> QED BY <2>2, <3>4
  <2> QED BY <1>1, <1>4, <2>3 DEF StageInv, Nak
<1>5. CASE Raise("nak")
  <2>1. phase' = "end" BY <1>3, <1>5, WriteEnds
  <2> QED BY <2>1 DEF StageInv
<1>6. ASSUME NEW k \in 1 .. Len(air), ReplyAt(k), NEW a, NEW l, Reply(a, l), ~Nak(air[k].frame)
      PROVE  StageInv'
  <2>1. CASE phase' = "end" BY <2>1 DEF StageInv
  <2>2. CASE phase' = "send" /\ got' = Append(got, a)
    <3>1. PICK e : e = Len(got) + 1 OBVIOUS
    <3>2. Ready(e) BY <1>1, <1>3, <1>6, <3>1 DEF StageInv
    <3>3. Ready(e)' BY <1>1, <3>2, SameReady
    <3>4. Len(got') = e BY <2>2, <3>1, Longer DEF WInv, SnapType
    <3>5. Ready(Len(got))' BY <3>3, <3>4
    <3> QED BY <2>2, <3>5 DEF StageInv
  <2> QED BY <1>1, <1>3, <1>6, <2>1, <2>2, PlanGoesOn
<1> QED BY <1>4, <1>5, <1>6, WaitEnds DEF WInv, Nak

LEMMA SleepStage ==
  ASSUME WInv, StageInv, Sleep
  PROVE  StageInv'
<1>1. /\ phase \in {"quiet", "sleep"} /\ cmd' = cmd /\ trouble' = trouble /\ req' = req
  BY DEF Sleep, Passes
<1>2. req = NONE BY <1>1, NoRequest DEF WInv, IInv
<1>3. CASE phase = "quiet" /\ left > 1 BY <1>1, <1>2, <1>3 DEF Sleep, StageInv
<1>4. CASE phase = "quiet" /\ ~(left > 1)
  <2>1. Raise("timeout") BY <1>4 DEF Sleep
  <2>2. Writing => phase' = "end" BY <2>1, WriteEnds
  <2>3. Writing' => Writing BY <1>1 DEF Writing
  <2> QED BY <2>2, <2>3 DEF StageInv
<1>5. CASE phase = "sleep"
  <2>1. cmd.op = "sample" BY <1>5 DEF WInv, PlaceInv
  <2>2. ~Writing' BY <1>1, <2>1 DEF Writing
  <2> QED BY <2>2 DEF StageInv
<1> QED BY <1>1, <1>3, <1>4, <1>5

LEMMA StageStep ==
  ASSUME WInv, StageInv, [Next]_vars
  PROVE  StageInv'
<1>1. CASE \E c \in Commands : Start(c)
  <2>1. phase' = "listen" /\ req' = NONE BY <1>1 DEF Start
  <2> QED BY <2>1 DEF StageInv
<1>2. CASE Idle \/ Withheld
  <2>1. phase' = "end" BY <1>2 DEF Idle, Withheld, End, toolVars
  <2> QED BY <2>1 DEF StageInv
<1>3. CASE Tool
  BY <1>2, <1>3, ListenStage, TransmitStage, WaitStage, SleepStage DEF Tool
<1>4. CASE UNCHANGED vars
  <2>1. /\ Still /\ trouble' = trouble /\ air' = air /\ req' = req /\ stored' = stored
        /\ lock' = lock /\ staged' = staged /\ index' = index
    BY <1>4 DEF vars, Still, moduleVars
  <2> QED BY <2>1, CalmStage
<1> QED BY <1>1, <1>2, <1>3, <1>4, ModuleStage DEF Next

\* What the session that reports a verified page has read back is its page, and
\* so is what the USERROW holds.
LEMMA VerifiedIsStored ==
  ASSUME WInv, StageInv, [Next]_vars, phase # "end", phase' = "end", outcome' = "verified",
         "garbled" \notin trouble
  PROVE  stored = cmd.page /\ cmd.op = "write_page"
<1>1. outcome = "none" /\ cmd \in Commands BY DEF WInv, PlaceInv
<1>2. CASE Wait
  <2>1. phase = "wait" /\ cmd' = cmd BY <1>2 DEF Wait
  <2>2. PICK k \in 1 .. Len(air), l \in {window(Head(todo)) - left + 1} :
          /\ ReplyAt(k) /\ Reply(decode_cmd3(air[k].frame.data).arg, l)
          /\ ~Nak(air[k].frame)
    <3>1. ~Raise("nak") BY DEF Raise, End
    <3> QED BY <1>2, <3>1, WaitEnds DEF WInv, Nak
  <2>3. cmd.op = "write_page"
    <3>1. CASE Scripted
      <4>1. outcome' = Conclusion(cmd, got') BY <2>1, <2>2, <3>1, PlanGoesOn
      <4> QED BY <4>1 DEF Conclusion
    <3>2. CASE ~Scripted
      <4>1. PICK a : a = decode_cmd3(air[k].frame.data).arg OBVIOUS
      <4>2. Reply(a, l) BY <2>2, <4>1
      <4>3. CASE ~(Len(todo) > 1) /\ cmd.op = "sample"
        BY <4>2, <4>3 DEF Reply, SampleTurn, End
      <4>4. CASE ~(Len(todo) > 1) /\ cmd.op = "scan"
        BY <4>2, <4>4 DEF Reply, End, Conclusion
      <4>5. CASE Len(todo) > 1 BY <4>2, <4>5 DEF Reply, Proceed
      <4> QED BY <3>2, <4>3, <4>4, <4>5 DEF Scripted
    <3> QED BY <3>1, <3>2
  <2>4. Scripted /\ Writing BY <2>3 DEF Scripted, Writing
  <2>5. Len(got) + 1 = Len(Plan(cmd)) BY <2>1, <2>2, <2>4, PlanGoesOn
  <2>6. PICK e : e = Len(got) + 1 OBVIOUS
  <2>7. Ready(e) BY <2>1, <2>2, <2>4, <2>6 DEF StageInv
  <2>8. e > STAGED
    <3>1. Len(Plan(cmd)) = STAGED + PAGE_WORDS + 2 BY <2>3, WritePlace
    <3> QED BY <2>5, <2>6, <3>1, Places, SmallPage
  <2> QED BY <2>3, <2>7, <2>8 DEF Ready
<1>3. ~Wait => FALSE
  <2>1. ASSUME Listen \/ Withheld \/ Transmit \/ Sleep
        PROVE  FALSE
    <3>1. ~Listen BY <1>1 DEF Listen, End, Proceed
    <3>2. ~Withheld /\ ~Transmit BY <1>1 DEF Withheld, Transmit, End
    <3>3. ~Sleep BY <1>1 DEF Sleep, Raise, End, Proceed
    <3> QED BY <2>1, <3>1, <3>2, <3>3
  <2>2. ~Idle /\ ~(\E c \in Commands : Start(c)) BY DEF Idle, Start
  <2>3. ~(Module \/ GateOpens \/ FactoryExpires \/ Faults \/ UNCHANGED vars)
    BY StillSteps DEF Still, toolVars
  <2> QED BY <2>1, <2>2, <2>3 DEF Next, Tool
<1> QED BY <1>2, <1>3

----------------------------------------------------------------------------
(* The pages a module may hold                                             *)

LEMMA IsAmplitude ==
  ASSUME NEW z \in Int, -32768 <= z, z <= 32767
  PROVE  z \in Amplitude
<1> DEFINE a == -32768
           b == 32767
<1>1. a \in Int /\ b \in Int /\ a <= z /\ z <= b OBVIOUS
<1> HIDE DEF a, b
<1>2. z \in a .. b BY <1>1
<1> QED BY <1>2 DEF Amplitude, a, b

\* What the words of a valid page hold is a page.
LEMMA ValidIsPage ==
  ASSUME NEW w \in [1 .. PAGE_WORDS -> Word], fields_ok(w)
  PROVE  IsPage(from_words(w))
<1>1. PAGE_WORDS \in Nat /\ N_AMP \in Nat /\ PAGE_WORDS = 4 + 2 * N_AMP
  BY SmallPage, PageSize
<1>2. 2 \in 1 .. PAGE_WORDS /\ 3 \in 1 .. PAGE_WORDS BY <1>1
<1>3. PICK a, b : a = w[2] /\ b = w[3] OBVIOUS
<1>4. a \in Nat /\ a <= 65535 /\ b \in Nat /\ b <= 65535 BY <1>2, <1>3, Ranges
<1>5. a % 256 \in ID_MIN .. ID_MAX /\ b \div 4096 <= N_AMP BY <1>3 DEF fields_ok
<1>6. a \div 256 \in Byte /\ b % 4096 \in Day /\ b \div 4096 \in Nat
  BY <1>4 DEF Byte, Day
<1>7. PICK n : n = b \div 4096 OBVIOUS
<1>8. n \in Nat /\ n <= N_AMP /\ AtMost(w[3] \div 4096, N_AMP) = n
  BY <1>1, <1>3, <1>5, <1>6, <1>7 DEF AtMost
<1>9. \A k \in 1 .. n : 2 * k + 2 \in 1 .. PAGE_WORDS /\ 2 * k + 3 \in 1 .. PAGE_WORDS
  BY <1>1, <1>8
<1> DEFINE A == [k \in 1 .. n |-> i16(w[2 * k + 2])]
           P == [k \in 1 .. n |-> w[2 * k + 3]]
<1>10. A \in Seq(Amplitude) /\ Len(A) = n
  <2>1. \A v \in Word : i16(v) \in Amplitude
    <3> TAKE v \in Word
    <3>1. v \in Nat /\ v <= 65535 BY Ranges
    <3>2. i16(v) \in Int /\ -32768 <= i16(v) /\ i16(v) <= 32767 BY <3>1 DEF i16
    <3> QED BY <3>2, IsAmplitude
  <2>2. \A k \in 1 .. n : i16(w[2 * k + 2]) \in Amplitude
    <3> TAKE k \in 1 .. n
    <3>1. w[2 * k + 2] \in Word BY <1>9
    <3> QED BY <2>1, <3>1
  <2>3. A \in [1 .. n -> Amplitude] BY <2>2
  <2> HIDE DEF A
  <2> QED BY <1>8, <2>3
<1>11. P \in Seq(Word) /\ Len(P) = n
  <2>1. \A k \in 1 .. n : w[2 * k + 3] \in Word BY <1>9
  <2>2. P \in [1 .. n -> Word] BY <2>1
  <2> HIDE DEF P
  <2> QED BY <1>8, <2>2
<1>12. from_words(w) = [device_id |-> a % 256, station_id |-> a \div 256, cal_day |-> b % 4096,
                        amp |-> A, phase |-> P]
  <2>1. from_words(w) = WithHarmonics(w, n) BY <1>8 DEF from_words
  <2>2. WithHarmonics(w, n) = [device_id |-> w[2] % 256, station_id |-> w[2] \div 256,
                               cal_day |-> w[3] % 4096, amp |-> A, phase |-> P]
    BY DEF WithHarmonics
  <2> HIDE DEF A, P
  <2> QED BY <1>3, <2>1, <2>2
<1> HIDE DEF A, P
<1>13. from_words(w) \in [device_id : ID_MIN .. ID_MAX, station_id : Byte, cal_day : Day,
                          amp : Seq(Amplitude), phase : Seq(Word)]
  <2>1. PICK i, s, c : i = a % 256 /\ s = a \div 256 /\ c = b % 4096 OBVIOUS
  <2>2. i \in ID_MIN .. ID_MAX /\ s \in Byte /\ c \in Day BY <1>5, <1>6, <2>1
  <2>3. from_words(w) = [device_id |-> i, station_id |-> s, cal_day |-> c, amp |-> A, phase |-> P]
    BY <1>12, <2>1
  <2> QED BY <1>10, <1>11, <2>2, <2>3
<1>14. from_words(w).amp = A /\ from_words(w).phase = P BY <1>12
<1> QED BY <1>8, <1>10, <1>11, <1>13, <1>14 DEF IsPage

\* Another ID makes a page of a page.
Named(x, id) == [x EXCEPT !.device_id = id]

LEMMA NamedIsPage ==
  ASSUME NEW x, IsPage(x), NEW i \in ID_MIN .. ID_MAX
  PROVE  /\ IsPage(Named(x, i))
         /\ \A j : Named(Named(x, i), j) = Named(x, j)
<1>1. x \in [device_id : ID_MIN .. ID_MAX, station_id : Byte, cal_day : Day,
             amp : Seq(Amplitude), phase : Seq(Word)] BY DEF IsPage
<1> DEFINE y == Named(x, i)
<1>2. y = [device_id |-> i, station_id |-> x.station_id, cal_day |-> x.cal_day,
           amp |-> x.amp, phase |-> x.phase] BY <1>1 DEF Named
<1>3. y \in [device_id : ID_MIN .. ID_MAX, station_id : Byte, cal_day : Day,
             amp : Seq(Amplitude), phase : Seq(Word)] BY <1>1, <1>2
<1>4. y.amp = x.amp /\ y.phase = x.phase BY <1>2
<1>5. IsPage(y) BY <1>3, <1>4 DEF IsPage
<1>6. \A j : Named(y, j) = Named(x, j) BY <1>1 DEF Named
<1> QED BY <1>5, <1>6

BlankPage == [device_id |-> ID_MIN, station_id |-> 0, cal_day |-> 0, amp |-> <<>>, phase |-> <<>>]
LEMMA BlankIsPage ==
  /\ IsPage(BlankPage)
  /\ \A i : Identity(i) = to_words(Named(BlankPage, i))
<1>1. ID_MIN \in ID_MIN .. ID_MAX /\ 0 \in Byte /\ 0 \in Day
  BY DEF ID_MIN, ID_MAX, Byte, Day
<1>2. <<>> \in Seq(Amplitude) /\ <<>> \in Seq(Word) OBVIOUS
<1>3. Len(BlankPage.amp) = 0 /\ Len(BlankPage.phase) = 0 BY Nothing DEF BlankPage
<1>4. IsPage(BlankPage) BY <1>1, <1>2, <1>3, SmallPage DEF IsPage, BlankPage
<1>5. \A i : Named(BlankPage, i) = [device_id |-> i, station_id |-> 0, cal_day |-> 0, amp |-> <<>>,
                                    phase |-> <<>>] BY DEF Named, BlankPage
<1> QED BY <1>4, <1>5 DEF Identity

LEMMA ErasedIsKnown == Known(Erased)
<1>1. Erased[1] = 65535 BY SmallPage DEF Erased
<1>2. 65535 % 256 # PAGE_MAGIC BY DEF PAGE_MAGIC
<1> QED BY <1>1, <1>2 DEF Known, inspect_page

LEMMA PageIsKnown ==
  ASSUME NEW p \in KnownPages, p \in [1 .. PAGE_WORDS -> Word]
  PROVE  Known(p)
<1>1. inspect_page(p) = "valid" => fields_ok(p) BY DEF inspect_page
<1>2. \A id \in ID_MIN .. ID_MAX : ReId(p, id) \in Renamed BY DEF Renamed
<1> QED BY <1>1, <1>2, ValidIsPage DEF Known

\* Both ways in which SET_ID makes a page.
LEMMA RenamedIsKnown ==
  ASSUME NEW x, IsPage(x), \A j \in ID_MIN .. ID_MAX : to_words(Named(x, j)) \in Renamed,
         NEW i \in ID_MIN .. ID_MAX
  PROVE  Known(to_words(Named(x, i)))
<1>1. PICK y : y = Named(x, i) OBVIOUS
<1>2. IsPage(y) /\ \A j : Named(y, j) = Named(x, j) BY <1>1, NamedIsPage
<1>3. from_words(to_words(y)) = y BY <1>2, PageRoundTrip
<1>4. PICK w : w = to_words(y) OBVIOUS
<1>5. \A j : ReId(w, j) = to_words(Named(x, j)) BY <1>2, <1>3, <1>4 DEF ReId, Named
<1>6. Known(w) BY <1>2, <1>3, <1>4, <1>5 DEF Known
<1> QED BY <1>1, <1>4, <1>6

LEMMA WithIdIsKnown ==
  ASSUME Known(running), NEW i \in ID_MIN .. ID_MAX
  PROVE  WithId(i) \in Renamed /\ Known(WithId(i))
<1>1. CASE FromPage
  <2>1. PICK x : x = from_words(running) OBVIOUS
  <2>2. \A j : ReId(running, j) = to_words(Named(x, j)) BY <2>1 DEF ReId, Named
  <2>3. IsPage(x) /\ \A j \in ID_MIN .. ID_MAX : to_words(Named(x, j)) \in Renamed
    BY <1>1, <2>1, <2>2 DEF Known, FromPage
  <2>4. WithId(i) = to_words(Named(x, i)) BY <1>1, <2>2 DEF WithId
  <2> QED BY <2>3, <2>4, RenamedIsKnown
<1>2. CASE ~FromPage
  <2>1. WithId(i) = to_words(Named(BlankPage, i)) BY <1>2, BlankIsPage DEF WithId
  <2>2. \A j \in ID_MIN .. ID_MAX : to_words(Named(BlankPage, j)) \in Renamed
    <3>1. \A j \in ID_MIN .. ID_MAX : Identity(j) \in Renamed BY DEF Renamed
    <3> QED BY <3>1, BlankIsPage
  <2>3. PICK x : x = BlankPage OBVIOUS
  <2> QED BY <2>1, <2>2, <2>3, BlankIsPage, RenamedIsKnown
<1> QED BY <1>1, <1>2

----------------------------------------------------------------------------
(* ImplementsPageWrite                                                     *)

\* The ID of an accepted SET_ID is in range.
LEMMA SetIdInRange ==
  ASSUME NEW s, s = 29, NEW a, Refusal(s, a) = 0
  PROVE  a % 256 \in ID_MIN .. ID_MAX
<1>1. ~OutOfRange(s, a)
  <2>1. /\ NAK_REASON.BAD_INDEX # 0 /\ NAK_REASON.NOT_ELIGIBLE # 0 /\ NAK_REASON.NOT_UNLOCKED # 0
        /\ NAK_REASON.SEQUENCE # 0 /\ NAK_REASON.BAD_ARG # 0
        /\ NAK_REASON.UNSUPPORTED # 0 /\ NAK_REASON.BAD_ADDRESSING # 0
        /\ s # SUB.NAK /\ s # SUB.LATCH_SYNC BY DEF NAK_REASON, SUB
  <2>2. ~(s >= SUB.UNLOCK_1 /\ s # SUB.LOCK /\ gate # "write") BY <2>1 DEF Refusal
  <2>3. ~(s >= SUB.STAGE_ADDR /\ s # SUB.LOCK /\ lock # "factory")
    BY <2>1, <2>2 DEF Refusal
  <2>4. ~(\/ s = SUB.UNLOCK_1 /\ lock = "factory"
          \/ s = SUB.UNLOCK_2 /\ lock = "locked"
          \/ s \in RecordSub /\ a > 0 /\ snap[s] = 2)
    <3>1. s # SUB.UNLOCK_1 /\ s # SUB.UNLOCK_2 /\ s = SUB.SET_ID BY StageNumbers
    <3> QED BY <3>1, RecordNumbers
  <2>5. ~WrongArg(s, a) BY Zenon, <2>1, <2>2, <2>3, <2>4 DEF Refusal
  <2> QED BY Zenon, <2>1, <2>2, <2>3, <2>4, <2>5 DEF Refusal
<1>2. s = SUB.SET_ID /\ s # SUB.STAGE_ADDR /\ s # SUB.STAGE_DATA /\ s # SUB.SAMPLE_START
  BY StageNumbers
<1> QED BY Zenon, <1>1, <1>2 DEF OutOfRange

\* What a write may leave: the page asked for, or another ID in a page that may be there.
LEMMA NewPageIsAsked ==
  ASSUME WInv, StageInv, PagesInv, Writes, "garbled" \notin trouble
  PROVE  NewPage \in MayStore(cmd) /\ Known(NewPage)
<1>1. PICK s, a : s = request.sub /\ a = request.arg OBVIOUS
<1>2. s \in {28, 29} /\ Refusal(s, a) = 0 /\ req # NONE
  BY <1>1, StageNumbers DEF Writes, ServedAs, Served
<1>3. /\ phase = "wait" /\ lock = "factory"
      /\ \/ cmd.op = "write_page" /\ Head(todo).name = "COMMIT_CAL"
         \/ cmd.op = "set_id" /\ Head(todo).name = "SET_ID" BY WhatIsWritten DEF WInv
<1>4. cmd \in Commands /\ s = SUB[Head(todo).name]
  BY <1>1, <1>2, <1>3 DEF WInv, PlaceInv, IInv, RequestInv, AsAsked
<1>5. CASE cmd.op = "write_page"
  <2>1. s = 28 BY <1>3, <1>4, <1>5, StageNumbers
  <2>2. Writing BY <1>5 DEF Writing
  <2>3. PICK d, r : d = Len(got) /\ r = Head(todo) OBVIOUS
  <2>4. d \in Nat /\ Asks(d, r) /\ r.name = "COMMIT_CAL"
    BY <1>2, <1>3, <1>5, <2>2, <2>3, AskedWrite
  <2>5. d = STAGED BY <2>4 DEF Asks
  <2>6. Ready(d) BY <1>2, <1>3, <2>2, <2>3 DEF StageInv
  <2>7. cmd.page \in [1 .. PAGE_WORDS -> Word] BY <1>4, <1>5, CommandAssumption
  <2>8. staged = cmd.page
    <3>1. d \in OPEN .. STAGED BY <2>5, Places, SmallPage
    <3>2. staged = Staging(cmd.page, d) BY <1>3, <2>6, <3>1 DEF Ready
    <3> QED BY <2>5, <2>7, <3>2, StagingFull
  <2>9. NewPage = cmd.page BY <1>1, <2>1, <2>8, StageNumbers DEF NewPage
  <2>10. cmd.page \in KnownPages BY <1>4, <1>5 DEF KnownPages
  <2>11. MayStore(cmd) = {cmd.page} BY <1>5 DEF MayStore
  <2> QED BY <2>7, <2>9, <2>10, <2>11, PageIsKnown
<1>6. CASE cmd.op = "set_id"
  <2>1. s = 29 BY <1>3, <1>4, <1>6, StageNumbers
  <2>2. PICK i : i = a % 256 OBVIOUS
  <2>3. i \in ID_MIN .. ID_MAX BY <1>2, <2>1, <2>2, SetIdInRange
  <2>4. NewPage = WithId(i) BY <1>1, <2>1, <2>2, StageNumbers DEF NewPage
  <2>5. MayStore(cmd) = Renamed BY <1>6 DEF MayStore
  <2> QED BY <2>3, <2>4, <2>5, WithIdIsKnown DEF PagesInv
<1> QED BY <1>3, <1>5, <1>6

\* How the USERROW and the running page change.
LEMMA PagesChange ==
  ASSUME [Next]_vars
  PROVE  \/ stored' = stored /\ running' \in {running, stored, Erased}
         \/ /\ Writes /\ stored' \in {stored, NewPage, Erased} \cup Torn
            /\ running' \in {running, stored', Erased}
<1>1. CASE \E c \in Commands : Start(c) BY <1>1 DEF Start, moduleVars
<1>2. CASE Tool BY <1>2 DEF Tool, Listen, Transmit, Withheld, Wait, Sleep, moduleVars
<1>3. CASE Idle \/ GateOpens \/ FactoryExpires
  BY <1>3 DEF Idle, GateOpens, FactoryExpires
<1>4. CASE Module
  <2>1. CASE Program \/ ProgramFails BY <2>1 DEF Program, ProgramFails, Failures
  <2>2. CASE ~(Program \/ ProgramFails)
    BY <1>4, <2>2 DEF Module, Unheard, Rejected, Read, SampleStart, Unlock1, Unlock2, StageAddr,
              StageData, Lock, Reset, Reboot, moduleVars
  <2> QED BY <2>1, <2>2
<1>5. CASE Faults
  BY <1>5 DEF Faults, Restart, Cascade, LoseRequest, GarbleRequest, LoseReply, GarbleReply,
              moduleVars, Reboot, Failures
<1>6. CASE UNCHANGED vars BY <1>6 DEF vars, moduleVars
<1> QED BY <1>1, <1>2, <1>3, <1>4, <1>5, <1>6 DEF Next

LEMMA CleanStep ==
  ASSUME Clean, [Next /\ ~(GarbleRequest \/ GarbleReply)]_vars
  PROVE  Clean'
<1>1. CASE \E c \in Commands : Start(c) BY <1>1 DEF Start, Clean
<1>2. CASE Tool BY <1>2 DEF Tool, Listen, Transmit, Withheld, Wait, Sleep, Clean
<1>3. CASE Idle \/ GateOpens \/ FactoryExpires
  BY <1>3 DEF Idle, GateOpens, FactoryExpires, Clean
<1>4. CASE Module
  <2>1. ASSUME NEW met, "garbled" \notin met, NEW sub, NEW arg, AnswerAfter(met, sub, arg)
        PROVE  Clean'
    BY <2>1 DEF AnswerAfter, Clean
  <2>2. ASSUME NEW sub, NEW arg, Answer(sub, arg)
        PROVE  Clean'
    BY <2>1, <2>2 DEF Answer, Clean
  <2>3. CASE ProgramFails
    <3>1. "garbled" \notin trouble \cup {"write"} BY DEF Clean
    <3> QED BY <2>1, <2>3, <3>1 DEF ProgramFails
  <2>4. CASE Unheard \/ Reset BY <2>4 DEF Unheard, Reset, Clean
  <2>5. CASE Rejected BY <2>2, <2>5 DEF Rejected
  <2>6. CASE Read BY <2>2, <2>6 DEF Read
  <2>7. CASE SampleStart \/ Unlock1 \/ Unlock2 \/ Lock
    BY <2>2, <2>7 DEF SampleStart, Unlock1, Unlock2, Lock
  <2>8. CASE StageAddr \/ StageData \/ Program
    BY <2>2, <2>8 DEF StageAddr, StageData, Program
  <2> QED BY <1>4, <2>3, <2>4, <2>5, <2>6, <2>7, <2>8 DEF Module
<1>5. CASE Faults /\ ~(GarbleRequest \/ GarbleReply)
  BY <1>5 DEF Faults, Restart, Cascade, LoseRequest, LoseReply, Fault, Clean
<1>6. CASE UNCHANGED vars BY <1>6 DEF vars, Clean
<1> QED BY <1>1, <1>2, <1>3, <1>4, <1>5, <1>6 DEF Next

LEMMA PagesStep ==
  ASSUME RInv, [Next]_vars
  PROVE  PagesInv'
<1>1. Known(stored) /\ Known(running) /\ Known(Erased) /\ \A t \in Torn : Known(t)
  BY ErasedIsKnown, ModuleAssumption DEF RInv, PagesInv, Known
<1>2. PICK p, q : p = stored' /\ q = running' OBVIOUS
<1>3. CASE stored' = stored /\ running' \in {running, stored, Erased}
  <2>1. Known(p) /\ Known(q) BY <1>1, <1>2, <1>3
  <2>2. Known(p)' /\ Known(q)' BY <2>1 DEF Known
  <2> QED BY <1>2, <2>2 DEF PagesInv
<1>4. CASE /\ Writes /\ stored' \in {stored, NewPage, Erased} \cup Torn
           /\ running' \in {running, stored', Erased}
  <2>1. Known(NewPage) BY <1>4, NewPageIsAsked DEF RInv, Clean
  <2>2. PICK n : n = NewPage OBVIOUS
  <2>3. Known(p) /\ Known(q) BY <1>1, <1>2, <1>4, <2>1
  <2> QED BY <1>2, <2>3 DEF PagesInv
<1> QED BY <1>3, <1>4, PagesChange

LEMMA RStep ==
  ASSUME RInv, [Next /\ ~(GarbleRequest \/ GarbleReply)]_vars
  PROVE  RInv'
<1>1. [Next]_vars OBVIOUS
<1>2. WInv' /\ StageInv' BY <1>1, PlaceStep, StageStep DEF RInv
<1>3. Clean' BY CleanStep DEF RInv
<1>4. PagesInv' BY <1>1, PagesStep
<1> QED BY <1>2, <1>3, <1>4 DEF RInv

LEMMA RInit ==
  ASSUME Init
  PROVE  RInv
<1>1. IInv BY InitKeeps
<1>2. SnapType
  <2>1. snap \in [RecordSub -> 0 .. 2] BY DEF Init
  <2>2. IsSequence(got) BY Nothing DEF Init
  <2> QED BY <2>1, <2>2 DEF Init, SnapType
<1>3. phase = "end" /\ outcome = "none" /\ trouble = {} BY DEF Init
<1>4. PlaceInv BY <1>3 DEF PlaceInv
<1>5. StageInv /\ Clean BY <1>3 DEF StageInv, Clean
<1>6. PagesInv
  <2>1. FirstPage \in KnownPages /\ FirstPage \in [1 .. PAGE_WORDS -> Word]
    BY ModuleAssumption DEF KnownPages
  <2>2. Known(FirstPage) /\ Known(Erased) BY <2>1, PageIsKnown, ErasedIsKnown
  <2> QED BY <2>2 DEF Init, PagesInv
<1> QED BY <1>1, <1>2, <1>4, <1>5, <1>6 DEF RInv, WInv

\* A session goes on, ends, or has the USERROW written.
LEMMA SessionStep ==
  ASSUME RInv, [Next]_vars, \A c \in Commands : ~Start(c)
  PROVE  /\ cmd' = cmd
         /\ \/ /\ phase = "end" <=> phase' = "end"
               /\ outcome' = outcome
            \/ phase # "end" /\ phase' = "end" /\ stored' = stored
         /\ stored' # stored => Writes /\ Still
<1>1. CASE Tool
  <2>1. stored' = stored /\ cmd' = cmd
    BY <1>1 DEF Tool, Listen, Transmit, Withheld, Wait, Sleep, moduleVars
  <2>2. phase # "end" BY <1>1 DEF Tool, Listen, Transmit, Withheld, Wait, Sleep
  <2>3. phase' # "end" => outcome' = outcome
    <3> SUFFICES ASSUME phase' # "end" PROVE outcome' = outcome OBVIOUS
    <3>1. CASE Listen \/ Transmit \/ Withheld
      BY <3>1 DEF Listen, Transmit, Withheld, End, Proceed
    <3>2. CASE Sleep BY <3>2 DEF Sleep, Raise, End, Proceed
    <3>3. CASE Wait
      <4>1. CASE Raise("nak") BY <4>1 DEF Raise, End
      <4>2. ASSUME NEW a, NEW l, Reply(a, l)
            PROVE  outcome' = outcome
        BY <4>2 DEF Reply, SampleTurn, Proceed, End
      <4> QED BY <3>3, <4>1, <4>2, WaitEnds DEF RInv, WInv
    <3> QED BY <1>1, <3>1, <3>2, <3>3 DEF Tool
  <2> QED BY <2>1, <2>2, <2>3
<1>2. CASE Idle BY <1>2 DEF Idle, toolVars
<1>3. CASE Module \/ GateOpens \/ FactoryExpires \/ Faults \/ UNCHANGED vars
  <2>1. Still BY <1>3, StillSteps DEF RInv
  <2>2. stored' # stored => Writes BY PagesChange
  <2> QED BY <2>1, <2>2 DEF Still, toolVars
<1> QED BY <1>1, <1>2, <1>3 DEF Next

LEMMA StoreStep ==
  ASSUME RInv, [Next]_vars
  PROVE  [Store!Next]_Store!vars
<1> DEFINE job == IF phase = "end" THEN {} ELSE MayStore(cmd)
           ok == outcome = "verified"
<1>1. Store!vars = <<job, stored, ok>> BY DEF Store!vars
<1>2. phase # "end" => outcome = "none" BY DEF RInv, WInv, PlaceInv
<1>u. ASSUME job' = job, stored' = stored, ok' = ok
      PROVE  [Store!Next]_Store!vars
  <2>1. Store!vars' = <<job', stored', ok'>> BY Zenon DEF Store!vars
  <2>2. Store!vars' = Store!vars
    <3> HIDE DEF job, ok
    <3> QED BY <1>1, <1>u, <2>1, Zenon
  <2> QED BY <2>2
<1>3. ASSUME NEW c \in Commands, Start(c)
      PROVE  Store!Next
  <2>1. job = {} /\ ok' = FALSE /\ stored' = stored BY <1>3 DEF Start, moduleVars
  <2>2. PICK pages : pages = job' OBVIOUS
  <2>3. Store!Open(pages) BY <2>1, <2>2 DEF Store!Open
  <2> QED BY <2>2, <2>3 DEF Store!Next
<1>4. CASE /\ cmd' = cmd /\ stored' = stored /\ outcome' = outcome
           /\ phase = "end" <=> phase' = "end"
  <2>1. job' = job /\ ok' = ok BY <1>4 DEF MayStore, Renamed, KnownPages
  <2> QED BY <1>4, <1>u, <2>1
<1>5. CASE /\ cmd' = cmd /\ stored' = stored
           /\ phase # "end" /\ phase' = "end"
  <2>1. job' = {} /\ ok = FALSE BY <1>2, <1>5
  <2>2. ok' => stored \in job
    <3>1. ok' => stored = cmd.page /\ cmd.op = "write_page"
      BY <1>5, VerifiedIsStored DEF RInv, Clean
    <3> QED BY <1>5, <3>1 DEF MayStore
  <2>3. CASE job = {}
    <3>1. ok' = ok BY <2>1, <2>2, <2>3
    <3>2. job' = job BY <2>1, <2>3
    <3> QED BY <1>5, <1>u, <3>1, <3>2
  <2>4. CASE job # {}
    <3>1. PICK success \in BOOLEAN : success = ok' OBVIOUS
    <3>2. Store!Close(success) BY <1>5, <2>1, <2>2, <2>4, <3>1 DEF Store!Close
    <3> QED BY <3>2 DEF Store!Next
  <2> QED BY <2>3, <2>4
<1>6. CASE cmd' = cmd /\ stored' # stored /\ Writes /\ Still
  <2>1. phase' = phase /\ outcome' = outcome /\ phase = "wait"
    BY <1>6, WhatIsWritten DEF Still, toolVars, RInv, WInv, Clean
  <2>2. job' = job /\ ok' = ok BY <1>6, <2>1 DEF MayStore, Renamed, KnownPages
  <2>3. NewPage \in job BY <1>6, <2>1, NewPageIsAsked DEF RInv, Clean
  <2>4. stored' \in {NewPage, Erased} \cup Torn BY <1>6, PagesChange
  <2>5. CASE stored' = NewPage BY <2>2, <2>3, <2>5 DEF Store!Next, Store!Program
  <2>6. CASE stored' \in {Erased} \cup Torn BY <2>2, <2>3, <2>6 DEF Store!Next, Store!Fail
  <2> QED BY <2>4, <2>5, <2>6
<1> QED
  <2>1. CASE \E c \in Commands : Start(c) BY <1>3, <2>1
  <2>2. CASE \A c \in Commands : ~Start(c) BY <1>4, <1>5, <1>6, <2>2, SessionStep
  <2> QED BY <2>1, <2>2

LEMMA StoreInit == Init => Store!Init
BY DEF Init, Store!Init

\* A page appears in the USERROW only while a command that was asked for it
\* runs; a write that fails or is cut short by a restart leaves the old page,
\* the new one, or one that is erased or torn; and "verified" is said only of a
\* page that is there, whatever is lost, late or restarted: as long as no frame
\* is garbled on its way, for enough of those get past the 16 bits of a CRC.
\* (Module.write_page, Module.set_id, cmd_set_id; ker_userrow_program)
THEOREM PagesAreWrittenAsPromised ==
  Init /\ [][Next /\ ~(GarbleRequest \/ GarbleReply)]_vars => ImplementsPageWrite
<1>1. Init => RInv BY RInit
<1>2. RInv /\ [Next /\ ~(GarbleRequest \/ GarbleReply)]_vars => RInv' BY RStep
<1>3. RInv /\ [Next /\ ~(GarbleRequest \/ GarbleReply)]_vars => [Store!Next]_Store!vars
  BY StoreStep
<1> QED BY <1>1, <1>2, <1>3, StoreInit, PTL DEF ImplementsPageWrite, Store!Spec

----------------------------------------------------------------------------
(* The words of a page                                                     *)

LEMMA Counting ==
  ASSUME NEW S, NEW n \in Nat, 0 \in S, \A k \in 0 .. n - 1 : k \in S => k + 1 \in S
  PROVE  \A k \in 0 .. n : k \in S
<1> DEFINE T == {k \in 0 .. n : k \notin S}
<1>1. ASSUME T # {} PROVE FALSE
  <2>1. T \in SUBSET Nat OBVIOUS
  <2>2. PICK x \in T : \A y \in T : x <= y BY <1>1, <2>1, Least
  <2>3. x \in 0 .. n /\ x \notin S /\ x # 0 BY <2>2
  <2>4. x - 1 \in 0 .. n - 1 /\ x - 1 + 1 = x BY <2>3
  <2>5. x - 1 \notin S BY <2>3, <2>4
  <2>6. x - 1 \in T BY <2>3, <2>4, <2>5
  <2> QED BY <2>2, <2>3, <2>6
<1> QED BY <1>1

\* What a fold that starts at c and takes step is defined by, and its values.
Folds(f, n, c, step) == f = [k \in 0 .. n |-> IF k = 0 THEN c ELSE step[f[k - 1], k]]

LEMMA FoldExists ==
  ASSUME NEW n \in Nat, NEW S, NEW c \in S, NEW step \in [S \X (1 .. n) -> S]
  PROVE  \E f \in [0 .. n -> S] : Folds(f, n, c, step)
<1> DEFINE Good(k) == \E f \in [0 .. k -> S] : Folds(f, k, c, step)
           K == {k \in 0 .. n : Good(k)}
<1>1. Good(0)
  <2> DEFINE f == [k \in 0 .. 0 |-> c]
  <2>1. f \in [0 .. 0 -> S] /\ f = [k \in 0 .. 0 |-> IF k = 0 THEN c ELSE step[f[k - 1], k]]
    OBVIOUS
  <2> QED BY <2>1 DEF Folds
<1>2. ASSUME NEW k \in 0 .. n - 1, Good(k) PROVE Good(k + 1)
  <2>1. PICK f \in [0 .. k -> S] : Folds(f, k, c, step) BY <1>2
  <2> DEFINE g == [i \in 0 .. k + 1 |-> IF i = k + 1 THEN step[f[k], k + 1] ELSE f[i]]
  <2>a. /\ k \in 0 .. k /\ k + 1 \in 1 .. n /\ k + 1 # 0 /\ k + 1 - 1 = k
        /\ \A i \in 0 .. k + 1 : i # k + 1 => i \in 0 .. k /\ i # k + 1
                                              /\ (i # 0 => i - 1 \in 0 .. k /\ i - 1 \in 0 .. k + 1
                                                           /\ i - 1 # k + 1)
        /\ k \in 0 .. k + 1 /\ k # k + 1 OBVIOUS
  <2>2. step[f[k], k + 1] \in S BY <2>1, <2>a
  <2>3. g \in [0 .. k + 1 -> S] BY <2>1, <2>2, <2>a
  <2>4. ASSUME NEW i \in 0 .. k + 1 PROVE g[i] = IF i = 0 THEN c ELSE step[g[i - 1], i]
    <3>1. CASE i = k + 1
      <4>1. i - 1 = k /\ i # 0 BY <2>a, <3>1
      <4>2. g[k] = f[k] /\ g[i] = step[f[k], i] BY <2>a, <3>1
      <4> QED BY <4>1, <4>2
    <3>2. CASE i # k + 1
      <4>1. i \in 0 .. k /\ g[i] = f[i] /\ (i # 0 => i - 1 \in 0 .. k /\ g[i - 1] = f[i - 1])
        BY <2>a, <3>2
      <4>2. f[i] = IF i = 0 THEN c ELSE step[f[i - 1], i] BY <2>1, <4>1 DEF Folds
      <4> QED BY <4>1, <4>2
    <3> QED BY <3>1, <3>2
  <2>5. g = [i \in 0 .. k + 1 |-> IF i = 0 THEN c ELSE step[g[i - 1], i]]
    <3>1. g = [i \in 0 .. k + 1 |-> g[i]] OBVIOUS
    <3> HIDE DEF g
    <3> QED BY <2>4, <3>1
  <2> HIDE DEF g
  <2> QED BY <2>3, <2>5 DEF Folds
<1> HIDE DEF Good
<1>3. 0 \in K /\ \A k \in 0 .. n - 1 : k \in K => k + 1 \in K BY <1>1, <1>2
<1> HIDE DEF K
<1>4. n \in K
  <2>1. \A k \in 0 .. n : k \in K BY <1>3, Counting
  <2> QED BY <2>1
<1> QED BY <1>4 DEF K, Good

LEMMA FoldValues ==
  ASSUME NEW n \in Nat, NEW S, NEW c \in S, NEW f,
         f = [k \in 0 .. n |-> f[k]], f[0] = c, \A k \in 1 .. n : f[k - 1] \in S => f[k] \in S
  PROVE  f[n] \in S
<1> DEFINE K == {k \in 0 .. n : f[k] \in S}
<1>1. 0 \in K /\ \A k \in 0 .. n - 1 : k \in K => k + 1 \in K
  <2>1. ASSUME NEW k \in 0 .. n - 1, k \in K PROVE k + 1 \in K
    <3>1. PICK j : j = k + 1 OBVIOUS
    <3>2. j \in 1 .. n /\ j \in 0 .. n /\ j - 1 = k BY <3>1
    <3>3. f[j - 1] \in S BY <2>1, <3>2
    <3>4. f[j] \in S BY <3>2, <3>3
    <3> QED BY <3>1, <3>2, <3>4
  <2> QED BY <2>1
<1> HIDE DEF K
<1>2. n \in K
  <2>1. \A k \in 0 .. n : k \in K BY <1>1, Counting
  <2> QED BY <2>1
<1> QED BY <1>2 DEF K

\* The tables of the register, for the modulus of the CRC-16 and any other.
LEMMA ShiftValue ==
  ASSUME NEW m \in Int, NEW p, NEW r \in Int, 0 <= r, r <= m - 1
  PROVE  CrcShift(m, p)[r] = IF 2 * r >= m THEN Xor(2 * r - m, p) ELSE 2 * r
BY DEF CrcShift

Shifted(r, sh) == CHOOSE f : f = [n \in 0 .. 8 |-> IF n = 0 THEN r ELSE sh[f[n - 1]]]
LEMMA EightfoldValue ==
  ASSUME NEW m \in Int, NEW p, NEW r \in Int, 0 <= r, r <= m - 1
  PROVE  Eightfold(m, p)[r] = IF r = 0 THEN 0 ELSE Shifted(r, CrcShift(m, p))[8]
BY DEF Eightfold, Shifted

LEMMA ShiftInRange ==
  ASSUME NEW r \in Word
  PROVE  CrcShift(65536, 4129)[r] \in Word
<1>1. CrcShift(65536, 4129)[r] = IF 2 * r >= 65536 THEN Xor(2 * r - 65536, 4129) ELSE 2 * r
  <2>1. r \in Int /\ 0 <= r /\ r <= 65535 BY Ranges
  <2> QED BY <2>1, ShiftValue
<1>2. ~(2 * r >= 65536) => 2 * r \in Word
  <2>1. r \in Nat /\ r <= 65535 BY Ranges
  <2>2. ~(2 * r >= 65536) => 2 * r \in Nat /\ 2 * r <= 65535 BY <2>1
  <2> QED BY <2>2, SmallWord
<1> QED BY <1>1, <1>2, XorWord

LEMMA EightfoldInRange ==
  ASSUME NEW r \in Word
  PROVE  Eightfold(65536, 4129)[r] \in Word
<1>1. PICK sh : sh = CrcShift(65536, 4129) OBVIOUS
<1> DEFINE D(f) == f = [n \in 0 .. 8 |-> IF n = 0 THEN r ELSE sh[f[n - 1]]]
<1>2. \E f : D(f)
  <2> DEFINE step == [x \in Word \X (1 .. 8) |-> sh[x[1]]]
  <2>1. step \in [Word \X (1 .. 8) -> Word] BY <1>1, ShiftInRange
  <2>2. \A v \in Word, k \in 1 .. 8 : step[v, k] = sh[v] OBVIOUS
  <2> HIDE DEF step
  <2>3. PICK f \in [0 .. 8 -> Word] : Folds(f, 8, r, step) BY <2>1, FoldExists
  <2>4. f = [k \in 0 .. 8 |-> IF k = 0 THEN r ELSE step[f[k - 1], k]] BY <2>3 DEF Folds
  <2>5. \A k \in 0 .. 8 : k # 0 => f[k - 1] \in Word /\ k \in 1 .. 8 BY <2>3
  <2>6. f = [k \in 0 .. 8 |-> IF k = 0 THEN r ELSE sh[f[k - 1]]] BY <2>2, <2>4, <2>5
  <2> QED BY <1>1, <2>6
<1> DEFINE after == CHOOSE f : D(f)
<1>3. D(after)
  <2> HIDE DEF D
  <2> QED BY Zenon, <1>2
<1>4. Eightfold(65536, 4129)[r] = IF r = 0 THEN 0 ELSE after[8]
  <2>1. r \in Int /\ 0 <= r /\ r <= 65535 BY Ranges
  <2>2. after = Shifted(r, sh) BY <1>1 DEF Shifted
  <2>3. Eightfold(65536, 4129)[r] = IF r = 0 THEN 0 ELSE Shifted(r, CrcShift(65536, 4129))[8]
    BY <2>1, EightfoldValue
  <2> HIDE DEF after
  <2> QED BY <1>1, <2>2, <2>3
<1>5. 0 \in Word BY SmallWord
<1> HIDE DEF after
<1>6. after[8] \in Word
  <2>1. after = [n \in 0 .. 8 |-> after[n]] /\ after[0] = r
        /\ \A k \in 1 .. 8 : after[k] = sh[after[k - 1]] BY <1>1, <1>3
  <2>2. \A k \in 1 .. 8 : after[k - 1] \in Word => after[k] \in Word
    BY <1>1, <2>1, ShiftInRange
  <2> QED BY <2>1, <2>2, FoldValues
<1> QED BY <1>4, <1>5, <1>6

\* The CRC of any bytes is a word.  (crc16)
THEOREM CrcIsWord ==
  ASSUME NEW b, IsSequence(b), \A i \in 1 .. Len(b) : b[i] \in Byte
  PROVE  crc16(b) \in Word
<1> DEFINE n == Len(b)
<1>1. PICK e : e = Eightfold(65536, 4129) OBVIOUS
<1>2. PICK c \in Word : c = 65535 BY SmallWord
<1>n. n \in Nat BY DEF IsSequence
<1>3. \A r, x : e[Xor(r, x * 256)] \in Word
  <2>1. \A w \in Word : e[w] \in Word BY <1>1, EightfoldInRange
  <2> QED BY <2>1, XorWord
<1> DEFINE byte(x) == [r \in Word |-> e[Xor(r, x * 256)]]
           D(f) == f = [k \in 0 .. Len(b) |-> IF k = 0 THEN c ELSE byte(b[k])[f[k - 1]]]
           after == CHOOSE f : D(f)
<1>4. crc16(b) = after[Len(b)] BY <1>1, <1>2 DEF crc16
<1>5. \E f : D(f)
  <2> DEFINE step == [x \in Word \X (1 .. n) |-> e[Xor(x[1], b[x[2]] * 256)]]
  <2>1. step \in [Word \X (1 .. n) -> Word] BY <1>3
  <2>2. \A v \in Word, k \in 1 .. n : step[v, k] = e[Xor(v, b[k] * 256)] OBVIOUS
  <2> HIDE DEF step, n, D
  <2>3. PICK f \in [0 .. n -> Word] : Folds(f, n, c, step) BY <1>n, <2>1, FoldExists
  <2>4. f = [k \in 0 .. n |-> IF k = 0 THEN c ELSE step[f[k - 1], k]] BY <2>3 DEF Folds
  <2>5. \A k \in 0 .. n : k # 0 => f[k - 1] \in Word /\ k \in 1 .. n BY <1>n, <2>3
  <2>6. \A k \in 0 .. n : k # 0 => step[f[k - 1], k] = byte(b[k])[f[k - 1]]
    BY <2>2, <2>5
  <2> HIDE DEF byte
  <2>7. f = [k \in 0 .. n |-> IF k = 0 THEN c ELSE byte(b[k])[f[k - 1]]] BY <2>4, <2>6
  <2> QED BY <2>7 DEF n, D
<1>6. D(after)
  <2> HIDE DEF D
  <2> QED BY Zenon, <1>5
<1> HIDE DEF after
<1>7. after[n] \in Word
  <2> HIDE DEF n
  <2>1. after = [k \in 0 .. n |-> IF k = 0 THEN c ELSE byte(b[k])[after[k - 1]]]
    BY <1>6 DEF n
  <2>2. \A x : \A v \in Word : byte(x)[v] \in Word BY <1>3
  <2> HIDE DEF byte
  <2>3. after[0] = c /\ after = [k \in 0 .. n |-> after[k]] BY <1>n, <2>1
  <2>4. ASSUME NEW k \in 1 .. n, after[k - 1] \in Word PROVE after[k] \in Word
    <3>1. k \in 0 .. n /\ k # 0 BY <1>n
    <3>2. after[k] = byte(b[k])[after[k - 1]] BY <2>1, <3>1
    <3> QED BY <2>2, <2>4, <3>2
  <2> QED BY <1>n, <2>3, <2>4, FoldValues
<1> QED BY <1>4, <1>7

\* A sequence of words, as bytes.
LEMMA BytesOfWords ==
  ASSUME NEW w, IsSequence(w), \A i \in 1 .. Len(w) : w[i] \in Word
  PROVE  IsSequence(LE(w)) /\ \A i \in 1 .. Len(LE(w)) : LE(w)[i] \in Byte
<1> DEFINE n == Len(w)
           b == LE(w)
<1>1. n \in Nat /\ 2 * n \in Nat BY DEF IsSequence
<1>2. b = [i \in 1 .. 2 * n |-> b[i]] BY DEF LE
<1>3. IsSequence(b) /\ Len(b) = 2 * n
  <2> HIDE DEF b, n
  <2>1. PICK m : m = 2 * n OBVIOUS
  <2> QED BY <1>1, <1>2, <2>1, Listed
<1>4. \A v \in Word : v % 256 \in Byte /\ v \div 256 \in Byte
  <2>1. ASSUME NEW v \in Word PROVE v % 256 \in 0 .. 255 /\ v \div 256 \in 0 .. 255
    <3>1. v \in Nat /\ v <= 65535 BY Ranges
    <3> QED BY <3>1
  <2> QED BY <2>1 DEF Byte
<1>5. ASSUME NEW i \in 1 .. 2 * n PROVE b[i] \in Byte
  <2>1. b[i] = IF i % 2 = 1 THEN w[(i + 1) \div 2] % 256 ELSE w[i \div 2] \div 256
    BY DEF LE
  <2>2. i % 2 = 1 => (i + 1) \div 2 \in 1 .. n BY <1>1
  <2>3. i % 2 # 1 => i \div 2 \in 1 .. n BY <1>1
  <2> HIDE DEF b
  <2> QED BY <1>4, <2>1, <2>2, <2>3
<1> QED BY <1>3, <1>5

\* The words of a page that holds a calibration are words.
LEMMA BodyIsWords ==
  ASSUME NEW p, IsPage(p), NEW i \in 1 .. PAGE_WORDS - 1
  PROVE  Body(p)[i] \in Word
<1>1. /\ p.device_id \in Nat /\ p.device_id <= 30 /\ p.station_id \in Nat /\ p.station_id <= 255
      /\ p.cal_day \in Nat /\ p.cal_day <= 4095 /\ Len(p.amp) \in Nat /\ Len(p.amp) <= 15
      /\ p.amp \in Seq(Amplitude) /\ p.phase \in Seq(Word) /\ Len(p.phase) = Len(p.amp)
  <2>1. /\ p.device_id \in ID_MIN .. ID_MAX /\ p.station_id \in Byte /\ p.cal_day \in Day
        /\ p.amp \in Seq(Amplitude) /\ p.phase \in Seq(Word)
        /\ Len(p.amp) <= N_AMP /\ Len(p.phase) = Len(p.amp) BY DEF IsPage
  <2>2. p.device_id \in Nat /\ p.device_id <= 30
    <3>1. \A v \in ID_MIN .. ID_MAX : v \in Nat /\ v <= 30 BY DEF ID_MIN, ID_MAX
    <3> QED BY <2>1, <3>1
  <2>3. p.station_id \in Nat /\ p.station_id <= 255
    <3>1. \A v \in Byte : v \in Nat BY SMT DEF Byte
    <3>2. \A v \in Byte : v <= 255 BY SMT DEF Byte
    <3> QED BY <2>1, <3>1, <3>2
  <2>4. p.cal_day \in Nat /\ p.cal_day <= 4095 BY <2>1, Days
  <2>5. Len(p.amp) \in Nat /\ Len(p.amp) <= 15 BY <2>1, LayoutAssumption
  <2> QED BY <2>1, <2>2, <2>3, <2>4, <2>5
<1>2. CASE i = 1
  <2>1. Body(p)[1] = 331 BY HeaderWords DEF PAGE_MAGIC, LAYOUT_VER
  <2> QED BY <1>2, <2>1, SmallWord
<1>3. CASE i = 2
  <2>1. Body(p)[2] = p.device_id + p.station_id * 256 BY HeaderWords
  <2>2. p.device_id + p.station_id * 256 \in Nat /\ p.device_id + p.station_id * 256 <= 65535
    BY <1>1
  <2> QED BY <1>3, <2>1, <2>2, SmallWord
<1>4. CASE i = 3
  <2>1. Body(p)[3] = p.cal_day + Len(p.amp) * 4096 BY HeaderWords
  <2>2. p.cal_day + Len(p.amp) * 4096 \in Nat /\ p.cal_day + Len(p.amp) * 4096 <= 65535
    BY <1>1
  <2> QED BY <1>4, <2>1, <2>2, SmallWord
<1>5. CASE i > 3
  <2>1. N_AMP \in Nat /\ PAGE_WORDS = 4 + 2 * N_AMP BY PageSize
  <2>2. PICK k \in 1 .. N_AMP : i = 2 * k + 2 \/ i = 2 * k + 3
    <3>1. (i - 2) \div 2 \in 1 .. N_AMP BY <1>5, <2>1
    <3>2. i = 2 * ((i - 2) \div 2) + 2 \/ i = 2 * ((i - 2) \div 2) + 3 OBVIOUS
    <3> QED BY <3>1, <3>2
  <2>3. /\ Body(p)[2 * k + 2] = IF k > Len(p.amp) THEN 0 ELSE p.amp[k] % 65536
        /\ Body(p)[2 * k + 3] = IF k > Len(p.amp) THEN 0 ELSE p.phase[k]
    BY HarmonicWords
  <2>4. 0 \in Word BY SmallWord
  <2>5. ~(k > Len(p.amp)) => p.amp[k] \in Amplitude /\ p.phase[k] \in Word BY <1>1
  <2>6. \A v \in Amplitude : v % 65536 \in Word
    <3>1. ASSUME NEW v \in Int PROVE v % 65536 \in Nat /\ v % 65536 <= 65535 OBVIOUS
    <3> QED BY <3>1, Ranges, SmallWord
  <2> QED BY <2>2, <2>3, <2>4, <2>5, <2>6
<1>6. i \in Int /\ i >= 1 BY PageSize
<1> QED BY <1>2, <1>3, <1>4, <1>5, <1>6

LEMMA PageIsWords ==
  ASSUME NEW p, IsPage(p)
  PROVE  to_words(p) \in [1 .. PAGE_WORDS -> Word]
<1> DEFINE n == PAGE_WORDS - 1
           b == Body(p)
           w == to_words(p)
<1>1. n \in Nat /\ PAGE_WORDS = n + 1 BY PageSize
<1>2. b = [i \in 1 .. n |-> b[i]] BY DEF Body
<1>3. \A i \in 1 .. n : b[i] \in Word BY BodyIsWords
<1>4. w = Append(b, crc16(LE(b))) BY DEF to_words
<1> HIDE DEF b, n, w
<1>5. IsSequence(b) /\ Len(b) = n BY <1>1, <1>2, Listed
<1>6. crc16(LE(b)) \in Word
  <2>1. IsSequence(LE(b)) /\ \A i \in 1 .. Len(LE(b)) : LE(b)[i] \in Byte
    BY <1>3, <1>5, BytesOfWords
  <2> QED BY <2>1, CrcIsWord
<1>7. b \in Seq(Word)
  <2>1. b \in [1 .. n -> Word] BY <1>2, <1>3
  <2> QED BY <1>1, <2>1
<1>8. w \in Seq(Word) /\ Len(w) = PAGE_WORDS
  <2>1. PICK c \in Word : c = crc16(LE(b)) BY <1>6
  <2> QED BY <1>1, <1>4, <1>5, <1>7, <2>1
<1>9. w \in [1 .. PAGE_WORDS -> Word] BY <1>8
<1> QED BY <1>9 DEF w

----------------------------------------------------------------------------
(* What is refused and what is accepted                                    *)

LEMMA Reasons ==
  /\ NAK_REASON.NOT_ELIGIBLE # 0 /\ NAK_REASON.NOT_UNLOCKED # 0 /\ NAK_REASON.SEQUENCE # 0
  /\ NAK_REASON.BAD_ARG # 0 /\ NAK_REASON.BAD_INDEX # 0 /\ NAK_REASON.CRC_FAIL # 0
  /\ NAK_REASON.BAD_PAGE # 0 /\ NAK_REASON.STAGING_BUSY # 0
  /\ NAK_REASON.UNSUPPORTED # 0 /\ NAK_REASON.BAD_ADDRESSING # 0
BY DEF NAK_REASON

\* The guards of dispatch, in no order: what is refused for none of them is accepted.
LEMMA Accepts ==
  ASSUME NEW s, NEW a, s # SUB.NAK, s # SUB.LATCH_SYNC,
         ~(s >= SUB.UNLOCK_1 /\ s # SUB.LOCK /\ gate # "write"),
         ~(s >= SUB.STAGE_ADDR /\ s # SUB.LOCK /\ lock # "factory"),
         ~(s = SUB.UNLOCK_1 /\ lock = "factory"), ~(s = SUB.UNLOCK_2 /\ lock = "locked"),
         ~(s \in RecordSub /\ a > 0 /\ snap[s] = 2),
         ~WrongArg(s, a), ~OutOfRange(s, a),
         ~(s = SUB.COMMIT_CAL /\ inspect_page(staged) # "valid"),
         ~(s = SUB.SET_ID /\ staged # Erased), ~(s = SUB.SET_ID /\ ~FromPage /\ stored # Erased)
  PROVE  Refusal(s, a) = 0
BY Zenon DEF Refusal

\* An accepted write is of a valid page.
LEMMA CommitsValid ==
  ASSUME NEW s, s = 28, NEW a, Refusal(s, a) = 0
  PROVE  inspect_page(staged) = "valid"
<1>1. /\ s # SUB.UNLOCK_1 /\ s # SUB.UNLOCK_2 /\ s = SUB.COMMIT_CAL /\ s \notin RecordSub
      /\ s # SUB.NAK /\ s # SUB.LATCH_SYNC BY StageNumbers, RecordNumbers DEF SUB
<1>2. ~(s >= SUB.UNLOCK_1 /\ s # SUB.LOCK /\ gate # "write") BY Reasons, <1>1 DEF Refusal
<1>3. ~(s >= SUB.STAGE_ADDR /\ s # SUB.LOCK /\ lock # "factory")
  BY Reasons, <1>1, <1>2 DEF Refusal
<1>4. ~(\/ s = SUB.UNLOCK_1 /\ lock = "factory"
        \/ s = SUB.UNLOCK_2 /\ lock = "locked"
        \/ s \in RecordSub /\ a > 0 /\ snap[s] = 2) BY <1>1
<1>5. ~WrongArg(s, a) BY Zenon, Reasons, <1>1, <1>2, <1>3, <1>4 DEF Refusal
<1>6. ~OutOfRange(s, a) BY Zenon, Reasons, <1>1, <1>2, <1>3, <1>4, <1>5 DEF Refusal
<1> QED BY Zenon, Reasons, <1>1, <1>2, <1>3, <1>4, <1>5, <1>6 DEF Refusal

----------------------------------------------------------------------------
(* A module runs with a valid page or none                                 *)

LEMMA ErasedIsNone == inspect_page(Erased) # "valid"
<1>1. Erased[1] = 65535 BY SmallPage DEF Erased
<1>2. 65535 % 256 # PAGE_MAGIC BY DEF PAGE_MAGIC
<1> QED BY <1>1, <1>2 DEF inspect_page

LEMMA IdNumbers ==
  /\ \A p : IsPage(p) => p.device_id \in ID_MIN .. ID_MAX
  /\ \A i \in ID_MIN .. ID_MAX : i \in 1 .. 31 /\ i \in Nat /\ i <= 255
  /\ BuildId \in 1 .. 31
<1>1. ASSUME NEW p, IsPage(p) PROVE p.device_id \in ID_MIN .. ID_MAX BY <1>1 DEF IsPage
<1>2. \A i \in ID_MIN .. ID_MAX : i \in 1 .. 31 /\ i \in Nat /\ i <= 255
  BY DEF ID_MIN, ID_MAX
<1>3. BuildId \in 1 .. 31 BY ModuleAssumption DEF ID_MIN, ID_UNPROVISIONED
<1> QED BY <1>1, <1>2, <1>3

LEMMA NamedIsSound ==
  ASSUME NEW x, IsPage(x), NEW i \in ID_MIN .. ID_MAX, NEW w, w = to_words(Named(x, i))
  PROVE  /\ inspect_page(w) = "valid" /\ IsPage(from_words(w)) /\ from_words(w).device_id = i
         /\ w \in [1 .. PAGE_WORDS -> Word]
<1>1. PICK y : y = Named(x, i) OBVIOUS
<1>2. IsPage(y) BY <1>1, NamedIsPage
<1>3. y.device_id = i
  <2>1. x \in [device_id : ID_MIN .. ID_MAX, station_id : Byte, cal_day : Day,
               amp : Seq(Amplitude), phase : Seq(Word)] BY DEF IsPage
  <2> QED BY <1>1, <2>1 DEF Named
<1>4. w = to_words(y) BY <1>1
<1>5. from_words(w) = y /\ inspect_page(w) = "valid" BY <1>2, <1>4, PageRoundTrip
<1>6. w \in [1 .. PAGE_WORDS -> Word] BY <1>2, <1>4, PageIsWords
<1> QED BY <1>2, <1>3, <1>5, <1>6

\* SET_ID gives the page, or a blank one, the new ID.
LEMMA WithIdIsSound ==
  ASSUME Sound(running), NEW i \in ID_MIN .. ID_MAX, NEW w, w = WithId(i)
  PROVE  /\ inspect_page(w) = "valid" /\ IsPage(from_words(w)) /\ from_words(w).device_id = i
         /\ w \in [1 .. PAGE_WORDS -> Word]
<1>1. CASE FromPage
  <2>1. IsPage(from_words(running)) BY <1>1, ErasedIsNone DEF Sound, FromPage
  <2>2. PICK x : x = from_words(running) OBVIOUS
  <2>3. w = to_words(Named(x, i)) BY <1>1, <2>2 DEF WithId, ReId, Named
  <2> QED BY <2>1, <2>2, <2>3, NamedIsSound
<1>2. CASE ~FromPage
  <2>1. PICK x : x = BlankPage OBVIOUS
  <2>2. IsPage(x) /\ w = to_words(Named(x, i)) BY <1>2, <2>1, BlankIsPage DEF WithId
  <2> QED BY <2>2, NamedIsSound
<1> QED BY <1>1, <1>2

LEMMA WritesSound ==
  ASSUME HeldInv, Writes, NEW p, p = NewPage
  PROVE  /\ inspect_page(p) = "valid" /\ IsPage(from_words(p)) /\ from_words(p).device_id \in 1 .. 31
         /\ request.sub = 29 => from_words(p).device_id = request.arg % 256
         /\ p \in [1 .. PAGE_WORDS -> Word]
<1>1. PICK s, a : s = request.sub /\ a = request.arg OBVIOUS
<1>2. s \in {28, 29} /\ Refusal(s, a) = 0 BY <1>1, StageNumbers DEF Writes, ServedAs
<1>3. CASE s = 28
  <2>1. p = staged /\ inspect_page(staged) = "valid"
    BY <1>1, <1>2, <1>3, StageNumbers, CommitsValid DEF NewPage
  <2>2. fields_ok(staged) BY <2>1 DEF inspect_page
  <2>3. IsPage(from_words(p)) BY <2>1, <2>2, ValidIsPage DEF HeldInv
  <2>4. staged \in [1 .. PAGE_WORDS -> Word] BY DEF HeldInv
  <2>5. request.sub # 29 /\ inspect_page(p) = "valid" /\ p \in [1 .. PAGE_WORDS -> Word]
    BY <1>1, <1>3, <2>1, <2>4
  <2>6. from_words(p).device_id \in 1 .. 31 BY <2>3, IdNumbers
  <2> QED BY <2>3, <2>5, <2>6
<1>4. CASE s = 29
  <2>1. PICK i : i = a % 256 OBVIOUS
  <2>2. i \in ID_MIN .. ID_MAX BY <1>2, <1>4, <2>1, SetIdInRange
  <2>3. p = WithId(i) BY <1>1, <1>4, <2>1, StageNumbers DEF NewPage
  <2>4. /\ inspect_page(p) = "valid" /\ IsPage(from_words(p)) /\ from_words(p).device_id = i
        /\ p \in [1 .. PAGE_WORDS -> Word] BY <2>2, <2>3, WithIdIsSound DEF HeldInv
  <2> QED BY <1>1, <2>1, <2>2, <2>4, IdNumbers
<1> QED BY <1>2, <1>3, <1>4

LEMMA RebootHolds ==
  ASSUME NEW p, p = stored', p \in [1 .. PAGE_WORDS -> Word], Reboot
  PROVE  HeldInv'
<1>1. Erased \in [1 .. PAGE_WORDS -> Word] BY SmallWord DEF Erased
<1>2. staged' \in [1 .. PAGE_WORDS -> Word] BY <1>1 DEF Reboot
<1>3. CASE inspect_page(p) = "valid"
  <2>1. running' = p /\ did' = from_words(p).device_id BY <1>3 DEF Reboot
  <2>2. fields_ok(p) BY <1>3 DEF inspect_page
  <2>3. IsPage(from_words(p)) BY <2>2, ValidIsPage
  <2>4. did' \in 1 .. 31 BY <2>1, <2>3, IdNumbers
  <2> QED BY <1>2, <1>3, <2>1, <2>3, <2>4 DEF HeldInv, Sound
<1>4. CASE inspect_page(p) # "valid"
  <2>1. running' = Erased /\ did' = BuildId BY <1>4 DEF Reboot
  <2> QED BY <1>1, <1>2, <2>1, IdNumbers DEF HeldInv, Sound
<1> QED BY <1>3, <1>4

LEMMA FailuresAreWords ==
  ASSUME HeldInv
  PROVE  Failures \subseteq [1 .. PAGE_WORDS -> Word]
<1>1. Erased \in [1 .. PAGE_WORDS -> Word] BY SmallWord DEF Erased
<1> QED BY <1>1, ModuleAssumption DEF HeldInv, Failures

LEMMA SameHeld ==
  ASSUME HeldInv, UNCHANGED <<stored, running, did>>, staged' \in {staged, Erased}
  PROVE  HeldInv'
<1>1. Erased \in [1 .. PAGE_WORDS -> Word] BY SmallWord DEF Erased
<1> QED BY <1>1 DEF HeldInv, Sound

LEMMA HeldStep ==
  ASSUME WInv, HeldInv, [Next]_vars
  PROVE  HeldInv'
<1>1. CASE \E c \in Commands : Start(c) BY <1>1, SameHeld DEF Start, moduleVars
<1>2. CASE Tool
  BY <1>2, SameHeld DEF Tool, Listen, Transmit, Withheld, Wait, Sleep, moduleVars
<1>3. CASE Idle \/ GateOpens \/ FactoryExpires
  BY <1>3, SameHeld DEF Idle, GateOpens, FactoryExpires
<1>4. CASE Unheard \/ Rejected \/ Read \/ SampleStart \/ Unlock1 \/ Unlock2 \/ StageAddr \/ Lock
  BY <1>4, SameHeld DEF Unheard, Rejected, Read, SampleStart, Unlock1, Unlock2, StageAddr, Lock,
     moduleVars
<1>5. CASE StageData
  <2>1. req # NONE BY <1>5 DEF StageData, ServedAs, Served
  <2>2. request.arg \in Word BY <2>1 DEF WInv, IInv, RequestInv
  <2>3. staged' \in [1 .. PAGE_WORDS -> Word] BY <1>5, <2>2 DEF StageData, HeldInv
  <2> QED BY <1>5, <2>3 DEF StageData, HeldInv, Sound
<1>6. CASE Program
  <2>1. PICK p : p = NewPage OBVIOUS
  <2>2. Writes /\ stored' = p /\ running' = p /\ did' = from_words(p).device_id /\ staged' = staged
    BY <1>6, <2>1 DEF Program
  <2>3. /\ inspect_page(p) = "valid" /\ IsPage(from_words(p)) /\ from_words(p).device_id \in 1 .. 31
        /\ p \in [1 .. PAGE_WORDS -> Word] BY <2>1, <2>2, WritesSound
  <2>4. p # Erased BY <2>3, ErasedIsNone
  <2> QED BY <2>2, <2>3, <2>4 DEF HeldInv, Sound
<1>7. CASE ProgramFails
  <2>1. stored' \in Failures /\ running' = running /\ did' = did /\ staged' = staged
    BY <1>7 DEF ProgramFails
  <2>2. Failures \subseteq [1 .. PAGE_WORDS -> Word] BY FailuresAreWords
  <2> QED BY <2>1, <2>2 DEF HeldInv, Sound
<1>8. CASE Reset
  <2>1. PICK p : p = stored' OBVIOUS
  <2>2. p \in [1 .. PAGE_WORDS -> Word] /\ Reboot BY <1>8, <2>1 DEF Reset, HeldInv
  <2> QED BY <2>1, <2>2, RebootHolds
<1>9. CASE Restart
  <2>1. PICK p : p = stored' OBVIOUS
  <2>2. Reboot /\ (p \in Failures \/ (Writes /\ p = NewPage))
    BY <1>9, <2>1 DEF Restart, Failures
  <2>3. p \in [1 .. PAGE_WORDS -> Word] BY <2>2, WritesSound, FailuresAreWords
  <2> QED BY <2>1, <2>2, <2>3, RebootHolds
<1>10. CASE Cascade \/ LoseRequest \/ GarbleRequest \/ LoseReply \/ GarbleReply
  BY <1>10, SameHeld DEF Cascade, LoseRequest, GarbleRequest, LoseReply, GarbleReply, moduleVars
<1>11. CASE UNCHANGED vars BY <1>11, SameHeld DEF vars, moduleVars
<1> QED BY <1>1, <1>2, <1>3, <1>4, <1>5, <1>6, <1>7, <1>8, <1>9, <1>10, <1>11
        DEF Next, Module, Faults

LEMMA HeldInit == ASSUME Init PROVE HeldInv
<1>1. Erased \in [1 .. PAGE_WORDS -> Word] /\ FirstPage \in [1 .. PAGE_WORDS -> Word]
  BY SmallWord, ModuleAssumption DEF Erased
<1>2. CASE inspect_page(FirstPage) = "valid"
  <2>1. fields_ok(FirstPage) BY <1>2 DEF inspect_page
  <2>2. IsPage(from_words(FirstPage)) BY <1>1, <2>1, ValidIsPage
  <2>3. from_words(FirstPage).device_id \in 1 .. 31 BY <2>2, IdNumbers
  <2> QED BY <1>1, <1>2, <2>2, <2>3 DEF Init, HeldInv, Sound
<1>3. CASE inspect_page(FirstPage) # "valid"
  <2>1. stored = FirstPage /\ running = Erased /\ did = BuildId /\ staged = Erased
    BY <1>3 DEF Init
  <2> QED BY <1>1, <2>1, IdNumbers DEF HeldInv, Sound
<1> QED BY <1>2, <1>3

----------------------------------------------------------------------------
(* Requests that are never refused                                         *)

LEMMA NamesOf ==
  /\ \A n \in DOMAIN SUB : SUB[n] \in 0 .. 31
  /\ \A n \in DOMAIN SUB : SUB[n] = 14 => n = "CLR_ERRCNT"
  /\ \A n \in DOMAIN SUB : SUB[n] = 20 => n = "LATCH_SYNC"
  /\ \A n \in DOMAIN SUB : SUB[n] = 22 => n = "SAMPLE_START"
  /\ \A n \in DOMAIN SUB : SUB[n] = 17 => n = "GET_SERNUM"
  /\ \A n \in DOMAIN SUB : SUB[n] = 15 => n = "GET_CAL_WORD"
BY DEF SUB

LEMMA WrongArgs ==
  ASSUME NEW s, NEW a, WrongArg(s, a)
  PROVE  \/ s = 14 /\ a # MAGIC.CLR_ERRCNT
         \/ s = 20
         \/ s = 24 /\ a # MAGIC.UNLOCK_1
         \/ s = 25 /\ a # Key
         \/ s = 28 /\ a # MAGIC.COMMIT_CAL
         \/ s = 30 /\ a # MAGIC.LOCK
         \/ s = 31 /\ a # MAGIC.RESET
         \/ s = 26 /\ a \div 256 # TAG.STAGE_ADDR
         \/ s = 29 /\ a \div 256 # TAG.SET_ID
         \/ s = 22 /\ a \div 256 # TAG.SAMPLE_START
<1>1. DOMAIN MAGIC = {"CLR_ERRCNT", "LATCH_SYNC", "UNLOCK_1", "UNLOCK_2", "COMMIT_CAL", "LOCK",
                      "RESET"}
      /\ DOMAIN TAG = {"STAGE_ADDR", "SET_ID", "SAMPLE_START"} BY DEF MAGIC, TAG
<1>2. SUB["CLR_ERRCNT"] = 14 /\ SUB["LATCH_SYNC"] = 20 /\ SUB["UNLOCK_1"] = 24
      /\ SUB["UNLOCK_2"] = 25 /\ SUB["COMMIT_CAL"] = 28 /\ SUB["LOCK"] = 30 /\ SUB["RESET"] = 31
      /\ SUB["STAGE_ADDR"] = 26 /\ SUB["SET_ID"] = 29 /\ SUB["SAMPLE_START"] = 22
  BY DEF SUB
<1>3. ASSUME NEW n \in DOMAIN MAGIC,
             s = SUB[n] /\ a # (IF n = "UNLOCK_2" THEN Key ELSE MAGIC[n])
      PROVE  \/ s = 14 /\ a # MAGIC.CLR_ERRCNT
             \/ s = 20
             \/ s = 24 /\ a # MAGIC.UNLOCK_1
             \/ s = 25 /\ a # Key
             \/ s = 28 /\ a # MAGIC.COMMIT_CAL
             \/ s = 30 /\ a # MAGIC.LOCK
             \/ s = 31 /\ a # MAGIC.RESET BY <1>1, <1>2, <1>3
<1>4. ASSUME NEW n \in DOMAIN TAG, s = SUB[n] /\ a \div 256 # TAG[n]
      PROVE  \/ s = 26 /\ a \div 256 # TAG.STAGE_ADDR
             \/ s = 29 /\ a \div 256 # TAG.SET_ID
             \/ s = 22 /\ a \div 256 # TAG.SAMPLE_START BY <1>1, <1>2, <1>4
<1> QED BY <1>3, <1>4 DEF WrongArg

LEMMA OutOfRanges ==
  ASSUME NEW s, NEW a, OutOfRange(s, a)
  PROVE  \/ s = 26 /\ a % 256 >= PAGE_WORDS
         \/ s = 27 /\ index >= PAGE_WORDS
         \/ s = 29 /\ a % 256 \notin ID_MIN .. ID_MAX
         \/ s = 22 /\ a % 256 > 10
         \/ s \notin {14, 20, 22, 24, 25, 26, 27, 28, 29, 30, 31} /\ a > Limit(s)
<1>1. {SUB[n] : n \in DOMAIN MAGIC} = {14, 20, 24, 25, 28, 30, 31} BY DEF MAGIC, SUB
<1>2. CASE s = SUB.STAGE_ADDR BY <1>2, StageNumbers DEF OutOfRange
<1>3. CASE s = SUB.STAGE_DATA BY <1>3, StageNumbers DEF OutOfRange
<1>4. CASE s = SUB.SET_ID BY <1>4, StageNumbers DEF OutOfRange
<1>5. CASE s = SUB.SAMPLE_START BY <1>5, StageNumbers DEF OutOfRange
<1>6. CASE s \notin {SUB.STAGE_ADDR, SUB.STAGE_DATA, SUB.SET_ID, SUB.SAMPLE_START}
  <2>1. s \notin {SUB[n] : n \in DOMAIN MAGIC} /\ a > Limit(s)
    BY Zenon, <1>6 DEF OutOfRange
  <2> QED BY <1>1, <1>6, <2>1, StageNumbers
<1> QED BY <1>2, <1>3, <1>4, <1>5, <1>6

\* How far the index of a subcommand goes.
Words(s) == s = SUB.GET_CAL_WORD \/ s = SUB.GET_RUN_WORD
Field(s) == CHOOSE name \in DOMAIN FIELDS : SUB[name] = s

LEMMA LimitCases ==
  ASSUME NEW s
  PROVE  /\ s = SUB.GET_SERNUM /\ ~Words(s) /\ s \notin Indexed => Limit(s) = Len(Serial) - 1
         /\ s # SUB.GET_SERNUM /\ Words(s) /\ s \notin Indexed => Limit(s) = PAGE_WORDS - 1
         /\ s # SUB.GET_SERNUM /\ ~Words(s) /\ s \in Indexed => Limit(s) = FIELDS[Field(s)] - 1
         /\ s # SUB.GET_SERNUM /\ ~Words(s) /\ s \notin Indexed => Limit(s) = 65535
<1>2. ASSUME s = SUB.GET_SERNUM, ~Words(s), s \notin Indexed PROVE Limit(s) = Len(Serial) - 1
  BY SMT, <1>2 DEF Limit, Words
<1>3. ASSUME s # SUB.GET_SERNUM, Words(s), s \notin Indexed PROVE Limit(s) = PAGE_WORDS - 1
  BY SMT, <1>3 DEF Limit, Words
<1>4. ASSUME s # SUB.GET_SERNUM, ~Words(s), s \in Indexed PROVE Limit(s) = FIELDS[Field(s)] - 1
  BY SMT, <1>4 DEF Limit, Words, Field
<1>5. ASSUME s # SUB.GET_SERNUM, ~Words(s), s \notin Indexed PROVE Limit(s) = 65535
  BY SMT, <1>5 DEF Limit, Words
<1> QED BY <1>2, <1>3, <1>4, <1>5

LEMMA Limits ==
  /\ Limit(17) = SN - 1 /\ Limit(15) = PAGE_WORDS - 1 /\ Limit(21) = PAGE_WORDS - 1
  /\ \A n \in DOMAIN FIELDS : Limit(SUB[n]) = FIELDS[n] - 1
  /\ \A s : Limit(s) \in Int /\ Limit(s) >= 0
<1>1. DOMAIN FIELDS = {"GET_ANGLE_RAW", "GET_ANGLE_COMP", "GET_LATCHED", "GET_ERRCNT", "GET_SAMPLE",
                       "GET_FW_VER", "GET_ENV", "GET_TRIM"}
  BY ModuleAssumption DEF Records
<1>2. \A n \in DOMAIN FIELDS : SUB[n] \notin {15, 17, 21} /\ FIELDS[n] \in 1 .. 31
  <2>1. \A n \in DOMAIN FIELDS : SUB[n] \notin {15, 17, 21} BY <1>1 DEF SUB
  <2>2. \A n \in DOMAIN FIELDS : FIELDS[n] \in 1 .. 31
    <3>1. FIELDS \in [Records \cup {"GET_FW_VER", "GET_ENV", "GET_TRIM"} -> 1 .. 31]
      BY ModuleAssumption
    <3> QED BY Zenon, <3>1
  <2> QED BY <2>1, <2>2
<1>3. \A n, m \in DOMAIN FIELDS : SUB[n] = SUB[m] => n = m BY <1>1 DEF SUB
<1>4. SUB.GET_SERNUM = 17 /\ SUB.GET_CAL_WORD = 15 /\ SUB.GET_RUN_WORD = 21 BY DEF SUB
<1>5. \A i \in {15, 17, 21} : i \notin Indexed BY <1>2 DEF Indexed
<1>6. Limit(17) = SN - 1
  <2>1. ~Words(17) BY <1>4 DEF Words
  <2> QED BY <1>4, <1>5, <2>1, LimitCases DEF SN
<1>7. Limit(15) = PAGE_WORDS - 1 /\ Limit(21) = PAGE_WORDS - 1
  <2>1. Words(15) /\ Words(21) BY <1>4 DEF Words
  <2> QED BY <1>4, <1>5, <2>1, LimitCases
<1>8. ASSUME NEW n \in DOMAIN FIELDS PROVE Limit(SUB[n]) = FIELDS[n] - 1
  <2>1. SUB[n] \in Indexed /\ SUB[n] # SUB.GET_SERNUM /\ ~Words(SUB[n])
    BY <1>2, <1>4 DEF Indexed, Words
  <2>2. Field(SUB[n]) = n BY <1>3 DEF Field
  <2> QED BY <2>1, <2>2, LimitCases
<1>9. ASSUME NEW s PROVE Limit(s) \in Int /\ Limit(s) >= 0
  <2>1. CASE s \in {17, 15, 21} BY <1>6, <1>7, <2>1, Places, SmallPage
  <2>2. CASE s \in Indexed
    <3>1. PICK n \in DOMAIN FIELDS : s = SUB[n] BY <2>2 DEF Indexed
    <3>2. Limit(s) = FIELDS[n] - 1 /\ FIELDS[n] \in 1 .. 31 BY <1>2, <1>8, <3>1
    <3> QED BY <3>2
  <2>3. CASE s \notin {17, 15, 21} /\ s \notin Indexed
    <3>1. Limit(s) = 65535 BY <1>4, <2>3, LimitCases DEF Words
    <3> QED BY <3>1
  <2> QED BY <2>1, <2>2, <2>3
<1> QED BY <1>6, <1>7, <1>8, <1>9

\* Requests a module serves at any time: reads, and the start of a sample.
Mild(r) ==
  /\ r.name \in DOMAIN SUB /\ SUB[r.name] \in 1 .. 23 /\ r.arg \in Word
  /\ \/ r.name = "CLR_ERRCNT" /\ r.arg = MAGIC.CLR_ERRCNT
     \/ r.name = "SAMPLE_START" /\ \E e \in 0 .. 10 : r.arg = Tagged(TAG.SAMPLE_START, e)
     \/ /\ r.name \notin {"CLR_ERRCNT", "SAMPLE_START", "LATCH_SYNC"}
        /\ r.arg <= Limit(SUB[r.name])

LEMMA MildAccepted ==
  ASSUME NEW r, Mild(r), NEW s, s = SUB[r.name], NEW a, a = r.arg,
         ~(s \in RecordSub /\ a > 0 /\ snap[s] = 2)
  PROVE  Refusal(s, a) = 0
<1>1. s \in 1 .. 23 /\ a \in Word /\ s # 20 BY NamesOf DEF Mild
<1>2. ~WrongArg(s, a)
  <2> SUFFICES ASSUME WrongArg(s, a) PROVE FALSE OBVIOUS
  <2>1. \/ s = 14 /\ a # MAGIC.CLR_ERRCNT
        \/ s = 22 /\ a \div 256 # TAG.SAMPLE_START BY <1>1, WrongArgs
  <2>2. CASE s = 14 /\ a # MAGIC.CLR_ERRCNT BY <2>2, NamesOf DEF Mild
  <2>4. CASE s = 22 /\ a \div 256 # TAG.SAMPLE_START
    <3>1. PICK e \in 0 .. 10 : a = Tagged(TAG.SAMPLE_START, e) BY <2>4, NamesOf DEF Mild
    <3>2. a = e + 90 * 256 BY <3>1 DEF Tagged, TAG
    <3>3. a \div 256 = 90 BY <3>2, Split8
    <3> QED BY <2>4, <3>3 DEF TAG
  <2> QED BY <2>1, <2>2, <2>4
<1>3. ~OutOfRange(s, a)
  <2> SUFFICES ASSUME OutOfRange(s, a) PROVE FALSE OBVIOUS
  <2>1. \/ s = 22 /\ a % 256 > 10
        \/ s \notin {14, 20, 22} /\ a > Limit(s) BY <1>1, OutOfRanges
  <2>2. CASE s = 22 /\ a % 256 > 10
    <3>1. PICK e \in 0 .. 10 : a = Tagged(TAG.SAMPLE_START, e) BY <2>2, NamesOf DEF Mild
    <3>2. a = e + 90 * 256 BY <3>1 DEF Tagged, TAG
    <3>3. a % 256 = e BY <3>2, Split8
    <3> QED BY <2>2, <3>3
  <2>3. CASE s \notin {14, 20, 22} /\ a > Limit(s)
    <3>1. r.name \notin {"CLR_ERRCNT", "SAMPLE_START"} BY <2>3 DEF SUB
    <3>2. a <= Limit(s) BY <3>1 DEF Mild
    <3>3. Limit(s) \in Int BY Limits
    <3>4. a \in Int BY <1>1, Ranges
    <3> QED BY <2>3, <3>2, <3>3, <3>4
  <2> QED BY <2>1, <2>2, <2>3
<1>4. /\ ~(s >= SUB.UNLOCK_1 /\ s # SUB.LOCK /\ gate # "write")
      /\ ~(s >= SUB.STAGE_ADDR /\ s # SUB.LOCK /\ lock # "factory")
      /\ ~(s = SUB.UNLOCK_1 /\ lock = "factory") /\ ~(s = SUB.UNLOCK_2 /\ lock = "locked")
      /\ ~(s = SUB.COMMIT_CAL /\ inspect_page(staged) # "valid")
      /\ ~(s = SUB.SET_ID /\ staged # Erased) /\ ~(s = SUB.SET_ID /\ ~FromPage /\ stored # Erased)
  BY <1>1, StageNumbers
<1>5. s # SUB.NAK /\ s # SUB.LATCH_SYNC BY <1>1 DEF SUB
<1> QED BY <1>2, <1>3, <1>4, <1>5, Accepts

----------------------------------------------------------------------------
(* Plans of mild requests, the words of a record behind its first          *)

Once(s, i) == \E j \in 1 .. i - 1 : s[j].name = s[i].name
Placed(s, i) == Mild(s[i]) /\ (s[i].name \in Records /\ s[i].arg # 0 => Once(s, i))
InOrder(s) == IsSequence(s) /\ \A i \in 1 .. Len(s) : Placed(s, i)

LEMMA OrderJoin ==
  ASSUME NEW s, InOrder(s), NEW t, InOrder(t)
  PROVE  InOrder(s \o t)
<1> DEFINE u == s \o t
           n == Len(s)
           m == Len(t)
<1>1. /\ IsSequence(u) /\ Len(u) = n + m
      /\ \A i \in 1 .. n : u[i] = s[i]
      /\ \A i \in 1 .. m : u[n + i] = t[i] BY Joined DEF InOrder
<1>2. n \in Nat /\ m \in Nat BY DEF InOrder, IsSequence
<1> HIDE DEF u, n, m
<1>3. ASSUME NEW i \in 1 .. n PROVE Placed(u, i)
  <2>1. u[i] = s[i] /\ Placed(s, i) BY <1>1 DEF InOrder, n
  <2>2. \A j \in 1 .. i - 1 : j \in 1 .. n BY <1>2
  <2>3. Once(s, i) => Once(u, i) BY <1>1, <2>1, <2>2 DEF Once
  <2> QED BY <2>1, <2>3 DEF Placed
<1>4. ASSUME NEW k \in 1 .. m, NEW i, i = n + k PROVE Placed(u, i)
  <2>1. u[i] = t[k] /\ Placed(t, k) BY <1>1, <1>4 DEF InOrder, m
  <2>2. \A j \in 1 .. k - 1 : j \in 1 .. m /\ n + j \in 1 .. i - 1 BY <1>2, <1>4
  <2>3. Once(t, k) => Once(u, i)
    <3> SUFFICES ASSUME Once(t, k) PROVE Once(u, i) OBVIOUS
    <3>1. PICK j \in 1 .. k - 1 : t[j].name = t[k].name BY DEF Once
    <3>2. u[n + j].name = u[i].name /\ n + j \in 1 .. i - 1 BY <1>1, <2>1, <2>2, <3>1
    <3> QED BY <3>2 DEF Once
  <2> QED BY <2>1, <2>3 DEF Placed
<1>5. \A i \in 1 .. n + m : i \in 1 .. n \/ (i - n \in 1 .. m /\ n + (i - n) = i)
  BY <1>2
<1>6. \A i \in 1 .. n + m : Placed(u, i) BY <1>3, <1>4, <1>5
<1> QED BY <1>1, <1>6 DEF InOrder, u

Reader(name) ==
  /\ name \in DOMAIN SUB /\ SUB[name] \in 1 .. 23
  /\ name \notin {"CLR_ERRCNT", "SAMPLE_START", "LATCH_SYNC"}

LEMMA OrderEach ==
  ASSUME NEW name, Reader(name), NEW n \in Nat, n <= 34, n <= Limit(SUB[name]) + 1
  PROVE  InOrder(Each(name, n))
<1> DEFINE s == Each(name, n)
<1>1. s = [i \in 1 .. n |-> Rq(name, i - 1)] BY DEF Each
<1>2. \A i \in 1 .. n : s[i].name = name /\ s[i].arg = i - 1 BY <1>1 DEF Rq
<1>3. IsSequence(s) /\ Len(s) = n
  <2>1. s = [i \in 1 .. n |-> s[i]] BY <1>1
  <2> HIDE DEF s
  <2> QED BY <2>1, Listed
<1> HIDE DEF s
<1>4. ASSUME NEW i \in 1 .. n PROVE Placed(s, i)
  <2>1. i - 1 \in Word /\ i - 1 <= Limit(SUB[name])
    <3>1. i - 1 \in Nat /\ i - 1 <= 65535 OBVIOUS
    <3>2. i - 1 <= Limit(SUB[name]) BY Limits
    <3> QED BY <3>1, <3>2, SmallWord
  <2>2. Mild(s[i]) BY <1>2, <2>1 DEF Mild, Reader
  <2>3. i - 1 # 0 => 1 \in 1 .. i - 1 /\ 1 \in 1 .. n OBVIOUS
  <2>4. i - 1 # 0 => Once(s, i) BY <1>2, <2>3 DEF Once
  <2> QED BY <1>2, <2>2, <2>4 DEF Placed
<1> QED BY <1>3, <1>4 DEF InOrder, s

LEMMA OrderOne ==
  ASSUME NEW r, Mild(r), r.name \notin Records \/ r.arg = 0
  PROVE  InOrder(<<r>>)
<1>1. IsSequence(<<r>>) /\ Len(<<r>>) = 1 /\ <<r>>[1] = r BY Alone
<1>2. Placed(<<r>>, 1) BY <1>1 DEF Placed
<1>3. \A i \in 1 .. 1 : i = 1 OBVIOUS
<1> QED BY <1>1, <1>2, <1>3 DEF InOrder

LEMMA MildPlain ==
  ASSUME NEW name, Reader(name)
  PROVE  Mild(Rq(name, 0)) /\ InOrder(<<Rq(name, 0)>>)
<1> DEFINE r == Rq(name, 0)
<1>1. r.name = name /\ r.arg = 0 BY DEF Rq
<1> HIDE DEF r
<1>2. Limit(SUB[name]) >= 0 /\ 0 \in Word BY Limits, SmallWord
<1>3. Mild(r)
  <2>1. r.arg <= Limit(SUB[r.name]) /\ r.arg \in Word BY <1>1, <1>2, Limits
  <2> QED BY <1>1, <2>1 DEF Mild, Reader
<1> QED BY <1>1, <1>3, OrderOne DEF r

LEMMA Readers ==
  \A name \in {"PING", "GET_PROTO_VER", "GET_DEVICE_ID", "GET_HEALTH", "GET_STAT", "GET_DMAG",
               "GET_SAFETY", "GET_CAL_WORD", "GET_CAL_STATUS", "GET_SERNUM", "GET_CFG_VERIFY",
               "GET_RUN_WORD", "GET_ANGLE_RAW", "GET_ANGLE_COMP", "GET_LATCHED", "GET_ERRCNT",
               "GET_SAMPLE", "GET_FW_VER", "GET_ENV", "GET_TRIM"} : Reader(name)
BY DEF Reader, SUB

LEMMA OrderFields ==
  ASSUME NEW name \in {"GET_ANGLE_RAW", "GET_ANGLE_COMP", "GET_LATCHED", "GET_ERRCNT",
                       "GET_SAMPLE", "GET_FW_VER", "GET_ENV", "GET_TRIM"}
  PROVE  InOrder(Fields(name))
<1>1. name \in Records \cup {"GET_FW_VER", "GET_ENV", "GET_TRIM"} BY DEF Records
<1>2. FIELDS[name] \in Nat /\ FIELDS[name] <= 31 BY <1>1, Fielded
<1>3. name \in DOMAIN FIELDS BY <1>1, ModuleAssumption
<1>4. Limit(SUB[name]) = FIELDS[name] - 1 /\ Reader(name) BY <1>3, Limits, Readers
<1>5. PICK n : n = FIELDS[name] OBVIOUS
<1>6. n \in Nat /\ n <= 34 /\ n <= Limit(SUB[name]) + 1 BY <1>2, <1>4, <1>5
<1> QED BY <1>4, <1>5, <1>6, OrderEach DEF Fields

LEMMA OrderWords == InOrder(stored_page) /\ InOrder(running_page) /\ InOrder(sernum)
<1>1. SUB["GET_CAL_WORD"] = 15 /\ SUB["GET_RUN_WORD"] = 21 /\ SUB["GET_SERNUM"] = 17
  BY DEF SUB
<1>2. Reader("GET_CAL_WORD") /\ Reader("GET_RUN_WORD") /\ Reader("GET_SERNUM")
  BY Readers
<1>3. InOrder(Each("GET_CAL_WORD", PAGE_WORDS)) /\ InOrder(Each("GET_RUN_WORD", PAGE_WORDS))
  <2>1. PICK n : n = PAGE_WORDS OBVIOUS
  <2>2. n \in Nat /\ n <= 34 /\ n <= Limit(SUB["GET_CAL_WORD"]) + 1
        /\ n <= Limit(SUB["GET_RUN_WORD"]) + 1 BY <1>1, <2>1, SmallPage, Limits
  <2> QED BY <1>2, <2>1, <2>2, OrderEach
<1>4. InOrder(Each("GET_SERNUM", SN))
  <2>1. SN \in Nat /\ SN <= 34 /\ SN <= Limit(SUB["GET_SERNUM"]) + 1
    BY <1>1, Places, Limits
  <2> QED BY <1>2, <2>1, OrderEach
<1> QED BY <1>3, <1>4 DEF stored_page, running_page, sernum, SN

LEMMA OrderPings == InOrder(measure_round_trip)
<1> DEFINE s == measure_round_trip
<1>1. N_RTT \in Nat BY ModuleAssumption
<1>2. s = [i \in 1 .. N_RTT |-> [Rq("PING", 0) EXCEPT !.window = TIMEOUT_RTT]]
  BY DEF measure_round_trip
<1>3. \A i \in 1 .. N_RTT : s[i].name = "PING" /\ s[i].arg = 0 BY <1>2 DEF Rq
<1>4. s = [i \in 1 .. N_RTT |-> s[i]] BY <1>2
<1> HIDE DEF s
<1>5. IsSequence(s) /\ Len(s) = N_RTT BY <1>1, <1>4, Listed
<1>6. Reader("PING") /\ 0 \in Word /\ Limit(SUB["PING"]) >= 0 /\ Limit(SUB["PING"]) \in Int
  BY Readers, Limits, SmallWord
<1>7. ASSUME NEW i \in 1 .. N_RTT PROVE Placed(s, i)
  <2>1. s[i].name = "PING" /\ s[i].arg = 0 BY <1>3
  <2>2. Mild(s[i]) BY <1>6, <2>1 DEF Mild, Reader
  <2> QED BY <2>1, <2>2 DEF Placed
<1> QED BY <1>5, <1>7 DEF InOrder, s

LEMMA OrderReads ==
  /\ InOrder(firmware) /\ InOrder(device_id) /\ InOrder(health) /\ InOrder(cal_status)
  /\ InOrder(cfg_verify) /\ InOrder(environment) /\ InOrder(trim) /\ InOrder(counters)
  /\ InOrder(angle) /\ InOrder(angle_raw) /\ InOrder(latched) /\ InOrder(sample_poll)
<1>1. /\ InOrder(device_id) /\ InOrder(health) /\ InOrder(cal_status) /\ InOrder(cfg_verify)
      /\ InOrder(<<Rq("GET_PROTO_VER", 0)>>)
  BY MildPlain, Readers DEF device_id, health, cal_status, cfg_verify
<1>2. /\ InOrder(Fields("GET_FW_VER")) /\ InOrder(Fields("GET_ENV")) /\ InOrder(trim)
      /\ InOrder(counters) /\ InOrder(angle) /\ InOrder(angle_raw) /\ InOrder(latched)
      /\ InOrder(sample_poll)
  BY OrderFields DEF trim, counters, angle, angle_raw, latched, sample_poll, _record
<1>3. InOrder(firmware) BY <1>1, <1>2, OrderJoin DEF firmware
<1>4. InOrder(environment)
  <2> DEFINE r1 == Rq("GET_DMAG", 0)
             r2 == Rq("GET_STAT", 0)
             r3 == Rq("GET_SAFETY", 0)
  <2>1. \A r \in {r1, r2, r3} : r.name \notin Records /\ Mild(r)
    <3>1. Mild(r1) /\ Mild(r2) /\ Mild(r3) BY MildPlain, Readers
    <3>2. r1.name \notin Records /\ r2.name \notin Records /\ r3.name \notin Records
      BY DEF Rq, Records
    <3> QED BY <3>1, <3>2
  <2> HIDE DEF r1, r2, r3
  <2>2. IsSequence(<<r1, r2, r3>>) /\ Len(<<r1, r2, r3>>) = 3
        /\ \A i \in 1 .. 3 : <<r1, r2, r3>>[i] \in {r1, r2, r3} BY DEF IsSequence
  <2>3. InOrder(<<r1, r2, r3>>)
    <3> DEFINE s == <<r1, r2, r3>>
    <3>1. /\ IsSequence(s) /\ Len(s) = 3
          /\ \A i \in 1 .. 3 : Mild(s[i]) /\ s[i].name \notin Records BY <2>1, <2>2
    <3> HIDE DEF s
    <3> QED BY <3>1 DEF InOrder, Placed, s
  <2>4. environment = Fields("GET_ENV") \o <<r1, r2, r3>> BY DEF environment, r1, r2, r3
  <2> QED BY <1>2, <2>3, <2>4, OrderJoin
<1> QED BY <1>1, <1>2, <1>3, <1>4

LEMMA OrderInfo == InOrder(cmd_info)
BY OrderPings, OrderReads, OrderWords, OrderJoin DEF cmd_info

LEMMA OrderClear == InOrder(cmd_clear)
<1> DEFINE r == Rq("CLR_ERRCNT", MAGIC.CLR_ERRCNT)
<1>1. r.name = "CLR_ERRCNT" /\ r.arg = MAGIC.CLR_ERRCNT BY DEF Rq
<1>2. "CLR_ERRCNT" \in DOMAIN SUB /\ SUB["CLR_ERRCNT"] = 14 /\ "CLR_ERRCNT" \notin Records
  BY DEF SUB, Records
<1>3. clear_counters = <<r>> BY DEF clear_counters
<1> HIDE DEF r
<1>4. Mild(r) BY <1>1, <1>2, Magics DEF Mild
<1>5. InOrder(clear_counters) BY <1>1, <1>2, <1>3, <1>4, OrderOne
<1> QED BY <1>5, OrderReads, OrderJoin DEF cmd_clear

LEMMA OrderStart ==
  ASSUME NEW e \in 0 .. 10
  PROVE  InOrder(sample_start(e))
<1> DEFINE r == Rq("SAMPLE_START", Tagged(TAG.SAMPLE_START, e))
<1>1. r.name = "SAMPLE_START" /\ r.arg = Tagged(TAG.SAMPLE_START, e) BY DEF Rq
<1>2. "SAMPLE_START" \in DOMAIN SUB /\ SUB["SAMPLE_START"] = 22 /\ "SAMPLE_START" \notin Records
  BY DEF SUB, Records
<1>3. sample_start(e) = <<r>> BY DEF sample_start
<1>4. Tagged(TAG.SAMPLE_START, e) \in Word
  <2>1. TAG.SAMPLE_START = 90 BY DEF TAG
  <2> QED BY <2>1, TaggedWord
<1> HIDE DEF r
<1>5. Mild(r) BY <1>1, <1>2, <1>4 DEF Mild
<1> QED BY <1>1, <1>2, <1>3, <1>5, OrderOne

\* The plans of the commands that unlock nothing.
Keyless == cmd.op \notin {"scan", "sample", "set_id", "write_page", "lock", "reset"}
LEMMA OrderKeyless ==
  ASSUME Keyless, cmd \in Commands
  PROVE  InOrder(Plan(cmd))
<1>1. cmd.op \in Ops BY CommandAssumption
<1>2. CASE cmd.op = "listen"
  <2>1. Plan(cmd) = <<>> BY <1>2 DEF Plan
  <2>2. \A i \in 1 .. 0 : FALSE OBVIOUS
  <2> QED BY <2>1, <2>2, Nothing DEF InOrder
<1>3. CASE cmd.op = "info" BY <1>3, OrderInfo DEF Plan
<1>4. CASE cmd.op = "page" BY <1>4, OrderWords DEF Plan, cmd_page
<1>5. CASE cmd.op = "clear" BY <1>5, OrderClear DEF Plan
<1>6. CASE cmd.op = "latched" BY <1>6, OrderReads DEF Plan
<1> QED BY <1>1, <1>2, <1>3, <1>4, <1>5, <1>6 DEF Ops, Keyless

----------------------------------------------------------------------------
(* What is asked of the module at each place of a plan                     *)

Keyed == cmd.op \in {"set_id", "write_page", "lock", "reset"}
LAST == IF cmd.op = "write_page" THEN STAGED ELSE OPEN     \* factory mode until then
Earlier(d, name) == \E j \in 1 .. d : Script[j].name = name

Wanted(d, r) ==
  \/ /\ Mild(r) /\ (r.name \in Records /\ r.arg # 0 => Earlier(d, r.name))
     /\ Keyed => d < SN \/ d > LAST
  \/ Keyed /\ d = SN /\ r.name = "UNLOCK_1" /\ r.arg = MAGIC.UNLOCK_1
  \/ Keyed /\ d = SN + 1 /\ r.name = "UNLOCK_2" /\ r.arg = KEYED
  \/ /\ cmd.op = "write_page" /\ d \in OPEN .. STAGED - 1
     /\ \E j \in 1 .. PAGE_WORDS :
          \/ d = OPEN + 2 * j - 2 /\ r.name = "STAGE_ADDR" /\ r.arg = Tagged(TAG.STAGE_ADDR, j - 1)
          \/ d = OPEN + 2 * j - 1 /\ r.name = "STAGE_DATA" /\ r.arg = cmd.page[j]
  \/ cmd.op = "write_page" /\ d = STAGED /\ r.name = "COMMIT_CAL" /\ r.arg = MAGIC.COMMIT_CAL
  \/ /\ cmd.op = "set_id" /\ cmd.new_id \in ID_MIN .. ID_MAX
     /\ d = OPEN /\ r.name = "SET_ID" /\ r.arg = Tagged(TAG.SET_ID, cmd.new_id)
  \/ cmd.op = "lock" /\ d = OPEN /\ r.name = "LOCK" /\ r.arg = MAGIC.LOCK
  \/ cmd.op = "reset" /\ d = OPEN /\ r.name = "RESET" /\ r.arg = MAGIC.RESET

\* The plans that unlock, behind the unlock.
Unlocks(p) == IsSequence(p) /\ \A i \in 1 .. OPEN : p[i] = unlock[i]

LEMMA UnlockAndOne ==
  ASSUME NEW r, NEW p, Chain(unlock, <<r>>, p)
  PROVE  Unlocks(p) /\ Len(p) = OPEN + 1 /\ p[OPEN + 1] = r
<1>1. IsSequence(unlock) /\ Len(unlock) = OPEN /\ OPEN \in Nat BY UnlockPlace, Places
<1> QED BY <1>1, OneMore DEF Unlocks

SetIdRq(new) == [Rq("SET_ID", Tagged(TAG.SET_ID, new)) EXCEPT !.window = TIMEOUT_PROG]
LEMMA SetIdPlace ==
  ASSUME cmd.op = "set_id", ~set_id_raises(cmd.new_id)
  PROVE  /\ Unlocks(Plan(cmd)) /\ Len(Plan(cmd)) = OPEN + 3
         /\ Plan(cmd)[OPEN + 1] = SetIdRq(cmd.new_id)
         /\ Plan(cmd)[OPEN + 2] = Rq("GET_DEVICE_ID", 0)
         /\ Plan(cmd)[OPEN + 3] = Rq("GET_CAL_STATUS", 0)
<1> DEFINE r1 == SetIdRq(cmd.new_id)
           r2 == Rq("GET_DEVICE_ID", 0)
           r3 == Rq("GET_CAL_STATUS", 0)
           p1 == unlock \o <<r1>>
           p2 == p1 \o <<r2>>
           p3 == p2 \o <<r3>>
<1>1. Plan(cmd) = p3 BY DEF Plan, cmd_set_id, set_id, device_id, cal_status, SetIdRq
<1>2. Chain(unlock, <<r1>>, p1) /\ Chain(p1, <<r2>>, p2) /\ Chain(p2, <<r3>>, p3)
  BY DEF Chain
<1> HIDE DEF r1, r2, r3, p1, p2, p3
<1>3. OPEN \in Nat /\ OPEN + 1 \in Nat /\ OPEN + 2 \in Nat /\ OPEN + 1 + 1 = OPEN + 2
      /\ OPEN + 2 + 1 = OPEN + 3 BY Places
<1>4. Unlocks(p1) /\ Len(p1) = OPEN + 1 /\ p1[OPEN + 1] = r1 BY <1>2, UnlockAndOne
<1>5. /\ IsSequence(p2) /\ Len(p2) = OPEN + 2 /\ \A i \in 1 .. OPEN + 1 : p2[i] = p1[i]
      /\ p2[OPEN + 2] = r2 BY <1>2, <1>3, <1>4, OneMore DEF Unlocks
<1>6. /\ IsSequence(p3) /\ Len(p3) = OPEN + 3 /\ \A i \in 1 .. OPEN + 2 : p3[i] = p2[i]
      /\ p3[OPEN + 3] = r3 BY <1>2, <1>3, <1>5, OneMore
<1>7. /\ \A i \in 1 .. OPEN : i \in 1 .. OPEN + 1 /\ i \in 1 .. OPEN + 2
      /\ OPEN + 1 \in 1 .. OPEN + 1 /\ OPEN + 1 \in 1 .. OPEN + 2 /\ OPEN + 2 \in 1 .. OPEN + 2
  BY Places
<1>8. \A i \in 1 .. OPEN : p3[i] = unlock[i] BY <1>4, <1>5, <1>6, <1>7 DEF Unlocks
<1>9. p3[OPEN + 1] = r1 /\ p3[OPEN + 2] = r2 BY <1>4, <1>5, <1>6, <1>7
<1> QED BY <1>1, <1>6, <1>8, <1>9 DEF Unlocks, r1, r2, r3

LEMMA UnlockingPlans ==
  ASSUME NEW c
  PROVE  /\ c.op = "lock" => Unlocks(Plan(c)) /\ Len(Plan(c)) = OPEN + 1
                             /\ Plan(c)[OPEN + 1] = Rq("LOCK", MAGIC.LOCK)
         /\ c.op = "reset" => Unlocks(Plan(c)) /\ Len(Plan(c)) = OPEN + 1
                             /\ Plan(c)[OPEN + 1] = Rq("RESET", MAGIC.RESET)
         /\ c.op = "set_id" /\ set_id_raises(c.new_id) => Unlocks(Plan(c)) /\ Len(Plan(c)) = OPEN
<1>1. ASSUME c.op = "lock" PROVE Chain(unlock, <<Rq("LOCK", MAGIC.LOCK)>>, Plan(c))
  BY <1>1 DEF Plan, Chain, lock_again
<1>2. ASSUME c.op = "reset" PROVE Chain(unlock, <<Rq("RESET", MAGIC.RESET)>>, Plan(c))
  BY <1>2 DEF Plan, Chain, reset
<1>3. ASSUME c.op = "set_id" /\ set_id_raises(c.new_id) PROVE Plan(c) = unlock
  BY <1>3 DEF Plan, cmd_set_id
<1>4. Unlocks(unlock) /\ Len(unlock) = OPEN BY UnlockPlace DEF Unlocks
<1>5. c.op = "lock" => Unlocks(Plan(c)) /\ Len(Plan(c)) = OPEN + 1
                       /\ Plan(c)[OPEN + 1] = Rq("LOCK", MAGIC.LOCK)
  BY <1>1, UnlockAndOne
<1>6. c.op = "reset" => Unlocks(Plan(c)) /\ Len(Plan(c)) = OPEN + 1
                        /\ Plan(c)[OPEN + 1] = Rq("RESET", MAGIC.RESET)
  BY <1>2, UnlockAndOne
<1> QED BY <1>3, <1>4, <1>5, <1>6

\* What the unlock asks for.
LEMMA UnlockWants ==
  ASSUME Keyed, NEW d \in Nat, d < OPEN, NEW r, r = unlock[d + 1]
  PROVE  Wanted(d, r)
<1>0. SN \in Nat /\ OPEN = SN + 2 BY Places
<1>1. CASE d < SN
  <2>1. d + 1 \in 1 .. SN /\ d + 1 - 1 = d BY <1>0, <1>1
  <2>2. r = Rq("GET_SERNUM", d) BY <2>1, UnlockPlace
  <2>3. r.name = "GET_SERNUM" /\ r.arg = d BY <2>2 DEF Rq
  <2>4. Limit(17) = SN - 1 /\ SN <= 31 /\ SUB["GET_SERNUM"] = 17 /\ Reader("GET_SERNUM")
    BY Limits, Places, Readers DEF SUB
  <2>5. d \in Word /\ d <= SN - 1
    <3>1. d <= 65535 /\ d <= SN - 1 BY <1>0, <1>1, Places
    <3> QED BY <3>1, SmallWord
  <2>6. Mild(r) /\ r.name \notin Records BY <2>3, <2>4, <2>5 DEF Mild, Reader, Records
  <2> QED BY <1>1, <2>6 DEF Wanted
<1>2. CASE d = SN
  <2>1. r = Rq("UNLOCK_1", MAGIC.UNLOCK_1) BY <1>2, UnlockPlace
  <2> QED BY <1>2, <2>1 DEF Wanted, Rq
<1>3. CASE d = SN + 1
  <2>1. d + 1 = OPEN BY <1>0, <1>3
  <2>2. r = Rq("UNLOCK_2", KEYED) BY <2>1, UnlockPlace
  <2> QED BY <1>3, <2>2 DEF Wanted, Rq
<1> QED BY <1>0, <1>1, <1>2, <1>3

LEMMA MildWants ==
  ASSUME NEW d, NEW name, Reader(name), name \notin Records, ~Keyed \/ d < SN \/ d > LAST
  PROVE  Wanted(d, Rq(name, 0))
<1>1. PICK r : r = Rq(name, 0) OBVIOUS
<1>2. Mild(r) /\ r.name = name BY <1>1, MildPlain DEF Rq
<1> QED BY <1>1, <1>2 DEF Wanted

LEMMA WriteWants ==
  ASSUME cmd.op = "write_page", NEW d \in Nat, NEW r, Asks(d, r)
  PROVE  Wanted(d, r)
<1>0. /\ SN \in Nat /\ OPEN = SN + 2 /\ STAGED = OPEN + 2 * PAGE_WORDS /\ PAGE_WORDS \in Nat
      /\ PAGE_WORDS <= 34 BY Places, SmallPage
<1>1. Keyed /\ LAST = STAGED BY DEF Keyed, LAST
<1>2. CASE d < SN /\ r.name = "GET_SERNUM" /\ r.arg = d
  <2>1. Limit(17) = SN - 1 /\ SN <= 31 /\ SUB["GET_SERNUM"] = 17 /\ Reader("GET_SERNUM")
    BY Limits, Places, Readers DEF SUB
  <2>2. d \in Word /\ d <= SN - 1
    <3>1. d <= 65535 /\ d <= SN - 1 BY <1>0, <1>2, Places
    <3> QED BY <3>1, SmallWord
  <2>3. Mild(r) /\ r.name \notin Records BY <1>2, <2>1, <2>2 DEF Mild, Reader, Records
  <2> QED BY <1>2, <2>3 DEF Wanted
<1>3. CASE d = SN /\ r.name = "UNLOCK_1" /\ r.arg = MAGIC.UNLOCK_1
  BY <1>1, <1>3 DEF Wanted
<1>4. CASE d = SN + 1 /\ r.name = "UNLOCK_2" /\ r.arg = KEYED BY <1>1, <1>4 DEF Wanted
<1>5. ASSUME NEW j \in 1 .. PAGE_WORDS,
             \/ d = OPEN + 2 * j - 2 /\ r.name = "STAGE_ADDR" /\ r.arg = Tagged(TAG.STAGE_ADDR, j - 1)
             \/ d = OPEN + 2 * j - 1 /\ r.name = "STAGE_DATA" /\ r.arg = cmd.page[j]
      PROVE  Wanted(d, r)
  <2>1. d \in OPEN .. STAGED - 1 BY <1>0, <1>5
  <2> QED BY <1>5, <2>1 DEF Wanted
<1>6. CASE d = STAGED /\ r.name = "COMMIT_CAL" /\ r.arg = MAGIC.COMMIT_CAL
  BY <1>6 DEF Wanted
<1>7. ASSUME NEW j \in 1 .. PAGE_WORDS, d = STAGED + j /\ r.name = "GET_CAL_WORD" /\ r.arg = j - 1
      PROVE  Wanted(d, r)
  <2>1. Limit(15) = PAGE_WORDS - 1 /\ SUB["GET_CAL_WORD"] = 15 /\ Reader("GET_CAL_WORD")
    BY Limits, Readers DEF SUB
  <2>2. j - 1 \in Word /\ j - 1 <= PAGE_WORDS - 1 /\ d > LAST
    <3>1. j - 1 \in Nat /\ j - 1 <= 65535 /\ d > LAST BY <1>0, <1>1, <1>7
    <3> QED BY <3>1, SmallWord, <1>0
  <2>3. Mild(r) /\ r.name \notin Records BY <1>7, <2>1, <2>2 DEF Mild, Reader, Records
  <2> QED BY <2>2, <2>3 DEF Wanted
<1>8. CASE d = STAGED + PAGE_WORDS + 1 /\ r.name = "GET_CAL_STATUS" /\ r.arg = 0
  <2>1. Limit(16) >= 0 /\ 0 \in Word /\ SUB["GET_CAL_STATUS"] = 16 /\ Reader("GET_CAL_STATUS")
    BY Limits, Readers, SmallWord DEF SUB
  <2>2. d > LAST BY <1>0, <1>1, <1>8
  <2>3. Mild(r) /\ r.name \notin Records BY <1>8, <2>1, Limits DEF Mild, Reader, Records
  <2> QED BY <2>2, <2>3 DEF Wanted
<1> QED BY <1>2, <1>3, <1>4, <1>5, <1>6, <1>7, <1>8 DEF Asks

LEMMA KeyedWants ==
  ASSUME WInv, Keyed, phase \in {"send", "wait"}
  PROVE  Len(got) \in Nat /\ Wanted(Len(got), Head(todo))
<1>1. CASE cmd.op = "write_page" BY <1>1, WriteAsks, WriteWants
<1>2. CASE cmd.op \in {"set_id", "lock", "reset"}
  <2>1. InStep /\ Scripted /\ cmd \in Commands /\ todo # <<>>
    BY <1>2 DEF WInv, PlaceInv, IInv, ToolInv, Scripted
  <2> DEFINE d == Len(got)
             p == Plan(cmd)
             r == Head(todo)
  <2>2. d \in Nat /\ d + 1 \in 1 .. Len(p) /\ r = p[d + 1] BY <2>1, PlaceInPlan DEF WInv
  <2> HIDE DEF d, p, r
  <2>3. Unlocks(p) BY <1>2, SetIdPlace, UnlockingPlans DEF p
  <2>4. CASE d < OPEN
    <3>1. d + 1 \in 1 .. OPEN BY <2>2, <2>4, Places
    <3>2. r = unlock[d + 1] BY <2>2, <2>3, <3>1 DEF Unlocks
    <3>3. Wanted(d, r) BY <2>2, <2>4, <3>2, UnlockWants
    <3> QED BY <2>2, <3>3 DEF d, r
  <2>5. CASE cmd.op = "lock" /\ d >= OPEN
    <3>1. d = OPEN /\ r = Rq("LOCK", MAGIC.LOCK)
      <4>1. Len(p) = OPEN + 1 /\ p[OPEN + 1] = Rq("LOCK", MAGIC.LOCK)
        BY <2>5, UnlockingPlans DEF p
      <4> QED BY <2>2, <2>5, <4>1, Places
    <3> QED BY <2>2, <2>5, <3>1 DEF Wanted, Rq, d, r
  <2>6. CASE cmd.op = "reset" /\ d >= OPEN
    <3>1. d = OPEN /\ r = Rq("RESET", MAGIC.RESET)
      <4>1. Len(p) = OPEN + 1 /\ p[OPEN + 1] = Rq("RESET", MAGIC.RESET)
        BY <2>6, UnlockingPlans DEF p
      <4> QED BY <2>2, <2>6, <4>1, Places
    <3> QED BY <2>2, <2>6, <3>1 DEF Wanted, Rq, d, r
  <2>7. CASE cmd.op = "set_id" /\ d >= OPEN
    <3>1. ~set_id_raises(cmd.new_id)
      <4> SUFFICES ASSUME set_id_raises(cmd.new_id) PROVE FALSE OBVIOUS
      <4>1. Len(p) = OPEN BY <2>7, UnlockingPlans DEF p
      <4> QED BY <2>2, <2>7, <4>1, Places
    <3>2. /\ Len(p) = OPEN + 3 /\ p[OPEN + 1] = SetIdRq(cmd.new_id)
          /\ p[OPEN + 2] = Rq("GET_DEVICE_ID", 0) /\ p[OPEN + 3] = Rq("GET_CAL_STATUS", 0)
      BY <2>7, <3>1, SetIdPlace DEF p
    <3>3. d = OPEN \/ d = OPEN + 1 \/ d = OPEN + 2 BY <2>2, <2>7, <3>2, Places
    <3>4. CASE d = OPEN
      <4>1. r = SetIdRq(cmd.new_id) BY <2>2, <3>2, <3>4
      <4>2. r.name = "SET_ID" /\ r.arg = Tagged(TAG.SET_ID, cmd.new_id)
        BY <4>1 DEF SetIdRq, Rq
      <4>3. cmd.new_id \in ID_MIN .. ID_MAX BY <3>1 DEF set_id_raises
      <4> QED BY <2>2, <2>7, <3>4, <4>2, <4>3 DEF Wanted, d, r
    <3>5. CASE d = OPEN + 1 \/ d = OPEN + 2
      <4>1. r \in {Rq("GET_DEVICE_ID", 0), Rq("GET_CAL_STATUS", 0)}
        <5>1. OPEN + 1 + 1 = OPEN + 2 /\ OPEN + 2 + 1 = OPEN + 3 BY Places
        <5> QED BY <2>2, <3>2, <3>5, <5>1
      <4>2. d > LAST BY <2>7, <3>5, Places DEF LAST
      <4>3. Reader("GET_DEVICE_ID") /\ Reader("GET_CAL_STATUS")
            /\ "GET_DEVICE_ID" \notin Records /\ "GET_CAL_STATUS" \notin Records
        BY Readers DEF Records
      <4>4. Wanted(d, r) BY <4>1, <4>2, <4>3, MildWants
      <4> QED BY <2>2, <4>4 DEF d, r
    <3> QED BY <3>3, <3>4, <3>5
  <2>8. d < OPEN \/ d >= OPEN BY <2>2, Places
  <2> QED BY <1>2, <2>4, <2>5, <2>6, <2>7, <2>8
<1> QED BY <1>1, <1>2 DEF Keyed

\* A session that has met no trouble so far.
Calm == trouble = {} /\ phase # "end"
Base == SInv /\ WInv /\ StageInv /\ HeldInv

LEMMA PollWants ==
  ASSUME NEW s, InOrder(s), ~Keyed, IsSequence(got), Len(got) + 1 \in 1 .. Len(s),
         \A j \in 1 .. Len(got) : Script[j] = s[j]
  PROVE  Wanted(Len(got), s[Len(got) + 1])
<1> DEFINE d == Len(got)
<1>1. d \in Nat /\ Placed(s, d + 1) /\ d + 1 - 1 = d BY DEF InOrder, IsSequence
<1>2. Once(s, d + 1) => Earlier(d, s[d + 1].name) BY <1>1 DEF Once, Earlier
<1> QED BY <1>1, <1>2 DEF Placed, Wanted

LEMMA AllWants ==
  ASSUME SInv, WInv, Calm, phase \in {"send", "wait"}
  PROVE  Len(got) \in Nat /\ Wanted(Len(got), Head(todo))
<1>0. /\ IInv /\ SnapType /\ todo # <<>> /\ cmd \in Commands /\ ~Refused(cmd) /\ IsSequence(got)
      /\ Len(got) \in Nat BY DEF WInv, IInv, ToolInv, PlaceInv, SnapType, IsSequence
<1>1. CASE Keyed BY <1>1, KeyedWants
<1>2. CASE Keyless
  <2>1. InStep /\ Scripted /\ ~Keyed
    BY <1>2 DEF WInv, PlaceInv, Keyless, Scripted, Keyed
  <2>2. /\ Script = Plan(cmd) /\ Len(got) + 1 \in 1 .. Len(Plan(cmd))
        /\ Head(todo) = Plan(cmd)[Len(got) + 1] BY <1>0, <2>1, PlaceInPlan
  <2>3. InOrder(Plan(cmd)) BY <1>0, <1>2, OrderKeyless
  <2> QED BY <1>0, <2>1, <2>2, <2>3, PollWants
<1>3. CASE cmd.op = "scan"
  <2>1. Head(todo).name = "PING" /\ Head(todo).arg = 0 /\ ~Keyed
    BY <1>0, <1>3, HeadIsRequest DEF RequestsOf, Keyed, IInv
  <2>2. Reader("PING") /\ SUB["PING"] = 1 /\ Limit(1) >= 0 /\ 0 \in Word
    BY Readers, Limits, SmallWord DEF SUB
  <2>3. Mild(Head(todo)) /\ Head(todo).name \notin Records
    BY <2>1, <2>2 DEF Mild, Reader, Records
  <2> QED BY <1>0, <2>1, <2>3 DEF Wanted
<1>4. CASE cmd.op = "sample" /\ Starting
  <2>1. PICK e : e = cmd.e OBVIOUS
  <2>2. e \in 0 .. 10 BY <1>0, <1>4, <2>1 DEF Refused, sample_raises
  <2>3. todo = sample_start(e) /\ InOrder(todo)
    BY <1>4, <2>1, <2>2, OrderStart DEF Starting, Plan, cmd_sample
  <2>4. Len(todo) = 1 /\ Head(todo) = todo[1] /\ Head(todo).name \notin Records
    BY <1>0, <1>4, <2>3, StartingHead
  <2>5. Mild(Head(todo)) /\ ~Keyed
    <3>1. Placed(todo, 1) BY <2>3, <2>4 DEF InOrder
    <3> QED BY <1>4, <2>4, <3>1 DEF Placed, Keyed
  <2> QED BY <1>0, <2>4, <2>5 DEF Wanted
<1>5. CASE cmd.op = "sample" /\ ~Starting
  <2>1. Reading /\ Script = sample_poll /\ ~Keyed
    BY <1>5 DEF Reading, Calm, Script, Keyed
  <2>2. InStep BY <1>5, <2>1 DEF SInv, ReadsInv
  <2>3. Len(got) + 1 \in 1 .. Len(Script) /\ Head(todo) = Script[Len(got) + 1]
    BY <1>0, <2>1, <2>2, NextOfScript
  <2> QED BY <1>0, <2>1, <2>3, OrderReads, PollWants
<1> QED BY <1>1, <1>2, <1>3, <1>4, <1>5 DEF Keyed, Keyless

----------------------------------------------------------------------------
(* The invariant: the module does what it is asked                         *)

\* What the module has when it is asked at place d.
LockAt(d) ==
  Keyed => /\ d <= SN => lock = "locked"
           /\ d = SN + 1 => lock = "armed"
           /\ d \in OPEN .. LAST => lock = "factory"
IdAt(d) ==
  cmd.op = "set_id" =>
    (d = OPEN => staged = Erased) /\ (d > OPEN => did = cmd.new_id /\ FromPage)
SnapsAt(d) ==
  cmd.op # "scan" /\ ~Starting =>
    \A i \in 1 .. d : Script[i].name \in Records => snap[SUB[Script[i].name]] # 2
Opened(d) == LockAt(d) /\ IdAt(d) /\ SnapsAt(d)

\* What it answers, where the tool uses it.
Told(r, a) ==
  /\ r.name = "GET_SERNUM" => a = Serial[r.arg + 1]
  /\ cmd.op = "write_page" /\ r.name = "GET_CAL_WORD" => a = cmd.page[r.arg + 1]
TruthTold == cmd.op \notin {"scan", "sample"} => \A i \in 1 .. Len(got) : Told(Script[i], got[i])

\* The key of UNLOCK_2 is that of the module asked.
LEMMA KeyFits ==
  ASSUME WInv, Keyed, phase = "wait", TruthTold, Len(got) = SN + 1, Head(todo).arg = KEYED
  PROVE  Argument(Head(todo)) = Key
<1>1. InStep /\ Scripted /\ cmd \in Commands /\ todo # <<>> /\ IsSequence(got)
  BY DEF WInv, PlaceInv, IInv, ToolInv, Scripted, Keyed, SnapType
<1>2. Script = Plan(cmd) BY <1>1, PlaceInPlan DEF WInv
<1>3. Unlocks(Plan(cmd))
  <2>1. CASE cmd.op = "write_page" BY <2>1, WritePlace DEF Unlocks
  <2>2. CASE cmd.op \in {"set_id", "lock", "reset"} BY <2>2, SetIdPlace, UnlockingPlans
  <2> QED BY <2>1, <2>2 DEF Keyed
<1>4. ASSUME NEW i \in 1 .. SN PROVE got[i] = Serial[i]
  <2>1. i \in 1 .. OPEN /\ i \in 1 .. Len(got) /\ i - 1 + 1 = i BY Places
  <2>2. Script[i] = Rq("GET_SERNUM", i - 1) BY <1>2, <1>3, <2>1, UnlockPlace DEF Unlocks
  <2>3. Script[i].name = "GET_SERNUM" /\ Script[i].arg = i - 1 BY <2>2 DEF Rq
  <2>4. Told(Script[i], got[i]) BY <1>1, <2>1 DEF TruthTold, Scripted
  <2> QED BY <2>1, <2>3, <2>4 DEF Told
<1>5. SubSeq(got, Len(got) - Len(Serial), Len(got) - 1) = Serial
  <2>1. Len(got) - Len(Serial) = 1 /\ Len(got) - 1 = SN BY Places DEF SN
  <2>2. SubSeq(got, 1, SN) = [i \in 1 .. SN |-> got[i]]
    <3>1. SN \in Nat BY Places
    <3> QED BY <3>1
  <2>3. Serial = [i \in 1 .. SN |-> Serial[i]]
    <3>1. Serial \in Seq(Word) BY ModuleAssumption
    <3> QED BY <3>1 DEF SN
  <2>4. [i \in 1 .. SN |-> got[i]] = [i \in 1 .. SN |-> Serial[i]] BY <1>4
  <2> QED BY <2>1, <2>2, <2>3, <2>4
<1> QED BY <1>5 DEF Argument, Key

\* What unlocks or writes is accepted in its place.
LEMMA AcceptedInPlace ==
  ASSUME NEW s \in 24 .. 31, s \notin RecordSub, NEW a, gate = "write",
         s \in 26 .. 29 => lock = "factory", s # 31, s = 24 => lock # "factory",
         s = 25 => lock # "locked", ~WrongArg(s, a), ~OutOfRange(s, a),
         s = 28 => inspect_page(staged) = "valid",
         s = 29 => staged = Erased /\ (FromPage \/ stored = Erased)
  PROVE  Refusal(s, a) = 0
<1>1. ~(s >= SUB.UNLOCK_1 /\ s # SUB.LOCK /\ gate # "write") OBVIOUS
<1>2. ~(s >= SUB.STAGE_ADDR /\ s # SUB.LOCK /\ lock # "factory") BY StageNumbers
<1>3. ~(s = SUB.UNLOCK_1 /\ lock = "factory") /\ ~(s = SUB.UNLOCK_2 /\ lock = "locked")
  BY StageNumbers
<1>4. /\ ~(s = SUB.COMMIT_CAL /\ inspect_page(staged) # "valid")
      /\ ~(s = SUB.SET_ID /\ staged # Erased) /\ ~(s = SUB.SET_ID /\ ~FromPage /\ stored # Erased)
  BY StageNumbers
<1>5. s # SUB.NAK /\ s # SUB.LATCH_SYNC BY DEF SUB
<1> QED BY <1>1, <1>2, <1>3, <1>4, <1>5, Accepts

\* A calm session is refused a SET_ID only, behind the rest of a page.
Hopeless == Head(todo).name = "SET_ID" /\ ~FromPage /\ stored # Erased
LEMMA CalmIsAccepted ==
  ASSUME Base, Calm, phase = "wait", req # NONE, gate = "write", Opened(Len(got)), TruthTold
  PROVE  Refusal(request.sub, request.arg) = 0 \/ Hopeless
<1> DEFINE d == Len(got)
           r == Head(todo)
<1> SUFFICES ASSUME ~Hopeless PROVE Refusal(request.sub, request.arg) = 0 OBVIOUS
<1>1. /\ d \in Nat /\ Wanted(d, r) /\ cmd \in Commands /\ ~Refused(cmd) /\ r.name # "RESET"
      /\ WInv /\ r.name \in DOMAIN SUB
  <2>1. r.name \in DOMAIN SUB
    <3>1. r \in RequestsOf(cmd.op) BY HeadIsRequest DEF Base, WInv, IInv, ToolInv
    <3> QED BY <3>1 DEF RequestsOf, Request
  <2> QED BY <2>1, AllWants DEF Base, WInv, PlaceInv, Calm
<1>2. PICK s, a : s = request.sub /\ a = request.arg OBVIOUS
<1>3. s = SUB[r.name] /\ a = Argument(r)
  BY <1>2 DEF Base, WInv, IInv, RequestInv, AsAsked, PlaceInv, Calm
<1>4. Opened(d) /\ (r.name = "SET_ID" => FromPage \/ stored = Erased) BY DEF Hopeless
<1>5. r.arg # KEYED => a = r.arg BY <1>3 DEF Argument
<1>6. \A w \in Word : w # KEYED BY Ranges DEF KEYED
<1>T. Keyed /\ d = SN + 1 /\ r.arg = KEYED => a = Key BY <1>1, <1>3, KeyFits
<1> HIDE DEF d, r
<1>7. SN \in Nat /\ OPEN = SN + 2 /\ STAGED = OPEN + 2 * PAGE_WORDS /\ PAGE_WORDS \in Nat
      /\ PAGE_WORDS >= 1 /\ PAGE_WORDS <= 34 BY Places, SmallPage
<1>L. Keyed /\ d \in OPEN .. LAST => lock = "factory"
  BY <1>4, <1>7 DEF Opened, LockAt, IdAt, SnapsAt, LAST
<1>8. CASE Mild(r) /\ (r.name \in Records /\ r.arg # 0 => Earlier(d, r.name))
  <2>1. a = r.arg BY <1>5, <1>6, <1>8 DEF Mild
  <2>2. ~(s \in RecordSub /\ a > 0 /\ snap[s] = 2)
    <3> SUFFICES ASSUME s \in RecordSub, a > 0 PROVE snap[s] # 2 OBVIOUS
    <3>1. r.name \in Records BY <1>1, <1>3, RecordNumbers
    <3>2. PICK j \in 1 .. d : Script[j].name = r.name BY <1>8, <2>1, <3>1 DEF Earlier
    <3>3. cmd.op # "scan" /\ ~Starting
      BY <3>1, StartingHead, HeadIsRequest DEF r, RequestsOf, Records, Base, WInv, IInv, ToolInv
    <3> QED BY <1>3, <1>4, <3>1, <3>2, <3>3 DEF Opened, LockAt, IdAt, SnapsAt
  <2>3. Refusal(s, a) = 0 BY <1>3, <1>8, <2>1, <2>2, MildAccepted
  <2> QED BY <1>2, <2>3
<1>9. CASE Keyed /\ d = SN /\ r.name = "UNLOCK_1" /\ r.arg = MAGIC.UNLOCK_1
  <2>1. s = 24 /\ a = MAGIC.UNLOCK_1 /\ s \notin RecordSub
    BY <1>3, <1>5, <1>6, <1>9, Magics, StageNumbers, RecordNumbers
  <2>2. lock = "locked" BY <1>4, <1>7, <1>9 DEF Opened, LockAt, IdAt, SnapsAt
  <2>3. ~WrongArg(s, a) /\ ~OutOfRange(s, a) BY <2>1, WrongArgs, OutOfRanges
  <2>4. Refusal(s, a) = 0 BY <2>1, <2>2, <2>3, AcceptedInPlace
  <2> QED BY <1>2, <2>4
<1>10. CASE Keyed /\ d = SN + 1 /\ r.name = "UNLOCK_2" /\ r.arg = KEYED
  <2>1. s = 25 /\ a = Key /\ s \notin RecordSub
    BY <1>3, <1>T, <1>10, StageNumbers, RecordNumbers
  <2>2. lock = "armed" BY <1>4, <1>7, <1>10 DEF Opened, LockAt, IdAt, SnapsAt
  <2>3. ~WrongArg(s, a) /\ ~OutOfRange(s, a) BY <2>1, WrongArgs, OutOfRanges
  <2>4. Refusal(s, a) = 0 BY <2>1, <2>2, <2>3, AcceptedInPlace
  <2> QED BY <1>2, <2>4
<1>11. ASSUME cmd.op = "write_page", d \in OPEN .. STAGED - 1, NEW j \in 1 .. PAGE_WORDS,
              d = OPEN + 2 * j - 2, r.name = "STAGE_ADDR", r.arg = Tagged(TAG.STAGE_ADDR, j - 1)
       PROVE  Refusal(s, a) = 0
  <2>1. r.arg = (j - 1) + 165 * 256 /\ j - 1 \in 0 .. 255 /\ r.arg # KEYED
    <3>1. PICK v \in 0 .. 255 : v = j - 1 BY <1>7
    <3>2. r.arg = Tagged(TAG.STAGE_ADDR, v) BY <1>11, <3>1
    <3>3. r.arg = v + 165 * 256 BY <3>2 DEF Tagged, TAG
    <3> QED BY <3>1, <3>3 DEF KEYED
  <2>2. a \div 256 = 165 /\ a % 256 = j - 1 BY <1>5, <2>1, Split8
  <2>3. s = 26 /\ s \notin RecordSub BY <1>3, <1>11, StageNumbers, RecordNumbers
  <2>4. lock = "factory" BY <1>7, <1>11, <1>L DEF Keyed, LAST
  <2>5. ~WrongArg(s, a)
    <3>1. TAG.STAGE_ADDR = 165 BY DEF TAG
    <3> QED BY <2>2, <2>3, <3>1, WrongArgs
  <2>6. ~OutOfRange(s, a)
    <3>1. ~(j - 1 >= PAGE_WORDS) BY <1>7
    <3> QED BY <2>2, <2>3, <3>1, OutOfRanges
  <2> QED BY <2>3, <2>4, <2>5, <2>6, AcceptedInPlace
<1>12. ASSUME cmd.op = "write_page", d \in OPEN .. STAGED - 1, NEW j \in 1 .. PAGE_WORDS,
              d = OPEN + 2 * j - 1, r.name = "STAGE_DATA"
       PROVE  Refusal(s, a) = 0
  <2>1. s = 27 /\ s \notin RecordSub BY <1>3, <1>12, StageNumbers, RecordNumbers
  <2>2. lock = "factory" BY <1>7, <1>12, <1>L DEF Keyed, LAST
  <2>3. index = (d - OPEN) \div 2
    <3>1. Ready(d) /\ d \in OPEN .. STAGED
      <4>1. Ready(Len(got)) BY <1>12 DEF Base, StageInv, Writing, Calm
      <4>2. d \in OPEN .. STAGED BY <1>7, <1>12
      <4> QED BY <4>1, <4>2 DEF d
    <3> QED BY <2>2, <3>1 DEF Ready
  <2>4. ~(index >= PAGE_WORDS)
    <3>1. d - OPEN = 2 * (j - 1) + 1 BY <1>7, <1>12
    <3>2. (2 * (j - 1) + 1) \div 2 = j - 1 BY <1>7
    <3> QED BY <1>7, <2>3, <3>1, <3>2
  <2>5. ~WrongArg(s, a) /\ ~OutOfRange(s, a) BY <2>1, <2>4, WrongArgs, OutOfRanges
  <2> QED BY <2>1, <2>2, <2>5, AcceptedInPlace
<1>13. CASE cmd.op = "write_page" /\ d = STAGED /\ r.name = "COMMIT_CAL" /\ r.arg = MAGIC.COMMIT_CAL
  <2>1. s = 28 /\ s \notin RecordSub /\ a = MAGIC.COMMIT_CAL
    BY <1>3, <1>5, <1>6, <1>13, Magics, StageNumbers, RecordNumbers
  <2>2. lock = "factory" /\ d \in OPEN .. STAGED BY <1>7, <1>13, <1>L DEF Keyed, LAST
  <2>3. staged = cmd.page
    <3>1. Ready(d) BY <1>13 DEF Base, StageInv, Writing, Calm, d
    <3>2. staged = Staging(cmd.page, d) BY <2>2, <3>1 DEF Ready
    <3>3. cmd.page \in [1 .. PAGE_WORDS -> Word] BY <1>1, <1>13, CommandAssumption
    <3>4. PICK p : p = cmd.page OBVIOUS
    <3>5. Staging(p, STAGED) = p BY <3>3, <3>4, StagingFull
    <3> QED BY <1>13, <3>2, <3>4, <3>5
  <2>4. inspect_page(staged) = "valid" BY <1>1, <1>13, <2>3 DEF Refused
  <2>5. ~WrongArg(s, a) /\ ~OutOfRange(s, a) BY <2>1, WrongArgs, OutOfRanges
  <2>6. Refusal(s, a) = 0 BY <2>1, <2>2, <2>4, <2>5, AcceptedInPlace
  <2> QED BY <1>2, <2>6
<1>14. CASE /\ cmd.op = "set_id" /\ cmd.new_id \in ID_MIN .. ID_MAX
            /\ d = OPEN /\ r.name = "SET_ID" /\ r.arg = Tagged(TAG.SET_ID, cmd.new_id)
  <2>0. PICK i \in ID_MIN .. ID_MAX : i = cmd.new_id BY <1>14
  <2>1. r.arg = i + 94 * 256 /\ TAG.SET_ID = 94 /\ r.arg # KEYED /\ i \in 0 .. 255
    <3>1. TAG.SET_ID = 94 BY DEF TAG
    <3>2. i \in 0 .. 255 BY IdNumbers
    <3>3. r.arg = Tagged(94, i) BY <1>14, <2>0, <3>1
    <3>4. r.arg = i + 94 * 256 BY <3>2, <3>3 DEF Tagged
    <3> QED BY <3>1, <3>2, <3>4 DEF KEYED
  <2>2. a \div 256 = TAG.SET_ID /\ a % 256 = i BY <1>5, <2>1, Split8
  <2>3. s = 29 /\ s \notin RecordSub BY <1>3, <1>14, StageNumbers, RecordNumbers
  <2>4. lock = "factory" /\ staged = Erased
    <3>1. Keyed /\ d \in OPEN .. LAST BY <1>7, <1>14 DEF Keyed, LAST
    <3> QED BY <1>4, <1>14, <3>1 DEF Opened, LockAt, IdAt, SnapsAt
  <2>5. FromPage \/ stored = Erased BY <1>4, <1>14
  <2>6. ~WrongArg(s, a) /\ ~OutOfRange(s, a) BY <2>2, <2>3, WrongArgs, OutOfRanges
  <2>7. Refusal(s, a) = 0 BY <2>3, <2>4, <2>5, <2>6, AcceptedInPlace
  <2> QED BY <1>2, <2>7
<1>15. CASE cmd.op = "lock" /\ d = OPEN /\ r.name = "LOCK" /\ r.arg = MAGIC.LOCK
  <2>1. s = 30 /\ s \notin RecordSub /\ a = MAGIC.LOCK
    BY <1>3, <1>5, <1>6, <1>15, Magics, StageNumbers, RecordNumbers
  <2>2. ~WrongArg(s, a) /\ ~OutOfRange(s, a) BY <2>1, WrongArgs, OutOfRanges
  <2>3. Refusal(s, a) = 0 BY <2>1, <2>2, AcceptedInPlace
  <2> QED BY <1>2, <2>3
<1> QED BY <1>1, <1>2, <1>8, <1>9, <1>10, <1>11, <1>12, <1>13, <1>14, <1>15 DEF Wanted

----------------------------------------------------------------------------
(* A bus with at most one reply on it                                      *)

LEMMA Void ==
  ASSUME NEW s, IsSequence(s), Len(s) = 0
  PROVE  s = <<>>
<1>1. s \in Seq({s[i] : i \in 1 .. Len(s)}) BY HoldsItsElements
<1> QED BY <1>1

\* A bus without a reply brings none.
LEMMA EmptyBus ==
  ASSUME AirInv, air = <<>>, inbox = <<>>, rx = <<>>
  PROVE  /\ Pumped = <<>> /\ rx \o Pumped = <<>> /\ OnTheWay = <<>>
<1>1. Landed = 0
  <2>1. Landed \in Nat /\ Landed <= 0 BY FirstLanded
  <2> QED BY <2>1
<1>2. IsSequence(Pumped) /\ Len(Pumped) = 0 BY <1>1, PumpedFrames, Nothing
<1>3. IsSequence(OnTheWay) /\ Len(OnTheWay) = 0 BY <1>1, FramesOnTheWay
<1>4. Pumped = <<>> /\ OnTheWay = <<>> BY <1>2, <1>3, Void
<1> QED BY <1>4

LEMMA NothingForeign == ~Foreign(<<>>) /\ \A name : Settler(<<>>, name) = 0
BY DEF Foreign, Settler

\* A reply arrives when its latency is over, and not before.
LEMMA ReplyUnderway ==
  ASSUME AirInv, Len(air) = 1, air[1].due # 1, inbox = <<>>, rx = <<>>
  PROVE  /\ Pumped = <<>> /\ rx \o Pumped = <<>> /\ Len(OnTheWay) = 1
         /\ OnTheWay[1].frame = air[1].frame /\ OnTheWay[1].due = air[1].due - 1
<1>1. Landed = 0
  <2>1. Landed \in Nat /\ Landed <= 1 /\ (1 <= Landed <=> air[1].due = 1) BY FirstLanded
  <2> QED BY <2>1
<1>2. IsSequence(Pumped) /\ Len(Pumped) = 0 BY <1>1, PumpedFrames, Nothing
<1>3. /\ Len(OnTheWay) = 1 /\ OnTheWay[1].frame = air[1].frame
      /\ OnTheWay[1].due = air[1].due - 1 BY <1>1, FramesOnTheWay
<1>4. Pumped = <<>> BY <1>2, Void
<1> QED BY <1>3, <1>4

LEMMA ReplyLands ==
  ASSUME AirInv, Len(air) = 1, air[1].due = 1, inbox = <<>>, rx = <<>>
  PROVE  /\ OnTheWay = <<>> /\ IsSequence(Pumped) /\ Len(Pumped) = 1 /\ Pumped[1] = air[1].frame
         /\ rx \o Pumped = Pumped
<1>1. Landed = 1
  <2>1. Landed \in Nat /\ Landed <= 1 /\ (1 <= Landed <=> air[1].due = 1) BY FirstLanded
  <2> QED BY <2>1
<1>2. IsSequence(Pumped) /\ Len(Pumped) = 1 /\ Pumped[1] = air[1].frame
  BY <1>1, PumpedFrames, Nothing
<1>3. IsSequence(OnTheWay) /\ Len(OnTheWay) = 0 BY <1>1, FramesOnTheWay
<1>4. OnTheWay = <<>> BY <1>3, Void
<1>5. rx \o Pumped = Pumped
  <2> DEFINE p == Pumped
  <2>1. p \in Seq({p[i] : i \in 1 .. Len(p)}) BY <1>2, HoldsItsElements
  <2> HIDE DEF p
  <2>2. <<>> \o p = p BY <2>1
  <2> QED BY <2>2 DEF p
<1> QED BY <1>2, <1>4, <1>5

LEMMA TheReplySettles ==
  ASSUME NEW p, IsSequence(p), Len(p) = 1, NEW name, Settles(p[1], name)
  PROVE  Settler(p, name) = 1 /\ Rest(p, 1) = <<>> /\ ~Foreign(p)
<1> DEFINE hits == {i \in 1 .. Len(p) : Settles(p[i], name)}
<1>1. hits = {1} OBVIOUS
<1>2. Settler(p, name) = 1
  <2>1. Settler(p, name) = IF hits = {} THEN 0 ELSE CHOOSE i \in hits : \A j \in hits : i <= j
    BY DEF Settler
  <2> HIDE DEF hits
  <2> QED BY <1>1, <2>1
<1>3. IsSequence(Rest(p, 1)) /\ Len(Rest(p, 1)) = 0 BY RestFrames
<1>4. p[1].cmd = 3 BY DEF Settles, IsReply
<1>5. ~Foreign(p) BY <1>4 DEF Foreign
<1> QED BY <1>2, <1>3, <1>5, Void

----------------------------------------------------------------------------
(* The invariant: a clean session                                          *)

\* The reply on its way comes in time, and it is the one that is waited for.
Fast ==
  /\ Len(air) = 1 /\ IsReply(air[1].frame)
  /\ air[1].due <= left /\ air[1].due <= TIMEOUT_REPLY
Answers(r, f) ==
  LET x == decode_cmd3(f.data)
  IN  /\ x.sub = SUB[r.name] /\ Told(r, x.arg)
      /\ IF r.name \in {"COMMIT_CAL", "SET_ID"} THEN x.arg = did ELSE mid = did
Declined == Fast /\ decode_cmd3(air[1].frame.data).sub = SUB.NAK /\ Hopeless
InFlight ==
  \/ cmd.op = "scan" /\ air = <<>> /\ mid = did
  \/ Declined
  \/ Fast /\ Answers(Head(todo), air[1].frame) /\ Opened(Len(got) + 1)

CleanInv ==
  Calm =>
    /\ gate = "write" /\ inbox = <<>> /\ rx = <<>> /\ ~unsafe /\ TruthTold
    /\ phase = "listen" => lock = "locked"
    /\ phase # "listen" => armed
    /\ phase = "quiet" => cmd.op = "scan"
    /\ phase # "wait" \/ req # NONE => air = <<>> /\ mid = did
    /\ phase = "send" \/ req # NONE => Opened(Len(got))
    /\ phase = "wait" /\ req = NONE => InFlight

\* What a tick of the waiting brings in a clean session.
WaitedInVain ==
  /\ cmd.op = "scan" /\ air = <<>> /\ mid = did /\ air' = <<>> /\ mid' = mid
  /\ phase' \in {"wait", "quiet"}
WaitedOn ==
  /\ Fast /\ air[1].due # 1 /\ Len(air') = 1 /\ air'[1].frame = air[1].frame
  /\ air'[1].due = air[1].due - 1 /\ left' = left - 1 /\ phase' = "wait"
  /\ UNCHANGED <<todo, got, mid>> /\ deadline' = Ticked
Heard ==
  /\ Fast /\ air[1].due = 1 /\ air' = <<>>
  /\ Answers(Head(todo), air[1].frame) /\ Opened(Len(got) + 1)
  /\ \E a, l : a = decode_cmd3(air[1].frame.data).arg /\ Reply(a, l)
NakHeard == Declined /\ cmd.op = "set_id" /\ End("nak") /\ UNCHANGED got
CleanWait ==
  /\ inbox' = <<>> /\ rx' = <<>> /\ ~unsafe' /\ req' = NONE
  /\ UNCHANGED <<cmd, armed, did, lock, staged, index, stored, running, snap, gate, trouble>>
  /\ run' = IF run > 0 THEN run - 1 ELSE run

LEMMA CalmWaits ==
  ASSUME Base, CleanInv, Calm, Wait
  PROVE  CleanWait /\ (WaitedInVain \/ WaitedOn \/ Heard \/ NakHeard)
<1> DEFINE frames == rx \o Pumped
           name == Head(todo).name
           n == Settler(frames, name)
<1>0. /\ phase = "wait" /\ req = NONE /\ AirInv /\ left \in Nat
      /\ UNCHANGED <<cmd, armed, did, lock, staged, index, stored, running, snap, gate, trouble>>
      /\ run' = (IF run > 0 THEN run - 1 ELSE run) /\ air' = OnTheWay /\ req' = NONE
      /\ inbox' = <<>> /\ unsafe' = _note(Pumped)
      /\ rx' = IF n = 0 THEN <<>> ELSE Rest(frames, n)
  BY DEF Wait, Passes, Base, WInv, IInv, ToolInv
<1>1. inbox = <<>> /\ rx = <<>> /\ ~unsafe /\ InFlight BY <1>0 DEF CleanInv
<1>2. CASE cmd.op = "scan" /\ air = <<>> /\ mid = did
  <2>1. frames = <<>> /\ Pumped = <<>> /\ OnTheWay = <<>> BY <1>0, <1>1, <1>2, EmptyBus
  <2>2. n = 0 /\ ~Foreign(Pumped)
    <3> HIDE DEF frames
    <3> QED BY <2>1, NothingForeign
  <2>3. mid' = mid /\ phase' \in {"wait", "quiet"} BY <1>0, <2>2 DEF Wait
  <2>4. CleanWait BY <1>0, <1>1, <2>2 DEF CleanWait, _note
  <2> QED BY <1>0, <1>2, <2>1, <2>3, <2>4 DEF WaitedInVain
<1>3. CASE Fast /\ air[1].due # 1
  <2>1. /\ frames = <<>> /\ Pumped = <<>> /\ Len(OnTheWay) = 1
        /\ OnTheWay[1].frame = air[1].frame /\ OnTheWay[1].due = air[1].due - 1
    BY <1>0, <1>1, <1>3, ReplyUnderway DEF Fast
  <2>2. n = 0 /\ ~Foreign(Pumped)
    <3> HIDE DEF frames
    <3> QED BY <2>1, NothingForeign
  <2>3. left > 1
    <3>1. air[1].due \in Nat /\ air[1].due >= 1 /\ air[1].due <= left
      BY <1>0, <1>3 DEF AirInv, Fast
    <3> QED BY <1>0, <1>3, <3>1
  <2>4. left' = left - 1 /\ phase' = phase /\ deadline' = Ticked /\ UNCHANGED <<todo, got, mid>>
    BY <2>2, <2>3 DEF Wait
  <2>5. CleanWait BY <1>0, <1>1, <2>2 DEF CleanWait, _note
  <2>6. WaitedOn BY <1>0, <1>3, <2>1, <2>4 DEF WaitedOn
  <2> QED BY <2>5, <2>6
<1>4. CASE /\ Fast /\ air[1].due = 1 /\ Answers(Head(todo), air[1].frame)
           /\ Opened(Len(got) + 1)
  <2>1. /\ OnTheWay = <<>> /\ IsSequence(Pumped) /\ Len(Pumped) = 1 /\ Pumped[1] = air[1].frame
        /\ frames = Pumped BY <1>0, <1>1, <1>4, ReplyLands DEF Fast
  <2> HIDE DEF frames
  <2>2. Settles(Pumped[1], name) BY <1>4, <2>1 DEF Fast, Answers, Settles
  <2>3. n = 1 /\ Rest(Pumped, 1) = <<>> /\ ~Foreign(Pumped)
    BY <2>1, <2>2, TheReplySettles
  <2>4. decode_cmd3(frames[n].data).sub # SUB.NAK
    <3>1. decode_cmd3(frames[n].data).sub = SUB[name] BY <1>4, <2>1, <2>3 DEF Answers
    <3>2. name \in DOMAIN SUB
      <4>1. Head(todo) \in RequestsOf(cmd.op)
        BY <1>0, HeadIsRequest DEF Base, WInv, IInv
      <4> QED BY <4>1 DEF RequestsOf, Request
    <3>3. SUB[name] # SUB.NAK
      <4>1. Wanted(Len(got), Head(todo)) /\ Head(todo).name # "RESET"
        BY <1>0, AllWants DEF Base, WInv, PlaceInv
      <4>2. Mild(Head(todo)) \/ SUB[name] \in 24 .. 31 BY <4>1, StageNumbers DEF Wanted
      <4> QED BY <4>2, StageNumbers DEF Mild
    <3> QED BY <3>1, <3>3
  <2>5. PICK a, l : a = decode_cmd3(frames[n].data).arg /\ l = window(Head(todo)) - left + 1
    OBVIOUS
  <2>6. Reply(a, l)
    <3>1. n # 0 BY <2>3
    <3> QED BY <2>4, <2>5, <3>1 DEF Wait, frames
  <2>7. a = decode_cmd3(air[1].frame.data).arg BY <2>1, <2>3, <2>5
  <2>8. rx' = <<>> BY <1>0, <2>1, <2>3
  <2>9. CleanWait BY <1>0, <1>1, <2>3, <2>8 DEF CleanWait, _note
  <2>10. Heard BY <1>0, <1>4, <2>1, <2>6, <2>7 DEF Heard
  <2> QED BY <2>9, <2>10
<1>5. CASE Declined /\ air[1].due = 1
  <2>1. /\ OnTheWay = <<>> /\ IsSequence(Pumped) /\ Len(Pumped) = 1 /\ Pumped[1] = air[1].frame
        /\ frames = Pumped BY <1>0, <1>1, <1>5, ReplyLands DEF Declined, Fast
  <2> HIDE DEF frames
  <2>2. Settles(Pumped[1], name) BY <1>5, <2>1 DEF Declined, Fast, Settles
  <2>3. n = 1 /\ Rest(Pumped, 1) = <<>> /\ ~Foreign(Pumped)
    BY <2>1, <2>2, TheReplySettles
  <2>4. decode_cmd3(frames[n].data).sub = SUB.NAK /\ n # 0
    BY <1>5, <2>1, <2>3 DEF Declined
  <2>5. Raise("nak") /\ UNCHANGED got BY <2>4 DEF Wait, frames
  <2>6. cmd.op = "set_id"
    <3>1. Head(todo) \in RequestsOf(cmd.op) BY <1>0, HeadIsRequest DEF Base, WInv, IInv
    <3> QED BY <1>5, <3>1 DEF RequestsOf, Declined, Hopeless
  <2>7. CleanWait
    <3>1. rx' = <<>> BY <1>0, <2>1, <2>3
    <3> QED BY <1>0, <1>1, <2>3, <3>1 DEF CleanWait, _note
  <2> QED BY <1>5, <2>5, <2>6, <2>7 DEF NakHeard, Raise
<1> QED BY <1>1, <1>2, <1>3, <1>4, <1>5 DEF InFlight, Declined

LEMMA SamePage == ASSUME running' = running PROVE FromPage' = FromPage
BY DEF FromPage, inspect_page, fields_ok, from_words, IsPage

LEMMA OpenedSame ==
  ASSUME NEW d, Opened(d), UNCHANGED <<cmd, lock, staged, did, running, snap>>,
         cmd.op = "sample" /\ Starting => Starting'
  PROVE  Opened(d)'
<1>1. /\ Keyed' = Keyed /\ LAST' = LAST /\ Script' = Script /\ cmd' = cmd /\ lock' = lock
      /\ staged' = staged /\ did' = did /\ snap' = snap /\ FromPage' = FromPage
  BY SamePage DEF Keyed, LAST, Script
<1>2. Starting => Starting' BY DEF Starting
<1> QED BY <1>1, <1>2 DEF Opened, LockAt, IdAt, SnapsAt

\* A session begins with a module at rest.
LEMMA OpenedFirst ==
  ASSUME Keyed' => lock' = "locked", NEW d, d = 0
  PROVE  Opened(d)'
<1>1. /\ SN \in Nat /\ SN >= 1 /\ OPEN = SN + 2
  BY Places
<1>2. 0 # SN + 1 /\ (\A m : 0 \notin OPEN .. m) /\ 0 # OPEN /\ ~(0 > OPEN) BY <1>1
<1>3. \A i \in 1 .. 0 : FALSE OBVIOUS
<1> QED BY <1>2, <1>3 DEF Opened, LockAt, IdAt, SnapsAt

LEMMA CleanStart ==
  ASSUME NEW c \in Commands, Start(c)
  PROVE  CleanInv'
<1> SUFFICES ASSUME Calm' PROVE CleanInv' BY DEF CleanInv
<1>1. /\ cmd' = c /\ mid' = c.id /\ got' = <<>> /\ inbox' = <<>> /\ rx' = <<>> /\ ~unsafe'
      /\ phase' = "listen" /\ req' = NONE
      /\ air' = air /\ lock' = lock /\ gate' = gate /\ did' = did
  BY DEF Start, moduleVars
<1>2. c.id = did /\ air = <<>> /\ lock = "locked" /\ gate = "write"
  <2>1. trouble' = {} BY DEF Calm
  <2> QED BY <2>1 DEF Start
<1>3. TruthTold'
  <2>1. Len(got') = 0 BY <1>1
  <2>2. \A i \in 1 .. 0 : FALSE OBVIOUS
  <2> QED BY <2>1, <2>2 DEF TruthTold
<1> QED BY <1>1, <1>2, <1>3 DEF CleanInv

\* A tick of a session in which no reply is due.
LEMMA CleanListen ==
  ASSUME Base, CleanInv, Listen
  PROVE  CleanInv'
<1> SUFFICES ASSUME Calm' PROVE CleanInv' BY DEF CleanInv
<1>1. /\ phase = "listen" /\ req = NONE /\ air' = OnTheWay /\ inbox' = <<>> /\ unsafe' = _note(Pumped)
      /\ UNCHANGED <<cmd, got, mid, rx, req, did, lock, staged, snap, gate, trouble>>
      /\ phase' # "end" /\ phase' \in {"listen", "send"} /\ (phase' = "send" => armed' = TRUE)
  BY DEF Listen, Passes, Calm, Proceed, End
<1>2. Calm BY <1>1 DEF Calm
<1>3. /\ gate = "write" /\ inbox = <<>> /\ rx = <<>> /\ ~unsafe /\ TruthTold /\ lock = "locked"
      /\ air = <<>> /\ mid = did BY <1>1, <1>2 DEF CleanInv
<1>4. Pumped = <<>> /\ OnTheWay = <<>> BY <1>3, EmptyBus DEF Base, WInv, IInv
<1>5. ~unsafe' BY <1>1, <1>3, <1>4, NothingForeign DEF _note
<1>6. got = <<>> /\ Len(got) = 0 BY <1>1 DEF Base, WInv, PlaceInv
<1>7. PICK d : d = 0 OBVIOUS
<1>8. Opened(d)'
  <2>1. lock' = "locked" BY <1>1, <1>3
  <2> QED BY <1>7, <2>1, OpenedFirst
<1>9. Len(got') = d BY <1>1, <1>6, <1>7
<1>10. TruthTold'
  <2>1. \A i \in 1 .. Len(got') : FALSE BY <1>7, <1>9
  <2> QED BY <2>1 DEF TruthTold
<1>11. Opened(Len(got))' BY <1>8, <1>9
<1> QED BY <1>1, <1>3, <1>4, <1>5, <1>10, <1>11 DEF CleanInv

LEMMA CleanTransmit ==
  ASSUME Base, CleanInv, Transmit
  PROVE  CleanInv'
<1> SUFFICES ASSUME Calm' PROVE CleanInv' BY DEF CleanInv
<1>1. /\ phase = "send" /\ inbox' = <<>> /\ armed /\ phase' = "wait"
      /\ UNCHANGED <<cmd, got, mid, rx, armed, unsafe, air, did, running, lock, staged, snap, gate,
                     trouble>>
      /\ todo' = todo /\ req' = Frame(Target(Head(todo)), SUB[Head(todo).name], Argument(Head(todo)))
      /\ Target(Head(todo)) \in 0 .. 31
  BY DEF Transmit, reset_input_buffer, Calm, End, moduleVars
<1>2. Calm BY <1>1 DEF Calm
<1>3. /\ gate = "write" /\ rx = <<>> /\ ~unsafe /\ TruthTold
      /\ air = <<>> /\ mid = did /\ Opened(Len(got)) BY <1>1, <1>2 DEF CleanInv
<1>4. req' # NONE
  <2> DEFINE f == Frame(Target(Head(todo)), SUB[Head(todo).name], Argument(Head(todo)))
  <2>1. f.id \in 0 .. 31 BY <1>1, FrameHead
  <2> HIDE DEF f
  <2>2. f # NONE BY <2>1 DEF NONE
  <2> QED BY <1>1, <2>2 DEF f
<1>5. PICK d : d = Len(got) OBVIOUS
<1>6. Opened(d)' BY <1>1, <1>3, <1>5, OpenedSame DEF Starting
<1>7. Opened(Len(got))' BY <1>1, <1>5, <1>6
<1>8. TruthTold' BY <1>1, <1>3 DEF TruthTold, Script, Told
<1> QED BY <1>1, <1>3, <1>4, <1>7, <1>8 DEF CleanInv

\* A session that has met no trouble may always transmit.
LEMMA CleanSends ==
  ASSUME Base, CleanInv, Calm
  PROVE  ~Withheld
<1> SUFFICES ASSUME Withheld PROVE FALSE OBVIOUS
<1>1. phase = "send" BY DEF Withheld
<1>2. armed /\ ~unsafe /\ mid = did BY <1>1 DEF CleanInv
<1>3. Target(Head(todo)) \in 0 .. 31
  <2>1. Head(todo) \in RequestsOf(cmd.op) BY <1>1, HeadIsRequest DEF Base, WInv, IInv
  <2>2. Head(todo).to \in {SELF} \cup 1 .. 31 BY <2>1 DEF RequestsOf, Request
  <2>3. did \in 1 .. 31 BY DEF Base, HeldInv
  <2> QED BY <1>2, <2>2, <2>3 DEF Target
<1> QED BY <1>2, <1>3 DEF Withheld

LEMMA CleanSleep ==
  ASSUME Base, CleanInv, Sleep
  PROVE  CleanInv'
<1> SUFFICES ASSUME Calm' PROVE CleanInv' BY DEF CleanInv
<1>1. /\ phase \in {"quiet", "sleep"} /\ req = NONE /\ air' = OnTheWay /\ inbox' = Pumped
      /\ UNCHANGED <<cmd, mid, rx, req, did, lock, staged, snap, gate, trouble, armed, unsafe>>
      /\ phase' # "end" BY DEF Sleep, Passes, Calm
<1>2. Calm BY <1>1 DEF Calm
<1>3. /\ gate = "write" /\ inbox = <<>> /\ rx = <<>> /\ ~unsafe /\ TruthTold /\ armed
      /\ air = <<>> /\ mid = did /\ (phase = "quiet" => cmd.op = "scan")
  BY <1>1, <1>2 DEF CleanInv
<1>4. Pumped = <<>> /\ OnTheWay = <<>> BY <1>1, <1>3, EmptyBus DEF Base, WInv, IInv
<1>5. CASE phase = "quiet"
  <2>1. phase' \in {"quiet", "send"} /\ got' = got
    BY <1>1, <1>5 DEF Sleep, Raise, End, Proceed
  <2>2. cmd.op = "scan" /\ cmd' = cmd BY <1>1, <1>3, <1>5
  <2>3. Opened(Len(got))' BY <2>2 DEF Opened, LockAt, IdAt, SnapsAt, Keyed
  <2>4. TruthTold' BY <2>2 DEF TruthTold
  <2> QED BY <1>1, <1>3, <1>4, <2>1, <2>2, <2>3, <2>4 DEF CleanInv
<1>6. CASE phase = "sleep"
  <2>1. phase' \in {"sleep", "send"} /\ got' = <<>>
    BY <1>1, <1>6 DEF Sleep, Raise, End, Proceed
  <2>2. cmd.op = "sample" /\ cmd' = cmd BY <1>1, <1>6 DEF Base, WInv, PlaceInv
  <2>3. PICK d : d = 0 OBVIOUS
  <2>4. Opened(d)'
    <3>1. ~Keyed' BY <2>2 DEF Keyed
    <3> QED BY <2>3, <3>1, OpenedFirst
  <2>5. Opened(Len(got))' BY <2>1, <2>3, <2>4
  <2>6. TruthTold' BY <2>2 DEF TruthTold
  <2> QED BY <1>1, <1>3, <1>4, <2>1, <2>2, <2>5, <2>6 DEF CleanInv
<1> QED BY <1>1, <1>5, <1>6

\* The reply that is heard takes the tool on.
LEMMA HeardClean ==
  ASSUME Base, CleanInv, Calm, Calm', phase = "wait", CleanWait, Heard, armed
  PROVE  CleanInv'
<1>1. PICK a, l : a = decode_cmd3(air[1].frame.data).arg /\ Reply(a, l) BY DEF Heard
<1>2. /\ inbox' = <<>> /\ rx' = <<>> /\ ~unsafe' /\ req' = NONE /\ air' = <<>>
      /\ UNCHANGED <<cmd, armed, did, lock, staged, running, snap, gate, trouble>>
  BY DEF CleanWait, Heard
<1>A. Answers(Head(todo), air[1].frame) /\ Opened(Len(got) + 1) BY DEF Heard
<1>3. gate = "write" /\ TruthTold BY DEF CleanInv
<1>4. got' = Append(got, a) /\ mid' = did /\ Told(Head(todo), a)
  <2>1. got' = Append(got, a) /\ mid' = IF Head(todo).name \in {"COMMIT_CAL", "SET_ID"} THEN a ELSE mid
    BY <1>1 DEF Reply
  <2> QED BY <1>1, <1>A, <2>1 DEF Answers
<1>5. phase' \in {"send", "sleep"} /\ (phase' = "send" => Len(todo) > 1)
  <2>1. CASE Len(todo) > 1 BY <1>1, <2>1 DEF Reply, Proceed
  <2>2. CASE ~(Len(todo) > 1)
    <3>1. phase' = "end" \/ phase' = "sleep" BY <1>1, <2>2 DEF Reply, SampleTurn, End
    <3> QED BY <3>1 DEF Calm
  <2> QED BY <2>1, <2>2
<1>6. /\ IsSequence(got) /\ Len(got') = Len(got) + 1
      /\ \A i \in 1 .. Len(got) : got'[i] = got[i]
      /\ got'[Len(got) + 1] = a BY <1>4, Longer DEF Base, WInv, SnapType
<1>7. TruthTold'
  <2> SUFFICES ASSUME cmd.op \notin {"scan", "sample"}, NEW i \in 1 .. Len(got')
               PROVE  Told(Script[i], got[i])'
    BY <1>2 DEF TruthTold
  <2>1. InStep /\ Scripted /\ cmd \in Commands /\ todo # <<>>
    BY DEF Base, WInv, PlaceInv, Scripted, IInv, ToolInv
  <2>2. Head(todo) = Script[Len(got) + 1] /\ Len(got) \in Nat
    BY <2>1, PlaceInPlan DEF Base, WInv
  <2>3. i \in 1 .. Len(got) \/ i = Len(got) + 1 BY <1>6, <2>2
  <2>4. Told(Script[i], got'[i]) BY <1>3, <1>4, <1>6, <2>2, <2>3 DEF TruthTold
  <2> QED BY <1>2, <2>4 DEF Told, Script
<1>8. PICK d : d = Len(got) + 1 OBVIOUS
<1>9. phase' = "send" => Opened(d)'
  <2> SUFFICES ASSUME phase' = "send" PROVE Opened(d)' OBVIOUS
  <2>1. ~Starting
    <3>1. Len(todo) > 1 BY <1>5
    <3>2. ASSUME Starting PROVE FALSE
      <4>1. Len(todo) = 1 BY <3>2, StartingHead
      <4>2. 1 > 1 BY <3>1, <4>1
      <4> QED BY <4>2
    <3> QED BY <3>2
  <2> QED BY <1>2, <1>8, <1>A, <2>1, OpenedSame
<1>10. phase' = "send" => Opened(Len(got))' BY <1>6, <1>8, <1>9
<1> QED BY <1>2, <1>3, <1>4, <1>5, <1>7, <1>10 DEF CleanInv

LEMMA CleanWaiting ==
  ASSUME Base, CleanInv, Wait
  PROVE  CleanInv'
<1> SUFFICES ASSUME Calm' PROVE CleanInv' BY DEF CleanInv
<1>1. phase = "wait" /\ trouble' = trouble /\ req = NONE BY DEF Wait, Passes
<1>2. Calm BY <1>1 DEF Calm
<1>3. CleanWait /\ (WaitedInVain \/ WaitedOn \/ Heard)
  <2>1. ~NakHeard BY DEF NakHeard, End, Calm
  <2> QED BY <1>2, <2>1, CalmWaits
<1>4. /\ inbox' = <<>> /\ rx' = <<>> /\ ~unsafe' /\ req' = NONE
      /\ UNCHANGED <<cmd, armed, did, lock, staged, stored, running, snap, gate, trouble>>
  BY <1>3 DEF CleanWait
<1>5. gate = "write" /\ TruthTold /\ armed /\ InFlight BY <1>1, <1>2 DEF CleanInv
<1>6. CASE WaitedInVain
  <2>1. cmd.op = "scan" /\ air' = <<>> /\ mid' = did' /\ phase' \in {"wait", "quiet"}
    BY <1>4, <1>6 DEF WaitedInVain
  <2>2. TruthTold' /\ InFlight' BY <1>4, <2>1 DEF TruthTold, InFlight
  <2> QED BY <1>4, <1>5, <2>1, <2>2 DEF CleanInv
<1>7. CASE WaitedOn
  <2>1. /\ Len(air') = 1 /\ air'[1].frame = air[1].frame /\ air'[1].due = air[1].due - 1
        /\ left' = left - 1 /\ phase' = "wait" /\ UNCHANGED <<todo, got, mid>>
        /\ Fast /\ Len(air) = 1 BY <1>7 DEF WaitedOn, Fast
  <2>3. Fast'
    <3>1. air[1].due \in Nat /\ left \in Nat /\ TIMEOUT_REPLY \in Nat
      BY <2>1, Times DEF Base, WInv, IInv, AirInv, ToolInv
    <3> QED BY <2>1, <3>1 DEF Fast
  <2>4. PICK f : f = air[1].frame OBVIOUS
  <2>5. PICK r : r = Head(todo) OBVIOUS
  <2>2. TruthTold' BY <1>4, <1>5, <2>1 DEF TruthTold, Told, Script
  <2>L. CASE Declined
    <3>1. Hopeless' BY <1>4, <2>1, <2>L, SamePage DEF Declined, Hopeless
    <3>2. Declined' BY <2>1, <2>3, <2>L, <3>1 DEF Declined
    <3> QED BY <1>4, <1>5, <2>1, <2>2, <3>2 DEF CleanInv, InFlight
  <2>M. CASE Answers(Head(todo), air[1].frame) /\ Opened(Len(got) + 1)
    <3>1. Answers(r, f)' BY <1>4, <2>1, <2>M, <2>4, <2>5 DEF Answers, Told
    <3>2. Answers(Head(todo), air[1].frame)' BY <2>1, <2>4, <2>5, <3>1
    <3>3. PICK d : d = Len(got) + 1 OBVIOUS
    <3>4. Opened(d)' BY <1>4, <2>1, <2>M, <3>3, OpenedSame DEF Starting
    <3>5. Opened(Len(got) + 1)' BY <2>1, <3>3, <3>4
    <3> QED BY <1>4, <1>5, <2>1, <2>2, <2>3, <3>2, <3>5 DEF CleanInv, InFlight
  <2>N. air # <<>> BY <2>1
  <2> QED BY <1>5, <2>L, <2>M, <2>N DEF InFlight
<1>8. CASE Heard BY <1>1, <1>2, <1>3, <1>5, <1>8, HeardClean
<1> QED BY <1>3, <1>6, <1>7, <1>8

----------------------------------------------------------------------------
(* What an answer of the module does                                       *)

LockDone(r) ==
  /\ Mild(r) => lock' = Disarmed
  /\ r.name = "UNLOCK_1" => lock' = "armed"
  /\ r.name = "UNLOCK_2" => lock' = "factory"
  /\ r.name \in {"STAGE_ADDR", "STAGE_DATA"} => lock' = lock
IdDone(r, v) ==
  /\ IF r.name \in {"COMMIT_CAL", "SET_ID"} THEN v = did' ELSE UNCHANGED <<did, running>>
  /\ cmd.op = "set_id" /\ r.name = "UNLOCK_2" => staged' = Erased
  /\ cmd.op = "set_id" /\ r.name = "SET_ID" => did' = cmd.new_id /\ FromPage'
SnapDone(r) ==
  /\ \A n \in Records : snap'[SUB[n]] \in {snap[SUB[n]], 0, 1}
  /\ r.name \in Records => snap'[SUB[r.name]] # 2
Done(r, v) ==
  /\ v \in Word /\ Told(r, v) /\ AnswerAfter(trouble, SUB[r.name], v)
  /\ gate' = gate /\ Still /\ LockDone(r) /\ IdDone(r, v) /\ SnapDone(r)

LEMMA LockNext ==
  ASSUME NEW d \in Nat, NEW e, e = d + 1, NEW r, Wanted(d, r), LockAt(d), LockDone(r), cmd' = cmd
  PROVE  LockAt(e)'
<1>1. Keyed' = Keyed /\ LAST' = LAST BY DEF Keyed, LAST
<1>2. SUFFICES ASSUME Keyed
               PROVE  /\ e <= SN => lock' = "locked"
                      /\ e = SN + 1 => lock' = "armed"
                      /\ e \in OPEN .. LAST => lock' = "factory" BY <1>1 DEF LockAt
<1>3. /\ SN \in Nat /\ OPEN = SN + 2 /\ STAGED \in Nat /\ STAGED >= OPEN
      /\ LAST \in {OPEN, STAGED} BY Places, SmallPage DEF LAST
<1>4. /\ d <= SN => lock = "locked"
      /\ d \in OPEN .. LAST => lock = "factory" BY <1>2 DEF LockAt
<1>5. CASE Mild(r) /\ (d < SN \/ d > LAST)
  <2>1. d < SN => lock' = "locked" BY <1>3, <1>4, <1>5 DEF LockDone, Disarmed
  <2> QED BY <1>3, <1>5, <2>1
<1>6. CASE d = SN /\ r.name = "UNLOCK_1" BY <1>3, <1>6 DEF LockDone
<1>7. CASE d = SN + 1 /\ r.name = "UNLOCK_2" BY <1>3, <1>7 DEF LockDone
<1>8. CASE cmd.op = "write_page" /\ d \in OPEN .. STAGED - 1 /\ r.name \in {"STAGE_ADDR", "STAGE_DATA"}
  <2>1. LAST = STAGED BY <1>8 DEF LAST
  <2>2. lock' = "factory" BY <1>3, <1>4, <1>8, <2>1 DEF LockDone
  <2> QED BY <1>3, <1>8, <2>1, <2>2
<1>9. CASE d = LAST BY <1>3, <1>9
<1> QED BY <1>2, <1>3, <1>5, <1>6, <1>7, <1>8, <1>9 DEF Wanted, LAST

LEMMA IdNext ==
  ASSUME NEW d \in Nat, NEW e, e = d + 1, NEW r, Wanted(d, r), IdAt(d), NEW v, IdDone(r, v),
         cmd' = cmd
  PROVE  IdAt(e)'
<1>1. SUFFICES ASSUME cmd.op = "set_id"
               PROVE  (e = OPEN => staged' = Erased) /\ (e > OPEN => did' = cmd.new_id /\ FromPage')
  BY DEF IdAt
<1>2. SN \in Nat /\ OPEN = SN + 2 /\ LAST = OPEN /\ Keyed
  BY <1>1, Places DEF LAST, Keyed
<1>3. d > OPEN => did = cmd.new_id /\ FromPage BY <1>1 DEF IdAt
<1>4. CASE Mild(r) /\ (d < SN \/ d > LAST)
  <2>1. r.name \notin {"COMMIT_CAL", "SET_ID"} BY <1>4, SubNumbers DEF Mild
  <2>2. did' = did /\ FromPage' = FromPage BY <2>1, SamePage DEF IdDone
  <2> QED BY <1>2, <1>3, <1>4, <2>2
<1>5. CASE d = SN BY <1>2, <1>5
<1>6. CASE d = SN + 1 /\ r.name = "UNLOCK_2" BY <1>1, <1>2, <1>6 DEF IdDone
<1>7. CASE d = OPEN /\ r.name = "SET_ID" BY <1>1, <1>2, <1>7 DEF IdDone
<1> QED BY <1>1, <1>2, <1>4, <1>5, <1>6, <1>7 DEF Wanted

LEMMA SnapsNext ==
  ASSUME NEW d \in Nat, NEW e, e = d + 1, NEW r, SnapsAt(d), SnapDone(r),
         UNCHANGED <<cmd, todo>>, cmd.op # "scan" /\ ~Starting => r = Script[e]
  PROVE  SnapsAt(e)'
<1>1. Script' = Script /\ Starting' = Starting /\ cmd' = cmd BY DEF Script, Starting
<1>2. SUFFICES ASSUME cmd.op # "scan", ~Starting, NEW i \in 1 .. e, Script[i].name \in Records
               PROVE  snap'[SUB[Script[i].name]] # 2
  BY <1>1 DEF SnapsAt
<1>3. CASE i = e BY <1>2, <1>3 DEF SnapDone
<1>4. CASE i # e
  <2>1. i \in 1 .. d BY <1>4
  <2>2. snap[SUB[Script[i].name]] # 2 BY <1>2, <2>1 DEF SnapsAt
  <2> QED BY <1>2, <2>2 DEF SnapDone
<1> QED BY <1>3, <1>4

\* What is asked next is the next request of the script.
LEMMA NextInScript ==
  ASSUME SInv, WInv, Calm, phase = "wait", cmd.op # "scan", ~Starting
  PROVE  Len(got) \in Nat /\ Head(todo) = Script[Len(got) + 1]
<1>1. IInv /\ SnapType /\ todo # <<>> /\ cmd \in Commands
  BY DEF WInv, IInv, ToolInv, PlaceInv
<1>2. CASE Scripted
  <2>1. InStep BY <1>2 DEF WInv, PlaceInv
  <2> QED BY <1>1, <1>2, <2>1, PlaceInPlan
<1>3. CASE ~Scripted
  <2>1. Reading /\ InStep BY <1>3 DEF Scripted, Reading, Calm, SInv, ReadsInv
  <2> QED BY <1>1, <2>1, NextOfScript
<1> QED BY <1>2, <1>3

\* The answer is on its way, in time.
LEMMA AnswerFlies ==
  ASSUME IInv, air = <<>>, trouble' = {}, phase = "wait", req # NONE, NEW s \in 0 .. 31,
         NEW v \in Word, AnswerAfter(trouble, s, v), Still
  PROVE  /\ Fast' /\ req' = NONE
         /\ decode_cmd3(air'[1].frame.data).sub = s /\ decode_cmd3(air'[1].frame.data).arg = v
<1>1. PICK d \in 1 .. MaxLatency : /\ air' = Append(air, [frame |-> Frame(0, s, v), due |-> d])
                                   /\ trouble' = IF d > TIMEOUT_REPLY THEN trouble \cup {"late"} ELSE trouble
  BY DEF AnswerAfter
<1>2. req' = NONE BY DEF AnswerAfter
<1>3. d <= TIMEOUT_REPLY
  <2>1. ~(d > TIMEOUT_REPLY) BY <1>1
  <2> QED BY <2>1, Times
<1>4. PICK f : f = Frame(0, s, v) OBVIOUS
<1>5. Len(air') = 1 /\ air'[1].frame = f /\ air'[1].due = d BY <1>1, <1>4
<1>6. IsReply(f) /\ decode_cmd3(f.data).sub = s /\ decode_cmd3(f.data).arg = v
  <2>1. PICK i \in 0 .. 31 : i = 0 OBVIOUS
  <2>2. f = Frame(i, s, v) BY <1>4, <2>1
  <2>3. IsReply(f) BY <1>4, ReplyFrame
  <2> HIDE <1>4, <2>1
  <2>4. decode_cmd3(f.data).sub = s /\ decode_cmd3(f.data).arg = v BY <2>2, RequestFrame
  <2> QED BY <2>3, <2>4
<1>7. d <= left /\ left' = left
  <2>1. left = window(Head(todo)) /\ left' = left
    BY DEF IInv, RequestInv, Still, toolVars
  <2>2. window(Head(todo)) \in Nat /\ window(Head(todo)) >= TIMEOUT_REPLY
    BY HeadIsRequest DEF IInv
  <2> QED BY <1>3, <2>1, <2>2, Times
<1>8. Fast' BY <1>3, <1>5, <1>6, <1>7 DEF Fast
<1> QED BY <1>2, <1>5, <1>6, <1>8

LEMMA AnsweredClean ==
  ASSUME Base, CleanInv, Calm, phase = "wait", req # NONE, NEW v, Done(Head(todo), v)
  PROVE  CleanInv'
<1> SUFFICES ASSUME Calm' PROVE CleanInv' BY DEF CleanInv
<1>1. /\ gate = "write" /\ inbox = <<>> /\ rx = <<>> /\ ~unsafe /\ TruthTold /\ armed
      /\ air = <<>> /\ mid = did /\ Opened(Len(got)) /\ IInv /\ WInv /\ SInv
  BY DEF CleanInv, Base, WInv
<1>2. PICK r : r = Head(todo) OBVIOUS
<1>3. /\ v \in Word /\ Told(r, v) /\ AnswerAfter(trouble, SUB[r.name], v)
      /\ gate' = gate /\ Still /\ LockDone(r) /\ IdDone(r, v) /\ SnapDone(r)
  BY <1>2 DEF Done
<1>4. UNCHANGED <<cmd, todo, got, mid, phase, inbox, rx, unsafe, armed>>
  BY <1>3 DEF Still, toolVars, linkVars
<1>5. Len(got) \in Nat /\ Wanted(Len(got), r) BY <1>1, <1>2, AllWants
<1>6. PICK d \in Nat : d = Len(got) BY <1>5
<1>7. PICK e : e = d + 1 OBVIOUS
<1>8. Opened(e)'
  <2>1. LockAt(e)' BY <1>1, <1>3, <1>4, <1>5, <1>6, <1>7, LockNext DEF Opened
  <2>2. IdAt(e)' BY <1>1, <1>3, <1>4, <1>5, <1>6, <1>7, IdNext DEF Opened
  <2>3. cmd.op # "scan" /\ ~Starting => r = Script[e]
    BY <1>1, <1>2, <1>6, <1>7, NextInScript
  <2>4. SnapsAt(e)' BY <1>1, <1>3, <1>4, <1>6, <1>7, <2>3, SnapsNext DEF Opened
  <2> QED BY <2>1, <2>2, <2>4 DEF Opened
<1>9. Opened(Len(got) + 1)' BY <1>4, <1>6, <1>7, <1>8
<1>10. PICK s \in 0 .. 31 : s = SUB[r.name]
  <2>1. r \in RequestsOf(cmd.op) BY <1>1, <1>2, HeadIsRequest DEF IInv
  <2> QED BY <2>1, SubNumbers DEF RequestsOf, Request
<1>11. /\ Fast' /\ req' = NONE
       /\ decode_cmd3(air'[1].frame.data).sub = s /\ decode_cmd3(air'[1].frame.data).arg = v
  BY <1>1, <1>3, <1>10, AnswerFlies DEF Calm
<1>12. PICK f : f = air'[1].frame OBVIOUS
<1>13. Answers(r, f)'
  <2>1. IF r.name \in {"COMMIT_CAL", "SET_ID"} THEN v = did' ELSE mid' = did'
    BY <1>1, <1>3, <1>4 DEF IdDone
  <2>2. Told(r, v)' BY <1>3, <1>4 DEF Told
  <2> QED BY <1>10, <1>11, <1>12, <2>1, <2>2 DEF Answers
<1>14. Answers(Head(todo), air[1].frame)' BY <1>2, <1>4, <1>12, <1>13
<1>15. InFlight' BY <1>9, <1>11, <1>14 DEF InFlight
<1>16. TruthTold' BY <1>1, <1>4 DEF TruthTold, Told, Script
<1> QED BY <1>1, <1>3, <1>4, <1>11, <1>15, <1>16 DEF CleanInv

\* What a calm session has asked for.
LEMMA AskedCalm ==
  ASSUME Base, CleanInv, Calm, phase = "wait", req # NONE
  PROVE  /\ Len(got) \in Nat /\ Wanted(Len(got), Head(todo)) /\ Opened(Len(got))
         /\ Head(todo).name \in DOMAIN SUB /\ Head(todo).name # "RESET"
         /\ request.sub = SUB[Head(todo).name] /\ request.arg = Argument(Head(todo))
         /\ Head(todo).arg # KEYED => request.arg = Head(todo).arg
         /\ request.arg \in Word /\ gate = "write"
         /\ Refusal(request.sub, request.arg) = 0 \/ Hopeless
         /\ cmd.op = "scan" => Head(todo).name = "PING"
<1>1. WInv /\ IInv /\ SInv /\ todo # <<>> /\ gate = "write" /\ TruthTold /\ Opened(Len(got))
  BY DEF Base, WInv, CleanInv, IInv, ToolInv
<1>2. Len(got) \in Nat /\ Wanted(Len(got), Head(todo)) BY <1>1, AllWants
<1>3. Head(todo) \in RequestsOf(cmd.op) BY <1>1, HeadIsRequest DEF IInv
<1>4. Head(todo).name \in DOMAIN SUB /\ (cmd.op = "scan" => Head(todo).name = "PING")
  BY <1>3 DEF RequestsOf, Request
<1>5. /\ request.sub = SUB[Head(todo).name] /\ request.arg = Argument(Head(todo))
      /\ request.arg \in Word /\ Head(todo).name # "RESET"
  BY <1>1 DEF WInv, IInv, RequestInv, AsAsked, PlaceInv, Calm
<1>6. Head(todo).arg # KEYED => request.arg = Head(todo).arg BY <1>5 DEF Argument
<1>7. Refusal(request.sub, request.arg) = 0 \/ Hopeless BY <1>1, CalmIsAccepted
<1> QED BY <1>1, <1>2, <1>4, <1>5, <1>6, <1>7

LEMMA ReadNumbers ==
  /\ SUB.PING = 1 /\ SUB.GET_DEVICE_ID = 4 /\ SUB.GET_SERNUM = 17 /\ SUB.GET_CAL_WORD = 15
  /\ SUB.GET_RUN_WORD = 21 /\ SUB.GET_SAMPLE = 23
  /\ RecordSub = {10, 11, 12, 13, 23}
  /\ \A n \in DOMAIN SUB : SUB[n] = 21 => n = "GET_RUN_WORD"
<1>1. RecordSub = {SUB["GET_ANGLE_RAW"], SUB["GET_ANGLE_COMP"], SUB["GET_LATCHED"],
                   SUB["GET_ERRCNT"], SUB["GET_SAMPLE"]} BY DEF RecordSub, Records
<1> QED BY <1>1 DEF SUB

\* What a subcommand reads.
LEMMA ReadCases ==
  ASSUME NEW s, NEW a
  PROVE  /\ s = 1 => ReadWord(s, a) = PONG
         /\ s = 4 => ReadWord(s, a) = IF FromPage THEN did + 256 ELSE did
         /\ s = 17 => ReadWord(s, a) = Serial[a + 1]
         /\ s = 15 => ReadWord(s, a) = stored[a + 1]
         /\ s = 21 => ReadWord(s, a) = running[a + 1]
         /\ s = 23 /\ a = 0 => ReadWord(s, a) = Status
         /\ s \in RecordSub /\ ~(s = 23 /\ a = 0) => ReadWord(s, a) = snap'[s]
         /\ s \notin RecordSub \cup {1, 4, 15, 17, 21} => ReadWord(s, a) = 0
<1> DEFINE g1 == s = SUB.PING
           g2 == s = SUB.GET_DEVICE_ID
           g3 == s = SUB.GET_SERNUM
           g4 == s = SUB.GET_CAL_WORD
           g5 == s = SUB.GET_RUN_WORD
           g6 == s = SUB.GET_SAMPLE /\ a = 0
           g7 == s \in RecordSub /\ ~(s = SUB.GET_SAMPLE /\ a = 0)
<1>1. /\ s = 1 => g1 /\ ~g2 /\ ~g3 /\ ~g4 /\ ~g5 /\ ~g6 /\ ~g7
      /\ s = 4 => ~g1 /\ g2 /\ ~g3 /\ ~g4 /\ ~g5 /\ ~g6 /\ ~g7
      /\ s = 17 => ~g1 /\ ~g2 /\ g3 /\ ~g4 /\ ~g5 /\ ~g6 /\ ~g7
      /\ s = 15 => ~g1 /\ ~g2 /\ ~g3 /\ g4 /\ ~g5 /\ ~g6 /\ ~g7
      /\ s = 21 => ~g1 /\ ~g2 /\ ~g3 /\ ~g4 /\ g5 /\ ~g6 /\ ~g7
      /\ s = 23 /\ a = 0 => ~g1 /\ ~g2 /\ ~g3 /\ ~g4 /\ ~g5 /\ g6 /\ ~g7
      /\ s \in RecordSub /\ ~(s = 23 /\ a = 0) => ~g1 /\ ~g2 /\ ~g3 /\ ~g4 /\ ~g5 /\ ~g6 /\ g7
      /\ s \notin RecordSub \cup {1, 4, 15, 17, 21} =>
           ~g1 /\ ~g2 /\ ~g3 /\ ~g4 /\ ~g5 /\ ~g6 /\ ~g7 BY ReadNumbers
<1>2. g1 /\ ~g2 /\ ~g3 /\ ~g4 /\ ~g5 /\ ~g6 /\ ~g7 => ReadWord(s, a) = PONG
  BY Zenon DEF ReadWord
<1>3. ~g1 /\ g2 /\ ~g3 /\ ~g4 /\ ~g5 /\ ~g6 /\ ~g7 =>
        ReadWord(s, a) = IF FromPage THEN did + 256 ELSE did BY Zenon DEF ReadWord
<1>4. ~g1 /\ ~g2 /\ g3 /\ ~g4 /\ ~g5 /\ ~g6 /\ ~g7 => ReadWord(s, a) = Serial[a + 1]
  BY Zenon DEF ReadWord
<1>5. ~g1 /\ ~g2 /\ ~g3 /\ g4 /\ ~g5 /\ ~g6 /\ ~g7 => ReadWord(s, a) = stored[a + 1]
  BY Zenon DEF ReadWord
<1>6. ~g1 /\ ~g2 /\ ~g3 /\ ~g4 /\ g5 /\ ~g6 /\ ~g7 => ReadWord(s, a) = running[a + 1]
  BY Zenon DEF ReadWord
<1>7. ~g1 /\ ~g2 /\ ~g3 /\ ~g4 /\ ~g5 /\ g6 /\ ~g7 => ReadWord(s, a) = Status
  BY Zenon DEF ReadWord
<1>8. ~g1 /\ ~g2 /\ ~g3 /\ ~g4 /\ ~g5 /\ ~g6 /\ g7 => ReadWord(s, a) = snap'[s]
  BY Zenon DEF ReadWord
<1>9. ~g1 /\ ~g2 /\ ~g3 /\ ~g4 /\ ~g5 /\ ~g6 /\ ~g7 => ReadWord(s, a) = 0
  BY Zenon DEF ReadWord
<1> HIDE DEF g1, g2, g3, g4, g5, g6, g7
<1> QED BY <1>1, <1>2, <1>3, <1>4, <1>5, <1>6, <1>7, <1>8, <1>9

\* It is a word.
LEMMA ReadIsWord ==
  ASSUME NEW r, Mild(r), NEW s, s = SUB[r.name], NEW a, a = r.arg, HeldInv,
         \A n \in RecordSub : snap'[n] \in 0 .. 2
  PROVE  ReadWord(s, a) \in Word
<1>1. a \in Nat /\ r.name \in DOMAIN SUB BY Ranges DEF Mild
<1>2. CASE s = 1 BY <1>2, ReadCases, SmallWord DEF PONG
<1>3. CASE s = 4
  <2>0. did \in 1 .. 31 BY DEF HeldInv
  <2>1. did \in Nat /\ did <= 31 BY <2>0
  <2>2. did \in Word /\ did + 256 \in Word BY <2>1, SmallWord
  <2> QED BY <1>3, <2>2, ReadCases
<1>4. CASE s = 17
  <2>1. r.name \notin {"CLR_ERRCNT", "SAMPLE_START", "LATCH_SYNC"} BY <1>4 DEF SUB
  <2>2. a <= SN - 1 /\ SN \in Nat BY <1>4, <2>1, Limits, Places DEF Mild
  <2>3. a + 1 \in 1 .. SN BY <1>1, <2>2
  <2>4. Serial[a + 1] \in Word BY <2>3, ModuleAssumption DEF SN
  <2> QED BY <1>4, <2>4, ReadCases
<1>5. CASE s \in {15, 21}
  <2>1. r.name \notin {"CLR_ERRCNT", "SAMPLE_START", "LATCH_SYNC"} BY <1>5 DEF SUB
  <2>2. a <= PAGE_WORDS - 1 BY <1>5, <2>1, Limits DEF Mild
  <2>3. a + 1 \in 1 .. PAGE_WORDS BY <1>1, <2>2, SmallPage
  <2>4. stored[a + 1] \in Word /\ running[a + 1] \in Word BY <2>3 DEF HeldInv
  <2> QED BY <1>5, <2>4, ReadCases
<1>6. CASE s = 23 /\ a = 0
  <2>1. Status \in {0, 1, 2} BY DEF Status
  <2> QED BY <1>6, <2>1, ReadCases, SmallWord
<1>7. CASE s \in RecordSub /\ ~(s = 23 /\ a = 0)
  <2>1. snap'[s] \in Nat /\ snap'[s] <= 65535 BY <1>7
  <2> QED BY <1>7, <2>1, ReadCases, SmallWord
<1>8. CASE s \notin RecordSub \cup {1, 4, 15, 17, 21} BY <1>8, ReadCases, SmallWord
<1> QED BY <1>2, <1>3, <1>4, <1>5, <1>6, <1>7, <1>8

\* The words of the verification are those that were staged.
LEMMA ReadBack ==
  ASSUME Base, Calm, phase = "wait", req # NONE, cmd.op = "write_page",
         Head(todo).name = "GET_CAL_WORD"
  PROVE  stored = cmd.page
<1>1. Len(got) \in Nat /\ Asks(Len(got), Head(todo)) BY WriteAsks DEF Base
<1>2. Len(got) > STAGED
  <2>1. PICK j \in 1 .. PAGE_WORDS : Len(got) = STAGED + j BY <1>1 DEF Asks
  <2> QED BY <2>1, Places
<1>3. Ready(Len(got)) BY DEF Base, StageInv, Writing, Calm
<1> QED BY <1>2, <1>3 DEF Ready

----------------------------------------------------------------------------
(* The module keeps a session clean                                        *)

\* Who is answered while nothing is wrong is a session that waits.
LEMMA CalmBefore ==
  ASSUME Base, Calm', Answered
  PROVE  Calm /\ phase = "wait" /\ req # NONE /\ Still /\ Served
<1>1. Served /\ Still /\ trouble \subseteq trouble' /\ req # NONE
  BY DEF Answered, Served
<1>2. Calm BY <1>1 DEF Calm, Still, toolVars
<1>3. phase = "wait" BY <1>1, <1>2 DEF Base, WInv, IInv, RequestInv, Calm
<1> QED BY <1>1, <1>2, <1>3

\* The reads.
LEMMA ReadDone ==
  ASSUME Base, CleanInv, Calm, phase = "wait", req # NONE, Still, Read
  PROVE  \E v : Done(Head(todo), v)
<1>1. PICK s, a : s = request.sub /\ a = request.arg OBVIOUS
<1>2. PICK r, d : r = Head(todo) /\ d = Len(got) OBVIOUS
<1>3. /\ d \in Nat /\ Wanted(d, r) /\ Opened(d) /\ r.name \in DOMAIN SUB /\ s = SUB[r.name]
      /\ (r.arg # KEYED => a = r.arg) /\ a \in Word
      /\ (cmd.op = "scan" => r.name = "PING") BY <1>1, <1>2, AskedCalm
<1>4. /\ s < 22 \/ s = 23
      /\ snap' = IF s \in RecordSub /\ a = 0 THEN [snap EXCEPT ![s] = reading] ELSE snap
      /\ AnswerAfter(trouble, s, ReadWord(s, a)) /\ lock' = Disarmed
      /\ did' = did /\ running' = running /\ gate' = gate BY <1>1, StageNumbers DEF Read, Answer, Captures
<1>5. Mild(r)
  <2>1. r.name \notin {"UNLOCK_1", "UNLOCK_2", "STAGE_ADDR", "STAGE_DATA", "COMMIT_CAL", "SET_ID",
                       "LOCK", "RESET"} BY <1>3, <1>4, StageNumbers
  <2> QED BY <1>3, <2>1 DEF Wanted
<1>6. a = r.arg
  <2>1. r.arg # KEYED BY <1>5, Ranges DEF Mild, KEYED
  <2> QED BY <1>3, <2>1
<1>7. snap \in [RecordSub -> 0 .. 2] /\ reading \in {0, 1} /\ HeldInv
  BY DEF Base, WInv, SnapType
<1>8. SnapDone(r)
  <2>1. \A n \in Records : SUB[n] \in RecordSub BY DEF RecordSub
  <2>2. \A n \in Records : snap'[SUB[n]] \in {snap[SUB[n]], 0, 1} BY <1>4, <1>7, <2>1
  <2>3. ASSUME r.name \in Records PROVE snap'[s] # 2
    <3>1. s \in RecordSub BY <1>3, <2>1, <2>3
    <3>2. CASE a = 0
      <4>1. snap'[s] = reading BY <1>4, <1>7, <3>1, <3>2
      <4> QED BY <1>7, <4>1
    <3>3. CASE a # 0
      <4>1. PICK j \in 1 .. d : Script[j].name = r.name
        <5>1. ~(r.name = "UNLOCK_1") /\ ~(r.name = "UNLOCK_2") /\ ~(r.name = "STAGE_ADDR")
              /\ ~(r.name = "STAGE_DATA") /\ ~(r.name = "COMMIT_CAL") /\ ~(r.name = "SET_ID")
              /\ ~(r.name = "LOCK") /\ ~(r.name = "RESET") BY <2>3 DEF Records
        <5>2. Earlier(d, r.name) BY <1>3, <1>6, <2>3, <3>3, <5>1 DEF Wanted
        <5> QED BY <5>2 DEF Earlier
      <4>2. cmd.op # "scan" /\ ~Starting BY <1>2, <1>3, <2>3, StartingHead DEF Records
      <4>3. snap[SUB[r.name]] # 2 BY <1>3, <2>3, <4>1, <4>2 DEF Opened, SnapsAt
      <4> QED BY <1>3, <1>4, <3>3, <4>3
    <3> QED BY <3>2, <3>3
  <2> QED BY <1>3, <2>2, <2>3 DEF SnapDone
<1>9. PICK v : v = ReadWord(s, a) OBVIOUS
<1>10. v \in Word
  <2>1. \A n \in RecordSub : snap'[n] \in 0 .. 2 BY <1>4, <1>7
  <2> QED BY <1>3, <1>5, <1>6, <1>7, <1>9, <2>1, ReadIsWord
<1>11. Told(r, v)
  <2>1. r.name = "GET_SERNUM" => v = Serial[r.arg + 1]
    BY <1>3, <1>6, <1>9, ReadCases, ReadNumbers
  <2>2. ASSUME cmd.op = "write_page", r.name = "GET_CAL_WORD" PROVE v = cmd.page[r.arg + 1]
    <3>1. stored = cmd.page BY <1>2, <2>2, ReadBack
    <3>2. v = stored[a + 1] BY <1>3, <1>9, <2>2, ReadCases, ReadNumbers
    <3> QED BY <1>6, <3>1, <3>2
  <2> QED BY <2>1, <2>2 DEF Told
<1>12. LockDone(r) /\ IdDone(r, v)
  <2>1. r.name \notin {"UNLOCK_1", "UNLOCK_2", "STAGE_ADDR", "STAGE_DATA", "COMMIT_CAL", "SET_ID"}
    BY <1>3, <1>4, StageNumbers
  <2> QED BY <1>4, <2>1 DEF LockDone, IdDone
<1>13. Done(r, v) BY <1>3, <1>4, <1>8, <1>9, <1>10, <1>11, <1>12 DEF Done
<1> QED BY <1>2, <1>13

LEMMA OtherNames ==
  /\ \A n \in DOMAIN SUB : SUB[n] = 25 => n = "UNLOCK_2"
  /\ \A n \in DOMAIN SUB : SUB[n] = 27 => n = "STAGE_DATA"
BY DEF SUB

\* The others.
Effects(s, v) ==
  /\ s = 22 => lock' = Disarmed
  /\ s = 24 => lock' = "armed"
  /\ s = 25 => lock' = "factory"
  /\ s \in {26, 27} => lock' = lock
  /\ IF s \in {28, 29} THEN v = did' ELSE UNCHANGED <<did, running>>
  /\ cmd.op = "set_id" /\ s = 25 => staged' = Erased
  /\ cmd.op = "set_id" /\ s = 29 => did' = cmd.new_id /\ FromPage'

LEMMA OtherDone ==
  ASSUME NEW r, r.name \in DOMAIN SUB, NEW s, s = SUB[r.name], s \in {22, 24, 25, 26, 27, 28, 29, 30},
         snap' = snap, NEW v \in Word, Still, gate' = gate, AnswerAfter(trouble, s, v),
         Effects(s, v)
  PROVE  Done(r, v)
<1>1. /\ r.name = "UNLOCK_1" => s = 24
      /\ r.name = "UNLOCK_2" => s = 25
      /\ r.name = "STAGE_ADDR" => s = 26
      /\ r.name = "STAGE_DATA" => s = 27
      /\ r.name = "COMMIT_CAL" <=> s = 28
      /\ r.name = "SET_ID" <=> s = 29
      /\ r.name # "GET_SERNUM" /\ r.name # "GET_CAL_WORD" BY StageNumbers, SubNumbers
<1>2. LockDone(r)
  <2>1. Mild(r) => s = 22 BY DEF Mild
  <2> QED BY <1>1, <2>1 DEF LockDone, Effects
<1>3. IdDone(r, v) BY <1>1 DEF IdDone, Effects
<1>4. r.name \notin Records BY ReadNumbers DEF RecordSub
<1>5. SnapDone(r) BY <1>4 DEF SnapDone
<1>6. Told(r, v) BY <1>1 DEF Told
<1> QED BY <1>2, <1>3, <1>5, <1>6 DEF Done

LEMMA StartOrUnlockDone ==
  ASSUME Base, CleanInv, Calm, phase = "wait", req # NONE, Still, SampleStart \/ Unlock1 \/ Unlock2
  PROVE  \E v : Done(Head(todo), v)
<1>1. PICK r, s, d : r = Head(todo) /\ s = request.sub /\ d = Len(got) OBVIOUS
<1>2. /\ d \in Nat /\ Wanted(d, r) /\ Opened(d) /\ r.name \in DOMAIN SUB /\ s = SUB[r.name]
  BY <1>1, AskedCalm
<1>3. PICK v \in Word : v = 0 BY SmallWord
<1>4. CASE SampleStart
  <2>1. /\ s = 22 /\ AnswerAfter(trouble, s, v) /\ lock' = Disarmed
        /\ did' = did /\ running' = running /\ gate' = gate /\ snap' = snap
    BY <1>1, <1>3, <1>4, StageNumbers DEF SampleStart, ServedAs, Answer
  <2>2. Effects(s, v) BY <2>1 DEF Effects
  <2>3. Done(r, v) BY <1>2, <2>1, <2>2, OtherDone
  <2> QED BY <1>1, <2>3
<1>5. CASE Unlock1
  <2>1. /\ s = 24 /\ AnswerAfter(trouble, s, v) /\ lock' = "armed"
        /\ did' = did /\ running' = running /\ gate' = gate /\ snap' = snap
    BY <1>1, <1>3, <1>5, StageNumbers DEF Unlock1, ServedAs, Answer
  <2>2. Effects(s, v) BY <2>1 DEF Effects
  <2>3. Done(r, v) BY <1>2, <2>1, <2>2, OtherDone
  <2> QED BY <1>1, <2>3
<1>6. CASE Unlock2
  <2>1. /\ s = 25 /\ AnswerAfter(trouble, s, v) /\ lock' = "factory"
        /\ (lock # "factory" => staged' = Erased)
        /\ did' = did /\ running' = running /\ gate' = gate /\ snap' = snap
    BY <1>1, <1>3, <1>6, StageNumbers DEF Unlock2, ServedAs, Answer
  <2>2. lock # "factory"
    <3>1. Keyed /\ d = SN + 1
      <4>1. ~Mild(r) BY <1>2, <2>1 DEF Mild
      <4>2. r.name = "UNLOCK_2" BY <1>2, <2>1, OtherNames
      <4> QED BY <1>2, <4>1, <4>2 DEF Wanted
    <3>2. lock = "armed" BY <1>2, <3>1 DEF Opened, LockAt
    <3> QED BY <3>2
  <2>3. Effects(s, v) BY <2>1, <2>2 DEF Effects
  <2>4. Done(r, v) BY <1>2, <2>1, <2>3, OtherDone
  <2> QED BY <1>1, <2>4
<1> QED BY <1>4, <1>5, <1>6

LEMMA StageOrLockDone ==
  ASSUME Base, CleanInv, Calm, phase = "wait", req # NONE, Still, StageAddr \/ StageData \/ Lock
  PROVE  \E v : Done(Head(todo), v)
<1>1. PICK r, s : r = Head(todo) /\ s = request.sub OBVIOUS
<1>2. r.name \in DOMAIN SUB /\ s = SUB[r.name] /\ request.arg \in Word
  BY <1>1, AskedCalm
<1>3. CASE StageAddr
  <2>1. PICK v : v = request.arg % 256 OBVIOUS
  <2>2. /\ s = 26 /\ AnswerAfter(trouble, s, v) /\ lock' = lock
        /\ did' = did /\ running' = running /\ gate' = gate /\ snap' = snap
    BY <1>1, <1>3, <2>1, StageNumbers DEF StageAddr, ServedAs, Answer
  <2>3. v \in Word
    <3>1. PICK a \in Nat : a = request.arg BY <1>2, Ranges
    <3>2. v \in Nat /\ v <= 255 BY <2>1, <3>1
    <3> QED BY <3>2, SmallWord
  <2>4. Effects(s, v) BY <2>2 DEF Effects
  <2>5. Done(r, v) BY <1>2, <2>2, <2>3, <2>4, OtherDone
  <2> QED BY <1>1, <2>5
<1>4. CASE StageData
  <2>1. PICK v : v = index + 1 OBVIOUS
  <2>2. /\ s = 27 /\ AnswerAfter(trouble, s, v) /\ lock' = lock
        /\ did' = did /\ running' = running /\ gate' = gate /\ snap' = snap
    BY <1>1, <1>4, <2>1, StageNumbers DEF StageData, ServedAs, Answer
  <2>3. v \in Word
    <3>1. ~(index >= PAGE_WORDS) /\ index \in Nat
      <4>1. cmd.op = "write_page" /\ Len(got) \in OPEN .. STAGED - 1
        <5>1. Wanted(Len(got), r) BY <1>1, AskedCalm
        <5>2. r.name = "STAGE_DATA" BY <1>2, <2>2, OtherNames
        <5>3. ~Mild(r) BY <1>2, <2>2 DEF Mild
        <5> QED BY <5>1, <5>2, <5>3 DEF Wanted
      <4>2. Len(got) \in OPEN .. STAGED /\ LAST = STAGED BY <4>1, Places DEF LAST
      <4>3. lock = "factory"
        <5>1. Keyed BY <4>1 DEF Keyed
        <5> QED BY <4>2, <5>1, AskedCalm DEF Opened, LockAt
      <4>4. Ready(Len(got)) BY <4>1 DEF Base, StageInv, Writing, Calm
      <4>5. index = (Len(got) - OPEN) \div 2 BY <4>2, <4>3, <4>4 DEF Ready
      <4>6. PICK d : d = Len(got) - OPEN OBVIOUS
      <4>7. d \in Nat /\ d < 2 * PAGE_WORDS
        <5>1. PICK g : g = Len(got) OBVIOUS
        <5>2. g \in OPEN .. STAGED - 1 /\ d = g - OPEN BY <4>1, <4>6, <5>1
        <5> QED BY <5>2, Places, SmallPage
      <4>8. index = d \div 2 BY <4>5, <4>6
      <4> QED BY <4>7, <4>8, SmallPage
    <3>2. v \in Nat /\ v <= 65535 BY <2>1, <3>1, SmallPage
    <3> QED BY <3>2, SmallWord
  <2>4. Effects(s, v) BY <2>2 DEF Effects
  <2>5. Done(r, v) BY <1>2, <2>2, <2>3, <2>4, OtherDone
  <2> QED BY <1>1, <2>5
<1>5. CASE Lock
  <2>1. PICK v \in Word : v = 0 BY SmallWord
  <2>2. /\ s = 30 /\ AnswerAfter(trouble, s, v)
        /\ did' = did /\ running' = running /\ gate' = gate /\ snap' = snap
    BY <1>1, <1>5, <2>1, StageNumbers DEF Lock, ServedAs, Answer
  <2>3. Effects(s, v) BY <2>2 DEF Effects
  <2>4. Done(r, v) BY <1>2, <2>1, <2>2, <2>3, OtherDone
  <2> QED BY <1>1, <2>4
<1> QED BY <1>3, <1>4, <1>5

LEMMA ProgramDone ==
  ASSUME Base, CleanInv, Calm, phase = "wait", req # NONE, Still, Program
  PROVE  \E v : Done(Head(todo), v)
<1>1. PICK r, s, p : r = Head(todo) /\ s = request.sub /\ p = NewPage OBVIOUS
<1>2. PICK v : v = from_words(p).device_id OBVIOUS
<1>3. r.name \in DOMAIN SUB /\ s = SUB[r.name] /\ Wanted(Len(got), r)
      /\ (r.arg # KEYED => request.arg = r.arg) BY <1>1, AskedCalm
<1>4. /\ Writes /\ did' = v /\ AnswerAfter(trouble, s, v) /\ gate' = gate /\ snap' = snap
  BY <1>1, <1>2 DEF Program, Answer
<1>5. s \in {28, 29} BY <1>1, <1>4, StageNumbers DEF Writes, ServedAs
<1>6. v \in 1 .. 31 /\ (s = 29 => v = request.arg % 256)
  BY <1>1, <1>2, <1>4, WritesSound DEF Base
<1>7. v \in Word BY <1>6, SmallWord
<1>8. ASSUME cmd.op = "set_id", s = 29 PROVE v = cmd.new_id
  <2>1. cmd.new_id \in ID_MIN .. ID_MAX /\ r.arg = Tagged(TAG.SET_ID, cmd.new_id)
    <3>1. ~Mild(r) BY <1>3, <1>8 DEF Mild
    <3>2. r.name = "SET_ID" BY <1>3, <1>8, SubNumbers
    <3> QED BY <1>3, <3>1, <3>2 DEF Wanted
  <2>2. PICK i \in 0 .. 255 : i = cmd.new_id BY <2>1, IdNumbers
  <2>3. r.arg = i + 94 * 256 /\ r.arg # KEYED
    <3>1. TAG.SET_ID = 94 BY DEF TAG
    <3>2. r.arg = Tagged(94, i) BY <2>1, <2>2, <3>1
    <3>3. r.arg = i + 94 * 256 BY <3>2 DEF Tagged
    <3> QED BY <3>3 DEF KEYED
  <2>4. request.arg % 256 = i BY <1>3, <2>3, Split8
  <2> QED BY <1>6, <1>8, <2>2, <2>4
<1>9. Done(r, v)
  <2>1. FromPage'
    <3>1. running' = p /\ inspect_page(p) = "valid"
      BY <1>1, <1>4, WritesSound DEF Base, Program
    <3> QED BY <3>1 DEF FromPage, inspect_page, fields_ok, from_words, IsPage
  <2>2. Effects(s, v) BY <1>4, <1>5, <1>8, <2>1 DEF Effects
  <2> QED BY <1>3, <1>4, <1>5, <1>7, <2>2, OtherDone
<1> QED BY <1>1, <1>9

----------------------------------------------------------------------------
(* Every step keeps a session clean                                        *)

\* The refusal of a SET_ID is on its way.
LEMMA RejectedClean ==
  ASSUME Base, CleanInv, Calm, Calm', phase = "wait", req # NONE, Still, Rejected
  PROVE  CleanInv'
<1>1. /\ gate = "write" /\ inbox = <<>> /\ rx = <<>> /\ ~unsafe /\ TruthTold /\ armed
      /\ air = <<>> /\ Hopeless /\ IInv /\ request.sub \in 0 .. 31
  BY AskedCalm DEF Rejected, CleanInv, Base, WInv, IInv, RequestInv
<1>2. UNCHANGED <<cmd, todo, got, phase, inbox, rx, unsafe, armed, running, stored, gate>>
  BY DEF Rejected, Still, toolVars, linkVars
<1>3. PICK v : v = Tagged(request.sub, Refusal(request.sub, request.arg)) OBVIOUS
<1>4. v \in Word BY <1>1, <1>3, NakWord
<1>5. PICK s \in 0 .. 31 : s = SUB.NAK BY StageNumbers
<1>6. AnswerAfter(trouble, s, v) BY <1>3, <1>5 DEF Rejected, Answer
<1>7. Fast' /\ req' = NONE /\ decode_cmd3(air'[1].frame.data).sub = s
  BY <1>1, <1>4, <1>6, AnswerFlies DEF Calm
<1>8. Declined' BY <1>1, <1>2, <1>5, <1>7, SamePage DEF Declined, Hopeless
<1>9. TruthTold' BY <1>1, <1>2 DEF TruthTold, Told, Script
<1> QED BY <1>1, <1>2, <1>7, <1>8, <1>9 DEF CleanInv, InFlight

LEMMA CleanAnswers ==
  ASSUME Base, CleanInv,
         Rejected \/ Read \/ SampleStart \/ Unlock1 \/ Unlock2 \/ StageAddr \/ StageData
           \/ Program \/ ProgramFails \/ Lock
  PROVE  CleanInv'
<1> SUFFICES ASSUME Calm' PROVE CleanInv' BY DEF CleanInv
<1>1. Calm /\ phase = "wait" /\ req # NONE /\ Still BY ModuleAnswers, CalmBefore
<1>2. CASE Rejected BY <1>1, <1>2, RejectedClean
<1>3. CASE ProgramFails
  <2>1. PICK met, sub, arg : met = trouble \cup {"write"} /\ AnswerAfter(met, sub, arg)
    BY <1>3 DEF ProgramFails
  <2>2. met \subseteq trouble' BY <2>1 DEF AnswerAfter
  <2> QED BY <2>1, <2>2 DEF Calm
<1>4. CASE Read \/ SampleStart \/ Unlock1 \/ Unlock2 \/ StageAddr \/ StageData \/ Program \/ Lock
  <2>1. PICK v : Done(Head(todo), v)
    BY <1>1, <1>4, ReadDone, StartOrUnlockDone, StageOrLockDone, ProgramDone
  <2> QED BY <1>1, <2>1, AnsweredClean
<1> QED BY <1>2, <1>3, <1>4

\* Only a scan pings an ID that nobody has.
LEMMA OnlyScansUnheard ==
  ASSUME Base, CleanInv, Calm, Unheard
  PROVE  cmd.op = "scan" /\ phase = "wait"
<1>1. req # NONE /\ (gate = "shut" \/ req.id # did) BY DEF Unheard
<1>2. phase = "wait" /\ req.id = Target(Head(todo))
  BY <1>1 DEF Base, WInv, IInv, RequestInv, AsAsked, Calm
<1>3. gate = "write" /\ mid = did BY <1>1, <1>2 DEF CleanInv
<1>4. Head(todo) \in RequestsOf(cmd.op) BY <1>2, HeadIsRequest DEF Base, WInv, IInv
<1>5. cmd.op # "scan" => Target(Head(todo)) = did BY <1>3, <1>4 DEF RequestsOf, Target
<1> QED BY <1>1, <1>2, <1>3, <1>5

\* A RESET is the last a command sends.
LEMMA ResetIsLast ==
  ASSUME Base, Reset
  PROVE  ~Calm
<1> SUFFICES ASSUME Calm PROVE FALSE OBVIOUS
<1>1. req # NONE /\ request.sub = SUB.RESET BY DEF Reset, ServedAs, Served
<1>2. phase = "wait" /\ request.sub = SUB[Head(todo).name] /\ Head(todo).name # "RESET"
  BY <1>1 DEF Base, WInv, IInv, RequestInv, AsAsked, PlaceInv, Calm
<1>3. Head(todo).name \in DOMAIN SUB
  <2>1. Head(todo) \in RequestsOf(cmd.op) BY <1>2, HeadIsRequest DEF Base, WInv, IInv
  <2> QED BY <2>1 DEF RequestsOf, Request
<1> QED BY <1>1, <1>2, <1>3, SubNumbers

LEMMA FaultsTrouble == ASSUME Faults PROVE trouble' # {}
<1>1. \A kind, other : Fault({kind}) \/ Fault({kind, other}) => trouble' # {} BY DEF Fault
<1> QED BY <1>1 DEF Faults, Restart, Cascade, LoseRequest, GarbleRequest, LoseReply, GarbleReply

\* Nobody answers the PING of another ID.
LEMMA CleanUnheard ==
  ASSUME Base, CleanInv, Unheard
  PROVE  CleanInv'
<1> SUFFICES ASSUME Calm' PROVE CleanInv' BY DEF CleanInv
<1>1. /\ req # NONE /\ (gate = "shut" \/ req.id # did) /\ req' = NONE /\ Still
      /\ UNCHANGED <<air, did, lock, staged, snap, gate, trouble>>
  BY DEF Unheard, Still, moduleVars
<1>2. /\ UNCHANGED <<cmd, phase, todo, got, mid, left, armed, unsafe, rx, inbox>>
  BY <1>1 DEF Still, toolVars, linkVars
<1>3. Calm BY <1>1, <1>2 DEF Calm
<1>4. cmd.op = "scan" /\ phase = "wait" BY <1>3, OnlyScansUnheard
<1>5. /\ gate = "write" /\ inbox = <<>> /\ rx = <<>> /\ ~unsafe /\ TruthTold /\ armed
      /\ air = <<>> /\ mid = did BY <1>1, <1>3, <1>4 DEF CleanInv
<1>6. InFlight' /\ TruthTold' BY <1>1, <1>2, <1>4, <1>5 DEF InFlight, TruthTold
<1> QED BY <1>1, <1>2, <1>4, <1>5, <1>6 DEF CleanInv

LEMMA CleanStutter ==
  ASSUME CleanInv, UNCHANGED vars
  PROVE  CleanInv'
<1>1. Keyed' = Keyed /\ LAST' = LAST /\ Script' = Script /\ Starting' = Starting
  BY DEF vars, toolVars, Keyed, LAST, Script, Starting
<1>2. FromPage' = FromPage /\ \A d : Opened(d)' <=> Opened(d)
  BY <1>1, SamePage DEF vars, toolVars, moduleVars, Opened, LockAt, IdAt, SnapsAt
<1>3. Fast' = Fast /\ TruthTold' = TruthTold /\ Calm' = Calm
  BY <1>1 DEF vars, toolVars, Fast, TruthTold, Told, Calm
<1>4. \A r, f : Answers(r, f)' <=> Answers(r, f)
  BY DEF vars, toolVars, moduleVars, Answers, Told
<1>5. UNCHANGED <<gate, inbox, rx, unsafe, phase, lock, armed, cmd, req, air, mid, did, got, todo,
                  stored>>
  BY DEF vars, toolVars, linkVars, moduleVars
<1>6. PICK d, e : d = Len(got) /\ e = Len(got) + 1 OBVIOUS
<1>7. PICK r, f : r = Head(todo) /\ f = air[1].frame OBVIOUS
<1>8. /\ Opened(Len(got))' = Opened(Len(got)) /\ Opened(Len(got) + 1)' = Opened(Len(got) + 1)
      /\ Answers(Head(todo), air[1].frame)' = Answers(Head(todo), air[1].frame)
  BY <1>2, <1>4, <1>5, <1>6, <1>7
<1>9. InFlight' = InFlight BY <1>2, <1>3, <1>5, <1>8 DEF InFlight, Declined, Hopeless
<1> QED BY <1>3, <1>5, <1>8, <1>9 DEF CleanInv

LEMMA CleanStep2 ==
  ASSUME Base, CleanInv, [Next]_vars
  PROVE  CleanInv'
<1>1. CASE \E c \in Commands : Start(c) BY <1>1, CleanStart
<1>2. CASE Tool
  <2>1. Withheld => CleanInv' BY DEF Withheld, End, CleanInv, Calm
  <2> QED BY <1>2, <2>1, CleanListen, CleanTransmit, CleanWaiting, CleanSleep DEF Tool
<1>3. CASE Idle \/ FactoryExpires
  BY <1>3 DEF Idle, FactoryExpires, toolVars, CleanInv, Calm
<1>4. CASE GateOpens
  <2>1. phase' = phase /\ trouble' = trouble /\ gate # "write"
    BY <1>4 DEF GateOpens, toolVars
  <2> QED BY <2>1 DEF CleanInv, Calm
<1>5. CASE Unheard BY <1>5, CleanUnheard
<1>6. CASE Reset
  <2>1. phase' = phase /\ trouble' = trouble /\ ~Calm
    BY <1>6, ResetIsLast DEF Reset, toolVars
  <2> QED BY <2>1 DEF CleanInv, Calm
<1>7. CASE Rejected \/ Read \/ SampleStart \/ Unlock1 \/ Unlock2 \/ StageAddr \/ StageData
             \/ Program \/ ProgramFails \/ Lock BY <1>7, CleanAnswers
<1>8. CASE Faults
  <2>1. trouble' # {} BY <1>8, FaultsTrouble
  <2> QED BY <2>1 DEF CleanInv, Calm
<1>9. CASE UNCHANGED vars BY <1>9, CleanStutter
<1> QED BY <1>1, <1>2, <1>3, <1>4, <1>5, <1>6, <1>7, <1>8, <1>9 DEF Next, Module

----------------------------------------------------------------------------
(* The invariant: a clean sample is in time                                *)

Long == FIELDS["GET_SAMPLE"]
Room(k) == k * TIMEOUT_REPLY                     \* the time k replies may take

Running ==
  /\ run \in 0 .. RUN /\ deadline \in Nat
  /\ run > 0 => deadline >= run + Room(Long)
BeforeAsking == Len(got) = 0 \/ got[1] = 1 \/ deadline > Room(Len(todo))
BeforeReply ==
  \/ Len(got) > 0 /\ got[1] = 1
  \/ Len(got) = 0 /\ decode_cmd3(air[1].frame.data).arg = 1
  \/ deadline > Room(Len(todo) - 1) + air[1].due
Timed ==
  Calm /\ cmd.op = "sample" /\ phase # "listen" =>
    /\ Starting /\ phase = "wait" /\ req = NONE => run \in 0 .. RUN
    /\ ~Starting =>
         /\ Running
         /\ phase = "send" \/ req # NONE => BeforeAsking
         /\ phase = "wait" /\ req = NONE => BeforeReply

LEMMA Rooms ==
  /\ TIMEOUT_REPLY \in Nat /\ TIMEOUT_REPLY >= 1
  /\ \A k \in Nat : Room(k) \in Nat /\ Room(k + 1) = Room(k) + TIMEOUT_REPLY
  /\ Room(0) = 0
  /\ Long \in Nat /\ Long >= 1 /\ Len(sample_poll) = Long
  /\ DEADLINE \in Nat /\ RUN \in Nat /\ DEADLINE >= RUN + Room(Long)
<1>1. TIMEOUT_REPLY \in Nat /\ TIMEOUT_REPLY >= 1 /\ DEADLINE \in Nat /\ RUN \in Nat
  BY Times, TimeAssumption
<1>2. Long \in Nat /\ Long >= 1 /\ Len(sample_poll) = Long
  BY Fielded, PollReads DEF Records, Long
<1>3. \A k \in Nat : Room(k) \in Nat /\ Room(k + 1) = Room(k) + TIMEOUT_REPLY
  BY <1>1 DEF Room
<1>4. Room(0) = 0 /\ DEADLINE >= RUN + Room(Long)
  BY <1>1, DeadlineAssumption DEF Room, Long
<1> QED BY <1>1, <1>2, <1>3, <1>4

LEMMA RunningTicks ==
  ASSUME Running, run' = (IF run > 0 THEN run - 1 ELSE run), deadline' = Ticked
  PROVE  Running'
<1>1. Room(Long) \in Nat BY Rooms
<1>2. run \in 0 .. RUN /\ deadline \in Nat /\ (run > 0 => deadline >= run + Room(Long))
  BY DEF Running
<1>3. RUN \in Nat BY Rooms
<1>4. run' \in 0 .. RUN /\ deadline' \in Nat BY <1>2, <1>3 DEF Ticked
<1>5. run' > 0 => deadline' >= run' + Room(Long) BY <1>1, <1>2, <1>3 DEF Ticked
<1> QED BY <1>4, <1>5 DEF Running, Room, Long

\* Where a sample stands when it polls.
LEMMA Polling ==
  ASSUME Base, Calm, cmd.op = "sample", ~Starting, phase = "wait"
  PROVE  /\ Head(todo).name = "GET_SAMPLE" /\ Head(todo).arg = Len(got)
         /\ Len(got) \in Nat /\ Len(todo) \in Nat /\ Len(todo) >= 1 /\ Len(got) + Len(todo) = Long
<1>1. IInv /\ SnapType /\ Reading /\ InStep /\ todo # <<>> /\ Script = sample_poll
  BY DEF Base, WInv, SInv, ReadsInv, Reading, Calm, IInv, ToolInv, Script
<1>2. /\ Len(got) \in Nat /\ Len(todo) \in Nat /\ Len(todo) >= 1
      /\ Len(Script) = Len(got) + Len(todo)
      /\ Len(got) + 1 \in 1 .. Len(Script) /\ Head(todo) = Script[Len(got) + 1]
  BY <1>1, NextOfScript
<1>3. PICK d \in Nat : d = Len(got) BY <1>2
<1>4. Head(todo) = sample_poll[d + 1] /\ d + 1 \in 1 .. Len(sample_poll)
  BY <1>1, <1>2, <1>3
<1>5. sample_poll[d + 1].name = "GET_SAMPLE" /\ sample_poll[d + 1].arg = d + 1 - 1
  BY <1>4, PollReads
<1>6. d + 1 - 1 = d BY <1>2, <1>3
<1>7. Head(todo).name = "GET_SAMPLE" /\ Head(todo).arg = Len(got)
  BY <1>3, <1>4, <1>5, <1>6
<1>8. Len(got) + Len(todo) = Long BY <1>1, <1>2, Rooms
<1> QED BY <1>2, <1>7, <1>8

\* The words of a sample.
LEMMA SampleWord ==
  ASSUME SnapType', NEW a, NEW s, s = 23
  PROVE  ReadWord(s, a) \in Word
<1>1. s \in RecordSub BY ReadNumbers
<1>2. CASE a = 0
  <2>1. Status \in {0, 1, 2} BY DEF Status
  <2> QED BY <1>2, <2>1, ReadCases, SmallWord
<1>3. CASE a # 0
  <2>1. snap'[s] \in Nat /\ snap'[s] <= 65535
    <3>1. snap'[s] \in 0 .. 2 BY <1>1 DEF SnapType
    <3> QED BY <3>1
  <2> QED BY <1>1, <1>3, <2>1, ReadCases, SmallWord
<1> QED BY <1>2, <1>3

LEMMA DueAfter ==
  ASSUME NEW met, NEW s, NEW v, AnswerAfter(met, s, v), air = <<>>
  PROVE  air'[1].due \in Nat
<1>1. PICK d \in 1 .. MaxLatency : air' = Append(air, [frame |-> Frame(0, s, v), due |-> d])
  BY DEF AnswerAfter
<1>2. air'[1] = [frame |-> Frame(0, s, v), due |-> d] BY <1>1
<1> QED BY <1>2, Times

\* A start says only that there is a run; a poll finds it over, or leaves room for the others.
LEMMA AnsweredTimed ==
  ASSUME Base, CleanInv, Timed,
         Rejected \/ Read \/ SampleStart \/ Unlock1 \/ Unlock2 \/ StageAddr \/ StageData
           \/ Program \/ ProgramFails \/ Lock
  PROVE  Timed'
<1> SUFFICES ASSUME Calm', cmd'.op = "sample" PROVE Timed' BY DEF Timed
<1>1. Calm /\ phase = "wait" /\ req # NONE /\ Still BY ModuleAnswers, CalmBefore
<1>2. /\ UNCHANGED <<cmd, todo, got, deadline, phase, left>> /\ cmd.op = "sample"
      /\ Starting' = Starting /\ IInv BY <1>1 DEF Still, toolVars, Starting, Base, WInv
<1>3. PICK s, a : s = request.sub /\ a = request.arg OBVIOUS
<1>4. /\ s = SUB[Head(todo).name] /\ Refusal(request.sub, request.arg) = 0
      /\ (Head(todo).arg # KEYED => a = Head(todo).arg) /\ air = <<>>
  <2>1. Head(todo).name # "SET_ID"
    BY <1>1, <1>2, HeadIsRequest DEF IInv, RequestsOf
  <2> QED BY <1>1, <1>3, <2>1, AskedCalm DEF CleanInv, Hopeless
<1>5. CASE Starting
  <2>1. s = 22 BY <1>4, <1>5, StartingHead, StageNumbers
  <2>2. SampleStart
    <3>1. ~Rejected BY <1>4 DEF Rejected
    <3>2. ~(Read \/ Unlock1 \/ Unlock2 \/ StageAddr \/ StageData \/ Lock)
      BY <1>3, <2>1, StageNumbers
      DEF Read, Unlock1, Unlock2, StageAddr, StageData, Lock, ServedAs
    <3>3. ~Program /\ ~ProgramFails
      BY <1>3, <2>1, StageNumbers DEF Program, ProgramFails, Writes, ServedAs
    <3> QED BY <3>1, <3>2, <3>3
  <2>3. run' \in 0 .. RUN BY <2>2, Rooms DEF SampleStart
  <2> QED BY <1>2, <1>5, <2>3 DEF Timed
<1>6. CASE ~Starting
  <2>1. /\ Head(todo).name = "GET_SAMPLE" /\ Head(todo).arg = Len(got)
        /\ Len(got) \in Nat /\ Len(todo) \in Nat /\ Len(todo) >= 1 /\ Len(got) + Len(todo) = Long
    BY <1>1, <1>2, <1>6, Polling
  <2>2. s = 23 /\ a = Len(got) BY <1>4, <2>1, StageNumbers DEF KEYED
  <2>3. Read
    <3>1. ~Rejected BY <1>4 DEF Rejected
    <3>2. ~(SampleStart \/ Unlock1 \/ Unlock2 \/ StageAddr \/ StageData \/ Lock)
      BY <1>3, <2>2, StageNumbers
      DEF SampleStart, Unlock1, Unlock2, StageAddr, StageData, Lock, ServedAs
    <3>3. ~Program /\ ~ProgramFails
      BY <1>3, <2>2, StageNumbers DEF Program, ProgramFails, Writes, ServedAs
    <3> QED BY <3>1, <3>2, <3>3
  <2>4. Running /\ BeforeAsking BY <1>1, <1>2, <1>6 DEF Timed
  <2>5. run' = run /\ Running'
    <3>1. run' = run BY <2>3 DEF Read
    <3> QED BY <1>2, <2>4, <3>1 DEF Running
  <2>6. PICK v : v = ReadWord(s, a) OBVIOUS
  <2>7. AnswerAfter(trouble, s, v) BY <1>3, <2>3, <2>6 DEF Read, Answer
  <2>8. v \in Word
    <3>1. SnapType' BY <2>3, SnapshotTypes DEF Base, WInv, Next, Module
    <3> QED BY <2>2, <2>6, <3>1, SampleWord
  <2>9. trouble' = {} /\ s \in 0 .. 31 BY <2>2 DEF Calm
  <2>10. Fast' /\ decode_cmd3(air'[1].frame.data).arg = v
    BY <1>1, <1>2, <1>4, <2>7, <2>8, <2>9, AnswerFlies
  <2>11. PICK e : e = air'[1].due OBVIOUS
  <2>12. e \in Nat /\ e <= TIMEOUT_REPLY
    <3>1. Len(air') = 1 /\ e <= TIMEOUT_REPLY BY <2>10, <2>11 DEF Fast
    <3>2. e \in Nat BY <2>7, <2>11, <3>1, <1>4, DueAfter
    <3> QED BY <3>1, <3>2
  <2>13. PICK k \in Nat : k = Len(todo) - 1 BY <2>1
  <2>14. Len(todo) = k + 1 /\ Len(todo') = k + 1 /\ Len(todo') - 1 = k
    BY <1>2, <2>1, <2>13
  <2>15. /\ Room(k) \in Nat /\ Room(k + 1) = Room(k) + TIMEOUT_REPLY
         /\ TIMEOUT_REPLY \in Nat /\ TIMEOUT_REPLY >= 1 BY Rooms
  <2>16. (Len(got) > 0 /\ got[1] = 1) \/ (Len(got) = 0 /\ v = 1) \/ deadline > Room(k) + e
    <3>1. CASE Len(got) = 0
      <4>1. v = Status BY <2>2, <2>6, <3>1, ReadCases
      <4>2. CASE run = 0
        <5>1. v = 1 BY <4>1, <4>2 DEF Status
        <5> QED BY <3>1, <5>1
      <4>3. CASE run # 0
        <5>1. run > 0 /\ run \in Nat /\ deadline \in Nat /\ deadline >= run + Room(Long)
          BY <2>4, <4>3, Rooms DEF Running
        <5>2. Room(Long) = Room(k) + TIMEOUT_REPLY BY <2>1, <2>14, <2>15, <3>1
        <5> QED BY <2>12, <2>15, <5>1, <5>2
      <4> QED BY <4>2, <4>3
    <3>2. CASE Len(got) # 0
      <4>1. got[1] = 1 \/ deadline > Room(k + 1) BY <2>4, <2>14, <3>2 DEF BeforeAsking
      <4>2. Len(got) > 0 BY <2>1, <3>2
      <4>3. deadline \in Nat BY <2>4 DEF Running
      <4> QED BY <2>12, <2>15, <4>1, <4>2, <4>3
    <3> QED BY <3>1, <3>2
  <2>17. BeforeReply' BY <1>2, <2>10, <2>11, <2>14, <2>16 DEF BeforeReply, Room
  <2>18. req' = NONE BY <2>7 DEF AnswerAfter
  <2> QED BY <1>1, <1>2, <1>6, <2>5, <2>17, <2>18 DEF Timed
<1> QED BY <1>5, <1>6

LEMMA TimedListen ==
  ASSUME Base, Listen
  PROVE  Timed'
<1> SUFFICES ASSUME Calm', cmd'.op = "sample", phase' # "listen" PROVE Timed'
  BY DEF Timed
<1>1. phase = "listen" /\ phase' = "send" /\ todo' = todo /\ cmd' = cmd
  BY DEF Listen, Proceed, End, Calm
<1>2. todo = Plan(cmd) BY <1>1 DEF Base, WInv, IInv, ToolInv
<1>3. Starting' BY <1>1, <1>2 DEF Starting
<1> QED BY <1>1, <1>3 DEF Timed

LEMMA TimedTransmit ==
  ASSUME Base, Timed, Transmit
  PROVE  Timed'
<1> SUFFICES ASSUME Calm', cmd'.op = "sample" PROVE Timed' BY DEF Timed
<1>1. /\ phase = "send" /\ phase' = "wait"
      /\ UNCHANGED <<cmd, got, todo, deadline, run, trouble>>
  BY DEF Transmit, End, Calm, moduleVars
<1>2. Starting' = Starting /\ Calm /\ cmd.op = "sample" BY <1>1 DEF Starting, Calm
<1>3. req' # NONE
  <2> DEFINE f == Frame(Target(Head(todo)), SUB[Head(todo).name], Argument(Head(todo)))
  <2>1. f.id = Target(Head(todo)) /\ req' = f /\ Target(Head(todo)) \in 0 .. 31
    BY FrameHead DEF Transmit
  <2> QED BY <2>1 DEF NONE
<1>4. ASSUME ~Starting PROVE Running' /\ BeforeAsking'
  <2>1. Running /\ BeforeAsking BY <1>1, <1>2, <1>4 DEF Timed
  <2> QED BY <1>1, <2>1 DEF Running, BeforeAsking, Room, Long
<1> QED BY <1>1, <1>2, <1>3, <1>4 DEF Timed

LEMMA TimedSleep ==
  ASSUME Base, CleanInv, Timed, Sleep
  PROVE  Timed'
<1> SUFFICES ASSUME Calm', cmd'.op = "sample" PROVE Timed' BY DEF Timed
<1>1. /\ phase \in {"quiet", "sleep"} /\ cmd' = cmd /\ trouble' = trouble /\ req' = req /\ req = NONE
      /\ run' = IF run > 0 THEN run - 1 ELSE run BY DEF Sleep, Passes
<1>2. Calm /\ cmd.op = "sample" BY <1>1 DEF Calm
<1>3. phase = "sleep" BY <1>1, <1>2 DEF CleanInv
<1>4. phase' \in {"sleep", "send"} /\ todo' = todo /\ got' = <<>> /\ deadline' = Ticked
  BY <1>3 DEF Sleep, Proceed
<1>5. Starting' = Starting BY <1>1, <1>4 DEF Starting
<1>6. ASSUME ~Starting PROVE Running' /\ BeforeAsking'
  <2>1. Running BY <1>2, <1>3, <1>6 DEF Timed
  <2>2. Len(got') = 0 BY <1>4
  <2> QED BY <1>1, <1>4, <2>1, <2>2, RunningTicks DEF BeforeAsking
<1> QED BY <1>1, <1>4, <1>5, <1>6 DEF Timed

LEMMA TimedWaiting ==
  ASSUME Base, CleanInv, Timed, Wait
  PROVE  Timed'
<1> SUFFICES ASSUME Calm', cmd'.op = "sample" PROVE Timed' BY DEF Timed
<1>1. /\ phase = "wait" /\ req = NONE /\ cmd' = cmd /\ trouble' = trouble
  BY DEF Wait, Passes
<1>2. Calm /\ cmd.op = "sample" BY <1>1 DEF Calm
<1>3. CleanWait /\ (WaitedInVain \/ WaitedOn \/ Heard) BY <1>2, CalmWaits DEF NakHeard
<1>4. run' = (IF run > 0 THEN run - 1 ELSE run) /\ req' = NONE BY <1>3 DEF CleanWait
<1>5. ~WaitedInVain BY <1>2 DEF WaitedInVain
<1>6. air[1].due \in Nat /\ air[1].due >= 1
  <2>1. Len(air) = 1 BY <1>3, <1>5 DEF WaitedOn, Heard, Fast
  <2> QED BY <2>1 DEF Base, WInv, IInv, AirInv
<1>7. Starting => run \in 0 .. RUN BY <1>1, <1>2 DEF Timed
<1>8. ~Starting => Running /\ BeforeReply BY <1>1, <1>2 DEF Timed
<1>9. RUN \in Nat /\ \A k \in Nat : Room(k) \in Nat BY Rooms
<1>10. Starting => run' \in 0 .. RUN BY <1>4, <1>7, <1>9
<1>11. CASE WaitedOn
  <2>1. /\ phase' = "wait" /\ UNCHANGED <<todo, got>> /\ deadline' = Ticked
        /\ air'[1].frame = air[1].frame /\ air'[1].due = air[1].due - 1
    BY <1>11 DEF WaitedOn
  <2>2. Starting' = Starting BY <1>1, <2>1 DEF Starting
  <2>3. ASSUME ~Starting PROVE Running' /\ BeforeReply'
    <3>1. Running' BY <1>4, <1>8, <2>1, <2>3, RunningTicks
    <3>2. PICK k \in Nat : k = Len(todo) - 1 BY <1>1, <1>2, <2>3, Polling
    <3>3. deadline > Room(k) + air[1].due => deadline' > Room(k) + air'[1].due
      <4>1. deadline \in Nat /\ Room(k) \in Nat BY <1>8, <1>9, <2>3 DEF Running
      <4> QED BY <1>6, <2>1, <4>1 DEF Ticked
    <3>4. BeforeReply' BY <1>8, <2>1, <2>3, <3>2, <3>3 DEF BeforeReply, Room
    <3> QED BY <3>1, <3>4
  <2> QED BY <1>4, <1>10, <2>1, <2>2, <2>3 DEF Timed
<1>12. CASE Heard
  <2>1. PICK a, l : a = decode_cmd3(air[1].frame.data).arg /\ Reply(a, l)
    BY <1>12 DEF Heard
  <2>2. air[1].due = 1 /\ got' = Append(got, a) BY <1>12, <2>1 DEF Heard, Reply
  <2>3. CASE Starting
    <3>1. Len(todo) = 1 /\ Head(todo).name = "SAMPLE_START" BY <2>3, StartingHead
    <3>2. SampleTurn(got') /\ phase' # "end" BY <1>2, <2>1, <2>2, <3>1 DEF Reply, Calm
    <3>3. phase' = "sleep" /\ deadline' = DEADLINE BY <3>1, <3>2 DEF SampleTurn
    <3>4. Running'
      <4>1. DEADLINE \in Nat /\ DEADLINE >= RUN + Room(Long) /\ Room(Long) \in Nat
        BY Rooms
      <4>2. run' \in 0 .. RUN /\ deadline' \in Nat /\ deadline' >= run' + Room(Long)
        BY <1>9, <1>10, <2>3, <3>3, <4>1
      <4> QED BY <4>2 DEF Running, Room, Long
    <3> QED BY <1>4, <3>3, <3>4 DEF Timed
  <2>4. CASE ~Starting
    <3>1. /\ Head(todo).name = "GET_SAMPLE" /\ Len(got) \in Nat /\ Len(todo) \in Nat
          /\ Len(todo) >= 1 BY <1>1, <1>2, <2>4, Polling
    <3>2. CASE Len(todo) > 1
      <4>1. phase' = "send" /\ todo' = Tail(todo) /\ deadline' = Ticked
        BY <2>1, <3>2 DEF Reply, Proceed
      <4>2. Running' BY <1>4, <1>8, <2>4, <4>1, RunningTicks
      <4>3. PICK k \in Nat : k = Len(todo) - 1 BY <3>1
      <4>4. Len(todo') = k BY <3>1, <3>2, <4>1, <4>3, TailLeft DEF Base, WInv, IInv
      <4>5. /\ IsSequence(got) /\ Len(got') = Len(got) + 1
            /\ \A i \in 1 .. Len(got) : got'[i] = got[i]
            /\ got'[Len(got) + 1] = a BY <2>2, Longer DEF Base, WInv, SnapType
      <4>6. Room(k) \in Nat /\ deadline \in Nat BY <1>8, <1>9, <2>4 DEF Running
      <4>7. got'[1] = 1 \/ deadline' > Room(k)
        <5>1. CASE Len(got) > 0 /\ got[1] = 1
          <6>1. got'[1] = got[1] BY <3>1, <4>5, <5>1
          <6> QED BY <5>1, <6>1
        <5>2. CASE Len(got) = 0 /\ a = 1
          <6>1. Len(got) + 1 = 1 BY <5>2
          <6>2. got'[1] = a BY <4>5, <6>1
          <6> QED BY <5>2, <6>2
        <5>3. CASE deadline > Room(k) + 1 BY <4>1, <4>6, <5>3 DEF Ticked
        <5> QED BY <1>8, <2>1, <2>2, <2>4, <4>3, <5>1, <5>2, <5>3 DEF BeforeReply
      <4>8. BeforeAsking' BY <4>4, <4>7 DEF BeforeAsking, Room
      <4> QED BY <1>4, <4>1, <4>2, <4>8 DEF Timed
    <3>3. CASE ~(Len(todo) > 1)
      <4>1. SampleTurn(got') /\ phase' # "end" BY <1>2, <2>1, <2>2, <3>3 DEF Reply, Calm
      <4>2. phase' = "sleep" /\ deadline' = Ticked BY <3>1, <4>1 DEF SampleTurn, End
      <4>3. Running' BY <1>4, <1>8, <2>4, <4>2, RunningTicks
      <4> QED BY <1>4, <4>2, <4>3 DEF Timed
    <3> QED BY <3>2, <3>3
  <2> QED BY <2>3, <2>4
<1> QED BY <1>3, <1>5, <1>11, <1>12

\* A step that leaves the sample as it is.
LEMMA TimedSame ==
  ASSUME Timed, UNCHANGED <<cmd, phase, todo, got, deadline, req, air, run, trouble>>
  PROVE  Timed'
<1>1. /\ Calm' = Calm /\ Starting' = Starting /\ Running' = Running
      /\ BeforeAsking' = BeforeAsking /\ BeforeReply' = BeforeReply
  BY DEF Calm, Starting, Running, BeforeAsking, BeforeReply, Room, Long
<1> QED BY <1>1 DEF Timed

LEMMA TimedStep ==
  ASSUME Base, CleanInv, Timed, [Next]_vars
  PROVE  Timed'
<1>1. CASE \E c \in Commands : Start(c) BY <1>1 DEF Start, Timed
<1>2. CASE Tool
  <2>1. Withheld => Timed' BY DEF Withheld, End, Timed, Calm
  <2> QED BY <1>2, <2>1, TimedListen, TimedTransmit, TimedWaiting, TimedSleep DEF Tool
<1>3. CASE Idle \/ FactoryExpires
  BY <1>3 DEF Idle, FactoryExpires, toolVars, Timed, Calm
<1>4. CASE GateOpens BY <1>4, TimedSame DEF GateOpens, toolVars
<1>5. CASE Unheard
  <2> SUFFICES ASSUME Calm' PROVE Timed' BY DEF Timed
  <2>1. Calm BY <1>5 DEF Unheard, toolVars, Calm
  <2>2. cmd.op = "scan" /\ cmd' = cmd
    BY <1>5, <2>1, OnlyScansUnheard DEF Unheard, toolVars
  <2> QED BY <2>2 DEF Timed
<1>6. CASE Reset
  <2>1. phase' = phase /\ trouble' = trouble /\ ~Calm
    BY <1>6, ResetIsLast DEF Reset, toolVars
  <2> QED BY <2>1 DEF Timed, Calm
<1>7. CASE Rejected \/ Read \/ SampleStart \/ Unlock1 \/ Unlock2 \/ StageAddr \/ StageData
             \/ Program \/ ProgramFails \/ Lock BY <1>7, AnsweredTimed
<1>8. CASE Faults
  <2>1. trouble' # {} BY <1>8, FaultsTrouble
  <2> QED BY <2>1 DEF Timed, Calm
<1>9. CASE UNCHANGED vars BY <1>9, TimedSame DEF vars, toolVars, moduleVars
<1> QED BY <1>1, <1>2, <1>3, <1>4, <1>5, <1>6, <1>7, <1>8, <1>9 DEF Next, Module

----------------------------------------------------------------------------
(* A clean session ends as it should                                       *)

Renames == cmd.op = "set_id" /\ cmd.new_id \in ID_MIN .. ID_MAX
WritesPage == cmd.op = "write_page" /\ ~Refused(cmd)
Succeeds ==
  /\ WritesPage => outcome = "verified"
  /\ Renames => IF FromPage THEN outcome = "ok" /\ did = cmd.new_id /\ mid = did
                ELSE outcome = "nak" /\ stored # Erased
  /\ Refused(cmd) => outcome = "refused" /\ got = <<>>
  /\ ~WritesPage /\ ~Renames /\ ~Refused(cmd) => outcome \in {"ok", "refused"}
EndInv ==
  phase = "end" /\ trouble = {} =>
    /\ req # NONE => cmd.op = "reset"
    /\ outcome # "none" => Succeeds

LEMMA SameCommand ==
  ASSUME cmd' = cmd
  PROVE  Renames' = Renames /\ WritesPage' = WritesPage /\ Refused(cmd)' = Refused(cmd)
BY DEF Renames, WritesPage, Refused, inspect_page, from_words, IsPage

\* What is neither a page nor an ID ends with ok or refused.
LEMMA EndsPlainly ==
  ASSUME cmd' = cmd, ~WritesPage, ~Renames, ~Refused(cmd), outcome' \in {"ok", "refused"}
  PROVE  Succeeds'
BY SameCommand DEF Succeeds

\* The words read back are the page.
LEMMA ReadBackWhole ==
  ASSUME NEW c, c.page \in [1 .. PAGE_WORDS -> Word], NEW r, IsSequence(r),
         Len(r) = STAGED + PAGE_WORDS + 2,
         \A i \in 1 .. PAGE_WORDS : r[STAGED + 1 + i] = c.page[i]
  PROVE  back(r) = c.page
<1>1. STAGED \in Nat /\ PAGE_WORDS \in Nat /\ PAGE_WORDS >= 4 BY Places, SmallPage
<1> DEFINE n == Len(r) - 1
           q == SubSeq(r, 1, n)
<1>2. n \in Nat /\ n = STAGED + 1 + PAGE_WORDS BY <1>1
<1>3. q = [i \in 1 .. n |-> r[i]] /\ Len(q) = n BY <1>2
<1>4. back(r) = SubSeq(q, n - PAGE_WORDS + 1, n) BY <1>3 DEF back, LastReplies
<1> HIDE DEF n, q
<1>5. n - PAGE_WORDS + 1 = STAGED + 2 BY <1>1, <1>2
<1>6. SubSeq(q, STAGED + 2, n) = [i \in 1 .. PAGE_WORDS |-> q[STAGED + 1 + i]]
  <2>1. SubSeq(q, STAGED + 2, n) = [i \in 1 .. (1 + n - (STAGED + 2)) |-> q[(STAGED + 2) + i - 1]]
    <3>1. n \in Nat /\ STAGED + 2 \in Nat BY <1>1, <1>2
    <3> QED BY <3>1
  <2>2. 1 + n - (STAGED + 2) = PAGE_WORDS BY <1>1, <1>2
  <2>3. \A i \in 1 .. PAGE_WORDS : (STAGED + 2) + i - 1 = STAGED + 1 + i BY <1>1
  <2> QED BY <2>1, <2>2, <2>3
<1>7. \A i \in 1 .. PAGE_WORDS : q[STAGED + 1 + i] = c.page[i]
  <2> SUFFICES ASSUME NEW i \in 1 .. PAGE_WORDS PROVE q[STAGED + 1 + i] = c.page[i]
    OBVIOUS
  <2>1. STAGED + 1 + i \in 1 .. n BY <1>1, <1>2
  <2>2. q[STAGED + 1 + i] = r[STAGED + 1 + i] BY <1>3, <2>1
  <2> QED BY <2>2
<1>8. c.page = [i \in 1 .. PAGE_WORDS |-> c.page[i]] OBVIOUS
<1>9. [i \in 1 .. PAGE_WORDS |-> q[STAGED + 1 + i]] = [i \in 1 .. PAGE_WORDS |-> c.page[i]]
  BY <1>7
<1> QED BY <1>4, <1>5, <1>6, <1>8, <1>9

\* A whole record whose first word says so is over.
LEMMA WholeSample ==
  ASSUME NEW r, IsSequence(r), Len(r) = Long, Long \in Nat, Long >= 1, r[1] = 1
  PROVE  SampleOver(LastReplies(r, FIELDS["GET_SAMPLE"]))
<1> DEFINE q == LastReplies(r, FIELDS["GET_SAMPLE"])
<1>1. Len(r) - FIELDS["GET_SAMPLE"] + 1 = 1 BY DEF Long
<1>2. q = SubSeq(r, 1, Len(r)) BY <1>1 DEF LastReplies
<1>3. SubSeq(r, 1, Len(r)) = [i \in 1 .. Len(r) |-> r[i]]
  <2>1. Len(r) \in Nat OBVIOUS
  <2> QED BY <2>1
<1>4. q[1] = r[1] BY <1>2, <1>3
<1> HIDE DEF q
<1>5. q[1] % 2 = 1 BY <1>4
<1>6. decode_sample(q).done
  <2>1. decode_sample(q).done = (q[1] % 2 = 1)
    <3> DEFINE f1 == q[1] % 2 = 1
               f2 == (q[1] \div 2) % 2 = 1
               f3 == (q[1] \div 4) % 2 = 1
               f4 == (q[1] \div 256) % 16
               f5 == signed32(q[5], q[6])
               f6 == q[7] + q[8] * 65536
               f7 == angle21(q[9], q[10])
               f8 == signed32(q[11], q[12])
    <3>1. decode_sample(q) = [done |-> f1, aborted |-> f2, saturated |-> f3, e |-> f4,
                              n_pass |-> q[2], n_fail |-> q[3], r0 |-> q[4], sum_d |-> f5,
                              sum_d2 |-> f6, c0 |-> f7, sum_c |-> f8]
      BY SMT DEF decode_sample
    <3> HIDE DEF f1, f2, f3, f4, f5, f6, f7, f8
    <3>2. decode_sample(q).done = f1 BY <3>1
    <3> QED BY <3>2 DEF f1
  <2> QED BY <1>5, <2>1
<1> QED BY <1>6 DEF SampleOver, q

LEMMA ListenEnds ==
  ASSUME Base, CleanInv, Listen
  PROVE  EndInv'
<1> SUFFICES ASSUME phase' = "end", trouble' = {} PROVE EndInv' BY DEF EndInv
<1>1. /\ phase = "listen" /\ req = NONE /\ req' = NONE /\ unsafe' = _note(Pumped)
      /\ UNCHANGED <<cmd, got, mid, did, trouble>> BY DEF Listen, Passes
<1>2. Calm BY <1>1 DEF Calm
<1>3. air = <<>> /\ inbox = <<>> /\ rx = <<>> BY <1>1, <1>2 DEF CleanInv
<1>4. Pumped = <<>> BY <1>3, EmptyBus DEF Base, WInv, IInv
<1>5. got = <<>> /\ todo = Plan(cmd) BY <1>1 DEF Base, WInv, PlaceInv, IInv, ToolInv
<1>6. IF Refused(cmd) THEN outcome' = "refused" ELSE todo = <<>> /\ outcome' = "ok"
  BY <1>1, <1>4 DEF Listen, End, Proceed
<1>7. CASE Refused(cmd)
  <2>1. ~WritesPage /\ ~Renames BY <1>7 DEF WritesPage, Renames, Refused
  <2> QED BY <1>1, <1>5, <1>6, <1>7, <2>1, SameCommand DEF EndInv, Succeeds
<1>8. CASE ~Refused(cmd)
  <2>1. Len(Plan(cmd)) = 0 BY <1>5, <1>6, <1>8
  <2>2. OPEN \in Nat /\ STAGED \in Nat /\ PAGE_WORDS \in Nat BY Places, SmallPage
  <2>3. ~WritesPage
    <3>1. cmd.op = "write_page" => Len(Plan(cmd)) = STAGED + PAGE_WORDS + 2
      BY WritePlace
    <3> QED BY <2>1, <2>2, <3>1 DEF WritesPage
  <2>4. ~Renames
    <3>1. Renames => Len(Plan(cmd)) = OPEN + 3 BY SetIdPlace DEF Renames, set_id_raises
    <3> QED BY <2>1, <2>2, <3>1
  <2> QED BY <1>1, <1>6, <1>8, <2>3, <2>4, EndsPlainly DEF EndInv
<1> QED BY <1>7, <1>8

\* Only a RESET ends a command that transmits.
LEMMA TransmitEnds ==
  ASSUME Base, CleanInv, Transmit
  PROVE  EndInv'
<1> SUFFICES ASSUME phase' = "end", trouble' = {} PROVE EndInv' BY DEF EndInv
<1>1. phase = "send" /\ cmd' = cmd /\ trouble' = trouble BY DEF Transmit
<1>2. Head(todo).name = "RESET" /\ outcome' = "ok" BY DEF Transmit, End
<1>3. Calm BY <1>1 DEF Calm
<1>4. Wanted(Len(got), Head(todo)) BY <1>1, <1>3, AllWants DEF Base
<1>5. cmd.op = "reset"
  <2>1. ~Mild(Head(todo))
    <3>1. SUB["RESET"] = 31 BY DEF SUB
    <3> QED BY <1>2, <3>1 DEF Mild
  <2> QED BY <1>2, <1>4, <2>1 DEF Wanted
<1>6. ~WritesPage /\ ~Renames /\ ~Refused(cmd) BY <1>5 DEF WritesPage, Renames, Refused
<1> QED BY <1>1, <1>2, <1>5, <1>6, EndsPlainly DEF EndInv

\* The last time-out of a scan.
LEMMA SleepEnds ==
  ASSUME Base, CleanInv, Sleep
  PROVE  EndInv'
<1> SUFFICES ASSUME phase' = "end", trouble' = {} PROVE EndInv' BY DEF EndInv
<1>1. /\ phase \in {"quiet", "sleep"} /\ cmd' = cmd /\ trouble' = trouble /\ req = NONE /\ req' = req
  BY DEF Sleep, Passes
<1>2. Calm BY <1>1 DEF Calm
<1>3. phase = "quiet" /\ Raise("timeout") BY <1>1 DEF Sleep, Proceed
<1>4. cmd.op = "scan" BY <1>2, <1>3 DEF CleanInv
<1>5. outcome' = "ok" BY <1>3, <1>4 DEF Raise, End
<1>6. ~WritesPage /\ ~Renames /\ ~Refused(cmd) BY <1>4 DEF WritesPage, Renames, Refused
<1> QED BY <1>1, <1>5, <1>6, EndsPlainly DEF EndInv

\* The last reply of a plan.
LEMMA PlanEnds ==
  ASSUME Base, CleanInv, Calm, phase = "wait", Scripted, phase' = "end",
         UNCHANGED <<cmd, did, running>>, NEW a, NEW l, Reply(a, l),
         Answers(Head(todo), air[1].frame), a = decode_cmd3(air[1].frame.data).arg,
         Opened(Len(got) + 1)
  PROVE  Succeeds'
<1>1. /\ got' = Append(got, a) /\ Len(got) + 1 = Len(Plan(cmd))
      /\ outcome' = Conclusion(cmd, got') BY PlanGoesOn DEF Base, WInv
<1>2. /\ InStep /\ cmd \in Commands /\ todo # <<>> /\ ~Refused(cmd) /\ IsSequence(got)
      /\ IInv /\ SnapType /\ TruthTold
  BY DEF Base, WInv, PlaceInv, IInv, ToolInv, SnapType, CleanInv
<1>3. mid' = did /\ Told(Head(todo), a) BY DEF Reply, Answers
<1>4. Script = Plan(cmd) /\ Head(todo) = Plan(cmd)[Len(got) + 1] /\ Len(got) \in Nat
  BY <1>2, PlaceInPlan
<1>5. CASE WritesPage
  <2>1. cmd.op = "write_page" /\ Len(Plan(cmd)) = STAGED + PAGE_WORDS + 2
    BY <1>5, WritePlace DEF WritesPage
  <2>2. cmd.page \in [1 .. PAGE_WORDS -> Word] BY <1>2, <2>1, CommandAssumption
  <2>3. /\ IsSequence(got') /\ Len(got') = STAGED + PAGE_WORDS + 2
        /\ \A i \in 1 .. Len(got) : got'[i] = got[i] BY <1>1, <1>2, <2>1, Longer
  <2>4. ASSUME NEW i \in 1 .. PAGE_WORDS PROVE got'[STAGED + 1 + i] = cmd.page[i]
    <3>1. PICK j : j = STAGED + 1 + i OBVIOUS
    <3>2. j \in 1 .. Len(got) /\ i - 1 + 1 = i
      BY <1>1, <1>4, <2>1, <3>1, Places, SmallPage
    <3>3. Script[j].name = "GET_CAL_WORD" /\ Script[j].arg = i - 1
      <4>1. Script[j] = Rq("GET_CAL_WORD", i - 1) BY <1>4, <2>1, <3>1, WritePlace
      <4> QED BY <4>1 DEF Rq
    <3>4. Told(Script[j], got[j]) BY <1>2, <2>1, <3>2 DEF TruthTold
    <3>5. got[j] = cmd.page[i] BY <2>1, <3>2, <3>3, <3>4 DEF Told
    <3> QED BY <2>3, <3>1, <3>2, <3>5
  <2>5. back(got') = cmd.page BY <2>2, <2>3, <2>4, ReadBackWhole
  <2>6. outcome' = "verified"
    <3>1. PICK r : r = got' OBVIOUS
    <3>2. Verified(cmd, r) BY <2>5, <3>1 DEF Verified
    <3>3. Conclusion(cmd, r) = "verified" BY <2>1, <3>2 DEF Conclusion
    <3> QED BY <1>1, <3>1, <3>3
  <2>7. ~Renames /\ ~Refused(cmd) BY <1>5 DEF Renames, WritesPage
  <2> QED BY <1>5, <2>6, <2>7, SameCommand DEF Succeeds
<1>6. CASE Renames
  <2>1. cmd.op = "set_id" /\ ~set_id_raises(cmd.new_id)
    BY <1>6 DEF Renames, set_id_raises
  <2>2. Len(got) + 1 = OPEN + 3 BY <1>1, <2>1, SetIdPlace
  <2>3. Len(got) + 1 > OPEN BY <2>2, Places
  <2>4. did = cmd.new_id /\ FromPage' BY <2>1, <2>3, SamePage DEF Opened, IdAt
  <2>5. outcome' = "ok" BY <1>1, <2>1 DEF Conclusion
  <2>6. ~WritesPage BY <1>6 DEF Renames, WritesPage
  <2> QED BY <1>2, <1>3, <1>6, <2>4, <2>5, <2>6, SameCommand DEF Succeeds
<1>7. CASE ~WritesPage /\ ~Renames
  <2>1. cmd.op # "write_page" BY <1>2, <1>7 DEF WritesPage
  <2>2. outcome' \in {"ok", "refused"} BY <1>1, <2>1 DEF Conclusion
  <2> QED BY <1>2, <1>7, <2>2, EndsPlainly
<1> QED BY <1>5, <1>6, <1>7

\* The last reply of a record of a sample.
LEMMA SampleEnds ==
  ASSUME Base, CleanInv, Timed, Calm, phase = "wait", req = NONE, cmd.op = "sample",
         phase' = "end", NEW a, NEW l, Reply(a, l),
         a = decode_cmd3(air[1].frame.data).arg, air[1].due = 1
  PROVE  outcome' = "ok"
<1>1. got' = Append(got, a) BY DEF Reply
<1>2. ~(Len(todo) > 1) /\ SampleTurn(got') BY <1>1 DEF Reply, Proceed
<1>3. /\ Head(todo).name = "GET_SAMPLE"
      /\ \/ outcome' = "ok"
         \/ ~SampleOver(LastReplies(got', FIELDS["GET_SAMPLE"])) /\ OutOfTime
  <2>1. PICK r : r = got' /\ SampleTurn(r) BY <1>2
  <2>2. /\ Head(todo).name = "GET_SAMPLE"
        /\ \/ outcome' = "ok"
           \/ ~SampleOver(LastReplies(r, FIELDS["GET_SAMPLE"])) /\ OutOfTime
    BY <2>1 DEF SampleTurn, End
  <2> QED BY <2>1, <2>2
<1>4. ~Starting BY <1>3, StartingHead
<1>5. /\ Len(got) \in Nat /\ Len(todo) = 1 /\ Len(got) + 1 = Long
  <2>1. Len(got) \in Nat /\ Len(todo) \in Nat /\ Len(todo) >= 1 /\ Len(got) + Len(todo) = Long
    BY <1>4, Polling
  <2>2. Len(todo) = 1
    <3>1. PICK m : m = Len(todo) OBVIOUS
    <3>2. m \in Nat /\ m >= 1 /\ ~(m > 1) BY <1>2, <2>1, <3>1
    <3>3. m = 1 BY <3>2
    <3> QED BY <3>1, <3>3
  <2> QED BY <2>1, <2>2
<1>6. Running /\ BeforeReply BY <1>4 DEF Timed
<1>7. Len(todo) - 1 = 0 BY <1>5
<1>8. (Len(got) > 0 /\ got[1] = 1) \/ (Len(got) = 0 /\ a = 1) \/ deadline > 0
  <2>1. PICK k \in Nat : k = Len(todo) - 1 BY <1>7
  <2>2. deadline > Room(k) + air[1].due => deadline > 0
    <3>1. Room(k) \in Nat /\ deadline \in Nat BY <1>6, Rooms DEF Running
    <3> QED BY <3>1
  <2> QED BY <1>6, <2>1, <2>2 DEF BeforeReply
<1>9. /\ IsSequence(got') /\ Len(got') = Len(got) + 1 /\ \A i \in 1 .. Len(got) : got'[i] = got[i]
      /\ got'[Len(got) + 1] = a BY <1>1, Longer DEF Base, WInv, SnapType
<1>10. CASE deadline > 0 BY <1>3, <1>10 DEF OutOfTime
<1>11. CASE ~(deadline > 0)
  <2>1. got'[1] = 1
    <3>1. CASE Len(got) = 0
      <4>1. Len(got) + 1 = 1 /\ a = 1 BY <1>8, <1>11, <3>1
      <4> QED BY <1>9, <4>1
    <3>2. CASE Len(got) # 0
      <4>1. 1 \in 1 .. Len(got) BY <1>5, <3>2
      <4> QED BY <1>8, <1>9, <1>11, <3>2, <4>1
    <3> QED BY <3>1, <3>2
  <2>2. PICK r : r = got' OBVIOUS
  <2>3. SampleOver(LastReplies(r, FIELDS["GET_SAMPLE"]))
    <3>1. Len(r) = Long /\ Long \in Nat /\ Long >= 1 /\ IsSequence(r) /\ r[1] = 1
      BY <1>5, <1>9, <2>1, <2>2, Rooms
    <3> QED BY <3>1, WholeSample
  <2> QED BY <1>3, <2>2, <2>3
<1> QED BY <1>10, <1>11

LEMMA WaitEndsWell ==
  ASSUME Base, CleanInv, Timed, Wait
  PROVE  EndInv'
<1> SUFFICES ASSUME phase' = "end", trouble' = {} PROVE EndInv' BY DEF EndInv
<1>1. phase = "wait" /\ req = NONE /\ trouble' = trouble /\ cmd' = cmd /\ did' = did
      /\ running' = running /\ stored' = stored
  BY DEF Wait, Passes
<1>2. Calm BY <1>1 DEF Calm
<1>3. CleanWait /\ (Heard \/ NakHeard) BY <1>2, CalmWaits DEF WaitedInVain, WaitedOn
<1>4. req' = NONE BY <1>3 DEF CleanWait
<1>5. CASE NakHeard
  <2>1. cmd.op = "set_id" /\ Hopeless /\ outcome' = "nak" BY <1>5 DEF NakHeard, Declined, End
  <2>2. ~Mild(Head(todo)) BY <2>1, SubNumbers DEF Mild, Hopeless
  <2>3. Renames
    <3>1. Wanted(Len(got), Head(todo)) BY <1>1, <1>2, AllWants DEF Base
    <3> QED BY <2>1, <2>2, <3>1 DEF Wanted, Hopeless, Renames
  <2>4. ~WritesPage /\ ~Refused(cmd) BY <2>1 DEF WritesPage, Refused
  <2>5. Succeeds' BY <1>1, <2>1, <2>3, <2>4, SamePage, SameCommand DEF Succeeds, Hopeless
  <2> QED BY <1>4, <2>5 DEF EndInv
<1>6. CASE Heard
  <2>1. PICK a, l : a = decode_cmd3(air[1].frame.data).arg /\ Reply(a, l) BY <1>6 DEF Heard
  <2>2. air[1].due = 1 /\ Answers(Head(todo), air[1].frame) /\ Opened(Len(got) + 1)
    BY <1>6 DEF Heard
  <2>3. CASE Scripted
    <3>1. Succeeds' BY <1>1, <1>2, <2>1, <2>2, <2>3, PlanEnds
    <3> QED BY <1>4, <3>1 DEF EndInv
  <2>4. CASE ~Scripted
    <3>1. ~WritesPage /\ ~Renames /\ ~Refused(cmd)
      BY <1>1, <2>4 DEF Scripted, WritesPage, Renames, Base, WInv, PlaceInv
    <3>2. outcome' = "ok"
      <4>1. CASE cmd.op = "sample" BY <1>1, <1>2, <2>1, <2>2, <4>1, SampleEnds
      <4>2. CASE cmd.op = "scan" BY <2>1, <4>2 DEF Reply, Proceed, End, Conclusion
      <4> QED BY <2>4, <4>1, <4>2 DEF Scripted
    <3> QED BY <1>1, <1>4, <3>1, <3>2, EndsPlainly DEF EndInv
  <2> QED BY <2>3, <2>4
<1> QED BY <1>3, <1>5, <1>6

LEMMA EndSame ==
  ASSUME EndInv, UNCHANGED <<phase, cmd, outcome, got, mid, did, stored, running>>, trouble \subseteq trouble',
         req' # NONE => req' = req
  PROVE  EndInv'
<1> SUFFICES ASSUME phase' = "end", trouble' = {} PROVE EndInv' BY DEF EndInv
<1>1. phase = "end" /\ trouble = {} OBVIOUS
<1>2. (req # NONE => cmd.op = "reset") /\ (outcome # "none" => Succeeds)
  BY <1>1 DEF EndInv
<1>3. outcome # "none" => Succeeds' BY <1>2, SameCommand, SamePage DEF Succeeds
<1> QED BY <1>2, <1>3 DEF EndInv

\* Whom the module answers after the end of a command has asked for a RESET.
LEMMA ResetsEnd ==
  ASSUME EndInv, IInv, Still, req # NONE, req' = NONE, trouble \subseteq trouble'
  PROVE  EndInv'
<1> SUFFICES ASSUME phase' = "end", trouble' = {} PROVE EndInv' BY DEF EndInv
<1>1. phase = "end" /\ trouble = {} /\ UNCHANGED <<cmd, outcome>> BY DEF Still, toolVars
<1>2. cmd.op = "reset" /\ (outcome # "none" => Succeeds) BY <1>1 DEF EndInv
<1>3. ~WritesPage /\ ~Renames /\ ~Refused(cmd) BY <1>2 DEF WritesPage, Renames, Refused
<1>4. outcome # "none" => outcome' \in {"ok", "refused"}
  BY <1>1, <1>2, <1>3 DEF Succeeds
<1> QED BY <1>1, <1>3, <1>4, EndsPlainly DEF EndInv

LEMMA EndStep ==
  ASSUME Base, CleanInv, Timed, EndInv, [Next]_vars
  PROVE  EndInv'
<1>1. CASE \E c \in Commands : Start(c) BY <1>1 DEF Start, EndInv
<1>2. CASE Tool
  <2>1. Withheld => EndInv'
    <3> SUFFICES ASSUME Withheld, trouble' = {} PROVE FALSE BY DEF EndInv
    <3>1. Calm BY DEF Withheld, Calm
    <3> QED BY <3>1, CleanSends
  <2> QED BY <1>2, <2>1, ListenEnds, TransmitEnds, WaitEndsWell, SleepEnds DEF Tool
<1>3. CASE Idle BY <1>3, EndSame DEF Idle, toolVars
<1>4. CASE GateOpens \/ FactoryExpires
  BY <1>4, EndSame DEF GateOpens, FactoryExpires, toolVars
<1>5. CASE Unheard \/ Reset
  <2>1. /\ Still /\ req # NONE /\ req' = NONE /\ trouble' = trouble
    BY <1>5 DEF Unheard, Reset, ServedAs, Served, Reboot, Still
  <2> QED BY <2>1, ResetsEnd DEF Base, WInv
<1>6. CASE Rejected \/ Read \/ SampleStart \/ Unlock1 \/ Unlock2 \/ StageAddr \/ StageData
             \/ Program \/ ProgramFails \/ Lock
  <2>1. Answered BY <1>6, ModuleAnswers
  <2>2. Still /\ req # NONE /\ req' = NONE /\ trouble \subseteq trouble'
    BY <2>1 DEF Answered, Served
  <2> QED BY <2>2, ResetsEnd DEF Base, WInv
<1>7. CASE Faults
  <2>1. trouble' # {} BY <1>7, FaultsTrouble
  <2> QED BY <2>1 DEF EndInv
<1>8. CASE UNCHANGED vars BY <1>8, EndSame DEF vars, toolVars, moduleVars
<1> QED BY <1>1, <1>2, <1>3, <1>4, <1>5, <1>6, <1>7, <1>8 DEF Next, Module

\* The parts of the invariant of a clean session.
QInv == Base /\ CleanInv /\ Timed /\ EndInv

LEMMA QInit == ASSUME Init PROVE QInv
<1>1. WInv /\ StageInv BY RInit DEF RInv
<1>2. SInv
  <2>1. SnapType /\ IInv BY <1>1 DEF WInv
  <2>2. phase = "end" /\ outcome = "none" BY DEF Init
  <2> QED BY <2>1, <2>2 DEF SInv, ReadsInv, RecordSnapshot
<1>3. HeldInv BY HeldInit
<1>4. phase = "end" /\ req = NONE /\ outcome = "none" BY DEF Init
<1>5. CleanInv /\ Timed /\ EndInv BY <1>4 DEF CleanInv, Timed, EndInv, Calm
<1> QED BY <1>1, <1>2, <1>3, <1>5 DEF QInv, Base

LEMMA QStep ==
  ASSUME QInv, [Next]_vars
  PROVE  QInv'
<1>1. SInv /\ WInv /\ StageInv /\ HeldInv BY DEF QInv, Base
<1>2. SInv' /\ WInv' /\ StageInv' /\ HeldInv'
  BY <1>1, ReadsStep, PlaceStep, StageStep, HeldStep
<1>3. CleanInv' /\ Timed' /\ EndInv' BY CleanStep2, TimedStep, EndStep DEF QInv
<1> QED BY <1>2, <1>3 DEF QInv, Base

LEMMA EndsWell == ASSUME EndInv PROVE CleanRunSucceeds
<1> SUFFICES ASSUME phase = "end", outcome # "none", trouble = {}
             PROVE  CASE cmd.op = "write_page" /\ ~Refused(cmd) -> outcome = "verified"
                      [] cmd.op = "set_id" /\ cmd.new_id \in ID_MIN .. ID_MAX ->
                           IF FromPage THEN outcome = "ok" /\ did = cmd.new_id /\ mid = did
                           ELSE outcome = "nak" /\ stored # Erased
                      [] Refused(cmd) -> outcome = "refused" /\ got = <<>>
                      [] OTHER -> outcome \in {"ok", "refused"} BY DEF CleanRunSucceeds
<1>1. Succeeds BY DEF EndInv
<1>2. CASE cmd.op = "write_page" /\ ~Refused(cmd) BY <1>1, <1>2 DEF Succeeds, WritesPage
<1>3. CASE cmd.op = "set_id" /\ cmd.new_id \in ID_MIN .. ID_MAX
  <2>1. ~Refused(cmd) BY <1>3 DEF Refused
  <2>2. IF FromPage THEN outcome = "ok" /\ did = cmd.new_id /\ mid = did
        ELSE outcome = "nak" /\ stored # Erased BY <1>1, <1>3 DEF Succeeds, Renames
  <2> QED BY <1>3, <2>1, <2>2
<1>4. CASE Refused(cmd)
  <2>1. cmd.op # "set_id" /\ ~(cmd.op = "write_page" /\ ~Refused(cmd))
    BY <1>4 DEF Refused
  <2>2. outcome = "refused" /\ got = <<>> BY <1>1, <1>4 DEF Succeeds
  <2> QED BY <1>4, <2>1, <2>2
<1>5. CASE /\ ~(cmd.op = "write_page" /\ ~Refused(cmd)) /\ ~Refused(cmd)
           /\ ~(cmd.op = "set_id" /\ cmd.new_id \in ID_MIN .. ID_MAX)
  <2>1. outcome \in {"ok", "refused"} BY <1>1, <1>5 DEF Succeeds, WritesPage, Renames
  <2> QED BY <1>5, <2>1
<1> QED BY <1>2, <1>3, <1>4, <1>5

\* A run that meets no trouble does what it was asked to, whatever page the module
\* has, a torn one of an earlier session included: set_id alone may be refused,
\* where there is no page to copy and something to lose.  (write_page,
\* cmd_set_id, sample; do_set_id)
THEOREM CleanRunsSucceed == Spec => []CleanRunSucceeds
<1>1. Init => QInv BY QInit
<1>2. QInv /\ [Next]_vars => QInv' BY QStep
<1>3. QInv => CleanRunSucceeds BY EndsWell DEF QInv
<1> QED BY <1>1, <1>2, <1>3, PTL DEF Spec
=============================================================================
