------------------------------ MODULE Protocol ------------------------------
(***************************************************************************)
(* The wire format and the payloads of the CMD=3 sub-protocol as the host  *)
(* tool has them (kercal/protocol.py): pure functions from numbers to      *)
(* numbers.  A byte is 0..255, a word 0..65535, a page a sequence of       *)
(* words, the last of which is the CRC of the others.  Shifts and masks    *)
(* are quotients and remainders.                                           *)
(*                                                                         *)
(* Angles stay in counts (raw codes, 21-bit steps): the factors to degrees *)
(* are left out, and a mean keeps its numerator and its divisor.           *)
(***************************************************************************)
EXTENDS Integers, Sequences

CONSTANT N_AMP           \* harmonics a page has room for, 6

ASSUME LayoutAssumption == N_AMP \in 0 .. 15

Byte == 0 .. 255
Word == 0 .. 65535
DATA_LIMIT == 2097152    \* a frame has 21 payload bits

----------------------------------------------------------------------------
(* Subcommands, magics and tags                                            *)

SUB == [NAK |-> 0, PING |-> 1, GET_FW_VER |-> 2, GET_PROTO_VER |-> 3, GET_DEVICE_ID |-> 4,
        GET_HEALTH |-> 5, GET_STAT |-> 6, GET_DMAG |-> 7, GET_ENV |-> 8, GET_SAFETY |-> 9,
        GET_ANGLE_RAW |-> 10, GET_ANGLE_COMP |-> 11, GET_LATCHED |-> 12, GET_ERRCNT |-> 13,
        CLR_ERRCNT |-> 14, GET_CAL_WORD |-> 15, GET_CAL_STATUS |-> 16, GET_SERNUM |-> 17,
        GET_CFG_VERIFY |-> 18, GET_TRIM |-> 19, LATCH_SYNC |-> 20, GET_RUN_WORD |-> 21,
        SAMPLE_START |-> 22, GET_SAMPLE |-> 23, UNLOCK_1 |-> 24, UNLOCK_2 |-> 25,
        STAGE_ADDR |-> 26, STAGE_DATA |-> 27, COMMIT_CAL |-> 28, SET_ID |-> 29,
        LOCK |-> 30, RESET |-> 31]
MAGIC == [CLR_ERRCNT |-> 49642, LATCH_SYNC |-> 6780, UNLOCK_1 |-> 23063, UNLOCK_2 |-> 42472,
          COMMIT_CAL |-> 49374, LOCK |-> 4300, RESET |-> 36583]
TAG == [STAGE_ADDR |-> 165, SET_ID |-> 94, SAMPLE_START |-> 90]
NAK_REASON == [NOT_UNLOCKED |-> 2, BAD_ARG |-> 3, BAD_INDEX |-> 4, CRC_FAIL |-> 5,
               WRITE_FAIL |-> 6, UNSUPPORTED |-> 7, BAD_ADDRESSING |-> 9,
               SEQUENCE |-> 10, NOT_ELIGIBLE |-> 11, BAD_PAGE |-> 12, STAGING_BUSY |-> 13]
PONG == 42405                                                     \* 0xA5A5
Tagged(t, v) == t * 256 + v

----------------------------------------------------------------------------
(* Frames: a header with its top bit set, then three times seven bits      *)

encode_frame(id, cmd, data) ==
  <<128 + id * 4 + cmd, data % 128, (data \div 128) % 128, (data \div 16384) % 128>>

IsFrame(b) ==
  /\ Len(b) = 4
  /\ b[1] >= 128 /\ \A i \in 2 .. 4 : b[i] < 128

decode_frame(b) ==
  [id   |-> (b[1] % 128) \div 4,
   cmd  |-> b[1] % 4,
   data |-> b[2] + b[3] * 128 + b[4] * 16384]

encode_cmd3(id, sub, arg) == encode_frame(id, 3, sub * 65536 + arg)
decode_cmd3(data) == [sub |-> (data \div 65536) % 32, arg |-> data % 65536]

\* The argument of a NAK: the rejected subcommand and the reason.
NakOf(arg) == [sub |-> (arg \div 256) % 32, reason |-> arg % 256]

----------------------------------------------------------------------------
(* CRC, most significant bit first                                         *)

Bit(n, i) == (n \div 2 ^ i) % 2

\* Exclusive or of two words: the bit of weight w, eight of them, all.
XorBit(x, y, w) == IF (x \div w) % 2 # (y \div w) % 2 THEN w ELSE 0
XorByte(x, y, w) ==
  XorBit(x, y, w) + XorBit(x, y, 2 * w) + XorBit(x, y, 4 * w) + XorBit(x, y, 8 * w)
    + XorBit(x, y, 16 * w) + XorBit(x, y, 32 * w) + XorBit(x, y, 64 * w)
    + XorBit(x, y, 128 * w)
Xor(x, y) == XorByte(x, y, 1) + XorByte(x, y, 256)

\* One shift, and eight, of a register that counts to mod.
CrcShift(mod, poly) ==
  [r \in 0 .. mod - 1 |-> IF 2 * r >= mod THEN Xor(2 * r - mod, poly) ELSE 2 * r]
Eightfold(mod, poly) ==
  [r \in 0 .. mod - 1 |->
     LET after[n \in 0 .. 8] == IF n = 0 THEN r ELSE CrcShift(mod, poly)[after[n - 1]]
     IN  IF r = 0 THEN 0 ELSE after[8]]

\* CRC-16/CCITT-FALSE, 0x1021: a byte at a time.
crc16(bytes) ==
  LET byte(b) == [r \in Word |-> Eightfold(65536, 4129)[Xor(r, b * 256)]]
      after[n \in 0 .. Len(bytes)] == IF n = 0 THEN 65535 ELSE byte(bytes[n])[after[n - 1]]
  IN  after[Len(bytes)]

\* One entry of the sensor's table, ker_crc8.inc, 0x1D.
crc8_entry(b) == Eightfold(256, 29)[b]

\* Words to bytes, the lower byte first.
LE(words) ==
  [i \in 1 .. 2 * Len(words) |->
     IF i % 2 = 1 THEN words[(i + 1) \div 2] % 256 ELSE words[i \div 2] \div 256]

sernum_digest(words) == crc16(LE(words))

unlock_2_arg(words) == Xor(MAGIC.UNLOCK_2, sernum_digest(words))

----------------------------------------------------------------------------
(* The USERROW page                                                        *)

PAGE_MAGIC == 75
LAYOUT_VER == 1
ID_MIN == 1
ID_MAX == 30
ID_UNPROVISIONED == 31
PAGE_WORDS == 4 + 2 * N_AMP
Day == 0 .. 4095
Amplitude == -32768 .. 32767

IsPage(p) ==
  /\ p \in [device_id : ID_MIN .. ID_MAX, station_id : Byte, cal_day : Day,
            amp : Seq(Amplitude), phase : Seq(Word)]
  /\ Len(p.amp) <= N_AMP /\ Len(p.phase) = Len(p.amp)

i16(v) == IF v >= 32768 THEN v - 65536 ELSE v

\* The words before the CRC; the unused harmonics are zero.
BodyWord(p, i) ==
  CASE i = 1 -> PAGE_MAGIC + LAYOUT_VER * 256
    [] i = 2 -> p.device_id + p.station_id * 256
    [] i = 3 -> p.cal_day + Len(p.amp) * 4096
    [] i > 3 /\ (i - 2) \div 2 > Len(p.amp) -> 0
    [] i > 3 /\ (i - 2) \div 2 <= Len(p.amp) ->
         IF i % 2 = 0 THEN p.amp[(i - 2) \div 2] % 65536 ELSE p.phase[(i - 2) \div 2]
Body(p) == [i \in 1 .. PAGE_WORDS - 1 |-> BodyWord(p, i)]

to_words(p) == Append(Body(p), crc16(LE(Body(p))))

AtMost(n, limit) == IF n < limit THEN n ELSE limit
WithHarmonics(w, n) ==
  [device_id |-> w[2] % 256, station_id |-> w[2] \div 256, cal_day |-> w[3] % 4096,
   amp   |-> [k \in 1 .. n |-> i16(w[2 * k + 2])],
   phase |-> [k \in 1 .. n |-> w[2 * k + 3]]]
from_words(w) == WithHarmonics(w, AtMost(w[3] \div 4096, N_AMP))

fields_ok(w) ==
  /\ w[2] % 256 \in ID_MIN .. ID_MAX
  /\ w[3] \div 4096 <= N_AMP
  /\ \A k \in 1 .. N_AMP : k > w[3] \div 4096 => w[2 * k + 2] = 0 /\ w[2 * k + 3] = 0

\* The first check that fails names the error.
inspect_page(w) ==
  IF crc16(LE(SubSeq(w, 1, PAGE_WORDS - 1))) # w[PAGE_WORDS] THEN "CRC"
  ELSE IF w[1] % 256 # PAGE_MAGIC THEN "MAGIC"
  ELSE IF w[1] \div 256 # LAYOUT_VER THEN "VERSION"
  ELSE IF ~fields_ok(w) THEN "FIELDS"
  ELSE "valid"

Erased == [i \in 1 .. PAGE_WORDS |-> 65535]

----------------------------------------------------------------------------
(* Payloads                                                                *)

\* TEMPR is nine bits, signed.
tempr(fsync) == IF fsync % 512 >= 256 THEN (fsync % 512) - 512 ELSE fsync % 512
angle21(lo, hi) == (lo + hi * 65536) % 2097152
signed32(lo, hi) == lo + i16(hi) * 65536

\* GET_SAMPLE, indices 0..11; rec[i + 1] is index i.
decode_sample(rec) ==
  [done |-> rec[1] % 2 = 1, aborted |-> (rec[1] \div 2) % 2 = 1,
   saturated |-> (rec[1] \div 4) % 2 = 1,
   e |-> (rec[1] \div 256) % 16, n_pass |-> rec[2], n_fail |-> rec[3], r0 |-> rec[4],
   sum_d |-> signed32(rec[5], rec[6]), sum_d2 |-> rec[7] + rec[8] * 65536,
   c0 |-> angle21(rec[9], rec[10]), sum_c |-> signed32(rec[11], rec[12])]

\* n_pass times the mean angle: r0 and the sum of differences around it.
SampleAngle(s) == (s.r0 * s.n_pass + s.sum_d) % (32768 * s.n_pass)
SampleOutput(s) == (s.c0 * s.n_pass + s.sum_c) % (2097152 * s.n_pass)

\* What the module sends for a sample: ker_cmd3.cpp's capture_sample.
Low(v) == v % 65536
High(v) == (v \div 65536) % 65536
SampleWords(s) ==
  <<(IF s.done THEN 1 ELSE 0) + (IF s.aborted THEN 2 ELSE 0)
      + (IF s.saturated THEN 4 ELSE 0) + s.e * 256,
    s.n_pass, s.n_fail, s.r0, Low(s.sum_d), High(s.sum_d), Low(s.sum_d2), High(s.sum_d2),
    Low(s.c0), High(s.c0), Low(s.sum_c), High(s.sum_c)>>

----------------------------------------------------------------------------
(* Status words: flags, each a bit, and above them a byte                  *)

HEALTH_BITS ==
  [CAL_INVALID |-> 0, CAL_VER_UNSUPPORTED |-> 1, SENSOR_CFG_FAIL |-> 2, SAFETY_CRC_ERR |-> 3,
   SENSOR_STAT_ERR |-> 4, SENSOR_NO_RESPONSE |-> 5, ANGLE_STALE |-> 7, FACTORY_MODE |-> 8,
   USERROW_WRITE_FAIL |-> 9, ARM_SEEN |-> 10, WRITE_ELIGIBLE |-> 11, NO_VALID_ANGLE |-> 12,
   ANGLE_DEGRADED |-> 13]
CAL_STATUS_BITS ==
  [valid |-> 0, magic_ok |-> 1, version_supported |-> 2, crc_ok |-> 3, fields_ok |-> 4,
   compensation_active |-> 5, stored_virgin |-> 6, running_differs_from_stored |-> 7]
CFG_VERIFY_BITS ==
  [MOD_1 |-> 0, MOD_2 |-> 1, CRCPAR |-> 2, SFUSE_clear |-> 3, safety_words_clean |-> 4]
CFG_VERIFY_PASS == 31

\* The names of the bits that are set.
decode_bits(value, names) == {n \in DOMAIN names : Bit(value, names[n]) = 1}

\* Module.cfg_verify and Module.cal_status.
cfg_passed(value) == value % 32 = CFG_VERIFY_PASS
layout_ver_of(value) == value \div 256

\* What the module sends: the masks of ker_health.h, cal_status of
\* ker_cmd3.cpp, cfg_verify of ker_sensor.cpp.
If(flag, on, mask) == IF flag \in on THEN mask ELSE 0

health_word(on) ==
  If("CAL_INVALID", on, 1) + If("CAL_VER_UNSUPPORTED", on, 2) + If("SENSOR_CFG_FAIL", on, 4)
    + If("SAFETY_CRC_ERR", on, 8) + If("SENSOR_STAT_ERR", on, 16)
    + If("SENSOR_NO_RESPONSE", on, 32) + If("ANGLE_STALE", on, 128)
    + If("FACTORY_MODE", on, 256) + If("USERROW_WRITE_FAIL", on, 512)
    + If("ARM_SEEN", on, 1024) + If("WRITE_ELIGIBLE", on, 2048)
    + If("NO_VALID_ANGLE", on, 4096) + If("ANGLE_DEGRADED", on, 8192)

PAGE_CHECKS == {"magic_ok", "version_supported", "crc_ok", "fields_ok"}
cal_status_word(on, layout_ver) ==
  layout_ver * 256 + (IF PAGE_CHECKS \subseteq on THEN 1 ELSE 0)
    + If("magic_ok", on, 2) + If("version_supported", on, 4) + If("crc_ok", on, 8)
    + If("fields_ok", on, 16) + If("compensation_active", on, 32)
    + If("stored_virgin", on, 64) + If("running_differs_from_stored", on, 128)

cfg_verify_word(on, attempts) ==
  If("MOD_1", on, 1) + If("MOD_2", on, 2) + If("CRCPAR", on, 4)
    + If("SFUSE_clear", on, 8) + If("safety_words_clean", on, 16) + attempts * 256
=============================================================================
