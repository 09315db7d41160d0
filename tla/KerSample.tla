------------------------------ MODULE KerSample ------------------------------
(***************************************************************************)
(* Averaged sampling: the engine of ker_cmd3.cpp that accumulates 2^e      *)
(* readings around the first one that passes, the GET_SAMPLE record that   *)
(* is captured while it runs, and Module.sample of the host tool, which    *)
(* starts a run and polls that record, its index 0 first.                  *)
(*                                                                         *)
(* The arm stands at an unwrapped position, so that the code's wrapped     *)
(* differences can be compared with the true ones; the history variables   *)
(* keep the true sums.  Sensor faults are readings that do not pass.       *)
(***************************************************************************)
EXTENDS Integers

CONSTANTS
  Exps,          \* exponents a host asks for, 0..10
  RawMod,        \* 2^15
  AngMod,        \* 2^21
  Scale,         \* AngMod / RawMod
  Corr,          \* a correction per calibration and raw code
  Cals,
  Positions,     \* positions of the arm, in raw steps, around 0 (bound)
  SumD2Max,      \* 2^32 - 1: where sum_d2 saturates
  NoRecord       \* GET_SAMPLE index 0 was not read since reset

Half(mod) == mod \div 2

ASSUME SampleAssumption ==
  /\ Exps \subseteq Nat /\ \A e \in Exps : 2 ^ e \in Nat \ {0}
  /\ RawMod \in Nat \ {0} /\ AngMod \in Nat \ {0} /\ Scale \in Nat
  /\ Half(RawMod) \in Nat /\ Half(AngMod) \in Nat
  /\ Corr \in [Cals \X (0 .. RawMod - 1) -> Int]
  /\ Positions \subseteq Int
  /\ SumD2Max \in Nat

\* The arm stays within half a turn, before and after the correction, so that
\* a wrapped difference is the true one.
ASSUME WithinHalfTurn ==
  \A p, q \in Positions :
    /\ p - q < Half(RawMod)
    /\ \A c, d \in Cals :
         Scale * (p - q) + Corr[<<c, p % RawMod>>] - Corr[<<d, q % RawMod>>]
           < Half(AngMod)

VARIABLES
  smp_active, smp_e, smp_status, smp_have_ref, smp_left, smp_pass, smp_fail,
  smp_r0, smp_c0, smp_sum_d, smp_sum_c, smp_sum_d2,
  rec_smp,                      \* the captured record
  gate_open,                    \* the read gate, see KerCmd3
  cal, pos,                     \* calibration in force, position of the arm
  host, host_e, host_status,    \* Module.sample: where it is, what it holds
  \* history: true position and output of the reference, true sums
  ref_pos, ref_out, true_d, true_c, true_d2

engine == <<smp_active, smp_e, smp_status, smp_have_ref, smp_left, smp_pass,
            smp_fail, smp_r0, smp_c0, smp_sum_d, smp_sum_c, smp_sum_d2>>
tool   == <<host, host_e, host_status>>
truth  == <<ref_pos, ref_out, true_d, true_c, true_d2>>
vars   == <<engine, rec_smp, gate_open, cal, pos, tool, truth>>

Status == [done : BOOLEAN, aborted : BOOLEAN, saturated : BOOLEAN]
Clear == [done |-> FALSE, aborted |-> FALSE, saturated |-> FALSE]

RawOf(p) == p % RawMod
OutOf(c, p) == Scale * p + Corr[<<c, RawOf(p)>>]     \* unwrapped output
AngleOf(c, p) == OutOf(c, p) % AngMod

\* Every variable has its type.
TypeOK ==
  /\ smp_active \in BOOLEAN /\ smp_e \in Exps \cup {0} /\ smp_status \in Status
  /\ smp_have_ref \in BOOLEAN
  /\ smp_left \in Nat /\ smp_pass \in Nat /\ smp_fail \in Nat
  /\ smp_r0 \in 0 .. RawMod - 1 /\ smp_c0 \in 0 .. AngMod - 1
  /\ smp_sum_d \in Int /\ smp_sum_c \in Int /\ smp_sum_d2 \in 0 .. SumD2Max
  /\ gate_open \in BOOLEAN /\ cal \in Cals /\ pos \in Positions
  /\ host \in {"idle", "poll", "read", "raised"} /\ host_e \in Exps \cup {0}

----------------------------------------------------------------------------
(* The engine                                                              *)

SampleAbort ==
  IF smp_active
    THEN smp_active' = FALSE /\ smp_status' = [smp_status EXCEPT !.aborted = TRUE]
    ELSE UNCHANGED <<smp_active, smp_status>>

ResetCounts == smp_pass' = 0 /\ smp_fail' = 0

ResetStatus == smp_status' = Clear

SampleStart(e) ==
  /\ smp_e' = e /\ smp_left' = 2 ^ e
  /\ ResetStatus /\ smp_have_ref' = FALSE
  /\ ResetCounts
  /\ smp_r0' = 0 /\ smp_c0' = 0
  /\ smp_sum_d' = 0 /\ smp_sum_c' = 0 /\ smp_sum_d2' = 0
  /\ smp_active' = TRUE
  /\ ref_pos' = 0 /\ ref_out' = 0 /\ true_d' = 0 /\ true_c' = 0 /\ true_d2' = 0

\* A difference of two codes, mapped into [-mod/2, mod/2).
Unsigned(d, mod) == d % mod                     \* a mutant: the seam is not seen
Wrap(d, mod) == IF d % mod >= Half(mod) THEN (d % mod) - mod ELSE d % mod

AddD2(sum, dd) == IF sum > SumD2Max - dd THEN SumD2Max ELSE sum + dd

OneShort == smp_left <= 2                       \* a mutant: off by one
LastReading == smp_left = 1

Passed ==
  LET raw == RawOf(pos)
      out == AngleOf(cal, pos)
      r0 == IF smp_have_ref THEN smp_r0 ELSE raw
      c0 == IF smp_have_ref THEN smp_c0 ELSE out
      d  == Wrap(raw - r0, RawMod)
      rp == IF smp_have_ref THEN ref_pos ELSE pos
      ro == IF smp_have_ref THEN ref_out ELSE OutOf(cal, pos)
  IN /\ smp_r0' = r0 /\ smp_c0' = c0 /\ smp_have_ref' = TRUE
     /\ smp_sum_d' = smp_sum_d + d
     /\ smp_sum_c' = smp_sum_c + Wrap(out - c0, AngMod)
     /\ smp_sum_d2' = AddD2(smp_sum_d2, d * d)
     /\ smp_pass' = smp_pass + 1
     /\ ref_pos' = rp /\ ref_out' = ro
     /\ true_d' = true_d + (pos - rp)
     /\ true_c' = true_c + (OutOf(cal, pos) - ro)
     /\ true_d2' = true_d2 + (pos - rp) * (pos - rp)
     /\ UNCHANGED smp_fail
     /\ smp_status' = [done |-> LastReading, aborted |-> smp_status.aborted,
                       saturated |-> \/ smp_status.saturated
                                     \/ smp_sum_d2 > SumD2Max - d * d]

Failed ==
  /\ smp_fail' = smp_fail + 1
  /\ smp_status' = [smp_status EXCEPT !.done = LastReading]
  /\ UNCHANGED <<smp_have_ref, smp_pass, smp_r0, smp_c0, smp_sum_d, smp_sum_c,
                 smp_sum_d2, truth>>

\* sample_consume, after an angle transaction that passed or did not.
SampleConsume ==
  /\ Passed \/ Failed
  /\ smp_left' = smp_left - 1
  /\ smp_active' = ~LastReading
  /\ UNCHANGED smp_e

CaptureSample ==
  [status |-> smp_status, e |-> smp_e, pass |-> smp_pass, fail |-> smp_fail,
   r0 |-> smp_r0, c0 |-> smp_c0, sum_d |-> smp_sum_d, sum_c |-> smp_sum_c,
   sum_d2 |-> smp_sum_d2,
   true_d |-> true_d, true_c |-> true_c, true_d2 |-> true_d2]

----------------------------------------------------------------------------
(* Actions of the module                                                   *)

\* One angle transaction of loop() while a run is active.
Reading ==
  /\ smp_active
  /\ SampleConsume
  /\ UNCHANGED <<rec_smp, gate_open, cal, pos, tool>>

\* A CMD=1 or CMD=2 frame, whatever its ID.
CascadeFrame ==
  /\ gate_open' = FALSE
  /\ SampleAbort
  /\ UNCHANGED <<smp_e, smp_have_ref, smp_left, smp_pass, smp_fail, smp_r0,
                 smp_c0, smp_sum_d, smp_sum_c, smp_sum_d2, rec_smp, cal, pos,
                 tool, truth>>

GateOpens ==
  /\ ~gate_open /\ gate_open' = TRUE
  /\ UNCHANGED <<engine, rec_smp, cal, pos, tool, truth>>

\* A COMMIT_CAL or SET_ID that succeeds changes the mapping under a run.
SetCal ==
  /\ gate_open
  /\ cal' \in Cals \ {cal}
  /\ UNCHANGED <<engine, rec_smp, gate_open, pos, tool, truth>>

Move ==
  /\ pos' \in Positions \ {pos}
  /\ UNCHANGED <<engine, rec_smp, gate_open, cal, tool, truth>>

\* A reset initialises the engine and forgets the record.
ModuleReset ==
  /\ smp_active' = FALSE /\ smp_e' = 0 /\ smp_status' = Clear
  /\ smp_have_ref' = FALSE /\ smp_left' = 0 /\ smp_pass' = 0 /\ smp_fail' = 0
  /\ smp_r0' = 0 /\ smp_c0' = 0
  /\ smp_sum_d' = 0 /\ smp_sum_c' = 0 /\ smp_sum_d2' = 0
  /\ rec_smp' = NoRecord /\ gate_open' = FALSE
  /\ ref_pos' = 0 /\ ref_out' = 0 /\ true_d' = 0 /\ true_c' = 0 /\ true_d2' = 0
  /\ UNCHANGED <<cal, pos, tool>>

----------------------------------------------------------------------------
(* Module.sample of the host tool                                          *)

HostStart(e) ==
  /\ host \in {"idle", "raised"} /\ gate_open
  /\ SampleStart(e)
  /\ host' = "poll" /\ host_e' = e
  /\ UNCHANGED <<rec_smp, gate_open, cal, pos, host_status>>

\* GET_SAMPLE index 0: the record is captured, its status word returned.
HostReadStatus ==
  /\ host = "poll" /\ gate_open
  /\ rec_smp' = CaptureSample
  /\ host_status' = smp_status
  /\ host' = "read"
  /\ UNCHANGED <<engine, gate_open, cal, pos, host_e, truth>>

\* Indices 1 to 11; decode_sample; done or aborted ends the poll.
HostReadFields ==
  /\ host = "read" /\ gate_open /\ rec_smp # NoRecord
  /\ IF host_status.done \/ host_status.aborted
       THEN host' = "idle" /\ host_e' = 0 /\ host_status' = Clear
       ELSE host' = "poll" /\ UNCHANGED <<host_e, host_status>>
  /\ UNCHANGED <<engine, rec_smp, gate_open, cal, pos, truth>>

\* No reply, a NAK SEQUENCE after a reset, or the deadline.
HostRaises ==
  /\ host \in {"poll", "read"}
  /\ host' = "raised" /\ host_e' = 0 /\ host_status' = Clear
  /\ UNCHANGED <<engine, rec_smp, gate_open, cal, pos, truth>>

Init ==
  /\ smp_active = FALSE /\ smp_e = 0 /\ smp_status = Clear
  /\ smp_have_ref = FALSE /\ smp_left = 0 /\ smp_pass = 0 /\ smp_fail = 0
  /\ smp_r0 = 0 /\ smp_c0 = 0
  /\ smp_sum_d = 0 /\ smp_sum_c = 0 /\ smp_sum_d2 = 0
  /\ rec_smp = NoRecord /\ gate_open = FALSE
  /\ ref_pos = 0 /\ ref_out = 0 /\ true_d = 0 /\ true_c = 0 /\ true_d2 = 0
  /\ cal \in Cals /\ pos \in Positions
  /\ host = "idle" /\ host_e = 0 /\ host_status = Clear

Next ==
  \/ Reading
  \/ CascadeFrame
  \/ GateOpens
  \/ SetCal
  \/ Move
  \/ ModuleReset
  \/ \E e \in Exps : HostStart(e)
  \/ HostReadStatus
  \/ HostReadFields
  \/ HostRaises

Spec == Init /\ [][Next]_vars

----------------------------------------------------------------------------
(* Safety                                                                  *)

\* 4.10: every reading of a run is counted once, the run is done exactly when
\* the last one is, and "aborted" is not "done".  (sample_consume)
RunAccounts ==
  /\ smp_active => /\ smp_pass + smp_fail + smp_left = 2 ^ smp_e
                   /\ smp_left > 0
                   /\ ~smp_status.done /\ ~smp_status.aborted
  /\ smp_status.done => smp_left = 0 /\ smp_pass + smp_fail = 2 ^ smp_e
  /\ smp_status.aborted => smp_left > 0
  /\ smp_have_ref <=> smp_pass > 0

\* 4.7, GET_SAMPLE: the sum of squares is the true one unless status bit 2
\* says that it saturated, and then it is the largest value.
SquaresFlagged ==
  IF smp_status.saturated
    THEN smp_sum_d2 = SumD2Max /\ true_d2 > SumD2Max
    ELSE smp_sum_d2 = true_d2

\* 4.7, GET_SAMPLE: averaging differences keeps the mean right across the
\* 0/360 degree seam: while the arm stays within half a turn of the reference
\* the accumulated sums are the true ones, of the codes and of the outputs,
\* and so are the squares as long as the record does not say otherwise.
SumsExact == smp_sum_d = true_d /\ smp_sum_c = true_c /\ SquaresFlagged

\* 4.10: no run on a live arm: a CMD=1 or CMD=2 frame closes the gate and ends
\* the run in one step, and a run starts only behind the open gate.
RunBehindGate == smp_active => gate_open

\* What Module.sample returns as done is one whole run of the length it asked
\* for, with the sums of that run -- whatever readings, frames, resets, time-
\* outs and restarts come between the words it reads.
ResultIsOneRun ==
  [][host = "read" /\ host' = "idle" /\ host_status.done =>
       /\ rec_smp.pass + rec_smp.fail = 2 ^ host_e
       /\ rec_smp.status = host_status
       /\ rec_smp.sum_d = rec_smp.true_d /\ rec_smp.sum_c = rec_smp.true_c
       /\ ~host_status.saturated => rec_smp.sum_d2 = rec_smp.true_d2]_vars
=============================================================================
