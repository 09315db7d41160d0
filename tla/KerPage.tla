------------------------------ MODULE KerPage ------------------------------
(***************************************************************************)
(* The 32-byte calibration page of ker_cal.c: what ker_page_inspect sees   *)
(* in it, how a page is re-identified, sealed and built, and what the      *)
(* USERROW can hold after an erase-write that did not verify.              *)
(*                                                                         *)
(* The sixteen words are abstracted to three, in page order: the header    *)
(* (magic, layout version, device ID), the body (station, date, N_HARM and *)
(* the harmonics) and the CRC.  The CRC word is modelled by the content it *)
(* was computed over, so that two different contents never share a CRC:    *)
(* accidental 16-bit collisions are outside the model.                     *)
(***************************************************************************)
EXTENDS Integers

CONSTANTS
  Ids,           \* device IDs KER_ID_MIN .. KER_ID_MAX a page may carry
  NoId,          \* any ID byte outside that range (0, 31, 0xFF)
  Body,          \* contents of the body words
  BodyOk,        \* those with N_HARM <= 6 and empty unpopulated slots
  BodyZero,      \* the all-zero body of an identity page (N_HARM = 0)
  BodyFF,        \* the body words of an erased page
  CrcFF          \* a CRC word that is no content's CRC: 0xFFFF of an erased
                 \* page, 0x0000 of a zeroed buffer, a torn word

ASSUME PageAssumption ==
  /\ NoId \notin Ids
  /\ BodyOk \subseteq Body
  /\ BodyZero \in BodyOk
  /\ BodyFF \in Body \ BodyOk

LastWord == 2    \* index of the last page word, KER_PAGE_WORDS - 1 in the code

Header == [magic : BOOLEAN, ver : BOOLEAN, id : Ids \cup {NoId}]

Crc(h, b) == <<h, b>>

\* CRC16 is 0x5FBD over thirty 0xFF bytes and 0x2A45 over thirty zero bytes,
\* so an erased page and a zeroed buffer both fail their CRC.
ASSUME CrcAssumption == \A h \in Header, b \in Body : CrcFF # Crc(h, b)

CrcWord == (Header \X Body) \cup {CrcFF}

Page == [hdr : Header, body : Body, crc : CrcWord]

HeaderFF == [magic |-> FALSE, ver |-> FALSE, id |-> NoId]
HeaderFor(i) == [magic |-> TRUE, ver |-> TRUE, id |-> i]

Virgin == [hdr |-> HeaderFF, body |-> BodyFF, crc |-> CrcFF]
Zeroed == [hdr |-> HeaderFF, body |-> BodyZero, crc |-> CrcFF]

(***************************************************************************)
(* ker_page_inspect: the CRC verdict decides the NAK of COMMIT_CAL, every  *)
(* other check is BAD_PAGE.                                                *)
(***************************************************************************)
CrcOk(p) == p.crc = Crc(p.hdr, p.body)
FieldsOk(p) == p.hdr.id \in Ids /\ p.body \in BodyOk
Valid(p) == CrcOk(p) /\ p.hdr.magic /\ p.hdr.ver /\ FieldsOk(p)

Sealed(h, b) == [hdr |-> h, body |-> b, crc |-> Crc(h, b)]

\* The pages Valid accepts (ValidPagesExact in KerCmd3Proofs).
ValidPages == {Sealed(HeaderFor(i), b) : i \in Ids, b \in BodyOk}

\* ker_page_build_identity.
IdentityPage(i) == Sealed(HeaderFor(i), BodyZero)

BlankReIdentify(p, i) == IdentityPage(i)     \* a mutant: the calibration is lost

\* SET_ID on a module that runs a stored page: only byte 2 changes.
ReIdentify(p, i) ==
  Sealed([magic |-> p.hdr.magic, ver |-> p.hdr.ver, id |-> i], p.body)

\* adopt_page: the page the module runs after finding p in the USERROW.
Adopted(p) == IF Valid(p) THEN p ELSE Virgin

(***************************************************************************)
(* The USERROW is one NVM page written by a single erase-write: the write  *)
(* may not have started, may have stopped after the erase, or may have     *)
(* left a mixture whose CRC does not match (ker_cal.c, ker_userrow_program *)
(* excludes a half-updated page with a valid CRC).  A program that failed  *)
(* its verify never holds the new page; one cut by a power loss may.       *)
(***************************************************************************)
Torn(new) == [hdr |-> new.hdr, body |-> new.body, crc |-> CrcFF]
UnverifiedNew(old, new) == {old, Virgin, Torn(new), new}     \* a mutant
Unverified(old, new) == {old, Virgin, Torn(new)} \ {new}
Interrupted(old, new) == {old, Virgin, Torn(new), new}
=============================================================================
