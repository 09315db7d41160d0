------------------------------- MODULE MCHost -------------------------------
(***************************************************************************)
(* Host for TLC: pages of four words, a serial number of one, a module     *)
(* that is ID 1 and pages that move it to ID 2.                            *)
(***************************************************************************)
EXTENDS Host

Page(id, day) == to_words([device_id |-> id, station_id |-> 0, cal_day |-> day,
                           amp |-> <<>>, phase |-> <<>>])
MCFirstPage == Page(1, 5)
MCTorn == {[Page(2, 6) EXCEPT ![PAGE_WORDS] = 65535]}
MCOtherIds == {1}
MCOtherSubs == {SUB.NAK, SUB.STAGE_DATA}
MCSerial == <<4660>>
MCScanIds == <<1, 2>>
MCFields == [GET_FW_VER |-> 1, GET_ENV |-> 1, GET_TRIM |-> 1, GET_ANGLE_RAW |-> 1,
             GET_ANGLE_COMP |-> 1, GET_ERRCNT |-> 2, GET_LATCHED |-> 2, GET_SAMPLE |-> 12]

Ask(op, id) == [op |-> op, id |-> id]
With(c, field, v) == [x \in DOMAIN c \cup {field} |-> IF x = field THEN v ELSE c[x]]
MCCommands ==
  {With(Ask("write_page", 1), "page", Page(2, 6)),
   With(Ask("write_page", 1), "page", [Page(2, 6) EXCEPT ![2] = 7]),
   With(Ask("set_id", 1), "new_id", 2), With(Ask("set_id", 1), "new_id", 31),
   With(Ask("set_id", 31), "new_id", 2),
   With(Ask("page", 2), "running", TRUE),
   With(Ask("sample", 1), "e", 3), With(Ask("sample", 1), "e", 11),
   Ask("scan", 1), Ask("info", 1), Ask("clear", 1), Ask("listen", 1),
   Ask("latched", 1), Ask("lock", 1), Ask("reset", 1)}
=============================================================================
