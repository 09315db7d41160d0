---------------------------- MODULE MCFloatAngle ----------------------------
(* The table of ker_sinq7.inc, a page of two harmonics, and sensor codes on *)
(* both sides of the seam and of the angles where a float32 gets coarser.   *)
EXTENDS FloatAngle

Table == <<
  0, 402, 804, 1206, 1608, 2009, 2410, 2811, 3212, 3612, 4011, 4410, 4808,
  5205, 5602, 5998, 6393, 6786, 7179, 7571, 7962, 8351, 8739, 9126, 9512, 9896,
  10278, 10659, 11039, 11417, 11793, 12167, 12539, 12910, 13279, 13645, 14010, 14372, 14732,
  15090, 15446, 15800, 16151, 16499, 16846, 17189, 17530, 17869, 18204, 18537, 18868, 19195,
  19519, 19841, 20159, 20475, 20787, 21096, 21403, 21705, 22005, 22301, 22594, 22884, 23170,
  23452, 23731, 24007, 24279, 24547, 24811, 25072, 25329, 25582, 25832, 26077, 26319, 26556,
  26790, 27019, 27245, 27466, 27683, 27896, 28105, 28310, 28510, 28706, 28898, 29085, 29268,
  29447, 29621, 29791, 29956, 30117, 30273, 30424, 30571, 30714, 30852, 30985, 31113, 31237,
  31356, 31470, 31580, 31685, 31785, 31880, 31971, 32057, 32137, 32213, 32285, 32351, 32412,
  32469, 32521, 32567, 32609, 32646, 32678, 32705, 32728, 32745, 32757, 32765, 32767, 32767>>
MCSine == [i \in 0 .. 129 |-> Table[i + 1]]
MCCal == [n |-> 2, amp |-> <<5825, 1165>>, phase |-> <<7301, 21907>>]
MCCodes == {3, 520, 1001, 3300, 6001, 9901, 12100, 15999, 20477, 23301, 26003, 28205, 30111, 32767}
=============================================================================
