----------------------------- MODULE MCPanelDim -----------------------------
(* The two HALs for TLC: both ends of the scale, two neighbouring levels   *)
(* in its middle, and a lit colour that weighs nothing; panels below and   *)
(* of the default range, of the fitted one, and wider than both.           *)
EXTENDS PanelDim

SomeColors ==
  {Gray(v) : v \in {0, 127, 128, 255}} \cup {[r |-> 0, g |-> 0, b |-> 1]}
SomePanels == {100, 255, 1023, 2047}

\* By the formula: where the amount falls to 254, to 253 and so on, as far as MCReach.
MCFirstAt ==
  <<
    1, 1, 1, 1, 1, 1, 1, 1, 1, 1, 1, 2, 2, 2, 2, 3, 3, 3, 4, 4, 4, 5, 5, 6, 6, 7, 7, 8, 8,
    9, 10, 10, 11, 12, 13, 14, 14, 15, 16, 17, 18, 19, 20, 21, 22, 23, 24, 25, 27, 28, 29,
    30, 32, 33, 34, 36, 37, 39, 40, 41, 43, 45, 46, 48, 50, 51, 53, 55, 57, 58, 60, 62, 64,
    66, 68, 70, 72, 74, 76, 78, 81, 83, 85, 87, 90, 92, 94, 97, 99, 102, 104, 107, 109, 112,
    115, 117, 120, 123, 126, 128, 131, 134, 137, 140, 143, 146, 149, 152, 155, 158, 162,
    165, 168, 172, 175, 178, 182, 185, 189, 192, 196, 199, 203, 207, 210, 214, 218, 222,
    225, 229, 233, 237, 241, 245, 249, 253, 257, 262, 266, 270, 274, 279, 283, 287, 292,
    296, 301, 305, 310, 315, 319, 324, 329, 333, 338, 343, 348, 353, 358, 363, 368, 373,
    378, 383, 388, 393, 399, 404, 409, 415, 420, 426, 431, 437, 442, 448, 453, 459, 465,
    471, 476, 482, 488, 494, 500, 506, 512, 518, 524, 530, 536, 543, 549, 555, 561, 568,
    574, 581, 587, 594, 600, 607, 614, 620, 627, 634, 641, 647, 654, 661, 668, 675, 682,
    689, 696, 704, 711, 718, 725, 733, 740, 747, 755, 762, 770, 777, 785, 793, 800, 808,
    816, 824, 832, 839, 847, 855, 863, 871, 880, 888, 896, 904, 912, 921, 929, 937, 946,
    954, 963, 971, 980, 989, 997, 1006, 1015, 1032, 1041, 1050, 1059, 1068, 1077, 1086,
    1095, 1105, 1114, 1123, 1132, 1142, 1151, 1160, 1170, 1179, 1189, 1199, 1208, 1218,
    1228, 1237, 1247, 1257, 1267, 1277, 1287, 1297, 1307, 1317, 1327, 1337, 1347, 1358,
    1368, 1378, 1389, 1399, 1410, 1420, 1431, 1441, 1452, 1463, 1473, 1484, 1495, 1506,
    1517, 1528, 1539, 1550, 1561, 1572, 1583, 1594, 1606, 1617, 1628, 1640, 1651, 1662,
    1674, 1686, 1697, 1709, 1720, 1732, 1744, 1756, 1768, 1779, 1791, 1803, 1815, 1828,
    1840, 1852, 1864, 1876, 1889, 1901, 1913, 1926, 1938, 1951, 1963, 1976, 1988, 2001,
    2014, 2027, 2039
  >>

MCReach == 2047

=============================================================================
