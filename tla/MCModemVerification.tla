------------------------ MODULE MCModemVerification ------------------------
(* The update gate for TLC: an int of 4 bits, a stamp of 2 bytes, months of *)
(* 2, 1 and 2 days and days of 2 seconds; partitions that fit the int, that *)
(* wrap to a negative, a zero and a smaller size; stamps that end in the    *)
(* mapping and ones that do not.                                            *)
EXTENDS ModemVerification, TLC

FourMonths == (0 :> 0) @@ (1 :> 2) @@ (2 :> 3) @@ (3 :> 5)
AllTexts ==
  {<<>>} \cup {<<m>> : m \in 0..3} \cup {<<m, d>> : m \in 0..2, d \in 0..2}
  \cup {<<m, d, s>> : m \in 0..2, d \in 0..2, s \in 0..1}
SomePartitions ==
  {x \in [size : {2, 6, 8, 16, 20}, at : {-1, 0, 3}, nul : {5}, text : AllTexts] :
     x.at + PatLen <= x.size}
  \cup [size : {2, 6}, at : {0}, nul : {20}, text : {<<1, 1, 0>>}]
SomeInfos ==
  [require : {"nothing", "empty", "wildcard", "version"}, text : {<<1, 1, 0>>, <<2, 1, 1>>, <<>>}]
TwoArguments == {<<>>} \cup {<<<<0, 1, 0>>, t>> : t \in {<<1, 1, 1>>, <<2>>, <<2, 2, 1>>}}
=============================================================================
