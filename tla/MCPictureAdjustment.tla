------------------------ MODULE MCPictureAdjustment ------------------------
(* Picture adjustment for TLC: floats with one bit of mantissa, integers   *)
(* of three bits, of which 3 and -3 are no floats and one float, 4, is no  *)
(* integer; and libraries that lack one of the entry points.               *)
EXTENDS PictureAdjustment

CONSTANTS settings, systemui

TwoClients == {settings, systemui}
SomeFloats == {-8, -4, -2, -1, 0, 1, 2, 4, 8}
Full ==
  [entries |-> Entries, version |-> 2,
   ranges |-> [p \in Parts |-> [max |-> 180, min |-> -180]]]
SomeLibraries ==
  {Full, [Full EXCEPT !.ranges["contrast"].min = 0],
   [Full EXCEPT !.ranges["saturationThreshold"].min = 0]}
  \cup {[Full EXCEPT !.entries = Entries \ {e}] : e \in Entries}
PaFaults == {"library", "register_se", "kill"}

=============================================================================
