------------------------ MODULE MCLiveDisplayService ------------------------
(* The LiveDisplay HAL's main() for TLC: every fault, and a backend that  *)
(* is not ready when the process first starts.                            *)
EXTENDS LiveDisplayService

CONSTANTS settings, systemui, shell

ThreeClients == {settings, systemui, shell}

\* A library with all it may have, and ones that lack an entry point, a version of the
\* feature, or a bound of a range.
Full ==
  [entries |-> Entries, version |-> 2,
   ranges |-> [p \in Parts |-> [max |-> 180, min |-> -180]]]
SomeLibraries ==
  {Full, [Full EXCEPT !.version = 0], [Full EXCEPT !.ranges["contrast"].min = 0],
   [Full EXCEPT !.ranges["saturationThreshold"].min = 0]}
  \cup {[Full EXCEPT !.entries = Entries \ {e}] : e \in Entries}

=============================================================================
