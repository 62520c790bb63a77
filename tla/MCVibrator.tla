----------------------------- MODULE MCVibrator -----------------------------
(* Instances of Vibrator: effects on both sides of every limit, a strength *)
(* that is in no version of the interface, two values the stack may hold.  *)
EXTENDS Vibrator

MCEffects == {1, 2, 6, 20, 21}
MCStrengths == {"LIGHT", "other"}
MCMemory == {0, 77}

=============================================================================
