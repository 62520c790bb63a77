---------------------------- MODULE MCBoyerMoore ----------------------------
(* bm_search for TLC: every pattern of up to MaxPat and every text of up to *)
(* MaxStr characters.                                                       *)
EXTENDS BoyerMoore

CONSTANTS MaxPat, MaxStr

AllInputs ==
  UNION {[str_len : {n}, str : [0..(n - 1) -> Char], pat_len : {m}, pat : [0..(m - 1) -> Char]]
           : m \in 1..MaxPat, n \in 0..MaxStr}
=============================================================================
