------------------------------ MODULE FindFirst ------------------------------
(***************************************************************************)
(* What a search for a pattern promises its caller, without tables and     *)
(* alignments: it answers once, with a place where the pattern occurs or   *)
(* with none, and where the pattern is plain with the first there is.      *)
(***************************************************************************)
EXTENDS Integers

VARIABLES
  occurrences,   \* the offsets at which the pattern occurs
  plain,         \* the pattern has no border
  answered,      \* the search has returned
  result         \* what it has returned, or None

vars == <<occurrences, plain, answered, result>>

None == -1

Init == ~answered /\ result = None

Answers ==
  IF ~plain THEN occurrences \cup {None}
  ELSE IF occurrences = {} THEN {None}
  ELSE {b \in occurrences : \A c \in occurrences : b <= c}

Answer ==
  /\ ~answered /\ answered' = TRUE /\ result' \in Answers
  /\ UNCHANGED <<occurrences, plain>>

SafeSpec == Init /\ [][Answer]_vars

\* Every search is answered.
Spec == SafeSpec /\ WF_vars(Answer)

=============================================================================
