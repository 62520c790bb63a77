------------------------ MODULE SunlightEnhancement ------------------------
(***************************************************************************)
(* The sunlight-enhancement half of the LiveDisplay HAL (src/livedisplay): *)
(* a switch kept nowhere but in the high-brightness node, which is the     *)
(* node the FOD HAL switches as well.  Its process has one binder thread,  *)
(* so a call is one access to the node and its answer, and nothing else of *)
(* this HAL comes between the two, but the death of its process may.       *)
(***************************************************************************)
EXTENDS Integers

CONSTANTS
  IoOutcomes    \* the results a sysfs access may have: TRUE done, FALSE refused

VARIABLES
  hbm, writer,  \* the node, and who wrote it last
  pending,      \* the setting that is written and not yet acknowledged, if any
  request,      \* history: the last setting the HAL acknowledged
  failed,       \* history: the settings written since then by calls that were cut short
  reported      \* history: the last answer of isEnabled

SunTypeOK ==
  /\ pending \in {{}, {TRUE}, {FALSE}} /\ failed \subseteq BOOLEAN
  /\ request \in BOOLEAN /\ reported \in BOOLEAN

SunInit == pending = {} /\ failed = {} /\ request = FALSE /\ reported = FALSE

\* Mutated: a refused write is acknowledged; sunlight has a level of its own.
SetEnabledAcknowledges(enabled) ==
  /\ pending = {}
  /\ \E ok \in IoOutcomes :
       /\ hbm' = IF ok THEN (IF enabled THEN 1 ELSE 0) ELSE hbm
       /\ writer' = IF ok THEN "sunlight" ELSE writer
  /\ pending' = {enabled}
  /\ UNCHANGED <<request, failed, reported>>

SetEnabledLevel(enabled) ==
  /\ pending = {} /\ TRUE \in IoOutcomes
  /\ hbm' = IF enabled THEN 2 ELSE 0
  /\ writer' = "sunlight"
  /\ pending' = {enabled}
  /\ UNCHANGED <<request, failed, reported>>

\* setEnabled: the result of the write is the answer.  A refused one leaves
\* nothing to acknowledge; whether its caller hears of it or of the process's
\* death, the setting has failed.
SetEnabled(enabled) ==
  /\ pending = {}
  /\ \/ /\ TRUE \in IoOutcomes
        /\ hbm' = IF enabled THEN 1 ELSE 0
        /\ writer' = "sunlight"
        /\ pending' = {enabled}
     \/ /\ FALSE \in IoOutcomes
        /\ UNCHANGED <<hbm, writer, pending>>
  /\ UNCHANGED <<request, failed, reported>>

Reply(enabled) ==
  /\ pending = {enabled}
  /\ pending' = {}
  /\ request' = enabled /\ failed' = {}
  /\ UNCHANGED <<hbm, writer, reported>>

\* The process is killed between the write and the answer, and started again.
SunDie ==
  /\ pending # {}
  /\ pending' = {} /\ failed' = failed \cup pending
  /\ UNCHANGED <<hbm, writer, request, reported>>

\* Mutated: a node that cannot be read counts as enabled.
IsEnabledUnread ==
  /\ pending = {}
  /\ reported' \in {ok => hbm > 0 : ok \in IoOutcomes}
  /\ UNCHANGED <<hbm, writer, pending, request, failed>>

\* isEnabled: what the node says, or FALSE when it cannot be read.
IsEnabled ==
  /\ pending = {}
  /\ reported' \in {ok /\ hbm > 0 : ok \in IoOutcomes}
  /\ UNCHANGED <<hbm, writer, pending, request, failed>>

SunNext ==
  \/ \E enabled \in BOOLEAN : SetEnabled(enabled) \/ Reply(enabled)
  \/ IsEnabled \/ SunDie

=============================================================================
