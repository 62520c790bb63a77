----------------------------- MODULE UpdateGate -----------------------------
(***************************************************************************)
(* What the modem assertion of an update package promises, without the     *)
(* partition, the search and the texts: a package that asks for modems     *)
(* lets its update through only over one whose stamp denotes a second it   *)
(* asks for, turns no update away without a reason, and decides.           *)
(***************************************************************************)
EXTENDS Integers

VARIABLES
  asks,       \* whether the package asks for a modem
  required,   \* the seconds it asks for
  readable,   \* the seconds that reading the partition may give
  stamp,      \* the second that was read, or Unread
  broken,     \* reading has failed
  outcome     \* the update is "running", "aborted" or "installing"

vars == <<asks, required, readable, stamp, broken, outcome>>

Unread == -1

Init == stamp = Unread /\ ~broken /\ outcome = "running"

Read ==
  /\ stamp = Unread /\ stamp' \in readable
  /\ UNCHANGED <<asks, required, readable, broken, outcome>>

Fail ==
  /\ outcome = "running" /\ broken' = TRUE
  /\ UNCHANGED <<asks, required, readable, stamp, outcome>>

Install ==
  /\ outcome = "running" /\ (asks => stamp \in required) /\ outcome' = "installing"
  /\ UNCHANGED <<asks, required, readable, stamp, broken>>

\* Nothing could be read, or what was read is not asked for.
Abort ==
  /\ outcome = "running" /\ asks /\ outcome' = "aborted"
  /\ \/ broken' = TRUE
     \/ UNCHANGED broken /\ (readable = {} \/ (stamp # Unread /\ stamp \notin required))
  /\ UNCHANGED <<asks, required, readable, stamp>>

Next == Read \/ Fail \/ Install \/ Abort

SafeSpec == Init /\ [][Next]_vars

\* Every update is decided.
Spec == SafeSpec /\ WF_vars(Install \/ Abort)

=============================================================================
