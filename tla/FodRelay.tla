------------------------------ MODULE FodRelay ------------------------------
(***************************************************************************)
(* What the in-screen fingerprint HAL promises, without its threads, nodes *)
(* and proxies: it relays the calls of its clients to the fingerprint      *)
(* daemon, in the order they were made, each at most once, inventing none. *)
(* While its link to the daemon lives, no call is answered before it was   *)
(* relayed.  A relay is lost only over a dead link, and all pending calls  *)
(* are lost together when the HAL dies.  It answers every call, a daemon   *)
(* that lives and does not answer excepted.                                *)
(***************************************************************************)
EXTENDS Sequences

CONSTANTS
  Clients    \* the processes that call the HAL

Ops == {"onPress", "onRelease", "onShowFODView", "onHideFODView", "query"}
Calls == [client : Clients, op : Ops]

VARIABLES
  calls,     \* the calls that wait for an answer, oldest first
  told,      \* the oldest has been relayed
  link,      \* to the daemon: "none" (no HAL), "live" or "dead"
  finger,    \* the finger event the running daemon heard last, or "none"
  ui         \* the view event the running daemon heard last, or "none"

vars == <<calls, told, link, finger, ui>>

Waiting(c) == \E i \in DOMAIN calls : calls[i].client = c

Init == calls = <<>> /\ told = FALSE /\ link = "none" /\ finger = "none" /\ ui = "none"

\* A client calls, and blocks until the answer.
Request(c, op) ==
  /\ link # "none"
  /\ ~Waiting(c)
  /\ calls' = Append(calls, [client |-> c, op |-> op])
  /\ UNCHANGED <<told, link, finger, ui>>

\* What a call tells the daemon.
Tells(op) ==
  /\ finger' = CASE op = "onPress"   -> "down"
                 [] op = "onRelease" -> "up"
                 [] OTHER            -> finger
  /\ ui'     = CASE op = "onShowFODView" -> "ready"
                 [] op = "onHideFODView" -> "gone"
                 [] OTHER                -> ui

\* The oldest call is relayed; then, or over a dead link, it is answered.
Relay ==
  /\ calls # <<>> /\ Head(calls).op # "query"
  /\ link = "live" /\ ~told
  /\ Tells(Head(calls).op)
  /\ told' = TRUE
  /\ UNCHANGED <<calls, link>>

Answer ==
  /\ calls # <<>>
  /\ told \/ link = "dead" \/ Head(calls).op = "query"
  /\ calls' = Tail(calls) /\ told' = FALSE
  /\ UNCHANGED <<link, finger, ui>>

\* The HAL finds the daemon once, and dies with its calls; the daemon dies with
\* what it heard, and the link with it.
Connect == link = "none" /\ link' = "live" /\ UNCHANGED <<calls, told, finger, ui>>
Crash   == link' = "none" /\ calls' = <<>> /\ told' = FALSE /\ UNCHANGED <<finger, ui>>
Forget  ==
  /\ link' = IF link = "live" THEN "dead" ELSE link
  /\ finger' = "none" /\ ui' = "none"
  /\ UNCHANGED <<calls, told>>

Next ==
  \/ \E c \in Clients, op \in Ops : Request(c, op)
  \/ Relay \/ Answer \/ Connect \/ Crash \/ Forget

SafeSpec == Init /\ [][Next]_vars

\* What a live daemon owes is up to it.
Owing == told /\ link = "live"

Spec == SafeSpec /\ WF_vars(~Owing /\ (Relay \/ Answer))

=============================================================================
