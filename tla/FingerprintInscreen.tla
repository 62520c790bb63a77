------------------------ MODULE FingerprintInscreen ------------------------
(***************************************************************************)
(* The in-screen fingerprint (FOD) HAL of src/fod: a process whose single  *)
(* binder thread serves the calls of its clients in arrival order.  A call *)
(* writes a sysfs node and then sends a command to the Goodix daemon, two  *)
(* steps between which anything else may happen: other processes write the *)
(* same node, the daemon dies, the HAL itself dies.  sendCommand is a      *)
(* synchronous call: its one thread is held until the daemon answers, or   *)
(* is dead.  The proxy of the daemon is obtained once, when the process    *)
(* starts.                                                                 *)
(*                                                                         *)
(* The daemon, the binder driver and init are external: they appear as     *)
(* src/fod uses them.  A vendor manifest that is not part of this          *)
(* repository declares the daemon, so getService() waits for it and        *)
(* returns a proxy.                                                        *)
(***************************************************************************)
EXTENDS Integers, Sequences

CONSTANTS
  Clients,      \* the processes that call the HAL
  IoOutcomes    \* the results a sysfs access may have: TRUE done, FALSE refused

ASSUME FodAssumption == IoOutcomes \in (SUBSET BOOLEAN) \ {{}}

Ops == {"onPress", "onRelease", "onShowFODView", "onHideFODView", "query"}
Calls == [client : Clients, op : Ops]
NoCmd == "none"

\* The command each call sends; "query" stands for the calls that send none.
Command ==
  [onPress       |-> "NOTIFY_FINGER_DOWN", onRelease     |-> "NOTIFY_FINGER_UP",
   onShowFODView |-> "NOTIFY_UI_READY",    onHideFODView |-> "NOTIFY_UI_DISAPPER",
   query         |-> NoCmd]

FingerCommands == {"NOTIFY_FINGER_DOWN", "NOTIFY_FINGER_UP"}

VARIABLES
  queue,      \* the calls in the process, oldest first; the first is being served
  finger,     \* the finger event the running daemon heard last, or "none"
  ui,         \* the view event the running daemon heard last, or "none"
  hbm,        \* the high-brightness node, shared with other processes
  writer,     \* history: who wrote hbm last, "boot" if nobody has
  boost,      \* the scheduler boost node (qos_set)
  phase,      \* of the HAL's process: "gone", "built" (it has its proxy), "up" (it serves)
  cmd,        \* the command of the handler that is running, or NoCmd
  sent,       \* the daemon has that command, and the thread waits for its answer
  bound,      \* mGoodixFpDaemon refers to the daemon that runs now
  daemonUp,   \* the Goodix daemon is registered
  settled     \* history: the last press or release wrote hbm, and was not
              \* cut short before its command

nodes   == <<hbm, writer, boost, settled>>
heard   == <<finger, ui>>
serving == <<cmd, sent>>
vars == <<queue, finger, ui, hbm, writer, boost, phase, cmd, sent, bound, daemonUp, settled>>

TypeOK ==
  /\ queue \in Seq(Calls)
  /\ finger \in {"none", "down", "up"} /\ ui \in {"none", "ready", "gone"}
  /\ hbm \in {0, 1} /\ writer \in {"boot", "fod", "sunlight"} /\ boost \in {0, 1}
  /\ phase \in {"gone", "built", "up"} /\ cmd \in {Command[op] : op \in Ops}
  /\ sent \in BOOLEAN /\ bound \in BOOLEAN /\ daemonUp \in BOOLEAN /\ settled \in BOOLEAN

Init ==
  /\ queue = <<>> /\ finger = "none" /\ ui = "none"
  /\ hbm = 0 /\ writer = "boot" /\ boost = 0 /\ settled = TRUE
  /\ phase = "gone" /\ cmd = NoCmd /\ sent = FALSE /\ bound = FALSE /\ daemonUp = FALSE

-----------------------------------------------------------------------------
(* The binder driver: a client blocks in one call at a time; calls arrive  *)
(* at the only thread of the pool in order.                                *)

Waiting(c) == \E i \in DOMAIN queue : queue[i].client = c

Call(c, op) ==
  /\ phase = "up"
  /\ ~Waiting(c)
  /\ queue' = Append(queue, [client |-> c, op |-> op])
  /\ UNCHANGED <<heard, nodes, phase, serving, bound, daemonUp>>

-----------------------------------------------------------------------------
(* The handlers, up to the command they send.                              *)

Serving(op) == queue # <<>> /\ Head(queue).op = op /\ cmd = NoCmd

\* set(HBM_ENABLE_PATH, v): a refused write goes unnoticed.
SetHbm(v) ==
  \E ok \in IoOutcomes :
    /\ hbm' = IF ok THEN v ELSE hbm
    /\ writer' = IF ok THEN "fod" ELSE writer
    /\ settled' = ok

\* Mutated: the light goes off for a press.
OnPressDarkens ==
  /\ Serving("onPress")
  /\ SetHbm(0)
  /\ cmd' = Command["onPress"]
  /\ UNCHANGED <<queue, heard, boost, phase, sent, bound, daemonUp>>

OnPress ==
  /\ Serving("onPress")
  /\ SetHbm(1)
  /\ cmd' = Command["onPress"]
  /\ UNCHANGED <<queue, heard, boost, phase, sent, bound, daemonUp>>

\* Mutated: the release leaves the light on.
OnReleaseLeavesLight ==
  /\ Serving("onRelease")
  /\ cmd' = Command["onRelease"]
  /\ UNCHANGED <<queue, heard, nodes, phase, sent, bound, daemonUp>>

OnRelease ==
  /\ Serving("onRelease")
  /\ SetHbm(0)
  /\ cmd' = Command["onRelease"]
  /\ UNCHANGED <<queue, heard, boost, phase, sent, bound, daemonUp>>

OnShowFODView ==
  /\ Serving("onShowFODView")
  /\ boost' \in {IF ok THEN 1 ELSE boost : ok \in IoOutcomes}
  /\ cmd' = Command["onShowFODView"]
  /\ UNCHANGED <<queue, heard, hbm, writer, settled, phase, sent, bound, daemonUp>>

\* Mutated: the boost ends before the daemon is told; the command of the other
\* handler is sent.
OnHideFODViewUnboosts ==
  /\ Serving("onHideFODView")
  /\ boost' = 0
  /\ cmd' = Command["onHideFODView"]
  /\ UNCHANGED <<queue, heard, hbm, writer, settled, phase, sent, bound, daemonUp>>

OnHideFODViewSaysReady ==
  /\ Serving("onHideFODView")
  /\ cmd' = Command["onShowFODView"]
  /\ UNCHANGED <<queue, heard, nodes, phase, sent, bound, daemonUp>>

OnHideFODView ==
  /\ Serving("onHideFODView")
  /\ cmd' = Command["onHideFODView"]
  /\ UNCHANGED <<queue, heard, nodes, phase, sent, bound, daemonUp>>

\* The position, size, dim amount and the empty handlers: answered at once.
Query ==
  /\ Serving("query")
  /\ queue' = Tail(queue)
  /\ UNCHANGED <<heard, nodes, phase, serving, bound, daemonUp>>

-----------------------------------------------------------------------------
(* notifyHal(cmd): a synchronous sendCommand, whose failure is only logged. *)

SendCommand ==
  /\ finger' = CASE cmd = "NOTIFY_FINGER_DOWN" -> "down"
                 [] cmd = "NOTIFY_FINGER_UP"   -> "up"
                 [] OTHER                      -> finger
  /\ ui'     = CASE cmd = "NOTIFY_UI_READY"    -> "ready"
                 [] cmd = "NOTIFY_UI_DISAPPER" -> "gone"
                 [] OTHER                      -> ui

\* A proxy of a live daemon: the daemon has the command, the thread waits.
NotifyHal ==
  /\ cmd # NoCmd /\ bound /\ ~sent
  /\ SendCommand
  /\ sent' = TRUE
  /\ UNCHANGED <<queue, nodes, phase, cmd, bound, daemonUp>>

HandlerReturns ==
  /\ queue' = Tail(queue)
  /\ cmd' = NoCmd /\ sent' = FALSE
  /\ UNCHANGED <<heard, nodes, phase, bound, daemonUp>>

\* The daemon answers when it likes, or never.
DaemonOwes == sent /\ bound
DaemonAnswers == DaemonOwes /\ HandlerReturns

\* Mutated: a daemon that dies before it has answered is waited for.
NotifyFailsUnsent == cmd # NoCmd /\ ~bound /\ ~sent /\ HandlerReturns

\* A dead proxy: the call fails, before the command is sent or after.
NotifyFails == cmd # NoCmd /\ ~bound /\ HandlerReturns

-----------------------------------------------------------------------------
(* The life of the two processes.                                          *)

\* The constructor waits in getService() for the daemon.
Construct ==
  /\ phase = "gone" /\ daemonUp
  /\ phase' = "built"
  /\ bound' = TRUE
  /\ UNCHANGED <<queue, heard, nodes, serving, daemonUp>>

\* main() registers the service and joins the pool, or fails to and returns.
Start ==
  /\ phase = "built"
  /\ \/ phase' = "up" /\ UNCHANGED bound
     \/ phase' = "gone" /\ bound' = FALSE
  /\ UNCHANGED <<queue, heard, nodes, serving, daemonUp>>

\* The process is killed: its clients get an error, its nodes keep their values.
Die ==
  /\ phase # "gone"
  /\ phase' = "gone" /\ bound' = FALSE
  /\ queue' = <<>> /\ cmd' = NoCmd /\ sent' = FALSE
  /\ settled' = IF cmd \in FingerCommands /\ ~sent THEN FALSE ELSE settled
  /\ UNCHANGED <<heard, hbm, writer, boost, daemonUp>>

DaemonStart ==
  /\ ~daemonUp
  /\ daemonUp' = TRUE
  /\ UNCHANGED <<queue, heard, nodes, phase, serving, bound>>

\* The proxy the HAL holds stays dead, even when the daemon is restarted.
DaemonDie ==
  /\ daemonUp
  /\ daemonUp' = FALSE /\ bound' = FALSE
  /\ finger' = "none" /\ ui' = "none"
  /\ UNCHANGED <<queue, nodes, phase, serving>>

-----------------------------------------------------------------------------
Handlers == OnPress \/ OnRelease \/ OnShowFODView \/ OnHideFODView

Serve == Handlers \/ Query \/ NotifyHal \/ NotifyFails

Next ==
  \/ \E c \in Clients, op \in Ops : Call(c, op)
  \/ Serve \/ DaemonAnswers
  \/ Construct \/ Start \/ Die \/ DaemonStart \/ DaemonDie

Spec == Init /\ [][Next]_vars /\ WF_vars(Serve)

-----------------------------------------------------------------------------
(* Properties.                                                             *)

\* Unless a press or release is about to send its command, the light and what
\* the daemon knows of the finger agree: the light is on exactly while the daemon
\* has been told of a finger.  Exempt are a light someone else switched, a refused
\* write and a HAL killed between its write and its command
\* (FingerprintInscreen.cpp:89-99).
FingerAndLightAgree ==
  ((cmd \in FingerCommands => sent) /\ writer = "fod" /\ settled /\ finger # "none")
    => (finger = "down" <=> hbm = 1)

ToldUnderLight ==
  (finger' # finger /\ finger' # "none" /\ settled)
    => writer = "sunlight" \/ (finger' = "down" <=> hbm = 1)

\* The daemon scans only under light: it hears of a finger when the light is on,
\* and of its release when it is off, unless another process has switched it
\* since or the write was refused.  The order of the two statements of onPress
\* and onRelease, across every interleaving (FingerprintInscreen.cpp:89-99).
NodeBeforeCommand == [][ToldUnderLight]_vars

\* Where the node takes every write, the daemon is told that the view shows
\* only once the boost is on, and the boost outlives every restart of the HAL
\* (FingerprintInscreen.cpp:101-105).
BoostBeforeUiReady == (IoOutcomes = {TRUE} /\ ui = "ready") => boost = 1

\* No daemon that dies, and no client, holds up another one: every call is answered
\* unless a daemon that lives never answers a command again.  sendCommand is
\* synchronous and the pool has one thread, so the answers of a live daemon are
\* what a client has to rely on; a dead proxy fails the call, with the command in
\* the daemon's hands or not yet (FingerprintInscreen.cpp:138-145, service.cpp:37).
EveryCallReturns ==
  ([]<>~DaemonOwes) => \A c \in Clients : (Waiting(c) ~> ~Waiting(c))

Link == CASE phase = "gone" -> "none" [] phase # "gone" /\ bound -> "live" [] OTHER -> "dead"

\* The HAL implements the relay: the commands follow the calls, in their order,
\* each sent at most once, and exactly once while the proxy is alive, although the
\* call is read in one step and the command sent in another.
Relays == INSTANCE FodRelay WITH calls <- queue, told <- sent, link <- Link
RelaySpec == Relays!Spec

=============================================================================
