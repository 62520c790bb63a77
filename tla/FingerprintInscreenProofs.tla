--------------------- MODULE FingerprintInscreenProofs ---------------------
(***************************************************************************)
(* Theorems about the FOD HAL alone, for every set of clients and every    *)
(* behaviour of the nodes.  IInv strengthens the properties until each     *)
(* step preserves it: what the command in flight stands for, and what an   *)
(* unbound proxy implies for the daemon.                                   *)
(***************************************************************************)
EXTENDS FingerprintInscreen, FiniteSetTheorems, TLAPS

\* The command in flight is the one of the call being served.
ServedCall ==
  /\ cmd # NoCmd => queue # <<>> /\ cmd = Command[Head(queue).op]
  /\ sent => cmd # NoCmd

\* Only a running HAL has calls; a running HAL with a dead proxy serves while a
\* daemon, if any, has heard nothing.
Bindings ==
  /\ queue # <<>> => phase = "up"
  /\ bound => phase # "gone"
  /\ phase # "gone" /\ ~bound => finger = "none" /\ ui = "none"

\* While a finger command is in flight the node is as the handler left it, or
\* another process has written it since.
LightBeforeCommand ==
  settled => /\ cmd = "NOTIFY_FINGER_DOWN" => writer = "sunlight" \/ (writer = "fod" /\ hbm = 1)
             /\ cmd = "NOTIFY_FINGER_UP"   => writer = "sunlight" \/ (writer = "fod" /\ hbm = 0)

BoostBeforeCommand == IoOutcomes = {TRUE} /\ cmd = "NOTIFY_UI_READY" => boost = 1

CallInv  == ServedCall /\ Bindings
LightInv == LightBeforeCommand /\ FingerAndLightAgree
BoostInv == BoostBeforeCommand /\ BoostBeforeUiReady
IInv     == TypeOK /\ CallInv /\ LightInv /\ BoostInv

-----------------------------------------------------------------------------
\* The commands, one by one.
LEMMA CommandValues ==
  /\ Command["onPress"] = "NOTIFY_FINGER_DOWN"
  /\ Command["onRelease"] = "NOTIFY_FINGER_UP"
  /\ Command["onShowFODView"] = "NOTIFY_UI_READY"
  /\ Command["onHideFODView"] = "NOTIFY_UI_DISAPPER"
  /\ Command["query"] = NoCmd
  /\ {Command[op] : op \in Ops}
       = {"NOTIFY_FINGER_DOWN", "NOTIFY_FINGER_UP", "NOTIFY_UI_READY", "NOTIFY_UI_DISAPPER", NoCmd}
BY DEF Command, Ops

\* The queue of a process that was just started, or killed.
LEMMA NoCalls == <<>> \in Seq(Calls)
OBVIOUS

\* The invariant holds when the device boots.
LEMMA InitIInv == Init => IInv
<1> SUFFICES ASSUME Init PROVE IInv
  OBVIOUS
<1>1. TypeOK
  BY CommandValues, NoCalls DEF Init, TypeOK
<1>2. CallInv
  BY DEF Init, CallInv, ServedCall, Bindings
<1>3. LightInv
  BY DEF Init, LightInv, LightBeforeCommand, FingerAndLightAgree, NoCmd
<1>4. BoostInv
  BY DEF Init, BoostInv, BoostBeforeCommand, BoostBeforeUiReady, NoCmd
<1> QED
  BY <1>1, <1>2, <1>3, <1>4 DEF IInv

\* Every step of the HAL, the daemon and the clients preserves the invariant.
LEMMA StepIInv == IInv /\ [Next]_vars => IInv'
<1> SUFFICES ASSUME IInv, [Next]_vars PROVE IInv'
  OBVIOUS
<1> USE FodAssumption, CommandValues DEF NoCmd
<1>1. ASSUME NEW c \in Clients, NEW op \in Ops, Call(c, op) PROVE IInv'
  <2>1. [client |-> c, op |-> op] \in Calls
    BY DEF Calls
  <2>2. queue' \in Seq(Calls) /\ queue' # <<>> /\ (queue # <<>> => Head(queue') = Head(queue))
    BY <1>1, <2>1 DEF Call, IInv, TypeOK
  <2>3. TypeOK'
    BY <1>1, <2>2 DEF Call, IInv, TypeOK, nodes, heard, serving
  <2>4. CallInv'
    BY <1>1, <2>2 DEF Call, IInv, CallInv, ServedCall, Bindings, heard, serving
  <2>5. LightInv'
    BY <1>1 DEF Call, IInv, LightInv, LightBeforeCommand, FingerAndLightAgree, nodes, heard, serving
  <2>6. BoostInv'
    BY <1>1 DEF Call, IInv, BoostInv, BoostBeforeCommand, BoostBeforeUiReady, nodes, heard, serving
  <2> QED
    BY <2>3, <2>4, <2>5, <2>6 DEF IInv
<1>2. CASE OnPress
  <2>1. TypeOK'
    BY <1>2 DEF IInv, TypeOK, OnPress, Serving, SetHbm, heard
  <2>2. CallInv'
    BY <1>2 DEF IInv, CallInv, ServedCall, Bindings, OnPress, Serving, SetHbm, heard
  <2>3. LightInv'
    BY <1>2 DEF IInv, LightInv, LightBeforeCommand, FingerAndLightAgree, FingerCommands,
           CallInv, ServedCall, OnPress, Serving, SetHbm, heard
  <2>4. BoostInv'
    BY <1>2 DEF IInv, BoostInv, BoostBeforeCommand, BoostBeforeUiReady, OnPress,
           Serving, SetHbm, heard
  <2> QED
    BY <2>1, <2>2, <2>3, <2>4 DEF IInv
<1>3. CASE OnRelease
  <2>1. TypeOK'
    BY <1>3 DEF IInv, TypeOK, OnRelease, Serving, SetHbm, heard
  <2>2. CallInv'
    BY <1>3 DEF IInv, CallInv, ServedCall, Bindings, OnRelease, Serving, SetHbm, heard
  <2>3. LightInv'
    BY <1>3 DEF IInv, LightInv, LightBeforeCommand, FingerAndLightAgree, FingerCommands,
           CallInv, ServedCall, OnRelease, Serving, SetHbm, heard
  <2>4. BoostInv'
    BY <1>3 DEF IInv, BoostInv, BoostBeforeCommand, BoostBeforeUiReady, OnRelease,
           Serving, SetHbm, heard
  <2> QED
    BY <2>1, <2>2, <2>3, <2>4 DEF IInv
<1>4. CASE OnShowFODView
  <2>1. TypeOK'
    BY <1>4 DEF IInv, TypeOK, OnShowFODView, Serving, heard
  <2>2. CallInv'
    BY <1>4 DEF IInv, CallInv, ServedCall, Bindings, OnShowFODView, Serving, heard
  <2>3. LightInv'
    BY <1>4 DEF IInv, LightInv, LightBeforeCommand, FingerAndLightAgree, FingerCommands,
           OnShowFODView, Serving, heard
  <2>4. BoostInv'
    BY <1>4 DEF IInv, BoostInv, BoostBeforeCommand, BoostBeforeUiReady, OnShowFODView,
           Serving, heard
  <2> QED
    BY <2>1, <2>2, <2>3, <2>4 DEF IInv
<1>5. CASE OnHideFODView
  <2>1. TypeOK'
    BY <1>5 DEF IInv, TypeOK, OnHideFODView, Serving, heard, nodes
  <2>2. CallInv'
    BY <1>5 DEF IInv, CallInv, ServedCall, Bindings, OnHideFODView, Serving, heard,
           nodes
  <2>3. LightInv'
    BY <1>5 DEF IInv, LightInv, LightBeforeCommand, FingerAndLightAgree, FingerCommands,
           OnHideFODView, Serving, heard, nodes
  <2>4. BoostInv'
    BY <1>5 DEF IInv, BoostInv, BoostBeforeCommand, BoostBeforeUiReady, OnHideFODView,
           Serving, heard, nodes
  <2> QED
    BY <2>1, <2>2, <2>3, <2>4 DEF IInv
<1>6. CASE Query
  <2>1. TypeOK'
    BY <1>6 DEF IInv, TypeOK, Query, Serving, heard, nodes, serving
  <2>2. CallInv'
    BY <1>6 DEF IInv, CallInv, ServedCall, Bindings, Query, Serving, heard, nodes, serving
  <2>3. LightInv'
    BY <1>6 DEF IInv, LightInv, LightBeforeCommand, FingerAndLightAgree, FingerCommands,
           Query, Serving, heard, nodes, serving
  <2>4. BoostInv'
    BY <1>6 DEF IInv, BoostInv, BoostBeforeCommand, BoostBeforeUiReady, Query, Serving,
           heard, nodes, serving
  <2> QED
    BY <2>1, <2>2, <2>3, <2>4 DEF IInv
<1>7. CASE NotifyHal
  <2>1. TypeOK'
    BY <1>7 DEF IInv, TypeOK, NotifyHal, SendCommand, nodes
  <2>2. CallInv'
    BY <1>7 DEF IInv, CallInv, ServedCall, Bindings, NotifyHal, SendCommand, nodes
  <2>3. LightInv'
    BY <1>7 DEF IInv, LightInv, LightBeforeCommand, FingerAndLightAgree, FingerCommands,
           CallInv, ServedCall, Bindings, NotifyHal, SendCommand, nodes
  <2>4. BoostInv'
    BY <1>7 DEF IInv, BoostInv, BoostBeforeCommand, BoostBeforeUiReady, NotifyHal,
           SendCommand, nodes
  <2> QED
    BY <2>1, <2>2, <2>3, <2>4 DEF IInv
<1>13. CASE DaemonAnswers \/ NotifyFails
  <2>1. HandlerReturns /\ cmd # NoCmd /\ queue # <<>> /\ (sent \/ ~bound)
    BY <1>13 DEF DaemonAnswers, DaemonOwes, NotifyFails, IInv, CallInv, ServedCall
  <2>2. TypeOK'
    <3>1. queue' \in Seq(Calls)
      BY <2>1 DEF IInv, TypeOK, HandlerReturns
    <3> QED
      BY <2>1, <3>1 DEF IInv, TypeOK, HandlerReturns, heard, nodes
  <2>3. CallInv'
    BY <2>1 DEF IInv, CallInv, ServedCall, Bindings, HandlerReturns, heard, nodes
  <2>4. LightInv'
    BY <2>1 DEF IInv, LightInv, LightBeforeCommand, FingerAndLightAgree, FingerCommands,
           CallInv, Bindings, HandlerReturns, heard, nodes
  <2>5. BoostInv'
    BY <2>1 DEF IInv, BoostInv, BoostBeforeCommand, BoostBeforeUiReady, HandlerReturns,
           heard, nodes
  <2> QED
    BY <2>2, <2>3, <2>4, <2>5 DEF IInv
<1>8. CASE Start
  <2>1. TypeOK'
    BY <1>8 DEF IInv, TypeOK, Start, heard, nodes, serving
  <2>2. CallInv'
    BY <1>8 DEF IInv, CallInv, ServedCall, Bindings, Start, heard, nodes, serving
  <2>3. LightInv'
    BY <1>8 DEF IInv, LightInv, LightBeforeCommand, FingerAndLightAgree, FingerCommands,
           Start, heard, nodes, serving
  <2>4. BoostInv'
    BY <1>8 DEF IInv, BoostInv, BoostBeforeCommand, BoostBeforeUiReady, Start, heard,
           nodes, serving
  <2> QED
    BY <2>1, <2>2, <2>3, <2>4 DEF IInv
<1>14. CASE Construct
  <2>1. TypeOK'
    BY <1>14 DEF IInv, TypeOK, Construct, heard, nodes, serving
  <2>2. CallInv'
    BY <1>14 DEF IInv, CallInv, ServedCall, Bindings, Construct, heard, nodes, serving
  <2>3. LightInv'
    BY <1>14 DEF IInv, LightInv, LightBeforeCommand, FingerAndLightAgree, FingerCommands,
           Construct, heard, nodes, serving
  <2>4. BoostInv'
    BY <1>14 DEF IInv, BoostInv, BoostBeforeCommand, BoostBeforeUiReady, Construct, heard,
           nodes, serving
  <2> QED
    BY <2>1, <2>2, <2>3, <2>4 DEF IInv
<1>9. CASE Die
  <2>1. TypeOK'
    BY <1>9, NoCalls DEF IInv, TypeOK, Die, heard
  <2>2. CallInv'
    BY <1>9 DEF IInv, CallInv, ServedCall, Bindings, Die, heard
  <2>3. LightInv'
    BY <1>9 DEF IInv, LightInv, LightBeforeCommand, FingerAndLightAgree, FingerCommands,
           Die, heard
  <2>4. BoostInv'
    BY <1>9 DEF IInv, BoostInv, BoostBeforeCommand, BoostBeforeUiReady, Die, heard
  <2> QED
    BY <2>1, <2>2, <2>3, <2>4 DEF IInv
<1>10. CASE DaemonStart
  <2>1. TypeOK'
    BY <1>10 DEF IInv, TypeOK, DaemonStart, heard, nodes, serving
  <2>2. CallInv'
    BY <1>10 DEF IInv, CallInv, ServedCall, Bindings, DaemonStart, heard, nodes, serving
  <2>3. LightInv'
    BY <1>10 DEF IInv, LightInv, LightBeforeCommand, FingerAndLightAgree,
           FingerCommands, DaemonStart, heard, nodes, serving
  <2>4. BoostInv'
    BY <1>10 DEF IInv, BoostInv, BoostBeforeCommand, BoostBeforeUiReady, DaemonStart,
           heard, nodes, serving
  <2> QED
    BY <2>1, <2>2, <2>3, <2>4 DEF IInv
<1>11. CASE DaemonDie
  <2>1. TypeOK'
    BY <1>11 DEF IInv, TypeOK, DaemonDie, nodes, serving
  <2>2. CallInv'
    BY <1>11 DEF IInv, CallInv, ServedCall, Bindings, DaemonDie, nodes, serving
  <2>3. LightInv'
    BY <1>11 DEF IInv, LightInv, LightBeforeCommand, FingerAndLightAgree,
           FingerCommands, DaemonDie, nodes, serving
  <2>4. BoostInv'
    BY <1>11 DEF IInv, BoostInv, BoostBeforeCommand, BoostBeforeUiReady, DaemonDie,
           nodes, serving
  <2> QED
    BY <2>1, <2>2, <2>3, <2>4 DEF IInv
<1>12. CASE UNCHANGED vars
  <2>1. TypeOK'
    BY <1>12 DEF IInv, TypeOK, vars
  <2>2. CallInv'
    BY <1>12 DEF IInv, CallInv, ServedCall, Bindings, vars
  <2>3. LightInv'
    BY <1>12 DEF IInv, LightInv, LightBeforeCommand, FingerAndLightAgree,
           FingerCommands, vars
  <2>4. BoostInv'
    BY <1>12 DEF IInv, BoostInv, BoostBeforeCommand, BoostBeforeUiReady, vars
  <2> QED
    BY <2>1, <2>2, <2>3, <2>4 DEF IInv
<1> QED
  BY <1>1, <1>2, <1>3, <1>4, <1>5, <1>6, <1>7, <1>8, <1>9, <1>10, <1>11, <1>12, <1>13, <1>14
     DEF Next, Serve, Handlers

-----------------------------------------------------------------------------
\* Type correctness of the FOD HAL, for every set of clients.
THEOREM FodTypeCorrect == Spec => []TypeOK
<1>1. IInv => TypeOK
  BY DEF IInv
<1> QED
  BY InitIInv, StepIInv, <1>1, PTL DEF Spec

\* The daemon hears that the view shows only after the boost is on, whoever dies
\* when, as long as the node takes its writes.
THEOREM BoostPrecedesUiReady == Spec => []BoostBeforeUiReady
<1>1. IInv => BoostBeforeUiReady
  BY DEF IInv, BoostInv
<1> QED
  BY InitIInv, StepIInv, <1>1, PTL DEF Spec

-----------------------------------------------------------------------------
\* A step of the HAL is a step of the relay, or none of its business: a handler
\* up to its command stutters, the command sent is the oldest call relayed, and a
\* handler that returns answers it.
LEMMA StepRelays == IInv /\ [Next]_vars => [Relays!Next]_(Relays!vars)
<1> SUFFICES ASSUME IInv, [Next]_vars PROVE [Relays!Next]_(Relays!vars)
  OBVIOUS
<1>0. phase \in {"gone", "built", "up"} /\ bound \in BOOLEAN
  BY DEF IInv, TypeOK
<1>1. ASSUME NEW c \in Clients, NEW op \in Ops, Call(c, op) PROVE Relays!Next
  <2>1. Link # "none" /\ Link' = Link
    BY <1>1 DEF Call, Link
  <2>2. Relays!Request(c, op)
    BY <1>1, <2>1 DEF Call, Waiting, Relays!Request, Relays!Waiting, heard, serving
  <2> QED
    BY <2>2 DEF Relays!Next, Ops, Relays!Ops
<1>2. CASE Handlers
  BY <1>2 DEF Handlers, OnPress, OnRelease, OnShowFODView, OnHideFODView, heard, Link, Relays!vars
<1>3. CASE Query
  <2>1. Link' = Link
    BY <1>3 DEF Query, Link
  <2>2. sent = FALSE
    BY <1>3 DEF Query, Serving, IInv, TypeOK, CallInv, ServedCall
  <2> QED
    BY <1>3, <2>1, <2>2 DEF Query, Serving, heard, serving, Relays!Next, Relays!Answer
<1>4. CASE NotifyHal
  <2>1. queue # <<>> /\ cmd = Command[Head(queue).op] /\ phase = "up"
    BY <1>4 DEF NotifyHal, IInv, CallInv, ServedCall, Bindings
  <2>2. Head(queue).op \in Ops
    <3>1. Head(queue) \in Calls
      BY <2>1 DEF IInv, TypeOK
    <3> QED
      BY <3>1 DEF Calls
  <2>3. Relays!Tells(Head(queue).op) /\ Head(queue).op # "query"
    BY <1>4, <2>1, <2>2, CommandValues DEF NotifyHal, SendCommand, Ops, NoCmd, Relays!Tells
  <2>4. Link = "live" /\ Link' = Link
    BY <1>4, <2>1 DEF NotifyHal, Link
  <2>5. Relays!Relay
    BY <1>4, <2>1, <2>3, <2>4 DEF NotifyHal, Relays!Relay
  <2> QED
    BY <2>5 DEF Relays!Next
<1>5. CASE DaemonAnswers \/ NotifyFails
  <2>1. HandlerReturns /\ cmd # NoCmd /\ queue # <<>> /\ phase = "up" /\ (sent \/ ~bound)
    BY <1>5 DEF DaemonAnswers, DaemonOwes, NotifyFails, IInv, CallInv, ServedCall, Bindings
  <2>2. Link' = Link /\ (sent \/ Link = "dead")
    BY <2>1 DEF HandlerReturns, Link
  <2>3. Relays!Answer
    BY <2>1, <2>2 DEF HandlerReturns, heard, Relays!Answer
  <2> QED
    BY <2>3 DEF Relays!Next
<1>6. CASE Construct
  <2>1. Link = "none" /\ Link' = "live"
    BY <1>6 DEF Construct, Link
  <2>2. Relays!Connect
    BY <1>6, <2>1 DEF Construct, heard, serving, Relays!Connect
  <2> QED
    BY <2>2 DEF Relays!Next
<1>7. CASE Start
  <2>1. CASE phase' = "up" /\ UNCHANGED bound
    BY <1>7, <2>1 DEF Start, heard, serving, Link, Relays!vars
  <2>2. CASE phase' = "gone"
    <3>1. queue' = <<>> /\ sent' = FALSE
      BY <1>7 DEF Start, serving, IInv, TypeOK, CallInv, ServedCall, Bindings
    <3>2. Relays!Crash
      BY <1>7, <2>2, <3>1 DEF Start, heard, Link, Relays!Crash
    <3> QED
      BY <3>2 DEF Relays!Next
  <2> QED
    BY <1>7, <2>1, <2>2 DEF Start
<1>8. CASE Die
  BY <1>8 DEF Die, heard, Link, Relays!Next, Relays!Crash
<1>9. CASE DaemonStart
  BY <1>9 DEF DaemonStart, heard, serving, Link, Relays!vars
<1>10. CASE DaemonDie
  <2>1. Link' = IF Link = "live" THEN "dead" ELSE Link
    BY <1>0, <1>10 DEF DaemonDie, Link
  <2>2. Relays!Forget
    BY <1>10, <2>1 DEF DaemonDie, serving, Relays!Forget
  <2> QED
    BY <2>2 DEF Relays!Next
<1>11. CASE UNCHANGED vars
  BY <1>11 DEF vars, Link, Relays!vars
<1> QED
  BY <1>1, <1>2, <1>3, <1>4, <1>5, <1>6, <1>7, <1>8, <1>9, <1>10, <1>11 DEF Next, Serve

\* The HAL implements the relay: its commands are the calls made to it, in their
\* order, each at most once and none skipped while its proxy is alive, for any number
\* of clients (the liveness half of Relays!Spec is left to TLC).
THEOREM FodImplementsRelay == Spec => Relays!SafeSpec
<1>1. Init => Relays!Init
  BY DEF Init, Link, Relays!Init
<1> QED
  BY InitIInv, StepIInv, StepRelays, <1>1, PTL DEF Spec, Relays!SafeSpec

-----------------------------------------------------------------------------
\* A client has one call in the process at a time.
OneCallEach == \A k, n \in DOMAIN queue : queue[k].client = queue[n].client => k = n

\* What a queue is made of, before and after a call is appended or answered.
LEMMA QueueOf ==
  ASSUME NEW T, NEW q \in Seq(T)
  PROVE  /\ DOMAIN q = 1..Len(q) /\ Len(q) \in Nat /\ \A k \in DOMAIN q : q[k] \in T
         /\ \A e \in T : /\ DOMAIN Append(q, e) = 1..(Len(q) + 1)
                           /\ Append(q, e)[Len(q) + 1] = e
                           /\ \A k \in 1..Len(q) : Append(q, e)[k] = q[k]
         /\ q # <<>> => /\ Len(q) > 0 /\ Head(q) = q[1] /\ DOMAIN Tail(q) = 1..(Len(q) - 1)
                        /\ \A k \in 1..(Len(q) - 1) : Tail(q)[k] = q[k + 1]
OBVIOUS

\* The steps that take the oldest call out of the queue, or none.
Answers == queue # <<>> /\ queue' = Tail(queue)

\* The steps that bring the oldest call forward: those of the HAL, and the daemon's
\* answer.
Proceed == Serve \/ DaemonAnswers

LEMMA QueueSteps ==
  IInv /\ [Next]_vars =>
    \/ \E c \in Clients, op \in Ops : Call(c, op)
    \/ queue' = queue /\ cmd = NoCmd /\ cmd' # NoCmd /\ ~sent /\ ~sent'
    \/ queue' = queue /\ cmd # NoCmd /\ cmd' = cmd /\ ~sent /\ sent'
    \/ queue' = queue /\ UNCHANGED serving /\ ~Proceed
    \/ Answers /\ cmd' = NoCmd
    \/ queue' = <<>> /\ ~Proceed
<1> SUFFICES ASSUME IInv, [Next]_vars, ~(\E c \in Clients, op \in Ops : Call(c, op))
             PROVE  \/ queue' = queue /\ cmd = NoCmd /\ cmd' # NoCmd /\ ~sent /\ ~sent'
                    \/ queue' = queue /\ cmd # NoCmd /\ cmd' = cmd /\ ~sent /\ sent'
                    \/ queue' = queue /\ UNCHANGED serving /\ ~Proceed
                    \/ Answers /\ cmd' = NoCmd
                    \/ queue' = <<>> /\ ~Proceed
  OBVIOUS
<1>1. CASE Handlers
  <2>1. queue' = queue /\ cmd = NoCmd /\ cmd' \in {Command[op] : op \in Ops \ {"query"}}
    BY <1>1 DEF Handlers, OnPress, OnRelease, OnShowFODView, OnHideFODView, Serving, Ops
  <2>2. cmd' # NoCmd
    BY <2>1, CommandValues DEF Ops, NoCmd
  <2>3. ~sent /\ sent' = sent
    BY <1>1, <2>1
       DEF Handlers, OnPress, OnRelease, OnShowFODView, OnHideFODView, IInv, CallInv, ServedCall
  <2> QED
    BY <2>1, <2>2, <2>3
<1>2. CASE Query
  <2>1. queue # <<>> /\ queue' = Tail(queue) /\ cmd = NoCmd /\ cmd' = cmd
    BY <1>2 DEF Query, Serving, serving
  <2> QED
    BY <2>1 DEF Answers
<1>3. CASE NotifyHal
  BY <1>3 DEF NotifyHal
<1>4. CASE NotifyFails \/ DaemonAnswers
  BY <1>4 DEF NotifyFails, DaemonAnswers, DaemonOwes, HandlerReturns, IInv, CallInv, ServedCall,
              Answers
<1>5. CASE Proceed
  BY <1>1, <1>2, <1>3, <1>4, <1>5 DEF Proceed, Serve
<1>6. CASE ~Proceed
  <2>1. CASE Die
    BY <1>6, <2>1 DEF Die
  <2>2. CASE Construct \/ Start \/ DaemonStart \/ DaemonDie \/ UNCHANGED vars
    <3>1. queue' = queue /\ UNCHANGED serving
      BY <2>2 DEF Construct, Start, DaemonStart, DaemonDie, vars, serving
    <3> QED
      BY <1>6, <3>1
  <2> QED
    BY <1>6, <2>1, <2>2 DEF Next, Proceed
<1> QED
  BY <1>5, <1>6

LEMMA StepOneCallEach == IInv /\ OneCallEach /\ [Next]_vars => OneCallEach'
<1> SUFFICES ASSUME IInv, OneCallEach, [Next]_vars PROVE OneCallEach'
  OBVIOUS
<1>1. queue \in Seq(Calls)
  BY DEF IInv, TypeOK
<1>2. ASSUME NEW c \in Clients, NEW op \in Ops, Call(c, op) PROVE OneCallEach'
  <2> DEFINE e == [client |-> c, op |-> op]
             m == Len(queue) + 1
  <2>1. e \in Calls /\ e.client = c /\ queue' = Append(queue, e)
    BY <1>2 DEF Call, Calls
  <2> HIDE DEF e
  <2>2. /\ DOMAIN queue = 1..Len(queue) /\ Len(queue) \in Nat
        /\ DOMAIN queue' = 1..m /\ queue'[m] = e
        /\ \A k \in 1..Len(queue) : queue'[k] = queue[k]
    BY <1>1, <2>1, QueueOf
  <2>3. \A k \in 1..Len(queue) : queue[k].client # c
    BY <1>2, <2>2 DEF Call, Waiting
  <2>4. \A k \in 1..m : k = m \/ k \in 1..Len(queue)
    BY <2>2
  <2> QED
    BY <2>1, <2>2, <2>3, <2>4 DEF OneCallEach
<1>3. CASE Answers
  <2>1. /\ DOMAIN queue = 1..Len(queue) /\ Len(queue) \in Nat
        /\ DOMAIN queue' = 1..(Len(queue) - 1)
        /\ \A k \in 1..(Len(queue) - 1) : queue'[k] = queue[k + 1]
    BY <1>1, <1>3, QueueOf DEF Answers
  <2>2. SUFFICES ASSUME NEW k \in 1..(Len(queue) - 1), NEW n \in 1..(Len(queue) - 1),
                        queue[k + 1].client = queue[n + 1].client
                 PROVE  k = n
    BY <2>1 DEF OneCallEach
  <2>3. k + 1 \in DOMAIN queue /\ n + 1 \in DOMAIN queue
    BY <2>1
  <2>4. k + 1 = n + 1
    BY <2>2, <2>3 DEF OneCallEach
  <2> QED
    BY <2>1, <2>4
<1>4. CASE queue' = queue
  BY <1>4 DEF OneCallEach
<1>5. CASE queue' = <<>>
  BY <1>5 DEF OneCallEach
<1> QED
  BY <1>2, <1>3, <1>4, <1>5, QueueSteps

-----------------------------------------------------------------------------
\* The place of the call of c, and the steps until it is answered: three for each call
\* up to its own, less those the handler that runs has done.
Place(c) == CHOOSE k \in DOMAIN queue : queue[k].client = c

Done == IF cmd = NoCmd THEN 0 ELSE IF ~sent THEN 1 ELSE 2

Ahead(c) == 3 * Place(c) - Done

\* While c waits, nothing puts it back, and each step of the HAL, and each answer of
\* the daemon, brings it forward.
Advances(c) ==
  (Waiting(c) /\ Waiting(c)') =>
    /\ Ahead(c) \in Nat /\ Ahead(c)' \in Nat
    /\ Ahead(c)' =< Ahead(c)
    /\ Proceed => Ahead(c)' < Ahead(c)

LEMMA PlaceOf ==
  OneCallEach => \A c \in Clients : \A k \in DOMAIN queue : queue[k].client = c => Place(c) = k
<1> SUFFICES ASSUME OneCallEach, NEW c \in Clients, NEW k \in DOMAIN queue, queue[k].client = c
             PROVE  Place(c) = k
  OBVIOUS
<1>1. Place(c) \in DOMAIN queue /\ queue[Place(c)].client = c
  BY DEF Place
<1> QED
  BY <1>1 DEF OneCallEach

LEMMA StepAdvances ==
  IInv /\ OneCallEach /\ OneCallEach' /\ [Next]_vars => \A c \in Clients : Advances(c)
<1> SUFFICES ASSUME IInv, OneCallEach, OneCallEach', [Next]_vars, NEW c \in Clients,
                    Waiting(c), Waiting(c)'
             PROVE  /\ Ahead(c) \in Nat /\ Ahead(c)' \in Nat
                    /\ Ahead(c)' =< Ahead(c)
                    /\ Proceed => Ahead(c)' < Ahead(c)
  BY DEF Advances
<1>1. queue \in Seq(Calls)
  BY DEF IInv, TypeOK
<1>2. DOMAIN queue = 1..Len(queue) /\ Len(queue) \in Nat
  BY <1>1, QueueOf
<1>3. PICK k \in 1..Len(queue) : queue[k].client = c
  BY <1>2 DEF Waiting
<1>4. Place(c) = k /\ k \in Nat /\ k >= 1
  BY <1>2, <1>3, PlaceOf
<1>5. ASSUME NEW n \in DOMAIN queue', queue'[n].client = c PROVE Place(c)' = n
  <2>1. Place(c)' = CHOOSE m \in DOMAIN queue' : queue'[m].client = c
    BY DEF Place
  <2>2. Place(c)' \in DOMAIN queue' /\ queue'[Place(c)'].client = c
    BY <1>5, <2>1
  <2> QED
    BY <1>5, <2>2 DEF OneCallEach
<1>6. Ahead(c) = 3 * k - Done /\ Done \in 0..2 /\ Ahead(c) \in Nat
  BY <1>4 DEF Ahead, Done
<1>7. ASSUME NEW d \in Clients, NEW op \in Ops, Call(d, op)
      PROVE  Ahead(c)' = Ahead(c) /\ ~Proceed
  <2>1. /\ queue' = Append(queue, [client |-> d, op |-> op]) /\ Done' = Done
        /\ [client |-> d, op |-> op] \in Calls
    BY <1>7 DEF Call, Calls, serving, Done
  <2>2. k \in DOMAIN queue' /\ queue'[k] = queue[k]
    BY <1>1, <1>2, <1>3, <2>1, QueueOf
  <2>3. Place(c)' = k
    BY <1>3, <1>5, <2>2
  <2>4. Len(queue') = Len(queue) + 1
    BY <1>1, <2>1
  <2>5. ~Proceed
    <3>1. ASSUME Proceed PROVE queue' = queue \/ queue' = Tail(queue)
      BY <3>1 DEF Proceed, Serve, Handlers, OnPress, OnRelease, OnShowFODView, OnHideFODView, Query,
                  NotifyHal, NotifyFails, DaemonAnswers, HandlerReturns
    <3>2. queue' # queue
      BY <1>2, <2>4
    <3>3. queue' # Tail(queue)
      <4>1. queue # <<>>
        BY <1>2, <1>3
      <4>2. Len(Tail(queue)) = Len(queue) - 1
        BY <1>1, <4>1
      <4>3. \A n \in Nat : n + 1 # n - 1
        OBVIOUS
      <4> QED
        BY <1>2, <2>4, <4>2, <4>3
    <3> QED
      BY <3>1, <3>2, <3>3
  <2> QED
    BY <1>4, <2>1, <2>3, <2>5 DEF Ahead
<1>8. ASSUME queue' = queue PROVE Ahead(c)' = 3 * k - Done'
  BY <1>2, <1>3, <1>5, <1>8 DEF Ahead
<1>9. CASE queue' = queue /\ cmd = NoCmd /\ cmd' # NoCmd /\ ~sent /\ ~sent'
  <2>1. Done = 0 /\ Done' = 1
    BY <1>9 DEF Done
  <2> QED
    BY <1>4, <1>6, <1>8, <1>9, <2>1
<1>10. CASE queue' = queue /\ cmd # NoCmd /\ cmd' = cmd /\ ~sent /\ sent'
  <2>1. Done = 1 /\ Done' = 2
    BY <1>10 DEF Done
  <2> QED
    BY <1>4, <1>6, <1>8, <1>10, <2>1
<1>13. CASE queue' = queue /\ UNCHANGED serving /\ ~Proceed
  <2>1. Done' = Done
    BY <1>13 DEF Done, serving
  <2> QED
    BY <1>6, <1>8, <1>13, <2>1
<1>11. CASE Answers /\ cmd' = NoCmd
  <2>1. /\ DOMAIN queue' = 1..(Len(queue) - 1) /\ queue # <<>>
        /\ \A n \in 1..(Len(queue) - 1) : queue'[n] = queue[n + 1]
    BY <1>1, <1>11, QueueOf DEF Answers
  <2>2. PICK n \in 1..(Len(queue) - 1) : queue'[n].client = c
    BY <2>1 DEF Waiting
  <2>3. n + 1 \in DOMAIN queue /\ queue[n + 1].client = c /\ n \in Nat /\ n >= 1
    BY <1>2, <2>1, <2>2
  <2>4. n + 1 = k
    BY <1>4, <2>3, PlaceOf
  <2>5. Place(c)' = n
    BY <1>5, <2>1, <2>2
  <2>6. Ahead(c)' = 3 * n
    BY <1>11, <2>3, <2>5 DEF Ahead, Done
  <2> QED
    BY <1>6, <2>3, <2>4, <2>6
<1>12. queue' # <<>>
  BY DEF Waiting
<1> QED
  BY <1>6, <1>7, <1>9, <1>10, <1>11, <1>12, <1>13, QueueSteps

\* The first half of EveryCallReturns, for every number of clients: calls are answered
\* in the order they arrive, nothing puts a waiting client back, and each step of the
\* thread that serves, and each answer of the daemon, brings it forward or sets it free
\* (FingerprintInscreen.cpp:138-145, service.cpp:37).
THEOREM NoCallIsOvertaken ==
  ASSUME NEW c \in Clients
  PROVE  Spec => [][Advances(c)]_vars
<1>1. Init => OneCallEach
  BY DEF Init, OneCallEach
<1>2. IInv /\ OneCallEach /\ OneCallEach' /\ [Next]_vars => [Advances(c)]_vars
  BY StepAdvances
<1> QED
  BY <1>1, <1>2, InitIInv, StepIInv, StepOneCallEach, PTL DEF Spec

\* No two calls of one client wait: with finitely many clients, the queue has no more
\* places than there are clients.
LEMMA QueueFits ==
  ASSUME IInv, OneCallEach, IsFiniteSet(Clients)
  PROVE  Len(queue) \in Nat /\ Cardinality(Clients) \in Nat
         /\ Len(queue) =< Cardinality(Clients)
<1> DEFINE n == Len(queue)
           who == [k \in 1..n |-> queue[k].client]
<1>1. n \in Nat /\ DOMAIN queue = 1..n /\ \A k \in 1..n : queue[k].client \in Clients
  <2>1. queue \in Seq(Calls)
    BY DEF IInv, TypeOK
  <2>2. DOMAIN queue = 1..n /\ n \in Nat /\ \A k \in 1..n : queue[k] \in Calls
    BY <2>1, QueueOf
  <2> QED
    BY <2>2 DEF Calls
<1>2. who \in Injection(1..n, Clients)
  <2>1. who \in [1..n -> Clients]
    BY <1>1
  <2>2. ASSUME NEW k \in 1..n, NEW m \in 1..n, who[k] = who[m] PROVE k = m
    <3>1. queue[k].client = queue[m].client
      BY <2>2
    <3> QED
      BY <1>1, <3>1 DEF OneCallEach
  <2> HIDE DEF who
  <2> QED
    BY <2>1, <2>2 DEF Injection, IsInjective
<1>3. Cardinality(1..n) =< Cardinality(Clients) /\ Cardinality(Clients) \in Nat
  BY <1>2, FS_Injection, FS_CardinalityType
<1>4. Cardinality(1..n) = n
  <2>1. 1 \in Int /\ n \in Int
    BY <1>1
  <2>2. Cardinality(1..n) = IF 1 > n THEN 0 ELSE n - 1 + 1
    BY <2>1, FS_Interval
  <2> QED
    BY <1>1, <2>2
<1> QED
  BY <1>1, <1>3, <1>4

LEMMA WaitFits ==
  ASSUME IInv, OneCallEach, IsFiniteSet(Clients), NEW c \in Clients, Waiting(c)
  PROVE  Ahead(c) \in 1..(3 * Cardinality(Clients))
<1>1. DOMAIN queue = 1..Len(queue)
  BY QueueOf DEF IInv, TypeOK
<1>2. PICK k \in 1..Len(queue) : queue[k].client = c
  BY <1>1 DEF Waiting
<1>3. Place(c) = k
  BY <1>1, <1>2, PlaceOf
<1> DEFINE n == Cardinality(Clients)
<1>4. n \in Nat /\ k \in Nat /\ k >= 1 /\ k =< n
  BY <1>2, QueueFits
<1> HIDE DEF n
<1>5. Ahead(c) = 3 * k \/ Ahead(c) = 3 * k - 1 \/ Ahead(c) = 3 * k - 2
  BY <1>3, <1>4 DEF Ahead, Done
<1>6. Ahead(c) \in 1..(3 * n)
  BY <1>4, <1>5
<1> QED
  BY <1>6 DEF n

\* How long a call can wait at most: for three steps for each client there is, its own
\* among them, two of the HAL and one answer of the daemon; the pool's one thread never
\* has more to do than that (service.cpp:37, FingerprintInscreen.cpp:138-145).
THEOREM WaitIsBounded ==
  ASSUME IsFiniteSet(Clients), NEW c \in Clients
  PROVE  Spec => [](/\ Len(queue) =< Cardinality(Clients)
                    /\ Waiting(c) => Ahead(c) \in 1..(3 * Cardinality(Clients)))
<1>1. Init => OneCallEach
  BY DEF Init, OneCallEach
<1>2. IInv /\ OneCallEach => /\ Len(queue) =< Cardinality(Clients)
                             /\ Waiting(c) => Ahead(c) \in 1..(3 * Cardinality(Clients))
  BY QueueFits, WaitFits
<1> QED
  BY <1>1, <1>2, InitIInv, StepIInv, StepOneCallEach, PTL DEF Spec

=============================================================================
