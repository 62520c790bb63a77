--------------------------- MODULE HbmPanelProofs ---------------------------
(***************************************************************************)
(* Theorems about the two HALs that share the high-brightness node.  The   *)
(* invariant of the FOD HAL survives every step of the sunlight HAL, which *)
(* touches only the node and leaves its name on it.                        *)
(***************************************************************************)
EXTENDS HbmPanel, FingerprintInscreenProofs

\* Until the FOD HAL writes the node, it holds the setting that waits for its answer,
\* or else the one acknowledged last, or one whose call was cut short since.
SettingInv ==
  writer # "fod" =>
    IF pending = {} THEN (hbm = 1) \in {request} \cup failed ELSE pending = {hbm = 1}

\* Nobody has set anything while the node is as the device booted.
BootInv == writer = "boot" => pending = {} /\ failed = {}

PanelInv == IInv /\ Sun!SunTypeOK /\ SettingInv /\ BootInv

-----------------------------------------------------------------------------
\* The invariant holds when the device boots.
LEMMA InitPanelInv == PanelInit => PanelInv
<1> SUFFICES ASSUME PanelInit PROVE PanelInv
  OBVIOUS
<1>1. IInv
  BY InitIInv DEF PanelInit
<1>2. Sun!SunTypeOK
  BY DEF PanelInit, Sun!SunInit, Sun!SunTypeOK
<1>3. SettingInv
  <2>1. (hbm = 1) = FALSE /\ request = FALSE /\ pending = {}
    BY 0 # 1 DEF PanelInit, Init, Sun!SunInit
  <2> QED
    BY <2>1 DEF SettingInv
<1>4. BootInv
  BY DEF PanelInit, Sun!SunInit, BootInv
<1> QED
  BY <1>1, <1>2, <1>3, <1>4 DEF PanelInv

\* The writer of the node changes hands only with the node.
LEMMA FodWritesAsFod ==
  [Next]_vars => UNCHANGED <<hbm, writer>> \/ writer' = "fod" 
<1> SUFFICES ASSUME [Next]_vars, ~UNCHANGED <<hbm, writer>> PROVE writer' = "fod"
  OBVIOUS
<1>1. \/ \E c \in Clients, op \in Ops : Call(c, op)
      \/ OnPress \/ OnRelease
      \/ UNCHANGED <<hbm, writer>>
  BY DEF Next, Serve, Handlers, OnShowFODView, OnHideFODView, Query, NotifyHal, NotifyFails,
         DaemonAnswers, HandlerReturns, Construct, Start, Die, DaemonStart, DaemonDie, nodes, vars
<1>2. \A c \in Clients, op \in Ops : Call(c, op) => UNCHANGED <<hbm, writer>>
  BY DEF Call, nodes
<1>3. OnPress \/ OnRelease => UNCHANGED <<hbm, writer>> \/ writer' = "fod"
  BY DEF OnPress, OnRelease, SetHbm
<1> QED
  BY <1>1, <1>2, <1>3

\* A step of the sunlight HAL keeps the invariant of the FOD HAL.
LEMMA SunKeepsIInv == PanelInv /\ SunStep => IInv'
<1> SUFFICES ASSUME PanelInv, SunStep PROVE IInv'
  OBVIOUS
<1>1. UNCHANGED <<hbm, writer>> \/ (hbm' \in {0, 1} /\ writer' = "sunlight")
  BY DEF SunStep, Sun!SunNext, Sun!SetEnabled, Sun!Reply, Sun!IsEnabled, Sun!SunDie
<1>2. TypeOK'
  BY <1>1 DEF SunStep, PanelInv, IInv, TypeOK, heard, serving
<1>3. CallInv'
  BY DEF SunStep, PanelInv, IInv, CallInv, ServedCall, Bindings, heard, serving
<1>4. LightInv'
  BY <1>1 DEF SunStep, PanelInv, IInv, LightInv, LightBeforeCommand, FingerAndLightAgree, heard,
              serving
<1>5. BoostInv'
  BY DEF SunStep, PanelInv, IInv, BoostInv, BoostBeforeCommand, BoostBeforeUiReady, heard, serving
<1> QED
  BY <1>2, <1>3, <1>4, <1>5 DEF IInv

\* A step of the sunlight HAL leaves the node at the setting it acknowledges, or at
\* one whose caller will not hear of it.
LEMMA SunKeepsSetting == PanelInv /\ SunStep => Sun!SunTypeOK' /\ SettingInv'
<1> SUFFICES ASSUME PanelInv, SunStep PROVE Sun!SunTypeOK' /\ SettingInv'
  OBVIOUS
<1>1. CASE Sun!IsEnabled
  BY <1>1 DEF Sun!IsEnabled, PanelInv, Sun!SunTypeOK, SettingInv
<1>2. ASSUME NEW b \in BOOLEAN, Sun!SetEnabled(b) PROVE Sun!SunTypeOK' /\ SettingInv'
  <2>1. CASE hbm' = (IF b THEN 1 ELSE 0) /\ writer' = "sunlight" /\ pending' = {b}
    <3>1. Sun!SunTypeOK'
      BY <1>2, <2>1 DEF PanelInv, Sun!SunTypeOK, Sun!SetEnabled
    <3>2. (hbm' = 1) = b
      BY <2>1, 0 # 1
    <3> QED
      BY <2>1, <3>1, <3>2 DEF SettingInv
  <2>2. CASE UNCHANGED <<hbm, writer, pending>>
    BY <1>2, <2>2 DEF PanelInv, Sun!SunTypeOK, Sun!SetEnabled, SettingInv
  <2> QED
    BY <1>2, <2>1, <2>2 DEF Sun!SetEnabled
<1>3. ASSUME NEW b \in BOOLEAN, Sun!Reply(b) PROVE Sun!SunTypeOK' /\ SettingInv'
  <2>1. writer # "fod" => (hbm = 1) = b
    BY <1>3 DEF Sun!Reply, PanelInv, SettingInv
  <2> QED
    BY <1>3, <2>1 DEF Sun!Reply, PanelInv, Sun!SunTypeOK, SettingInv
<1>4. CASE Sun!SunDie
  <2>1. writer # "fod" => (hbm = 1) \in pending
    BY <1>4 DEF Sun!SunDie, PanelInv, SettingInv
  <2>2. Sun!SunTypeOK'
    BY <1>4 DEF Sun!SunDie, PanelInv, Sun!SunTypeOK
  <2> QED
    BY <1>4, <2>1, <2>2 DEF Sun!SunDie, SettingInv
<1> QED
  BY <1>1, <1>2, <1>3, <1>4 DEF SunStep, Sun!SunNext

\* Every step of either process preserves the invariant.
LEMMA StepPanelInv == PanelInv /\ [PanelNext]_panelVars => PanelInv'
<1> SUFFICES ASSUME PanelInv, [PanelNext]_panelVars PROVE PanelInv'
  OBVIOUS
<1>1. CASE [Next]_vars /\ UNCHANGED sunlight
  <2>1. IInv'
    BY <1>1, StepIInv DEF PanelInv
  <2>2. Sun!SunTypeOK' /\ SettingInv'
    BY <1>1, FodWritesAsFod DEF PanelInv, Sun!SunTypeOK, SettingInv, sunlight
  <2>3. BootInv'
    BY <1>1, FodWritesAsFod DEF PanelInv, BootInv, sunlight
  <2> QED
    BY <2>1, <2>2, <2>3 DEF PanelInv
<1>2. CASE SunStep
  <2>1. BootInv'
    BY <1>2 DEF SunStep, Sun!SunNext, Sun!SetEnabled, Sun!Reply, Sun!IsEnabled, Sun!SunDie,
                PanelInv, BootInv
  <2> QED
    BY <1>2, <2>1, SunKeepsIInv, SunKeepsSetting DEF PanelInv
<1> QED
  BY <1>1, <1>2 DEF PanelNext, FodStep, panelVars

-----------------------------------------------------------------------------
\* Type correctness of the two HALs on one node.
THEOREM PanelTypeCorrect == PanelSpec => []PanelTypeOK
<1>1. PanelInv => PanelTypeOK
  BY DEF PanelInv, IInv, PanelTypeOK
<1> QED
  BY InitPanelInv, StepPanelInv, <1>1, PTL DEF PanelSpec

\* The light and what the daemon knows of the finger agree between two calls,
\* for every number of clients, under every interleaving of the two processes,
\* the deaths of the HAL and of the daemon, and refused writes.
THEOREM LightAgreesWithFinger == PanelSpec => []FingerAndLightAgree
<1>1. PanelInv => FingerAndLightAgree
  BY DEF PanelInv, IInv, LightInv
<1> QED
  BY InitPanelInv, StepPanelInv, <1>1, PTL DEF PanelSpec

\* The daemon is told of a finger only under light that the HAL, or the sunlight
\* HAL after it, has switched.
THEOREM NodeIsWrittenBeforeCommand == PanelSpec => NodeBeforeCommand
<1>1. PanelInv /\ [PanelNext]_panelVars => [ToldUnderLight]_vars
  <2> SUFFICES ASSUME PanelInv, [PanelNext]_panelVars, finger' # finger, finger' # "none", settled
               PROVE  writer = "sunlight" \/ (finger' = "down" <=> hbm = 1)
    BY DEF ToldUnderLight
  <2>1. NotifyHal
    BY DEF PanelNext, FodStep, SunStep, panelVars, vars, Next, Serve, Handlers, Call, OnPress,
           OnRelease, OnShowFODView, OnHideFODView, Query, NotifyFails, DaemonAnswers,
           HandlerReturns, Construct, Start, Die, DaemonStart, DaemonDie, heard
  <2>2. \/ cmd = "NOTIFY_FINGER_DOWN" /\ finger' = "down"
        \/ cmd = "NOTIFY_FINGER_UP" /\ finger' = "up"
    BY <2>1 DEF NotifyHal, SendCommand, heard
  <2> QED
    BY <2>2 DEF PanelInv, IInv, LightInv, LightBeforeCommand
<1> QED
  BY InitPanelInv, StepPanelInv, <1>1, PTL DEF PanelSpec, NodeBeforeCommand

\* Only a press, a release or a setting whose caller got no answer parts the sunlight
\* setting from the node, wherever the two processes die.
THEOREM SettingIsLostOnlyToFod == PanelSpec => []SettingLostOnlyToFod
<1>1. PanelInv => SettingLostOnlyToFod
  BY DEF PanelInv, Sun!SunTypeOK, SettingInv, SettingLostOnlyToFod
<1> QED
  BY InitPanelInv, StepPanelInv, <1>1, PTL DEF PanelSpec

\* isEnabled answers sunlight that nobody asked for only while the daemon has a
\* finger down, is about to be told of one, or knows of none, or after a
\* setEnabled(true) that died before its answer.
THEOREM PhantomSunlightIsAPress == PanelSpec => NoPhantomSunlight
<1>1. PanelInv /\ [PanelNext]_panelVars => [PhantomIsAPress]_panelVars
  <2> SUFFICES ASSUME PanelInv, [PanelNext]_panelVars, reported', ~reported, ~request
               PROVE  \/ writer = "sunlight" /\ TRUE \in failed
                      \/ /\ writer = "fod"
                         /\ settled => finger # "up" \/ (cmd = "NOTIFY_FINGER_DOWN" /\ ~sent)
    BY DEF PhantomIsAPress
  <2>1. reported' # reported
    OBVIOUS
  <2>2. Sun!IsEnabled
    BY <2>1 DEF PanelNext, FodStep, SunStep, panelVars, sunlight, Sun!SunNext, Sun!SetEnabled,
                Sun!Reply, Sun!SunDie
  <2>3. hbm = 1 /\ pending = {}
    <3>1. hbm \in {0, 1}
      BY DEF PanelInv, IInv, TypeOK
    <3>2. hbm > 0
      BY <2>2 DEF Sun!IsEnabled
    <3> QED
      BY <2>2, <3>1, <3>2 DEF Sun!IsEnabled
  <2>4. CASE writer = "fod"
    <3>1. ASSUME settled, finger = "up" PROVE cmd = "NOTIFY_FINGER_DOWN" /\ ~sent
      BY <2>3, <2>4, <3>1
         DEF PanelInv, IInv, LightInv, LightBeforeCommand, FingerAndLightAgree, FingerCommands
    <3> QED
      BY <2>4, <3>1
  <2>5. CASE writer # "fod"
    <3>1. request = FALSE /\ (hbm = 1) = TRUE
      BY <2>3 DEF PanelInv, Sun!SunTypeOK
    <3>2. TRUE \in failed
      BY <2>3, <2>5, <3>1 DEF PanelInv, SettingInv
    <3>3. writer = "sunlight"
      BY <2>5, <3>2 DEF PanelInv, IInv, TypeOK, BootInv
    <3> QED
      BY <3>2, <3>3
  <2> QED
    BY <2>4, <2>5
<1> QED
  BY InitPanelInv, StepPanelInv, <1>1, PTL DEF PanelSpec, NoPhantomSunlight

-----------------------------------------------------------------------------
\* The boost is on when the daemon hears that the view shows, with another process
\* on the node of the light.
THEOREM BoostPrecedesUiReadyInPanel == PanelSpec => []BoostBeforeUiReady
<1>1. PanelInv => BoostBeforeUiReady
  BY DEF PanelInv, IInv, BoostInv
<1> QED
  BY InitPanelInv, StepPanelInv, <1>1, PTL DEF PanelSpec

\* A step of either process is a step of the FOD HAL, or leaves its calls and all the
\* daemon has heard as they are.
LEMMA PanelSteps ==
  [PanelNext]_panelVars =>
    [Next]_vars \/ (SunStep /\ UNCHANGED <<queue, serving, heard, phase, bound>>)
BY DEF PanelNext, FodStep, SunStep, panelVars, vars

\* The HAL implements the relay beside the sunlight HAL too: what another process
\* does to the node neither loses, repeats nor reorders a command.
THEOREM PanelImplementsRelay == PanelSpec => Relays!SafeSpec
<1>1. PanelInit => Relays!Init
  BY DEF PanelInit, Init, Link, Relays!Init
<1>2. PanelInv /\ [PanelNext]_panelVars => [Relays!Next]_(Relays!vars)
  <2> SUFFICES ASSUME PanelInv, [PanelNext]_panelVars PROVE [Relays!Next]_(Relays!vars)
    OBVIOUS
  <2>1. CASE [Next]_vars
    BY <2>1, StepRelays DEF PanelInv
  <2>2. CASE UNCHANGED <<queue, serving, heard, phase, bound>>
    BY <2>2 DEF heard, serving, Link, Relays!vars
  <2> QED
    BY <2>1, <2>2, PanelSteps
<1> QED
  BY InitPanelInv, StepPanelInv, <1>1, <1>2, PTL DEF PanelSpec, Relays!SafeSpec

\* No client is passed over or put back by the sunlight HAL: a press waits for the
\* calls before it and for nothing else.
THEOREM NoCallIsOvertakenInPanel ==
  ASSUME NEW c \in Clients
  PROVE  PanelSpec => [][Advances(c)]_panelVars
<1>1. PanelInit => OneCallEach
  BY DEF PanelInit, Init, OneCallEach
<1>2. PanelInv /\ OneCallEach /\ [PanelNext]_panelVars => OneCallEach'
  <2> SUFFICES ASSUME PanelInv, OneCallEach, [PanelNext]_panelVars PROVE OneCallEach'
    OBVIOUS
  <2>1. CASE [Next]_vars
    BY <2>1, StepOneCallEach DEF PanelInv
  <2>2. CASE queue' = queue
    BY <2>2 DEF OneCallEach
  <2> QED
    BY <2>1, <2>2, PanelSteps
<1>3. PanelInv /\ OneCallEach /\ OneCallEach' /\ [PanelNext]_panelVars => [Advances(c)]_panelVars
  <2> SUFFICES ASSUME PanelInv, OneCallEach, OneCallEach', [PanelNext]_panelVars PROVE Advances(c)
    OBVIOUS
  <2>1. CASE [Next]_vars
    BY <2>1, StepAdvances DEF PanelInv
  <2>2. CASE ~[Next]_vars /\ UNCHANGED <<queue, serving>>
    <3>1. ~Proceed
      BY <2>2 DEF Next, Proceed
    <3>2. SUFFICES ASSUME Waiting(c)
                   PROVE  Ahead(c) \in Nat /\ Ahead(c)' = Ahead(c)
      BY <3>1 DEF Advances
    <3>3. Ahead(c)' = Ahead(c)
      BY <2>2 DEF Ahead, Place, Done, serving
    <3>4. queue \in Seq(Calls)
      BY DEF PanelInv, IInv, TypeOK
    <3>5. PICK k \in DOMAIN queue : queue[k].client = c
      BY <3>2 DEF Waiting
    <3>6. Place(c) = k /\ k \in Nat /\ k >= 1
      BY <3>4, <3>5, PlaceOf, QueueOf
    <3> QED
      BY <3>3, <3>6 DEF Ahead, Done
  <2> QED
    BY <2>1, <2>2, PanelSteps
<1> QED
  BY <1>1, <1>2, <1>3, InitPanelInv, StepPanelInv, PTL DEF PanelSpec

=============================================================================
