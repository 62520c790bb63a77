---------------------- MODULE LiveDisplayServiceProofs ----------------------
(***************************************************************************)
(* Theorems about the start-up and the clean-up of the LiveDisplay HAL,    *)
(* and about its picture adjustment, for every set of clients, libraries   *)
(* and faults.  ServiceInv says what main() has in its hands at each stage. *)
(***************************************************************************)
EXTENDS PictureAdjustment, FiniteSetTheorems, TLAPS

InSession == {"probe", "register_pa", "register_se", "serving"}

\* What main() holds at each stage; a session can always be closed.
Holdings ==
  /\ stage \in {"resolve", "init"} \cup InSession => lib
  /\ stage \in {"init"} \cup InSession => deinit
  /\ stage \in InSession => session = "open"
  /\ stage = "exit" => ~lib /\ session # "open"
  /\ session = "open" => deinit

\* Picture adjustment is registered first.
Order ==
  /\ stage = "register_se" => "pa" \in registered
  /\ "se" \in registered => "pa" \in registered

\* Only a library that can adjust the picture gets as far as a registration.
Answered ==
  /\ stage \in {"register_pa", "register_se", "serving"} => supported = 1
  /\ supported = 1 => Adjustable

ServiceInv == TypeOK /\ Holdings /\ Order /\ Answered /\ LibraryCalledInSession

-----------------------------------------------------------------------------
\* The queue of a process that was just started, or is gone.
LEMMA NoCalls == <<>> \in Seq([client : Clients, service : {"pa", "se"}])
OBVIOUS

\* Appending a call and answering the oldest keep the queue of calls a queue.
LEMMA CallQueue ==
  ASSUME NEW T, NEW q \in Seq(T)
  PROVE  /\ \A e \in T : Append(q, e) \in Seq(T)
         /\ q # <<>> => Tail(q) \in Seq(T)
OBVIOUS

\* The invariant holds when the device boots.
LEMMA InitServiceInv == Init => ServiceInv
<1> SUFFICES ASSUME Init PROVE ServiceInv
  OBVIOUS
<1>1. TypeOK
  BY NoCalls DEF Init, TypeOK, Stages
<1>2. Holdings /\ Order /\ LibraryCalledInSession
  BY DEF Init, Holdings, InSession, Order, LibraryCalledInSession
<1>3. Answered
  BY DEF Init, Answered
<1> QED
  BY <1>1, <1>2, <1>3 DEF ServiceInv

\* A call of the library made in a session is no stray one.
LEMMA InSessionIsNotStray ==
  ASSUME ServiceInv, stage \in InSession, UseLibrary
  PROVE  stray' = FALSE
BY DEF ServiceInv, Holdings, TypeOK, LibraryCalledInSession, UseLibrary

\* Each step keeps the invariant.
LEMMA StepServiceInv == ServiceInv /\ [Next]_vars => ServiceInv'
<1> SUFFICES ASSUME ServiceInv, [Next]_vars PROVE ServiceInv'
  OBVIOUS
<1> USE DEF ServiceInv, TypeOK, Stages, Holdings, InSession, Order, Answered, LibraryCalledInSession
<1>0. library' = library /\ Adjustable' = Adjustable
  <2>1. library' = library
    BY DEF Next, Main, Launch, Load, Resolve, OpenSession, Probe, RegisterPa, RegisterSe, Shutdown,
       Exit, Kill, Gone, BackendReady, ServeCall, SunlightThrows, Call, vars
  <2> QED
    BY <2>1 DEF Adjustable, Exported
<1> USE <1>0
<1>1. CASE Launch
  BY <1>1 DEF Launch, At, main
<1>2. CASE Load
  BY <1>2 DEF Load, At, BadEnd
<1>3. CASE Resolve
  BY <1>3 DEF Resolve, At, BadEnd
<1>4. CASE OpenSession
  BY <1>4 DEF OpenSession, At, BadEnd
<1>5. ASSUME stage \in InSession, IsSupported
      PROVE  supported' \in {-1, 0, 1} /\ stray' = FALSE /\ (supported' = 1 => Adjustable)
  <2>1. CASE supported >= 0
    BY <1>5, <2>1 DEF IsSupported
  <2>2. CASE ~(supported >= 0)
    <3>1. UseLibrary \/ stray' = stray
      BY <1>5, <2>2 DEF IsSupported
    <3>2. supported' \in {0, 1} /\ (supported' = 1 => Adjustable)
      BY <1>5, <2>2 DEF IsSupported
    <3>3. stray' = FALSE
      BY <1>5, <3>1, InSessionIsNotStray
    <3> QED
      BY <3>2, <3>3
  <2> QED
    BY <2>1, <2>2
<1>6. CASE Probe
  <2>1. supported' \in {-1, 0, 1} /\ stray' = FALSE /\ (supported' = 1 => Adjustable)
    BY <1>5, <1>6 DEF Probe, At
  <2> QED
    BY <1>6, <2>1 DEF Probe, At
<1>7. CASE RegisterPa
  <2>1. supported' \in {-1, 0, 1} /\ stray' = FALSE /\ (supported' = 1 => Adjustable)
    BY <1>5, <1>7 DEF RegisterPa, At, BadEnd
  <2> QED
    BY <1>7, <2>1 DEF RegisterPa, At, BadEnd
<1>8. CASE RegisterSe
  BY <1>8 DEF RegisterSe, At, BadEnd
<1>9. CASE Shutdown
  BY <1>9 DEF Shutdown, At
<1>10. CASE Exit \/ Kill \/ SunlightThrows
  <2>1. Gone
    BY <1>10 DEF Exit, Kill, SunlightThrows
  <2>2. /\ stage' = "off" /\ ~lib' /\ lib' \in BOOLEAN /\ deinit' \in BOOLEAN
        /\ session' = "none" /\ supported' = -1 /\ registered' = {} /\ calls' = <<>>
        /\ backend' = backend /\ stray' = stray
    BY <2>1 DEF Gone
  <2>3. TypeOK'
    BY <2>2, NoCalls
  <2> QED
    BY <2>2, <2>3
<1>11. CASE BackendReady
  BY <1>11 DEF BackendReady, main
<1>12. CASE ServeCall
  <2>1. stage = "serving" /\ calls # <<>> /\ calls' = Tail(calls)
    BY <1>12 DEF ServeCall, ThreadServes
  <2>2. calls' \in Seq([client : Clients, service : {"pa", "se"}])
    BY <2>1, CallQueue
  <2>3. stray' = FALSE
    BY <1>12, <2>1, InSessionIsNotStray DEF ServeCall
  <2> QED
    BY <1>12, <2>1, <2>2, <2>3 DEF ServeCall, main
<1>13. ASSUME NEW c \in Clients, NEW s \in {"pa", "se"}, Call(c, s)
       PROVE  ServiceInv'
  <2>1. calls' \in Seq([client : Clients, service : {"pa", "se"}])
    BY <1>13, CallQueue DEF Call
  <2> QED
    BY <1>13, <2>1 DEF Call, main
<1>14. CASE UNCHANGED vars
  BY <1>14 DEF vars, main
<1> QED
  BY <1>1, <1>2, <1>3, <1>4, <1>6, <1>7, <1>8, <1>9, <1>10, <1>11, <1>12, <1>13, <1>14
     DEF Next, Main

-----------------------------------------------------------------------------
\* TypeOK: what main() keeps is well formed at every stage, whatever fails
\* (service.cpp:45-155).
THEOREM ServiceTypeCorrect == Spec => []TypeOK
<1>1. ServiceInv => TypeOK
  BY DEF ServiceInv
<1> QED
  BY <1>1, InitServiceInv, StepServiceInv, PTL DEF Spec

\* LibraryCalledInSession: no client, probe or late call reaches the library
\* before disp_api_init has succeeded or after the clean-up (service.cpp:93-145).
THEOREM LibraryIsCalledInSession == Spec => []LibraryCalledInSession
<1>1. ServiceInv => LibraryCalledInSession
  BY DEF ServiceInv
<1> QED
  BY <1>1, InitServiceInv, StepServiceInv, PTL DEF Spec

\* ExitLeavesNothing: whichever step failed, main() returns with the session
\* closed and the library unloaded (service.cpp:142-150).
THEOREM ExitIsClean == Spec => []ExitLeavesNothing
<1>1. ServiceInv => ExitLeavesNothing
  BY DEF ServiceInv, Holdings, ExitLeavesNothing
<1> QED
  BY <1>1, InitServiceInv, StepServiceInv, PTL DEF Spec

\* NeverSunlightAlone: picture adjustment is registered before sunlight
\* enhancement, and by every process that gets that far (service.cpp:113-136).
THEOREM SunlightIsNeverAlone == Spec => []NeverSunlightAlone
<1>1. ServiceInv => NeverSunlightAlone
  BY DEF ServiceInv, Order, NeverSunlightAlone
<1> QED
  BY <1>1, InitServiceInv, StepServiceInv, PTL DEF Spec

-----------------------------------------------------------------------------
\* Truncation is off by less than one, and never beyond what it cuts; on whole
\* numbers it does nothing.
LEMMA TruncateBounds ==
  ASSUME NEW h \in Int
  PROVE  /\ Truncate(h) \in Int /\ 2 * Truncate(h) - h \in -1..1
         /\ h >= 0 => 2 * Truncate(h) \in 0..h
         /\ h < 0 => 2 * Truncate(h) \in h..0
         /\ Truncate(2 * h) = h
BY DEF Truncate

\* What an HSIC becomes, and what it is read back as.
LEMMA ConfigType ==
  ASSUME NEW x \in Pictures
  PROVE  /\ Config(x) \subseteq Shown
         /\ \A c \in Config(x) :
              /\ c.tone = x.tone
              /\ Fits(x.hue) => c.hue = Truncate(x.hue) /\ 2 * c.hue \in Floats
<1>1. x.hue \in Floats /\ x.tone \in Tones
  BY DEF Pictures
<1>2. 2 * Truncate(x.hue) \in Floats
  BY <1>1, PictureAssumption
<1>3. ASSUME NEW c \in Config(x)
      PROVE  /\ c \in Shown /\ c.tone = x.tone
             /\ Fits(x.hue) => c.hue = Truncate(x.hue)
  BY <1>1, <1>3 DEF Config, Shown, Fits
<1> QED
  BY <1>2, <1>3

LEMMA HsicType ==
  ASSUME NEW c \in Shown
  PROVE  Hsic(c) \subseteq Pictures
BY DEF Hsic, Shown, Pictures, Nearest

LEMMA ZeroType == Zero \in Pictures
BY PictureAssumption DEF Zero, Pictures

\* A hue that is a float is read as it is, and comes back unchanged.
LEMMA ConfigOfHsic ==
  ASSUME NEW c \in Shown, 2 * c.hue \in Floats, NEW x \in Hsic(c)
  PROVE  Config(x) = {c}
<1>1. c.hue \in Int32 /\ c.hue \in Int /\ c = [hue |-> c.hue, tone |-> c.tone]
  BY PictureAssumption DEF Shown, Int32
<1>2. Nearest(2 * c.hue) = {2 * c.hue}
  <2>1. 2 * c.hue \in Nearest(2 * c.hue)
    BY <1>1, PictureAssumption DEF Nearest
  <2>2. ASSUME NEW f \in Nearest(2 * c.hue) PROVE f = 2 * c.hue
    BY <1>1, PictureAssumption DEF Nearest
  <2> QED
    BY <2>1, <2>2
<1>3. x = [hue |-> 2 * c.hue, tone |-> c.tone]
  BY <1>2 DEF Hsic
<1>4. Truncate(2 * c.hue) = c.hue
  BY <1>1, TruncateBounds
<1>5. Config(x) = [hue : {c.hue}, tone : {c.tone}]
  BY <1>1, <1>3, <1>4 DEF Config, Fits
<1>6. c \in Config(x)
  BY <1>1, <1>5
<1>7. ASSUME NEW y \in Config(x) PROVE y = c
  <2>1. y = [hue |-> y.hue, tone |-> y.tone] /\ y.hue = c.hue /\ y.tone = c.tone
    BY <1>5, <1>7
  <2> QED
    BY <1>1, <2>1
<1> QED
  BY <1>6, <1>7

\* What the display shows, and what clients were told.
Told ==
  /\ shown \in Shown /\ acked \in Pictures /\ unsure \in BOOLEAN /\ settled \in BOOLEAN
  /\ unsure \/ shown \in Config(acked)
  /\ settled => 2 * shown.hue \in Floats
  /\ read \in [answer : Pictures, failed : BOOLEAN]
  /\ read.failed \/ read.answer \in Hsic(shown)

Ranged ==
  /\ range \in [part : Parts, answer : [max : Int, min : Int], failed : BOOLEAN]
  /\ RangesAreUsable

PaInv == ServiceInv /\ Told /\ Ranged

LEMMA InitPaInv == PaInit => PaInv
<1> SUFFICES ASSUME PaInit PROVE PaInv
  OBVIOUS
<1>1. ServiceInv
  BY InitServiceInv DEF PaInit
<1>2. Told
  BY ZeroType DEF PaInit, Told, none
<1>3. Ranged
  BY DEF PaInit, Ranged, RangesAreUsable, Parts, ZeroRange
<1> QED
  BY <1>1, <1>2, <1>3 DEF PaInv

\* A step of picture adjustment is one of the service.
LEMMA PaStepsService == [PaNext]_paVars => [Next]_vars
BY DEF PaNext, paVars, Handle, SetCutShort, Next

\* The answer to a request for a range, of a process that serves.
LEMMA RangeAnswer ==
  ASSUME PaInv, NEW part \in Parts, Handle(GetRange(part))
  PROVE  Ranged'
<1>1. Adjustable /\ library \in Libraries
  BY DEF Handle, ServeCall, ThreadServes, PaInv, ServiceInv, Answered, TypeOK
<1>2. PICK ok \in BOOLEAN :
        /\ Calls("get_global_pa_range", ok)
        /\ range' = [part |-> part, answer |-> IF ok THEN library.ranges[part] ELSE ZeroRange,
                     failed |-> ~ok /\ Exported("get_global_pa_range")]
  BY DEF Handle, GetRange
<1>3. library.ranges[part] \in [max : Int, min : Int]
  BY <1>1, ServiceAssumption DEF Ranges
<1>4. Exported("get_global_pa_range")
  BY <1>1 DEF Adjustable
<1>5. part = "saturationThreshold"
        \/ (library.ranges[part].max # 0 /\ library.ranges[part].min # 0)
  BY <1>1 DEF Adjustable
<1>6. CASE ok
  <2>1. range' = [part |-> part, answer |-> library.ranges[part], failed |-> FALSE]
    BY <1>2, <1>6
  <2> QED
    BY <1>3, <1>5, <2>1 DEF Ranged, RangesAreUsable
<1>7. CASE ~ok
  <2>1. range' = [part |-> part, answer |-> ZeroRange, failed |-> TRUE]
    BY <1>2, <1>4, <1>7
  <2> QED
    BY <2>1 DEF Ranged, RangesAreUsable, ZeroRange
<1> QED
  BY <1>6, <1>7

LEMMA StepPaInv == PaInv /\ [PaNext]_paVars => PaInv'
<1> SUFFICES ASSUME PaInv, [PaNext]_paVars PROVE PaInv'
  OBVIOUS
<1>1. ServiceInv'
  BY PaStepsService, StepServiceInv DEF PaInv
<1>2. ASSUME UNCHANGED <<shown, acked, unsure, settled, read>> PROVE Told'
  BY <1>2 DEF PaInv, Told
<1>3. ASSUME UNCHANGED range PROVE Ranged'
  BY <1>3 DEF PaInv, Ranged, RangesAreUsable
<1>4. ASSUME NEW part \in Parts, Handle(GetRange(part)) PROVE PaInv'
  <2>1. Ranged'
    BY <1>4, RangeAnswer
  <2> QED
    BY <1>1, <1>2, <1>4, <2>1 DEF PaInv, Handle, GetRange
<1>5. CASE Handle(GetPictureAdjustment)
  <2>1. \E ok \in BOOLEAN : \E hsic \in IF ok THEN Hsic(shown) ELSE {Zero} :
          read' = [answer |-> hsic, failed |-> ~ok]
    BY <1>5 DEF Handle, GetPictureAdjustment
  <2>2. UNCHANGED <<shown, acked, unsure, settled, range>>
    BY <1>5 DEF Handle, GetPictureAdjustment
  <2>3. \/ \E hsic \in Hsic(shown) : read' = [answer |-> hsic, failed |-> FALSE]
        \/ read' = [answer |-> Zero, failed |-> TRUE]
    BY <2>1
  <2>4. Hsic(shown) \subseteq Pictures
    BY HsicType DEF PaInv, Told
  <2>5. /\ read' \in [answer : Pictures, failed : BOOLEAN]
        /\ read'.failed \/ read'.answer \in Hsic(shown)
    <3>1. ASSUME NEW hsic \in Hsic(shown), read' = [answer |-> hsic, failed |-> FALSE]
          PROVE  /\ read' \in [answer : Pictures, failed : BOOLEAN]
                 /\ read'.answer \in Hsic(shown)
      BY <2>4, <3>1
    <3>2. CASE read' = [answer |-> Zero, failed |-> TRUE]
      BY <3>2, ZeroType
    <3> QED
      BY <2>3, <3>1, <3>2
  <2>6. Hsic(shown)' = Hsic(shown) /\ Config(acked)' = Config(acked)
    BY <2>2 DEF Hsic, Config
  <2>7. Told'
    BY <2>2, <2>5, <2>6 DEF PaInv, Told
  <2> QED
    BY <1>1, <1>3, <2>2, <2>7 DEF PaInv
<1>6. CASE UNCHANGED pictureVars
  BY <1>1, <1>2, <1>3, <1>6 DEF PaInv, pictureVars
<1>7. ASSUME NEW hsic \in Pictures, Handle(SetPictureAdjustment(hsic)) \/ SetCutShort(hsic)
      PROVE  PaInv'
  <2> DEFINE Kept == shown' = shown /\ acked' = acked /\ unsure' = unsure
             Done == shown' \in Config(hsic) /\ acked' = hsic /\ unsure' = FALSE
             Lost == shown' \in {shown} \cup Config(hsic) /\ acked' = acked /\ unsure' = TRUE
             Safe == (shown' = shown /\ settled) \/ (shown' \in Config(hsic) /\ Fits(hsic.hue))
  <2>1. /\ read' = none /\ range' = range /\ settled' \in BOOLEAN
        /\ Kept \/ Done \/ Lost
        /\ settled' => Safe
    <3>1. CASE SetCutShort(hsic)
      BY <3>1 DEF SetCutShort, PaInv, Told
    <3>2. CASE Handle(SetPictureAdjustment(hsic))
      <4> DEFINE sets == Exported("set_global_pa_config")
      <4>1. PICK ok \in BOOLEAN :
              /\ Sets(hsic, ok)
              /\ acked' = IF ok THEN hsic ELSE acked
              /\ unsure' = (~ok /\ (unsure \/ sets))
        BY <3>2 DEF Handle, SetPictureAdjustment
      <4>2. /\ read' = none /\ range' = range
            /\ shown' \in IF ok THEN Config(hsic)
                          ELSE {shown} \cup (IF sets THEN Config(hsic) ELSE {})
            /\ settled' = ((settled \/ ok) /\ (Fits(hsic.hue) \/ ~sets))
            /\ ok => sets
        BY <3>2, <4>1 DEF Handle, SetPictureAdjustment, Sets, Calls
      <4>3. unsure \in BOOLEAN /\ settled \in BOOLEAN /\ sets \in BOOLEAN
        BY DEF PaInv, Told, Exported
      <4> HIDE DEF sets
      <4>4. CASE ok
        <5>1. unsure' = FALSE
          BY <4>1, <4>4, Zenon
        <5>2. settled' \in BOOLEAN /\ (settled' => Fits(hsic.hue))
          BY <4>2, <4>4, Zenon
        <5>3. shown' \in Config(hsic) /\ acked' = hsic
          BY <4>1, <4>2, <4>4
        <5> QED
          BY <4>2, <5>1, <5>2, <5>3
      <4>5. CASE ~ok /\ sets
        <5>1. unsure' = TRUE
          BY <4>1, <4>5, Zenon
        <5>2. settled' \in BOOLEAN /\ (settled' => settled /\ Fits(hsic.hue))
          BY <4>2, <4>3, <4>5, Zenon
        <5>3. shown' = shown \/ shown' \in Config(hsic)
          BY <4>2, <4>5
        <5> QED
          BY <4>1, <4>2, <4>5, <5>1, <5>2, <5>3
      <4>6. CASE ~ok /\ ~sets
        <5>1. unsure' = unsure
          BY <4>1, <4>3, <4>6, Zenon
        <5>2. settled' = settled
          BY <4>2, <4>3, <4>6, Zenon
        <5>3. shown' = shown /\ acked' = acked
          BY <4>1, <4>2, <4>6
        <5> QED
          BY <4>2, <4>3, <5>1, <5>2, <5>3
      <4> QED
        BY <4>3, <4>4, <4>5, <4>6
    <3> QED
      BY <1>7, <3>1, <3>2
  <2>2. /\ Config(hsic) \subseteq Shown
        /\ \A c \in Config(hsic) : Fits(hsic.hue) => 2 * c.hue \in Floats
    BY ConfigType
  <2>3. Told'
    <3>1. shown' \in Shown /\ acked' \in Pictures /\ unsure' \in BOOLEAN
      BY <2>1, <2>2 DEF PaInv, Told
    <3>2. unsure' \/ shown' \in Config(acked')
      BY <2>1 DEF PaInv, Told
    <3>3. settled' => 2 * shown'.hue \in Floats
      BY <2>1, <2>2 DEF PaInv, Told
    <3>4. read' = [answer |-> Zero, failed |-> TRUE]
      BY <2>1 DEF none
    <3> QED
      BY <2>1, <3>1, <3>2, <3>3, <3>4, ZeroType DEF Told
  <2> QED
    BY <1>1, <1>3, <2>1, <2>3 DEF PaInv
<1> QED
  BY <1>4, <1>5, <1>6, <1>7 DEF PaNext, paVars, Handle, GetDefault, pictureVars

\* Type correctness of picture adjustment in its service.
THEOREM PictureTypeCorrect == PaSpec => []PaTypeOK
<1>1. PaInv => PaTypeOK
  BY DEF PaInv, ServiceInv, Told, Ranged, PaTypeOK
<1> QED
  BY InitPaInv, StepPaInv, <1>1, PTL DEF PaSpec

\* PictureIsAcknowledged: for every width of the integers and every hue that fits one,
\* on either side of zero (PictureAdjustment.cpp:199-210).
THEOREM AcknowledgedPictureShows == PaSpec => []PictureIsAcknowledged
<1>1. PaInv => PictureIsAcknowledged
  <2> SUFFICES ASSUME PaInv, ~unsure, Fits(acked.hue) PROVE PictureIsAcknowledged
    BY DEF PictureIsAcknowledged
  <2>1. acked.hue \in Int /\ shown.hue = Truncate(acked.hue) /\ shown.tone = acked.tone
    <3>1. acked \in Pictures /\ shown \in Config(acked)
      BY DEF PaInv, Told
    <3>2. acked.hue \in Int
      BY <3>1, PictureAssumption DEF Pictures
    <3> QED
      BY <3>1, <3>2, ConfigType
  <2>2. /\ Truncate(acked.hue) \in Int /\ 2 * Truncate(acked.hue) - acked.hue \in -1..1
        /\ acked.hue >= 0 => 2 * Truncate(acked.hue) \in 0..acked.hue
        /\ acked.hue < 0 => 2 * Truncate(acked.hue) \in acked.hue..0
    BY <2>1, TruncateBounds
  <2> QED
    BY <2>1, <2>2 DEF PictureIsAcknowledged
<1> QED
  BY InitPaInv, StepPaInv, <1>1, PTL DEF PaSpec

\* WriteBackKeeps: for every set of floats that holds the whole part of each, however
\* coarse, since what a client has set came from a float (PictureAdjustment.cpp:85-98,
\* 188-210).
THEOREM WritingBackKeepsThePicture == PaSpec => []WriteBackKeeps
<1>1. PaInv => WriteBackKeeps
  <2> SUFFICES ASSUME PaInv, settled, ~read.failed PROVE Config(read.answer) = {shown}
    BY DEF WriteBackKeeps
  <2>1. shown \in Shown /\ 2 * shown.hue \in Floats /\ read.answer \in Hsic(shown)
    BY DEF PaInv, Told
  <2> QED
    BY <2>1, ConfigOfHsic
<1> QED
  BY InitPaInv, StepPaInv, <1>1, PTL DEF PaSpec

\* RangesAreUsable: for every library, whichever entry points it has
\* (PictureAdjustment.cpp:51-83, 107-186).
THEOREM ServedRangesAreUsable == PaSpec => []RangesAreUsable
<1>1. PaInv => RangesAreUsable
  BY DEF PaInv, Ranged
<1> QED
  BY InitPaInv, StepPaInv, <1>1, PTL DEF PaSpec

-----------------------------------------------------------------------------
\* Who can be waiting, and what a process knows before it has asked.
Found ==
  /\ registered # {} => stage \in {"register_se", "serving", "shutdown", "exit"}
  /\ calls # <<>> => registered # {}
  /\ stage = "serving" => "pa" \in registered
  /\ stage \in {"off", "load", "resolve", "init", "probe"} => supported = -1
  /\ session = "none" => registered = {} /\ supported = -1

LEMMA InitFound == Init => Found
BY DEF Init, Found

LEMMA StepFound == ServiceInv /\ Found /\ [Next]_vars => Found'
<1> SUFFICES ASSUME ServiceInv, Found, [Next]_vars PROVE Found'
  OBVIOUS
<1> USE DEF Found
<1>0. /\ stage \in {"register_se", "serving"} => "pa" \in registered
      /\ stage \in {"register_pa", "register_se", "serving"} => supported = 1
      /\ stage \in InSession => session = "open"
      /\ calls \in Seq([client : Clients, service : {"pa", "se"}])
  BY DEF ServiceInv, TypeOK, Order, Answered, Holdings, InSession
<1>1. CASE Launch \/ Load \/ Resolve \/ OpenSession
  BY <1>1 DEF Launch, Load, Resolve, OpenSession, At, BadEnd, main
<1>2. CASE Probe
  BY <1>0, <1>2 DEF Probe, At, InSession
<1>3. CASE RegisterPa
  <2>1. /\ stage = "register_pa" /\ session = "open" /\ session' = session /\ calls' = calls
        /\ supported = 1 /\ supported' = 1
    BY <1>0, <1>3 DEF RegisterPa, At, BadEnd, InSession
  <2> QED
    BY <1>3, <2>1 DEF RegisterPa, At, BadEnd
<1>4. CASE RegisterSe
  BY <1>0, <1>4 DEF RegisterSe, At, BadEnd
<1>5. CASE Shutdown
  BY <1>5 DEF Shutdown, At
<1>6. CASE Exit \/ Kill \/ SunlightThrows
  BY <1>6 DEF Exit, Kill, SunlightThrows, Gone
<1>7. CASE BackendReady \/ UNCHANGED vars
  BY <1>7 DEF BackendReady, main, vars
<1>8. CASE ServeCall
  <2>1. calls # <<>>
    BY <1>8 DEF ServeCall
  <2> QED
    BY <1>8, <2>1 DEF ServeCall, main
<1>9. ASSUME NEW c \in Clients, NEW s \in {"pa", "se"}, Call(c, s) PROVE Found'
  BY <1>9 DEF Call, main
<1> QED
  BY <1>1, <1>2, <1>3, <1>4, <1>5, <1>6, <1>7, <1>8, <1>9 DEF Next, Main

\* What remains true of service.cpp:143, "Cleanup what we started": the session that is
\* closed without having been opened is one disp_api_init has refused, in a process no
\* client has found and that has asked the library nothing.
NeedlessCloseIsUnseen ==
  session = "none" /\ session' = "closed" =>
    stage = "shutdown" /\ deinit /\ registered = {} /\ calls = <<>> /\ supported = -1

THEOREM NeedlessCloseHarmsNoCall == Spec => [][NeedlessCloseIsUnseen]_vars
<1>1. ServiceInv /\ Found /\ [Next]_vars => [NeedlessCloseIsUnseen]_vars
  <2> SUFFICES ASSUME ServiceInv, Found, [Next]_vars, session = "none", session' = "closed"
               PROVE  stage = "shutdown" /\ deinit /\ registered = {} /\ calls = <<>>
                      /\ supported = -1
    BY DEF NeedlessCloseIsUnseen
  <2>1. Shutdown
    BY DEF Next, Main, Launch, Load, Resolve, OpenSession, Probe, RegisterPa, RegisterSe, Exit,
       Kill, SunlightThrows, Gone, BackendReady, ServeCall, Call, main, vars
  <2> QED
    BY <2>1 DEF Shutdown, At, Found
<1> QED
  BY <1>1, InitServiceInv, StepServiceInv, InitFound, StepFound, PTL DEF Spec

-----------------------------------------------------------------------------
\* How far main() is from serving, with the way back through the exit.
StageRank ==
  [serving |-> 0, register_se |-> 1, register_pa |-> 2, probe |-> 3, init |-> 4,
   resolve |-> 5, load |-> 6, off |-> 7, exit |-> 8, shutdown |-> 9]

Distance == StageRank[stage]

\* With a backend that is ready and a library that can adjust, a step in which nothing
\* fails never leads away from serving, and each of main() leads towards it.
Nears ==
  (backend = "ready" /\ Adjustable /\ ~Trouble) =>
    /\ backend' = "ready" /\ Adjustable'
    /\ Distance' =< Distance
    /\ Main => Distance' < Distance

LEMMA StageRanks ==
  /\ StageRank["serving"] = 0 /\ StageRank["register_se"] = 1 /\ StageRank["register_pa"] = 2
  /\ StageRank["probe"] = 3 /\ StageRank["init"] = 4 /\ StageRank["resolve"] = 5
  /\ StageRank["load"] = 6 /\ StageRank["off"] = 7 /\ StageRank["exit"] = 8
  /\ StageRank["shutdown"] = 9
BY DEF StageRank

\* The step of main() from each stage, when nothing fails.
LEMMA MainGoesOn ==
  ServiceInv /\ Found /\ Main /\ backend = "ready" /\ Adjustable /\ ~Trouble =>
    \/ stage = "off" /\ stage' = "load"
    \/ stage = "load" /\ stage' = "resolve"
    \/ stage = "resolve" /\ stage' = "init"
    \/ stage = "init" /\ stage' = "probe"
    \/ stage = "probe" /\ stage' = "register_pa"
    \/ stage = "register_pa" /\ stage' = "register_se"
    \/ stage = "register_se" /\ stage' = "serving"
    \/ stage = "shutdown" /\ stage' = "exit"
    \/ stage = "exit" /\ stage' = "off"
<1> SUFFICES ASSUME ServiceInv, Found, Main, backend = "ready", Adjustable, ~Trouble
             PROVE  \/ stage = "off" /\ stage' = "load"
                    \/ stage = "load" /\ stage' = "resolve"
                    \/ stage = "resolve" /\ stage' = "init"
                    \/ stage = "init" /\ stage' = "probe"
                    \/ stage = "probe" /\ stage' = "register_pa"
                    \/ stage = "register_pa" /\ stage' = "register_se"
                    \/ stage = "register_se" /\ stage' = "serving"
                    \/ stage = "shutdown" /\ stage' = "exit"
                    \/ stage = "exit" /\ stage' = "off"
  OBVIOUS
<1>1. CASE Launch \/ Load \/ Resolve \/ OpenSession
  BY <1>1 DEF Launch, Load, Resolve, OpenSession, At, BadEnd, Trouble
<1>2. CASE RegisterPa \/ RegisterSe
  BY <1>2 DEF RegisterPa, RegisterSe, At, BadEnd, Trouble
<1>3. CASE Shutdown \/ Exit
  BY <1>3 DEF Shutdown, Exit, At, Gone
<1>4. CASE Probe
  <2>1. stage = "probe" /\ supported = -1
    BY <1>4 DEF Probe, At, Found
  <2>2. supported' \in {0, 1}
    BY <1>4, <2>1 DEF Probe, IsSupported
  <2>3. supported' = 1
    BY <2>1, <2>2 DEF Trouble
  <2> QED
    BY <1>4, <2>3 DEF Probe, At
<1> QED
  BY <1>1, <1>2, <1>3, <1>4 DEF Main

LEMMA StepNears == ServiceInv /\ Found /\ [Next]_vars => Nears
<1> SUFFICES ASSUME ServiceInv, Found, [Next]_vars, backend = "ready", Adjustable, ~Trouble
             PROVE  /\ backend' = "ready" /\ Adjustable'
                    /\ Distance' =< Distance
                    /\ Main => Distance' < Distance
  BY DEF Nears
<1>1. backend' = "ready" /\ library' = library
  BY DEF Next, Main, Launch, Load, Resolve, OpenSession, Probe, RegisterPa, RegisterSe, Shutdown,
     Exit, Kill, Gone, BackendReady, ServeCall, SunlightThrows, Call, vars
<1>2. Adjustable'
  BY <1>1 DEF Adjustable, Exported
<1>3. Distance \in Nat
  BY StageRanks DEF Distance, ServiceInv, TypeOK, Stages
<1>4. ASSUME Main PROVE Distance' < Distance
  BY <1>4, MainGoesOn, StageRanks DEF Distance
<1>5. ASSUME ~Main PROVE stage' = stage \/ (stage = "exit" /\ stage' = "off")
  <2>1. CASE Kill \/ SunlightThrows
    BY <2>1 DEF Kill, SunlightThrows, ThreadServes, Gone, Trouble
  <2>2. CASE ~(Kill \/ SunlightThrows)
    BY <1>5, <2>2 DEF Next, BackendReady, ServeCall, Call, vars
  <2> QED
    BY <2>1, <2>2
<1>6. ASSUME ~Main PROVE Distance' =< Distance
  BY <1>3, <1>5, <1>6, StageRanks DEF Distance
<1>7. Distance' \in Nat
  <2>1. stage' \in Stages
    BY StepServiceInv DEF ServiceInv, TypeOK
  <2> QED
    BY <2>1, StageRanks DEF Distance, Stages
<1> QED
  BY <1>1, <1>2, <1>3, <1>4, <1>6, <1>7

\* The first half of ReadyBackendIsServed, for every library, client and fault: once
\* nothing fails any more, a ready backend is at most nine steps of main() from being
\* served, and no step of anyone leads away; no answer of an earlier process is kept
\* (service.cpp:113-116).
THEOREM ReadyBackendNears ==
  Spec => /\ [](Distance \in 0..9 /\ (Distance = 0 => stage = "serving" /\ "pa" \in registered))
          /\ [][Nears]_vars
<1>1. ServiceInv /\ Found =>
        Distance \in 0..9 /\ (Distance = 0 => stage = "serving" /\ "pa" \in registered)
  BY StageRanks DEF Distance, ServiceInv, TypeOK, Stages, Found
<1>2. ServiceInv /\ Found /\ [Next]_vars => [Nears]_vars
  BY StepNears
<1> QED
  BY <1>1, <1>2, InitServiceInv, StepServiceInv, InitFound, StepFound, PTL DEF Spec

-----------------------------------------------------------------------------
\* A client has one call in the process at a time, and a place among the calls.
OneCallEach == \A k, n \in DOMAIN calls : calls[k].client = calls[n].client => k = n

Place(c) == CHOOSE k \in DOMAIN calls : calls[k].client = c

\* How far a waiting client is from its answer, or from the end of the process: the
\* steps of main() to the pool or to the exit, and the calls before its own.
ToJoin ==
  CASE stage = "register_se" -> 3
    [] stage = "shutdown"    -> 2
    [] stage = "exit"        -> 1
    [] OTHER                 -> 0

Ahead(c) == Place(c) + ToJoin

\* While c waits, nothing puts it back, and every step of main() and of its thread
\* brings it forward.
Advances(c) ==
  (Waiting(c) /\ Waiting(c)') =>
    /\ Ahead(c)' =< Ahead(c)
    /\ Main \/ ServeCall => Ahead(c)' < Ahead(c)

\* Somebody has a step to take for every client that waits.
SomeoneWorks(c) ==
  Waiting(c) =>
    /\ Ahead(c) \in Nat
    /\ stage \in {"register_se", "shutdown", "exit"} \/ (ThreadServes /\ calls # <<>>)

\* What a queue is made of, before and after a call is appended or answered.
LEMMA QueueOf ==
  ASSUME NEW T, NEW q \in Seq(T)
  PROVE  /\ DOMAIN q = 1..Len(q) /\ Len(q) \in Nat /\ \A k \in DOMAIN q : q[k] \in T
         /\ \A e \in T : /\ DOMAIN Append(q, e) = 1..(Len(q) + 1)
                           /\ Append(q, e)[Len(q) + 1] = e
                           /\ \A k \in 1..Len(q) : Append(q, e)[k] = q[k]
         /\ q # <<>> => /\ Len(q) > 0 /\ DOMAIN Tail(q) = 1..(Len(q) - 1)
                        /\ \A k \in 1..(Len(q) - 1) : Tail(q)[k] = q[k + 1]
OBVIOUS

LEMMA StepOneCallEach == ServiceInv /\ OneCallEach /\ [Next]_vars => OneCallEach'
<1> SUFFICES ASSUME ServiceInv, OneCallEach, [Next]_vars PROVE OneCallEach'
  OBVIOUS
<1>1. calls \in Seq([client : Clients, service : {"pa", "se"}])
  BY DEF ServiceInv, TypeOK
<1>2. ASSUME NEW c \in Clients, NEW s \in {"pa", "se"}, Call(c, s) PROVE OneCallEach'
  <2> DEFINE e == [client |-> c, service |-> s]
             m == Len(calls) + 1
  <2>1. e \in [client : Clients, service : {"pa", "se"}] /\ e.client = c
        /\ calls' = Append(calls, e)
    BY <1>2 DEF Call
  <2> HIDE DEF e
  <2>2. /\ DOMAIN calls = 1..Len(calls) /\ Len(calls) \in Nat
        /\ DOMAIN calls' = 1..m /\ calls'[m] = e
        /\ \A k \in 1..Len(calls) : calls'[k] = calls[k]
    BY <1>1, <2>1, QueueOf
  <2>3. \A k \in 1..Len(calls) : calls[k].client # c
    BY <1>2, <2>2 DEF Call, Waiting
  <2>4. \A k \in 1..m : k = m \/ k \in 1..Len(calls)
    BY <2>2
  <2> QED
    BY <2>1, <2>2, <2>3, <2>4 DEF OneCallEach
<1>3. CASE calls # <<>> /\ calls' = Tail(calls)
  <2>1. /\ DOMAIN calls = 1..Len(calls) /\ Len(calls) \in Nat
        /\ DOMAIN calls' = 1..(Len(calls) - 1)
        /\ \A k \in 1..(Len(calls) - 1) : calls'[k] = calls[k + 1]
    BY <1>1, <1>3, QueueOf
  <2>2. SUFFICES ASSUME NEW k \in 1..(Len(calls) - 1), NEW n \in 1..(Len(calls) - 1),
                        calls[k + 1].client = calls[n + 1].client
                 PROVE  k = n
    BY <2>1 DEF OneCallEach
  <2>3. k + 1 \in DOMAIN calls /\ n + 1 \in DOMAIN calls
    BY <2>1
  <2>4. k + 1 = n + 1
    BY <2>2, <2>3 DEF OneCallEach
  <2> QED
    BY <2>1, <2>4
<1>4. CASE calls' = calls
  BY <1>4 DEF OneCallEach
<1>5. CASE calls' = <<>>
  BY <1>5 DEF OneCallEach
<1>6. CASE Main \/ Kill \/ BackendReady \/ SunlightThrows \/ UNCHANGED vars
  <2>1. calls' = calls \/ calls' = <<>>
    BY <1>6 DEF Main, Launch, Load, Resolve, OpenSession, Probe, RegisterPa, RegisterSe, Shutdown,
       Exit, Kill, Gone, BackendReady, SunlightThrows, vars
  <2> QED
    BY <1>4, <1>5, <2>1
<1>7. CASE ServeCall
  BY <1>3, <1>7 DEF ServeCall
<1> QED
  BY <1>2, <1>6, <1>7 DEF Next

\* A client that waits has its place, and the process a stage in which it can be called.
LEMMA PlaceOf ==
  ServiceInv /\ Found /\ OneCallEach => \A c \in Clients :
    /\ \A k \in DOMAIN calls : calls[k].client = c => Place(c) = k
    /\ Waiting(c) => /\ Place(c) \in Nat /\ Place(c) >= 1
                     /\ stage \in {"register_se", "serving", "shutdown", "exit"}
                     /\ SomeoneWorks(c)
<1> SUFFICES ASSUME ServiceInv, Found, OneCallEach, NEW c \in Clients
             PROVE  /\ \A k \in DOMAIN calls : calls[k].client = c => Place(c) = k
                    /\ Waiting(c) => /\ Place(c) \in Nat /\ Place(c) >= 1
                                     /\ stage \in {"register_se", "serving", "shutdown", "exit"}
                                     /\ SomeoneWorks(c)
  OBVIOUS
<1>1. ASSUME NEW k \in DOMAIN calls, calls[k].client = c PROVE Place(c) = k
  <2>1. Place(c) \in DOMAIN calls /\ calls[Place(c)].client = c
    BY <1>1 DEF Place
  <2> QED
    BY <1>1, <2>1 DEF OneCallEach
<1>2. ASSUME Waiting(c)
      PROVE  /\ Place(c) \in Nat /\ Place(c) >= 1 /\ calls # <<>>
             /\ stage \in {"register_se", "serving", "shutdown", "exit"}
  <2>1. PICK k \in DOMAIN calls : calls[k].client = c
    BY <1>2 DEF Waiting
  <2>2. Place(c) = k
    BY <1>1, <2>1
  <2>3. calls \in Seq([client : Clients, service : {"pa", "se"}])
    BY DEF ServiceInv, TypeOK
  <2>4. DOMAIN calls = 1..Len(calls) /\ Len(calls) \in Nat
    BY <2>3, QueueOf
  <2>5. calls # <<>>
    BY <2>1, <2>4
  <2> QED
    BY <2>1, <2>2, <2>4, <2>5 DEF Found
<1>3. ASSUME Waiting(c) PROVE SomeoneWorks(c)
  <2>1. ToJoin \in Nat
    BY DEF ToJoin
  <2> QED
    BY <1>2, <1>3, <2>1 DEF SomeoneWorks, Ahead, ThreadServes
<1> QED
  BY <1>1, <1>2, <1>3

LEMMA ToJoinValues ==
  /\ stage = "register_se" => ToJoin = 3
  /\ stage = "shutdown" => ToJoin = 2
  /\ stage = "exit" => ToJoin = 1
  /\ stage = "serving" => ToJoin = 0
BY DEF ToJoin

\* Steps between two states in which c waits.
LEMMA StepAdvances ==
  ServiceInv /\ Found /\ OneCallEach /\ OneCallEach' /\ [Next]_vars =>
    \A c \in Clients : Advances(c)
<1> SUFFICES ASSUME ServiceInv, Found, OneCallEach, OneCallEach', [Next]_vars, NEW c \in Clients,
                    Waiting(c), Waiting(c)'
             PROVE  /\ Ahead(c)' =< Ahead(c)
                    /\ Main \/ ServeCall => Ahead(c)' < Ahead(c)
  BY DEF Advances
<1>1. calls \in Seq([client : Clients, service : {"pa", "se"}])
  BY DEF ServiceInv, TypeOK
<1>2. DOMAIN calls = 1..Len(calls) /\ Len(calls) \in Nat
  BY <1>1, QueueOf
<1>3. PICK k \in 1..Len(calls) : calls[k].client = c
  BY <1>2 DEF Waiting
<1>4. Place(c) = k /\ k \in Nat /\ k >= 1
      /\ stage \in {"register_se", "serving", "shutdown", "exit"}
  BY <1>2, <1>3, PlaceOf
<1>5. ASSUME NEW n \in DOMAIN calls', calls'[n].client = c PROVE Place(c)' = n
  <2>1. Place(c)' = CHOOSE m \in DOMAIN calls' : calls'[m].client = c
    BY DEF Place
  <2>2. Place(c)' \in DOMAIN calls' /\ calls'[Place(c)'].client = c
    BY <1>5, <2>1
  <2> QED
    BY <1>5, <2>2 DEF OneCallEach
<1>6. (/\ stage = "register_se" => ToJoin = 3
       /\ stage = "shutdown" => ToJoin = 2
       /\ stage = "exit" => ToJoin = 1
       /\ stage = "serving" => ToJoin = 0)'
  BY ToJoinValues, PTL
<1>7. calls' # <<>>
  BY DEF Waiting
<1>8. ASSUME calls' = calls PROVE Place(c)' = k
  BY <1>2, <1>3, <1>5, <1>8
<1>9. CASE Main
  <2>1. ~Exit
    BY <1>7 DEF Exit, Gone
  <2>2. calls' = calls
    BY <1>9, <2>1 DEF Main, Launch, Load, Resolve, OpenSession, Probe, RegisterPa, RegisterSe,
       Shutdown
  <2>3. \/ stage = "register_se" /\ stage' \in {"serving", "shutdown"}
        \/ stage = "shutdown" /\ stage' = "exit"
    BY <1>4, <1>9, <2>1 DEF Main, Launch, Load, Resolve, OpenSession, Probe, RegisterPa,
       RegisterSe, Shutdown, At, BadEnd
  <2>4. ToJoin \in Nat /\ ToJoin' \in Nat /\ ToJoin' < ToJoin
    BY <1>6, <2>3, ToJoinValues
  <2>5. Ahead(c) = k + ToJoin /\ Ahead(c)' = k + ToJoin'
    BY <1>4, <1>8, <2>2 DEF Ahead
  <2>6. \A n, m, p \in Nat : m < n => p + m < p + n /\ p + m =< p + n
    OBVIOUS
  <2> QED
    BY <1>4, <2>4, <2>5, <2>6
<1>10. CASE ServeCall
  <2>1. stage = "serving" /\ stage' = stage /\ calls # <<>> /\ calls' = Tail(calls)
    BY <1>10 DEF ServeCall, ThreadServes
  <2>2. /\ DOMAIN calls' = 1..(Len(calls) - 1)
        /\ \A n \in 1..(Len(calls) - 1) : calls'[n] = calls[n + 1]
    BY <1>1, <2>1, QueueOf
  <2>3. PICK n \in 1..(Len(calls) - 1) : calls'[n].client = c
    BY <2>2 DEF Waiting
  <2>4. n + 1 \in DOMAIN calls /\ calls[n + 1].client = c /\ n \in Nat
    BY <1>2, <2>2, <2>3
  <2>5. n + 1 = k
    BY <1>4, <2>4, PlaceOf
  <2>6. Place(c)' = n
    BY <1>5, <2>2, <2>3
  <2>7. Ahead(c) = n + 1 /\ Ahead(c)' = n
    BY <1>4, <1>6, <2>1, <2>4, <2>5, <2>6, ToJoinValues DEF Ahead
  <2> QED
    BY <2>4, <2>7
<1>11. CASE ~Main /\ ~ServeCall
  <2>1. ~Kill /\ ~SunlightThrows
    BY <1>7 DEF Kill, SunlightThrows, Gone
  <2>2. stage' = stage /\ Place(c)' = k
    <3>1. CASE BackendReady \/ UNCHANGED vars
      BY <1>8, <3>1 DEF BackendReady, vars
    <3>2. ASSUME NEW d \in Clients, NEW s \in {"pa", "se"}, Call(d, s)
          PROVE  stage' = stage /\ Place(c)' = k
      <4>1. /\ calls' = Append(calls, [client |-> d, service |-> s]) /\ stage' = stage
            /\ [client |-> d, service |-> s] \in [client : Clients, service : {"pa", "se"}]
        BY <3>2 DEF Call
      <4>2. k \in DOMAIN calls' /\ calls'[k] = calls[k]
        BY <1>1, <1>2, <1>3, <4>1, QueueOf
      <4> QED
        BY <1>3, <1>5, <4>1, <4>2
    <3> QED
      BY <1>11, <2>1, <3>1, <3>2 DEF Next
  <2>3. ToJoin' = ToJoin /\ ToJoin \in Nat
    BY <2>2 DEF ToJoin
  <2>4. Ahead(c)' = Ahead(c) /\ Ahead(c) \in Nat
    BY <1>4, <2>2, <2>3 DEF Ahead
  <2> QED
    BY <1>11, <2>4
<1> QED
  BY <1>9, <1>10, <1>11

\* The first half of EveryCallEnds, for every number of clients and every fault: a client
\* that called before main() has joined the pool waits for one registration or for the
\* way to the exit, and then for the calls before its own; none passes it
\* (service.cpp:45-155).
THEOREM NoCallIsOvertaken ==
  ASSUME NEW c \in Clients
  PROVE  Spec => []SomeoneWorks(c) /\ [][Advances(c)]_vars
<1>1. Init => OneCallEach
  BY DEF Init, OneCallEach
<1>2. ServiceInv /\ Found /\ OneCallEach => SomeoneWorks(c)
  BY PlaceOf DEF SomeoneWorks
<1>3. ServiceInv /\ Found /\ OneCallEach /\ OneCallEach' /\ [Next]_vars => [Advances(c)]_vars
  BY StepAdvances
<1> QED
  BY <1>1, <1>2, <1>3, InitServiceInv, StepServiceInv, InitFound, StepFound, StepOneCallEach,
     PTL DEF Spec

\* No two calls of one client wait: with finitely many clients, the queue has no more
\* places than there are clients.
LEMMA QueueFits ==
  ASSUME ServiceInv, OneCallEach, IsFiniteSet(Clients)
  PROVE  Len(calls) \in Nat /\ Cardinality(Clients) \in Nat
         /\ Len(calls) =< Cardinality(Clients)
<1> DEFINE n == Len(calls)
           who == [k \in 1..n |-> calls[k].client]
<1>1. n \in Nat /\ DOMAIN calls = 1..n /\ \A k \in 1..n : calls[k].client \in Clients
  <2> DEFINE T == [client : Clients, service : {"pa", "se"}]
  <2>1. calls \in Seq(T)
    BY DEF ServiceInv, TypeOK
  <2>2. \A e \in T : e.client \in Clients
    OBVIOUS
  <2> HIDE DEF T
  <2>3. DOMAIN calls = 1..n /\ n \in Nat /\ \A k \in 1..n : calls[k] \in T
    BY <2>1, QueueOf
  <2> QED
    BY <2>2, <2>3
<1>2. who \in Injection(1..n, Clients)
  <2>1. who \in [1..n -> Clients]
    BY <1>1
  <2>2. ASSUME NEW k \in 1..n, NEW m \in 1..n, who[k] = who[m] PROVE k = m
    <3>1. calls[k].client = calls[m].client
      BY <2>2
    <3> QED
      BY <1>1, <3>1 DEF OneCallEach
  <2> HIDE DEF who
  <2> QED
    BY <2>1, <2>2 DEF Injection, IsInjective
<1>3. Cardinality(1..n) =< Cardinality(Clients) /\ Cardinality(Clients) \in Nat
  BY <1>2, FS_Injection, FS_CardinalityType
<1>4. Cardinality(1..n) = n
  <2>1. 1 \in Int /\ n \in Int
    BY <1>1
  <2>2. Cardinality(1..n) = IF 1 > n THEN 0 ELSE n - 1 + 1
    BY <2>1, FS_Interval
  <2> QED
    BY <1>1, <2>2
<1> QED
  BY <1>1, <1>3, <1>4

\* How long a call can wait at most: for three steps of main(), or for one call of each
\* client there is (service.cpp:93-155).
THEOREM WaitIsBounded ==
  ASSUME IsFiniteSet(Clients), NEW c \in Clients
  PROVE  Spec => [](Waiting(c) => Ahead(c) \in 1..(Cardinality(Clients) + 3))
<1>1. Init => OneCallEach
  BY DEF Init, OneCallEach
<1>2. ServiceInv /\ Found /\ OneCallEach =>
        (Waiting(c) => Ahead(c) \in 1..(Cardinality(Clients) + 3))
  <2> SUFFICES ASSUME ServiceInv, Found, OneCallEach, Waiting(c)
               PROVE  Ahead(c) \in 1..(Cardinality(Clients) + 3)
    OBVIOUS
  <2>1. DOMAIN calls = 1..Len(calls)
    BY QueueOf DEF ServiceInv, TypeOK
  <2>2. PICK k \in 1..Len(calls) : calls[k].client = c
    BY <2>1 DEF Waiting
  <2>3. Place(c) = k
    BY <2>1, <2>2, PlaceOf
  <2> DEFINE n == Cardinality(Clients)
  <2>4. n \in Nat /\ k \in Nat /\ k >= 1 /\ k =< n
    BY <2>2, QueueFits
  <2>5. ToJoin \in 0..3
    BY DEF ToJoin
  <2> HIDE DEF n
  <2>6. Ahead(c) \in 1..(n + 3)
    BY <2>3, <2>4, <2>5 DEF Ahead
  <2> QED
    BY <2>6 DEF n
<1> QED
  BY <1>1, <1>2, InitServiceInv, StepServiceInv, InitFound, StepFound, StepOneCallEach, PTL
     DEF Spec

-----------------------------------------------------------------------------
\* The service with what it answers is the service: what is proved of Init and Next
\* holds with the pictures too, whatever handler takes a call.
THEOREM PictureKeepsTheService ==
  PaSpec => Init /\ [][Next]_vars
<1>1. PaInit => Init
  BY DEF PaInit
<1> QED
  BY <1>1, PaStepsService, PTL DEF PaSpec

\* With pictures, too: no handler reaches the library outside its session, main()
\* returns with nothing open, and no waiting client is overtaken.
THEOREM PictureCallsAreInSession ==
  ASSUME NEW c \in Clients
  PROVE  PaSpec => /\ []LibraryCalledInSession /\ []ExitLeavesNothing
                   /\ [][Advances(c)]_vars
<1>1. Init => OneCallEach
  BY DEF Init, OneCallEach
<1>2. ServiceInv => LibraryCalledInSession /\ ExitLeavesNothing
  BY DEF ServiceInv, Holdings, ExitLeavesNothing
<1>3. ServiceInv /\ Found /\ OneCallEach /\ OneCallEach' /\ [Next]_vars => [Advances(c)]_vars
  BY StepAdvances
<1> QED
  BY <1>1, <1>2, <1>3, InitServiceInv, StepServiceInv, InitFound, StepFound, StepOneCallEach,
     PictureKeepsTheService, PTL

=============================================================================
