------------------------------ MODULE HbmPanel ------------------------------
(***************************************************************************)
(* The FOD HAL and the sunlight-enhancement HAL, two processes that write  *)
(* the one high-brightness node with no lock and no knowledge of each      *)
(* other: HBM_ENABLE_PATH (FingerprintInscreen.cpp:36) and FILE_HBM        *)
(* (SunlightEnhancement.h:32).  Their steps interleave freely, and a       *)
(* sunlight call may fall between the write and the command of a press.    *)
(***************************************************************************)
EXTENDS FingerprintInscreen

VARIABLES pending, request, failed, reported

Sun == INSTANCE SunlightEnhancement

sunlight == <<pending, request, failed, reported>>
panelVars == <<vars, sunlight>>

PanelTypeOK == TypeOK /\ Sun!SunTypeOK

PanelInit == Init /\ Sun!SunInit

FodStep == Next /\ UNCHANGED sunlight

SunStep ==
  /\ Sun!SunNext
  /\ UNCHANGED <<queue, heard, boost, settled, phase, serving, bound, daemonUp>>

PanelNext == FodStep \/ SunStep

PanelSpec == PanelInit /\ [][PanelNext]_panelVars /\ WF_panelVars(FodStep /\ Serve)

-----------------------------------------------------------------------------
\* The sunlight setting and the node part only where the FOD HAL has come
\* between, or a call whose caller got no answer: a setting is lost, or the light
\* is on unasked, after a press or a release wrote the node, or while the node holds
\* what a setEnabled wrote that is not yet answered or was cut short
\* (SunlightEnhancement.cpp:52-54 keeps no state of its own, so it can neither
\* notice nor restore it).
SettingLostOnlyToFod ==
  (request # (hbm = 1)) => writer = "fod" \/ (hbm = 1) \in failed \cup pending

PhantomIsAPress ==
  (reported' /\ ~reported /\ ~request) =>
    \/ writer = "sunlight" /\ TRUE \in failed
    \/ /\ writer = "fod"
       /\ settled => finger # "up" \/ (cmd = "NOTIFY_FINGER_DOWN" /\ ~sent)

\* An answer of isEnabled that contradicts the setting is a press seen through
\* the node, or a setEnabled(true) that was cut short after its write.  If a press:
\* the FOD HAL wrote the node last, and its daemon was told of a finger, is about
\* to be, or has died since.  A caller is never told of sunlight for a finger that
\* is known to be lifted (SunlightEnhancement.cpp:41-54).
NoPhantomSunlight == [][PhantomIsAPress]_panelVars

=============================================================================
