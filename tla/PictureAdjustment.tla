------------------------- MODULE PictureAdjustment -------------------------
(***************************************************************************)
(* The picture-adjustment service of the LiveDisplay HAL, in the process   *)
(* of LiveDisplayService: each handler passes its call on to the display   *)
(* library and turns what it gets into the types of the interface.  Hue is *)
(* an int32_t in the library and a float in the interface, counted here in *)
(* halves: not every integer is a float, and not every float fits an       *)
(* integer.  Saturation, intensity, contrast and threshold are floats in   *)
(* both, and are one value, the tone.                                      *)
(***************************************************************************)
EXTENDS LiveDisplayService

CONSTANTS
  Floats,  \* the hues a float can hold, in halves
  IntMax,  \* the largest int32_t
  Tones,   \* the other four values
  Flat     \* four zeros

\* Mutated: the hue is rounded down.
Floor(halves) == halves \div 2

\* static_cast<int32_t> cuts towards zero.
Truncate(halves) == IF halves >= 0 THEN halves \div 2 ELSE -((-halves) \div 2)

\* The whole part of a float is a float.
ASSUME PictureAssumption ==
  /\ Floats \subseteq Int /\ 0 \in Floats /\ \A f \in Floats : 2 * Truncate(f) \in Floats
  /\ IntMax \in Nat /\ Flat \in Tones

Int32 == -IntMax - 1 .. IntMax
Fits(halves) == Truncate(halves) \in Int32
Zero == [hue |-> 0, tone |-> Flat]
ZeroRange == [max |-> 0, min |-> 0]
Pictures == [hue : Floats, tone : Tones]
Shown == [hue : Int32, tone : Tones]

\* static_cast<float>: a float that is nearest to the hue, which is given in halves.
Nearest(halves) ==
  LET Off(f) == IF f >= halves THEN f - halves ELSE halves - f
  IN {f \in Floats : \A g \in Floats : Off(f) <= Off(g)}

\* The hsic_configs an HSIC can become, any of them if its hue does not fit, and the
\* HSICs an hsic_config can become.
Config(hsic) ==
  [hue : IF Fits(hsic.hue) THEN {Truncate(hsic.hue)} ELSE Int32, tone : {hsic.tone}]
Hsic(config) == [hue : Nearest(2 * config.hue), tone : {config.tone}]

VARIABLES
  shown,   \* the hsic_config of the display, for good
  acked,   \* history: the HSIC of the last set that succeeded
  unsure,  \* history: no set has succeeded, or one has failed or was cut short since
  settled, \* history: a set with a hue that fits succeeded, and none with another came since
  read,    \* history: the picture that was read last, if no set came after it
  range    \* history: the range that was answered last

none == [answer |-> Zero, failed |-> TRUE]

pictureVars == <<shown, acked, unsure, settled, read, range>>
paVars == <<vars, pictureVars>>

PaTypeOK ==
  /\ TypeOK
  /\ shown \in Shown /\ acked \in Pictures /\ unsure \in BOOLEAN /\ settled \in BOOLEAN
  /\ read \in [answer : Pictures, failed : BOOLEAN]
  /\ range \in [part : Parts, answer : [max : Int, min : Int], failed : BOOLEAN]

\* The display starts with whatever its maker has set.
PaInit ==
  /\ Init /\ shown \in Shown /\ acked = Zero /\ unsure = TRUE /\ settled = FALSE /\ read = none
  /\ range = [part |-> "hue", answer |-> ZeroRange, failed |-> TRUE]

-----------------------------------------------------------------------------
\* A handler that takes the oldest call.
Handle(handler) == ServeCall /\ Head(calls).service = "pa" /\ handler

\* A call of an entry point: made if the library has it, and then with a status.
Calls(entry, ok) ==
  IF Exported(entry) THEN ok \in LibraryOutcomes /\ UseLibrary ELSE ~ok /\ UNCHANGED stray

\* getHueRange, getSaturationRange and so on
GetRange(part) ==
  /\ \E ok \in BOOLEAN :
       /\ Calls("get_global_pa_range", ok)
       /\ range' = [part |-> part, answer |-> IF ok THEN library.ranges[part] ELSE ZeroRange,
                    failed |-> ~ok /\ Exported("get_global_pa_range")]
  /\ UNCHANGED <<shown, acked, unsure, settled, read>>

\* Mutated: the default stands in for what cannot be read, and for what can.
GetCached ==
  /\ Calls("get_global_pa_config", TRUE)
  /\ read' = [answer |-> Zero, failed |-> FALSE]
  /\ UNCHANGED <<shown, acked, unsure, settled, range>>

\* getPictureAdjustment
GetPictureAdjustment ==
  /\ \E ok \in BOOLEAN :
       /\ Calls("get_global_pa_config", ok)
       /\ \E hsic \in IF ok THEN Hsic(shown) ELSE {Zero} : read' = [answer |-> hsic, failed |-> ~ok]
  /\ UNCHANGED <<shown, acked, unsure, settled, range>>

\* getDefaultPictureAdjustment: mDefaultPictureAdjustment, as the constructor has
\* cleared it.
GetDefault == UNCHANGED <<stray, pictureVars>>

\* The call of set_global_pa_config with an HSIC, and what it leaves in the display.
Sets(hsic, ok) ==
  /\ Calls("set_global_pa_config", ok)
  /\ shown' \in IF ok THEN Config(hsic)
                ELSE {shown} \cup (IF Exported("set_global_pa_config") THEN Config(hsic) ELSE {})
  /\ settled' = ((settled \/ ok) /\ (Fits(hsic.hue) \/ ~Exported("set_global_pa_config")))

\* Mutated: the status is not looked at.
SetUnchecked(hsic) ==
  /\ \E ok \in BOOLEAN : Sets(hsic, ok)
  /\ acked' = hsic /\ unsure' = FALSE /\ read' = none
  /\ UNCHANGED range

\* setPictureAdjustment; a set that fails in the library may have reached the display.
SetPictureAdjustment(hsic) ==
  /\ \E ok \in BOOLEAN :
       /\ Sets(hsic, ok)
       /\ acked' = IF ok THEN hsic ELSE acked
       /\ unsure' = (~ok /\ (unsure \/ Exported("set_global_pa_config")))
  /\ read' = none
  /\ UNCHANGED range

\* The process dies in the middle of a set.
SetCutShort(hsic) ==
  /\ Kill /\ ThreadServes /\ calls # <<>> /\ Head(calls).service = "pa"
  /\ shown' \in Config(hsic) /\ unsure' = TRUE /\ settled' = (settled /\ Fits(hsic.hue))
  /\ read' = none
  /\ UNCHANGED <<acked, range>>

PaNext ==
  \/ /\ Main \/ Kill \/ BackendReady \/ (\E c \in Clients : Call(c, "pa"))
     /\ UNCHANGED pictureVars
  \/ \E part \in Parts : Handle(GetRange(part))
  \/ Handle(GetPictureAdjustment)
  \/ Handle(GetDefault)
  \/ \E hsic \in Pictures : Handle(SetPictureAdjustment(hsic))
  \/ \E hsic \in Pictures : SetCutShort(hsic)

PaSpec == PaInit /\ [][PaNext]_paVars

-----------------------------------------------------------------------------
\* The display shows what the last successful set asked for, its hue off by less
\* than one and never beyond what was asked, on either side of zero, unless that hue
\* does not fit, or a later set failed or died with the process; a restart of the HAL
\* changes nothing (PictureAdjustment.cpp:199-210).
PictureIsAcknowledged ==
  \/ unsure \/ ~Fits(acked.hue)
  \/ /\ shown.tone = acked.tone
     /\ 2 * shown.hue - acked.hue \in -1..1
     /\ IF acked.hue >= 0 THEN 2 * shown.hue \in 0..acked.hue ELSE 2 * shown.hue \in acked.hue..0

\* Once clients have set the picture, with hues that fit, a client that reads it and
\* writes it back changes nothing, whichever sets have failed since: no hue is lost on
\* its way through the float.  The maker's own picture is not so safe, its hue need
\* not be a float (PictureAdjustment.cpp:85-98, 188-210).
WriteBackKeeps == settled /\ ~read.failed => Config(read.answer) = {shown}

\* A client that finds the service gets ranges it can scale by: a library without
\* them, or with a bound of 0, was turned away when the process started, except for
\* the threshold's (PictureAdjustment.cpp:51-83, 107-186, service.cpp:113-127).
RangesAreUsable ==
  range.failed \/ range.part = "saturationThreshold" \/ (range.answer.max # 0 /\ range.answer.min # 0)

=============================================================================
