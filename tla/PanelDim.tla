------------------------------ MODULE PanelDim ------------------------------
(***************************************************************************)
(* The dim amount of the FOD HAL over the backlight of the light HAL: the  *)
(* first reads (BRIGHTNESS_PATH, FingerprintInscreen.cpp:37) the node that *)
(* the second writes, scaled to whatever range it found, and compensates   *)
(* for it by a curve fitted to one panel.  The two processes know nothing  *)
(* of each other.                                                          *)
(***************************************************************************)
EXTENDS Light, FiniteSets, Sequences

CONSTANTS
  FirstAt,    \* the value of the node at which the amount falls to 254, to 253, and so on
  Reach       \* the widest value of the node for which FirstAt is given

\* The range the curve was fitted to.
Fitted == 1023

\* 255.0f * (1 - pow(b / 1023.0f, 0.455)), cut to an integer: pow is external, and its
\* curve is given by where the integer falls.  That it falls everywhere and is 0 where
\* the power is that of 1 is what the C library promises of pow.
Curve == [b \in 0..Reach |-> 255 - Cardinality({n \in DOMAIN FirstAt : FirstAt[n] <= b})]

ASSUME DimAssumption ==
  /\ FirstAt \in Seq(Nat \ {0}) /\ Reach \in Nat
  /\ PanelMaxes \cup {DEFAULT_MAX_BRIGHTNESS, Fitted} \subseteq 0..Reach
  /\ Curve[Fitted] = 0

\* Mutated: the amount grows with the brightness; it ranges over 256.
DimUpsideDown(b) == 255 - Curve[b]
DimTo256(b) == (256 * Curve[b]) \div 255

\* dimAmount at the brightness b.
Dim(b) == Curve[b]

VARIABLES
  dim,    \* history: the last answer of getDimAmount
  seen    \* history: the colour it is the answer to, Unasked if it is to none

dimVars == <<vars, dim, seen>>

DimTypeOK == TypeOK /\ dim \in Int /\ seen \in Colors \cup {Unasked}

DimInit == Init /\ dim = Dim(panel) /\ seen = Unasked

\* The light HAL works; an answer is compared within one process of it.
LightStep ==
  /\ Next /\ UNCHANGED dim
  /\ seen' = IF up' = up THEN seen ELSE Unasked

\* getDimAmount: the curve at the node's value, or at 0 when it cannot be read.
getDimAmount ==
  \E ok \in IoOutcomes :
    /\ dim' = Dim(IF ok THEN panel ELSE 0)
    /\ seen' = IF ok /\ "panel" \in fresh THEN asked["BACKLIGHT"] ELSE Unasked
    /\ UNCHANGED vars

DimNext == LightStep \/ getDimAmount

DimSpec == DimInit /\ [][DimNext]_dimVars

-----------------------------------------------------------------------------
\* The amount is one of an alpha channel on every panel whose range does not exceed
\* the fitted one, although the light HAL may have scaled to another range than the
\* driver's: neither of the two computations ever leaves the curve
\* (FingerprintInscreen.cpp:124-128 over Light.cpp:71-74, 113-127).
DimIsAnAlpha == panelMax <= Fitted => dim \in 0..255

\* What a colour is worth on a range.
Worth(c, range) == (rgbToBrightness(c) * range) \div DEFAULT_MAX_BRIGHTNESS

\* A range that could not be read costs brightness and never adds any, on a panel
\* with at least the default range: the backlight is never above what the colour is
\* worth on the driver's range, and the FOD HAL, which measures the node against a
\* range of its own, dims no less than it would for that (Light.cpp:71-72, 113-127,
\* FingerprintInscreen.cpp:124-128).
UnreadRangeOnlyDims ==
  panelMax >= DEFAULT_MAX_BRIGHTNESS =>
    /\ "panel" \in fresh => panel <= Worth(asked["BACKLIGHT"], panelMax)
    /\ seen # Unasked => dim >= Dim(Worth(seen, panelMax))

DimmedLess ==
  (seen # Unasked /\ seen' # Unasked /\ Brighter(seen, seen')) => dim' <= dim

\* A display asked to be brighter is never dimmed more than before, on any panel,
\* through both roundings and whichever range the process works with.
BrighterIsDimmedLess == [][DimmedLess]_dimVars

=============================================================================
