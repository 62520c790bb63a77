------------------------------- MODULE Light -------------------------------
(***************************************************************************)
(* The light HAL of src/light: one LED shared by the attention and the     *)
(* notification light, and the panel backlight, scaled to the range its    *)
(* driver reports when the process starts.  One binder thread serves the   *)
(* calls and the process keeps nothing across its death, so a call is one  *)
(* step.  LightState members are not initialised by the constructor: until *)
(* a light has been set, its state is whatever the memory held.            *)
(***************************************************************************)
EXTENDS Integers

CONSTANTS
  Colors,       \* the colours clients ask for
  PanelMaxes,   \* the ranges a panel driver may report in max_brightness
  IoOutcomes    \* the results a sysfs access may have: TRUE done, FALSE refused

Rgb == [r : 0..255, g : 0..255, b : 0..255]

\* The widest range for which no colour makes the product in setPanelBacklight, one of
\* unsigned 32-bit numbers, wrap (LightProofs shows that it is exactly this one).
WidestRange == 16843009

ASSUME LightAssumption ==
  /\ Colors \subseteq Rgb
  /\ PanelMaxes \subseteq 1..WidestRange
  /\ IoOutcomes \in (SUBSET BOOLEAN) \ {{}}

LED_OFF == 0
LED_BLINK == 10
DEFAULT_MAX_BRIGHTNESS == 255

Gray(v) == [r |-> v, g |-> v, b |-> v]
Unasked == Gray(-1)
Types == {"ATTENTION", "BACKLIGHT", "NOTIFICATIONS"}

\* Mutated: weights that sum to 255.
WeakRgbToBrightness(c) == (77 * c.r + 150 * c.g + 28 * c.b) \div 256

rgbToBrightness(c) == (77 * c.r + 150 * c.g + 29 * c.b) \div 256

isLit(c) == c # Gray(0)

VARIABLES
  up,                    \* the process is registered and serves
  panelMax,              \* the range of the panel driver, for good
  mPanelMaxBrightness,   \* the range the process works with
  mAttentionState,       \* whether the attention light is lit, for the process
  mNotificationState,    \* whether the notification light is lit, for the process
  led, panel,            \* the LED's blink node and the backlight node
  asked,                 \* history: what each light was last asked for in this process
  fresh                  \* history: the nodes whose last write in this process went through

vars == <<up, panelMax, mPanelMaxBrightness, mAttentionState, mNotificationState, led, panel,
          asked, fresh>>

TypeOK ==
  /\ up \in BOOLEAN /\ panelMax \in PanelMaxes
  /\ mPanelMaxBrightness \in {panelMax, DEFAULT_MAX_BRIGHTNESS}
  /\ mAttentionState \in BOOLEAN /\ mNotificationState \in BOOLEAN
  /\ led \in {LED_OFF, LED_BLINK}
  /\ panel \in 0..mPanelMaxBrightness \/ "panel" \notin fresh
  /\ asked \in [Types -> Colors \cup {Unasked}]
  /\ fresh \subseteq {"led", "panel"}

-----------------------------------------------------------------------------
\* Mutated: a node that cannot be read leaves what the stack held.
GetUnchecked(value, def) == {IF ok THEN value ELSE 2000 : ok \in IoOutcomes}

\* get(path, def): the value of a node, or the default when it cannot be read.
Get(value, def) == {IF ok THEN value ELSE def : ok \in IoOutcomes}

\* The constructor: uninitialised states, and a range that falls back to the
\* default when it cannot be read.  The nodes keep what they had.
Construct ==
  /\ mPanelMaxBrightness' \in Get(panelMax, DEFAULT_MAX_BRIGHTNESS)
  /\ mAttentionState' \in BOOLEAN
  /\ mNotificationState' \in BOOLEAN
  /\ asked' = [t \in Types |-> Unasked]
  /\ fresh' = {}

\* The device boots with the LED off, the backlight as the boot loader left it,
\* and no process yet.
Init ==
  /\ up = FALSE /\ panelMax \in PanelMaxes /\ mPanelMaxBrightness = DEFAULT_MAX_BRIGHTNESS
  /\ mAttentionState = FALSE /\ mNotificationState = FALSE
  /\ led = LED_OFF /\ panel = panelMax
  /\ asked = [t \in Types |-> Unasked] /\ fresh = {}

Start == ~up /\ up' = TRUE /\ Construct /\ UNCHANGED <<panelMax, led, panel>>

Die ==
  /\ up /\ up' = FALSE
  /\ UNCHANGED <<panelMax, mPanelMaxBrightness, mAttentionState, mNotificationState, led, panel,
                 asked, fresh>>

-----------------------------------------------------------------------------
\* set(path, value): a refused write goes unnoticed.
Wrote(node, ok) == fresh' = IF ok THEN fresh \cup {node} ELSE fresh \ {node}

\* Mutated: the attention light is forgotten.
NotificationLedOnly ==
  \E ok \in IoOutcomes :
    /\ led' = IF ~ok THEN led ELSE IF mNotificationState' THEN LED_BLINK ELSE LED_OFF
    /\ Wrote("led", ok)

\* The LED blinks for either light, as they are after the call.
setSpeakerBatteryLightLocked ==
  \E ok \in IoOutcomes :
    /\ led' = IF ~ok THEN led
              ELSE IF mNotificationState' \/ mAttentionState' THEN LED_BLINK ELSE LED_OFF
    /\ Wrote("led", ok)

setAttentionLight(c) ==
  /\ mAttentionState' = isLit(c)
  /\ UNCHANGED <<mNotificationState, panel>>
  /\ setSpeakerBatteryLightLocked

\* Mutated: an off request does not reach the stored state.
StickyNotificationLight(c) ==
  /\ mNotificationState' = (mNotificationState \/ isLit(c))
  /\ UNCHANGED <<mAttentionState, panel>>
  /\ setSpeakerBatteryLightLocked

setNotificationLight(c) ==
  /\ mNotificationState' = isLit(c)
  /\ UNCHANGED <<mAttentionState, panel>>
  /\ setSpeakerBatteryLightLocked

\* Mutated: the scaled value is kept in 8 bits; the levels count from 1.
ByteScale(brightness) == ((brightness * mPanelMaxBrightness) \div DEFAULT_MAX_BRIGHTNESS) % 256
Overscale(brightness) == ((brightness + 1) * mPanelMaxBrightness) \div DEFAULT_MAX_BRIGHTNESS

\* Linear scaling across the accepted range, unless it is the default.
Scaled(brightness) ==
  IF mPanelMaxBrightness # DEFAULT_MAX_BRIGHTNESS
  THEN (brightness * mPanelMaxBrightness) \div DEFAULT_MAX_BRIGHTNESS
  ELSE brightness

setPanelBacklight(c) ==
  /\ \E ok \in IoOutcomes :
       /\ panel' = IF ok THEN Scaled(rgbToBrightness(c)) ELSE panel
       /\ Wrote("panel", ok)
  /\ UNCHANGED <<mAttentionState, mNotificationState, led>>

\* setLight: the types that are not in mLights are refused, with no effect.
setLight(type, c) ==
  /\ up
  /\ \/ type = "ATTENTION" /\ setAttentionLight(c)
     \/ type = "BACKLIGHT" /\ setPanelBacklight(c)
     \/ type = "NOTIFICATIONS" /\ setNotificationLight(c)
  /\ asked' = [asked EXCEPT ![type] = c]
  /\ UNCHANGED <<up, panelMax, mPanelMaxBrightness>>

Next == Start \/ Die \/ (\E type \in Types, c \in Colors : setLight(type, c))

Spec == Init /\ [][Next]_vars

-----------------------------------------------------------------------------
Lit(t) == asked[t] # Unasked /\ isLit(asked[t])

\* A light that was asked for shows on the LED the two share, whatever the other
\* light was asked for, and although its state may never have been initialised.
LitRequestShows ==
  ("led" \in fresh /\ (Lit("ATTENTION") \/ Lit("NOTIFICATIONS"))) => led = LED_BLINK

\* The LED goes dark for two dark requests only once both lights have been set
\* since the process started: from then on it agrees with the requests exactly
\* (Light.cpp:135-143 over the states of Light.h:47-48).
LedAgreesOnceBothSet ==
  ("led" \in fresh /\ asked["ATTENTION"] # Unasked /\ asked["NOTIFICATIONS"] # Unasked)
    => (led = LED_BLINK <=> Lit("ATTENTION") \/ Lit("NOTIFICATIONS"))

\* White is the top of the range the process works with, and black is 0: the
\* weights of rgbToBrightness and the division of setPanelBacklight lose nothing
\* at the ends (Light.cpp:36-40, 122).
FullScale ==
  "panel" \in fresh =>
    /\ asked["BACKLIGHT"] = Gray(255) => panel = mPanelMaxBrightness
    /\ asked["BACKLIGHT"] = Gray(0) => panel = 0

Brighter(c, d) == c.r <= d.r /\ c.g <= d.g /\ c.b <= d.b

BrighterShowsBrighter ==
  LET c == asked["BACKLIGHT"]
      d == asked'["BACKLIGHT"]
  IN (c # Unasked /\ d # Unasked /\ "panel" \in fresh /\ "panel" \in fresh') =>
       /\ Brighter(c, d) => panel <= panel'
       /\ (c = Gray(c.r) /\ d = Gray(d.r) /\ c.r < d.r)
            => panel < panel' \/ mPanelMaxBrightness < DEFAULT_MAX_BRIGHTNESS

\* Within a process, the backlight is non-decreasing in the colour asked for,
\* and two levels of the framework's 0..255 scale stay two levels of the panel
\* where it has as many.
BacklightNonDecreasing == [][BrighterShowsBrighter]_vars

=============================================================================
