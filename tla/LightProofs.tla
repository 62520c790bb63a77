----------------------------- MODULE LightProofs -----------------------------
(***************************************************************************)
(* Theorems about the light HAL, for every set of colours and every panel. *)
(***************************************************************************)
EXTENDS PanelDim, FiniteSetTheorems, TLAPS

\* The arithmetic of the scale.
LEMMA Product ==
  ASSUME NEW m \in Nat, NEW v \in Nat, NEW w \in Nat
  PROVE  /\ v * m \in Nat
         /\ v =< w => v * m =< w * m
         /\ v < w => v * m + m =< w * m
<1>1. v * m \in Nat /\ w * m \in Nat /\ (v + 1) * m = v * m + m
  OBVIOUS
<1>2. v =< w => v * m =< w * m
  <2>1. SUFFICES ASSUME v =< w PROVE v * m =< w * m
    OBVIOUS
  <2>2. w - v \in Nat /\ (w - v) * m \in Nat /\ (w - v) * m = w * m - v * m
    BY <2>1
  <2> QED
    BY <2>2, <1>1
<1>3. v < w => v * m + m =< w * m
  <2>1. SUFFICES ASSUME v < w PROVE v * m + m =< w * m
    OBVIOUS
  <2>2. w - (v + 1) \in Nat /\ (w - (v + 1)) * m \in Nat
    BY <2>1
  <2>3. (w - (v + 1)) * m = w * m - (v + 1) * m
    OBVIOUS
  <2> QED
    BY <2>2, <2>3, <1>1
<1> QED
  BY <1>1, <1>2, <1>3

LEMMA Quotient ==
  ASSUME NEW a \in Nat, NEW b \in Nat
  PROVE  /\ a \div 255 \in Nat
         /\ a =< b => a \div 255 =< b \div 255
         /\ a + 255 =< b => a \div 255 < b \div 255
OBVIOUS

LEMMA QuotientOfProduct == ASSUME NEW m \in Nat PROVE (255 * m) \div 255 = m
OBVIOUS

\* rgbToBrightness keeps greys, is monotone in each component and stays on 8 bits.
LEMMA RgbBounds == \A c \in Rgb : rgbToBrightness(c) \in 0..255
<1> SUFFICES ASSUME NEW c \in Rgb PROVE rgbToBrightness(c) \in 0..255
  OBVIOUS
<1>1. c.r \in 0..255 /\ c.g \in 0..255 /\ c.b \in 0..255
  BY DEF Rgb
<1>2. \A r, g, b \in 0..255 : (77 * r + 150 * g + 29 * b) \div 256 \in 0..255
  OBVIOUS
<1> QED
  BY <1>1, <1>2 DEF rgbToBrightness

LEMMA RgbMonotone ==
  \A c, d \in Rgb : Brighter(c, d) => rgbToBrightness(c) =< rgbToBrightness(d)
<1> SUFFICES ASSUME NEW c \in Rgb, NEW d \in Rgb, Brighter(c, d)
             PROVE  rgbToBrightness(c) =< rgbToBrightness(d)
  OBVIOUS
<1> DEFINE s == 77 * c.r + 150 * c.g + 29 * c.b
           t == 77 * d.r + 150 * d.g + 29 * d.b
<1>1. /\ c.r \in 0..255 /\ c.g \in 0..255 /\ c.b \in 0..255
      /\ d.r \in 0..255 /\ d.g \in 0..255 /\ d.b \in 0..255
  BY DEF Rgb
<1>2. s \in Nat /\ t \in Nat /\ s =< t
  <2> DEFINE r == c.r  g == c.g  b == c.b  rr == d.r  gg == d.g  bb == d.b
  <2>1. r \in Nat /\ g \in Nat /\ b \in Nat /\ rr \in Nat /\ gg \in Nat /\ bb \in Nat
    BY <1>1
  <2>2. r =< rr /\ g =< gg /\ b =< bb
    BY Zenon DEF Brighter
  <2>3. s = 77 * r + 150 * g + 29 * b /\ t = 77 * rr + 150 * gg + 29 * bb
    OBVIOUS
  <2> HIDE DEF s, t, r, g, b, rr, gg, bb
  <2> QED
    BY <2>1, <2>2, <2>3
<1>3. \A a, b \in Nat : a =< b => a \div 256 =< b \div 256
  OBVIOUS
<1> HIDE DEF s, t
<1>4. s \div 256 =< t \div 256
  BY <1>2, <1>3
<1> QED
  BY <1>4 DEF s, t, rgbToBrightness

LEMMA RgbGray == \A v \in 0..255 : rgbToBrightness(Gray(v)) = v
BY DEF rgbToBrightness, Gray

\* setPanelBacklight's scaling: onto the ends of the range, ...
LEMMA ScaledEnds ==
  ASSUME mPanelMaxBrightness \in Nat
  PROVE  Scaled(0) = 0 /\ Scaled(255) = mPanelMaxBrightness
<1>1. 0 * mPanelMaxBrightness = 0 /\ 0 \div 255 = 0
  OBVIOUS
<1> QED
  BY <1>1, QuotientOfProduct DEF Scaled, DEFAULT_MAX_BRIGHTNESS

\* ... within it, non-decreasing, and strictly increasing where the panel has a
\* level for each of the scale.
LEMMA ScaledBounds ==
  ASSUME mPanelMaxBrightness \in Nat, NEW v \in 0..255, NEW w \in 0..255
  PROVE  /\ Scaled(v) \in 0..mPanelMaxBrightness
         /\ v =< w => Scaled(v) =< Scaled(w)
         /\ (v < w /\ mPanelMaxBrightness >= 255) => Scaled(v) < Scaled(w)
<1> DEFINE m == mPanelMaxBrightness
           pv == v * m
           pw == w * m
           pm == 255 * m
<1>1. CASE m = 255
  BY <1>1 DEF Scaled, DEFAULT_MAX_BRIGHTNESS
<1>2. CASE m # 255
  <2>1. Scaled(v) = pv \div 255 /\ Scaled(w) = pw \div 255
    BY <1>2 DEF Scaled, DEFAULT_MAX_BRIGHTNESS
  <2>2. pv \in Nat /\ pw \in Nat /\ pm \in Nat /\ pv =< pm
    BY Product
  <2>3. (v =< w => pv =< pw) /\ (v < w => pv + m =< pw)
    BY Product
  <2>4. pm \div 255 = m
    BY QuotientOfProduct
  <2>5. m \in Nat
    OBVIOUS
  <2> HIDE DEF pv, pw, pm
  <2>6. Scaled(v) \in 0..m
    BY <2>1, <2>2, <2>4, <2>5, Quotient
  <2>7. v =< w => Scaled(v) =< Scaled(w)
    BY <2>1, <2>2, <2>3, Quotient
  <2>8. (v < w /\ m >= 255) => Scaled(v) < Scaled(w)
    <3> SUFFICES ASSUME v < w, m >= 255 PROVE pv \div 255 < pw \div 255
      BY <2>1
    <3>1. pv + 255 =< pw
      BY <2>2, <2>3, <2>5
    <3> QED
      BY <2>2, <3>1, Quotient
  <2> QED
    BY <2>6, <2>7, <2>8
<1> QED
  BY <1>1, <1>2

-----------------------------------------------------------------------------
\* What the process keeps of the requests made to it, and what the nodes show.
StatesInv ==
  /\ asked["ATTENTION"] # Unasked => (mAttentionState <=> isLit(asked["ATTENTION"]))
  /\ asked["NOTIFICATIONS"] # Unasked => (mNotificationState <=> isLit(asked["NOTIFICATIONS"]))

LedInv == "led" \in fresh => (led = LED_BLINK <=> mNotificationState \/ mAttentionState)

PanelInv ==
  "panel" \in fresh =>
    asked["BACKLIGHT"] # Unasked /\ panel = Scaled(rgbToBrightness(asked["BACKLIGHT"]))

LightInv == TypeOK /\ StatesInv /\ LedInv /\ PanelInv

\* The range a process works with, and the colour it was asked for.
LEMMA Ranges ==
  TypeOK => /\ panelMax \in Nat /\ mPanelMaxBrightness \in Nat
            /\ \A t \in Types : asked[t] # Unasked => asked[t] \in Rgb
BY LightAssumption DEF TypeOK, DEFAULT_MAX_BRIGHTNESS

\* The invariant holds when the device boots.
LEMMA InitLightInv == Init => LightInv
BY DEF Init, LightInv, TypeOK, StatesInv, LedInv, PanelInv, Types

\* A request for one of the two lights of the LED.
LEMMA LedRequest ==
  ASSUME LightInv, NEW t \in {"ATTENTION", "NOTIFICATIONS"}, NEW c \in Colors, setLight(t, c)
  PROVE  LightInv'
<1> USE DEF Types
<1>1. /\ asked' = [asked EXCEPT ![t] = c]
      /\ UNCHANGED <<up, panelMax, mPanelMaxBrightness, panel>>
      /\ mAttentionState' \in BOOLEAN /\ mNotificationState' \in BOOLEAN
  BY DEF setLight, setAttentionLight, setNotificationLight, LightInv, TypeOK, isLit
<1>2. PICK ok \in IoOutcomes :
        /\ led' = IF ~ok THEN led
                  ELSE IF mNotificationState' \/ mAttentionState' THEN LED_BLINK ELSE LED_OFF
        /\ Wrote("led", ok)
  BY DEF setLight, setAttentionLight, setNotificationLight, setSpeakerBatteryLightLocked
<1>3. TypeOK'
  BY <1>1, <1>2, LightAssumption DEF LightInv, TypeOK, Wrote
<1>4. StatesInv'
  BY <1>1 DEF setLight, setAttentionLight, setNotificationLight, LightInv, TypeOK, StatesInv
<1>5. LedInv'
  BY <1>2 DEF LedInv, Wrote, LED_BLINK, LED_OFF
<1>6. PanelInv'
  BY <1>1, <1>2 DEF LightInv, TypeOK, PanelInv, Wrote, Scaled
<1> QED
  BY <1>3, <1>4, <1>5, <1>6 DEF LightInv

\* A request for the backlight.
LEMMA BacklightRequest ==
  ASSUME LightInv, NEW c \in Colors, setLight("BACKLIGHT", c)
  PROVE  LightInv'
<1> USE DEF Types
<1>1. /\ asked' = [asked EXCEPT !["BACKLIGHT"] = c]
      /\ UNCHANGED <<up, panelMax, mPanelMaxBrightness, led, mAttentionState, mNotificationState>>
  BY DEF setLight, setPanelBacklight
<1>2. PICK ok \in IoOutcomes :
        /\ panel' = IF ok THEN Scaled(rgbToBrightness(c)) ELSE panel
        /\ Wrote("panel", ok)
  BY DEF setLight, setPanelBacklight
<1>3. c \in Rgb /\ c # Unasked
  BY LightAssumption DEF Unasked, Gray, Rgb
<1>4. Scaled(rgbToBrightness(c)) \in 0..mPanelMaxBrightness
  BY <1>3, RgbBounds, Ranges, ScaledBounds DEF LightInv
<1>5. TypeOK'
  BY <1>1, <1>2, <1>4 DEF LightInv, TypeOK, Wrote
<1>6. StatesInv'
  BY <1>1 DEF LightInv, TypeOK, StatesInv
<1>7. LedInv'
  BY <1>1, <1>2 DEF LightInv, LedInv, Wrote
<1>8. PanelInv'
  BY <1>1, <1>2, <1>3 DEF LightInv, TypeOK, PanelInv, Wrote, Scaled
<1> QED
  BY <1>5, <1>6, <1>7, <1>8 DEF LightInv

\* Every step preserves the invariant.
LEMMA StepLightInv == LightInv /\ [Next]_vars => LightInv'
<1> SUFFICES ASSUME LightInv, [Next]_vars PROVE LightInv'
  OBVIOUS
<1>1. CASE Start
  BY <1>1, LightAssumption
     DEF Start, Construct, Get, LightInv, TypeOK, StatesInv, LedInv, PanelInv, Types
<1>2. CASE Die
  BY <1>2 DEF Die, LightInv, TypeOK, StatesInv, LedInv, PanelInv, Scaled
<1>3. ASSUME NEW t \in Types, NEW c \in Colors, setLight(t, c) PROVE LightInv'
  BY <1>3, LedRequest, BacklightRequest DEF Types
<1>4. CASE UNCHANGED vars
  BY <1>4 DEF vars, LightInv, TypeOK, StatesInv, LedInv, PanelInv, Scaled
<1> QED
  BY <1>1, <1>2, <1>3, <1>4 DEF Next

-----------------------------------------------------------------------------
\* Type correctness; the backlight that a process writes is in its range.
THEOREM LightTypeCorrect == Spec => []TypeOK
<1>1. LightInv => TypeOK
  BY DEF LightInv
<1> QED
  BY InitLightInv, StepLightInv, <1>1, PTL DEF Spec

\* A light asked for shows, whatever was in the memory of the other one.
THEOREM LitRequestsShow == Spec => []LitRequestShows
<1>1. LightInv => LitRequestShows
  BY DEF LightInv, StatesInv, LedInv, LitRequestShows, Lit
<1> QED
  BY InitLightInv, StepLightInv, <1>1, PTL DEF Spec

\* Once both lights were asked for, the LED agrees with the two requests.
THEOREM LedAgrees == Spec => []LedAgreesOnceBothSet
<1>1. LightInv => LedAgreesOnceBothSet
  BY DEF LightInv, StatesInv, LedInv, LedAgreesOnceBothSet, Lit
<1> QED
  BY InitLightInv, StepLightInv, <1>1, PTL DEF Spec

\* White is full scale and black is 0, on every panel.
THEOREM ScaleIsFull == Spec => []FullScale
<1>1. LightInv => FullScale
  <2> SUFFICES ASSUME LightInv, "panel" \in fresh
               PROVE  /\ asked["BACKLIGHT"] = Gray(255) => panel = mPanelMaxBrightness
                      /\ asked["BACKLIGHT"] = Gray(0) => panel = 0
    BY DEF FullScale
  <2>1. rgbToBrightness(Gray(255)) = 255 /\ rgbToBrightness(Gray(0)) = 0
    BY RgbGray
  <2>2. Scaled(255) = mPanelMaxBrightness /\ Scaled(0) = 0
    BY Ranges, ScaledEnds DEF LightInv
  <2> QED
    BY <2>1, <2>2 DEF LightInv, PanelInv
<1> QED
  BY InitLightInv, StepLightInv, <1>1, PTL DEF Spec

\* A brighter colour never shows darker, and two greys show as two levels, on
\* every panel with at least the default range.
THEOREM BrighterIsBrighter == Spec => BacklightNonDecreasing
<1>1. LightInv /\ LightInv' /\ [Next]_vars => [BrighterShowsBrighter]_vars
  <2> DEFINE c == asked["BACKLIGHT"]
             d == asked'["BACKLIGHT"]
  <2> SUFFICES ASSUME LightInv, LightInv', [Next]_vars,
                      c # Unasked, d # Unasked, "panel" \in fresh, "panel" \in fresh'
               PROVE  /\ Brighter(c, d) => panel =< panel'
                      /\ (c = Gray(c.r) /\ d = Gray(d.r) /\ c.r < d.r)
                           => panel < panel' \/ mPanelMaxBrightness < DEFAULT_MAX_BRIGHTNESS
    BY DEF BrighterShowsBrighter
  <2>1. mPanelMaxBrightness' = mPanelMaxBrightness
    BY DEF Next, Start, Construct, Die, setLight, vars
  <2>2. c \in Rgb /\ d \in Rgb /\ mPanelMaxBrightness \in Nat
    <3>1. "BACKLIGHT" \in Types /\ TypeOK /\ TypeOK'
      BY DEF LightInv, Types
    <3>2. asked["BACKLIGHT"] \in Colors /\ asked'["BACKLIGHT"] \in Colors
      BY <3>1 DEF TypeOK
    <3> QED
      BY <3>1, <3>2, Ranges, LightAssumption
  <2>3. panel = Scaled(rgbToBrightness(c)) /\ panel' = Scaled(rgbToBrightness(d))
    BY <2>1 DEF LightInv, PanelInv, Scaled
  <2>4. rgbToBrightness(c) \in 0..255 /\ rgbToBrightness(d) \in 0..255
    BY <2>2, RgbBounds
  <2>5. Brighter(c, d) => panel =< panel'
    BY <2>2, <2>3, <2>4, RgbMonotone, ScaledBounds
  <2>6. (c = Gray(c.r) /\ d = Gray(d.r) /\ c.r < d.r)
           => rgbToBrightness(c) < rgbToBrightness(d)
    <3>1. c.r \in 0..255 /\ d.r \in 0..255
      BY <2>2 DEF Rgb
    <3>2. rgbToBrightness(Gray(c.r)) = c.r /\ rgbToBrightness(Gray(d.r)) = d.r
      BY <3>1, RgbGray
    <3> QED
      BY <3>1, <3>2
  <2>7. rgbToBrightness(c) < rgbToBrightness(d) /\ mPanelMaxBrightness >= 255 => panel < panel'
    BY <2>2, <2>3, <2>4, ScaledBounds
  <2> QED
    BY <2>2, <2>5, <2>6, <2>7 DEF DEFAULT_MAX_BRIGHTNESS
<1> QED
  BY InitLightInv, StepLightInv, <1>1, PTL DEF Spec, BacklightNonDecreasing

-----------------------------------------------------------------------------
\* How often the curve has fallen at a value of the node.
Falls(b) == {n \in DOMAIN FirstAt : FirstAt[n] =< b}

\* It has fallen no more often at a smaller value.
LEMMA FallsBounds ==
  ASSUME NEW a \in Int, NEW b \in Int, a =< b
  PROVE  Cardinality(Falls(a)) \in Nat /\ Cardinality(Falls(a)) =< Cardinality(Falls(b))
<1>1. Len(FirstAt) \in Nat /\ DOMAIN FirstAt = 1..Len(FirstAt)
  BY DimAssumption
<1>2. \A n \in DOMAIN FirstAt : FirstAt[n] \in Nat
  BY DimAssumption
<1>3. IsFiniteSet(DOMAIN FirstAt)
  BY <1>1, FS_Interval
<1>4. Falls(b) \subseteq DOMAIN FirstAt /\ Falls(a) \subseteq Falls(b)
  BY <1>2 DEF Falls
<1>5. IsFiniteSet(Falls(b))
  BY <1>3, <1>4, FS_Subset
<1>6. IsFiniteSet(Falls(a)) /\ Cardinality(Falls(a)) =< Cardinality(Falls(b))
  BY <1>4, <1>5, FS_Subset
<1> QED
  BY <1>6, FS_CardinalityType

\* The curve starts at 255, never rises, and ends at 0 where it was fitted to end.
LEMMA DimBounds ==
  /\ 0 \in DOMAIN Curve /\ Fitted \in DOMAIN Curve /\ Dim(0) = 255 /\ Dim(Fitted) = 0
  /\ \A a \in DOMAIN Curve : Dim(a) \in Int
  /\ \A a, b \in DOMAIN Curve : a =< b => Dim(b) =< Dim(a)
<1>1. \A a \in 0..Reach : Dim(a) = 255 - Cardinality(Falls(a))
  BY DEF Dim, Curve, Falls
<1>2. DOMAIN Curve = 0..Reach /\ Reach \in Nat /\ 0 \in 0..Reach /\ Fitted \in 0..Reach
  BY DimAssumption DEF Curve
<1>3. \A a \in Int : Cardinality(Falls(a)) \in Nat
  BY FallsBounds
<1>4. \A a, b \in Int : a =< b => Cardinality(Falls(a)) =< Cardinality(Falls(b))
  BY FallsBounds
<1>5. Falls(0) = {}
  BY DimAssumption DEF Falls
<1>6. Cardinality(Falls(0)) = 0
  BY <1>5, FS_EmptySet
<1>7. Dim(0) = 255 /\ Dim(Fitted) = 0
  BY <1>1, <1>2, <1>6, DimAssumption DEF Dim
<1>8. \A a \in 0..Reach : Dim(a) \in Int
  BY <1>1, <1>3
<1>9. \A a, b \in 0..Reach : a =< b => Dim(b) =< Dim(a)
  BY <1>1, <1>2, <1>3, <1>4
<1> QED
  BY <1>2, <1>7, <1>8, <1>9

\* The node never leaves the curve's domain.
LEMMA CurveCovers ==
  ASSUME panelMax \in PanelMaxes, NEW p \in Nat, p =< panelMax \/ p =< DEFAULT_MAX_BRIGHTNESS
  PROVE  p \in DOMAIN Curve
<1>1. panelMax \in Nat /\ DEFAULT_MAX_BRIGHTNESS \in Nat
  BY LightAssumption DEF DEFAULT_MAX_BRIGHTNESS
<1>2. DOMAIN Curve = 0..Reach /\ Reach \in Nat
  BY DimAssumption DEF Curve
<1>3. panelMax \in 0..Reach /\ DEFAULT_MAX_BRIGHTNESS \in 0..Reach
  BY DimAssumption
<1> QED
  BY <1>1, <1>2, <1>3

\* The backlight node is on the driver's scale or on the default one, whoever
\* wrote it, and a compared answer is the curve at the colour it is compared for.
DimInv ==
  /\ LightInv
  /\ panel \in Nat /\ (panel =< panelMax \/ panel =< DEFAULT_MAX_BRIGHTNESS)
  /\ dim \in Int /\ (panelMax =< Fitted => dim \in 0..255)
  /\ seen # Unasked => seen \in Colors /\ dim = Dim(Scaled(rgbToBrightness(seen)))

\* On a panel within the fitted range, the curve stays within 0 and 255.
LEMMA DimOfPanel ==
  ASSUME panelMax \in PanelMaxes, NEW p \in Nat, p =< panelMax \/ p =< DEFAULT_MAX_BRIGHTNESS
  PROVE  Dim(p) \in Int /\ (panelMax =< Fitted => Dim(p) \in 0..255)
<1>1. p \in DOMAIN Curve /\ Dim(p) \in Int /\ 0 =< p /\ Dim(p) =< 255
  BY CurveCovers, DimBounds
<1>2. ASSUME panelMax =< Fitted PROVE 0 =< Dim(p)
  <2>1. p =< Fitted
    BY <1>2, LightAssumption DEF Fitted, DEFAULT_MAX_BRIGHTNESS
  <2> QED
    BY <1>1, <2>1, DimBounds
<1> QED
  BY <1>1, <1>2

LEMMA InitDimInv == DimInit => DimInv
<1> SUFFICES ASSUME DimInit PROVE DimInv
  OBVIOUS
<1>1. LightInv /\ seen = Unasked /\ dim = Dim(panel) /\ panel = panelMax
  BY InitLightInv DEF DimInit, Init
<1>2. panelMax \in PanelMaxes /\ panelMax \in Nat
  BY <1>1, Ranges DEF LightInv, TypeOK
<1> QED
  BY <1>1, <1>2, DimOfPanel DEF DimInv

\* The light HAL leaves the node on one of the two scales.
LEMMA LightKeepsPanel ==
  ASSUME DimInv, LightStep
  PROVE  /\ LightInv' /\ panelMax' = panelMax /\ dim' = dim
         /\ panel' \in Nat /\ (panel' =< panelMax' \/ panel' =< DEFAULT_MAX_BRIGHTNESS)
         /\ up' = up => mPanelMaxBrightness' = mPanelMaxBrightness
<1>1. LightInv' /\ dim' = dim
  BY StepLightInv DEF DimInv, LightStep
<1>2. panelMax' = panelMax /\ (up' = up => mPanelMaxBrightness' = mPanelMaxBrightness)
  BY DEF LightStep, Next, Start, Die, setLight
<1>3. panel' = panel \/ "panel" \in fresh'
  BY DEF LightStep, Next, Start, Die, setLight, setAttentionLight, setNotificationLight,
         setPanelBacklight, Wrote
<1>4. CASE panel' = panel
  BY <1>1, <1>2, <1>4 DEF DimInv
<1>5. CASE "panel" \in fresh'
  <2>1. /\ panel' \in 0..mPanelMaxBrightness'
        /\ mPanelMaxBrightness' \in {panelMax', DEFAULT_MAX_BRIGHTNESS}
        /\ mPanelMaxBrightness' \in Nat
    BY <1>1, <1>5, LightAssumption DEF LightInv, TypeOK, DEFAULT_MAX_BRIGHTNESS
  <2> QED
    BY <1>1, <1>2, <2>1
<1> QED
  BY <1>1, <1>2, <1>3, <1>4, <1>5

LEMMA StepDimInv == DimInv /\ [DimNext]_dimVars => DimInv'
<1> SUFFICES ASSUME DimInv, [DimNext]_dimVars PROVE DimInv'
  OBVIOUS
<1>1. CASE LightStep
  <2>1. seen' # Unasked => up' = up /\ seen' = seen
    BY <1>1 DEF LightStep
  <2>2. ASSUME seen' # Unasked
        PROVE  seen' \in Colors /\ dim' = Dim(Scaled(rgbToBrightness(seen)))'
    <3>1. seen' = seen /\ dim' = dim /\ mPanelMaxBrightness' = mPanelMaxBrightness
      BY <1>1, <2>1, <2>2, LightKeepsPanel
    <3>2. Dim(Scaled(rgbToBrightness(seen)))' = Dim(Scaled(rgbToBrightness(seen)))
      BY <3>1 DEF Dim, Scaled, rgbToBrightness
    <3> QED
      BY <2>2, <3>1, <3>2 DEF DimInv
  <2>3. dim' \in Int /\ (panelMax' =< Fitted => dim' \in 0..255)
    BY <1>1, LightKeepsPanel DEF DimInv
  <2> QED
    BY <1>1, <2>2, <2>3, LightKeepsPanel DEF DimInv
<1>2. CASE getDimAmount
  <2>1. PICK ok \in IoOutcomes :
          /\ dim' = Dim(IF ok THEN panel ELSE 0)
          /\ seen' = IF ok /\ "panel" \in fresh THEN asked["BACKLIGHT"] ELSE Unasked
          /\ UNCHANGED vars
    BY <1>2 DEF getDimAmount
  <2>2. LightInv' /\ UNCHANGED <<panel, panelMax, mPanelMaxBrightness>>
    BY <2>1, StepLightInv DEF DimInv, vars
  <2>3. panelMax \in PanelMaxes /\ panelMax \in Nat /\ panel \in Nat /\ 0 =< panelMax
    BY Ranges DEF DimInv, LightInv, TypeOK
  <2>4. dim' \in Int /\ (panelMax =< Fitted => dim' \in 0..255)
    BY <2>1, <2>3, DimOfPanel DEF DimInv
  <2>5. seen' # Unasked => seen' \in Colors /\ dim' = Dim(Scaled(rgbToBrightness(seen')))
    BY <2>1 DEF DimInv, LightInv, TypeOK, PanelInv, Types
  <2> QED
    BY <2>2, <2>4, <2>5 DEF DimInv, Scaled
<1>3. CASE UNCHANGED dimVars
  <2>1. LightInv' /\ UNCHANGED <<panel, panelMax, mPanelMaxBrightness, dim, seen>>
    BY <1>3, StepLightInv DEF DimInv, vars, dimVars
  <2> QED
    BY <2>1 DEF DimInv, Scaled
<1> QED
  BY <1>1, <1>2, <1>3 DEF DimNext

\* The dim amount is an alpha on every panel that fits the curve.
THEOREM DimAmountIsAnAlpha == DimSpec => []DimIsAnAlpha
<1>1. DimInv => DimIsAnAlpha
  BY DEF DimInv, DimIsAnAlpha
<1> QED
  BY InitDimInv, StepDimInv, <1>1, PTL DEF DimSpec

\* Type correctness of the two together.
THEOREM DimTypeCorrect == DimSpec => []DimTypeOK
<1>1. DimInv => DimTypeOK
  BY DEF DimInv, DimTypeOK, LightInv
<1> QED
  BY InitDimInv, StepDimInv, <1>1, PTL DEF DimSpec

\* A level on a range of at least the default one is worth no less than itself.
LEMMA WorthAtLeast ==
  ASSUME NEW v \in 0..255, NEW m \in Nat, m >= 255
  PROVE  (v * m) \div 255 \in 0..m /\ v =< (v * m) \div 255
<1> DEFINE pv == v * m
           pd == v * 255
           pm == 255 * m
<1>1. pv \in Nat /\ pd \in Nat /\ pm \in Nat /\ pv =< pm
  BY Product
<1>2. 255 * v =< m * v /\ m * v = pv /\ 255 * v = pd
  BY Product
<1>3. pd \div 255 = v /\ pm \div 255 = m
  BY QuotientOfProduct
<1> HIDE DEF pv, pd, pm
<1>4. pv \div 255 \in Nat /\ pv \div 255 =< pm \div 255 /\ pd \div 255 =< pv \div 255
  BY <1>1, <1>2, Quotient
<1>5. pv \div 255 \in 0..m /\ v =< pv \div 255
  BY <1>3, <1>4
<1> QED
  BY <1>5 DEF pv

\* The scaled level is that of the driver's range, or a smaller one.
LEMMA ScaledWithinWorth ==
  ASSUME TypeOK, NEW c \in Rgb, panelMax >= DEFAULT_MAX_BRIGHTNESS
  PROVE  /\ Scaled(rgbToBrightness(c)) \in 0..panelMax /\ Worth(c, panelMax) \in 0..panelMax
         /\ Scaled(rgbToBrightness(c)) =< Worth(c, panelMax)
<1> DEFINE v == rgbToBrightness(c)
<1>1. v \in 0..255 /\ panelMax \in Nat /\ panelMax >= 255
  BY RgbBounds, Ranges DEF DEFAULT_MAX_BRIGHTNESS
<1>2. Worth(c, panelMax) = (v * panelMax) \div 255
  BY DEF Worth, DEFAULT_MAX_BRIGHTNESS
<1> HIDE DEF v
<1>3. (v * panelMax) \div 255 \in 0..panelMax /\ v =< (v * panelMax) \div 255
  BY <1>1, WorthAtLeast
<1>4. Scaled(v) = v \/ Scaled(v) = (v * panelMax) \div 255
  BY DEF TypeOK, Scaled, DEFAULT_MAX_BRIGHTNESS
<1>5. v \in 0..panelMax
  BY <1>1
<1>6. Scaled(v) \in 0..panelMax /\ Scaled(v) =< (v * panelMax) \div 255
  BY <1>1, <1>3, <1>4, <1>5
<1> QED
  BY <1>2, <1>3, <1>6 DEF v

\* An unreadable range never makes the display brighter, nor dims it less, whatever the
\* panel, the colour and the curve.
THEOREM UnreadRangeNeverBrightens == DimSpec => []UnreadRangeOnlyDims
<1>1. DimInv => UnreadRangeOnlyDims
  <2> SUFFICES ASSUME DimInv, panelMax >= DEFAULT_MAX_BRIGHTNESS
               PROVE  /\ "panel" \in fresh => panel =< Worth(asked["BACKLIGHT"], panelMax)
                      /\ seen # Unasked => dim >= Dim(Worth(seen, panelMax))
    BY DEF UnreadRangeOnlyDims
  <2>1. TypeOK /\ PanelInv /\ panelMax \in Nat /\ panelMax \in PanelMaxes
    BY Ranges DEF DimInv, LightInv, TypeOK
  <2>2. ASSUME "panel" \in fresh PROVE panel =< Worth(asked["BACKLIGHT"], panelMax)
    <3>1. asked["BACKLIGHT"] \in Rgb /\ panel = Scaled(rgbToBrightness(asked["BACKLIGHT"]))
      BY <2>1, <2>2, Ranges DEF PanelInv, Types
    <3> QED
      BY <2>1, <3>1, ScaledWithinWorth
  <2>3. ASSUME seen # Unasked PROVE dim >= Dim(Worth(seen, panelMax))
    <3>1. seen \in Rgb /\ dim = Dim(Scaled(rgbToBrightness(seen)))
      BY <2>3, LightAssumption DEF DimInv
    <3> DEFINE p == Scaled(rgbToBrightness(seen))
               q == Worth(seen, panelMax)
    <3>2. p \in 0..panelMax /\ q \in 0..panelMax /\ p =< q
      BY <2>1, <3>1, ScaledWithinWorth
    <3> HIDE DEF p, q
    <3>3. p \in DOMAIN Curve /\ q \in DOMAIN Curve
      BY <2>1, <3>2, CurveCovers
    <3>4. Dim(q) =< Dim(p) /\ Dim(q) \in Int /\ Dim(p) \in Int
      BY <3>2, <3>3, DimBounds
    <3>5. Dim(p) >= Dim(q)
      BY <3>4
    <3> QED
      BY <3>1, <3>5 DEF p, q
  <2> QED
    BY <2>2, <2>3
<1> QED
  BY InitDimInv, StepDimInv, <1>1, PTL DEF DimSpec

\* A brighter colour is never dimmed more, on every panel and for every range read.
THEOREM BrighterIsNeverDimmedMore == DimSpec => BrighterIsDimmedLess
<1>1. DimInv /\ DimInv' /\ [DimNext]_dimVars => [DimmedLess]_dimVars
  <2> SUFFICES ASSUME DimInv, DimInv', [DimNext]_dimVars,
                      seen # Unasked, seen' # Unasked, Brighter(seen, seen')
               PROVE  dim' =< dim
    BY DEF DimmedLess
  <2>1. mPanelMaxBrightness' = mPanelMaxBrightness
    <3>1. CASE LightStep
      BY <3>1, LightKeepsPanel DEF LightStep
    <3> QED
      BY <3>1 DEF DimNext, getDimAmount, dimVars, vars
  <2>2. seen \in Rgb /\ seen' \in Rgb /\ mPanelMaxBrightness \in Nat
    BY Ranges, LightAssumption DEF DimInv, LightInv
  <2>3. /\ dim = Dim(Scaled(rgbToBrightness(seen)))
        /\ dim' = Dim(Scaled(rgbToBrightness(seen')))
    BY <2>1 DEF DimInv, Scaled
  <2>4. /\ rgbToBrightness(seen) \in 0..255 /\ rgbToBrightness(seen') \in 0..255
        /\ rgbToBrightness(seen) =< rgbToBrightness(seen')
    BY <2>2, RgbBounds, RgbMonotone
  <2>5. /\ Scaled(rgbToBrightness(seen)) \in DOMAIN Curve
        /\ Scaled(rgbToBrightness(seen')) \in DOMAIN Curve
        /\ Scaled(rgbToBrightness(seen)) =< Scaled(rgbToBrightness(seen'))
    <3> DEFINE v == rgbToBrightness(seen)
               w == rgbToBrightness(seen')
    <3> HIDE DEF v, w
    <3>1. v \in 0..255 /\ w \in 0..255 /\ v =< w
      BY <2>4 DEF v, w
    <3>2. /\ Scaled(v) \in 0..mPanelMaxBrightness /\ Scaled(w) \in 0..mPanelMaxBrightness
          /\ Scaled(v) =< Scaled(w)
      BY <2>2, <3>1, ScaledBounds
    <3>3. /\ panelMax \in PanelMaxes
          /\ mPanelMaxBrightness = panelMax \/ mPanelMaxBrightness = DEFAULT_MAX_BRIGHTNESS
      BY DEF DimInv, LightInv, TypeOK
    <3>4. Scaled(v) \in DOMAIN Curve /\ Scaled(w) \in DOMAIN Curve
      BY <2>2, <3>2, <3>3, CurveCovers
    <3> QED
      BY <3>2, <3>4 DEF v, w
  <2> QED
    BY <2>3, <2>5, DimBounds
<1> QED
  BY InitDimInv, StepDimInv, <1>1, PTL DEF DimSpec, BrighterIsDimmedLess

-----------------------------------------------------------------------------
\* The largest unsigned int of 32 bits.
UIntMax == 4294967295

\* The product of setPanelBacklight, of an unsigned level and a range, wraps for no colour
\* up to WidestRange, and for white on every wider range: the assumption on PanelMaxes
\* leaves out exactly the panels on which the code computes something else
\* (Light.cpp:36-40, 116-122).
THEOREM WidestRangeIsExact ==
  ASSUME NEW m \in Nat
  PROVE  (\A c \in Rgb : rgbToBrightness(c) * m =< UIntMax) <=> m =< WidestRange
<1>1. 255 * m =< UIntMax <=> m =< WidestRange
  BY SMT DEF WidestRange, UIntMax
<1>2. ASSUME NEW c \in Rgb PROVE rgbToBrightness(c) * m =< 255 * m /\ rgbToBrightness(c) * m \in Nat
  BY RgbBounds, Product
<1>3. ASSUME m =< WidestRange, NEW c \in Rgb PROVE rgbToBrightness(c) * m =< UIntMax
  <2> DEFINE p == rgbToBrightness(c) * m
             q == 255 * m
  <2>1. p \in Nat /\ q \in Nat /\ p =< q /\ q =< UIntMax /\ UIntMax \in Nat
    BY <1>1, <1>2, <1>3 DEF UIntMax
  <2> HIDE DEF p, q
  <2>2. p =< UIntMax
    BY <2>1
  <2> QED
    BY <2>2 DEF p
<1>4. Gray(255) \in Rgb /\ rgbToBrightness(Gray(255)) = 255
  BY RgbGray DEF Gray, Rgb
<1> QED
  BY <1>1, <1>3, <1>4

\* The dim amount is read beside the light HAL and disturbs none of its promises: not
\* the LED that agrees with both requests, nor the backlight's order and its ends
\* (FingerprintInscreen.cpp:124-128).
THEOREM DimLeavesTheLights ==
  DimSpec => []LitRequestShows /\ []LedAgreesOnceBothSet /\ []FullScale /\ BacklightNonDecreasing
<1>1. DimSpec => Spec
  <2>1. DimInit => Init
    BY DEF DimInit
  <2>2. [DimNext]_dimVars => [Next]_vars
    BY DEF DimNext, LightStep, getDimAmount, dimVars
  <2> QED
    BY <2>1, <2>2, PTL DEF DimSpec, Spec
<1> QED
  BY <1>1, LitRequestsShow, LedAgrees, ScaleIsFull, BrighterIsBrighter, PTL

=============================================================================
