CONSTANTS
  Colors <- SomeColors
  PanelMaxes <- SomePanels
  IoOutcomes = {TRUE, FALSE}
  FirstAt <- MCFirstAt
  Reach <- MCReach
SPECIFICATION DimSpec
INVARIANTS TypeOK LitRequestShows LedAgreesOnceBothSet FullScale DimIsAnAlpha UnreadRangeOnlyDims
PROPERTIES BacklightNonDecreasing BrighterIsDimmedLess
