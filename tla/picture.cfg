CONSTANTS
  settings = settings
  systemui = systemui
  Clients <- TwoClients
  Libraries <- SomeLibraries
  Faults <- PaFaults
  Floats <- SomeFloats
  IntMax = 3
  Flat = flat
  Tones = {flat, vivid}
SPECIFICATION PaSpec
INVARIANTS PictureIsAcknowledged WriteBackKeeps RangesAreUsable
