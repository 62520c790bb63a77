CONSTANTS
  settings = settings
  systemui = systemui
  shell = shell
  Clients <- ThreeClients
  Libraries <- SomeLibraries
  Faults <- AllFaults
SPECIFICATION Spec
PROPERTIES
  CleansOnlyWhatItStarted
