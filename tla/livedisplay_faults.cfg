CONSTANTS
  settings = settings
  systemui = systemui
  shell = shell
  Clients <- ThreeClients
  Libraries <- SomeLibraries
  Faults <- AllFaults
SPECIFICATION Spec
INVARIANTS
  TypeOK
  LibraryCalledInSession
  ExitLeavesNothing
  NeverSunlightAlone
PROPERTIES
  EveryCallEnds
  ReadyBackendIsServed
