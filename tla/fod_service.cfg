CONSTANTS
  framework = framework
  systemui = systemui
  Clients <- TwoClients
  IoOutcomes <- Reliable
SPECIFICATION Spec
INVARIANTS
  BoostBeforeUiReady
PROPERTIES
  EveryCallReturns
  RelaySpec
