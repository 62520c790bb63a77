CONSTANTS
  framework = framework
  systemui = systemui
  Clients <- TwoClients
  IoOutcomes = {TRUE, FALSE}
SPECIFICATION PanelSpec
INVARIANTS
  PanelTypeOK
  FingerAndLightAgree
  SettingLostOnlyToFod
PROPERTIES
  NodeBeforeCommand
  
