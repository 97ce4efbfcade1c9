SPECIFICATION FairSpec
CONSTANTS
  Clients = {c1}
  Pickers = {}
  Watchdog = watchdog
  NoOne = none
  MaxCrashes = 1
  Settings <- LiveSettings
PROPERTIES EngineSettles
