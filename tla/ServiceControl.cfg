SPECIFICATION Spec
CONSTANTS
  Clients = {c1}
  Pickers = {p1, p2}
  Watchdog = watchdog
  NoOne = none
  MaxCrashes = 1
  Settings <- ControlSettings
SYMMETRY Symmetry
INVARIANTS OffIsDurable EngineExclusive OnePick
PROPERTIES OffKept PickRespectsOff
