SPECIFICATION FairSpec
CONSTANTS
  main = main  interp = interp
  HEADLESS = HEADLESS  custom = custom
  NoThread = NoThread  NoEntry = NoEntry  NoRef = NoRef
  Threads = {main, interp}
  Keys = {HEADLESS, custom}
  Preset = {HEADLESS}
  PresetValue <- Parsed
  Typed <- Accesses
  Inputs <- Settings
  Variants = {interp}
  Scale = 4
  MaxDouble = 9
INVARIANTS PropertyMapTypeOK NoDataRace OneTypePerName ReadsAreInitialized
PROPERTIES CallsReturn ImplementsRegisters
