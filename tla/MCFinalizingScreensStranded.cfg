SPECIFICATION ScreenSpec
CONSTANTS
  Callers = {pA, pB}
  Lockers = {l1}
  Uploads = {}
  MaxFaults = 1
  MaxCrashes = 0
  MaxDrops = 0
PROPERTY SealingGoesOn
CHECK_DEADLOCK FALSE
