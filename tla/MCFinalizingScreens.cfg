SPECIFICATION ScreenSpec
CONSTANTS
  Callers = {pA, pB}
  Lockers = {l1}
  Uploads = {}
  MaxFaults = 1
  MaxCrashes = 1
  MaxDrops = 1
INVARIANTS ScreensOK AnchorErrorIsOffered SealedIsShown
PROPERTY AnchoredOrAbandoned
CHECK_DEADLOCK FALSE
