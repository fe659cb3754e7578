SPECIFICATION RetrySpec
CONSTANTS
  Callers = {cA, cB}
  Lockers = {l1}
  Uploads = {}
  MaxFaults = 1
  MaxCrashes = 0
PROPERTY LockedIsSealed
