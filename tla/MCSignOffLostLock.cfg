SPECIFICATION Spec
CONSTANTS
  None = None
  Patches = {}
  Uploads = {u1, u2}
  MaxFaults = 0
  MaxCrashes = 0
CHECK_DEADLOCK FALSE
INVARIANT SignedIsLocked
