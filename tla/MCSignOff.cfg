SPECIFICATION Spec
CONSTANTS
  None = None
  Patches = {p1, p2}
  Uploads = {u1, u2}
  MaxFaults = 1
  MaxCrashes = 1
CHECK_DEADLOCK FALSE
SYMMETRY Symmetry
INVARIANTS TypeOK LastWriteStands LockedIsSigned CompletingWriteLocks ChainMovesOn
PROPERTY ImplementsSignedLock
