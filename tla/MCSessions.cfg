SPECIFICATION Spec
CONSTANTS
  None = None
  Creators = {c1, c2}
  Guests = {g1, g2}
  Codes = {k1, k2}
  MaxAttempts = 2
  MaxFailures = 3
CHECK_DEADLOCK FALSE
SYMMETRY Symmetry
INVARIANTS TypeOK CodeNamesOneSession JoinReachesShown OnePartyB InsideIsListed
PROPERTY JoinNeverUnlocks
