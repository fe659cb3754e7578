SPECIFICATION VerifySpec
CONSTANTS
  Pdf = Pdf
  None = None
  Overwritten = Overwritten
  Photos = {p1, p2}
  Sketches = {}
  Deletes = {d1}
  MaxFailures = 1
  MaxOverwrites = 2
CHECK_DEADLOCK FALSE
SYMMETRY Symmetry
INVARIANTS VerifyTypeOK VerifiedWasIntact ReplacedIsNotVerified SealedVerifies
PROPERTY ImplementsLife
